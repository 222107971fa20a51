----------------------------- MODULE GateProofs -----------------------------
(***************************************************************************)
(* Proofs about the gate, for every value of its constants.  IInv is the   *)
(* inductive invariant: the type invariant, the four safety invariants of  *)
(* Gate.tla, which need each other (a session that ends closes the         *)
(* firewall on its address, which is right only if no other session has    *)
(* that address), and a bound on the pending starter tasks.                *)
(*                                                                         *)
(* PaceInv, which needs no part of that but the types, is about the time a *)
(* session has had.  The last part is about the access table under tasks   *)
(* that are preempted inside their calls (AccessRace.tla), which shares no *)
(* state with the gate's.                                                  *)
(***************************************************************************)
EXTENDS Gate, AccessRace, FiniteSetTheorems, WellFoundedInduction, TLAPS

(* The order on the indices of a table.                                    *)
Less == {ss \in Nat \X Nat : ss[1] < ss[2]}

(* The order by which First picks a slot is well founded.                  *)
LEMMA LessWellFounded == IsWellFoundedOn(Less, Nat)
BY NatLessThanWellFounded, Zenon DEF OpToRel, Less

(* A loop over the table that looks for a slot of S finds one.             *)
LEMMA FirstIn ==
    ASSUME NEW S \in SUBSET Slots, S # {}
    PROVE  First(S) \in S
<1>1. S \subseteq Nat
  BY GateAssumption DEF Slots
<1>2. \E x \in S : \A y \in S : ~ (<<y, x>> \in Less)
  BY <1>1, LessWellFounded, WFMin
<1>3. PICK i \in S : \A j \in S : <<j, i>> \notin Less
  BY <1>2
<1>4. ASSUME NEW j \in S, j < i
      PROVE  FALSE
  <2>1. <<j, i>> \in Less
    BY <1>1, <1>4 DEF Less
  <2> QED
    BY <1>3, <2>1
<1>5. \A j \in S : i <= j
  BY <1>1, <1>4
<1> QED
  BY <1>5 DEF First

(* A wrapped counter or word stays below its modulus.                      *)
LEMMA ModType ==
    ASSUME NEW x \in Nat, NEW w \in Nat \ {0}
    PROVE  x % w \in 0..(w - 1)
OBVIOUS

(* A set of slots has at most MaxSessions members.                         *)
LEMMA SlotsFinite ==
    ASSUME NEW S \in SUBSET Slots
    PROVE  /\ IsFiniteSet(S)
           /\ Cardinality(S) \in 0..MaxSessions
<1>1. IsFiniteSet(Slots) /\ Cardinality(Slots) = MaxSessions
  BY FS_Interval, GateAssumption DEF Slots
<1>2. IsFiniteSet(S) /\ Cardinality(S) <= MaxSessions
  BY <1>1, FS_Subset
<1> QED
  BY <1>2, FS_CardinalityType, GateAssumption

(***************************************************************************)
(* The access lists.                                                       *)
(***************************************************************************)

(* AuthAgrees, of any pair of lists.                                       *)
Agrees(acc, old) ==
    /\ old = {} => acc.auth = acc.fw
    /\ acc.auth \ acc.fw \subseteq old

(* tollgate_core_fw_grant adds at most the address it is given and keeps   *)
(* the two lists in agreement.                                             *)
LEMMA GrantAgrees ==
    ASSUME NEW acc \in Access, NEW ip \in IP, NEW old, Agrees(acc, old)
    PROVE  /\ FwGrant(acc, ip) \in Access
           /\ FwGrant(acc, ip).fw \subseteq acc.fw \cup {ip}
           /\ Agrees(FwGrant(acc, ip), old)
<1>1. CASE ip \in acc.fw \/ Cardinality(acc.fw) >= MaxFw
  BY <1>1 DEF FwGrant
<1>2. CASE ~(ip \in acc.fw \/ Cardinality(acc.fw) >= MaxFw)
  <2> DEFINE list == Authenticate(acc.auth, ip)
  <2>1. FwGrant(acc, ip) = [fw |-> acc.fw \cup {ip}, auth |-> list]
    BY <1>2 DEF FwGrant
  <2>2. list \subseteq acc.auth \cup {ip} /\ acc.auth \subseteq list
    BY DEF Authenticate
  <2>3. ASSUME old = {} PROVE list = acc.fw \cup {ip}
    <3>1. IsFiniteSet(acc.fw)
      BY FS_Subset, FirewallAssumption DEF Access
    <3>2. Cardinality(acc.fw) \in Nat
      BY <3>1, FS_CardinalityType
    <3>3. Cardinality(acc.fw) < MaxAuth
      BY <1>2, <3>2, FirewallAssumption
    <3>4. acc.auth = acc.fw
      BY <2>3 DEF Agrees
    <3> QED
      BY <3>3, <3>4 DEF Authenticate
  <2>4. FwGrant(acc, ip) \in Access
    BY <2>1, <2>2 DEF Access
  <2> HIDE DEF list
  <2>5. Agrees(FwGrant(acc, ip), old)
    BY <2>1, <2>2, <2>3 DEF Agrees, Access
  <2> QED
    BY <2>1, <2>4, <2>5
<1> QED
  BY <1>1, <1>2

(* tollgate_core_fw_revoke removes exactly the addresses it is given and   *)
(* keeps the two lists in agreement.                                       *)
LEMMA RevokeAgrees ==
    ASSUME NEW acc \in Access, NEW ips, NEW old, Agrees(acc, old)
    PROVE  /\ FwRevoke(acc, ips) \in Access
           /\ FwRevoke(acc, ips).fw = acc.fw \ ips
           /\ Agrees(FwRevoke(acc, ips), old)
BY DEF FwRevoke, Agrees, Access

(* tollgate_core_fw_revoke_all empties the table and keeps the agreement.  *)
LEMMA RevokeAllAgrees ==
    ASSUME NEW acc \in Access, NEW old, Agrees(acc, old)
    PROVE  /\ FwRevokeAll(acc) \in Access
           /\ FwRevokeAll(acc).fw = {}
           /\ Agrees(FwRevokeAll(acc), old)
BY DEF FwRevokeAll, Agrees, Access

(***************************************************************************)
(* The session table.                                                      *)
(***************************************************************************)

(* A revoked slot is an inactive session.                                  *)
LEMMA ReleasedType ==
    ASSUME NEW s \in Session
    PROVE  Released(s) \in Session /\ ~Released(s).active
<1>1. 0 \in 0..(Word - 1) /\ 0 \in 0..(TickWrap - 1)
  BY GateAssumption DEF Word
<1> QED
  BY <1>1 DEF Released, ZeroSession, Session

(* tollgate_core_session_extend leaves slot and client alone.              *)
LEMMA ExtendedType ==
    ASSUME NEW s \in Session, NEW a \in Nat
    PROVE  /\ Extended(s, a) \in Session
           /\ Extended(s, a).active = s.active
           /\ Extended(s, a).client_ip = s.client_ip
<1>1. s.allotment_ms + a \in Nat /\ Word \in Nat \ {0}
  BY GateAssumption DEF Session, Word
<1>2. (s.allotment_ms + a) % Word \in 0..(Word - 1)
  BY <1>1, ModType
<1> QED
  BY <1>2 DEF Extended, Session

(* tollgate_core_session_create makes an active session of its client.     *)
LEMMA OpenedType ==
    ASSUME NEW s \in Session, NEW ip \in IP, NEW a \in 0..MaxAllot,
           now \in 0..(TickWrap - 1)
    PROVE  /\ Opened(s, ip, a) \in Session
           /\ Opened(s, ip, a).active
           /\ Opened(s, ip, a).client_ip = ip
<1>1. a \in 0..(Word - 1)
  BY GateAssumption DEF Word
<1> QED
  BY <1>1 DEF Opened, Session

(* tg_payment_method_t.                                                    *)
Methods == {"cashu", "mining", "bytes"}

(* What the callers of tollgate_core_session_create do to the session      *)
(* changes neither its client nor that it is active.                       *)
LEMMA FinishedType ==
    ASSUME NEW s \in Session, NEW a \in Nat, NEW method \in Methods
    PROVE  /\ Finished(s, method, a) \in Session
           /\ Finished(s, method, a).active = s.active
           /\ Finished(s, method, a).client_ip = s.client_ip
<1>1. IntMax \in 0..(Word - 1)
  BY GateAssumption DEF Word
<1>2. CASE method = "cashu"
  BY <1>2 DEF Finished
<1>3. CASE method = "mining"
  BY <1>3 DEF Finished, Session
<1>4. CASE method = "bytes"
  BY <1>1, <1>4 DEF Finished, Session
<1> QED
  BY <1>2, <1>3, <1>4 DEF Methods

(* Revoking the sessions of gone, as check_expiry and                      *)
(* tollgate_core_session_revoke_all do, leaves the others as they are and  *)
(* the count right.                                                        *)
LEMMA ReleaseTable ==
    ASSUME sessions \in [Slots -> Session], CountIsActive, OneSessionPerClient,
           NEW gone \in SUBSET Active,
           sessions' = [i \in Slots |-> IF i \in gone THEN Released(sessions[i])
                                       ELSE sessions[i]],
           session_count' = session_count - Cardinality(gone)
    PROVE  /\ sessions' \in [Slots -> Session]
           /\ session_count' \in 0..MaxSessions
           /\ Active' = Active \ gone
           /\ \A i \in Active' : sessions'[i] = sessions[i]
           /\ CountIsActive'
           /\ OneSessionPerClient'
<1>1. \A i \in Slots : Released(sessions[i]) \in Session /\ ~Released(sessions[i]).active
  BY ReleasedType
<1>2. sessions' \in [Slots -> Session]
  BY <1>1
<1>3. Active' = Active \ gone
  BY <1>1 DEF Active
<1>4. \A i \in Active' : sessions'[i] = sessions[i]
  BY <1>3 DEF Active
<1>5. CountIsActive'
  <2>1. Active \in SUBSET Slots /\ IsFiniteSet(Active)
    BY SlotsFinite DEF Active
  <2>2. Active \cap gone = gone
    OBVIOUS
  <2>3. Cardinality(Active \ gone) = Cardinality(Active) - Cardinality(gone)
    BY <2>1, <2>2, FS_Difference
  <2> QED
    BY <1>3, <2>3 DEF CountIsActive
<1>6. session_count' \in 0..MaxSessions
  <2>1. Active' \in SUBSET Slots
    BY <1>3 DEF Active
  <2> QED
    BY <1>5, <2>1, SlotsFinite DEF CountIsActive
<1>7. OneSessionPerClient'
  BY <1>3, <1>4 DEF OneSessionPerClient
<1> QED
  BY <1>2, <1>3, <1>4, <1>5, <1>6, <1>7

(***************************************************************************)
(* The inductive invariant.  The last conjunct is what bounds the number   *)
(* of tasks waiting to start the services: app_main creates at most one,   *)
(* and ip_event_handler one more.                                          *)
(***************************************************************************)
StartersBound == ~spawned => starters <= 1

IInv ==
    /\ TypeOK
    /\ CountIsActive
    /\ OneSessionPerClient
    /\ AccessIsOwed
    /\ AuthAgrees
    /\ StartersBound

(* The static initial state of the tables satisfies the invariant.         *)
LEMMA InitIInv == Init => IInv
<1> SUFFICES ASSUME Init PROVE IInv
  OBVIOUS
<1>1. ZeroSession \in Session
  <2>1. 0 \in 0..(Word - 1) /\ 0 \in 0..(TickWrap - 1)
    BY GateAssumption DEF Word
  <2> QED
    BY <2>1 DEF ZeroSession, Session
<1>2. Active = {}
  BY DEF Init, Active, ZeroSession
<1>3. TypeOK
  <2>1. sessions \in [Slots -> Session]
    BY <1>1 DEF Init
  <2>2. age \in [Slots -> 0..MaxAge] /\ now \in 0..(TickWrap - 1) /\ lag \in 0..MaxLag
    BY GateAssumption DEF Init, MaxAge
  <2>3. session_count \in 0..MaxSessions /\ starters \in 0..2
    BY GateAssumption DEF Init
  <2>4. access \in Access
    BY DEF Init, Access, NoAccess
  <2> QED
    BY <2>1, <2>2, <2>3, <2>4, Zenon DEF Init, TypeOK
<1>4. CountIsActive
  BY <1>2, FS_EmptySet DEF Init, CountIsActive
<1>5. OneSessionPerClient /\ AccessIsOwed /\ AuthAgrees /\ StartersBound
  BY <1>2 DEF Init, OneSessionPerClient, AccessIsOwed, AuthAgrees, NoAccess, StartersBound
<1> QED
  BY <1>3, <1>4, <1>5 DEF IInv

(* tollgate_core_tick preserves the invariant.                             *)
LEMMA TickIInv ==
    ASSUME IInv, Tick
    PROVE  IInv'
<1> DEFINE gone == {i \in Active : IsExpired(sessions[i])}
<1>1. sessions \in [Slots -> Session] /\ CountIsActive /\ OneSessionPerClient
  BY DEF IInv, TypeOK
<1>2. /\ sessions' = [i \in Slots |-> IF i \in gone THEN Released(sessions[i])
                                      ELSE sessions[i]]
      /\ session_count' = session_count - Cardinality(gone)
      /\ access' = FwRevoke(access, AddressesOf(gone))
      /\ free' = free \ AddressesOf(gone)
      /\ age' = [i \in Slots |-> IF i \in gone THEN 0 ELSE age[i]]
      /\ lag' = 0
      /\ UNCHANGED <<metric, now, svcVars, carried>>
  BY DEF Tick
<1>3. gone \in SUBSET Active
  OBVIOUS
<1> HIDE DEF gone
<1>4. /\ sessions' \in [Slots -> Session]
      /\ session_count' \in 0..MaxSessions
      /\ Active' = Active \ gone
      /\ \A i \in Active' : sessions'[i] = sessions[i]
      /\ CountIsActive'
      /\ OneSessionPerClient'
  BY <1>1, <1>2, <1>3, ReleaseTable
<1>5. /\ access' \in Access
      /\ access'.fw = access.fw \ AddressesOf(gone)
      /\ AuthAgrees'
  <2>1. Agrees(access, carried) /\ access \in Access
    BY DEF IInv, AuthAgrees, Agrees, TypeOK
  <2>2. /\ access' \in Access
        /\ access'.fw = access.fw \ AddressesOf(gone)
        /\ Agrees(access', carried)
    BY <1>2, <2>1, RevokeAgrees
  <2> QED
    BY <1>2, <2>2 DEF AuthAgrees, Agrees
<1>6. AccessIsOwed'
  BY <1>2, <1>4, <1>5 DEF IInv, AccessIsOwed, AddressesOf
<1>7. age' \in [Slots -> 0..MaxAge] /\ lag' \in 0..MaxLag
  BY <1>2, GateAssumption DEF IInv, TypeOK, MaxAge
<1>8. TypeOK'
  BY <1>2, <1>4, <1>5, <1>7 DEF IInv, TypeOK, svcVars
<1>9. StartersBound'
  BY <1>2 DEF IInv, StartersBound, svcVars
<1> QED
  BY <1>4, <1>5, <1>6, <1>8, <1>9 DEF IInv

(* reset_auth_handler preserves the invariant.                             *)
LEMMA ResetAuthIInv ==
    ASSUME IInv, ResetAuth
    PROVE  IInv'
<1>1. sessions \in [Slots -> Session] /\ CountIsActive /\ OneSessionPerClient
  BY DEF IInv, TypeOK
<1>2. /\ sessions' = [i \in Slots |-> IF i \in Active THEN Released(sessions[i])
                                      ELSE sessions[i]]
      /\ session_count' = session_count - Cardinality(Active)
      /\ access' = FwRevokeAll(FwRevoke(access, AddressesOf(Active)))
      /\ free' = {}
      /\ age' = [i \in Slots |-> 0]
      /\ UNCHANGED <<metric, now, lag, svcVars, carried>>
  BY DEF ResetAuth
<1>3. Active \in SUBSET Active
  OBVIOUS
<1>4. /\ sessions' \in [Slots -> Session]
      /\ session_count' \in 0..MaxSessions
      /\ CountIsActive'
      /\ OneSessionPerClient'
  BY <1>1, <1>2, <1>3, ReleaseTable
<1>5. access' \in Access /\ access'.fw = {} /\ AuthAgrees'
  <2> DEFINE acc == FwRevoke(access, AddressesOf(Active))
  <2>1. Agrees(access, carried) /\ access \in Access
    BY DEF IInv, AuthAgrees, Agrees, TypeOK
  <2>2. acc \in Access /\ Agrees(acc, carried)
    BY <2>1, RevokeAgrees
  <2> HIDE DEF acc
  <2>3. FwRevokeAll(acc) \in Access /\ FwRevokeAll(acc).fw = {} /\ Agrees(FwRevokeAll(acc), carried)
    BY <2>2, RevokeAllAgrees
  <2>4. access' = FwRevokeAll(acc)
    BY <1>2 DEF acc
  <2> QED
    BY <1>2, <2>3, <2>4 DEF AuthAgrees, Agrees
<1>6. AccessIsOwed'
  BY <1>5 DEF AccessIsOwed
<1>7. age' \in [Slots -> 0..MaxAge] /\ free' \subseteq IP
  BY <1>2, GateAssumption DEF MaxAge
<1>8. TypeOK'
  BY <1>2, <1>4, <1>5, <1>7 DEF IInv, TypeOK, svcVars
<1>9. StartersBound'
  BY <1>2 DEF IInv, StartersBound, svcVars
<1> QED
  BY <1>4, <1>5, <1>6, <1>8, <1>9 DEF IInv

(* Extending a session changes neither who has one nor which slots do.     *)
LEMMA TopUpTable ==
    ASSUME IInv, NEW ip \in IP, NEW method \in Methods, NEW a \in Nat,
           TopUp(ip, method, a)
    PROVE  /\ sessions' \in [Slots -> Session]
           /\ Active' = Active
           /\ \A i \in Slots : sessions'[i].client_ip = sessions[i].client_ip
<1> DEFINE i == First(SlotsOf(ip))
           e == Extended(sessions[i], Millis(method, a))
           s == Finished(e, method, a)
<1>1. sessions \in [Slots -> Session]
  BY DEF IInv, TypeOK
<1>2. i \in Slots
  <2>1. SlotsOf(ip) \in SUBSET Slots /\ SlotsOf(ip) # {}
    BY DEF TopUp, SlotsOf, Active
  <2> QED
    BY <2>1, FirstIn
<1>3. Millis(method, a) \in Nat
  BY DEF Millis
<1>4. sessions' = [sessions EXCEPT ![i] = s]
  BY DEF TopUp
<1> HIDE DEF i
<1>5. e \in Session /\ e.active = sessions[i].active /\ e.client_ip = sessions[i].client_ip
  BY <1>1, <1>2, <1>3, ExtendedType
<1> HIDE DEF e
<1>6. s \in Session /\ s.active = sessions[i].active /\ s.client_ip = sessions[i].client_ip
  BY <1>5, FinishedType
<1> HIDE DEF s
<1>7. sessions' \in [Slots -> Session]
  BY <1>1, <1>2, <1>4, <1>6
<1>8. \A j \in Slots : /\ sessions'[j].client_ip = sessions[j].client_ip
                        /\ sessions'[j].active = sessions[j].active
  BY <1>1, <1>2, <1>4, <1>6
<1> QED
  BY <1>7, <1>8 DEF Active

(* tollgate_core_session_create on a client with a session preserves the   *)
(* invariant.                                                              *)
LEMMA TopUpIInv ==
    ASSUME IInv, NEW ip \in IP, NEW method \in Methods, NEW a \in Nat,
           TopUp(ip, method, a),
           UNCHANGED <<metric, now, lag, svcVars, carried>>
    PROVE  IInv'
<1>1. /\ sessions' \in [Slots -> Session]
      /\ Active' = Active
      /\ \A i \in Slots : sessions'[i].client_ip = sessions[i].client_ip
  BY TopUpTable
<1>2. UNCHANGED <<session_count, access, free, age>>
  BY DEF TopUp
<1>3. TypeOK'
  BY <1>1, <1>2 DEF IInv, TypeOK, svcVars
<1>4. CountIsActive'
  BY <1>1, <1>2 DEF IInv, CountIsActive
<1>5. OneSessionPerClient'
  BY <1>1 DEF IInv, OneSessionPerClient, Active
<1>6. AccessIsOwed'
  BY <1>1, <1>2 DEF IInv, AccessIsOwed, AddressesOf, Active
<1>7. AuthAgrees' /\ StartersBound'
  BY <1>2 DEF IInv, AuthAgrees, StartersBound, svcVars
<1> QED
  BY <1>3, <1>4, <1>5, <1>6, <1>7 DEF IInv

(* tollgate_core_session_create on a client without a session preserves    *)
(* the invariant, whether or not it has to evict.                          *)
LEMMA OpenIInv ==
    ASSUME IInv, NEW ip \in IP, NEW method \in Methods, NEW a \in Nat,
           Open(ip, method, a),
           UNCHANGED <<metric, now, lag, svcVars, carried>>
    PROVE  IInv'
<1> DEFINE gone == Evicted
           unused == (Slots \ Active) \cup gone
           i == First(unused)
           o == Opened(sessions[i], ip, Millis(method, a))
           s == Finished(o, method, a)
<1>1. /\ SlotsOf(ip) = {}
      /\ unused # {}
      /\ Millis(method, a) <= MaxAllot
      /\ sessions' = [j \in Slots |->
            IF j = i THEN Finished(Opened(sessions[j], ip, Millis(method, a)), method, a)
            ELSE IF j \in gone THEN Released(sessions[j]) ELSE sessions[j]]
      /\ session_count' = session_count - Cardinality(gone) + 1
      /\ access' = FwGrant(FwRevoke(access, AddressesOf(gone)), ip)
      /\ free' = (free \ AddressesOf(gone)) \ {ip}
      /\ age' = [j \in Slots |-> IF j \in gone \cup {i} THEN 0 ELSE age[j]]
  BY DEF Open
<1>2. gone \in SUBSET Active /\ Active \in SUBSET Slots
  BY DEF Evicted, Active
<1> HIDE DEF gone
<1>3. unused \in SUBSET Slots
  BY <1>2
<1>4. i \in unused /\ i \in Slots
  BY <1>1, <1>3, FirstIn
<1>5. i \notin Active \ gone
  BY <1>4
<1>6. sessions \in [Slots -> Session] /\ now \in 0..(TickWrap - 1)
  BY DEF IInv, TypeOK
<1> HIDE DEF i
<1>7. s \in Session /\ s.active /\ s.client_ip = ip
  <2>1. Millis(method, a) \in 0..MaxAllot
    BY <1>1, GateAssumption DEF Millis
  <2>2. o \in Session /\ o.active /\ o.client_ip = ip
    BY <1>4, <1>6, <2>1, OpenedType
  <2> HIDE DEF o
  <2> QED
    BY <2>2, FinishedType
<1>8. sessions' = [j \in Slots |-> IF j = i THEN s
                                  ELSE IF j \in gone THEN Released(sessions[j])
                                  ELSE sessions[j]]
  BY <1>1
<1> HIDE DEF s, o
<1>9. \A j \in Slots : Released(sessions[j]) \in Session /\ ~Released(sessions[j]).active
  BY <1>6, ReleasedType
<1>10. sessions' \in [Slots -> Session]
  BY <1>6, <1>7, <1>8, <1>9
<1>11. Active' = (Active \ gone) \cup {i}
  BY <1>2, <1>4, <1>7, <1>8, <1>9 DEF Active
<1>12. /\ sessions'[i].client_ip = ip
       /\ \A j \in Active' \ {i} : j \in Active \ gone /\ sessions'[j] = sessions[j]
  BY <1>2, <1>4, <1>7, <1>8, <1>11
<1>13. CountIsActive'
  <2>1. IsFiniteSet(Active)
    BY <1>2, SlotsFinite
  <2>2. Active \cap gone = gone
    BY <1>2
  <2>3. /\ IsFiniteSet(Active \ gone)
        /\ Cardinality(Active \ gone) = Cardinality(Active) - Cardinality(gone)
    BY <2>1, <2>2, FS_Difference
  <2>4. Cardinality(Active') = Cardinality(Active \ gone) + 1
    BY <1>5, <1>11, <2>3, FS_AddElement
  <2> QED
    BY <1>1, <2>3, <2>4 DEF IInv, CountIsActive
<1>14. session_count' \in 0..MaxSessions
  <2>1. Active' \in SUBSET Slots
    BY <1>2, <1>4, <1>11
  <2> QED
    BY <1>13, <2>1, SlotsFinite DEF CountIsActive
<1>15. OneSessionPerClient'
  <2>1. \A j \in Active : sessions[j].client_ip # ip
    BY <1>1 DEF SlotsOf
  <2> QED
    BY <1>12, <2>1 DEF IInv, OneSessionPerClient
<1>16. /\ access' \in Access
       /\ access'.fw \subseteq (access.fw \ AddressesOf(gone)) \cup {ip}
       /\ AuthAgrees'
  <2> DEFINE acc == FwRevoke(access, AddressesOf(gone))
  <2>1. Agrees(access, carried) /\ access \in Access
    BY DEF IInv, AuthAgrees, Agrees, TypeOK
  <2>2. acc \in Access /\ acc.fw = access.fw \ AddressesOf(gone) /\ Agrees(acc, carried)
    BY <2>1, RevokeAgrees
  <2>3. access' = FwGrant(acc, ip)
    BY <1>1
  <2> HIDE DEF acc
  <2>4. access' \in Access /\ access'.fw \subseteq acc.fw \cup {ip} /\ Agrees(access', carried)
    BY <2>2, <2>3, GrantAgrees
  <2> QED
    BY <2>2, <2>4 DEF AuthAgrees, Agrees
<1>17. AccessIsOwed'
  <2> SUFFICES ASSUME NEW x \in access'.fw
               PROVE  x \in AddressesOf(Active)' \/ x \in free'
    BY DEF AccessIsOwed
  <2>1. CASE x = ip
    BY <1>11, <1>12, <2>1 DEF AddressesOf
  <2>2. CASE x # ip /\ x \in access.fw /\ x \notin AddressesOf(gone)
    <3>1. CASE x \in free
      BY <1>1, <2>2, <3>1
    <3>2. CASE x \in AddressesOf(Active)
      <4>1. PICK j \in Active : x = sessions[j].client_ip
        BY <3>2 DEF AddressesOf
      <4>2. j \notin gone
        BY <2>2, <4>1 DEF AddressesOf
      <4>3. j \in Active' /\ j # i
        BY <1>5, <1>11, <4>2
      <4>4. sessions'[j] = sessions[j]
        BY <1>12, <4>3
      <4> QED
        BY <4>1, <4>3, <4>4 DEF AddressesOf
    <3> QED
      BY <2>2, <3>1, <3>2 DEF IInv, AccessIsOwed
  <2> QED
    BY <1>16, <2>1, <2>2
<1>18. age' \in [Slots -> 0..MaxAge]
  BY <1>1, GateAssumption DEF IInv, TypeOK, MaxAge
<1>19. TypeOK'
  BY <1>1, <1>10, <1>14, <1>16, <1>18 DEF IInv, TypeOK, svcVars
<1>20. StartersBound'
  BY DEF IInv, StartersBound, svcVars
<1> QED
  BY <1>13, <1>15, <1>16, <1>17, <1>19, <1>20 DEF IInv

(* Payments and shares preserve the invariant.                             *)
LEMMA CreateIInv ==
    ASSUME IInv, NEW ip \in IP, NEW method \in Methods, NEW a \in Nat,
           Create(ip, method, a)
    PROVE  IInv'
<1>1. CASE TopUp(ip, method, a)
  BY <1>1, TopUpIInv DEF Create
<1>2. CASE Open(ip, method, a)
  BY <1>2, OpenIInv DEF Create
<1> QED
  BY <1>1, <1>2 DEF Create

(* grant_access_handler preserves the invariant.                           *)
LEMMA GrantAccessIInv ==
    ASSUME IInv, NEW ip \in IP, GrantAccess(ip)
    PROVE  IInv'
<1>1. UNCHANGED <<sessVars, metric, timeVars, svcVars, carried>> /\ Active' = Active
  BY DEF GrantAccess, sessVars, Active
<1>2. access' \in Access /\ access'.fw \subseteq access.fw \cup {ip} /\ AuthAgrees'
  <2>1. Agrees(access, carried) /\ access \in Access
    BY DEF IInv, AuthAgrees, Agrees, TypeOK
  <2>2. access' = FwGrant(access, ip)
    BY DEF GrantAccess
  <2>3. access' \in Access /\ access'.fw \subseteq access.fw \cup {ip} /\ Agrees(access', carried)
    BY <2>1, <2>2, GrantAgrees
  <2> QED
    BY <1>1, <2>3 DEF AuthAgrees, Agrees
<1>3. free' \subseteq IP /\ free \subseteq free'
  BY DEF IInv, TypeOK, GrantAccess
<1>4. ip \in access'.fw => ip \in AddressesOf(Active) \cup free'
  BY DEF GrantAccess
<1>5. AddressesOf(Active)' = AddressesOf(Active)
  BY <1>1 DEF AddressesOf, sessVars
<1>6. AccessIsOwed'
  BY <1>2, <1>3, <1>4, <1>5 DEF IInv, AccessIsOwed
<1>7. TypeOK'
  BY <1>1, <1>2, <1>3 DEF IInv, TypeOK, sessVars, timeVars, svcVars
<1>8. CountIsActive' /\ OneSessionPerClient' /\ StartersBound'
  BY <1>1 DEF IInv, CountIsActive, OneSessionPerClient, StartersBound, sessVars, svcVars
<1> QED
  BY <1>2, <1>6, <1>7, <1>8 DEF IInv

(* The tick counter, wrapping or not, preserves the invariant.             *)
LEMMA ClockIInv ==
    ASSUME IInv, Clock
    PROVE  IInv'
<1>1. /\ UNCHANGED <<sessVars, access, metric, svcVars, free, carried>>
      /\ Active' = Active
  BY DEF Clock, sessVars, Active
<1>2. now' \in 0..(TickWrap - 1) /\ lag' \in 0..MaxLag
  <2>1. now + 1 \in Nat /\ TickWrap \in Nat \ {0}
    BY GateAssumption DEF IInv, TypeOK
  <2> QED
    BY <2>1, ModType, GateAssumption DEF IInv, TypeOK, Clock
<1>3. age' \in [Slots -> 0..MaxAge]
  BY GateAssumption DEF IInv, TypeOK, Clock, MaxAge
<1>4. TypeOK'
  BY <1>1, <1>2, <1>3 DEF IInv, TypeOK, sessVars, svcVars
<1>5. /\ CountIsActive' /\ OneSessionPerClient' /\ AccessIsOwed'
      /\ AuthAgrees' /\ StartersBound'
  BY <1>1 DEF IInv, CountIsActive, OneSessionPerClient, AccessIsOwed, AddressesOf,
              AuthAgrees, StartersBound, sessVars, svcVars
<1> QED
  BY <1>4, <1>5 DEF IInv

(* tollgate_core_session_add_bytes preserves the invariant.                *)
LEMMA AddBytesIInv ==
    ASSUME IInv, NEW ip \in IP, NEW n \in Traffic, AddBytes(ip, n)
    PROVE  IInv'
<1> DEFINE i == First(SlotsOf(ip))
           m == sessions[i].bytes_consumed + n
<1>1. sessions \in [Slots -> Session]
  BY DEF IInv, TypeOK
<1>2. i \in Slots
  <2>1. SlotsOf(ip) \in SUBSET Slots /\ SlotsOf(ip) # {}
    BY DEF AddBytes, SlotsOf, Active
  <2> QED
    BY <2>1, FirstIn
<1>3. /\ sessions' = [sessions EXCEPT ![i] = [sessions[i] EXCEPT !.bytes_consumed = m]]
      /\ UNCHANGED <<session_count, access, metric, timeVars, svcVars, free, carried>>
  BY <1>1, <1>2 DEF AddBytes
<1> HIDE DEF i
<1>4. m \in Nat
  BY <1>1, <1>2, GateAssumption DEF Session
<1> HIDE DEF m
<1>5. sessions' \in [Slots -> Session]
  BY <1>1, <1>2, <1>3, <1>4 DEF Session
<1>6. \A j \in Slots : /\ sessions'[j].active = sessions[j].active
                       /\ sessions'[j].client_ip = sessions[j].client_ip
  BY <1>1, <1>2, <1>3 DEF Session
<1>7. Active' = Active /\ AddressesOf(Active)' = AddressesOf(Active)
  BY <1>6 DEF Active, AddressesOf
<1>8. TypeOK'
  BY <1>3, <1>5 DEF IInv, TypeOK, timeVars, svcVars
<1>9. OneSessionPerClient'
  BY <1>6, <1>7 DEF IInv, OneSessionPerClient, Active
<1>10. CountIsActive' /\ AccessIsOwed' /\ AuthAgrees' /\ StartersBound'
  BY <1>3, <1>7 DEF IInv, CountIsActive, AccessIsOwed, AuthAgrees, StartersBound, svcVars
<1> QED
  BY <1>8, <1>9, <1>10 DEF IInv

(* start_services preserves the invariant.                                 *)
LEMMA StartServicesIInv ==
    ASSUME IInv, StartServices
    PROVE  IInv'
<1>1. /\ starters' \in 0..2 /\ StartersBound'
      /\ UNCHANGED <<metric, now, lag, spawned>>
  BY DEF IInv, TypeOK, StartersBound, StartServices
<1>2. CASE running
  <2>1. UNCHANGED <<sessVars, access, age, inited, running, portal, free, carried>>
    BY <1>2 DEF StartServices
  <2>2. TypeOK'
    BY <1>1, <2>1 DEF IInv, TypeOK, sessVars
  <2>3. CountIsActive' /\ OneSessionPerClient' /\ AccessIsOwed' /\ AuthAgrees'
    BY <2>1 DEF IInv, CountIsActive, OneSessionPerClient, AccessIsOwed, AuthAgrees,
                AddressesOf, Active, sessVars
  <2> QED
    BY <1>1, <2>2, <2>3 DEF IInv
<1>3. CASE ~running
  <2>1. /\ sessions' = [i \in Slots |-> ZeroSession]
        /\ session_count' = 0
        /\ access' = FwInit(access)
        /\ age' = [i \in Slots |-> 0]
        /\ inited' = TRUE /\ running' = TRUE /\ portal' = TRUE
        /\ free' = {} /\ carried' = access.auth
    BY <1>3 DEF StartServices
  <2>2. ZeroSession \in Session
    <3>1. 0 \in 0..(Word - 1) /\ 0 \in 0..(TickWrap - 1)
      BY GateAssumption DEF Word
    <3> QED
      BY <3>1 DEF ZeroSession, Session
  <2>3. Active' = {}
    BY <2>1 DEF Active, ZeroSession
  <2>4. access' \in Access /\ access'.fw = {} /\ access'.auth = access.auth /\ carried' \subseteq IP
    BY <2>1 DEF IInv, TypeOK, Access, FwInit
  <2>5. sessions' \in [Slots -> Session] /\ age' \in [Slots -> 0..MaxAge] /\ session_count' \in 0..MaxSessions
    BY <2>1, <2>2, GateAssumption DEF MaxAge
  <2>6. inited' \in BOOLEAN /\ running' \in BOOLEAN /\ portal' \in BOOLEAN /\ free' \subseteq IP
    BY <2>1
  <2>7. TypeOK'
    BY <1>1, <2>4, <2>5, <2>6 DEF IInv, TypeOK
  <2>8. CountIsActive'
    BY <2>1, <2>3, FS_EmptySet DEF CountIsActive
  <2>9. OneSessionPerClient' /\ AccessIsOwed' /\ AuthAgrees'
    BY <2>1, <2>3, <2>4 DEF OneSessionPerClient, AccessIsOwed, AuthAgrees
  <2> QED
    BY <1>1, <2>7, <2>8, <2>9 DEF IInv
<1> QED
  BY <1>2, <1>3

(* stop_services preserves the invariant.                                  *)
LEMMA StopServicesIInv ==
    ASSUME IInv, StopServices
    PROVE  IInv'
<1>1. /\ running' = FALSE /\ portal' = FALSE /\ free' = {}
      /\ access' = FwRevokeAll(access)
      /\ UNCHANGED <<sessVars, metric, timeVars, inited, spawned, starters, carried>>
      /\ Active' = Active
  BY DEF StopServices, sessVars, Active
<1>2. access' \in Access /\ access'.fw = {} /\ AuthAgrees'
  <2>1. Agrees(access, carried) /\ access \in Access
    BY DEF IInv, AuthAgrees, Agrees, TypeOK
  <2>2. access' \in Access /\ access'.fw = {} /\ Agrees(access', carried)
    BY <1>1, <2>1, RevokeAllAgrees
  <2> QED
    BY <1>1, <2>2 DEF AuthAgrees, Agrees
<1>3. running' \in BOOLEAN /\ portal' \in BOOLEAN /\ free' \subseteq IP
  BY <1>1
<1>4. TypeOK'
  BY <1>1, <1>2, <1>3 DEF IInv, TypeOK, sessVars, timeVars
<1>5. CountIsActive' /\ OneSessionPerClient' /\ AccessIsOwed' /\ StartersBound'
  BY <1>1, <1>2 DEF IInv, CountIsActive, OneSessionPerClient, AccessIsOwed,
                    StartersBound, sessVars
<1> QED
  BY <1>2, <1>4, <1>5 DEF IInv

(* Every step of the gate preserves the invariant.                         *)
LEMMA NextIInv ==
    ASSUME IInv, [Next]_vars
    PROVE  IInv'
<1>1. ASSUME NEW ip \in IP, NEW a \in Allotments, Pay(ip, a) PROVE IInv'
  <2>1. a \in Nat /\ (IF metric = "bytes" THEN "bytes" ELSE "cashu") \in Methods
    BY GateAssumption DEF Methods
  <2> QED
    BY <1>1, <2>1, CreateIInv DEF Pay
<1>2. ASSUME NEW ip \in IP, NEW a \in Allotments \cup {0}, MiningShare(ip, a) PROVE IInv'
  <2>1. a \in Nat /\ "mining" \in Methods
    BY GateAssumption DEF Methods
  <2> QED
    BY <1>2, <2>1, CreateIInv DEF MiningShare
<1>3. ASSUME NEW ip \in IP, GrantAccess(ip) PROVE IInv'
  BY <1>3, GrantAccessIInv
<1>4. CASE ResetAuth
  BY <1>4, ResetAuthIInv
<1>5. CASE Tick
  BY <1>5, TickIInv
<1>6. CASE Clock
  BY <1>6, ClockIInv
<1>7. ASSUME NEW m \in Metrics, SetMetric(m) PROVE IInv'
  <2>1. metric' \in Metrics /\ UNCHANGED <<sessVars, access, timeVars, svcVars, free, carried>>
    BY <1>7 DEF SetMetric
  <2> QED
    BY <2>1 DEF IInv, TypeOK, CountIsActive, OneSessionPerClient, AccessIsOwed, AddressesOf,
                Active, AuthAgrees, StartersBound, sessVars, timeVars, svcVars
<1>8. ASSUME NEW ip \in IP, NEW n \in Traffic, AddBytes(ip, n) PROVE IInv'
  BY <1>8, AddBytesIInv
<1>9. CASE GotIp
  <2>1. /\ starters' \in 0..2 /\ spawned' = TRUE
        /\ UNCHANGED <<sessVars, access, metric, timeVars, inited, running, portal, free, carried>>
    BY <1>9 DEF GotIp, IInv, TypeOK, StartersBound
  <2>2. spawned' \in BOOLEAN /\ StartersBound'
    BY <2>1 DEF StartersBound
  <2> QED
    BY <2>1, <2>2 DEF IInv, TypeOK, CountIsActive, OneSessionPerClient, AccessIsOwed, AddressesOf,
                Active, AuthAgrees, sessVars, timeVars
<1>10. CASE StartServices
  BY <1>10, StartServicesIInv
<1>11. CASE StopServices
  BY <1>11, StopServicesIInv
<1>12. CASE UNCHANGED vars
  BY <1>12 DEF IInv, TypeOK, CountIsActive, OneSessionPerClient, AccessIsOwed, AddressesOf,
               Active, AuthAgrees, StartersBound, vars, sessVars, timeVars, svcVars
<1> QED
  BY <1>1, <1>2, <1>3, <1>4, <1>5, <1>6, <1>7, <1>8, <1>9, <1>10, <1>11, <1>12 DEF Next

(* The invariant holds in every state of the gate, for any number of       *)
(* clients, slots, list entries and metrics, and with the tick counter     *)
(* wrapping anywhere.                                                      *)
THEOREM GateInvariant == Spec => []IInv
<1>1. Init => IInv
  BY InitIInv
<1>2. IInv /\ [Next]_vars => IInv'
  BY NextIInv
<1> QED
  BY <1>1, <1>2, PTL DEF Spec

(* Every variable of the gate keeps its type; in particular                *)
(* s_session_count stays within the table.                                 *)
THEOREM GateTypeOK == Spec => []TypeOK
<1>1. IInv => TypeOK
  BY DEF IInv
<1> QED
  BY <1>1, GateInvariant, PTL

(* s_session_count, the test for eviction of tollgate_core_session_create, *)
(* is the number of active sessions.                                       *)
THEOREM GateCount == Spec => []CountIsActive
<1>1. IInv => CountIsActive
  BY DEF IInv
<1> QED
  BY <1>1, GateInvariant, PTL

(* tollgate_core_session_create never gives a client a second session.     *)
THEOREM GateOneSession == Spec => []OneSessionPerClient
<1>1. IInv => OneSessionPerClient
  BY DEF IInv
<1> QED
  BY <1>1, GateInvariant, PTL

(* The firewall passes nobody but clients with a session and those let in  *)
(* by /grant_access.                                                       *)
THEOREM GateAccessIsOwed == Spec => []AccessIsOwed
<1>1. IInv => AccessIsOwed
  BY DEF IInv
<1> QED
  BY <1>1, GateInvariant, PTL

(* The DNS list and the firewall table agree up to what tollgate_core_init *)
(* leaves behind.                                                          *)
THEOREM GateAuthAgrees == Spec => []AuthAgrees
<1>1. IInv => AuthAgrees
  BY DEF IInv
<1> QED
  BY <1>1, GateInvariant, PTL

(***************************************************************************)
(* No client with a session loses its access to what happens to others.    *)
(***************************************************************************)

(* The condition of PaidAccessKept on one step.                            *)
KeepsAccess ==
    \A ip \in AddressesOf(Active) \cap AddressesOf(Active)' :
        ip \in access.fw => ip \in access'.fw \/ (running /\ ~running')

(* tollgate_core_fw_grant takes nobody's access.                           *)
LEMMA GrantMonotone ==
    ASSUME NEW acc \in Access, NEW ip
    PROVE  acc.fw \subseteq FwGrant(acc, ip).fw
BY DEF FwGrant, Access

(* When the sessions of gone end, no address among them belongs to a       *)
(* session that goes on: this is where OneSessionPerClient is needed.      *)
LEMMA GoneAddresses ==
    ASSUME OneSessionPerClient, NEW gone \in SUBSET Active, NEW j \in Active \ gone
    PROVE  sessions[j].client_ip \notin AddressesOf(gone)
BY DEF OneSessionPerClient, AddressesOf

(* tollgate_core_tick closes the firewall on expired sessions only.        *)
LEMMA TickKeeps ==
    ASSUME IInv, Tick
    PROVE  KeepsAccess
<1> DEFINE gone == {i \in Active : IsExpired(sessions[i])}
<1>1. sessions \in [Slots -> Session] /\ CountIsActive /\ OneSessionPerClient /\ access \in Access
  BY DEF IInv, TypeOK
<1>2. /\ sessions' = [i \in Slots |-> IF i \in gone THEN Released(sessions[i])
                                      ELSE sessions[i]]
      /\ session_count' = session_count - Cardinality(gone)
      /\ access' = FwRevoke(access, AddressesOf(gone))
  BY DEF Tick
<1>3. gone \in SUBSET Active
  OBVIOUS
<1> HIDE DEF gone
<1>4. /\ Active' = Active \ gone
      /\ \A i \in Active' : sessions'[i] = sessions[i]
  BY <1>1, <1>2, <1>3, ReleaseTable
<1>5. SUFFICES ASSUME NEW j \in Active', sessions'[j].client_ip \in access.fw
               PROVE  sessions'[j].client_ip \in access'.fw
  BY DEF KeepsAccess, AddressesOf
<1>6. sessions[j].client_ip \notin AddressesOf(gone)
  BY <1>1, <1>3, <1>4, GoneAddresses
<1>7. access'.fw = access.fw \ AddressesOf(gone)
  BY <1>1, <1>2 DEF FwRevoke
<1> QED
  BY <1>4, <1>5, <1>6, <1>7

(* A new session may evict an expired one, but takes nobody else's access. *)
LEMMA OpenKeeps ==
    ASSUME IInv, NEW ip \in IP, NEW method \in Methods, NEW a \in Nat,
           Open(ip, method, a)
    PROVE  KeepsAccess
<1> DEFINE gone == Evicted
           unused == (Slots \ Active) \cup gone
           i == First(unused)
           acc == FwRevoke(access, AddressesOf(gone))
<1>1. /\ SlotsOf(ip) = {}
      /\ unused # {}
      /\ sessions' = [j \in Slots |->
            IF j = i THEN Finished(Opened(sessions[j], ip, Millis(method, a)), method, a)
            ELSE IF j \in gone THEN Released(sessions[j]) ELSE sessions[j]]
      /\ access' = FwGrant(acc, ip)
      /\ Millis(method, a) <= MaxAllot
  BY DEF Open
<1>2. gone \in SUBSET Active /\ Active \in SUBSET Slots
  BY DEF Evicted, Active
<1>3. sessions \in [Slots -> Session] /\ OneSessionPerClient /\ access \in Access
      /\ now \in 0..(TickWrap - 1)
  BY DEF IInv, TypeOK
<1> HIDE DEF gone
<1>4. i \in unused /\ i \in Slots
  <2>1. unused \in SUBSET Slots
    BY <1>2
  <2> QED
    BY <1>1, <2>1, FirstIn
<1> HIDE DEF i
<1>5. acc \in Access /\ acc.fw = access.fw \ AddressesOf(gone)
  BY <1>3 DEF Access, FwRevoke
<1>6. acc.fw \subseteq access'.fw
  <2> HIDE DEF acc
  <2> QED
    BY <1>1, <1>5, GrantMonotone
<1>7. sessions'[i].client_ip = ip
  <2> DEFINE o == Opened(sessions[i], ip, Millis(method, a))
  <2>1. Millis(method, a) \in 0..MaxAllot
    BY <1>1, GateAssumption DEF Millis
  <2>2. o \in Session /\ o.client_ip = ip
    BY <1>3, <1>4, <2>1, OpenedType
  <2>3. sessions'[i] = Finished(o, method, a)
    BY <1>1, <1>4
  <2> HIDE DEF o
  <2> QED
    BY <2>2, <2>3, FinishedType
<1>8. \A j \in Slots : Released(sessions[j]) \in Session /\ ~Released(sessions[j]).active
  BY <1>3, ReleasedType
<1>9. \A j \in Active' \ {i} : j \in Active \ gone /\ sessions'[j] = sessions[j]
  BY <1>1, <1>8 DEF Active
<1>10. SUFFICES ASSUME NEW j \in Active', sessions'[j].client_ip \in access.fw,
                       sessions'[j].client_ip \in AddressesOf(Active)
                PROVE  sessions'[j].client_ip \in access'.fw
  BY DEF KeepsAccess, AddressesOf
<1>11. j # i
  BY <1>1, <1>7, <1>10 DEF SlotsOf, AddressesOf
<1>12. j \in Active \ gone /\ sessions'[j] = sessions[j]
  BY <1>9, <1>11
<1>13. sessions[j].client_ip \notin AddressesOf(gone)
  BY <1>2, <1>3, <1>12, GoneAddresses
<1> QED
  BY <1>5, <1>6, <1>10, <1>12, <1>13

(* No step but stop_services takes the access of a session that goes on.   *)
LEMMA NextKeeps ==
    ASSUME IInv, [Next]_vars
    PROVE  KeepsAccess
<1>1. ASSUME NEW ip \in IP, NEW method \in Methods, NEW a \in Nat, Create(ip, method, a)
      PROVE  KeepsAccess
  <2>1. CASE TopUp(ip, method, a)
    BY <2>1 DEF TopUp, KeepsAccess
  <2>2. CASE Open(ip, method, a)
    BY <2>2, OpenKeeps
  <2> QED
    BY <1>1, <2>1, <2>2 DEF Create
<1>2. ASSUME NEW ip \in IP, NEW a \in Allotments, Pay(ip, a) PROVE KeepsAccess
  <2>1. a \in Nat /\ (IF metric = "bytes" THEN "bytes" ELSE "cashu") \in Methods
    BY GateAssumption DEF Methods
  <2> QED
    BY <1>1, <1>2, <2>1 DEF Pay
<1>3. ASSUME NEW ip \in IP, NEW a \in Allotments \cup {0}, MiningShare(ip, a) PROVE KeepsAccess
  <2>1. a \in Nat /\ "mining" \in Methods
    BY GateAssumption DEF Methods
  <2> QED
    BY <1>1, <1>3, <2>1 DEF MiningShare
<1>4. ASSUME NEW ip \in IP, GrantAccess(ip) PROVE KeepsAccess
  <2>1. access.fw \subseteq access'.fw
    BY <1>4, GrantMonotone DEF GrantAccess, IInv, TypeOK
  <2> QED
    BY <2>1 DEF KeepsAccess
<1>5. CASE ResetAuth
  <2>1. sessions \in [Slots -> Session] /\ CountIsActive /\ OneSessionPerClient
    BY DEF IInv, TypeOK
  <2>2. Active' = Active \ Active
    BY <1>5, <2>1, ReleaseTable DEF ResetAuth
  <2> QED
    BY <2>2 DEF KeepsAccess, AddressesOf
<1>6. CASE Tick
  BY <1>6, TickKeeps
<1>7. CASE StartServices
  <2>1. CASE running
    BY <1>7, <2>1 DEF StartServices, KeepsAccess
  <2>2. CASE ~running
    <3>1. Active' = {}
      BY <1>7, <2>2 DEF StartServices, Active, ZeroSession
    <3> QED
      BY <3>1 DEF KeepsAccess, AddressesOf
  <2> QED
    BY <2>1, <2>2
<1>8. CASE StopServices
  BY <1>8 DEF StopServices, KeepsAccess
<1>9. ASSUME access' = access PROVE KeepsAccess
  BY <1>9 DEF KeepsAccess
<1> QED
  BY <1>2, <1>3, <1>4, <1>5, <1>6, <1>7, <1>8, <1>9
     DEF Next, Clock, SetMetric, AddBytes, GotIp, vars

(* Whatever other clients pay, and whoever expires or is evicted, a client *)
(* whose session goes on keeps its place in the firewall, unless           *)
(* stop_services empties it.                                               *)
THEOREM GateKeepsAccess == Spec => PaidAccessKept
<1>1. IInv /\ [Next]_vars => [KeepsAccess]_vars
  BY NextKeeps
<1> QED
  BY <1>1, GateInvariant, PTL DEF Spec, PaidAccessKept, KeepsAccess

(***************************************************************************)
(* No session is cut short.  The clock the code reads wraps, so the time   *)
(* it sees is at most the true age of a session, never more; and a         *)
(* session's allotment is either within what the bound allows or at least  *)
(* the INT64_MAX of a session sold by the byte, which no clock reaches.    *)
(***************************************************************************)

(* A session of age t, read at clock n, does not look older than it is.    *)
Paced(s, t, n) == t = MaxAge \/ n - s.start_time_ms <= t

(* What a session was sold is time, or more than any time.                 *)
Metered(s) == s.allotment_ms <= MaxAllot \/ s.allotment_ms >= IntMax

PaceInv == \A i \in Active : Paced(sessions[i], age[i], now) /\ Metered(sessions[i])

(* A session's allotment survives tollgate_core_session_extend, and no     *)
(* addition within the bound wraps.                                        *)
LEMMA ExtendedMetered ==
    ASSUME NEW s \in Session, NEW a \in Nat, WithinBounds(s, a), Metered(s)
    PROVE  /\ Metered(Extended(s, a))
           /\ Extended(s, a).start_time_ms = s.start_time_ms
<1> DEFINE ms == s.allotment_ms + a
<1>1. s.allotment_ms \in 0..(Word - 1) /\ Word \in Nat /\ Word = 2 * (IntMax + 1)
  BY GateAssumption DEF Session, Word
<1>2. ms \in Nat /\ ms <= IntMax + MaxAllot /\ (ms <= MaxAllot \/ ms >= IntMax)
  BY <1>1, GateAssumption DEF WithinBounds, Metered
<1>3. ms < Word
  BY <1>1, <1>2, GateAssumption
<1>4. ms % Word = ms
  <2> HIDE DEF ms
  <2> QED
    BY <1>1, <1>2, <1>3
<1>5. Extended(s, a).allotment_ms = ms % Word /\ Extended(s, a).start_time_ms = s.start_time_ms
  BY DEF Extended, Session
<1> QED
  BY <1>2, <1>4, <1>5 DEF Metered

(* What the callers of tollgate_core_session_create do to the session      *)
(* leaves its start alone, and its allotment or makes it INT64_MAX.        *)
LEMMA FinishedMetered ==
    ASSUME NEW s \in Session, NEW a \in Nat, NEW method \in Methods, Metered(s)
    PROVE  /\ Metered(Finished(s, method, a))
           /\ Finished(s, method, a).start_time_ms = s.start_time_ms
<1>1. CASE method = "cashu"
  BY <1>1 DEF Finished
<1>2. CASE method = "mining"
  BY <1>2 DEF Finished, Session, Metered
<1>3. CASE method = "bytes"
  <2>1. /\ Finished(s, method, a).allotment_ms = IntMax
        /\ Finished(s, method, a).start_time_ms = s.start_time_ms
    BY <1>3 DEF Finished, Session
  <2> QED
    BY <2>1, GateAssumption DEF Metered
<1> QED
  BY <1>1, <1>2, <1>3 DEF Methods

(* An extension leaves the pace of every session as it was.                *)
LEMMA TopUpPace ==
    ASSUME IInv, PaceInv, NEW ip \in IP, NEW method \in Methods, NEW a \in Nat,
           TopUp(ip, method, a), now' = now
    PROVE  PaceInv'
<1> DEFINE i == First(SlotsOf(ip))
           e == Extended(sessions[i], Millis(method, a))
           s == Finished(e, method, a)
<1>1. sessions \in [Slots -> Session]
  BY DEF IInv, TypeOK
<1>2. i \in Slots /\ i \in Active
  <2>1. SlotsOf(ip) \in SUBSET Slots /\ SlotsOf(ip) # {} /\ SlotsOf(ip) \subseteq Active
    BY DEF TopUp, SlotsOf, Active
  <2> QED
    BY <2>1, FirstIn
<1>3. Millis(method, a) \in Nat
  BY DEF Millis
<1>4. /\ sessions' = [sessions EXCEPT ![i] = s]
      /\ WithinBounds(sessions[i], Millis(method, a))
      /\ age' = age
  BY DEF TopUp
<1>5. Active' = Active
  BY TopUpTable
<1> HIDE DEF i
<1>6. e \in Session /\ Metered(e) /\ e.start_time_ms = sessions[i].start_time_ms
  BY <1>1, <1>2, <1>3, <1>4, ExtendedType, ExtendedMetered DEF PaceInv
<1> HIDE DEF e
<1>7. Metered(s) /\ s.start_time_ms = sessions[i].start_time_ms
  BY <1>6, FinishedMetered
<1> HIDE DEF s
<1>8. sessions'[i] = s /\ \A j \in Slots \ {i} : sessions'[j] = sessions[j]
  BY <1>1, <1>2, <1>4
<1> QED
  BY <1>2, <1>4, <1>5, <1>7, <1>8 DEF PaceInv, Paced, Active

(* The slot tollgate_core_session_create takes was free or is evicted, and *)
(* no other session ends but an evicted, hence an expired one.             *)
LEMMA OpenSlots ==
    ASSUME IInv, NEW ip \in IP, NEW method \in Methods, NEW a \in Nat,
           Open(ip, method, a)
    PROVE  LET i == First((Slots \ Active) \cup Evicted)
           IN  /\ i \in (Slots \ Active) \cup Evicted
               /\ sessions'[i] = Finished(Opened(sessions[i], ip, Millis(method, a)), method, a)
               /\ Millis(method, a) \in 0..MaxAllot
               /\ \A j \in Slots \ (Evicted \cup {i}) : sessions'[j] = sessions[j]
               /\ \A j \in Evicted \ {i} : ~sessions'[j].active
               /\ \A j \in Evicted : j \in Active /\ IsExpired(sessions[j])
               /\ age' = [j \in Slots |-> IF j \in Evicted \cup {i} THEN 0 ELSE age[j]]
<1> DEFINE unused == (Slots \ Active) \cup Evicted
           i == First(unused)
<1>1. /\ unused # {}
      /\ sessions' = [j \in Slots |->
            IF j = i THEN Finished(Opened(sessions[j], ip, Millis(method, a)), method, a)
            ELSE IF j \in Evicted THEN Released(sessions[j]) ELSE sessions[j]]
      /\ age' = [j \in Slots |-> IF j \in Evicted \cup {i} THEN 0 ELSE age[j]]
      /\ Millis(method, a) <= MaxAllot
  BY DEF Open
<1>2. \A j \in Evicted : j \in Active /\ j \in Slots /\ IsExpired(sessions[j])
  <2> DEFINE E == {j \in Slots : IsExpired(sessions[j])}
  <2>1. SUFFICES ASSUME NEW j \in Evicted PROVE j \in Active /\ j \in Slots /\ IsExpired(sessions[j])
    OBVIOUS
  <2>2. E \in SUBSET Slots
    OBVIOUS
  <2>3. E # {} /\ j = First(E) /\ j \in Active
    BY <2>1 DEF Evicted
  <2>4. First(E) \in E
    <3> HIDE DEF E
    <3> QED
      BY <2>2, <2>3, FirstIn
  <2> QED
    BY <2>3, <2>4
<1>3. i \in unused /\ i \in Slots
  <2>1. unused \in SUBSET Slots
    BY <1>2
  <2> HIDE DEF unused
  <2> QED
    BY <1>1, <2>1, FirstIn
<1>4. \A j \in Slots : ~Released(sessions[j]).active
  BY ReleasedType DEF IInv, TypeOK
<1>5. Millis(method, a) \in 0..MaxAllot
  BY <1>1, GateAssumption DEF Millis
<1> HIDE DEF i
<1>6. /\ sessions'[i] = Finished(Opened(sessions[i], ip, Millis(method, a)), method, a)
      /\ \A j \in Slots \ (Evicted \cup {i}) : sessions'[j] = sessions[j]
      /\ \A j \in Evicted \ {i} : ~sessions'[j].active
  BY <1>1, <1>2, <1>3, <1>4
<1> QED
  BY <1>1, <1>2, <1>3, <1>5, <1>6 DEF i

(* A session just opened begins at the clock's reading.                    *)
LEMMA OpenPace ==
    ASSUME IInv, PaceInv, NEW ip \in IP, NEW method \in Methods, NEW a \in Nat,
           Open(ip, method, a), now' = now
    PROVE  PaceInv'
<1> DEFINE i == First((Slots \ Active) \cup Evicted)
           o == Opened(sessions[i], ip, Millis(method, a))
           s == Finished(o, method, a)
<1>1. /\ i \in (Slots \ Active) \cup Evicted
      /\ sessions'[i] = s
      /\ Millis(method, a) \in 0..MaxAllot
      /\ \A j \in Slots \ (Evicted \cup {i}) : sessions'[j] = sessions[j]
      /\ \A j \in Evicted \ {i} : ~sessions'[j].active
      /\ \A j \in Evicted : j \in Active
      /\ age' = [j \in Slots |-> IF j \in Evicted \cup {i} THEN 0 ELSE age[j]]
  BY OpenSlots
<1>2. i \in Slots
  BY <1>1 DEF Active
<1> HIDE DEF i
<1>3. sessions[i] \in Session /\ now \in 0..(TickWrap - 1)
  BY <1>2 DEF IInv, TypeOK
<1>4. o \in Session /\ Metered(o) /\ o.start_time_ms = now
  <2>1. o.allotment_ms = Millis(method, a) /\ o.start_time_ms = now
    BY <1>3 DEF Opened, Session
  <2> QED
    BY <1>1, <1>3, <2>1, OpenedType DEF Metered
<1> HIDE DEF o
<1>5. Metered(s) /\ s.start_time_ms = now
  BY <1>4, FinishedMetered
<1> HIDE DEF s
<1>6. ASSUME NEW j \in Active' PROVE Paced(sessions'[j], age'[j], now') /\ Metered(sessions'[j])
  <2>0. j \in Slots
    BY DEF Active
  <2>1. CASE j = i
    BY <1>1, <1>2, <1>3, <1>5, <2>1, GateAssumption DEF Paced
  <2>2. CASE j # i
    <3>1. j \notin Evicted
      BY <1>1, <2>2 DEF Active
    <3>2. sessions'[j] = sessions[j] /\ age'[j] = age[j]
      BY <1>1, <2>0, <2>2, <3>1
    <3>3. j \in Active
      BY <3>2, <2>0 DEF Active
    <3> QED
      BY <3>2, <3>3 DEF PaceInv
  <2> QED
    BY <2>1, <2>2
<1> QED
  BY <1>6 DEF PaceInv

(* Every step keeps the pace: no clock reading runs ahead of an age.       *)
LEMMA NextPace ==
    ASSUME IInv, PaceInv, [Next]_vars
    PROVE  PaceInv'
<1>1. ASSUME NEW ip \in IP, NEW method \in Methods, NEW a \in Nat, Create(ip, method, a)
      PROVE  PaceInv'
  BY <1>1, TopUpPace, OpenPace DEF Create
<1>2. ASSUME NEW ip \in IP, NEW a \in Allotments, Pay(ip, a) PROVE PaceInv'
  <2>1. a \in Nat /\ (IF metric = "bytes" THEN "bytes" ELSE "cashu") \in Methods
    BY GateAssumption DEF Methods
  <2> QED
    BY <1>1, <1>2, <2>1 DEF Pay
<1>3. ASSUME NEW ip \in IP, NEW a \in Allotments \cup {0}, MiningShare(ip, a) PROVE PaceInv'
  <2>1. a \in Nat /\ "mining" \in Methods
    BY GateAssumption DEF Methods
  <2> QED
    BY <1>1, <1>3, <2>1 DEF MiningShare
<1>4. CASE ResetAuth
  <2>1. sessions \in [Slots -> Session]
    BY DEF IInv, TypeOK
  <2>2. \A i \in Slots : ~sessions'[i].active
    BY <1>4, <2>1, ReleasedType DEF ResetAuth, Active
  <2> QED
    BY <2>2 DEF PaceInv, Active
<1>5. CASE Tick
  <2> DEFINE gone == {i \in Active : IsExpired(sessions[i])}
  <2>1. /\ sessions' = [i \in Slots |-> IF i \in gone THEN Released(sessions[i])
                                        ELSE sessions[i]]
        /\ age' = [i \in Slots |-> IF i \in gone THEN 0 ELSE age[i]]
        /\ now' = now
    BY <1>5 DEF Tick
  <2>2. sessions \in [Slots -> Session]
    BY DEF IInv, TypeOK
  <2> HIDE DEF gone
  <2>3. ASSUME NEW j \in Active' PROVE Paced(sessions'[j], age'[j], now') /\ Metered(sessions'[j])
    <3>1. j \in Slots /\ sessions'[j].active
      BY DEF Active
    <3>2. j \notin gone
      BY <2>1, <2>2, <3>1, ReleasedType
    <3>3. sessions'[j] = sessions[j] /\ age'[j] = age[j]
      BY <2>1, <3>1, <3>2
    <3>4. j \in Active
      BY <3>1, <3>3 DEF Active
    <3> QED
      BY <2>1, <3>3, <3>4 DEF PaceInv
  <2> QED
    BY <2>3 DEF PaceInv
<1>6. CASE Clock
  <2>1. /\ sessions' = sessions
        /\ now' = (now + 1) % TickWrap
        /\ age' = [i \in Slots |-> IF i \in Active /\ age[i] < MaxAge
                                   THEN age[i] + 1 ELSE age[i]]
    BY <1>6 DEF Clock, sessVars
  <2>2. now' <= now + 1 /\ now' \in Nat /\ now \in Nat
    <3>1. now \in Nat /\ TickWrap \in Nat \ {0} /\ now < TickWrap
      BY GateAssumption DEF IInv, TypeOK
    <3>2. CASE now + 1 < TickWrap
      BY <2>1, <3>1, <3>2
    <3>3. CASE now + 1 = TickWrap
      BY <2>1, <3>1, <3>3
    <3> QED
      BY <3>1, <3>2, <3>3
  <2>3. ASSUME NEW j \in Active' PROVE Paced(sessions'[j], age'[j], now') /\ Metered(sessions'[j])
    <3>1. j \in Active /\ j \in Slots /\ sessions[j] \in Session /\ age[j] \in 0..MaxAge
      BY <2>1 DEF Active, IInv, TypeOK
    <3>2. sessions[j].start_time_ms \in Nat /\ MaxAge \in Nat
      BY <3>1, GateAssumption DEF Session, MaxAge
    <3>3. Paced(sessions[j], age[j], now) /\ Metered(sessions[j])
      BY <3>1 DEF PaceInv
    <3>4. age'[j] = IF age[j] < MaxAge THEN age[j] + 1 ELSE age[j]
      BY <2>1, <3>1
    <3>5. CASE age[j] < MaxAge
      BY <2>1, <2>2, <3>1, <3>2, <3>3, <3>4, <3>5 DEF Paced
    <3>6. CASE age[j] = MaxAge
      BY <2>1, <2>2, <3>1, <3>2, <3>3, <3>4, <3>6 DEF Paced
    <3> QED
      BY <3>1, <3>2, <3>5, <3>6
  <2> QED
    BY <2>3 DEF PaceInv
<1>7. ASSUME NEW ip \in IP, NEW n \in Traffic, AddBytes(ip, n) PROVE PaceInv'
  <2> DEFINE i == First(SlotsOf(ip))
  <2>1. /\ sessions' = [sessions EXCEPT ![i].bytes_consumed = @ + n]
        /\ now' = now /\ age' = age
    BY <1>7 DEF AddBytes, timeVars
  <2>2. sessions \in [Slots -> Session]
    BY DEF IInv, TypeOK
  <2> HIDE DEF i
  <2>3. \A j \in Slots : /\ sessions'[j].active = sessions[j].active
                         /\ sessions'[j].start_time_ms = sessions[j].start_time_ms
                         /\ sessions'[j].allotment_ms = sessions[j].allotment_ms
    BY <2>1, <2>2 DEF Session
  <2> QED
    BY <2>1, <2>3 DEF PaceInv, Active, Paced, Metered
<1>8. CASE StartServices
  <2>1. CASE running
    BY <1>8, <2>1 DEF StartServices, sessVars, PaceInv, Active
  <2>2. CASE ~running
    <3>1. Active' = {}
      BY <1>8, <2>2 DEF StartServices, Active, ZeroSession
    <3> QED
      BY <3>1 DEF PaceInv
  <2> QED
    BY <2>1, <2>2
<1>9. ASSUME UNCHANGED <<sessVars, timeVars>> PROVE PaceInv'
  BY <1>9 DEF PaceInv, Active, sessVars, timeVars
<1>10. ASSUME NEW ip \in IP, GrantAccess(ip) PROVE PaceInv'
  BY <1>9, <1>10 DEF GrantAccess
<1> QED
  BY <1>2, <1>3, <1>4, <1>5, <1>6, <1>7, <1>8, <1>9, <1>10
     DEF Next, SetMetric, GotIp, StopServices, vars, timeVars

(* A session that goes by its time and is expired has had its time.        *)
LEMMA ExpiredIsOld ==
    ASSUME IInv, PaceInv, NEW i \in Active, Timed(i), IsExpired(sessions[i])
    PROVE  age[i] >= sessions[i].allotment_ms
<1>1. /\ sessions[i] \in Session /\ age[i] \in 0..MaxAge /\ i \in Slots
      /\ now \in 0..(TickWrap - 1)
  BY DEF IInv, TypeOK, Active
<1>2. sessions[i].allotment_ms <= IntMax /\ sessions[i].allotment_ms \in Nat
      /\ sessions[i].start_time_ms \in 0..(TickWrap - 1)
  BY <1>1 DEF Timed, Session
<1>3. now - sessions[i].start_time_ms >= sessions[i].allotment_ms
  BY <1>2 DEF Timed, IsExpired, ToInt64, Active
<1>4. Paced(sessions[i], age[i], now) /\ Metered(sessions[i])
  BY DEF PaceInv
<1>5. sessions[i].allotment_ms <= MaxAllot
  BY <1>1, <1>2, <1>3, <1>4, GateAssumption DEF Metered
<1> QED
  BY <1>1, <1>2, <1>3, <1>4, <1>5, GateAssumption DEF Paced, MaxAge

(* What one step may do to the sessions that go by their time.             *)
EndsInTime ==
    \A i \in Slots : Ends(i) /\ Timed(i) =>
        age[i] >= sessions[i].allotment_ms \/ ResetAuth \/ StartServices

(* Only an expired session ends in a step that is not a reset or a start.  *)
LEMMA NextEndsInTime ==
    ASSUME IInv, PaceInv, [Next]_vars
    PROVE  EndsInTime
<1> SUFFICES ASSUME NEW i \in Slots, Ends(i), Timed(i), ~ResetAuth, ~StartServices
             PROVE  age[i] >= sessions[i].allotment_ms
  BY DEF EndsInTime
<1>1. /\ i \in Active
      /\ sessions'[i].active => sessions'[i].client_ip # sessions[i].client_ip
      /\ sessions[i].active
  BY DEF Ends, Active
<1>2. SUFFICES ASSUME ~IsExpired(sessions[i]) PROVE FALSE
  BY <1>1, ExpiredIsOld
<1>3. ASSUME sessions'[i].active = sessions[i].active,
             sessions'[i].client_ip = sessions[i].client_ip
      PROVE  FALSE
  BY <1>1, <1>3
<1>4. ASSUME NEW ip \in IP, NEW method \in Methods, NEW a \in Nat, Create(ip, method, a)
      PROVE  FALSE
  <2>1. CASE TopUp(ip, method, a)
    <3>1. Active' = Active /\ sessions'[i].client_ip = sessions[i].client_ip
      BY <2>1, TopUpTable
    <3>2. sessions'[i].active
      BY <1>1, <3>1 DEF Active
    <3> QED
      BY <1>1, <3>1, <3>2
  <2>2. CASE Open(ip, method, a)
    <3> DEFINE k == First((Slots \ Active) \cup Evicted)
    <3>1. /\ k \in (Slots \ Active) \cup Evicted
          /\ \A j \in Slots \ (Evicted \cup {k}) : sessions'[j] = sessions[j]
          /\ \A j \in Evicted : IsExpired(sessions[j])
      BY <2>2, OpenSlots
    <3> HIDE DEF k
    <3>2. i \notin Evicted
      BY <1>2, <3>1
    <3>3. i # k
      BY <1>1, <3>1, <3>2
    <3> QED
      BY <1>3, <3>1, <3>2, <3>3
  <2> QED
    BY <1>4, <2>1, <2>2 DEF Create
<1>5. ASSUME NEW ip \in IP, NEW a \in Allotments, Pay(ip, a) PROVE FALSE
  <2>1. a \in Nat /\ (IF metric = "bytes" THEN "bytes" ELSE "cashu") \in Methods
    BY GateAssumption DEF Methods
  <2> QED
    BY <1>4, <1>5, <2>1 DEF Pay
<1>6. ASSUME NEW ip \in IP, NEW a \in Allotments \cup {0}, MiningShare(ip, a) PROVE FALSE
  <2>1. a \in Nat /\ "mining" \in Methods
    BY GateAssumption DEF Methods
  <2> QED
    BY <1>4, <1>6, <2>1 DEF MiningShare
<1>7. CASE Tick
  BY <1>2, <1>3, <1>7 DEF Tick
<1>8. ASSUME NEW ip \in IP, NEW n \in Traffic, AddBytes(ip, n) PROVE FALSE
  <2> DEFINE k == First(SlotsOf(ip))
  <2>1. sessions' = [sessions EXCEPT ![k].bytes_consumed = @ + n]
    BY <1>8 DEF AddBytes
  <2>2. sessions \in [Slots -> Session]
    BY DEF IInv, TypeOK
  <2> HIDE DEF k
  <2>3. /\ sessions'[i].active = sessions[i].active
        /\ sessions'[i].client_ip = sessions[i].client_ip
    BY <2>1, <2>2 DEF Session
  <2> QED
    BY <1>3, <2>3
<1>9. ASSUME sessions' = sessions PROVE FALSE
  BY <1>3, <1>9
<1> QED
  BY <1>5, <1>6, <1>7, <1>8, <1>9
     DEF Next, Clock, GrantAccess, SetMetric, GotIp, StopServices, vars, sessVars

(* Outside a reset and a restart of the services, no session that goes by  *)
(* its time ends before its client had all the time it was sold, wherever  *)
(* the tick counter wraps, whatever is topped up, evicted or relabelled,   *)
(* and however late the main loop is.                                      *)
THEOREM GateNoEarlyCutoff == Spec => NoEarlyCutoff
<1>1. Init => PaceInv
  BY DEF Init, PaceInv, Active, ZeroSession
<1>2. IInv /\ PaceInv /\ [Next]_vars => PaceInv'
  BY NextPace
<1>3. IInv /\ PaceInv /\ [Next]_vars => [EndsInTime]_vars
  BY NextEndsInTime
<1> QED
  BY <1>1, <1>2, <1>3, GateInvariant, PTL DEF Spec, NoEarlyCutoff, EndsInTime

(***************************************************************************)
(* The unlocked access table (AccessRace.tla), for any number of tasks.    *)
(*                                                                         *)
(* Standing(k, S): the first k entries hold every client of S, no count    *)
(* stored from now on is below k, no grant writes into them, and the entry *)
(* a revoke is about to overwrite is not one of theirs.  The k is that of  *)
(* the moment the calls under way began, less the entries that revokes     *)
(* have closed up since.                                                   *)
(***************************************************************************)

GrantStands(p, k) ==
    /\ at[p] = "put" => entry[p] > k
    /\ at[p] = "store" => reg[p] >= k

RevokeStands(p, k) ==
    /\ at[p] = "move" => /\ entry[p] <= k => clients[entry[p]] = arg[p]
                         /\ entry[p] > k => client_count > k
    /\ at[p] = "load" => client_count > k
    /\ at[p] = "store" => reg[p] > k

Standing(k, S) ==
    /\ k \in 0..client_count
    /\ \A s \in S : \E i \in 1..k : clients[i] = s
    /\ \A p \in Tasks : call[p] = "grant" => GrantStands(p, k)
    /\ \A p \in Tasks : call[p] = "revoke" => RevokeStands(p, k)

RacePlaces == {"idle", "put", "move", "load", "store", "tell", "walk"}

(* Where the tasks can be; nobody a call is about is settled; one removal  *)
(* at a time.                                                              *)
RaceTypes ==
    /\ clients \in [1..MaxFw -> IP \cup {Blank}]
    /\ client_count \in Nat
    /\ auth \subseteq IP
    /\ call \in [Tasks -> {"grant", "revoke", "revoke_all"}]
    /\ at \in [Tasks -> RacePlaces]
    /\ arg \in [Tasks -> IP \cup {Blank}]
    /\ entry \in [Tasks -> 1..MaxFw]
    /\ reg \in [Tasks -> 0..MaxFw]
    /\ settled \subseteq IP

RacePlaced ==
    /\ \A p \in Tasks : at[p] \in {"put", "move", "load", "store", "tell"} =>
          call[p] # "revoke_all" /\ arg[p] \in IP \ settled
    /\ \A p \in Tasks : /\ at[p] = "put" => call[p] = "grant"
                        /\ at[p] = "move" => call[p] = "revoke"
                        /\ at[p] = "walk" => call[p] = "revoke_all" /\ settled = {}
    /\ \A p, q \in Tasks : Removing(p) /\ Removing(q) => p = q

RaceInv == Sound => RaceTypes /\ RacePlaced /\ \E k \in Nat : Standing(k, settled)

(* The loop of find_client_by_ip stops at the first entry of an allowed    *)
(* client.                                                                 *)
LEMMA FoundEntry ==
    ASSUME client_count \in Nat, NEW ip \in Allowed
    PROVE  \E i \in 1..client_count : /\ clients[i] = ip
                                      /\ \A j \in 1..(i - 1) : clients[j] # ip
<1> DEFINE S == {i \in 1..client_count : clients[i] = ip}
<1>1. S # {} /\ S \subseteq Nat
  BY DEF Allowed
<1>2. \E x \in S : \A y \in S : ~ (<<y, x>> \in Less)
  <2> HIDE DEF S
  <2> QED
    BY <1>1, LessWellFounded, WFMin
<1>3. PICK i \in S : \A j \in S : <<j, i>> \notin Less
  BY <1>2
<1>4. i \in 1..client_count /\ clients[i] = ip /\ i \in Nat
  BY <1>3
<1>5. ASSUME NEW j \in 1..(i - 1), clients[j] = ip
      PROVE  FALSE
  <2>1. j \in 1..client_count /\ j < i /\ j \in Nat
    BY <1>4
  <2>2. j \in S
    BY <1>5, <2>1
  <2>3. <<j, i>> \in Less
    BY <1>4, <2>1 DEF Less
  <2> QED
    BY <1>3, <2>2, <2>3
<1> QED
  BY <1>4, <1>5

(* A call begins: those of the first k entries who are settled stay so,    *)
(* or, when no call was under way, the whole table is the new start.       *)
LEMMA BeginStands ==
    ASSUME RaceInv, NEW p \in Tasks, NEW c \in {"grant", "revoke", "revoke_all"},
           NEW who \in SUBSET IP, Begin(p, c, who)
    PROVE  /\ Sound /\ RaceTypes /\ RacePlaced
           /\ at[p] = "idle" /\ settled' \subseteq IP \ who
           /\ \A q \in Tasks : at[q] # "idle" => settled' \subseteq settled
           /\ call' \in [Tasks -> {"grant", "revoke", "revoke_all"}]
           /\ call'[p] = c /\ \A q \in Tasks \ {p} : call'[q] = call[q]
           /\ \E k \in Nat : Standing(k, settled')
<1>1. /\ Sound /\ at[p] = "idle"
      /\ call' = [call EXCEPT ![p] = c]
      /\ settled' = (IF AllIdle THEN Allowed \cap IP ELSE settled) \ who
  BY DEF Begin
<1>2. RaceTypes /\ RacePlaced /\ \E k \in Nat : Standing(k, settled)
  BY <1>1 DEF RaceInv
<1>3. /\ call' \in [Tasks -> {"grant", "revoke", "revoke_all"}]
      /\ call'[p] = c /\ \A q \in Tasks \ {p} : call'[q] = call[q]
  BY <1>1, <1>2 DEF RaceTypes
<1>4. settled' \subseteq IP \ who
  BY <1>1, <1>2 DEF RaceTypes
<1>5. CASE AllIdle
  <2>1. \A q \in Tasks : at[q] = "idle"
    BY <1>5 DEF AllIdle
  <2>2. \A s \in settled' : \E i \in 1..client_count : clients[i] = s
    BY <1>1, <1>5 DEF Allowed
  <2>3. client_count \in 0..client_count /\ client_count \in Nat
    BY <1>2 DEF RaceTypes
  <2>4. Standing(client_count, settled')
    BY <2>1, <2>2, <2>3 DEF Standing, GrantStands, RevokeStands
  <2> QED
    BY <1>1, <1>2, <1>3, <1>4, <2>1, <2>3, <2>4
<1>6. CASE ~AllIdle
  <2>1. settled' \subseteq settled
    BY <1>1, <1>6
  <2>2. PICK k \in Nat : Standing(k, settled)
    BY <1>2
  <2>3. Standing(k, settled')
    BY <2>1, <2>2 DEF Standing
  <2> QED
    BY <1>1, <1>2, <1>3, <1>4, <2>1, <2>3
<1> QED
  BY <1>5, <1>6

(* A grant that begins has chosen an entry behind the first k.             *)
LEMMA GrantBeginStands ==
    ASSUME RaceInv, NEW p \in Granters, NEW ip \in IP, GrantBegin(p, ip)
    PROVE  RaceInv'
<1>0. p \in Tasks
  BY DEF Tasks
<1>1. Begin(p, "grant", {ip})
  BY DEF GrantBegin
<1>2. /\ Sound /\ RaceTypes /\ RacePlaced
      /\ at[p] = "idle" /\ settled' \subseteq IP \ {ip}
      /\ \A q \in Tasks : at[q] # "idle" => settled' \subseteq settled
      /\ call' \in [Tasks -> {"grant", "revoke", "revoke_all"}]
      /\ call'[p] = "grant" /\ \A q \in Tasks \ {p} : call'[q] = call[q]
      /\ \E k \in Nat : Standing(k, settled')
  BY <1>0, <1>1, BeginStands
<1>3. PICK k \in Nat : Standing(k, settled')
  BY <1>2
<1>4. /\ client_count \in Nat /\ client_count < MaxFw /\ MaxFw \in Nat
      /\ arg' = [arg EXCEPT ![p] = ip]
      /\ entry' = [entry EXCEPT ![p] = client_count + 1]
      /\ at' = [at EXCEPT ![p] = "put"]
      /\ UNCHANGED <<clients, client_count, auth, reg>>
  BY <1>2, FirewallAssumption DEF GrantBegin, Goto, lists, RaceTypes
<1>5. /\ entry' \in [Tasks -> 1..MaxFw] /\ entry'[p] = client_count + 1
      /\ at' \in [Tasks -> RacePlaces] /\ at'[p] = "put"
      /\ arg' \in [Tasks -> IP \cup {Blank}] /\ arg'[p] = ip
      /\ \A q \in Tasks \ {p} : entry'[q] = entry[q] /\ at'[q] = at[q] /\ arg'[q] = arg[q]
  BY <1>0, <1>2, <1>4 DEF RaceTypes, RacePlaces
<1>6. RaceTypes'
  BY <1>2, <1>4, <1>5 DEF RaceTypes
<1>7. RacePlaced'
  <2>1. \A q \in Tasks : at'[q] \in {"put", "move", "load", "store", "tell"} =>
           call'[q] # "revoke_all" /\ arg'[q] \in IP \ settled'
    BY <1>2, <1>5 DEF RacePlaced
  <2>2. ASSUME NEW q \in Tasks
        PROVE  /\ at'[q] = "put" => call'[q] = "grant"
               /\ at'[q] = "move" => call'[q] = "revoke"
               /\ at'[q] = "walk" => call'[q] = "revoke_all" /\ settled' = {}
    <3>1. CASE q = p
      BY <1>2, <1>5, <3>1
    <3>2. CASE q # p
      <4>1. /\ at'[q] = at[q] /\ call'[q] = call[q]
            /\ at[q] = "walk" => settled' \subseteq settled
        BY <1>2, <1>5, <3>2
      <4>2. /\ at[q] = "put" => call[q] = "grant"
            /\ at[q] = "move" => call[q] = "revoke"
            /\ at[q] = "walk" => call[q] = "revoke_all" /\ settled = {}
        BY <1>2 DEF RacePlaced
      <4> QED
        BY <4>1, <4>2
    <3> QED
      BY <3>1, <3>2
  <2>3. \A q \in Tasks : Removing(q)' => Removing(q)
    BY <1>2, <1>5 DEF Removing
  <2> QED
    BY <1>2, <2>1, <2>2, <2>3 DEF RacePlaced
<1>8. Standing(k, settled)'
  <2>1. k \in 0..client_count
    BY <1>3 DEF Standing
  <2>2. GrantStands(p, k)'
    BY <1>4, <1>5, <2>1 DEF GrantStands
  <2>3. ASSUME NEW q \in Tasks \ {p} PROVE /\ GrantStands(q, k) => GrantStands(q, k)'
                                           /\ RevokeStands(q, k) => RevokeStands(q, k)'
    <3>1. at'[q] = at[q] /\ entry'[q] = entry[q] /\ arg'[q] = arg[q] /\ reg'[q] = reg[q]
      BY <1>4, <1>5
    <3> QED
      BY <1>4, <3>1 DEF GrantStands, RevokeStands
  <2>4. ASSUME NEW q \in Tasks, call'[q] = "grant" PROVE GrantStands(q, k)'
    <3>1. CASE q # p
      <4>1. call[q] = "grant" /\ q \in Tasks \ {p}
        BY <1>2, <2>4, <3>1
      <4>2. GrantStands(q, k)
        BY <1>3, <4>1, Zenon DEF Standing
      <4> QED
        BY <2>3, <4>1, <4>2
    <3> QED
      BY <2>2, <3>1
  <2>5. ASSUME NEW q \in Tasks, call'[q] = "revoke" PROVE RevokeStands(q, k)'
    <3>1. call[q] = "revoke" /\ q \in Tasks \ {p}
      BY <1>2, <2>5
    <3>2. RevokeStands(q, k)
      BY <1>3, <3>1, Zenon DEF Standing
    <3> QED
      BY <2>3, <3>1, <3>2
  <2> QED
    BY <1>3, <1>4, <2>4, <2>5 DEF Standing
<1> QED
  BY <1>6, <1>7, <1>8 DEF RaceInv

(* A revoke that begins has found an entry of its own client.              *)
LEMMA RevokeBeginStands ==
    ASSUME RaceInv, NEW p \in Revokers, NEW ip \in IP, RevokeBegin(p, ip)
    PROVE  RaceInv'
<1> SUFFICES ASSUME Sound' PROVE RaceInv'
  BY DEF RaceInv
<1>0. p \in Tasks
  BY DEF Tasks
<1>1. Begin(p, "revoke", {ip}) /\ ip \in Allowed
  BY DEF RevokeBegin
<1>2. /\ Sound /\ RaceTypes /\ RacePlaced
      /\ at[p] = "idle" /\ settled' \subseteq IP \ {ip}
      /\ \A q \in Tasks : at[q] # "idle" => settled' \subseteq settled
      /\ call' \in [Tasks -> {"grant", "revoke", "revoke_all"}]
      /\ call'[p] = "revoke" /\ \A q \in Tasks \ {p} : call'[q] = call[q]
      /\ \E k \in Nat : Standing(k, settled')
  BY <1>0, <1>1, BeginStands
<1>3. PICK k \in Nat : Standing(k, settled')
  BY <1>2
<1>4. \A q \in Tasks : ~Removing(q)
  BY <1>1 DEF Begin, Sound
<1>5. client_count \in Nat /\ client_count <= MaxFw /\ MaxFw \in Nat
  BY <1>2, FirewallAssumption DEF RaceTypes, Sound
<1> DEFINE i == CHOOSE i \in 1..client_count : /\ clients[i] = ip
                                               /\ \A j \in 1..(i - 1) : clients[j] # ip
<1>6. i \in 1..client_count /\ clients[i] = ip
  BY <1>1, <1>5, FoundEntry
<1>7. /\ arg' = [arg EXCEPT ![p] = ip]
      /\ entry' = [entry EXCEPT ![p] = i]
      /\ at' = [at EXCEPT ![p] = "move"]
      /\ UNCHANGED <<clients, client_count, auth, reg>>
  BY DEF RevokeBegin, Goto, lists
<1> HIDE DEF i
<1>8. i \in 1..MaxFw
  BY <1>5, <1>6
<1>9. /\ entry' \in [Tasks -> 1..MaxFw] /\ entry'[p] = i
      /\ at' \in [Tasks -> RacePlaces] /\ at'[p] = "move"
      /\ arg' \in [Tasks -> IP \cup {Blank}] /\ arg'[p] = ip
      /\ \A q \in Tasks \ {p} : entry'[q] = entry[q] /\ at'[q] = at[q] /\ arg'[q] = arg[q]
  BY <1>0, <1>2, <1>7, <1>8 DEF RaceTypes, RacePlaces
<1>10. RaceTypes'
  BY <1>2, <1>7, <1>9 DEF RaceTypes
<1>11. RacePlaced'
  <2>1. \A q \in Tasks : at'[q] \in {"put", "move", "load", "store", "tell"} =>
           call'[q] # "revoke_all" /\ arg'[q] \in IP \ settled'
    BY <1>2, <1>9 DEF RacePlaced
  <2>2. ASSUME NEW q \in Tasks
        PROVE  /\ at'[q] = "put" => call'[q] = "grant"
               /\ at'[q] = "move" => call'[q] = "revoke"
               /\ at'[q] = "walk" => call'[q] = "revoke_all" /\ settled' = {}
    <3>1. CASE q = p
      BY <1>2, <1>9, <3>1
    <3>2. CASE q # p
      <4>1. /\ at'[q] = at[q] /\ call'[q] = call[q]
            /\ at[q] = "walk" => settled' \subseteq settled
        BY <1>2, <1>9, <3>2
      <4>2. /\ at[q] = "put" => call[q] = "grant"
            /\ at[q] = "move" => call[q] = "revoke"
            /\ at[q] = "walk" => call[q] = "revoke_all" /\ settled = {}
        BY <1>2 DEF RacePlaced
      <4> QED
        BY <4>1, <4>2
    <3> QED
      BY <3>1, <3>2
  <2>3. \A q \in Tasks : Removing(q)' => q = p
    BY <1>2, <1>4, <1>9 DEF Removing
  <2> QED
    BY <2>1, <2>2, <2>3 DEF RacePlaced
<1>12. Standing(k, settled)'
  <2>1. k \in 0..client_count
    BY <1>3 DEF Standing
  <2>2. RevokeStands(p, k)'
    BY <1>5, <1>6, <1>7, <1>9, <2>1 DEF RevokeStands
  <2>3. ASSUME NEW q \in Tasks \ {p} PROVE GrantStands(q, k) => GrantStands(q, k)'
    BY <1>7, <1>9 DEF GrantStands
  <2>4. \A q \in Tasks : call'[q] = "grant" => GrantStands(q, k)'
    BY <1>2, <1>3, <2>3 DEF Standing
  <2>5. ASSUME NEW q \in Tasks \ {p}, call'[q] = "revoke" PROVE RevokeStands(q, k)'
    <3>1. at[q] \notin {"move", "load", "store"}
      BY <1>2, <1>4, <2>5 DEF Removing
    <3> QED
      BY <1>9, <3>1 DEF RevokeStands
  <2> QED
    BY <1>3, <1>7, <2>2, <2>4, <2>5 DEF Standing
<1> QED
  BY <1>10, <1>11, <1>12 DEF RaceInv

(* A reset that begins leaves nobody settled.                              *)
LEMMA RevokeAllBeginStands ==
    ASSUME RaceInv, NEW p \in Resetters, RevokeAllBegin(p)
    PROVE  RaceInv'
<1> SUFFICES ASSUME Sound' PROVE RaceInv'
  BY DEF RaceInv
<1>0. p \in Tasks /\ IP \in SUBSET IP
  BY DEF Tasks
<1>1. Begin(p, "revoke_all", IP)
  BY DEF RevokeAllBegin
<1>2. /\ Sound /\ RaceTypes /\ RacePlaced
      /\ at[p] = "idle" /\ settled' \subseteq IP \ IP
      /\ call' \in [Tasks -> {"grant", "revoke", "revoke_all"}]
      /\ call'[p] = "revoke_all" /\ \A q \in Tasks \ {p} : call'[q] = call[q]
  BY <1>0, <1>1, BeginStands
<1>3. settled' = {}
  BY <1>2
<1>4. \A q \in Tasks : ~Removing(q)
  BY <1>1 DEF Begin, Sound
<1>5. /\ auth' \subseteq auth
      /\ at' = [at EXCEPT ![p] = "walk"]
      /\ UNCHANGED <<clients, client_count, arg, entry, reg>>
  BY DEF RevokeAllBegin, Goto
<1>6. /\ at' \in [Tasks -> RacePlaces] /\ at'[p] = "walk"
      /\ \A q \in Tasks \ {p} : at'[q] = at[q]
  BY <1>0, <1>2, <1>5 DEF RaceTypes, RacePlaces
<1>7. RaceTypes'
  BY <1>2, <1>3, <1>5, <1>6 DEF RaceTypes
<1>8. RacePlaced'
  <2>1. \A q \in Tasks : at'[q] \in {"put", "move", "load", "store", "tell"} =>
           call'[q] # "revoke_all" /\ arg'[q] \in IP \ settled'
    BY <1>2, <1>3, <1>5, <1>6 DEF RacePlaced
  <2>2. ASSUME NEW q \in Tasks
        PROVE  /\ at'[q] = "put" => call'[q] = "grant"
               /\ at'[q] = "move" => call'[q] = "revoke"
               /\ at'[q] = "walk" => call'[q] = "revoke_all" /\ settled' = {}
    <3>1. CASE q = p
      BY <1>2, <1>3, <1>6, <3>1
    <3>2. CASE q # p
      <4>1. /\ at'[q] = at[q] /\ call'[q] = call[q]
            /\ at[q] = "walk" => settled' \subseteq settled
        BY <1>2, <1>3, <1>6, <3>2
      <4>2. /\ at[q] = "put" => call[q] = "grant"
            /\ at[q] = "move" => call[q] = "revoke"
            /\ at[q] = "walk" => call[q] = "revoke_all" /\ settled = {}
        BY <1>2 DEF RacePlaced
      <4> QED
        BY <4>1, <4>2
    <3> QED
      BY <3>1, <3>2
  <2>3. \A q \in Tasks : Removing(q)' => q = p
    BY <1>2, <1>4, <1>6 DEF Removing
  <2> QED
    BY <2>1, <2>2, <2>3 DEF RacePlaced
<1>9. Standing(0, settled)'
  <2>1. client_count \in Nat /\ \A q \in Tasks : entry[q] >= 1 /\ reg[q] >= 0
    BY <1>2 DEF RaceTypes
  <2>2. ASSUME NEW q \in Tasks PROVE GrantStands(q, 0)'
    <3>1. entry'[q] >= 1 /\ reg'[q] >= 0 /\ entry[q] \in Int /\ entry'[q] = entry[q]
      BY <1>2, <1>5, <2>1 DEF RaceTypes
    <3> QED
      BY <3>1 DEF GrantStands
  <2>3. ASSUME NEW q \in Tasks, call'[q] = "revoke" PROVE RevokeStands(q, 0)'
    <3>1. q # p /\ at[q] \notin {"move", "load", "store"}
      BY <1>2, <1>4, <2>3 DEF Removing
    <3> QED
      BY <1>6, <3>1 DEF RevokeStands
  <2> QED
    BY <1>3, <1>5, <2>1, <2>2, <2>3 DEF Standing
<1> QED
  BY <1>7, <1>8, <1>9 DEF RaceInv
(* A grant writes its entry, which is behind the first k.                  *)
LEMMA PutStands ==
    ASSUME RaceInv, Sound, NEW p \in Tasks, Put(p)
    PROVE  RaceInv'
<1>1. RaceTypes /\ RacePlaced /\ \E k \in Nat : Standing(k, settled)
  BY DEF RaceInv
<1>2. PICK k \in Nat : Standing(k, settled)
  BY <1>1
<1>3. /\ at[p] = "put" /\ call[p] = "grant"
      /\ clients' = [clients EXCEPT ![entry[p]] = arg[p]]
      /\ at' = [at EXCEPT ![p] = "load"]
      /\ UNCHANGED <<client_count, auth, call, arg, entry, reg, settled>>
  BY <1>1 DEF Put, Goto, RacePlaced
<1>4. entry[p] \in 1..MaxFw /\ entry[p] > k /\ arg[p] \in IP
  BY <1>1, <1>2, <1>3 DEF RaceTypes, RacePlaced, Standing, GrantStands
<1>5. /\ clients' \in [1..MaxFw -> IP \cup {Blank}]
      /\ \A i \in 1..MaxFw : i <= k => clients'[i] = clients[i]
  BY <1>1, <1>3, <1>4 DEF RaceTypes
<1>6. /\ at' \in [Tasks -> RacePlaces] /\ at'[p] = "load"
      /\ \A q \in Tasks \ {p} : at'[q] = at[q]
  BY <1>1, <1>3 DEF RaceTypes, RacePlaces
<1>7. RaceTypes'
  BY <1>1, <1>3, <1>5, <1>6 DEF RaceTypes
<1>8. RacePlaced'
  <2>1. \A q \in Tasks : Removing(q)' => Removing(q)
    BY <1>3, <1>6 DEF Removing
  <2> QED
    BY <1>1, <1>3, <1>6, <2>1 DEF RacePlaced
<1>9. k \in 0..client_count /\ client_count \in Nat /\ MaxFw \in Nat /\ client_count <= MaxFw
  BY <1>1, <1>2, FirewallAssumption DEF Standing, RaceTypes, Sound
<1>10. Standing(k, settled)'
  <2>1. \A s \in settled' : \E i \in 1..k : clients'[i] = s
    BY <1>2, <1>3, <1>5, <1>9 DEF Standing
  <2>2. ASSUME NEW q \in Tasks, call'[q] = "grant" PROVE GrantStands(q, k)'
    <3>1. GrantStands(q, k)
      BY <1>2, <1>3, <2>2 DEF Standing
    <3> QED
      BY <1>3, <1>6, <3>1 DEF GrantStands
  <2>3. ASSUME NEW q \in Tasks, call'[q] = "revoke" PROVE RevokeStands(q, k)'
    <3>1. RevokeStands(q, k) /\ q # p /\ entry[q] \in 1..MaxFw
      BY <1>1, <1>2, <1>3, <2>3 DEF Standing, RaceTypes
    <3>2. entry[q] <= k => clients'[entry[q]] = clients[entry[q]]
      BY <1>5, <3>1
    <3> QED
      BY <1>3, <1>6, <3>1, <3>2 DEF RevokeStands
  <2> QED
    BY <1>3, <1>9, <2>1, <2>2, <2>3 DEF Standing
<1> QED
  BY <1>7, <1>8, <1>10 DEF RaceInv

(* The move: the last entry goes where the revoked one was, and the first  *)
(* k entries close up by one if the last one was the k-th.                 *)
LEMMA MoveStands ==
    ASSUME RaceInv, Sound, NEW p \in Tasks, Move(p)
    PROVE  RaceInv'
<1>1. RaceTypes /\ RacePlaced /\ \E k \in Nat : Standing(k, settled)
  BY DEF RaceInv
<1>2. PICK k \in Nat : Standing(k, settled)
  BY <1>1
<1>3. /\ at[p] = "move" /\ call[p] = "revoke"
      /\ clients' = [clients EXCEPT ![entry[p]] = clients[client_count]]
      /\ at' = [at EXCEPT ![p] = "load"]
      /\ UNCHANGED <<client_count, auth, call, arg, entry, reg, settled>>
  BY <1>1 DEF Move, Goto, RacePlaced
<1>4. /\ client_count \in Nat /\ k <= client_count /\ client_count <= MaxFw
      /\ entry[p] \in 1..MaxFw /\ MaxFw \in Nat
  BY <1>1, <1>2, FirewallAssumption DEF RaceTypes, Sound, Standing
<1>5. /\ entry[p] <= k => clients[entry[p]] = arg[p]
      /\ entry[p] > k => client_count > k
      /\ \A s \in settled : \E i \in 1..k : clients[i] = s
      /\ arg[p] \notin settled
  BY <1>1, <1>2, <1>3 DEF Standing, RevokeStands, RacePlaced
<1>6. client_count \in 1..MaxFw
  BY <1>4, <1>5
<1>7. /\ clients' \in [1..MaxFw -> IP \cup {Blank}]
      /\ clients'[entry[p]] = clients[client_count]
      /\ \A i \in 1..MaxFw \ {entry[p]} : clients'[i] = clients[i]
  BY <1>1, <1>3, <1>4, <1>6 DEF RaceTypes
<1>8. /\ at' \in [Tasks -> RacePlaces] /\ at'[p] = "load"
      /\ \A q \in Tasks \ {p} : at'[q] = at[q]
  BY <1>1, <1>3 DEF RaceTypes, RacePlaces
<1>9. RaceTypes'
  BY <1>1, <1>3, <1>7, <1>8 DEF RaceTypes
<1>10. Removing(p) /\ \A q \in Tasks : Removing(q) => q = p
  BY <1>1, <1>3 DEF Removing, RacePlaced
<1>11. RacePlaced'
  <2>1. \A q \in Tasks : Removing(q)' => Removing(q)
    BY <1>3, <1>8, <1>10 DEF Removing
  <2>2. \A q \in Tasks : at'[q] \in {"put", "move", "load", "store", "tell"} =>
           call'[q] # "revoke_all" /\ arg'[q] \in IP \ settled'
    BY <1>1, <1>3, <1>8 DEF RacePlaced
  <2>3. \A q \in Tasks : /\ at'[q] = "put" => call'[q] = "grant"
                         /\ at'[q] = "move" => call'[q] = "revoke"
                         /\ at'[q] = "walk" => call'[q] = "revoke_all" /\ settled' = {}
    BY <1>1, <1>3, <1>8 DEF RacePlaced
  <2> QED
    BY <1>10, <2>1, <2>2, <2>3 DEF RacePlaced
<1>12. ASSUME NEW n \in Nat, n < client_count, n <= k,
              \A s \in settled : \E i \in 1..n : clients'[i] = s
       PROVE  RaceInv'
  <2>1. ASSUME NEW q \in Tasks, call'[q] = "grant" PROVE GrantStands(q, n)'
    <3>1. GrantStands(q, k) /\ q # p /\ entry[q] \in Nat /\ reg[q] \in Nat
      BY <1>1, <1>2, <1>3, <2>1 DEF Standing, RaceTypes
    <3>2. GrantStands(q, n)
      BY <1>12, <3>1 DEF GrantStands
    <3> QED
      BY <1>3, <1>8, <3>1, <3>2 DEF GrantStands
  <2>2. ASSUME NEW q \in Tasks, call'[q] = "revoke" PROVE RevokeStands(q, n)'
    <3>1. CASE q = p
      BY <1>3, <1>8, <1>12, <3>1 DEF RevokeStands
    <3>2. CASE q # p
      <4>1. at[q] \notin {"move", "load", "store"}
        BY <1>3, <1>10, <2>2, <3>2 DEF Removing
      <4> QED
        BY <1>8, <3>2, <4>1 DEF RevokeStands
    <3> QED
      BY <3>1, <3>2
  <2>3. Standing(n, settled)'
    BY <1>3, <1>4, <1>12, <2>1, <2>2 DEF Standing
  <2> QED
    BY <1>9, <1>11, <2>3 DEF RaceInv
<1>13. CASE client_count > k
  <2>1. ASSUME NEW s \in settled PROVE \E i \in 1..k : clients'[i] = s
    <3>1. PICK i \in 1..k : clients[i] = s
      BY <1>5
    <3>2. i # entry[p] /\ i \in 1..MaxFw
      BY <1>4, <1>5, <3>1
    <3> QED
      BY <1>7, <3>1, <3>2
  <2> QED
    BY <1>12, <1>13, <2>1
<1>14. CASE client_count = k
  <2>1. k - 1 \in Nat /\ entry[p] <= k
    BY <1>4, <1>5, <1>6, <1>14
  <2>2. ASSUME NEW s \in settled PROVE \E i \in 1..(k - 1) : clients'[i] = s
    <3>1. PICK i \in 1..k : clients[i] = s
      BY <1>5
    <3>2. i # entry[p] /\ i \in 1..MaxFw
      BY <1>4, <1>5, <2>1, <3>1
    <3>3. CASE i < k
      BY <1>7, <3>1, <3>2, <3>3
    <3>4. CASE i = k
      <4>1. entry[p] \in 1..(k - 1)
        BY <1>4, <2>1, <3>2, <3>4
      <4>2. clients'[entry[p]] = s
        BY <1>7, <1>14, <3>1, <3>4
      <4> QED
        BY <4>1, <4>2
    <3> QED
      BY <3>1, <3>3, <3>4
  <2> QED
    BY <1>4, <1>6, <1>12, <1>14, <2>1, <2>2
<1> QED
  BY <1>2, <1>4, <1>13, <1>14

(* Loading the count.                                                      *)
LEMMA LoadStands ==
    ASSUME RaceInv, Sound, NEW p \in Tasks, Load(p)
    PROVE  RaceInv'
<1>1. RaceTypes /\ RacePlaced /\ \E k \in Nat : Standing(k, settled)
  BY DEF RaceInv
<1>2. PICK k \in Nat : Standing(k, settled)
  BY <1>1
<1>3. /\ at[p] = "load" /\ reg' = [reg EXCEPT ![p] = client_count]
      /\ at' = [at EXCEPT ![p] = "store"]
      /\ UNCHANGED <<clients, client_count, auth, call, arg, entry, settled>>
  BY DEF Load, Goto, lists
<1>4. client_count \in 0..MaxFw /\ k <= client_count
  BY <1>1, <1>2, FirewallAssumption DEF RaceTypes, Sound, Standing
<1>5. /\ at' \in [Tasks -> RacePlaces] /\ at'[p] = "store"
      /\ reg' \in [Tasks -> 0..MaxFw] /\ reg'[p] = client_count
      /\ \A q \in Tasks \ {p} : at'[q] = at[q] /\ reg'[q] = reg[q]
  BY <1>1, <1>3, <1>4 DEF RaceTypes, RacePlaces
<1>6. RaceTypes'
  BY <1>1, <1>3, <1>5 DEF RaceTypes
<1>7. RacePlaced'
  <2>1. \A q \in Tasks : Removing(q)' => Removing(q)
    BY <1>3, <1>5 DEF Removing
  <2> QED
    BY <1>1, <1>3, <1>5, <2>1 DEF RacePlaced
<1>8. Standing(k, settled)'
  <2>1. ASSUME NEW q \in Tasks, call'[q] = "grant" PROVE GrantStands(q, k)'
    <3>1. GrantStands(q, k)
      BY <1>2, <1>3, <2>1 DEF Standing
    <3> QED
      BY <1>3, <1>4, <1>5, <3>1 DEF GrantStands
  <2>2. ASSUME NEW q \in Tasks, call'[q] = "revoke" PROVE RevokeStands(q, k)'
    <3>1. RevokeStands(q, k)
      BY <1>2, <1>3, <2>2 DEF Standing
    <3> QED
      BY <1>3, <1>4, <1>5, <3>1 DEF RevokeStands
  <2> QED
    BY <1>2, <1>3, <2>1, <2>2 DEF Standing
<1> QED
  BY <1>6, <1>7, <1>8 DEF RaceInv

(* Storing it: above k by a grant, not below k by the one revoke.          *)
LEMMA StoreStands ==
    ASSUME RaceInv, Sound, NEW p \in Tasks, Store(p)
    PROVE  RaceInv'
<1>1. RaceTypes /\ RacePlaced /\ \E k \in Nat : Standing(k, settled)
  BY DEF RaceInv
<1>2. PICK k \in Nat : Standing(k, settled)
  BY <1>1
<1>3. /\ at[p] = "store" /\ at' = [at EXCEPT ![p] = "tell"]
      /\ client_count' = IF call[p] = "grant" THEN reg[p] + 1 ELSE reg[p] - 1
      /\ entry' = [entry EXCEPT ![p] = 1]
      /\ reg' = [reg EXCEPT ![p] = 0]
      /\ UNCHANGED <<clients, auth, call, arg, settled>>
  BY DEF Store, Goto
<1>4. MaxFw \in Nat /\ 1 \in 1..MaxFw /\ 0 \in 0..MaxFw
  BY FirewallAssumption
<1>5. /\ at' \in [Tasks -> RacePlaces] /\ at'[p] = "tell"
      /\ entry' \in [Tasks -> 1..MaxFw] /\ reg' \in [Tasks -> 0..MaxFw]
      /\ \A q \in Tasks \ {p} : at'[q] = at[q] /\ entry'[q] = entry[q] /\ reg'[q] = reg[q]
  BY <1>1, <1>3, <1>4 DEF RaceTypes, RacePlaces
<1>6. reg[p] \in Nat /\ call[p] \in {"grant", "revoke"}
  BY <1>1, <1>3 DEF RaceTypes, RacePlaced
<1>7. RacePlaced'
  <2>1. \A q \in Tasks : Removing(q)' => Removing(q)
    BY <1>3, <1>5 DEF Removing
  <2> QED
    BY <1>1, <1>3, <1>5, <2>1 DEF RacePlaced
<1>8. \A s \in settled' : \E i \in 1..k : clients'[i] = s
  BY <1>2, <1>3 DEF Standing
<1>9. ASSUME NEW q \in Tasks, call'[q] = "grant" PROVE GrantStands(q, k)'
  <2>1. GrantStands(q, k)
    BY <1>2, <1>3, <1>9 DEF Standing
  <2> QED
    BY <1>3, <1>5, <2>1 DEF GrantStands
<1>10. CASE call[p] = "grant"
  <2>1. reg[p] >= k
    BY <1>2, <1>3, <1>10 DEF Standing, GrantStands
  <2>2. client_count' \in Nat /\ client_count' > k
    BY <1>3, <1>6, <1>10, <2>1
  <2>3. ASSUME NEW q \in Tasks, call'[q] = "revoke" PROVE RevokeStands(q, k)'
    <3>1. RevokeStands(q, k) /\ q # p
      BY <1>2, <1>3, <1>10, <2>3 DEF Standing
    <3> QED
      BY <1>3, <1>5, <2>2, <3>1 DEF RevokeStands
  <2>4. Standing(k, settled)'
    BY <1>8, <1>9, <2>2, <2>3 DEF Standing
  <2>5. RaceTypes'
    BY <1>1, <1>3, <1>5, <2>2 DEF RaceTypes
  <2> QED
    BY <1>7, <2>4, <2>5 DEF RaceInv
<1>11. CASE call[p] = "revoke"
  <2>1. reg[p] > k
    BY <1>2, <1>3, <1>11 DEF Standing, RevokeStands
  <2>2. client_count' \in Nat /\ client_count' >= k
    BY <1>3, <1>6, <1>11, <2>1
  <2>3. ASSUME NEW q \in Tasks, call'[q] = "revoke" PROVE RevokeStands(q, k)'
    <3>1. q # p => at[q] \notin {"move", "load", "store"}
      BY <1>1, <1>3, <1>11, <2>3 DEF Removing, RacePlaced
    <3>2. at'[q] \notin {"move", "load", "store"}
      BY <1>5, <3>1
    <3> QED
      BY <3>2 DEF RevokeStands
  <2>4. Standing(k, settled)'
    BY <1>8, <1>9, <2>2, <2>3 DEF Standing
  <2>5. RaceTypes'
    BY <1>1, <1>3, <1>5, <2>2 DEF RaceTypes
  <2> QED
    BY <1>7, <2>4, <2>5 DEF RaceInv
<1> QED
  BY <1>6, <1>10, <1>11

(* Telling the DNS server.                                                 *)
LEMMA TellStands ==
    ASSUME RaceInv, Sound, NEW p \in Tasks, Tell(p)
    PROVE  RaceInv'
<1>1. RaceTypes /\ RacePlaced /\ \E k \in Nat : Standing(k, settled)
  BY DEF RaceInv
<1>2. PICK k \in Nat : Standing(k, settled)
  BY <1>1
<1>3. /\ at[p] = "tell" /\ at' = [at EXCEPT ![p] = "idle"]
      /\ arg' = [arg EXCEPT ![p] = Blank]
      /\ UNCHANGED <<clients, client_count, call, entry, reg, settled>>
  BY DEF Tell, Goto
<1>4. auth' \subseteq IP
  <2>1. arg[p] \in IP /\ auth \subseteq IP
    BY <1>1, <1>3 DEF RaceTypes, RacePlaced
  <2> QED
    BY <2>1 DEF Tell, Authenticate
<1>5. /\ at' \in [Tasks -> RacePlaces] /\ at'[p] = "idle"
      /\ arg' \in [Tasks -> IP \cup {Blank}]
      /\ \A q \in Tasks \ {p} : at'[q] = at[q] /\ arg'[q] = arg[q]
  BY <1>1, <1>3 DEF RaceTypes, RacePlaces
<1>6. RaceTypes'
  BY <1>1, <1>3, <1>4, <1>5 DEF RaceTypes
<1>7. RacePlaced'
  <2>1. \A q \in Tasks : Removing(q)' => Removing(q)
    BY <1>3, <1>5 DEF Removing
  <2> QED
    BY <1>1, <1>3, <1>5, <2>1 DEF RacePlaced
<1>8. Standing(k, settled)'
  <2>1. ASSUME NEW q \in Tasks, call'[q] = "grant" PROVE GrantStands(q, k)'
    <3>1. GrantStands(q, k)
      BY <1>2, <1>3, <2>1 DEF Standing
    <3> QED
      BY <1>3, <1>5, <3>1 DEF GrantStands
  <2>2. ASSUME NEW q \in Tasks, call'[q] = "revoke" PROVE RevokeStands(q, k)'
    <3>1. RevokeStands(q, k)
      BY <1>2, <1>3, <2>2 DEF Standing
    <3> QED
      BY <1>3, <1>5, <3>1 DEF RevokeStands
  <2> QED
    BY <1>2, <1>3, <2>1, <2>2 DEF Standing
<1> QED
  BY <1>6, <1>7, <1>8 DEF RaceInv

(* The reset stores its zero; nobody is settled while it is under way.     *)
LEMMA RevokeAllEndStands ==
    ASSUME RaceInv, Sound, NEW p \in Tasks, RevokeAllEnd(p)
    PROVE  RaceInv'
<1>1. RaceTypes /\ RacePlaced
  BY DEF RaceInv
<1>2. /\ at[p] = "walk" /\ at' = [at EXCEPT ![p] = "idle"]
      /\ client_count' = 0
      /\ UNCHANGED <<clients, auth, call, arg, entry, reg, settled>>
  BY DEF RevokeAllEnd, Goto
<1>3. call[p] = "revoke_all" /\ settled = {}
  BY <1>1, <1>2 DEF RacePlaced
<1>4. /\ at' \in [Tasks -> RacePlaces] /\ at'[p] = "idle"
      /\ \A q \in Tasks \ {p} : at'[q] = at[q]
  BY <1>1, <1>2 DEF RaceTypes, RacePlaces
<1>5. RaceTypes'
  BY <1>1, <1>2, <1>4 DEF RaceTypes
<1>6. RacePlaced'
  <2>1. \A q \in Tasks : Removing(q)' => Removing(q)
    BY <1>2, <1>4 DEF Removing
  <2> QED
    BY <1>1, <1>2, <1>4, <2>1 DEF RacePlaced
<1>7. Standing(0, settled)'
  <2>1. ASSUME NEW q \in Tasks PROVE GrantStands(q, 0)'
    <3>1. entry'[q] >= 1 /\ reg'[q] >= 0 /\ entry'[q] \in Int
      BY <1>1, <1>2 DEF RaceTypes
    <3> QED
      BY <3>1 DEF GrantStands
  <2>2. ASSUME NEW q \in Tasks, call'[q] = "revoke" PROVE RevokeStands(q, 0)'
    <3>1. q # p /\ at[q] \notin {"move", "load", "store"}
      BY <1>1, <1>2, <1>3, <2>2 DEF Removing, RacePlaced
    <3> QED
      BY <1>4, <3>1 DEF RevokeStands
  <2> QED
    BY <1>2, <1>3, <2>1, <2>2 DEF Standing
<1> QED
  BY <1>5, <1>6, <1>7 DEF RaceInv

(* Every step of the tasks keeps the settled clients standing.             *)
LEMMA RaceStep == RaceInv /\ [RaceNext]_raceVars => RaceInv'
<1> SUFFICES ASSUME RaceInv, [RaceNext]_raceVars PROVE RaceInv'
  OBVIOUS
<1>1. ASSUME NEW p \in Granters, NEW ip \in IP, GrantBegin(p, ip) PROVE RaceInv'
  BY <1>1, GrantBeginStands
<1>2. ASSUME NEW p \in Revokers, NEW ip \in IP, RevokeBegin(p, ip) PROVE RaceInv'
  BY <1>2, RevokeBeginStands
<1>3. ASSUME NEW p \in Resetters, RevokeAllBegin(p) PROVE RaceInv'
  BY <1>3, RevokeAllBeginStands
<1>4. ASSUME Sound, NEW p \in Tasks,
             Put(p) \/ Move(p) \/ Load(p) \/ Store(p) \/ Tell(p) \/ RevokeAllEnd(p)
      PROVE  RaceInv'
  BY <1>4, PutStands, MoveStands, LoadStands, StoreStands, TellStands, RevokeAllEndStands
<1>5. CASE UNCHANGED raceVars
  BY <1>5 DEF RaceInv, RaceTypes, RacePlaced, Removing, Sound, Standing, GrantStands,
              RevokeStands, raceVars, lists
<1> QED
  BY <1>1, <1>2, <1>3, <1>4, <1>5 DEF RaceNext

(* The empty table.                                                        *)
LEMMA RaceInitStands == RaceInit => RaceInv
<1> SUFFICES ASSUME RaceInit PROVE RaceInv
  OBVIOUS
<1>1. RaceTypes
  BY FirewallAssumption DEF RaceInit, RaceTypes, RacePlaces
<1>2. RacePlaced
  BY DEF RaceInit, RacePlaced, Removing
<1>3. Standing(0, settled)
  BY DEF RaceInit, Standing, GrantStands, RevokeStands
<1> QED
  BY <1>1, <1>2, <1>3 DEF RaceInv

(* Whoever stands in the first k entries is allowed.                       *)
LEMMA StandingAllowed == RaceInv => BystanderKept
<1> SUFFICES ASSUME RaceInv, Sound PROVE RaceTypeOK /\ settled \subseteq Allowed
  BY DEF BystanderKept
<1>1. RaceTypes /\ \E k \in Nat : Standing(k, settled)
  BY DEF RaceInv
<1>2. PICK k \in Nat : Standing(k, settled)
  BY <1>1
<1>3. ASSUME NEW s \in settled PROVE s \in Allowed
  <2>1. PICK i \in 1..k : clients[i] = s
    BY <1>2 DEF Standing
  <2>2. i \in 1..client_count
    BY <1>1, <1>2, <2>1 DEF Standing, RaceTypes
  <2> QED
    BY <2>1, <2>2 DEF Allowed
<1>4. client_count \in 0..MaxFw
  BY <1>1, FirewallAssumption DEF RaceTypes, Sound
<1> QED
  BY <1>1, <1>3, <1>4 DEF RaceTypes, RaceTypeOK, RacePlaces

(* For any number of clients and entries, and any number of tasks that     *)
(* grant, revoke and reset, preempted anywhere: until two removals overlap *)
(* or two grants have counted past the table, nobody whom none of the      *)
(* calls under way is about is cut off by them.                            *)
THEOREM RaceBystanderKept == RaceSpec => []BystanderKept
<1>1. RaceInit => RaceInv
  BY RaceInitStands
<1>2. RaceInv /\ [RaceNext]_raceVars => RaceInv'
  BY RaceStep
<1>3. RaceInv => BystanderKept
  BY StandingAllowed
<1> QED
  BY <1>1, <1>2, <1>3, PTL DEF RaceSpec
=============================================================================
