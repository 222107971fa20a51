---------------------------- MODULE AccessProofs ----------------------------
(***************************************************************************)
(* Proof that the arrays of AccessList.tla implement the sets of           *)
(* AccessSpec.tla, for every set of clients and every size of the arrays.  *)
(*                                                                         *)
(* The invariant adds to the checked ones that a list's count is the       *)
(* cardinality of its set: the code tests the count, the sets know only    *)
(* the cardinality.                                                        *)
(*                                                                         *)
(* The last part is about the upstream client under the event loop and the *)
(* main loop (Uplink.tla), which shares no state with the lists.           *)
(***************************************************************************)
EXTENDS AccessList, Uplink, FiniteSetTheorems, SequenceTheorems, TLAPS

Counted(l) ==
    /\ IsFiniteSet(Listed(l))
    /\ Cardinality(Listed(l)) = l.count

Good(l) == Listed(l) \subseteq IP /\ Distinct(l) /\ Counted(l)

IInv == TypeOK /\ Good(clients) /\ Good(auth) /\ WalkRemoves

(* A list with no used entry: the state after a memset, and after the      *)
(* count alone was zeroed.                                                 *)
LEMMA ZeroList ==
    ASSUME NEW l, l.count = 0
    PROVE  Listed(l) = {} /\ Good(l)
<1>1. Used(l) = {}
  BY DEF Used
<1>2. Listed(l) = {}
  BY <1>1 DEF Listed
<1>3. Distinct(l)
  BY <1>1 DEF Distinct
<1>4. Counted(l)
  BY <1>2, FS_EmptySet DEF Counted
<1> QED
  BY <1>2, <1>3, <1>4 DEF Good

(* The memset of tollgate_core_fw_init.                                    *)
LEMMA EmptyList ==
    ASSUME NEW max \in Nat
    PROVE  Empty(max) \in List(max) /\ Listed(Empty(max)) = {} /\ Good(Empty(max))
<1>1. Empty(max) \in List(max)
  BY DEF Empty, List
<1>2. Empty(max).count = 0
  BY DEF Empty
<1> QED
  BY <1>1, <1>2, ZeroList

(* Writing the entry behind the last one adds one address.                 *)
LEMMA AppendList ==
    ASSUME NEW max \in Nat, NEW l \in List(max), Good(l), l.count < max,
           NEW ip \in IP, ip \notin Listed(l)
    PROVE  /\ Appended(l, ip) \in List(max)
           /\ Listed(Appended(l, ip)) = Listed(l) \cup {ip}
           /\ Good(Appended(l, ip))
<1> DEFINE m == Appended(l, ip)
<1>1. /\ m \in List(max)
      /\ m.count = l.count + 1
      /\ m.at[l.count + 1] = ip
      /\ \A i \in 1..l.count : m.at[i] = l.at[i]
      /\ l.count \in Nat
  BY DEF Appended, List
<1>2. Used(m) = Used(l) \cup {l.count + 1}
  BY <1>1 DEF Used
<1>3. Listed(m) = Listed(l) \cup {ip}
  <2>1. ASSUME NEW x \in Listed(m) PROVE x \in Listed(l) \cup {ip}
    BY <2>1, <1>1, <1>2 DEF Listed, Used
  <2>2. ASSUME NEW x \in Listed(l) PROVE x \in Listed(m)
    BY <2>2, <1>1, <1>2 DEF Listed, Used
  <2>3. ip \in Listed(m)
    BY <1>1, <1>2 DEF Listed, Used
  <2> QED
    BY <2>1, <2>2, <2>3
<1>4. Distinct(m)
  <2> SUFFICES ASSUME NEW i \in Used(m), NEW j \in Used(m), m.at[i] = m.at[j]
               PROVE  i = j
    BY DEF Distinct
  <2>1. CASE i \in Used(l) /\ j \in Used(l)
    BY <2>1, <1>1 DEF Good, Distinct, Used
  <2>2. CASE i \in Used(l) /\ j = l.count + 1
    BY <2>2, <1>1 DEF Listed, Used
  <2>3. CASE j \in Used(l) /\ i = l.count + 1
    BY <2>3, <1>1 DEF Listed, Used
  <2> QED
    BY <2>1, <2>2, <2>3, <1>2
<1>5. Counted(m)
  BY <1>1, <1>3, FS_AddElement DEF Good, Counted
<1> QED
  BY <1>1, <1>3, <1>4, <1>5 DEF Good

(* Moving the last entry into the place of the removed one takes that      *)
(* address away and no other.                                              *)
LEMMA RemoveList ==
    ASSUME NEW max \in Nat, NEW l \in List(max), Good(l), NEW ip
    PROVE  /\ Removed(l, ip) \in List(max)
           /\ Listed(Removed(l, ip)) = Listed(l) \ {ip}
           /\ Good(Removed(l, ip))
<1>1. CASE ip \notin Listed(l)
  BY <1>1 DEF Removed
<1>2. CASE ip \in Listed(l)
  <2> DEFINE k == CHOOSE i \in Used(l) : l.at[i] = ip
             m == [at |-> [l.at EXCEPT ![k] = l.at[l.count]], count |-> l.count - 1]
  <2>1. k \in Used(l) /\ l.at[k] = ip
    BY <1>2 DEF Listed
  <2>2. Removed(l, ip) = m
    BY <1>2 DEF Removed
  <2> HIDE DEF k
  <2>3. /\ l.count \in 1..max
        /\ k \in 1..l.count
        /\ m.count = l.count - 1
        /\ m.at = [l.at EXCEPT ![k] = l.at[l.count]]
    BY <2>1 DEF List, Used
  <2>4. m \in List(max)
    BY <2>3 DEF List
  <2>5. \A i \in 1..(l.count - 1) : m.at[i] = IF i = k THEN l.at[l.count] ELSE l.at[i]
    BY <2>3 DEF List
  <2>6. \A i, j \in 1..l.count : l.at[i] = l.at[j] => i = j
    BY DEF Good, Distinct, Used
  <2>7. Used(m) = 1..(l.count - 1) /\ Used(l) = 1..l.count
    BY <2>3 DEF Used
  <2> HIDE DEF m
  <2>8. Listed(m) = Listed(l) \ {ip}
    <3>1. ASSUME NEW x \in Listed(m) PROVE x \in Listed(l) \ {ip}
      <4>1. PICK i \in 1..(l.count - 1) : x = m.at[i]
        BY <3>1, <2>7 DEF Listed
      <4>2. CASE i = k
        BY <4>1, <4>2, <2>1, <2>3, <2>5, <2>6, <2>7 DEF Listed
      <4>3. CASE i # k
        BY <4>1, <4>3, <2>1, <2>3, <2>5, <2>6, <2>7 DEF Listed
      <4> QED
        BY <4>2, <4>3
    <3>2. ASSUME NEW x \in Listed(l) \ {ip} PROVE x \in Listed(m)
      <4>1. PICK i \in 1..l.count : x = l.at[i]
        BY <3>2, <2>7 DEF Listed
      <4>2. i # k
        BY <4>1, <3>2, <2>1
      <4>3. CASE i = l.count
        <5>1. k \in 1..(l.count - 1) /\ m.at[k] = x
          BY <4>1, <4>2, <4>3, <2>3, <2>5
        <5> QED
          BY <5>1, <2>7 DEF Listed
      <4>4. CASE i # l.count
        <5>1. i \in 1..(l.count - 1) /\ m.at[i] = x
          BY <4>1, <4>2, <4>4, <2>3, <2>5
        <5> QED
          BY <5>1, <2>7 DEF Listed
      <4> QED
        BY <4>3, <4>4
    <3> QED
      BY <3>1, <3>2
  <2>9. Distinct(m)
    <3> SUFFICES ASSUME NEW i \in 1..(l.count - 1), NEW j \in 1..(l.count - 1),
                        m.at[i] = m.at[j]
                 PROVE  i = j
      BY <2>7 DEF Distinct
    <3> QED
      BY <2>3, <2>5, <2>6
  <2>10. Counted(m)
    BY <1>2, <2>3, <2>8, FS_RemoveElement DEF Good, Counted
  <2> QED
    BY <2>2, <2>4, <2>8, <2>9, <2>10 DEF Good
<1> QED
  BY <1>1, <1>2

(* tollgate_core_dns_set_authenticated(ip, true) is Authenticate of the    *)
(* set of the list.                                                        *)
LEMMA AuthenticateList ==
    ASSUME NEW l \in List(MaxAuth), Good(l), NEW ip \in IP
    PROVE  /\ Authenticated(l, ip) \in List(MaxAuth)
           /\ Listed(Authenticated(l, ip)) = Authenticate(Listed(l), ip)
           /\ Good(Authenticated(l, ip))
<1>1. /\ MaxAuth \in Nat
      /\ l.count \in Nat
      /\ Cardinality(Listed(l)) = l.count
  BY FirewallAssumption DEF List, Good, Counted
<1>2. CASE ip \in Listed(l)
  <2>1. Listed(l) \cup {ip} = Listed(l)
    BY <1>2
  <2>2. Authenticated(l, ip) = l
    BY <1>2 DEF Authenticated
  <2> QED
    BY <1>2, <2>1, <2>2 DEF Authenticate
<1>3. CASE ip \notin Listed(l) /\ l.count >= MaxAuth
  BY <1>1, <1>3 DEF Authenticated, Authenticate
<1>4. CASE ip \notin Listed(l) /\ l.count < MaxAuth
  BY <1>1, <1>4, AppendList DEF Authenticated, Authenticate
<1> QED
  BY <1>1, <1>2, <1>3, <1>4

(* The sets' cardinality is the lists' cardinality.                        *)
LEMMA SameCardinality == \A S : Abstract!Cardinality(S) = Cardinality(S)
BY DEF Abstract!Cardinality, Cardinality

(* The initial state.                                                      *)
LEMMA InitIInv == Init => IInv
<1> SUFFICES ASSUME Init PROVE IInv
  OBVIOUS
<1>1. MaxFw \in Nat /\ MaxAuth \in Nat
  BY FirewallAssumption
<1> QED
  BY <1>1, EmptyList DEF Init, IInv, TypeOK, WalkRemoves

(* Every step of the arrays keeps the invariant and is a step of the sets  *)
(* or leaves them alone.  tollgate_core_fw_revoke_all takes effect at its  *)
(* end.                                                                    *)
LEMMA StepIInv ==
    ASSUME IInv, [Next]_vars
    PROVE  IInv' /\ [Abstract!Next]_AsSets
<1>1. /\ MaxFw \in Nat /\ MaxAuth \in Nat
      /\ clients \in List(MaxFw) /\ auth \in List(MaxAuth)
      /\ turn \in 0..(MaxFw + 1) /\ before \subseteq IP
      /\ Good(clients) /\ Good(auth) /\ WalkRemoves
      /\ clients.count \in 0..MaxFw /\ auth.count \in 0..MaxAuth
      /\ Cardinality(Listed(clients)) = clients.count
  BY FirewallAssumption DEF IInv, TypeOK, List, Good, Counted
<1>2. ASSUME NEW ip \in IP, Grant(ip) PROVE IInv' /\ [Abstract!Next]_AsSets
  <2>1. turn = 0 /\ turn' = 0 /\ before' = before
    BY <1>2 DEF Grant
  <2>2. CASE ip \in Listed(clients) \/ clients.count >= MaxFw
    <3>1. UNCHANGED vars
      BY <1>2, <2>2 DEF Grant, vars
    <3> QED
      BY <3>1, <1>1, <2>1 DEF vars, IInv, TypeOK, Good, Counted, Distinct, Listed, Used,
            WalkRemoves, AsSets
  <2>3. CASE ip \notin Listed(clients) /\ clients.count < MaxFw
    <3>0. ~(ip \in Listed(clients) \/ clients.count >= MaxFw)
      BY <1>1, <2>3
    <3>1. /\ clients' = Appended(clients, ip)
          /\ auth' = Authenticated(auth, ip)
      BY <1>2, <3>0 DEF Grant
    <3>2. /\ clients' \in List(MaxFw) /\ Good(clients')
          /\ Listed(clients') = Listed(clients) \cup {ip}
      BY <1>1, <2>3, <3>1, AppendList
    <3>3. /\ auth' \in List(MaxAuth) /\ Good(auth')
          /\ Listed(auth') = Authenticate(Listed(auth), ip)
      BY <1>1, <3>1, AuthenticateList
    <3>4. IInv'
      BY <1>1, <2>1, <3>2, <3>3 DEF IInv, TypeOK, WalkRemoves, Good, Counted,
            Distinct, Listed, Used
    <3>5. AsSets.fw = Listed(clients) /\ AsSets.auth = Listed(auth)
      BY <2>1 DEF AsSets
    <3>6. AsSets' = [fw |-> Listed(clients'), auth |-> Listed(auth')]
      BY <2>1 DEF AsSets, Listed, Used
    <3>7. ~(ip \in AsSets.fw \/ Cardinality(AsSets.fw) >= MaxFw)
      BY <3>0, <3>5, <1>1
    <3>8. AsSets' = FwGrant(AsSets, ip)
      BY <3>2, <3>3, <3>5, <3>6, <3>7 DEF FwGrant
    <3>9. Abstract!Grant(ip)
      BY <3>8, SameCardinality DEF Abstract!Grant, Abstract!FwGrant, FwGrant,
            Abstract!Authenticate, Authenticate
    <3> QED
      BY <3>4, <3>9 DEF Abstract!Next
  <2> QED
    BY <1>1, <2>2, <2>3
<1>3. ASSUME NEW ip \in IP, Revoke(ip) PROVE IInv' /\ [Abstract!Next]_AsSets
  <2>1. /\ turn = 0 /\ turn' = 0 /\ before' = before
        /\ ip \in Listed(clients)
        /\ clients' = Removed(clients, ip)
        /\ auth' = Removed(auth, ip)
    BY <1>3 DEF Revoke
  <2>2. /\ clients' \in List(MaxFw) /\ Good(clients')
        /\ Listed(clients') = Listed(clients) \ {ip}
    BY <1>1, <2>1, RemoveList
  <2>3. /\ auth' \in List(MaxAuth) /\ Good(auth')
        /\ Listed(auth') = Listed(auth) \ {ip}
    BY <1>1, <2>1, RemoveList
  <2>4. IInv'
    BY <1>1, <2>1, <2>2, <2>3 DEF IInv, TypeOK, WalkRemoves, Good, Counted,
          Distinct, Listed, Used
  <2>5. AsSets.fw = Listed(clients) /\ AsSets.auth = Listed(auth)
    BY <2>1 DEF AsSets
  <2>6. AsSets' = [fw |-> Listed(clients'), auth |-> Listed(auth')]
    BY <2>1 DEF AsSets, Listed, Used
  <2>7. AsSets.fw \cap {ip} = {ip}
    BY <2>1, <2>5
  <2>8. Abstract!Revoke(ip)
    BY <2>2, <2>3, <2>5, <2>6, <2>7 DEF Abstract!Revoke, Abstract!FwRevoke
  <2> QED
    BY <2>4, <2>8 DEF Abstract!Next
<1>4. ASSUME RevokeAllBegin PROVE IInv' /\ [Abstract!Next]_AsSets
  <2>1. /\ turn = 0 /\ turn' = 1 /\ before' = Listed(auth)
        /\ clients' = clients /\ auth' = auth
    BY <1>4 DEF RevokeAllBegin
  <2>2. 1..(turn' - 1) = {}
    BY <2>1
  <2>3. Listed(auth)' = before' \ {clients'.at[i] : i \in 1..(turn' - 1)}
    BY <2>1, <2>2 DEF Listed, Used
  <2>4. WalkRemoves'
    BY <1>1, <2>1, <2>3 DEF WalkRemoves
  <2>5. TypeOK'
    BY <1>1, <2>1 DEF TypeOK, Good
  <2>6. Good(clients)' /\ Good(auth)'
    BY <1>1, <2>1 DEF Good, Counted, Distinct, Listed, Used
  <2>7. AsSets' = AsSets
    BY <2>1 DEF AsSets, Listed, Used
  <2> QED
    BY <2>4, <2>5, <2>6, <2>7 DEF IInv
<1>5. ASSUME RevokeAllTurn PROVE IInv' /\ [Abstract!Next]_AsSets
  <2> DEFINE ip == clients.at[turn]
             walked == {clients.at[i] : i \in 1..(turn - 1)}
  <2>1. /\ turn \in 1..clients.count
        /\ auth' = Removed(auth, ip)
        /\ turn' = turn + 1
        /\ clients' = clients /\ before' = before
    BY <1>5 DEF RevokeAllTurn, Used
  <2>2. /\ auth' \in List(MaxAuth) /\ Good(auth')
        /\ Listed(auth') = Listed(auth) \ {ip}
    BY <1>1, <2>1, RemoveList
  <2>3. Listed(auth) = before \ walked
    BY <1>1, <2>1 DEF WalkRemoves
  <2>4. {clients.at[i] : i \in 1..turn} = walked \cup {ip}
    <3>1. 1..turn = 1..(turn - 1) \cup {turn}
      BY <1>1, <2>1
    <3> QED
      BY <3>1
  <2>5. WalkRemoves'
    <3>1. turn' <= clients'.count + 1
      BY <1>1, <2>1
    <3>2. {clients'.at[i] : i \in 1..(turn' - 1)} = walked \cup {ip}
      <4>1. turn' - 1 = turn
        BY <1>1, <2>1
      <4> QED
        BY <4>1, <2>1, <2>4
    <3>3. Listed(auth') = before' \ {clients'.at[i] : i \in 1..(turn' - 1)}
      BY <2>1, <2>2, <2>3, <3>2
    <3> QED
      BY <3>1, <3>3 DEF WalkRemoves, Listed, Used
  <2>6. TypeOK'
    BY <1>1, <2>1, <2>2 DEF TypeOK
  <2>7. Good(clients)' /\ Good(auth)'
    BY <1>1, <2>1, <2>2 DEF Good, Counted, Distinct, Listed, Used
  <2>8. AsSets' = AsSets
    <3>1. turn # 0 /\ turn' # 0
      BY <1>1, <2>1
    <3> QED
      BY <2>1, <3>1 DEF AsSets, Listed, Used
  <2> QED
    BY <2>5, <2>6, <2>7, <2>8 DEF IInv
<1>6. ASSUME RevokeAllEnd PROVE IInv' /\ [Abstract!Next]_AsSets
  <2>1. /\ turn > clients.count
        /\ clients' = [clients EXCEPT !.count = 0]
        /\ turn' = 0 /\ before' = {} /\ auth' = auth
    BY <1>6 DEF RevokeAllEnd
  <2>2. clients' \in List(MaxFw) /\ clients'.count = 0
    BY <1>1, <2>1 DEF List
  <2>3. Listed(clients') = {} /\ Good(clients')
    BY <2>2, ZeroList
  <2>4. IInv'
    BY <1>1, <2>1, <2>2, <2>3 DEF IInv, TypeOK, WalkRemoves, Good, Counted,
          Distinct, Listed, Used
  <2>5. turn # 0 /\ turn - 1 = clients.count
    BY <1>1, <2>1 DEF WalkRemoves
  <2>6. Listed(auth) = before \ Listed(clients)
    BY <1>1, <2>5 DEF WalkRemoves, Listed, Used
  <2>7. AsSets = [fw |-> Listed(clients), auth |-> before]
    BY <2>5 DEF AsSets
  <2>8. AsSets' = [fw |-> {}, auth |-> Listed(auth)]
    BY <2>1, <2>3 DEF AsSets, Listed, Used
  <2>9. Abstract!RevokeAll
    BY <2>6, <2>7, <2>8 DEF Abstract!RevokeAll, Abstract!FwRevokeAll
  <2> QED
    BY <2>4, <2>9 DEF Abstract!Next
<1>7. ASSUME Restart PROVE IInv' /\ [Abstract!Next]_AsSets
  <2>1. /\ turn = 0 /\ turn' = 0 /\ before' = before /\ auth' = auth
        /\ clients' = Empty(MaxFw)
    BY <1>7 DEF Restart
  <2>2. clients' \in List(MaxFw) /\ Listed(clients') = {} /\ Good(clients')
    BY <1>1, <2>1, EmptyList
  <2>3. IInv'
    BY <1>1, <2>1, <2>2 DEF IInv, TypeOK, WalkRemoves, Good, Counted,
          Distinct, Listed, Used
  <2>4. AsSets = [fw |-> Listed(clients), auth |-> Listed(auth)]
    BY <2>1 DEF AsSets
  <2>5. AsSets' = [fw |-> {}, auth |-> Listed(auth)]
    BY <2>1, <2>2 DEF AsSets, Listed, Used
  <2>6. Abstract!Restart
    BY <2>4, <2>5 DEF Abstract!Restart, Abstract!FwInit
  <2> QED
    BY <2>3, <2>6 DEF Abstract!Next
<1>8. ASSUME UNCHANGED vars PROVE IInv' /\ [Abstract!Next]_AsSets
  BY <1>8, <1>1 DEF vars, IInv, TypeOK, Good, Counted, Distinct, Listed, Used,
        WalkRemoves, AsSets
<1> QED
  BY <1>2, <1>3, <1>4, <1>5, <1>6, <1>7, <1>8 DEF Next

(* The inductive invariant holds in every state of the arrays.             *)
THEOREM AccessInvariant == Spec => []IInv
<1>1. IInv /\ [Next]_vars => IInv'
  BY StepIInv
<1> QED
  BY InitIInv, <1>1, PTL DEF Spec

(* The counts stay within the arrays, and no client is in a list twice,    *)
(* whatever sequence of grants, revocations and restarts is made.          *)
THEOREM AccessNoDuplicates == Spec => [](TypeOK /\ NoDuplicates)
<1>1. IInv => TypeOK /\ NoDuplicates
  BY DEF IInv, Good, NoDuplicates
<1> QED
  BY AccessInvariant, <1>1, PTL

(* The arrays of the firewall and of the DNS server implement the sets     *)
(* that Gate.tla is written over.                                          *)
THEOREM AccessImplementsSets == Spec => ImplementsSets
<1>1. Init => Abstract!Init
  <2> SUFFICES ASSUME Init PROVE AsSets = [fw |-> {}, auth |-> {}]
    BY DEF Abstract!Init, Abstract!NoAccess
  <2>1. MaxFw \in Nat /\ MaxAuth \in Nat
    BY FirewallAssumption
  <2> QED
    BY <2>1, EmptyList DEF Init, AsSets
<1>2. IInv /\ [Next]_vars => [Abstract!Next]_AsSets
  BY StepIInv
<1> QED
  BY AccessInvariant, <1>1, <1>2, PTL DEF Spec, ImplementsSets, Abstract!Spec

(***************************************************************************)
(* The way to the internet (Uplink.tla).  NotStuck is inductive as it      *)
(* stands: whoever leaves a detection or a payment writes how it ended,    *)
(* and what the other task writes meanwhile is under way in that task.     *)
(***************************************************************************)

(* The events that wait are a sequence of at most MaxEvents.               *)
LEMMA SeqIsBounded ==
    ASSUME NEW S, NEW n \in Nat
    PROVE  \A s : s \in BoundedSeq(S, n) <=> s \in Seq(S) /\ Len(s) <= n
<1> SUFFICES ASSUME NEW s
             PROVE  s \in BoundedSeq(S, n) <=> s \in Seq(S) /\ Len(s) <= n
  OBVIOUS
<1>1. ASSUME s \in BoundedSeq(S, n) PROVE s \in Seq(S) /\ Len(s) <= n
  <2>1. PICK m \in 0..n : s \in [1..m -> S]
    BY <1>1 DEF BoundedSeq, SeqOf
  <2>2. m \in Nat /\ m <= n
    BY <2>1
  <2>3. s \in Seq(S)
    BY <2>1, <2>2, SeqDef
  <2>4. DOMAIN s = 1..m
    BY <2>1
  <2>5. Len(s) = m
    BY <2>2, <2>3, <2>4
  <2> QED
    BY <2>2, <2>3, <2>5
<1>2. ASSUME s \in Seq(S), Len(s) <= n PROVE s \in BoundedSeq(S, n)
  <2>1. Len(s) \in 0..n /\ s \in [1..Len(s) -> S]
    BY <1>2
  <2> QED
    BY <2>1 DEF BoundedSeq, SeqOf
<1> QED
  BY <1>1, <1>2

(* The events of the WiFi driver and the IP stack.                         *)
WifiEvents == {"got_ip", "disconnected", "lost_ip"}

(* A posted event finds room, a taken one leaves it.                       *)
LEMMA EventsType ==
    ASSUME events \in BoundedSeq(WifiEvents, MaxEvents)
    PROVE  /\ \A e \in WifiEvents : Room /\ Post(e) =>
                  events' \in BoundedSeq(WifiEvents, MaxEvents)
           /\ \A e : Takes(e) => events' \in BoundedSeq(WifiEvents, MaxEvents)
<1>1. events \in Seq(WifiEvents) /\ Len(events) <= MaxEvents /\ MaxEvents \in Nat
  BY SeqIsBounded, UplinkAssumption
<1>2. ASSUME NEW e \in WifiEvents, Room, Post(e)
      PROVE  events' \in BoundedSeq(WifiEvents, MaxEvents)
  <2>1. events' \in Seq(WifiEvents) /\ Len(events') <= MaxEvents
    BY <1>1, <1>2 DEF Room, Post
  <2> QED
    BY <1>1, <2>1, SeqIsBounded
<1>3. ASSUME NEW e, Takes(e) PROVE events' \in BoundedSeq(WifiEvents, MaxEvents)
  <2>1. events' \in Seq(WifiEvents) /\ Len(events') <= MaxEvents
    BY <1>1, <1>3 DEF Takes
  <2> QED
    BY <1>1, <2>1, SeqIsBounded
<1> QED
  BY <1>2, <1>3

(* tollgate_config_get_next_wifi names a network that is configured.       *)
LEMMA NetworkType ==
    ASSUME NEW i \in Nat, NEW n \in 1..MaxNetworks
    PROVE  i % n \in Networks
BY UplinkAssumption DEF Networks

(* What the radio, the network list and the event queue may be.            *)
StationOK ==
    /\ reach \subseteq Networks
    /\ count \in 0..MaxNetworks /\ current \in Networks /\ target \in Networks \cup {NoNetwork}
    /\ radio \in {"off", "trying", "up"} /\ retries \in Nat
    /\ events \in BoundedSeq(WifiEvents, MaxEvents)

LoopOK == loop \in {"idle", "stop", "stop_then_retry", "retry", "detect", "pay"}

ServicesOK ==
    /\ starters \in [Starters -> {"none", "delay", "starting", "done"}]
    /\ mutex \in Starters \cup {"free"} /\ running \in BOOLEAN /\ portal \in BOOLEAN

ClientOK ==
    /\ state \in States /\ gateway \in BOOLEAN /\ seen \in {"unknown", "low", "high"}
    /\ tick \in {"idle", "usage", "pay"} /\ session \in {"none", "low", "high"}

(* The type invariant in its four parts.                                   *)
LEMMA UplinkTypes == UplinkTypeOK <=> StationOK /\ LoopOK /\ ServicesOK /\ ClientOK
BY DEF UplinkTypeOK, StationOK, LoopOK, ServicesOK, ClientOK, WifiEvents

UnderWay ==
    state \in {"DETECTING", "PAYING", "RENEWING"} => loop \in {"detect", "pay"} \/ tick = "pay"

(* After app_main nothing is under way.                                    *)
LEMMA UplinkInitOK == UplinkInit => NotStuck
<1> SUFFICES ASSUME UplinkInit PROVE NotStuck
  OBVIOUS
<1>1. StationOK
  <2>1. <<>> \in BoundedSeq(WifiEvents, MaxEvents)
    <3>1. <<>> \in Seq(WifiEvents) /\ Len(<<>>) <= MaxEvents /\ MaxEvents \in Nat
      BY UplinkAssumption
    <3> QED
      BY <3>1, SeqIsBounded, Zenon
  <2>2. 0 \in Networks
    BY UplinkAssumption DEF Networks
  <2>3. target \in Networks \cup {NoNetwork} /\ radio \in {"off", "trying", "up"}
    BY <2>2 DEF UplinkInit
  <2>4. count \in 0..MaxNetworks /\ retries \in Nat
    BY DEF UplinkInit
  <2> QED
    BY <2>1, <2>2, <2>3, <2>4 DEF UplinkInit, StationOK
<1>2. ServicesOK
  BY DEF UplinkInit, ServicesOK, Starters
<1>3. LoopOK /\ ClientOK /\ UnderWay
  BY DEF UplinkInit, LoopOK, ClientOK, UnderWay, States
<1> QED
  BY <1>1, <1>2, <1>3, UplinkTypes DEF NotStuck, UnderWay

(* The station: every step of the radio, of the event loop and of the      *)
(* portal's WiFi pages keeps its networks and its queue in range.          *)
LEMMA StationStep ==
    ASSUME StationOK, [UplinkNext]_uplinkVars
    PROVE  StationOK'
<1>0. /\ count \in Nat /\ current \in Nat /\ retries \in Nat /\ MaxNetworks \in Nat \ {0}
      /\ events \in BoundedSeq(WifiEvents, MaxEvents)
  BY UplinkAssumption DEF StationOK, Networks
<1>1. Connecting \in {"off", "trying", "up"}
  BY DEF StationOK, Connecting
<1>2. CASE RadioUp \/ RadioDown \/ LosesIp
  <2>1. events' \in BoundedSeq(WifiEvents, MaxEvents)
    BY <1>0, <1>2, EventsType DEF RadioUp, RadioDown, LosesIp, WifiEvents
  <2> QED
    BY <1>2, <2>1 DEF RadioUp, RadioDown, LosesIp, StationOK
<1>3. CASE OnDisconnected \/ OnLostIp \/ OnGotIp
  <2>1. events' \in BoundedSeq(WifiEvents, MaxEvents)
    BY <1>0, <1>3, EventsType DEF OnDisconnected, OnLostIp, OnGotIp
  <2>2. retries' \in Nat
    BY <1>0, <1>3 DEF OnDisconnected, OnLostIp, OnGotIp
  <2> QED
    BY <1>3, <2>1, <2>2 DEF OnDisconnected, OnLostIp, OnGotIp, StationOK
<1>4. CASE Retry
  <2>1. current' \in Networks /\ target' \in Networks \cup {NoNetwork}
    <3>1. CASE retries < MaxRetry \/ count = 0
      BY <1>4, <3>1 DEF Retry, NextNetwork, StationOK
    <3>2. CASE ~(retries < MaxRetry) /\ count # 0
      <4>1. count \in 1..MaxNetworks /\ current + 1 \in Nat
        BY <1>0, <3>2 DEF StationOK
      <4>2. (current + 1) % count \in Networks
        BY <4>1, NetworkType
      <4> QED
        BY <1>4, <3>2, <4>2 DEF Retry, NextNetwork
    <3> QED
      BY <3>1, <3>2
  <2>2. retries' \in Nat /\ radio' \in {"off", "trying", "up"}
    BY <1>0, <1>1, <1>4 DEF Retry, NextNetwork, StationOK
  <2> QED
    BY <1>4, <2>1, <2>2 DEF Retry, NextNetwork, StationOK
<1>5. CASE WifiConnect
  <2>1. count' \in 0..MaxNetworks /\ target' \in Networks
    BY <1>0, <1>5 DEF WifiConnect, Networks
  <2> QED
    BY <1>1, <1>5, <2>1 DEF WifiConnect, StationOK
<1>6. CASE WifiScan
  <2>1. events' \in BoundedSeq(WifiEvents, MaxEvents)
    BY <1>0, <1>6, EventsType DEF WifiScan, WifiEvents
  <2>2. count > 0 => current % count \in Networks
    <3>1. count > 0 => count \in 1..MaxNetworks
      BY <1>0 DEF StationOK
    <3> QED
      BY <1>0, <3>1, NetworkType
  <2> QED
    BY <1>6, <2>1, <2>2 DEF WifiScan, StationOK
<1>7. CASE UNCHANGED station
  BY <1>7 DEF station, StationOK
<1>8. CASE StopServices \/ NotDetected \/ Detected \/ ConnectPays \/ Tick
  BY <1>7, <1>8 DEF StopServices, NotDetected, Detected, ConnectPays, Tick, TickRetries, TickAsks,
                    TickAnswered, TickUnanswered, TickRenews, TickPays
<1>9. CASE \E t \in Starters : StartBegins(t) \/ StartEnds(t)
  BY <1>7, <1>9 DEF StartBegins, StartEnds
<1>10. CASE SessionWanes \/ UNCHANGED uplinkVars
  BY <1>7, <1>10 DEF SessionWanes, uplinkVars, station
<1> QED
  BY <1>2, <1>3, <1>4, <1>5, <1>6, <1>8, <1>9, <1>10 DEF UplinkNext, EventLoop

(* The services: their tasks and their mutex.                              *)
LEMMA ServicesStep ==
    ASSUME ServicesOK, [UplinkNext]_uplinkVars
    PROVE  ServicesOK'
<1>1. CASE UNCHANGED services
  BY <1>1 DEF services, ServicesOK
<1>2. CASE OnGotIp
  <2>1. "svc_start" \in Starters /\ starters \in [Starters -> {"none", "delay", "starting", "done"}]
    BY DEF ServicesOK, Starters
  <2>2. starters' \in [Starters -> {"none", "delay", "starting", "done"}]
    BY <1>2, <2>1 DEF OnGotIp
  <2> QED
    BY <1>2, <2>2 DEF OnGotIp, ServicesOK
<1>3. CASE StopServices
  <2>1. running' \in BOOLEAN /\ portal' \in BOOLEAN
    <3>1. CASE running
      BY <1>3, <3>1 DEF StopServices
    <3>2. CASE ~running
      BY <1>3, <3>2 DEF StopServices, ServicesOK
    <3> QED
      BY <3>1, <3>2
  <2> QED
    BY <1>3, <2>1 DEF StopServices, ServicesOK
<1>4. ASSUME NEW t \in Starters, StartBegins(t) PROVE ServicesOK'
  BY <1>4 DEF StartBegins, ServicesOK
<1>5. ASSUME NEW t \in Starters, StartEnds(t) PROVE ServicesOK'
  <2>1. running' = TRUE /\ portal' = TRUE /\ mutex' = "free"
        /\ starters' \in [Starters -> {"none", "delay", "starting", "done"}]
    BY <1>5 DEF StartEnds, ServicesOK
  <2> QED
    BY <2>1 DEF ServicesOK
<1>6. CASE RadioUp \/ RadioDown \/ LosesIp \/ WifiConnect \/ WifiScan \/ SessionWanes
  BY <1>1, <1>6 DEF RadioUp, RadioDown, LosesIp, WifiConnect, WifiScan, SessionWanes
<1>7. CASE OnDisconnected \/ OnLostIp \/ Retry \/ NotDetected \/ Detected \/ ConnectPays
  BY <1>1, <1>7 DEF OnDisconnected, OnLostIp, Retry, NotDetected, Detected, ConnectPays
<1>8. CASE Tick
  BY <1>1, <1>8 DEF Tick, TickRetries, TickAsks, TickAnswered, TickUnanswered, TickRenews, TickPays
<1>9. CASE UNCHANGED uplinkVars
  BY <1>1, <1>9 DEF uplinkVars, services
<1> QED
  BY <1>2, <1>3, <1>4, <1>5, <1>6, <1>7, <1>8, <1>9 DEF UplinkNext, EventLoop

(* A payment that ends writes PAID or ERROR.                               *)
LEMMA PayEnds ==
    ASSUME ClientOK, Paid \/ PayFailed
    PROVE  /\ state' \in {"PAID", "ERROR"} /\ state' \in States
           /\ seen' \in {"unknown", "low", "high"} /\ session' \in {"none", "low", "high"}
BY DEF ClientOK, Paid, PayFailed, States

(* The client: whichever of the two tasks writes its state, what is under  *)
(* way afterwards is so in that task, or was so in the other.              *)
LEMMA ClientStep ==
    ASSUME LoopOK, ClientOK, UnderWay, [UplinkNext]_uplinkVars
    PROVE  LoopOK' /\ ClientOK' /\ UnderWay'
<1>1. CASE UNCHANGED <<loop, client, tick, session>>
  BY <1>1 DEF client, LoopOK, ClientOK, UnderWay
<1>2. CASE OnDisconnected
  BY <1>2 DEF OnDisconnected, ClientReset, LoopOK, ClientOK, UnderWay, States
<1>3. CASE OnLostIp
  BY <1>3 DEF OnLostIp, Takes, client, LoopOK, ClientOK, UnderWay
<1>4. CASE StopServices
  BY <1>4 DEF StopServices, client, LoopOK, ClientOK, UnderWay
<1>5. CASE Retry
  BY <1>5 DEF Retry, client, LoopOK, ClientOK, UnderWay
<1>6. CASE OnGotIp
  BY <1>6 DEF OnGotIp, LoopOK, ClientOK, UnderWay, States
<1>7. CASE NotDetected \/ Detected
  BY <1>7 DEF NotDetected, Detected, LoopOK, ClientOK, UnderWay, States
<1>8. CASE ConnectPays
  <2>1. /\ state' \in {"PAID", "ERROR"} /\ state' \in States
        /\ seen' \in {"unknown", "low", "high"} /\ session' \in {"none", "low", "high"}
    BY <1>8, PayEnds DEF ConnectPays
  <2> QED
    BY <1>8, <2>1 DEF ConnectPays, LoopOK, ClientOK, UnderWay
<1>9. CASE TickRetries \/ TickAsks
  BY <1>9 DEF TickRetries, TickAsks, client, LoopOK, ClientOK, UnderWay, States
<1>10. ASSUME NEW known \in {"unknown", "low", "high"}, TickRenews(known)
       PROVE  LoopOK' /\ ClientOK' /\ UnderWay'
  BY <1>10 DEF TickRenews, LoopOK, ClientOK, UnderWay, States
<1>11. CASE TickAnswered \/ TickUnanswered
  <2>1. UsageAnswer \in {"unknown", "low", "high"} /\ seen \in {"unknown", "low", "high"}
    BY DEF UsageAnswer, ClientOK
  <2> QED
    BY <1>10, <1>11, <2>1 DEF TickAnswered, TickUnanswered
<1>12. CASE TickPays
  <2>1. /\ state' \in {"PAID", "ERROR"} /\ state' \in States
        /\ seen' \in {"unknown", "low", "high"} /\ session' \in {"none", "low", "high"}
    BY <1>12, PayEnds DEF TickPays
  <2> QED
    BY <1>12, <2>1 DEF TickPays, LoopOK, ClientOK, UnderWay
<1>13. CASE SessionWanes
  BY <1>13 DEF SessionWanes, client, LoopOK, ClientOK, UnderWay
<1>14. CASE RadioUp \/ RadioDown \/ LosesIp \/ WifiConnect \/ WifiScan
  BY <1>1, <1>14 DEF RadioUp, RadioDown, LosesIp, WifiConnect, WifiScan
<1>15. CASE \E t \in Starters : StartBegins(t) \/ StartEnds(t)
  BY <1>1, <1>15 DEF StartBegins, StartEnds
<1>16. CASE UNCHANGED uplinkVars
  BY <1>1, <1>16 DEF uplinkVars, client
<1> QED
  BY <1>2, <1>3, <1>4, <1>5, <1>6, <1>7, <1>8, <1>9, <1>11, <1>12, <1>13, <1>14, <1>15, <1>16
     DEF UplinkNext, EventLoop, Tick

(* For any number of networks, attempts and waiting events: whenever the   *)
(* client detects, pays or renews, the event loop or the main loop is at   *)
(* it, however the two tasks overwrite each other's state; and the network *)
(* the station is set to is one of the configured ones.                    *)
THEOREM UplinkNotStuck == UplinkSpec => []NotStuck
<1>1. UplinkInit => NotStuck
  BY UplinkInitOK
<1>2. NotStuck /\ [UplinkNext]_uplinkVars => NotStuck'
  <2> SUFFICES ASSUME NotStuck, [UplinkNext]_uplinkVars PROVE NotStuck'
    OBVIOUS
  <2>1. StationOK /\ LoopOK /\ ServicesOK /\ ClientOK /\ UnderWay
    BY UplinkTypes DEF NotStuck, UnderWay
  <2>2. StationOK' /\ LoopOK' /\ ServicesOK' /\ ClientOK' /\ UnderWay'
    BY <2>1, StationStep, ServicesStep, ClientStep
  <2> QED
    BY <2>2 DEF NotStuck, UplinkTypeOK, StationOK, LoopOK, ServicesOK, ClientOK, UnderWay, WifiEvents
<1> QED
  BY <1>1, <1>2, PTL DEF UplinkSpec
=============================================================================
