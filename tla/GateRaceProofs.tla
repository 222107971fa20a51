--------------------------- MODULE GateRaceProofs ---------------------------
(***************************************************************************)
(* Proofs about the session table without a lock, for any number of slots, *)
(* clients and payments, and any allotment.                                *)
(*                                                                         *)
(* Serving says that a payment which looks for a free slot is of a client  *)
(* without a session, which gives OneSessionPerClient.  Clearing says what *)
(* a task knows between its call of the firewall and its write to the      *)
(* slot's flag: the slot is free by now, or its client is let through only *)
(* if it was let in late.  Place keeps that because the new owner is let   *)
(* through only if it is late, too.  Calm, as long as no session was       *)
(* evicted and none found expired before it was complete, says that the    *)
(* main loop does not have the payer's new slot in hand.                   *)
(***************************************************************************)
EXTENDS GateRace, WellFoundedInduction, TLAPS

(* The API server is on its way to a free slot.                            *)
Searching == {"evict", "revoke", "clear", "subtract", "place"}

Serving ==
    /\ at["api"] # "idle" => payer \in IP
    /\ at["api"] \in Searching => SlotsOf(payer) = {}

Owned == Making => sessions[slot["api"]].client_ip = payer

Owed == access.fw \subseteq AddressesOf(Active) \cup late

Clearing ==
    \A p \in Tasks : at[p] = "clear" =>
        \/ ~sessions[slot[p]].active
        \/ sessions[slot[p]].client_ip \notin access.fw
        \/ sessions[slot[p]].client_ip \in late

Calm ==
    /\ late = {}
    /\ at["api"] \notin {"revoke", "clear", "subtract"}
    /\ at["loop"] \in {"revoke", "clear"} =>
         /\ slot["loop"] \in Active
         /\ Making => slot["loop"] # slot["api"]
    /\ Making => slot["api"] \in Active

IInv ==
    /\ OneSessionPerClient /\ Serving /\ Owned /\ Owed /\ Clearing
    /\ ~evicted /\ ~hasty => Calm

(***************************************************************************)
(* Slots and places.                                                       *)
(***************************************************************************)

(* The first slot of a set of slots is one of them.                        *)
LEMMA FirstSlot ==
    ASSUME NEW S \in SUBSET Slots, S # {}
    PROVE  First(S) \in S
<1> DEFINE Below == {ss \in Nat \X Nat : ss[1] < ss[2]}
<1>1. S \subseteq Nat
  BY GateRaceAssumption DEF Slots
<1>2. IsWellFoundedOn(Below, Nat)
  BY NatLessThanWellFounded, Zenon DEF OpToRel
<1>3. PICK i \in S : \A j \in S : <<j, i>> \notin Below
  BY <1>1, <1>2, WFMin
<1>4. ASSUME NEW j \in S, j < i
      PROVE  FALSE
  <2>1. <<j, i>> \in Below
    BY <1>1, <1>4
  <2> QED
    BY <1>3, <2>1
<1>5. \A j \in S : i <= j
  BY <1>1, <1>4
<1> QED
  BY <1>5 DEF First

(* What the parts of the invariant say.                                    *)
LEMMA Parts ==
    ASSUME IInv
    PROVE  /\ TypeOK /\ Serving /\ Owned /\ Owed /\ Clearing
           /\ "loop" \in Tasks /\ "api" \in Tasks /\ Tasks = {"loop", "api"}
BY DEF IInv, OneSessionPerClient, Tasks

(* A task goes somewhere.                                                  *)
LEMMA GotoType ==
    ASSUME TypeOK, NEW p \in Tasks, NEW l \in Places, Goto(p, l)
    PROVE  /\ at' \in [Tasks -> Places] /\ at'[p] = l
           /\ \A q \in Tasks \ {p} : at'[q] = at[q]
BY DEF TypeOK, Goto

(* A task goes on after a revocation.                                      *)
LEMMA ReturnType ==
    ASSUME TypeOK, NEW p \in Tasks, Return(p)
    PROVE  /\ slot' \in [Tasks -> Slots] /\ at' \in [Tasks -> Places]
           /\ \A q \in Tasks \ {p} : at'[q] = at[q] /\ slot'[q] = slot[q]
           /\ p = "api" => at'[p] = "place"
           /\ p = "loop" => at'[p] \in {"scan", "idle"}
<1>1. CASE p = "api"
  BY <1>1 DEF TypeOK, Return, Goto, Tasks, Places
<1>2. CASE p = "loop" /\ slot[p] < MaxSessions
  <2>1. slot[p] + 1 \in Slots
    BY <1>2, GateRaceAssumption DEF TypeOK, Slots
  <2> QED
    BY <1>2, <2>1 DEF TypeOK, Return, Goto, Places
<1>3. CASE p = "loop" /\ ~(slot[p] < MaxSessions)
  BY <1>3 DEF TypeOK, Return, Goto, Places
<1> QED
  BY <1>1, <1>2, <1>3 DEF Tasks

(* A step after which every slot is in the same hands.                     *)
LEMMA SameOwners ==
    ASSUME \A i \in Slots : /\ sessions'[i].active = sessions[i].active
                            /\ sessions'[i].client_ip = sessions[i].client_ip
    PROVE  /\ Active' = Active /\ \A ip : SlotsOf(ip)' = SlotsOf(ip)
           /\ AddressesOf(Active)' = AddressesOf(Active)
<1>1. Active' = Active
  BY DEF Active
<1>2. ASSUME NEW ip
      PROVE  SlotsOf(ip)' = SlotsOf(ip)
  BY <1>1 DEF SlotsOf, Active
<1>3. AddressesOf(Active)' = AddressesOf(Active)
  BY <1>1 DEF AddressesOf, Active
<1> QED
  BY <1>1, <1>2, <1>3

(* What a step has to see to that leaves every slot in the same hands and  *)
(* the firewall alone.                                                     *)
LEMMA QuietStep ==
    ASSUME IInv, TypeOK', UNCHANGED <<access, payer, late>>,
           \A i \in Slots : /\ sessions'[i].active = sessions[i].active
                            /\ sessions'[i].client_ip = sessions[i].client_ip,
           \A p \in Tasks : at'[p] = "clear" => at[p] = "clear" /\ slot'[p] = slot[p],
           at'["api"] # "idle" => at["api"] # "idle",
           at'["api"] \in Searching => at["api"] \in Searching,
           Making' => Making /\ slot'["api"] = slot["api"],
           ~evicted' /\ ~hasty' =>
               /\ ~evicted /\ ~hasty
               /\ at'["api"] \notin {"revoke", "clear", "subtract"}
               /\ at'["loop"] \in {"revoke", "clear"} =>
                    /\ slot'["loop"] \in Active
                    /\ Making' => slot'["loop"] # slot'["api"]
    PROVE  IInv'
<1>1. /\ Active' = Active /\ \A ip : SlotsOf(ip)' = SlotsOf(ip)
      /\ AddressesOf(Active)' = AddressesOf(Active)
  BY SameOwners
<1>2. TypeOK /\ Serving /\ Owned /\ Owed /\ Clearing /\ Tasks = {"loop", "api"}
  BY Parts
<1>3. \A p \in Tasks : slot[p] \in Slots
  BY <1>2 DEF TypeOK
<1>4. OneSessionPerClient'
  BY <1>1 DEF IInv, OneSessionPerClient, Active
<1>5. Serving'
  BY <1>1, <1>2 DEF Serving
<1>6. Owned'
  BY <1>2, <1>3 DEF Owned
<1>7. Owed'
  BY <1>1, <1>2 DEF Owed
<1>8. Clearing'
  BY <1>2, <1>3 DEF Clearing
<1>9. ~evicted' /\ ~hasty' => Calm'
  BY <1>1 DEF IInv, Calm
<1> QED
  BY <1>4, <1>5, <1>6, <1>7, <1>8, <1>9 DEF IInv

(***************************************************************************)
(* tollgate_core_session_revoke and check_expiry.                          *)
(***************************************************************************)

(* tollgate_core_session_revoke looks at the flag.                         *)
LEMMA RevokeAccessStep ==
    ASSUME IInv, NEW p \in Tasks, RevokeAccess(p)
    PROVE  IInv'
<1>1. /\ TypeOK /\ Serving /\ Owned /\ Owed /\ Clearing /\ Tasks = {"loop", "api"}
      /\ at[p] = "revoke" /\ slot[p] \in Slots
      /\ UNCHANGED <<sessions, session_count, metric, reg, payer, unit, payments,
                     evicted, hasty>>
  BY Parts DEF RevokeAccess, payVars, TypeOK
<1>2. CASE sessions[slot[p]].active
  <2> DEFINE ip == sessions[slot[p]].client_ip
  <2>1. /\ access' = FwRevoke(access, {ip}) /\ late' = late \ {ip}
        /\ Goto(p, "clear") /\ UNCHANGED slot
    BY <1>2 DEF RevokeAccess
  <2>2. /\ access' \in Access /\ access'.fw = access.fw \ {ip}
    BY <1>1, <2>1 DEF FwRevoke, Access, TypeOK
  <2>3. /\ at' \in [Tasks -> Places] /\ at'[p] = "clear"
        /\ \A q \in Tasks \ {p} : at'[q] = at[q]
    <3>1. "clear" \in Places
      BY DEF Places
    <3> QED
      BY <1>1, <2>1, <3>1, GotoType
  <2>4. TypeOK'
    BY <1>1, <2>1, <2>2, <2>3 DEF TypeOK
  <2>5. /\ Active' = Active /\ \A x : SlotsOf(x)' = SlotsOf(x)
        /\ AddressesOf(Active)' = AddressesOf(Active)
    BY <1>1, SameOwners
  <2>6. OneSessionPerClient'
    BY <1>1, <2>4, <2>5 DEF IInv, OneSessionPerClient
  <2>7. Serving'
    BY <1>1, <2>3, <2>5 DEF Serving, Searching
  <2>8. Making' => Making /\ at'["api"] = at["api"]
    BY <1>1, <2>3 DEF Making
  <2>9. Owned'
    BY <1>1, <2>1, <2>8 DEF Owned
  <2>10. Owed'
    BY <1>1, <2>1, <2>2, <2>5 DEF Owed
  <2>11. Clearing'
    <3>1. ASSUME NEW q \in Tasks, at'[q] = "clear"
          PROVE  \/ ~sessions[slot[q]].active
                 \/ sessions[slot[q]].client_ip \notin access'.fw
                 \/ sessions[slot[q]].client_ip \in late'
      <4>1. CASE q = p
        BY <2>2, <4>1
      <4>2. CASE q # p
        <5>1. at[q] = "clear"
          BY <2>3, <3>1, <4>2
        <5>2. \/ ~sessions[slot[q]].active
              \/ sessions[slot[q]].client_ip \notin access.fw
              \/ sessions[slot[q]].client_ip \in late
          BY <1>1, <5>1 DEF Clearing
        <5> QED
          BY <2>1, <2>2, <5>2
      <4> QED
        BY <4>1, <4>2
    <3> QED
      BY <1>1, <2>1, <3>1 DEF Clearing
  <2>12. ASSUME ~evicted, ~hasty
         PROVE  Calm'
    <3>1. Calm /\ p = "loop" /\ at'["api"] = at["api"]
      BY <1>1, <2>3, <2>12 DEF IInv, Calm
    <3> QED
      BY <1>1, <2>1, <2>5, <2>8, <3>1 DEF Calm, Making
  <2> QED
    BY <1>1, <2>6, <2>7, <2>9, <2>10, <2>11, <2>12 DEF IInv
<1>3. CASE ~sessions[slot[p]].active
  <2>1. Return(p) /\ UNCHANGED <<access, late>>
    BY <1>3 DEF RevokeAccess
  <2>2. /\ slot' \in [Tasks -> Slots] /\ at' \in [Tasks -> Places]
        /\ \A q \in Tasks \ {p} : at'[q] = at[q] /\ slot'[q] = slot[q]
        /\ p = "api" => at'[p] = "place"
        /\ p = "loop" => at'[p] \in {"scan", "idle"}
    BY <1>1, <2>1, ReturnType
  <2>3. TypeOK'
    BY <1>1, <2>1, <2>2 DEF TypeOK
  <2>4. ~evicted' /\ ~hasty' =>
            /\ ~evicted /\ ~hasty
            /\ at'["api"] \notin {"revoke", "clear", "subtract"}
            /\ at'["loop"] \in {"revoke", "clear"} =>
                 /\ slot'["loop"] \in Active
                 /\ Making' => slot'["loop"] # slot'["api"]
    BY <1>1, <2>2 DEF IInv, Calm
  <2>5. Making' => Making /\ slot'["api"] = slot["api"]
    BY <1>1, <2>2 DEF Making
  <2> QED
    BY <1>1, <2>1, <2>2, <2>3, <2>4, <2>5, QuietStep DEF Searching
<1> QED
  BY <1>2, <1>3

(* The flag is cleared: a session less.  Whoever was let through by it     *)
(* alone is late.                                                          *)
LEMMA RevokeSlotStep ==
    ASSUME IInv, NEW p \in Tasks, RevokeSlot(p)
    PROVE  IInv'
<1> DEFINE s == slot[p]
<1>1. /\ TypeOK /\ Serving /\ Owned /\ Owed /\ Clearing /\ Tasks = {"loop", "api"}
      /\ at[p] = "clear" /\ Goto(p, "subtract")
      /\ sessions' = [sessions EXCEPT ![s].active = FALSE]
      /\ reg' = [reg EXCEPT ![p] = session_count]
      /\ UNCHANGED <<session_count, access, metric, slot, payer, unit, payments,
                     evicted, hasty, late>>
  BY Parts DEF RevokeSlot, payVars, history
<1>2. s \in Slots /\ sessions \in [Slots -> Session] /\ \A q \in Tasks : slot[q] \in Slots
  BY <1>1 DEF TypeOK
<1>3. /\ at' \in [Tasks -> Places] /\ at'[p] = "subtract"
      /\ \A q \in Tasks \ {p} : at'[q] = at[q]
  <2>1. "subtract" \in Places
    BY DEF Places
  <2> QED
    BY <1>1, <2>1, GotoType
<1>4. reg' \in [Tasks -> Int]
  BY <1>1 DEF TypeOK
<1>5. /\ sessions' \in [Slots -> Session]
      /\ \A i \in Slots : /\ sessions'[i].client_ip = sessions[i].client_ip
                          /\ sessions'[i].active <=> sessions[i].active /\ i # s
  <2> HIDE DEF s
  <2> QED
    BY <1>1, <1>2 DEF Session
<1>6. Active' = Active \ {s} /\ \A ip : SlotsOf(ip)' = SlotsOf(ip) \ {s}
  <2>1. Active' = Active \ {s}
    BY <1>5 DEF Active
  <2> QED
    BY <1>5, <2>1 DEF SlotsOf, Active
<1>7. TypeOK'
  BY <1>1, <1>3, <1>4, <1>5 DEF TypeOK
<1>8. OneSessionPerClient'
  BY <1>5, <1>6, <1>7 DEF IInv, OneSessionPerClient, Active
<1>9. Serving'
  BY <1>1, <1>3, <1>6 DEF Serving, Searching
<1>10. Making' => Making
  BY <1>1, <1>3 DEF Making
<1>11. Owned'
  BY <1>1, <1>2, <1>5, <1>10 DEF Owned
<1>12. Owed'
  <2>1. ASSUME NEW ip \in access.fw, ip \notin late
        PROVE  \E i \in Active' : sessions'[i].client_ip = ip
    <3>1. PICK i \in Active : sessions[i].client_ip = ip
      BY <1>1, <2>1 DEF Owed, AddressesOf
    <3>2. i # s
      BY <1>1, <2>1, <3>1 DEF Clearing, Active
    <3> QED
      BY <1>5, <1>6, <3>1, <3>2 DEF Active
  <2> QED
    BY <1>1, <2>1 DEF Owed, AddressesOf
<1>13. Clearing'
  <2>1. ASSUME NEW q \in Tasks, at'[q] = "clear"
        PROVE  \/ ~sessions'[slot[q]].active
               \/ sessions'[slot[q]].client_ip \notin access.fw
               \/ sessions'[slot[q]].client_ip \in late
    <3>1. at[q] = "clear" /\ slot[q] \in Slots
      BY <1>2, <1>3, <2>1
    <3> QED
      BY <1>1, <1>5, <3>1 DEF Clearing
  <2> QED
    BY <1>1, <2>1 DEF Clearing
<1>14. ASSUME ~evicted, ~hasty
       PROVE  Calm'
  <2>1. Calm /\ p = "loop" /\ at'["api"] = at["api"]
    BY <1>1, <1>3, <1>14 DEF IInv, Calm
  <2>2. Making' => slot["api"] \in Active'
    BY <1>1, <1>6, <1>10, <2>1 DEF Calm
  <2> QED
    BY <1>1, <1>3, <2>1, <2>2 DEF Calm
<1> QED
  BY <1>1, <1>8, <1>9, <1>11, <1>12, <1>13, <1>14 DEF IInv

(* s_session_count is stored; the loop and the search for a slot go on.    *)
LEMMA RevokeCountStep ==
    ASSUME IInv, NEW p \in Tasks, RevokeCount(p)
    PROVE  IInv'
<1>1. /\ TypeOK /\ Tasks = {"loop", "api"} /\ at[p] = "subtract" /\ Return(p)
      /\ session_count' = reg[p] - 1
      /\ UNCHANGED <<sessions, access, metric, reg, payer, unit, payments,
                     evicted, hasty, late>>
  BY Parts DEF RevokeCount, payVars, history
<1>2. /\ slot' \in [Tasks -> Slots] /\ at' \in [Tasks -> Places]
      /\ \A q \in Tasks \ {p} : at'[q] = at[q] /\ slot'[q] = slot[q]
      /\ p = "api" => at'[p] = "place"
      /\ p = "loop" => at'[p] \in {"scan", "idle"}
  BY <1>1, ReturnType
<1>3. TypeOK'
  BY <1>1, <1>2 DEF TypeOK
<1>4. ~evicted' /\ ~hasty' =>
          /\ ~evicted /\ ~hasty
          /\ at'["api"] \notin {"revoke", "clear", "subtract"}
          /\ at'["loop"] \in {"revoke", "clear"} =>
               /\ slot'["loop"] \in Active
               /\ Making' => slot'["loop"] # slot'["api"]
  BY <1>1, <1>2 DEF IInv, Calm
<1>5. Making' => Making /\ slot'["api"] = slot["api"]
  BY <1>1, <1>2 DEF Making
<1> QED
  BY <1>1, <1>2, <1>3, <1>4, <1>5, QuietStep DEF Searching

(* check_expiry: the loop begins, and tests a slot.                        *)
LEMMA LoopStep ==
    ASSUME IInv, Tick \/ TestSlot
    PROVE  IInv'
<1>1. /\ TypeOK /\ Tasks = {"loop", "api"}
      /\ UNCHANGED <<sessions, session_count, access, metric, reg, payer, unit, payments,
                     evicted, late>>
  BY Parts DEF Tick, TestSlot, payVars, history
<1>2. /\ slot' \in [Tasks -> Slots] /\ at' \in [Tasks -> Places] /\ hasty' \in BOOLEAN
      /\ at'["api"] = at["api"] /\ slot'["api"] = slot["api"]
      /\ hasty => hasty'
      /\ \/ at'["loop"] \in {"scan", "idle"}
         \/ /\ at'["loop"] = "revoke" /\ slot'["loop"] \in Active
            /\ ~hasty' /\ Making => slot'["loop"] # slot'["api"]
  <2>1. CASE Tick
    <3>1. "scan" \in Places /\ 1 \in Slots
      BY GateRaceAssumption DEF Places, Slots
    <3>2. slot' = [slot EXCEPT !["loop"] = 1] /\ Goto("loop", "scan") /\ UNCHANGED hasty
      BY <2>1 DEF Tick, history
    <3> QED
      BY <1>1, <3>1, <3>2, GotoType DEF TypeOK
  <2>2. CASE TestSlot /\ sessions[slot["loop"]].active /\ IsExpired(sessions[slot["loop"]])
    <3>1. "revoke" \in Places /\ slot["loop"] \in Active
      BY <1>1, <2>2 DEF Places, Active, TypeOK
    <3>2. /\ Goto("loop", "revoke") /\ UNCHANGED slot
          /\ hasty' = (hasty \/ (Making /\ slot["loop"] = slot["api"]))
      BY <2>2 DEF TestSlot
    <3>3. hasty' \in BOOLEAN
      BY <1>1, <3>2, Zenon DEF TypeOK
    <3>4. (hasty => hasty') /\ (~hasty' /\ Making => slot["loop"] # slot["api"])
      BY <3>2
    <3> QED
      BY <1>1, <3>1, <3>2, <3>3, <3>4, GotoType DEF TypeOK
  <2>3. CASE TestSlot /\ ~(sessions[slot["loop"]].active /\ IsExpired(sessions[slot["loop"]]))
    <3>1. Return("loop") /\ UNCHANGED hasty
      BY <2>3 DEF TestSlot
    <3> QED
      BY <1>1, <3>1, ReturnType DEF TypeOK
  <2> QED
    BY <2>1, <2>2, <2>3
<1>3. TypeOK'
  BY <1>1, <1>2 DEF TypeOK
<1>4. Making' <=> Making
  BY <1>2 DEF Making
<1>5. ~evicted' /\ ~hasty' =>
          /\ ~evicted /\ ~hasty
          /\ at'["api"] \notin {"revoke", "clear", "subtract"}
          /\ at'["loop"] \in {"revoke", "clear"} =>
               /\ slot'["loop"] \in Active
               /\ Making' => slot'["loop"] # slot'["api"]
  BY <1>1, <1>2, <1>4 DEF IInv, Calm
<1>6. \A p \in Tasks : at'[p] = "clear" => at[p] = "clear" /\ slot'[p] = slot[p]
  BY <1>1, <1>2
<1> QED
  BY <1>1, <1>2, <1>3, <1>4, <1>5, <1>6, QuietStep

(***************************************************************************)
(* tollgate_core_session_create and _create_bytes.                         *)
(***************************************************************************)

(* A payment: its client has a session, or looks for a slot.               *)
LEMMA PayStep ==
    ASSUME IInv, NEW ip \in IP, Pay(ip)
    PROVE  IInv'
<1>1. /\ TypeOK /\ Serving /\ Owned /\ Owed /\ Clearing /\ Tasks = {"loop", "api"}
      /\ at["api"] = "idle" /\ payments < MaxPayments /\ payments' = payments + 1
      /\ payer' = ip /\ unit' = metric
      /\ UNCHANGED <<sessions, session_count, access, metric, reg, evicted, hasty, late>>
  BY Parts DEF Pay, history
<1>2. /\ slot' \in [Tasks -> Slots] /\ at' \in [Tasks -> Places]
      /\ at'["loop"] = at["loop"] /\ slot'["loop"] = slot["loop"]
      /\ \/ at'["api"] = "extend"
         \/ at'["api"] \in {"evict", "place"} /\ SlotsOf(ip) = {}
  <2>1. {"extend", "evict", "place"} \subseteq Places
    BY DEF Places
  <2>2. CASE SlotsOf(ip) # {}
    <3>1. First(SlotsOf(ip)) \in Slots
      <4>1. SlotsOf(ip) \in SUBSET Slots
        BY DEF SlotsOf, Active
      <4> QED
        BY <2>2, <4>1, FirstSlot
    <3>2. Goto("api", "extend") /\ slot' = [slot EXCEPT !["api"] = First(SlotsOf(ip))]
      BY <2>2 DEF Pay
    <3> QED
      BY <1>1, <2>1, <3>1, <3>2, GotoType DEF TypeOK
  <2>3. CASE SlotsOf(ip) = {}
    <3>1. PICK l \in {"evict", "place"} : Goto("api", l)
      BY <2>3 DEF Pay
    <3>2. UNCHANGED slot
      BY <2>3 DEF Pay
    <3> QED
      BY <1>1, <2>1, <2>3, <3>1, <3>2, GotoType DEF TypeOK
  <2> QED
    BY <2>2, <2>3
<1>3. payments' \in 0..MaxPayments
  BY <1>1, GateRaceAssumption DEF TypeOK
<1>4. TypeOK'
  BY <1>1, <1>2, <1>3 DEF TypeOK
<1>5. /\ Active' = Active /\ \A x : SlotsOf(x)' = SlotsOf(x)
      /\ AddressesOf(Active)' = AddressesOf(Active)
  BY <1>1, SameOwners
<1>6. OneSessionPerClient'
  BY <1>1, <1>4, <1>5 DEF IInv, OneSessionPerClient
<1>7. Serving'
  <2>1. SlotsOf(payer)' = SlotsOf(ip)
    BY <1>1 DEF SlotsOf, Active
  <2> QED
    BY <1>1, <1>2, <2>1 DEF Serving, Searching
<1>8. ~Making'
  BY <1>2 DEF Making
<1>9. Owned'
  BY <1>8 DEF Owned
<1>10. Owed'
  BY <1>1, <1>5 DEF Owed
<1>11. Clearing'
  BY <1>1, <1>2 DEF Clearing
<1>12. ASSUME ~evicted, ~hasty
       PROVE  Calm'
  <2>1. Calm
    BY <1>12 DEF IInv
  <2> QED
    BY <1>1, <1>2, <1>5, <1>8, <2>1 DEF Calm
<1> QED
  BY <1>1, <1>6, <1>7, <1>9, <1>10, <1>11, <1>12 DEF IInv

(* The payer's session is extended, or its bytes are set.                  *)
LEMMA ExtendStep ==
    ASSUME IInv, Extend \/ SetBytes
    PROVE  IInv'
<1> DEFINE s == slot["api"]
<1>1. /\ TypeOK /\ Tasks = {"loop", "api"} /\ at["api"] \in {"extend", "bytes"}
      /\ UNCHANGED <<session_count, access, metric, slot, reg, payer, unit, payments,
                     evicted, hasty, late>>
  BY Parts DEF Extend, SetBytes, payVars, history
<1>2. s \in Slots /\ sessions \in [Slots -> Session] /\ Allotment \in Nat /\ Millis \in Nat
  BY <1>1, GateRaceAssumption DEF TypeOK, Millis
<1>3. PICK l \in {"bytes", "idle"} : Goto("api", l)
  BY DEF Extend, SetBytes, Created
<1>4. /\ at' \in [Tasks -> Places] /\ at'["api"] = l /\ at'["loop"] = at["loop"]
  <2>1. l \in Places
    BY DEF Places
  <2> QED
    BY <1>1, <1>3, <2>1, GotoType
<1>5. /\ sessions' \in [Slots -> Session]
      /\ \A i \in Slots : /\ sessions'[i].active = sessions[i].active
                          /\ sessions'[i].client_ip = sessions[i].client_ip
  <2> HIDE DEF s
  <2>1. CASE Extend /\ sessions[s].active
    <3>1. sessions' = [sessions EXCEPT ![s].left = @ + Millis]
      BY <2>1 DEF Extend, s
    <3>2. sessions[s].left + Millis \in Nat
      BY <1>2 DEF Session
    <3> QED
      BY <1>2, <3>1, <3>2 DEF Session
  <2>2. CASE Extend /\ ~sessions[s].active
    BY <1>2, <2>2 DEF Extend, s
  <2>3. CASE SetBytes
    <3>1. sessions' = [sessions EXCEPT ![s].bytes = Allotment, ![s].by_bytes = TRUE]
      BY <2>3 DEF SetBytes, s
    <3> QED
      BY <1>2, <3>1 DEF Session
  <2> QED
    BY <2>1, <2>2, <2>3
<1>6. TypeOK'
  BY <1>1, <1>4, <1>5 DEF TypeOK
<1>7. ~Making /\ ~Making' /\ at'["api"] \notin Searching
  BY <1>1, <1>4 DEF Making, Searching
<1>8. ~evicted' /\ ~hasty' =>
          /\ ~evicted /\ ~hasty
          /\ at'["api"] \notin {"revoke", "clear", "subtract"}
          /\ at'["loop"] \in {"revoke", "clear"} =>
               /\ slot'["loop"] \in Active
               /\ Making' => slot'["loop"] # slot'["api"]
  BY <1>1, <1>4, <1>7 DEF IInv, Calm
<1>9. \A p \in Tasks : at'[p] = "clear" => at[p] = "clear" /\ slot'[p] = slot[p]
  BY <1>1, <1>4
<1> QED
  BY <1>1, <1>4, <1>5, <1>6, <1>7, <1>8, <1>9, QuietStep

(* The search for a session to evict.                                      *)
LEMMA EvictStep ==
    ASSUME IInv, Evict
    PROVE  IInv'
<1> DEFINE E == {i \in Slots : IsExpired(sessions[i])}
<1>1. /\ TypeOK /\ Tasks = {"loop", "api"} /\ at["api"] = "evict"
      /\ UNCHANGED <<sessions, session_count, access, metric, reg, payer, unit, payments,
                     hasty, late>>
      /\ evicted' = (evicted \/ E # {})
      /\ IF E # {} THEN Goto("api", "revoke") /\ slot' = [slot EXCEPT !["api"] = First(E)]
                   ELSE Goto("api", "place") /\ UNCHANGED slot
  BY Parts DEF Evict, payVars
<1>2. E # {} => First(E) \in Slots
  BY FirstSlot
<1>3. /\ at' \in [Tasks -> Places] /\ slot' \in [Tasks -> Slots]
      /\ at'["api"] \in {"revoke", "place"} /\ at'["loop"] = at["loop"]
      /\ slot'["loop"] = slot["loop"]
      /\ E = {} => at'["api"] = "place"
  <2> HIDE DEF E
  <2>1. "place" \in Places /\ "revoke" \in Places
    BY DEF Places
  <2>2. CASE E = {}
    BY <1>1, <2>1, <2>2, GotoType DEF TypeOK
  <2>3. CASE E # {}
    BY <1>1, <1>2, <2>1, <2>3, GotoType DEF TypeOK
  <2> QED
    BY <2>2, <2>3
<1> HIDE DEF E
<1>4. evicted' \in BOOLEAN /\ (~evicted' => ~evicted /\ E = {})
  BY <1>1
<1>5. TypeOK'
  BY <1>1, <1>3, <1>4 DEF TypeOK
<1>6. ~Making /\ ~Making'
  BY <1>1, <1>3 DEF Making
<1>7. ~evicted' /\ ~hasty' =>
          /\ ~evicted /\ ~hasty
          /\ at'["api"] \notin {"revoke", "clear", "subtract"}
          /\ at'["loop"] \in {"revoke", "clear"} =>
               /\ slot'["loop"] \in Active
               /\ Making' => slot'["loop"] # slot'["api"]
  BY <1>1, <1>3, <1>4, <1>6 DEF IInv, Calm
<1>8. \A p \in Tasks : at'[p] = "clear" => at[p] = "clear" /\ slot'[p] = slot[p]
  BY <1>1, <1>3
<1> QED
  BY <1>1, <1>3, <1>5, <1>6, <1>7, <1>8, QuietStep DEF Searching

(* A free slot becomes the payer's session.  A client without a session is *)
(* let through only if it is late, so that the slot may be cleared.        *)
LEMMA PlaceStep ==
    ASSUME IInv, Place
    PROVE  IInv'
<1>1. /\ TypeOK /\ Serving /\ Owned /\ Owed /\ Clearing /\ Tasks = {"loop", "api"}
      /\ at["api"] = "place" /\ SlotsOf(payer) = {} /\ payer \in IP
      /\ UNCHANGED <<session_count, access, metric, payer, unit, payments,
                     evicted, hasty, late>>
  BY Parts DEF Place, Serving, Searching, payVars, history
<1>2. sessions \in [Slots -> Session] /\ Millis \in Nat
  BY <1>1, GateRaceAssumption DEF TypeOK, Millis
<1>3. CASE Active = Slots
  <2>1. Goto("api", "idle") /\ UNCHANGED <<sessions, slot, reg>>
    BY <1>3 DEF Place
  <2>2. /\ at' \in [Tasks -> Places] /\ at'["api"] = "idle" /\ at'["loop"] = at["loop"]
    <3>1. "idle" \in Places
      BY DEF Places
    <3> QED
      BY <1>1, <2>1, <3>1, GotoType
  <2>3. TypeOK'
    BY <1>1, <2>1, <2>2 DEF TypeOK
  <2>4. ~Making'
    BY <2>2 DEF Making
  <2>5. ~evicted' /\ ~hasty' =>
            /\ ~evicted /\ ~hasty
            /\ at'["api"] \notin {"revoke", "clear", "subtract"}
            /\ at'["loop"] \in {"revoke", "clear"} =>
                 /\ slot'["loop"] \in Active
                 /\ Making' => slot'["loop"] # slot'["api"]
    BY <1>1, <2>1, <2>2, <2>4 DEF IInv, Calm
  <2>6. \A p \in Tasks : at'[p] = "clear" => at[p] = "clear" /\ slot'[p] = slot[p]
    BY <1>1, <2>1, <2>2
  <2> QED
    BY <1>1, <2>1, <2>2, <2>3, <2>4, <2>5, <2>6, QuietStep DEF Searching
<1>4. CASE Active # Slots
  <2> DEFINE s == First(Slots \ Active)
             new == [active |-> TRUE, client_ip |-> payer, left |-> Millis,
                     by_bytes |-> FALSE, bytes |-> sessions[s].bytes]
  <2>1. s \in Slots /\ s \notin Active
    <3>1. Slots \ Active \in SUBSET Slots /\ Slots \ Active # {}
      BY <1>4 DEF Active
    <3> QED
      BY <3>1, FirstSlot
  <2>2. /\ sessions' = [sessions EXCEPT ![s] = new]
        /\ slot' = [slot EXCEPT !["api"] = s]
        /\ reg' = [reg EXCEPT !["api"] = session_count]
        /\ Goto("api", "add")
    BY <1>4 DEF Place
  <2> HIDE DEF s
  <2>3. new \in Session
    BY <1>1, <1>2, <2>1 DEF Session
  <2>4. new.active /\ new.client_ip = payer
    OBVIOUS
  <2> HIDE DEF new
  <2>5. /\ sessions' \in [Slots -> Session] /\ sessions'[s] = new
        /\ \A i \in Slots \ {s} : sessions'[i] = sessions[i]
    BY <1>2, <2>1, <2>2, <2>3
  <2>6. /\ at' \in [Tasks -> Places] /\ at'["api"] = "add" /\ at'["loop"] = at["loop"]
    <3>1. "add" \in Places
      BY DEF Places
    <3> QED
      BY <1>1, <2>2, <3>1, GotoType
  <2>7. /\ slot' \in [Tasks -> Slots] /\ reg' \in [Tasks -> Int]
        /\ slot'["api"] = s /\ slot'["loop"] = slot["loop"] /\ slot["loop"] \in Slots
    BY <1>1, <2>1, <2>2 DEF TypeOK
  <2>8. TypeOK'
    BY <1>1, <2>5, <2>6, <2>7 DEF TypeOK
  <2>9. Active' = Active \cup {s}
    BY <2>1, <2>4, <2>5 DEF Active
  <2>10. \A i \in Active : i # s /\ sessions'[i] = sessions[i] /\ sessions[i].client_ip # payer
    BY <1>1, <2>1, <2>5 DEF SlotsOf, Active
  <2>11. OneSessionPerClient'
    <3>1. ASSUME NEW i \in Active', NEW j \in Active',
                 sessions'[i].client_ip = sessions'[j].client_ip
          PROVE  i = j
      BY <2>4, <2>5, <2>9, <2>10, <3>1 DEF IInv, OneSessionPerClient
    <3> QED
      BY <2>8, <3>1 DEF OneSessionPerClient
  <2>12. Serving'
    BY <1>1, <2>6 DEF Serving, Searching
  <2>13. Owned'
    BY <1>1, <2>4, <2>5, <2>7 DEF Owned
  <2>14. Owed'
    <3>1. ASSUME NEW ip \in access.fw, ip \notin late
          PROVE  \E i \in Active' : sessions'[i].client_ip = ip
      <4>1. PICK i \in Active : sessions[i].client_ip = ip
        BY <1>1, <3>1 DEF Owed, AddressesOf
      <4> QED
        BY <2>9, <2>10, <4>1
    <3> QED
      BY <1>1, <3>1 DEF Owed, AddressesOf
  <2>15. Clearing'
    <3>1. payer \in access.fw => payer \in late
      BY <1>1, <2>10 DEF Owed, AddressesOf
    <3>2. ASSUME at["loop"] = "clear"
          PROVE  \/ ~sessions'[slot["loop"]].active
                 \/ sessions'[slot["loop"]].client_ip \notin access.fw
                 \/ sessions'[slot["loop"]].client_ip \in late
      <4>1. CASE slot["loop"] = s
        BY <2>4, <2>5, <3>1, <4>1
      <4>2. CASE slot["loop"] # s
        BY <1>1, <2>5, <2>7, <3>2, <4>2 DEF Clearing
      <4> QED
        BY <4>1, <4>2
    <3> QED
      BY <1>1, <2>6, <2>7, <3>2 DEF Clearing
  <2>16. ASSUME ~evicted, ~hasty
         PROVE  Calm'
    <3>1. Calm
      BY <2>16 DEF IInv
    <3> QED
      BY <1>1, <2>1, <2>6, <2>7, <2>9, <3>1 DEF Calm
  <2> QED
    BY <1>1, <2>11, <2>12, <2>13, <2>14, <2>15, <2>16 DEF IInv
<1> QED
  BY <1>3, <1>4

(* The count is stored.                                                    *)
LEMMA AddCountStep ==
    ASSUME IInv, AddCount
    PROVE  IInv'
<1>1. /\ TypeOK /\ Tasks = {"loop", "api"} /\ at["api"] = "add" /\ Goto("api", "grant")
      /\ session_count' = reg["api"] + 1
      /\ UNCHANGED <<sessions, access, metric, slot, reg, payer, unit, payments,
                     evicted, hasty, late>>
  BY Parts DEF AddCount, payVars, history
<1>2. /\ at' \in [Tasks -> Places] /\ at'["api"] = "grant" /\ at'["loop"] = at["loop"]
  <2>1. "grant" \in Places
    BY DEF Places
  <2> QED
    BY <1>1, <2>1, GotoType
<1>3. TypeOK'
  BY <1>1, <1>2 DEF TypeOK
<1>4. Making /\ Making'
  BY <1>1, <1>2 DEF Making
<1>5. ~evicted' /\ ~hasty' =>
          /\ ~evicted /\ ~hasty
          /\ at'["api"] \notin {"revoke", "clear", "subtract"}
          /\ at'["loop"] \in {"revoke", "clear"} =>
               /\ slot'["loop"] \in Active
               /\ Making' => slot'["loop"] # slot'["api"]
  BY <1>1, <1>2, <1>4 DEF IInv, Calm
<1>6. \A p \in Tasks : at'[p] = "clear" => at[p] = "clear" /\ slot'[p] = slot[p]
  BY <1>1, <1>2
<1> QED
  BY <1>1, <1>2, <1>3, <1>4, <1>5, <1>6, QuietStep DEF Searching

(* The firewall is told: the payer has the slot, or is late.               *)
LEMMA GrantAccessStep ==
    ASSUME IInv, GrantAccess
    PROVE  IInv'
<1> DEFINE s == slot["api"]
<1>1. /\ TypeOK /\ Serving /\ Owned /\ Owed /\ Clearing /\ Tasks = {"loop", "api"}
      /\ at["api"] = "grant" /\ payer \in IP /\ s \in Slots /\ slot["loop"] \in Slots
      /\ access' = FwGrant(access, payer)
      /\ late' = IF Overtaken THEN late \cup {payer} ELSE late
      /\ UNCHANGED <<sessions, session_count, metric, slot, reg, payer, unit, payments,
                     evicted, hasty>>
  BY Parts DEF GrantAccess, Serving, TypeOK, payVars
<1>2. Making /\ sessions[s].client_ip = payer
  BY <1>1 DEF Making, Owned
<1>3. PICK l \in {"bytes", "idle"} : Goto("api", l)
  BY DEF GrantAccess, Created
<1>4. /\ at' \in [Tasks -> Places] /\ at'["api"] = l /\ at'["loop"] = at["loop"]
  <2>1. l \in Places
    BY DEF Places
  <2> QED
    BY <1>1, <1>3, <2>1, GotoType
<1>5. access' \in Access /\ access'.fw \subseteq access.fw \cup {payer}
  BY <1>1 DEF TypeOK, FwGrant, Authenticate, Access
<1>6. late' \subseteq IP /\ late \subseteq late'
  BY <1>1 DEF TypeOK
<1>7. TypeOK'
  BY <1>1, <1>4, <1>5, <1>6 DEF TypeOK
<1>8. /\ Active' = Active /\ \A x : SlotsOf(x)' = SlotsOf(x)
      /\ AddressesOf(Active)' = AddressesOf(Active)
  BY <1>1, SameOwners
<1>9. OneSessionPerClient'
  BY <1>1, <1>7, <1>8 DEF IInv, OneSessionPerClient
<1>10. ~Making' /\ at'["api"] \notin Searching
  BY <1>4 DEF Making, Searching
<1>11. Serving' /\ Owned'
  BY <1>1, <1>10 DEF Serving, Owned
<1>12. payer \in AddressesOf(Active) \cup late'
  <2>1. CASE Overtaken
    BY <1>1, <2>1
  <2>2. CASE ~Overtaken
    BY <1>1, <1>2, <2>2 DEF Overtaken, AddressesOf, Active
  <2> QED
    BY <2>1, <2>2
<1>13. Owed'
  BY <1>1, <1>5, <1>6, <1>8, <1>12 DEF Owed
<1>14. Clearing'
  <2>1. ASSUME at["loop"] = "clear", sessions[slot["loop"]].active,
               sessions[slot["loop"]].client_ip \in access'.fw
        PROVE  sessions[slot["loop"]].client_ip \in late'
    <3>1. CASE sessions[slot["loop"]].client_ip # payer
      BY <1>1, <1>5, <1>6, <2>1, <3>1 DEF Clearing
    <3>2. CASE sessions[slot["loop"]].client_ip = payer
      <4>1. Overtaken
        <5>1. CASE ~sessions[s].active
          BY <5>1 DEF Overtaken
        <5>2. CASE sessions[s].active
          <6>1. slot["loop"] = s
            BY <1>1, <1>2, <2>1, <3>2, <5>2 DEF IInv, OneSessionPerClient, Active
          <6> QED
            BY <2>1, <6>1 DEF Overtaken
        <5> QED
          BY <5>1, <5>2
      <4> QED
        BY <1>1, <3>2, <4>1
    <3> QED
      BY <3>1, <3>2
  <2> QED
    BY <1>1, <1>4, <2>1 DEF Clearing
<1>15. ASSUME ~evicted, ~hasty
       PROVE  Calm'
  <2>1. Calm
    BY <1>15 DEF IInv
  <2>2. ~Overtaken
    BY <1>1, <1>2, <2>1 DEF Calm, Overtaken, Active
  <2> QED
    BY <1>1, <1>4, <1>8, <1>10, <2>1, <2>2 DEF Calm
<1> QED
  BY <1>1, <1>9, <1>11, <1>13, <1>14, <1>15 DEF IInv

(***************************************************************************)
(* Time, traffic and the operator; the whole.                              *)
(***************************************************************************)

(* What is left of sessions changes, and the metric.                       *)
LEMMA WorldStep ==
    ASSUME IInv, Clock \/ SetMetric \/ (\E i \in Slots : AddBytes(i)) \/ UNCHANGED vars
    PROVE  IInv'
<1>1. /\ TypeOK /\ Tasks = {"loop", "api"} /\ sessions \in [Slots -> Session]
      /\ UNCHANGED <<session_count, access, at, slot, reg, payer, unit, payments,
                     evicted, hasty, late>>
  BY Parts DEF Clock, SetMetric, AddBytes, vars, payVars, history, TypeOK
<1>2. metric' \in Metrics
  BY <1>1 DEF Clock, SetMetric, AddBytes, vars, TypeOK
<1>3. /\ sessions' \in [Slots -> Session]
      /\ \A i \in Slots : /\ sessions'[i].active = sessions[i].active
                          /\ sessions'[i].client_ip = sessions[i].client_ip
  <2>1. CASE Clock
    <3>1. sessions' = [i \in Slots |->
            IF i \in Active /\ sessions[i].left > 0
            THEN [sessions[i] EXCEPT !.left = @ - 1] ELSE sessions[i]]
      BY <2>1 DEF Clock
    <3>2. ASSUME NEW i \in Slots
          PROVE  /\ sessions'[i] \in Session
                 /\ sessions'[i].active = sessions[i].active
                 /\ sessions'[i].client_ip = sessions[i].client_ip
      <4>1. CASE i \in Active /\ sessions[i].left > 0
        <5>1. sessions[i].left - 1 \in Nat
          BY <1>1, <4>1 DEF Session
        <5>2. sessions'[i] = [sessions[i] EXCEPT !.left = @ - 1]
          BY <3>1, <4>1
        <5> QED
          BY <1>1, <5>1, <5>2 DEF Session
      <4>2. CASE ~(i \in Active /\ sessions[i].left > 0)
        BY <1>1, <3>1, <4>2
      <4> QED
        BY <4>1, <4>2
    <3> QED
      BY <3>1, <3>2
  <2>2. ASSUME NEW i \in Slots, AddBytes(i)
        PROVE  <1>3!1 /\ <1>3!2
    <3>1. /\ sessions' = [sessions EXCEPT ![i].bytes = @ - 1]
          /\ sessions[i].bytes > 0
      BY <2>2 DEF AddBytes
    <3>2. sessions[i].bytes - 1 \in Nat
      BY <1>1, <3>1 DEF Session
    <3> QED
      BY <1>1, <3>1, <3>2 DEF Session
  <2>3. CASE SetMetric \/ UNCHANGED vars
    BY <1>1, <2>3 DEF SetMetric, vars
  <2> QED
    BY <2>1, <2>2, <2>3
<1>4. TypeOK'
  BY <1>1, <1>2, <1>3 DEF TypeOK
<1>5. Making' <=> Making
  BY <1>1 DEF Making
<1>6. ~evicted' /\ ~hasty' =>
          /\ ~evicted /\ ~hasty
          /\ at'["api"] \notin {"revoke", "clear", "subtract"}
          /\ at'["loop"] \in {"revoke", "clear"} =>
               /\ slot'["loop"] \in Active
               /\ Making' => slot'["loop"] # slot'["api"]
  BY <1>1, <1>5 DEF IInv, Calm
<1> QED
  BY <1>1, <1>3, <1>4, <1>5, <1>6, QuietStep

(* No session yet.                                                         *)
LEMMA InitIInv ==
    ASSUME Init
    PROVE  IInv
<1>1. \A i \in Slots : ~sessions[i].active
  BY DEF Init
<1>2. Active = {}
  BY <1>1 DEF Active
<1>3. at["api"] = "idle" /\ at["loop"] = "idle" /\ late = {} /\ access.fw = {}
  BY DEF Init, Tasks, NoAccess
<1>4. TypeOK
  <2>1. sessions \in [Slots -> Session]
    BY DEF Init, Session
  <2>2. 1 \in Slots /\ 0 \in 0..MaxPayments /\ "idle" \in Places
    BY GateRaceAssumption DEF Slots, Places
  <2>3. access \in Access
    BY DEF Init, NoAccess, Access
  <2>4. evicted \in BOOLEAN /\ hasty \in BOOLEAN
    BY Zenon DEF Init
  <2>5. at \in [Tasks -> Places] /\ slot \in [Tasks -> Slots] /\ reg \in [Tasks -> Int]
    BY <2>2 DEF Init
  <2>6. /\ session_count \in Int /\ payer \in IP \cup {NoIP} /\ payments \in 0..MaxPayments
        /\ metric \in Metrics /\ unit \in Metrics
    BY <2>2 DEF Init, Metrics
  <2> QED
    BY <1>3, <2>1, <2>3, <2>4, <2>5, <2>6 DEF TypeOK
<1>5. OneSessionPerClient
  BY <1>2, <1>4 DEF OneSessionPerClient
<1>6. ~Making
  BY <1>3 DEF Making
<1>7. Serving /\ Owned
  BY <1>3, <1>6 DEF Serving, Owned, Searching
<1>8. Owed
  BY <1>3 DEF Owed
<1>9. Clearing
  BY <1>3 DEF Clearing, Tasks
<1>10. Calm
  BY <1>3, <1>6 DEF Calm
<1> QED
  BY <1>5, <1>7, <1>8, <1>9, <1>10 DEF IInv

(* Every step keeps the invariant.                                         *)
LEMMA NextIInv ==
    ASSUME IInv, [Next]_vars
    PROVE  IInv'
<1>1. CASE \E p \in Tasks : RevokeAccess(p) \/ RevokeSlot(p) \/ RevokeCount(p)
  BY <1>1, RevokeAccessStep, RevokeSlotStep, RevokeCountStep
<1>2. CASE Tick \/ TestSlot \/ \E ip \in IP : Pay(ip)
  BY <1>2, LoopStep, PayStep
<1>3. CASE Extend \/ Evict \/ Place \/ AddCount \/ GrantAccess \/ SetBytes
  BY <1>3, ExtendStep, EvictStep, PlaceStep, AddCountStep, GrantAccessStep
<1>4. CASE Clock \/ SetMetric \/ (\E i \in Slots : AddBytes(i)) \/ UNCHANGED vars
  BY <1>4, WorldStep
<1> QED
  BY <1>1, <1>2, <1>3, <1>4 DEF Next

(***************************************************************************)
(* The results.                                                            *)
(***************************************************************************)

(* The inductive invariant holds in every reachable state.                 *)
THEOREM GateRaceInvariant == Spec => []IInv
<1>1. Init => IInv
  BY InitIInv
<1>2. IInv /\ [Next]_vars => IInv'
  BY NextIInv
<1> QED
  BY <1>1, <1>2, PTL DEF Spec

(* However check_expiry and the creation of sessions, by time or by bytes, *)
(* interleave, no client has two sessions.                                 *)
THEOREM GateRaceOneSession == Spec => []OneSessionPerClient
<1>1. IInv => OneSessionPerClient
  BY DEF IInv
<1> QED
  BY <1>1, GateRaceInvariant, PTL

(* Whoever the firewall lets through has a session, or was granted access  *)
(* when the main loop had its new slot in hand already; and that takes an  *)
(* eviction or a session tested before it was complete.                    *)
THEOREM GateRaceAccessIsOwed == Spec => []AccessIsOwed
<1>1. IInv => AccessIsOwed
  BY DEF IInv, Calm, Owed, AccessIsOwed
<1> QED
  BY <1>1, GateRaceInvariant, PTL
=============================================================================
