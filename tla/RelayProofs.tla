---------------------------- MODULE RelayProofs ----------------------------
(***************************************************************************)
(* Proofs about the local relay, for any number of sockets, subscriptions, *)
(* events and limits.                                                      *)
(*                                                                         *)
(* The inductive invariant adds to the two invariants of the runs what the *)
(* server's task holds between its steps.  Places: a handler works for a   *)
(* connection that stays until it is done.  Twins: two slots of one        *)
(* connection and id come from an id that is kept cut.  Promised: every    *)
(* send that is planned, queued or will follow from a subscription is to a *)
(* socket that is or was connected and whose last connection asked for it; *)
(* such a socket is not given out again.                                   *)
(***************************************************************************)
EXTENDS Relay, FiniteSetTheorems, SequenceTheorems, TLAPS

ConnsOK ==
    /\ conns \subseteq Fds /\ leaked \subseteq Fds
    /\ IsFiniteSet(conns) /\ Cardinality(conns) <= MaxConns

SubsOK ==
    /\ subs \in [DOMAIN subs -> Subscriptions]
    /\ DOMAIN subs \subseteq Slots
    /\ \A fd \in Fds : Cardinality(Of(fd)) <= MaxPerConn

Connected ==
    /\ server \in {"off", "on", "stopping", "stopped"}
    /\ server = "off" => DOMAIN subs = {}
    /\ server \in {"on", "stopping"} => \A i \in DOMAIN subs : subs[i].fd \in conns

Counts == [events : 0..EventLimit, reqs : 0..ReqLimit]

BucketsOK ==
    /\ buckets \in [DOMAIN buckets -> Counts]
    /\ DOMAIN buckets \subseteq Fds
    /\ IsFiniteSet(DOMAIN buckets) /\ Cardinality(DOMAIN buckets) <= MaxBuckets

StoreOK ==
    /\ store \subseteq Events \cup {Blank}
    /\ IsFiniteSet(store) /\ Cardinality(store) <= MaxStore

QueueOK == work \in Seq(Sends) /\ Len(work) <= MaxWork

HistoryOK ==
    /\ due \subseteq Sends
    /\ asked \in [Fds -> SUBSET SubIds]

(* What a handler holds between two steps.                                 *)
Plans == UNION {[D -> Sends] : D \in SUBSET Slots}

Saving == [at : {"save", "delete"}, fd : Fds, ev : Events]
Deleting == [at : {"deleting"}, fd : Fds, ev : Events, del : SUBSET (Events \cup {Blank})]
Sending == [at : {"send"}, fd : Fds, to : Plans]
Adding == [at : {"add"}, fd : Fds, id : SubIds, filter : Filters]

Places ==
    /\ http = Idle \/ http \in Saving \/ http \in Deleting \/ http \in Sending \/ http \in Adding
    /\ http.at # "idle" => server \in {"on", "stopping"} /\ http.fd \in conns
    /\ http.at = "add" => http.id \in asked[http.fd]

Twins ==
    \A i, j \in DOMAIN subs :
       i # j /\ subs[i].fd = subs[j].fd /\ subs[i].id = subs[j].id =>
          \E id \in asked[subs[i].fd] : Cut[id] # id /\ Cut[id] = subs[i].id

Held(m) == m.fd \in conns \cup leaked /\ \E id \in asked[m.fd] : m.id = Cut[id]

Promised ==
    /\ \A i \in DOMAIN subs : Held(subs[i])
    /\ \A i \in DOMAIN work : Held(work[i])
    /\ http.at = "send" => \A i \in DOMAIN http.to : Held(http.to[i])

IInv ==
    /\ ConnsOK /\ SubsOK /\ Connected /\ BucketsOK /\ StoreOK /\ QueueOK /\ HistoryOK
    /\ Places /\ Twins /\ Promised
    /\ stray = FALSE

(***************************************************************************)
(* Where the task is, and what stays when nothing it depends on changes.   *)
(***************************************************************************)

(* The task's place says what it holds.                                    *)
LEMMA Holds ==
    ASSUME Places
    PROVE  /\ http.at \in {"save", "delete"} => http \in Saving
           /\ http.at = "deleting" => http \in Deleting
           /\ http.at = "send" => http \in Sending
           /\ http.at = "add" => http \in Adding
           /\ http.at = "idle" <=> http = Idle
BY DEF Places, Saving, Deleting, Sending, Adding, Idle

(* Plans are functions from slots to sends.                                *)
LEMMA PlansType ==
    /\ \A D \in SUBSET Slots : [D -> Sends] \subseteq Plans
    /\ \A f \in Plans : DOMAIN f \subseteq Slots /\ f \in [DOMAIN f -> Sends]
BY DEF Plans

(* Each part of the invariant depends on few variables.                    *)
LEMMA Frame ==
    ASSUME IInv
    PROVE  /\ UNCHANGED <<conns, leaked>> => ConnsOK'
           /\ UNCHANGED subs => SubsOK'
           /\ UNCHANGED <<server, conns, subs>> => Connected'
           /\ UNCHANGED buckets => BucketsOK'
           /\ UNCHANGED store => StoreOK'
           /\ UNCHANGED work => QueueOK'
           /\ UNCHANGED <<due, asked>> => HistoryOK'
           /\ UNCHANGED <<http, server, conns, asked>> => Places'
           /\ UNCHANGED <<subs, asked>> => Twins'
<1>1. ASSUME UNCHANGED <<conns, leaked>>
      PROVE  ConnsOK'
  BY <1>1 DEF IInv, ConnsOK
<1>2. ASSUME UNCHANGED subs
      PROVE  SubsOK'
  BY <1>2 DEF IInv, SubsOK, Of
<1>3. ASSUME UNCHANGED <<server, conns, subs>>
      PROVE  Connected'
  BY <1>3 DEF IInv, Connected
<1>4. ASSUME UNCHANGED buckets
      PROVE  BucketsOK'
  BY <1>4 DEF IInv, BucketsOK
<1>5. ASSUME UNCHANGED store
      PROVE  StoreOK'
  BY <1>5 DEF IInv, StoreOK
<1>6. ASSUME UNCHANGED work
      PROVE  QueueOK'
  BY <1>6 DEF IInv, QueueOK
<1>7. ASSUME UNCHANGED <<due, asked>>
      PROVE  HistoryOK'
  BY <1>7 DEF IInv, HistoryOK
<1>8. ASSUME UNCHANGED <<http, server, conns, asked>>
      PROVE  Places'
  BY <1>8 DEF IInv, Places
<1>9. ASSUME UNCHANGED <<subs, asked>>
      PROVE  Twins'
  BY <1>9 DEF IInv, Twins
<1> QED
  BY <1>1, <1>2, <1>3, <1>4, <1>5, <1>6, <1>7, <1>8, <1>9

HeldNext(m) == m.fd \in conns' \cup leaked' /\ \E id \in asked'[m.fd] : m.id = Cut[id]

(* Sends that are held stay so while sockets are not given out again and   *)
(* what a connection asked for is not forgotten; only new ones need care.  *)
LEMMA PromisedNext ==
    ASSUME Promised,
           conns \cup leaked \subseteq conns' \cup leaked',
           \A fd \in conns \cup leaked : asked[fd] \subseteq asked'[fd],
           \A i \in DOMAIN subs' :
              \/ i \in DOMAIN subs /\ subs'[i].fd = subs[i].fd /\ subs'[i].id = subs[i].id
              \/ HeldNext(subs'[i]),
           \A i \in DOMAIN work' : \/ \E j \in DOMAIN work : work'[i] = work[j]
                                   \/ HeldNext(work'[i]),
           http'.at = "send" =>
               \A i \in DOMAIN http'.to :
                  \/ http.at = "send" /\ i \in DOMAIN http.to /\ http'.to[i] = http.to[i]
                  \/ HeldNext(http'.to[i])
    PROVE  Promised'
<1>1. ASSUME NEW m, NEW n, Held(m), n.fd = m.fd, n.id = m.id
      PROVE  HeldNext(n)
  BY <1>1 DEF Held, HeldNext
<1>2. \A i \in DOMAIN subs' : HeldNext(subs'[i])
  BY <1>1 DEF Promised
<1>3. \A i \in DOMAIN work' : HeldNext(work'[i])
  BY <1>1 DEF Promised
<1>4. http'.at = "send" => \A i \in DOMAIN http'.to : HeldNext(http'.to[i])
  BY <1>1 DEF Promised
<1> QED
  BY <1>2, <1>3, <1>4 DEF Promised, Held, HeldNext

(* What is sent for a slot is a send that is held.                         *)
LEMMA SendForHeld ==
    ASSUME IInv, NEW e \in Events, NEW i \in DOMAIN subs
    PROVE  SendFor(i, e) \in Sends /\ Held(SendFor(i, e))
<1>1. subs[i] \in Subscriptions /\ Held(subs[i])
  BY DEF IInv, SubsOK, Promised
<1>2. SendFor(i, e).fd = subs[i].fd /\ SendFor(i, e).id = subs[i].id
  BY DEF SendFor
<1> QED
  BY <1>1, <1>2 DEF SendFor, Sends, Subscriptions, Held

(* ws_server_send queues the send or loses it.                             *)
LEMMA QueueNext ==
    ASSUME QueueOK, HistoryOK, NEW m \in Sends, Queue(m)
    PROVE  /\ QueueOK'
           /\ due' \subseteq Sends
           /\ \A i \in DOMAIN work' : \/ \E j \in DOMAIN work : work'[i] = work[j]
                                      \/ work'[i] = m
<1>1. CASE Len(work) < MaxWork /\ work' = Append(work, m) /\ due' = due
  <2>1. work' = Append(work, m) /\ due' = due
    BY <1>1
  <2>2. work \in Seq(Sends) /\ Len(work) \in Nat /\ due \subseteq Sends /\ DOMAIN work = 1..Len(work)
    BY DEF QueueOK, HistoryOK
  <2>3. /\ Append(work, m) \in Seq(Sends) /\ Len(Append(work, m)) = Len(work) + 1
        /\ \A i \in 1..Len(work) : Append(work, m)[i] = work[i]
        /\ Append(work, m)[Len(work) + 1] = m
    BY <2>2, AppendProperties
  <2>4. DOMAIN work' = 1..(Len(work) + 1)
    BY <2>1, <2>2, <2>3, LenProperties
  <2> QED
    BY <1>1, <2>1, <2>2, <2>3, <2>4, RelayAssumption DEF QueueOK
<1>2. CASE due' = due \ {m} /\ work' = work
  BY <1>2 DEF QueueOK, HistoryOK
<1> QED
  BY <1>1, <1>2 DEF Queue

(* A rate limit's check, of either kind of message.                        *)
LEMMA CheckNext ==
    ASSUME BucketsOK, NEW fd \in Fds, NEW allowed \in BOOLEAN,
           CheckEvent(fd, allowed) \/ CheckReq(fd, allowed)
    PROVE  BucketsOK'
<1>1. CASE ~HasBucket(fd)
  <2>1. buckets' = buckets
    BY <1>1 DEF CheckEvent, CheckReq
  <2> QED
    BY <2>1 DEF BucketsOK
<1>2. CASE HasBucket(fd)
  <2>1. Bucket(fd) \in Counts
    BY RelayAssumption DEF Bucket, BucketsOK, Counts
  <2>2. PICK b \in Counts : buckets' = Counted(fd, b)
    <3>1. CASE CheckEvent(fd, allowed)
      <4>1. [Bucket(fd) EXCEPT !.events = IF allowed THEN @ + 1 ELSE @] \in Counts
        <5>1. CASE allowed
          BY <2>1, <3>1, <5>1, RelayAssumption DEF CheckEvent, Counts
        <5>2. CASE ~allowed
          BY <2>1, <5>2 DEF Counts
        <5> QED
          BY <5>1, <5>2
      <4> QED
        BY <1>2, <3>1, <4>1 DEF CheckEvent
    <3>2. CASE CheckReq(fd, allowed)
      <4>1. [Bucket(fd) EXCEPT !.reqs = IF allowed THEN @ + 1 ELSE @] \in Counts
        <5>1. CASE allowed
          BY <2>1, <3>2, <5>1, RelayAssumption DEF CheckReq, Counts
        <5>2. CASE ~allowed
          BY <2>1, <5>2 DEF Counts
        <5> QED
          BY <5>1, <5>2
      <4> QED
        BY <1>2, <3>2, <4>1 DEF CheckReq
    <3> QED
      BY <3>1, <3>2
  <2> DEFINE D == DOMAIN buckets
  <2>3. DOMAIN buckets' = D \cup {fd}
    BY <2>2 DEF Counted
  <2>4. IsFiniteSet(D) /\ Cardinality(D) \in Nat /\ Cardinality(D) <= MaxBuckets
    BY FS_CardinalityType DEF BucketsOK
  <2>5. /\ IsFiniteSet(D \cup {fd})
        /\ Cardinality(D \cup {fd}) = IF fd \in D THEN Cardinality(D) ELSE Cardinality(D) + 1
    BY <2>4, FS_AddElement
  <2>6. fd \in D \/ Cardinality(D) < MaxBuckets
    BY <1>2 DEF HasBucket
  <2>7. IsFiniteSet(DOMAIN buckets') /\ Cardinality(DOMAIN buckets') <= MaxBuckets
    <3> HIDE DEF D
    <3> QED
      BY <2>3, <2>4, <2>5, <2>6, RelayAssumption
  <2>8. buckets' \in [D \cup {fd} -> Counts] /\ D \cup {fd} \subseteq Fds
    BY <2>2 DEF BucketsOK, Counted
  <2> QED
    BY <2>3, <2>7, <2>8 DEF BucketsOK
<1> QED
  BY <1>1, <1>2

(* The table has finitely many slots, and so has every part of it.         *)
LEMMA SlotsFinite ==
    ASSUME SubsOK, NEW D \in SUBSET DOMAIN subs
    PROVE  IsFiniteSet(D) /\ Cardinality(D) \in Nat
<1>1. IsFiniteSet(Slots)
  BY FS_Interval, RelayAssumption DEF Slots
<1>2. D \subseteq Slots
  BY DEF SubsOK
<1> QED
  BY <1>1, <1>2, FS_Subset, FS_CardinalityType

(* Subscriptions only go.                                                  *)
LEMMA FewerSubs ==
    ASSUME IInv, NEW D \in SUBSET DOMAIN subs, subs' = Only(D),
           \A fd \in conns \cup leaked : asked[fd] \subseteq asked'[fd]
    PROVE  /\ SubsOK' /\ Twins'
           /\ DOMAIN subs' = D /\ \A i \in D : subs'[i] = subs[i]
<1>1. DOMAIN subs' = D /\ \A i \in D : subs'[i] = subs[i]
  BY DEF Only
<1>2. subs' \in [DOMAIN subs' -> Subscriptions] /\ DOMAIN subs' \subseteq Slots
  BY <1>1 DEF IInv, SubsOK, Only
<1>3. ASSUME NEW fd \in Fds
      PROVE  Cardinality(Of(fd)') <= MaxPerConn
  <2> DEFINE S == Of(fd)
             T == Of(fd)'
  <2>1. S \in SUBSET DOMAIN subs /\ T \subseteq S
    BY <1>1 DEF Of
  <2>2. Cardinality(S) <= MaxPerConn
    BY DEF IInv, SubsOK
  <2> HIDE DEF S, T
  <2>3. IsFiniteSet(S) /\ Cardinality(S) \in Nat
    BY <2>1, SlotsFinite DEF IInv
  <2>4. Cardinality(T) \in Nat /\ Cardinality(T) <= Cardinality(S)
    BY <2>1, <2>3, FS_Subset, FS_CardinalityType
  <2>5. Cardinality(T) <= MaxPerConn
    BY <2>2, <2>3, <2>4, RelayAssumption
  <2> QED
    BY <2>5 DEF T
<1>4. SubsOK'
  BY <1>2, <1>3 DEF SubsOK
<1>5. Twins'
  <2> SUFFICES ASSUME NEW i \in D, NEW j \in D, i # j,
                      subs[i].fd = subs[j].fd, subs[i].id = subs[j].id
               PROVE  \E id \in asked'[subs[i].fd] : Cut[id] # id /\ Cut[id] = subs[i].id
    BY <1>1 DEF Twins
  <2>1. PICK id \in asked[subs[i].fd] : Cut[id] # id /\ Cut[id] = subs[i].id
    BY DEF IInv, Twins
  <2>2. subs[i].fd \in conns \cup leaked
    BY DEF IInv, Promised, Held
  <2> QED
    BY <2>1, <2>2
<1> QED
  BY <1>1, <1>4, <1>5

(***************************************************************************)
(* Connections.                                                            *)
(***************************************************************************)

(* on_open: a socket that is neither connected nor leaked, so that no send *)
(* is held for it.                                                         *)
LEMMA OnOpenStep ==
    ASSUME IInv, NEW fd \in Fds, OnOpen(fd)
    PROVE  IInv'
<1>1. /\ server = "on" /\ http = Idle /\ fd \notin conns \cup leaked
      /\ Cardinality(conns) < MaxConns
      /\ conns' = conns \cup {fd} /\ asked' = [asked EXCEPT ![fd] = {}]
      /\ UNCHANGED <<server, leaked, subs, buckets, store, work, http, stray, due>>
  BY DEF OnOpen
<1>2. SubsOK' /\ BucketsOK' /\ StoreOK' /\ QueueOK' /\ stray' = FALSE
  BY <1>1, Frame DEF IInv
<1>3. ConnsOK'
  <2>1. IsFiniteSet(conns) /\ Cardinality(conns) \in Nat
    BY FS_CardinalityType DEF IInv, ConnsOK
  <2>2. IsFiniteSet(conns \cup {fd}) /\ Cardinality(conns \cup {fd}) = Cardinality(conns) + 1
    BY <1>1, <2>1, FS_AddElement
  <2> QED
    BY <1>1, <2>1, <2>2, RelayAssumption DEF IInv, ConnsOK
<1>4. Connected'
  BY <1>1 DEF IInv, Connected
<1>5. HistoryOK'
  BY <1>1 DEF IInv, HistoryOK
<1>6. Places'
  BY <1>1 DEF IInv, Places, Idle
<1>7. \A f \in conns \cup leaked : asked'[f] = asked[f]
  BY <1>1 DEF IInv, HistoryOK, ConnsOK
<1>8. Twins'
  <2>1. \A i \in DOMAIN subs : asked'[subs[i].fd] = asked[subs[i].fd]
    BY <1>7 DEF IInv, Promised, Held
  <2> QED
    BY <1>1, <2>1 DEF IInv, Twins
<1>9. Promised'
  BY <1>1, <1>7, PromisedNext DEF IInv, Idle
<1> QED
  BY <1>2, <1>3, <1>4, <1>5, <1>6, <1>8, <1>9 DEF IInv

(* on_close: the socket is leaked, its subscriptions go.                   *)
LEMMA OnCloseStep ==
    ASSUME IInv, NEW fd \in Fds, OnClose(fd)
    PROVE  IInv'
<1> DEFINE D == DOMAIN subs \ Of(fd)
<1>1. /\ server = "on" /\ http = Idle /\ fd \in conns
      /\ subs' = Only(D) /\ conns' = conns \ {fd} /\ leaked' = leaked \cup {fd}
      /\ due' = {d \in due : d.fd # fd}
      /\ UNCHANGED <<server, buckets, store, work, http, asked, stray>>
  BY DEF OnClose, Without
<1>2. BucketsOK' /\ StoreOK' /\ QueueOK' /\ stray' = FALSE
  BY <1>1, Frame DEF IInv
<1>3. ConnsOK'
  <2>1. IsFiniteSet(conns) /\ Cardinality(conns) \in Nat
    BY FS_CardinalityType DEF IInv, ConnsOK
  <2>2. /\ IsFiniteSet(conns \ {fd}) /\ Cardinality(conns \ {fd}) \in Nat
        /\ Cardinality(conns \ {fd}) <= Cardinality(conns)
    <3>1. conns \ {fd} \subseteq conns
      OBVIOUS
    <3> QED
      BY <2>1, <3>1, FS_Subset, FS_CardinalityType
  <2> QED
    BY <1>1, <2>1, <2>2, RelayAssumption DEF IInv, ConnsOK
<1>4. \A i \in D : i \in DOMAIN subs /\ subs[i].fd # fd
  BY DEF Of
<1> HIDE DEF D
<1>5. SubsOK' /\ Twins' /\ DOMAIN subs' = D /\ \A i \in D : subs'[i] = subs[i]
  BY <1>1, <1>4, FewerSubs
<1>6. Connected'
  BY <1>1, <1>4, <1>5 DEF IInv, Connected
<1>7. HistoryOK'
  BY <1>1 DEF IInv, HistoryOK
<1>8. Places'
  BY <1>1 DEF IInv, Places, Idle
<1>9. Promised'
  BY <1>1, <1>4, <1>5, PromisedNext DEF IInv, Idle
<1> QED
  BY <1>2, <1>3, <1>5, <1>6, <1>7, <1>8, <1>9 DEF IInv

(***************************************************************************)
(* Messages.                                                               *)
(***************************************************************************)

(* A window ends, or a message is refused: only the buckets change.        *)
LEMMA RefusedStep ==
    ASSUME IInv, NEW fd \in Fds, WindowOver(fd) \/ ReqRefused(fd) \/ EventRefused(fd)
    PROVE  IInv'
<1>1. UNCHANGED <<server, conns, leaked, subs, store, work, http, asked, stray, due>>
  BY DEF WindowOver, ReqRefused, EventRefused, history
<1>2. BucketsOK'
  <2>1. CASE WindowOver(fd)
    <3>1. [events |-> 0, reqs |-> 0] \in Counts
      BY RelayAssumption DEF Counts
    <3>2. buckets' \in [DOMAIN buckets -> Counts] /\ DOMAIN buckets' = DOMAIN buckets
      BY <2>1, <3>1 DEF WindowOver, IInv, BucketsOK
    <3> QED
      BY <3>2 DEF IInv, BucketsOK
  <2>2. CASE ReqRefused(fd)
    BY <2>2, CheckNext DEF ReqRefused, IInv
  <2>3. CASE EventRefused(fd)
    <3>1. PICK allowed \in BOOLEAN : CheckEvent(fd, allowed)
      BY <2>3 DEF EventRefused
    <3> QED
      BY <3>1, CheckNext DEF IInv
  <2> QED
    BY <2>1, <2>2, <2>3
<1>3. Promised'
  BY <1>1, PromisedNext DEF IInv
<1> QED
  BY <1>1, <1>2, <1>3, Frame DEF IInv

(* handle_event begins.                                                    *)
LEMMA EventArrivesStep ==
    ASSUME IInv, NEW fd \in Fds, NEW e \in Events, EventArrives(fd, e)
    PROVE  IInv'
<1>1. /\ server = "on" /\ http = Idle /\ fd \in conns
      /\ CheckEvent(fd, TRUE)
      /\ http' = [at |-> "save", fd |-> fd, ev |-> e]
      /\ UNCHANGED <<server, conns, leaked, subs, store, work, asked, stray, due>>
  BY DEF EventArrives, history
<1>2. /\ ConnsOK' /\ SubsOK' /\ Connected' /\ StoreOK' /\ QueueOK' /\ HistoryOK' /\ Twins'
      /\ stray' = FALSE
  BY <1>1, Frame DEF IInv
<1>3. BucketsOK'
  BY <1>1, CheckNext DEF IInv
<1>4. Places'
  <2>1. http' \in Saving /\ http'.at = "save" /\ http'.fd = fd
    BY <1>1 DEF Saving
  <2> QED
    BY <1>1, <2>1 DEF IInv, Places
<1>5. Promised'
  BY <1>1, PromisedNext DEF IInv
<1> QED
  BY <1>2, <1>3, <1>4, <1>5 DEF IInv

(* handle_req: the id is asked for before the subscription is added.       *)
LEMMA ReqAnsweredStep ==
    ASSUME IInv, NEW fd \in Fds, NEW id \in SubIds, NEW f \in Filters, ReqAnswered(fd, id, f)
    PROVE  IInv'
<1>1. /\ server = "on" /\ http = Idle /\ fd \in conns
      /\ CheckReq(fd, TRUE)
      /\ asked' = [asked EXCEPT ![fd] = @ \cup {id}]
      /\ http' = [at |-> "add", fd |-> fd, id |-> id, filter |-> f]
      /\ UNCHANGED <<server, conns, leaked, subs, store, work, stray, due>>
  BY DEF ReqAnswered
<1>2. /\ ConnsOK' /\ SubsOK' /\ Connected' /\ StoreOK' /\ QueueOK'
      /\ stray' = FALSE
  BY <1>1, Frame DEF IInv
<1>3. BucketsOK'
  BY <1>1, CheckNext DEF IInv
<1>4. HistoryOK' /\ id \in asked'[fd]
  BY <1>1 DEF IInv, HistoryOK
<1>5. Places'
  <2>1. http' \in Adding /\ http'.at = "add" /\ http'.fd = fd /\ http'.id = id
    BY <1>1 DEF Adding
  <2> QED
    BY <1>1, <1>4, <2>1 DEF IInv, Places
<1>6. \A g \in conns \cup leaked : asked[g] \subseteq asked'[g]
  BY <1>1 DEF IInv, HistoryOK, ConnsOK
<1>7. Twins'
  <2>1. \A i \in DOMAIN subs : asked[subs[i].fd] \subseteq asked'[subs[i].fd]
    BY <1>6 DEF IInv, Promised, Held
  <2> QED
    BY <1>1, <2>1 DEF IInv, Twins
<1>8. Promised'
  BY <1>1, <1>6, PromisedNext DEF IInv
<1> QED
  BY <1>2, <1>3, <1>4, <1>5, <1>7, <1>8 DEF IInv

(* sub_manager_add to an id that is in use: its filter alone changes.      *)
LEMMA Refiltered ==
    ASSUME IInv, NEW i \in DOMAIN subs, NEW filters \in SUBSET Filters,
           subs' = [subs EXCEPT ![i].filters = filters], asked' = asked
    PROVE  /\ SubsOK' /\ Twins' /\ DOMAIN subs' = DOMAIN subs
           /\ \A j \in DOMAIN subs : subs'[j].fd = subs[j].fd /\ subs'[j].id = subs[j].id
<1>1. subs \in [DOMAIN subs -> Subscriptions] /\ DOMAIN subs \subseteq Slots
  BY DEF IInv, SubsOK
<1>2. subs' \in [DOMAIN subs -> Subscriptions] /\ DOMAIN subs' = DOMAIN subs
  BY <1>1 DEF Subscriptions
<1>3. \A j \in DOMAIN subs : subs'[j].fd = subs[j].fd /\ subs'[j].id = subs[j].id
  BY <1>1 DEF Subscriptions
<1>4. ASSUME NEW fd \in Fds
      PROVE  Cardinality(Of(fd)') <= MaxPerConn
  <2>1. Of(fd)' = Of(fd)
    BY <1>2, <1>3 DEF Of
  <2> QED
    BY <2>1 DEF IInv, SubsOK
<1>5. SubsOK'
  BY <1>1, <1>2, <1>4 DEF SubsOK
<1>6. Twins'
  <2> SUFFICES ASSUME NEW j \in DOMAIN subs, NEW k \in DOMAIN subs, j # k,
                      subs'[j].fd = subs'[k].fd, subs'[j].id = subs'[k].id
               PROVE  \E id \in asked[subs'[j].fd] : Cut[id] # id /\ Cut[id] = subs'[j].id
    BY <1>2 DEF Twins
  <2>1. subs[j].fd = subs[k].fd /\ subs[j].id = subs[k].id
    BY <1>3
  <2>2. \E id \in asked[subs[j].fd] : Cut[id] # id /\ Cut[id] = subs[j].id
    BY <2>1 DEF IInv, Twins
  <2> QED
    BY <1>3, <2>2
<1> QED
  BY <1>2, <1>3, <1>5, <1>6

(* sub_manager_add of an id that is not found: a twin has an id that is    *)
(* kept cut.                                                               *)
LEMMA Added ==
    ASSUME IInv, http.at = "add", NEW i \in Slots \ DOMAIN subs,
           Found(http.fd, http.id) = {}, Cardinality(Of(http.fd)) < MaxPerConn,
           subs' = [j \in DOMAIN subs \cup {i} |->
                      IF j = i THEN [fd |-> http.fd, id |-> Cut[http.id],
                                     filters |-> {http.filter}]
                               ELSE subs[j]],
           asked' = asked
    PROVE  /\ SubsOK' /\ Twins' /\ DOMAIN subs' = DOMAIN subs \cup {i}
           /\ \A j \in DOMAIN subs : subs'[j] = subs[j]
           /\ subs'[i].fd = http.fd /\ subs'[i].id = Cut[http.id]
<1>1. subs \in [DOMAIN subs -> Subscriptions] /\ DOMAIN subs \subseteq Slots
  BY DEF IInv, SubsOK
<1>2. http \in Adding /\ http.id \in asked[http.fd]
  BY Holds DEF IInv, Places
<1>3. /\ DOMAIN subs' = DOMAIN subs \cup {i}
      /\ \A j \in DOMAIN subs : subs'[j] = subs[j]
      /\ subs'[i] = [fd |-> http.fd, id |-> Cut[http.id], filters |-> {http.filter}]
  OBVIOUS
<1>4. subs'[i] \in Subscriptions /\ subs'[i].fd = http.fd /\ subs'[i].id = Cut[http.id]
  <2>1. http.fd \in Fds /\ Cut[http.id] \in SubIds /\ http.filter \in Filters
    BY <1>2, RelayAssumption DEF Adding
  <2> QED
    BY <1>3, <2>1 DEF Subscriptions
<1>5. subs' \in [DOMAIN subs' -> Subscriptions] /\ DOMAIN subs' \subseteq Slots
  <2>1. \A j \in DOMAIN subs' : subs'[j] \in Subscriptions
    BY <1>1, <1>3, <1>4
  <2>2. subs' = [j \in DOMAIN subs' |-> subs'[j]]
    BY <1>3
  <2> QED
    BY <1>1, <1>3, <2>1, <2>2
<1>6. ASSUME NEW fd \in Fds
      PROVE  Cardinality(Of(fd)') <= MaxPerConn
  <2> DEFINE S == Of(fd)
             T == Of(fd)'
  <2>1. S \in SUBSET DOMAIN subs /\ Cardinality(S) <= MaxPerConn /\ i \notin S
    BY DEF Of, IInv, SubsOK
  <2>2. (fd = http.fd /\ T = S \cup {i}) \/ T = S
    BY <1>3, <1>4 DEF Of
  <2>3. fd = http.fd => Cardinality(S) < MaxPerConn
    OBVIOUS
  <2> HIDE DEF S, T
  <2>4. IsFiniteSet(S) /\ Cardinality(S) \in Nat
    BY <2>1, SlotsFinite DEF IInv
  <2>5. Cardinality(S \cup {i}) = Cardinality(S) + 1
    BY <2>1, <2>4, FS_AddElement
  <2>6. Cardinality(T) <= MaxPerConn
    <3>1. CASE T = S
      BY <2>1, <3>1
    <3>2. CASE fd = http.fd /\ T = S \cup {i}
      <4>1. Cardinality(S) < MaxPerConn /\ Cardinality(T) = Cardinality(S) + 1
        BY <2>3, <2>5, <3>2
      <4>2. MaxPerConn \in Nat
        BY RelayAssumption
      <4> QED
        BY <2>4, <4>1, <4>2
    <3> QED
      BY <2>2, <3>1, <3>2
  <2> QED
    BY <2>6 DEF T
<1>7. SubsOK'
  BY <1>5, <1>6 DEF SubsOK
<1>8. \A j \in DOMAIN subs : subs[j].fd = http.fd => subs[j].id # http.id
  BY DEF Found, Of
<1>9. Twins'
  <2> SUFFICES ASSUME NEW j \in DOMAIN subs', NEW k \in DOMAIN subs', j # k,
                      subs'[j].fd = subs'[k].fd, subs'[j].id = subs'[k].id
               PROVE  \E id \in asked[subs'[j].fd] : Cut[id] # id /\ Cut[id] = subs'[j].id
    BY DEF Twins
  <2>1. CASE j # i /\ k # i
    BY <1>3, <2>1 DEF IInv, Twins
  <2>2. CASE j = i \/ k = i
    <3>1. subs'[j].fd = http.fd /\ subs'[j].id = Cut[http.id]
      BY <1>4, <2>2
    <3>2. Cut[http.id] # http.id
      BY <1>3, <1>4, <1>8, <2>2
    <3> QED
      BY <1>2, <3>1, <3>2
  <2> QED
    BY <2>1, <2>2
<1> QED
  BY <1>3, <1>4, <1>7, <1>9

(* sub_manager_add: the connection is still there, and has asked.          *)
LEMMA ReqAddedStep ==
    ASSUME IInv, ReqAdded
    PROVE  IInv'
<1>1. /\ http.at = "add" /\ http' = Idle
      /\ UNCHANGED <<server, conns, leaked, buckets, store, work, asked, stray, due>>
  BY DEF ReqAdded, history
<1>2. /\ http \in Adding /\ http.fd \in conns /\ http.id \in asked[http.fd]
      /\ server \in {"on", "stopping"}
  BY <1>1, Holds DEF IInv, Places
<1>3. ConnsOK' /\ BucketsOK' /\ StoreOK' /\ QueueOK' /\ HistoryOK' /\ stray' = FALSE
  BY <1>1, Frame DEF IInv
<1>4. Places'
  BY <1>1 DEF IInv, Places, Idle
<1>5. /\ SubsOK' /\ Twins'
      /\ \A j \in DOMAIN subs' :
            \/ j \in DOMAIN subs /\ subs'[j].fd = subs[j].fd /\ subs'[j].id = subs[j].id
            \/ subs'[j].fd = http.fd /\ subs'[j].id = Cut[http.id]
  <2>1. CASE \E i \in Slots, filters \in {{http.filter}, {}} :
                /\ First(i, Found(http.fd, http.id))
                /\ subs' = [subs EXCEPT ![i].filters = filters]
    <3>1. PICK i \in Slots : \E filters \in {{http.filter}, {}} :
                /\ First(i, Found(http.fd, http.id))
                /\ subs' = [subs EXCEPT ![i].filters = filters]
      BY <2>1
    <3>2. PICK filters \in {{http.filter}, {}} :
                /\ First(i, Found(http.fd, http.id))
                /\ subs' = [subs EXCEPT ![i].filters = filters]
      BY <3>1
    <3>3. i \in DOMAIN subs
      BY <3>2 DEF First, Found, Of
    <3>4. filters \in SUBSET Filters
      BY <1>2 DEF Adding
    <3> QED
      BY <1>1, <3>2, <3>3, <3>4, Refiltered
  <2>2. CASE /\ Found(http.fd, http.id) = {}
             /\ Cardinality(Of(http.fd)) < MaxPerConn
             /\ \E i \in Slots :
                   /\ First(i, Slots \ DOMAIN subs)
                   /\ subs' = [j \in DOMAIN subs \cup {i} |->
                                 IF j = i THEN [fd |-> http.fd, id |-> Cut[http.id],
                                                filters |-> {http.filter}]
                                          ELSE subs[j]]
    <3>1. PICK i \in Slots :
                   /\ First(i, Slots \ DOMAIN subs)
                   /\ subs' = [j \in DOMAIN subs \cup {i} |->
                                 IF j = i THEN [fd |-> http.fd, id |-> Cut[http.id],
                                                filters |-> {http.filter}]
                                          ELSE subs[j]]
      BY <2>2
    <3>2. i \in Slots \ DOMAIN subs
      BY <3>1 DEF First
    <3>3. /\ SubsOK' /\ Twins' /\ DOMAIN subs' = DOMAIN subs \cup {i}
          /\ \A j \in DOMAIN subs : subs'[j] = subs[j]
          /\ subs'[i].fd = http.fd /\ subs'[i].id = Cut[http.id]
      BY <1>1, <2>2, <3>1, <3>2, Added
    <3> QED
      BY <3>3
  <2>3. CASE subs' = subs
    BY <1>1, <2>3, Frame
  <2> QED
    BY <2>1, <2>2, <2>3 DEF ReqAdded, Copies
<1>6. Connected'
  BY <1>1, <1>2, <1>5 DEF IInv, Connected
<1>7. Promised'
  <2>1. \A j \in DOMAIN subs' :
            \/ j \in DOMAIN subs /\ subs'[j].fd = subs[j].fd /\ subs'[j].id = subs[j].id
            \/ HeldNext(subs'[j])
    BY <1>1, <1>2, <1>5 DEF HeldNext
  <2> QED
    BY <1>1, <2>1, PromisedNext DEF IInv, Idle
<1> QED
  BY <1>3, <1>4, <1>5, <1>6, <1>7 DEF IInv

(* handle_close.                                                           *)
LEMMA HandleCloseStep ==
    ASSUME IInv, NEW fd \in Fds, NEW id \in SubIds, HandleClose(fd, id)
    PROVE  IInv'
<1>1. PICK i \in Slots : First(i, Found(fd, id)) /\ subs' = Only(DOMAIN subs \ {i})
  BY DEF HandleClose
<1>2. /\ server = "on"
      /\ UNCHANGED <<server, conns, leaked, buckets, store, work, http, asked, stray, due>>
  BY DEF HandleClose, history
<1>3. /\ ConnsOK' /\ BucketsOK' /\ StoreOK' /\ QueueOK' /\ HistoryOK' /\ Places'
      /\ stray' = FALSE
  BY <1>2, Frame DEF IInv
<1> DEFINE D == DOMAIN subs \ {i}
<1>4. subs' = Only(D) /\ D \in SUBSET DOMAIN subs
  BY <1>1
<1> HIDE DEF D
<1>5. SubsOK' /\ Twins' /\ DOMAIN subs' = D /\ \A j \in D : subs'[j] = subs[j]
  BY <1>2, <1>4, FewerSubs
<1>6. Connected'
  BY <1>2, <1>4, <1>5 DEF IInv, Connected
<1>7. Promised'
  BY <1>2, <1>4, <1>5, PromisedNext DEF IInv
<1> QED
  BY <1>3, <1>5, <1>6, <1>7 DEF IInv

(***************************************************************************)
(* Storing, deleting and looking up.                                       *)
(***************************************************************************)

(* storage_save_event_json adds what was not there.                        *)
LEMMA StoreNext ==
    ASSUME IInv, NEW e \in Events \cup {Blank}, CanStore(e), store' = store \cup {e}
    PROVE  StoreOK'
<1>1. e \notin store /\ Cardinality(store) < MaxStore
  BY DEF CanStore
<1>2. IsFiniteSet(store) /\ Cardinality(store) \in Nat
  BY FS_CardinalityType DEF IInv, StoreOK
<1>3. IsFiniteSet(store \cup {e}) /\ Cardinality(store \cup {e}) = Cardinality(store) + 1
  BY <1>1, <1>2, FS_AddElement
<1> QED
  BY <1>1, <1>2, <1>3, RelayAssumption DEF IInv, StoreOK

(* The event is stored.                                                    *)
LEMMA EventSavedStep ==
    ASSUME IInv, EventSaved
    PROVE  IInv'
<1>1. /\ http.at = "save" /\ CanStore(http.ev) /\ store' = store \cup {http.ev}
      /\ due' = due \cup Expecting(http.ev)
      /\ http' = [http EXCEPT !.at = "delete"]
      /\ UNCHANGED <<server, conns, leaked, subs, buckets, work, asked, stray>>
  BY DEF EventSaved, tables
<1>2. http \in Saving /\ http.ev \in Events
  BY <1>1, Holds DEF IInv, Saving
<1>3. ConnsOK' /\ SubsOK' /\ Connected' /\ BucketsOK' /\ QueueOK' /\ Twins' /\ stray' = FALSE
  BY <1>1, Frame DEF IInv
<1>4. StoreOK'
  BY <1>1, <1>2, StoreNext
<1>5. HistoryOK'
  <2>1. \A i \in DOMAIN subs : SendFor(i, http.ev) \in Sends
    BY <1>2, SendForHeld
  <2>2. Expecting(http.ev) \subseteq Sends
    BY <2>1 DEF Expecting
  <2> QED
    BY <1>1, <2>2 DEF IInv, HistoryOK
<1>6. http' \in Saving /\ http'.at = "delete" /\ http'.fd = http.fd
  BY <1>1, <1>2 DEF Saving
<1>7. Places'
  BY <1>1, <1>6 DEF IInv, Places
<1>8. Promised'
  BY <1>1, <1>6, PromisedNext DEF IInv
<1> QED
  BY <1>3, <1>4, <1>5, <1>7, <1>8 DEF IInv

(* The event is not stored, or all its sends are done.                     *)
LEMMA EventEndsStep ==
    ASSUME IInv, EventNotSaved \/ EventDone
    PROVE  IInv'
<1>1. /\ http' = Idle
      /\ UNCHANGED <<server, conns, leaked, subs, buckets, store, work, asked, stray, due>>
  BY DEF EventNotSaved, EventDone, tables, history
<1>2. /\ ConnsOK' /\ SubsOK' /\ Connected' /\ BucketsOK' /\ StoreOK' /\ QueueOK' /\ HistoryOK'
      /\ Twins' /\ stray' = FALSE
  BY <1>1, Frame DEF IInv
<1>3. Places'
  BY <1>1 DEF IInv, Places, Idle
<1>4. Promised'
  BY <1>1, PromisedNext DEF IInv, Idle
<1> QED
  BY <1>2, <1>3, <1>4 DEF IInv

(* deletion_process_json finds what is to go ...                           *)
LEMMA EventDeletesStep ==
    ASSUME IInv, EventDeletes
    PROVE  IInv'
<1>1. PICK author \in Authors :
        http' = [at |-> "deleting", fd |-> http.fd, ev |-> http.ev,
                 del |-> IF http.ev.kind = 5
                         THEN Named(http.ev) \cup Addressed \cup OfKind(http.ev, author)
                         ELSE {}]
  BY DEF EventDeletes
<1>2. /\ http.at = "delete"
      /\ UNCHANGED <<server, conns, leaked, subs, buckets, store, work, asked, stray, due>>
  BY DEF EventDeletes, tables, history
<1>3. http \in Saving
  BY <1>2, Holds DEF IInv
<1>4. /\ ConnsOK' /\ SubsOK' /\ Connected' /\ BucketsOK' /\ StoreOK' /\ QueueOK' /\ HistoryOK'
      /\ Twins' /\ stray' = FALSE
  BY <1>2, Frame DEF IInv
<1>5. Named(http.ev) \cup Addressed \cup OfKind(http.ev, author) \in SUBSET (Events \cup {Blank})
  BY DEF Named, Addressed, OfKind, IInv, StoreOK
<1>6. http' \in Deleting /\ http'.at = "deleting" /\ http'.fd = http.fd
  <2> DEFINE gone == IF http.ev.kind = 5
                     THEN Named(http.ev) \cup Addressed \cup OfKind(http.ev, author) ELSE {}
  <2>1. gone \in SUBSET (Events \cup {Blank})
    BY <1>5
  <2> HIDE DEF gone
  <2>2. http' = [at |-> "deleting", fd |-> http.fd, ev |-> http.ev, del |-> gone]
    BY <1>1 DEF gone
  <2> QED
    BY <1>3, <2>1, <2>2 DEF Saving, Deleting
<1>7. Places'
  BY <1>2, <1>6 DEF IInv, Places
<1>8. Promised'
  BY <1>2, <1>6, PromisedNext DEF IInv
<1> QED
  BY <1>4, <1>7, <1>8 DEF IInv

(* ... and it goes.                                                        *)
LEMMA EventDeletedStep ==
    ASSUME IInv, EventDeleted
    PROVE  IInv'
<1>1. PICK x \in http.del : store' = store \ {x} /\ http' = [http EXCEPT !.del = @ \ {x}]
  BY DEF EventDeleted
<1>2. /\ http.at = "deleting"
      /\ UNCHANGED <<server, conns, leaked, subs, buckets, work, asked, stray, due>>
  BY DEF EventDeleted, tables, history
<1>3. http \in Deleting
  BY <1>2, Holds DEF IInv
<1>4. /\ ConnsOK' /\ SubsOK' /\ Connected' /\ BucketsOK' /\ QueueOK' /\ HistoryOK'
      /\ Twins' /\ stray' = FALSE
  BY <1>2, Frame DEF IInv
<1>5. StoreOK'
  <2>1. IsFiniteSet(store) /\ Cardinality(store) \in Nat /\ store' \subseteq store
    BY <1>1, FS_CardinalityType DEF IInv, StoreOK
  <2>2. /\ IsFiniteSet(store') /\ Cardinality(store') \in Nat
        /\ Cardinality(store') <= Cardinality(store)
    BY <2>1, FS_Subset, FS_CardinalityType
  <2> QED
    BY <2>1, <2>2, RelayAssumption DEF IInv, StoreOK
<1>6. http' \in Deleting /\ http'.at = "deleting" /\ http'.fd = http.fd
  BY <1>1, <1>2, <1>3 DEF Deleting
<1>7. Places'
  BY <1>2, <1>6 DEF IInv, Places
<1>8. Promised'
  BY <1>2, <1>6, PromisedNext DEF IInv
<1> QED
  BY <1>4, <1>5, <1>7, <1>8 DEF IInv

(* The slots are looked up, whatever the freed memory spells.              *)
LEMMA EventMatchedStep ==
    ASSUME IInv, EventMatched
    PROVE  IInv'
<1>1. PICK author \in Authors :
        http' = [at |-> "send", fd |-> http.fd,
                 to |-> [i \in Matched(http.ev, author) |-> SendFor(i, http.ev)]]
  BY DEF EventMatched
<1>2. /\ http.at = "deleting"
      /\ UNCHANGED <<server, conns, leaked, subs, buckets, store, work, asked, stray, due>>
  BY DEF EventMatched, tables, history
<1>3. http \in Deleting /\ http.ev \in Events /\ http.fd \in Fds
  BY <1>2, Holds DEF IInv, Deleting
<1>4. /\ ConnsOK' /\ SubsOK' /\ Connected' /\ BucketsOK' /\ StoreOK' /\ QueueOK' /\ HistoryOK'
      /\ Twins' /\ stray' = FALSE
  BY <1>2, Frame DEF IInv
<1> DEFINE D == Matched(http.ev, author)
           plan == [i \in D |-> SendFor(i, http.ev)]
<1>5. D \subseteq DOMAIN subs /\ D \subseteq Slots
  BY DEF Matched, IInv, SubsOK
<1>6. \A i \in D : SendFor(i, http.ev) \in Sends /\ Held(SendFor(i, http.ev))
  BY <1>3, <1>5, SendForHeld
<1> HIDE DEF D
<1>7. plan \in Plans /\ DOMAIN plan = D /\ \A i \in D : Held(plan[i])
  <2>1. plan \in [D -> Sends]
    BY <1>6
  <2> QED
    BY <1>5, <1>6, <2>1, PlansType
<1>8. http' = [at |-> "send", fd |-> http.fd, to |-> plan]
  BY <1>1 DEF D
<1> HIDE DEF plan
<1>9. http' \in Sending /\ http'.at = "send" /\ http'.fd = http.fd /\ http'.to = plan
  BY <1>3, <1>7, <1>8 DEF Sending
<1>10. Places'
  BY <1>2, <1>9 DEF IInv, Places
<1>11. Promised'
  <2>1. \A i \in DOMAIN http'.to : HeldNext(http'.to[i])
    BY <1>2, <1>7, <1>9 DEF Held, HeldNext
  <2> QED
    BY <1>2, <2>1, PromisedNext DEF IInv
<1> QED
  BY <1>4, <1>10, <1>11 DEF IInv

(***************************************************************************)
(* Sending.                                                                *)
(***************************************************************************)

(* A send that is held reaches a connection that asked for it.             *)
LEMMA DeliverNext ==
    ASSUME IInv, NEW m, Held(m), Deliver(m)
    PROVE  stray' = FALSE /\ due' \subseteq Sends
<1>1. m.id \in Asked(m.fd)
  BY DEF Held, Asked
<1>2. stray' = FALSE
  BY <1>1, Zenon DEF IInv, Deliver
<1>3. due' \subseteq Sends
  BY DEF IInv, HistoryOK, Deliver
<1> QED
  BY <1>2, <1>3

(* The handler's sends, to its own connection or into the queue.           *)
LEMMA EventSentStep ==
    ASSUME IInv, EventSent
    PROVE  IInv'
<1>1. PICK i \in DOMAIN http.to :
        /\ IF http.to[i].fd = http.fd THEN Deliver(http.to[i]) /\ UNCHANGED work
                                      ELSE Queue(http.to[i]) /\ UNCHANGED stray
        /\ http' = [http EXCEPT !.to = [j \in DOMAIN http.to \ {i} |-> http.to[j]]]
  BY DEF EventSent
<1>2. /\ http.at = "send"
      /\ UNCHANGED <<server, conns, leaked, subs, buckets, store, asked>>
  BY DEF EventSent, tables
<1> DEFINE m == http.to[i]
<1>3. /\ http \in Sending /\ m \in Sends /\ Held(m)
      /\ http.to \in [DOMAIN http.to -> Sends] /\ DOMAIN http.to \subseteq Slots
  <2>1. http \in Sending
    BY <1>2, Holds DEF IInv
  <2>2. http.to \in [DOMAIN http.to -> Sends] /\ DOMAIN http.to \subseteq Slots
    BY <2>1, PlansType DEF Sending
  <2>3. m \in Sends /\ Held(m)
    BY <1>2, <2>2 DEF IInv, Promised
  <2> QED
    BY <2>1, <2>2, <2>3
<1>4. ConnsOK' /\ SubsOK' /\ Connected' /\ BucketsOK' /\ StoreOK' /\ Twins'
  BY <1>2, Frame DEF IInv
<1>5. /\ QueueOK' /\ due' \subseteq Sends /\ stray' = FALSE
      /\ \A k \in DOMAIN work' : (\E j \in DOMAIN work : work'[k] = work[j]) \/ work'[k] = m
  <2>1. CASE m.fd = http.fd
    <3>1. Deliver(m) /\ work' = work
      BY <1>1, <2>1
    <3> QED
      BY <1>3, <3>1, Frame, DeliverNext
  <2>2. CASE m.fd # http.fd
    <3>1. Queue(m) /\ stray' = stray
      BY <1>1, <2>2
    <3> QED
      BY <1>3, <3>1, QueueNext DEF IInv
  <2> QED
    BY <2>1, <2>2
<1>6. HistoryOK'
  BY <1>2, <1>5 DEF IInv, HistoryOK
<1> DEFINE rest == [j \in DOMAIN http.to \ {i} |-> http.to[j]]
<1>7. /\ rest \in Plans
      /\ \A j \in DOMAIN rest : j \in DOMAIN http.to /\ rest[j] = http.to[j]
  <2> DEFINE E == DOMAIN http.to \ {i}
  <2>1. rest \in [E -> Sends] /\ E \in SUBSET Slots
    BY <1>3
  <2> QED
    BY <2>1, PlansType
<1>8. http' = [http EXCEPT !.to = rest]
  BY <1>1
<1> HIDE DEF rest
<1>9. http' \in Sending /\ http'.at = "send" /\ http'.fd = http.fd /\ http'.to = rest
  BY <1>2, <1>3, <1>7, <1>8 DEF Sending
<1>10. Places'
  BY <1>2, <1>9 DEF IInv, Places
<1>11. Promised'
  <2>1. HeldNext(m)
    BY <1>2, <1>3 DEF Held, HeldNext
  <2>2. \A k \in DOMAIN work' : (\E j \in DOMAIN work : work'[k] = work[j]) \/ HeldNext(work'[k])
    BY <1>5, <2>1
  <2> QED
    BY <1>2, <1>7, <1>9, <2>2, PromisedNext DEF IInv
<1> QED
  BY <1>4, <1>5, <1>6, <1>10, <1>11 DEF IInv

(* The server's task takes a send from the queue.                          *)
LEMMA AsyncSendStep ==
    ASSUME IInv, AsyncSend
    PROVE  IInv'
<1>1. /\ http = Idle /\ work # <<>> /\ work' = Tail(work)
      /\ IF Head(work).fd \in conns THEN Deliver(Head(work)) ELSE UNCHANGED <<stray, due>>
      /\ UNCHANGED <<server, conns, leaked, subs, buckets, store, http, asked>>
  BY DEF AsyncSend, tables
<1>2. /\ work \in Seq(Sends) /\ Len(work) \in Nat /\ Len(work) <= MaxWork
      /\ DOMAIN work = 1..Len(work) /\ Len(work) > 0
  BY <1>1 DEF IInv, QueueOK
<1>3. /\ Tail(work) \in Seq(Sends) /\ Len(Tail(work)) = Len(work) - 1
      /\ Head(work) = work[1]
      /\ \A i \in 1..Len(Tail(work)) : Tail(work)[i] = work[i + 1]
  BY <1>1, <1>2, HeadTailProperties
<1>4. DOMAIN work' = 1..(Len(work) - 1)
  BY <1>1, <1>3, LenProperties
<1>5. /\ ConnsOK' /\ SubsOK' /\ Connected' /\ BucketsOK' /\ StoreOK' /\ Places' /\ Twins'
  BY <1>1, Frame
<1>6. QueueOK'
  BY <1>1, <1>2, <1>3, RelayAssumption DEF QueueOK
<1>7. stray' = FALSE /\ due' \subseteq Sends
  <2>1. CASE Head(work).fd \in conns
    <3>1. Held(Head(work))
      BY <1>2, <1>3 DEF IInv, Promised
    <3> QED
      BY <1>1, <2>1, <3>1, DeliverNext
  <2>2. CASE Head(work).fd \notin conns
    BY <1>1, <2>2 DEF IInv, HistoryOK
  <2> QED
    BY <2>1, <2>2
<1>8. HistoryOK'
  BY <1>1, <1>7 DEF IInv, HistoryOK
<1>9. Promised'
  <2>1. \A i \in DOMAIN work' : \E j \in DOMAIN work : work'[i] = work[j]
    <3> SUFFICES ASSUME NEW i \in DOMAIN work'
                 PROVE  \E j \in DOMAIN work : work'[i] = work[j]
      OBVIOUS
    <3>1. i + 1 \in DOMAIN work /\ work'[i] = work[i + 1]
      BY <1>1, <1>2, <1>3, <1>4
    <3> QED
      BY <3>1
  <2> QED
    BY <1>1, <2>1, PromisedNext DEF IInv
<1> QED
  BY <1>5, <1>6, <1>7, <1>8, <1>9 DEF IInv

(***************************************************************************)
(* local_relay_publish, and the server.                                    *)
(***************************************************************************)

(* The sync task stores what is no event.                                  *)
LEMMA PublishStep ==
    ASSUME IInv, Publish
    PROVE  IInv'
<1>1. /\ CanStore(Blank) /\ store' = store \cup {Blank}
      /\ UNCHANGED <<server, conns, leaked, subs, buckets, work, http, asked, stray, due>>
  BY DEF Publish, tables, history
<1>2. /\ ConnsOK' /\ SubsOK' /\ Connected' /\ BucketsOK' /\ QueueOK' /\ HistoryOK' /\ Places'
      /\ Twins' /\ stray' = FALSE
  BY <1>1, Frame DEF IInv
<1>3. StoreOK'
  BY <1>1, StoreNext
<1>4. Promised'
  BY <1>1, PromisedNext DEF IInv
<1> QED
  BY <1>2, <1>3, <1>4 DEF IInv

(* The server is started, and told to stop.                                *)
LEMMA ServerStep ==
    ASSUME IInv, Start \/ StopBegins
    PROVE  IInv'
<1>1. /\ UNCHANGED <<conns, leaked, subs, buckets, store, work, http, asked, stray, due>>
      /\ (server = "off" /\ server' = "on") \/ (server = "on" /\ server' = "stopping")
  BY DEF Start, StopBegins, tables, history
<1>2. /\ ConnsOK' /\ SubsOK' /\ BucketsOK' /\ StoreOK' /\ QueueOK' /\ HistoryOK' /\ Twins'
      /\ stray' = FALSE
  BY <1>1, Frame DEF IInv
<1>3. Connected'
  BY <1>1 DEF IInv, Connected
<1>4. Places'
  BY <1>1 DEF IInv, Places
<1>5. Promised'
  BY <1>1, PromisedNext DEF IInv
<1> QED
  BY <1>2, <1>3, <1>4, <1>5 DEF IInv

(* httpd_stop: every connection is leaked, the subscriptions stay.         *)
LEMMA StopEndsStep ==
    ASSUME IInv, StopEnds
    PROVE  IInv'
<1>1. /\ http = Idle /\ server' = "stopped"
      /\ leaked' = leaked \cup conns /\ conns' = {} /\ work' = <<>> /\ due' = {}
      /\ UNCHANGED <<subs, buckets, store, http, asked, stray>>
  BY DEF StopEnds
<1>2. SubsOK' /\ BucketsOK' /\ StoreOK' /\ Twins' /\ stray' = FALSE
  BY <1>1, Frame DEF IInv
<1>3. ConnsOK'
  BY <1>1, FS_EmptySet, RelayAssumption DEF IInv, ConnsOK
<1>4. Connected' /\ HistoryOK'
  BY <1>1 DEF IInv, Connected, HistoryOK
<1>5. QueueOK' /\ DOMAIN work' = {}
  BY <1>1, RelayAssumption DEF QueueOK
<1>6. Places'
  BY <1>1 DEF IInv, Places, Idle
<1>7. Promised'
  BY <1>1, <1>5, PromisedNext DEF IInv
<1> QED
  BY <1>2, <1>3, <1>4, <1>5, <1>6, <1>7 DEF IInv

(* A server that is off.                                                   *)
LEMMA InitIInv ==
    ASSUME Init
    PROVE  IInv
<1>1. ConnsOK /\ StoreOK
  BY FS_EmptySet, RelayAssumption DEF Init, ConnsOK, StoreOK
<1>2. BucketsOK
  <2>1. DOMAIN buckets = {} /\ buckets \in [{} -> Counts]
    BY DEF Init
  <2> QED
    BY <2>1, FS_EmptySet, RelayAssumption DEF BucketsOK
<1>3. Connected /\ HistoryOK /\ Twins
  BY DEF Init, Connected, HistoryOK, Twins
<1>4. QueueOK /\ DOMAIN work = {}
  BY RelayAssumption DEF Init, QueueOK
<1>5. Places
  BY DEF Init, Places, Idle
<1>6. SubsOK
  <2>1. DOMAIN subs = {} /\ subs \in [{} -> Subscriptions]
    BY DEF Init
  <2>2. \A fd \in Fds : Of(fd) = {}
    BY <2>1 DEF Of
  <2>3. Cardinality({}) <= MaxPerConn
    BY FS_EmptySet, RelayAssumption
  <2>4. \A fd \in Fds : Cardinality(Of(fd)) <= MaxPerConn
    BY <2>2, <2>3
  <2> QED
    BY <2>1, <2>4 DEF SubsOK
<1>7. Promised
  BY <1>4 DEF Init, Promised, Idle
<1>8. stray = FALSE
  BY DEF Init
<1> QED
  BY <1>1, <1>2, <1>3, <1>4, <1>5, <1>6, <1>7, <1>8 DEF IInv

(* Every step keeps the invariant.                                         *)
LEMMA NextIInv ==
    ASSUME IInv, [Next]_vars
    PROVE  IInv'
<1>1. CASE Start \/ StopBegins \/ StopEnds
  BY <1>1, ServerStep, StopEndsStep
<1>2. CASE HttpSteps
  BY <1>2, EventSavedStep, EventEndsStep, EventDeletesStep, EventDeletedStep, EventMatchedStep,
     EventSentStep, ReqAddedStep DEF HttpSteps
<1>3. CASE AsyncSend \/ Publish
  BY <1>3, AsyncSendStep, PublishStep
<1>4. CASE \E fd \in Fds : OnOpen(fd) \/ OnClose(fd)
  BY <1>4, OnOpenStep, OnCloseStep
<1>5. CASE \E fd \in Fds : WindowOver(fd) \/ ReqRefused(fd) \/ EventRefused(fd)
  BY <1>5, RefusedStep
<1>6. CASE \E fd \in Fds : \E e \in Events : EventArrives(fd, e)
  BY <1>6, EventArrivesStep
<1>7. CASE \E fd \in Fds : \E id \in SubIds :
             HandleClose(fd, id) \/ \E f \in Filters : ReqAnswered(fd, id, f)
  BY <1>7, HandleCloseStep, ReqAnsweredStep
<1>8. CASE UNCHANGED vars
  <2>1. UNCHANGED <<server, conns, leaked, subs, buckets, store, work, http, asked, stray, due>>
    BY <1>8 DEF vars
  <2>2. Promised'
    BY <2>1, PromisedNext DEF IInv
  <2> QED
    BY <2>1, <2>2, Frame DEF IInv
<1> QED
  BY <1>1, <1>2, <1>3, <1>4, <1>5, <1>6, <1>7, <1>8 DEF Next

(***************************************************************************)
(* The results.                                                            *)
(***************************************************************************)

(* The inductive invariant holds in every reachable state.                 *)
THEOREM RelayInvariant == Spec => []IInv
<1>1. Init => IInv
  BY InitIInv
<1>2. IInv /\ [Next]_vars => IInv'
  BY NextIInv
<1> QED
  BY <1>1, <1>2, PTL DEF Spec

(* While the server runs, nobody is subscribed who is not connected, no    *)
(* connection has two subscriptions of one id unless it asked for one that *)
(* is kept cut, and the connection table, the subscriptions, the buckets,  *)
(* the store and the queue keep to their limits (ws_server.c,              *)
(* sub_manager.c, rate_limiter.c).                                         *)
THEOREM RelaySubsAreConnected == Spec => []SubsAreConnected
<1>1. IInv => SubsAreConnected
  <2> SUFFICES ASSUME IInv
               PROVE  SubsAreConnected
    OBVIOUS
  <2>1. \A f \in DOMAIN buckets : buckets[f].events <= EventLimit /\ buckets[f].reqs <= ReqLimit
    BY RelayAssumption DEF IInv, BucketsOK, Counts
  <2>2. TypeOK
    BY <2>1 DEF IInv, ConnsOK, SubsOK, Connected, BucketsOK, StoreOK, QueueOK, HistoryOK, TypeOK
  <2> QED
    BY <2>2 DEF IInv, Connected, Twins, SubsAreConnected
<1> QED
  BY <1>1, RelayInvariant, PTL

(* No send, at once or from the queue, reaches a connection that did not   *)
(* ask for its id or for one that begins with it: on_close leaks the       *)
(* socket, so that none follows it (sub_manager.c, ws_server.c).           *)
THEOREM RelayNothingStray == Spec => []NothingStray
<1>1. IInv => NothingStray
  BY Zenon DEF IInv, NothingStray
<1> QED
  BY <1>1, RelayInvariant, PTL

(***************************************************************************)
(* Nobody is forgotten.                                                    *)
(***************************************************************************)
Queued(m) == \E i \in DOMAIN work : work[i] = m

Planned(m) == http.at = "send" /\ \E i \in DOMAIN http.to : http.to[i] = m

Foreseen(m) == http.at \in {"delete", "deleting"} /\ m \in Expecting(http.ev)

(* What is due is queued, planned, or will be planned, and its connection  *)
(* is there.                                                               *)
Awaited ==
    \A m \in due : m.fd \in conns /\ (Queued(m) \/ Planned(m) \/ Foreseen(m))

(* What is due was due before, and queued then and now: such a step keeps  *)
(* everything awaited.                                                     *)
LEMMA AwaitedQueued ==
    ASSUME Awaited, due' \subseteq due, UNCHANGED work,
           http.at \notin {"delete", "deleting", "send"},
           \A m \in due' : m.fd \in conns'
    PROVE  Awaited'
<1> SUFFICES ASSUME NEW m \in due'
             PROVE  Queued(m)'
  BY DEF Awaited
<1>1. Queued(m)
  BY DEF Awaited, Planned, Foreseen
<1> QED
  BY <1>1 DEF Queued

(* So does one that leaves all of it alone.                                *)
LEMMA AwaitedFrame ==
    ASSUME Awaited, UNCHANGED <<due, work, http, conns, subs>>
    PROVE  Awaited'
<1>1. \A m : Queued(m)' <=> Queued(m)
  BY DEF Queued
<1>2. \A m : Planned(m)' <=> Planned(m)
  BY DEF Planned
<1>3. Expecting(http.ev)' = Expecting(http.ev)
  BY DEF Expecting, SendFor
<1>4. \A m : Foreseen(m)' <=> Foreseen(m)
  BY <1>3 DEF Foreseen
<1> QED
  BY <1>1, <1>2, <1>4 DEF Awaited

(* Between two messages connections and subscriptions come and go.         *)
LEMMA IdleAwaited ==
    ASSUME IInv, Awaited,
           NEW fd \in Fds,
           \/ OnOpen(fd) \/ OnClose(fd)
           \/ \E e \in Events : EventArrives(fd, e)
           \/ \E id \in SubIds : HandleClose(fd, id) \/ \E f \in Filters : ReqAnswered(fd, id, f)
    PROVE  Awaited'
<1>1. http.at = "idle" /\ work' = work
  <2>1. http = Idle /\ work' = work
    <3>1. CASE OnOpen(fd) \/ OnClose(fd)
      BY <3>1 DEF OnOpen, OnClose
    <3>2. CASE \E e \in Events : EventArrives(fd, e)
      BY <3>2 DEF EventArrives
    <3>3. CASE \E id \in SubIds : HandleClose(fd, id) \/ \E f \in Filters : ReqAnswered(fd, id, f)
      BY <3>3 DEF HandleClose, ReqAnswered
    <3> QED
      BY <3>1, <3>2, <3>3
  <2> QED
    BY <2>1 DEF Idle
<1>2. CASE OnClose(fd)
  <2>1. due' = {d \in due : d.fd # fd} /\ conns' = conns \ {fd}
    BY <1>2 DEF OnClose
  <2>2. due' \subseteq due /\ \A m \in due' : m.fd \in conns'
    BY <2>1 DEF Awaited
  <2> QED
    BY <1>1, <2>2, AwaitedQueued
<1>3. CASE due' = due /\ conns \subseteq conns'
  <2>1. \A m \in due' : m.fd \in conns'
    BY <1>3 DEF Awaited
  <2> QED
    BY <1>1, <1>3, <2>1, AwaitedQueued
<1> QED
  BY <1>2, <1>3 DEF OnOpen, EventArrives, HandleClose, ReqAnswered, history

(* The handler's steps up to the fan-out.                                  *)
LEMMA HandlerAwaited ==
    ASSUME IInv, Awaited,
           EventSaved \/ EventNotSaved \/ EventDeletes \/ EventDeleted \/ EventDone \/ ReqAdded
    PROVE  Awaited'
<1>1. CASE EventSaved
  <2>1. /\ http.at = "save" /\ due' = due \cup Expecting(http.ev)
        /\ UNCHANGED <<work, conns, subs>>
    BY <1>1 DEF EventSaved, tables
  <2>2. http'.at = "delete" /\ http'.ev = http.ev
    <3>1. http \in Saving
      BY <2>1, Holds DEF IInv
    <3>2. http' = [http EXCEPT !.at = "delete"]
      BY <1>1 DEF EventSaved
    <3> QED
      BY <3>1, <3>2 DEF Saving
  <2>3. Expecting(http.ev)' = Expecting(http.ev)
    BY <2>1, <2>2 DEF Expecting, SendFor
  <2>4. \A m \in Expecting(http.ev) : m.fd \in conns
    <3>1. server \in {"on", "stopping"}
      BY <2>1 DEF IInv, Places
    <3> QED
      BY <3>1 DEF IInv, Connected, Expecting, SendFor
  <2> SUFFICES ASSUME NEW m \in due'
               PROVE  m.fd \in conns' /\ (Queued(m)' \/ Foreseen(m)')
    BY DEF Awaited
  <2>5. CASE m \in Expecting(http.ev)
    BY <2>1, <2>2, <2>3, <2>4, <2>5 DEF Foreseen
  <2>6. CASE m \in due
    <3>1. m.fd \in conns /\ Queued(m)
      BY <2>1, <2>6 DEF Awaited, Planned, Foreseen
    <3> QED
      BY <2>1, <3>1 DEF Queued
  <2> QED
    BY <2>1, <2>5, <2>6
<1>2. CASE EventNotSaved \/ ReqAdded
  <2>1. http.at \in {"save", "add"} /\ UNCHANGED <<due, work, conns>>
    BY <1>2 DEF EventNotSaved, ReqAdded, tables, history
  <2>2. \A m \in due' : m.fd \in conns'
    BY <2>1 DEF Awaited
  <2> QED
    BY <2>1, <2>2, AwaitedQueued
<1>3. CASE EventDeletes \/ EventDeleted
  <2>1. /\ http.at \in {"delete", "deleting"} /\ UNCHANGED <<due, work, conns, subs>>
    BY <1>3 DEF EventDeletes, EventDeleted, tables, history
  <2>2. http'.at = "deleting" /\ http'.ev = http.ev
    <3>1. CASE EventDeletes
      BY <3>1 DEF EventDeletes
    <3>2. CASE EventDeleted
      <4>1. http \in Deleting
        BY <3>2, Holds DEF IInv, EventDeleted
      <4>2. \E x : http' = [http EXCEPT !.del = @ \ {x}]
        BY <3>2 DEF EventDeleted
      <4> QED
        BY <4>1, <4>2 DEF Deleting
    <3> QED
      BY <1>3, <3>1, <3>2
  <2>3. Expecting(http.ev)' = Expecting(http.ev)
    BY <2>1, <2>2 DEF Expecting, SendFor
  <2>4. \A m \in due : m.fd \in conns /\ (Queued(m) \/ Foreseen(m))
    BY <2>1 DEF Awaited, Planned
  <2> QED
    BY <2>1, <2>2, <2>3, <2>4 DEF Awaited, Queued, Foreseen
<1>4. CASE EventDone
  <2>1. /\ http.at = "send" /\ DOMAIN http.to = {} /\ UNCHANGED <<due, work, conns>>
    BY <1>4 DEF EventDone, tables, history
  <2>2. \A m \in due : m.fd \in conns /\ Queued(m)
    BY <2>1 DEF Awaited, Planned, Foreseen
  <2> QED
    BY <2>1, <2>2 DEF Awaited, Queued
<1> QED
  BY <1>1, <1>2, <1>3, <1>4

(* The snapshot has every slot the event is due for, whatever is read for  *)
(* its author.                                                             *)
LEMMA MatchedAwaited ==
    ASSUME IInv, Awaited, EventMatched
    PROVE  Awaited'
<1>1. http.at = "deleting" /\ UNCHANGED <<due, work, conns, subs>>
  BY DEF EventMatched, tables, history
<1>2. PICK author \in Authors :
        http' = [at |-> "send", fd |-> http.fd,
                 to |-> [i \in Matched(http.ev, author) |-> SendFor(i, http.ev)]]
  BY DEF EventMatched
<1> SUFFICES ASSUME NEW m \in due
             PROVE  m.fd \in conns /\ (Queued(m)' \/ Planned(m)')
  BY <1>1 DEF Awaited
<1>3. m.fd \in conns /\ (Queued(m) \/ Foreseen(m))
  BY <1>1 DEF Awaited, Planned
<1>4. CASE Queued(m)
  BY <1>1, <1>3, <1>4 DEF Queued
<1>5. CASE Foreseen(m)
  <2>1. PICK i \in DOMAIN subs :
          /\ m = SendFor(i, http.ev)
          /\ \E f \in subs[i].filters : f.authors = {} /\ Matches(f, http.ev, Short)
    BY <1>5 DEF Foreseen, Expecting
  <2>2. i \in Matched(http.ev, author)
    BY <2>1 DEF Matched, Matches
  <2>3. i \in DOMAIN http'.to /\ http'.to[i] = m /\ http'.at = "send"
    BY <1>2, <2>1, <2>2
  <2> QED
    BY <1>3, <2>3 DEF Planned
<1> QED
  BY <1>3, <1>4, <1>5

(* A planned send is done or queued, and no other is dropped for it.       *)
LEMMA SentAwaited ==
    ASSUME IInv, Awaited, EventSent
    PROVE  Awaited'
<1>1. PICK i \in DOMAIN http.to :
        /\ IF http.to[i].fd = http.fd THEN Deliver(http.to[i]) /\ UNCHANGED work
                                      ELSE Queue(http.to[i]) /\ UNCHANGED stray
        /\ http' = [http EXCEPT !.to = [j \in DOMAIN http.to \ {i} |-> http.to[j]]]
  BY DEF EventSent
<1>2. http.at = "send" /\ UNCHANGED conns
  BY DEF EventSent, tables
<1> DEFINE m == http.to[i]
<1>3. http \in Sending /\ m \in Sends
  <2>1. http \in Sending
    BY <1>2, Holds DEF IInv
  <2> QED
    BY <2>1, PlansType DEF Sending
<1>4. http'.at = "send" /\ http'.to = [j \in DOMAIN http.to \ {i} |-> http.to[j]]
  BY <1>1, <1>2, <1>3 DEF Sending
<1>5. /\ \A d \in due' : d \in due /\ (d = m => \E k \in DOMAIN work' : work'[k] = d)
      /\ \A k \in DOMAIN work : k \in DOMAIN work' /\ work'[k] = work[k]
  <2>1. CASE due' = due \ {m} /\ work' = work
    BY <2>1
  <2>2. CASE due' = due /\ work' = Append(work, m)
    <3>1. work \in Seq(Sends) /\ Len(work) \in Nat /\ DOMAIN work = 1..Len(work)
      BY DEF IInv, QueueOK
    <3>2. /\ Append(work, m) \in Seq(Sends) /\ Len(Append(work, m)) = Len(work) + 1
          /\ \A k \in 1..Len(work) : Append(work, m)[k] = work[k]
          /\ Append(work, m)[Len(work) + 1] = m
      BY <1>3, <3>1, AppendProperties
    <3>3. DOMAIN work' = 1..(Len(work) + 1)
      BY <2>2, <3>2, LenProperties
    <3>4. Len(work) + 1 \in DOMAIN work' /\ work'[Len(work) + 1] = m
      BY <2>2, <3>1, <3>2, <3>3
    <3>5. \A k \in DOMAIN work : k \in DOMAIN work' /\ work'[k] = work[k]
      BY <2>2, <3>1, <3>2, <3>3
    <3> HIDE DEF m
    <3> QED
      BY <2>2, <3>4, <3>5
  <2> QED
    BY <1>1, <2>1, <2>2 DEF Deliver, Queue
<1> SUFFICES ASSUME NEW d \in due'
             PROVE  d.fd \in conns /\ (Queued(d)' \/ Planned(d)')
  BY <1>2 DEF Awaited
<1>6. d.fd \in conns /\ (Queued(d) \/ Planned(d))
  BY <1>2, <1>5 DEF Awaited, Foreseen
<1>7. CASE Queued(d) \/ d = m
  <2>1. \E k \in DOMAIN work' : work'[k] = d
    BY <1>5, <1>7 DEF Queued
  <2> QED
    BY <1>6, <2>1 DEF Queued
<1>8. CASE Planned(d) /\ d # m
  <2>1. PICK j \in DOMAIN http.to : http.to[j] = d
    BY <1>8 DEF Planned
  <2>2. j \in DOMAIN http'.to /\ http'.to[j] = d
    BY <1>4, <1>8, <2>1
  <2> QED
    BY <1>4, <1>6, <2>2 DEF Planned
<1> QED
  BY <1>6, <1>7, <1>8

(* A send from the queue goes out; what is due is to a connection that is  *)
(* there.                                                                  *)
LEMMA AsyncAwaited ==
    ASSUME IInv, Awaited, AsyncSend
    PROVE  Awaited'
<1>1. /\ http = Idle /\ work # <<>> /\ work' = Tail(work) /\ UNCHANGED conns
      /\ IF Head(work).fd \in conns THEN Deliver(Head(work)) ELSE UNCHANGED <<stray, due>>
  BY DEF AsyncSend, tables
<1>2. /\ work \in Seq(Sends) /\ Len(work) \in Nat /\ DOMAIN work = 1..Len(work) /\ Len(work) > 0
  BY <1>1 DEF IInv, QueueOK
<1>3. /\ Tail(work) \in Seq(Sends) /\ Len(Tail(work)) = Len(work) - 1
      /\ Head(work) = work[1]
      /\ \A i \in 1..Len(Tail(work)) : Tail(work)[i] = work[i + 1]
  BY <1>1, <1>2, HeadTailProperties
<1>4. DOMAIN work' = 1..(Len(work) - 1)
  BY <1>1, <1>3, LenProperties
<1>5. \A d \in due : d.fd \in conns /\ Queued(d)
  BY <1>1 DEF Awaited, Planned, Foreseen, Idle
<1>6. \A d \in due' : d \in due /\ d # Head(work)
  BY <1>1, <1>5 DEF Deliver
<1> SUFFICES ASSUME NEW d \in due'
             PROVE  d.fd \in conns /\ Queued(d)'
  BY <1>1 DEF Awaited
<1>7. PICK i \in DOMAIN work : work[i] = d
  BY <1>5, <1>6 DEF Queued
<1>8. i # 1
  BY <1>3, <1>6, <1>7
<1>9. i - 1 \in DOMAIN work' /\ work'[i - 1] = d
  BY <1>1, <1>2, <1>3, <1>4, <1>7, <1>8
<1> QED
  BY <1>5, <1>6, <1>9 DEF Queued

(* Every step keeps everything awaited.                                    *)
LEMMA NextAwaited ==
    ASSUME IInv, Awaited, [Next]_vars
    PROVE  Awaited'
<1>1. CASE StopEnds
  BY <1>1 DEF StopEnds, Awaited
<1>2. CASE Start \/ StopBegins \/ Publish \/ UNCHANGED vars
  <2>1. UNCHANGED <<due, work, http, conns, subs>>
    BY <1>2 DEF Start, StopBegins, Publish, vars, tables, history
  <2> QED
    BY <2>1, AwaitedFrame
<1>3. CASE HttpSteps \/ AsyncSend
  BY <1>3, HandlerAwaited, MatchedAwaited, SentAwaited, AsyncAwaited DEF HttpSteps
<1>4. CASE \E fd \in Fds : WindowOver(fd) \/ EventRefused(fd) \/ ReqRefused(fd)
  <2>1. UNCHANGED <<due, work, http, conns, subs>>
    BY <1>4 DEF WindowOver, EventRefused, ReqRefused, history
  <2> QED
    BY <2>1, AwaitedFrame
<1>5. CASE \E fd \in Fds : \/ OnOpen(fd) \/ OnClose(fd)
                           \/ \E e \in Events : EventArrives(fd, e)
                           \/ \E id \in SubIds : \/ HandleClose(fd, id)
                                                 \/ \E f \in Filters : ReqAnswered(fd, id, f)
  BY <1>5, IdleAwaited
<1> QED
  BY <1>1, <1>2, <1>3, <1>4, <1>5 DEF Next

(* Between two messages every send that is due is queued (broadcaster.c,   *)
(* ws_server.c): none is passed over, replaced or dropped for another.     *)
THEOREM RelayNothingForgotten == Spec => []NothingForgotten
<1>1. Init => Awaited
  BY DEF Init, Awaited
<1>2. IInv /\ Awaited /\ [Next]_vars => Awaited'
  BY NextAwaited
<1>3. Awaited => NothingForgotten
  BY DEF Awaited, NothingForgotten, Queued, Planned, Foreseen, Idle
<1> QED
  BY <1>1, <1>2, <1>3, RelayInvariant, PTL DEF Spec
=============================================================================
