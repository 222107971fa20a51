--------------------------- MODULE ControlProofs ---------------------------
(***************************************************************************)
(* Proofs about the remote control, the configuration file, the mints'     *)
(* health and the mining proxy, for any requests, listeners, networks,     *)
(* mints and miners.                                                       *)
(*                                                                         *)
(* IInv, of the configuration: a torn file is being written or was cut     *)
(* (Whole), every configuration has its key (Keyed), and the file has the  *)
(* networks in use from the moment it is opened (Networks).                *)
(***************************************************************************)
EXTENDS Control, MintHealth, Stratum, FiniteSetTheorems, SequenceTheorems, TLAPS

Keyed == file.nsec = TRUE /\ cfg.nsec = TRUE

Whole == disk = "torn" => writing \/ cut

Networks == booted /\ ~unsaved => file.nets = cfg.nets

ConfigOK ==
    /\ disk \in {"missing", "torn", "whole"} /\ file \in Files /\ cfg \in Files
    /\ writing \in BOOLEAN /\ booted \in BOOLEAN /\ cut \in BOOLEAN /\ unsaved \in BOOLEAN

CvmOK ==
    /\ running \in BOOLEAN
    /\ listener \in [Listeners -> {"none", "connecting", "up", "hung"}]
    /\ wire \in [Listeners -> SUBSET Requests] /\ stored \subseteq Requests
    /\ starved \in BOOLEAN

(* The two halves share no variable.                                       *)
ConfigInv == ConfigOK /\ Keyed /\ Whole /\ Networks
IInv == ConfigInv /\ CvmOK

(* Of the mints' health: consecutive_successes is the streak.              *)
HealthInv ==
    /\ reachable \in [Mints -> BOOLEAN]
    /\ streak \in [Mints -> Nat]
    /\ successes = streak
    /\ ReachableEarned

(***************************************************************************)
(* Configurations.                                                         *)
(***************************************************************************)

(* The limit is a positive number.                                         *)
LEMMA Limits == MaxNets \in Nat /\ MaxNets > 0
BY ControlAssumption

(* The factory's file, and an operator's.                                  *)
LEMMA FactoryFiles ==
    /\ Factory \in Files /\ Factory.nsec = TRUE
    /\ Operators \in Files /\ Operators.nsec = TRUE
<1>1. 1 \in 0..MaxNets /\ 1 \in Nat
  BY Limits
<1>2. Factory \in Files /\ Factory.nsec = TRUE
  BY <1>1 DEF Factory, Files
<1> QED
  BY <1>2 DEF Operators, Files

(* What is loaded, and what is saved, has the key and the networks.        *)
LEMMA LoadedSaved ==
    ASSUME NEW f \in Files
    PROVE  /\ Loaded(f) \in Files /\ Loaded(f).nsec = f.nsec /\ Loaded(f).nets = f.nets
           /\ Saved(f) \in Files /\ Saved(f).nsec = f.nsec /\ Saved(f).nets = f.nets
<1>1. Loaded(f) \in Files /\ Loaded(f).nsec = f.nsec /\ Loaded(f).nets = f.nets
  BY DEF Loaded, Files
<1>2. Saved(f) \in Files /\ Saved(f).nsec = f.nsec /\ Saved(f).nets = f.nets
  BY DEF Saved, Files
<1> QED
  BY <1>1, <1>2

(* No tool changes the key or the networks.                                *)
LEMMA DispatchType ==
    ASSUME cfg \in Files, NEW r \in Requests
    PROVE  Dispatch(r) \in Files /\ Dispatch(r).nsec = cfg.nsec /\ Dispatch(r).nets = cfg.nets
<1> DEFINE Fits(c) == c \in Files /\ c.nsec = cfg.nsec /\ c.nets = cfg.nets
<1>1. r.price \in Nat /\ r.metric \in {"milliseconds"} \cup {q.metric : q \in Requests}
  BY ControlAssumption
<1>2. Fits(SetConfig(r))
  BY <1>1 DEF SetConfig, Files
<1>3. Fits(SetPrice(r))
  <2>1. Fits([cfg EXCEPT !.price = r.price])
    BY <1>1 DEF Files
  <2> QED
    BY <2>1 DEF SetPrice
<1>4. Fits(SetMetric(r))
  <2>1. Fits([cfg EXCEPT !.metric = r.metric])
    BY <1>1 DEF Files
  <2> QED
    BY <2>1 DEF SetMetric
<1>5. Fits(SetPayout)
  BY DEF SetPayout, Files
<1>6. Fits(cfg)
  OBVIOUS
<1> HIDE DEF Fits
<1>7. Fits(Dispatch(r))
  BY <1>2, <1>3, <1>4, <1>5, <1>6 DEF Dispatch
<1> QED
  BY <1>7 DEF Fits

(* Nothing of the configuration changes.                                   *)
LEMMA ConfigFrame ==
    ASSUME ConfigInv, UNCHANGED config
    PROVE  ConfigInv'
BY DEF config, ConfigInv, ConfigOK, Keyed, Whole, Networks

(* A boot from a whole file.                                               *)
LEMMA BootStep ==
    ASSUME ConfigInv, Boot
    PROVE  ConfigInv'
<1>1. /\ cfg' = Loaded(file) /\ booted' = TRUE
      /\ UNCHANGED <<disk, file, writing, cut, unsaved>>
  BY DEF Boot
<1>2. cfg' \in Files /\ cfg'.nsec = file.nsec /\ cfg'.nets = file.nets
  BY <1>1, LoadedSaved DEF ConfigInv, ConfigOK
<1>3. booted' \in BOOLEAN
  BY <1>1
<1> QED
  BY <1>1, <1>2, <1>3 DEF ConfigInv, ConfigOK, Keyed, Whole, Networks

(* A boot that writes the factory's file.                                  *)
LEMMA BootGeneratesStep ==
    ASSUME ConfigInv, BootGenerates
    PROVE  ConfigInv'
<1>1. /\ ~booted /\ disk' = "torn" /\ file' = Factory /\ writing' = TRUE
      /\ UNCHANGED <<cfg, booted, cut, unsaved>>
  BY DEF BootGenerates
<1>2. writing' \in BOOLEAN
  BY <1>1
<1> QED
  BY <1>1, <1>2, FactoryFiles DEF ConfigInv, ConfigOK, Keyed, Whole, Networks

(* A network is added, and saved or not.                                   *)
LEMMA AddWifiStep ==
    ASSUME ConfigInv, AddWifi \/ AddWifiUnsaved
    PROVE  ConfigInv'
<1>1. cfg.nets < MaxNets /\ cfg' = AddedNetwork /\ UNCHANGED <<booted, cut>>
  BY DEF AddWifi, AddWifiUnsaved
<1>2. AddedNetwork \in Files /\ AddedNetwork.nsec = cfg.nsec
  <2>1. cfg.nets + 1 \in 0..MaxNets
    BY <1>1, Limits DEF ConfigInv, ConfigOK, Files
  <2> QED
    BY <2>1 DEF AddedNetwork, ConfigInv, ConfigOK, Files
<1>3. CASE AddWifi
  <2>1. disk' = "torn" /\ file' = Saved(AddedNetwork) /\ writing' = TRUE /\ unsaved' = unsaved
    BY <1>3 DEF AddWifi
  <2>2. file' \in Files /\ file'.nsec = cfg'.nsec /\ file'.nets = cfg'.nets
    BY <1>1, <1>2, <2>1, LoadedSaved
  <2>3. writing' \in BOOLEAN
    BY <2>1
  <2> QED
    BY <1>1, <1>2, <2>1, <2>2, <2>3 DEF ConfigInv, ConfigOK, Keyed, Whole, Networks
<1>4. CASE AddWifiUnsaved
  <2>1. unsaved' = TRUE /\ UNCHANGED <<disk, file, writing>>
    BY <1>4 DEF AddWifiUnsaved
  <2>2. unsaved' \in BOOLEAN
    BY <2>1
  <2> QED
    BY <1>1, <1>2, <2>1, <2>2 DEF ConfigInv, ConfigOK, Keyed, Whole, Networks
<1> QED
  BY <1>3, <1>4

(* The file is whole, or was cut.                                          *)
LEMMA WriteEndsStep ==
    ASSUME ConfigInv, WriteEnds \/ WriteFails
    PROVE  ConfigInv'
<1>1. writing' = FALSE /\ UNCHANGED <<file, cfg, booted, unsaved>>
  BY DEF WriteEnds, WriteFails
<1>2. writing' \in BOOLEAN
  BY <1>1
<1>3. CASE WriteEnds
  <2>1. disk' = "whole" /\ cut' = cut
    BY <1>3 DEF WriteEnds
  <2> QED
    BY <1>1, <1>2, <2>1 DEF ConfigInv, ConfigOK, Keyed, Whole, Networks
<1>4. CASE WriteFails
  <2>1. disk' = disk /\ cut' = TRUE
    BY <1>4 DEF WriteFails
  <2>2. cut' \in BOOLEAN
    BY <2>1
  <2> QED
    BY <1>1, <1>2, <2>1, <2>2 DEF ConfigInv, ConfigOK, Keyed, Whole, Networks
<1> QED
  BY <1>3, <1>4

(* Power is lost: a file that is being written is cut.                     *)
LEMMA PowerLossConfig ==
    ASSUME ConfigInv, PowerLoss
    PROVE  ConfigInv'
<1>1. /\ booted' = FALSE /\ cfg' = Loaded(Factory) /\ cut' = (cut \/ writing) /\ writing' = FALSE
      /\ UNCHANGED <<disk, file, unsaved>>
  BY DEF PowerLoss
<1>2. booted' \in BOOLEAN /\ cut' \in BOOLEAN /\ writing' \in BOOLEAN
  BY <1>1, Zenon DEF ConfigInv, ConfigOK
<1>3. cfg' \in Files /\ cfg'.nsec = TRUE
  BY <1>1, FactoryFiles, LoadedSaved
<1>4. Whole'
  BY <1>1, Zenon DEF ConfigInv, Whole
<1> QED
  BY <1>1, <1>2, <1>3, <1>4 DEF ConfigInv, ConfigOK, Keyed, Networks

(* A tool changes the configuration in memory only.                        *)
LEMMA HandleConfig ==
    ASSUME ConfigInv, NEW l \in Listeners, NEW r \in Requests, Handle(l, r)
    PROVE  ConfigInv'
<1>1. UNCHANGED <<disk, file, writing, booted, cut, unsaved>>
  BY DEF Handle
<1>2. cfg' = Dispatch(r) \/ cfg' = cfg
  BY DEF Handle
<1>3. cfg' \in Files /\ cfg'.nsec = cfg.nsec /\ cfg'.nets = cfg.nets
  BY <1>2, DispatchType DEF ConfigInv, ConfigOK
<1> QED
  BY <1>1, <1>3 DEF ConfigInv, ConfigOK, Keyed, Whole, Networks

(***************************************************************************)
(* The server.                                                             *)
(***************************************************************************)

(* Whatever its tasks, the relay and the publishers do, its state keeps    *)
(* its type.                                                               *)
LEMMA CvmStep ==
    ASSUME CvmOK,
           \/ UNCHANGED cvm \/ PowerLoss \/ CvmStop
           \/ \E l \in Listeners :
                \/ CvmStart(l) \/ Subscribe(l) \/ NoMemory(l) \/ Quit(l) \/ Closed(l) \/ Breaks(l)
                \/ \E r \in Requests : Handle(l, r) \/ FrameLost(l, r)
           \/ \E r \in Requests : Publish(r)
    PROVE  CvmOK'
<1>1. CASE UNCHANGED cvm
  BY <1>1 DEF cvm, CvmOK
<1>2. CASE PowerLoss \/ CvmStop
  <2>1. running' = FALSE /\ starved' \in {FALSE, starved}
    BY <1>2 DEF PowerLoss, CvmStop
  <2>2. running' \in BOOLEAN /\ starved' \in BOOLEAN
    BY <2>1 DEF CvmOK
  <2> QED
    BY <1>2, <2>2 DEF PowerLoss, CvmStop, CvmOK
<1>3. ASSUME NEW l \in Listeners, CvmStart(l) \/ NoMemory(l) PROVE CvmOK'
  <2>1. running' \in {TRUE, running} /\ starved' \in {TRUE, FALSE}
    BY <1>3 DEF CvmStart, NoMemory
  <2>2. running' \in BOOLEAN /\ starved' \in BOOLEAN
    BY <2>1 DEF CvmOK
  <2> QED
    BY <1>3, <2>2 DEF CvmStart, NoMemory, CvmOK
<1>4. ASSUME NEW l \in Listeners, Subscribe(l) \/ Quit(l) \/ Closed(l) \/ Breaks(l) PROVE CvmOK'
  BY <1>4 DEF Subscribe, Quit, Closed, Breaks, CvmOK
<1>5. ASSUME NEW l \in Listeners, NEW r \in Requests, Handle(l, r) \/ FrameLost(l, r) PROVE CvmOK'
  BY <1>5 DEF Handle, FrameLost, CvmOK
<1>6. ASSUME NEW r \in Requests, Publish(r) PROVE CvmOK'
  BY <1>6 DEF Publish, CvmOK
<1> QED
  BY <1>1, <1>2, <1>3, <1>4, <1>5, <1>6

(***************************************************************************)
(* The results about the remote control.                                   *)
(***************************************************************************)

(* A gateway that has not booted yet.                                      *)
LEMMA InitIInv ==
    ASSUME Init
    PROVE  IInv
<1>1. ConfigInv
  <2>1. file \in {Factory, Operators} /\ cfg = Loaded(Factory) /\ disk \in {"missing", "whole"}
    BY DEF Init
  <2>2. /\ writing \in BOOLEAN /\ booted \in BOOLEAN /\ cut \in BOOLEAN /\ unsaved \in BOOLEAN
        /\ ~booted
    BY Zenon DEF Init
  <2>3. file \in Files /\ file.nsec = TRUE /\ cfg \in Files /\ cfg.nsec = TRUE
    BY <2>1, FactoryFiles, LoadedSaved
  <2> QED
    BY <2>1, <2>2, <2>3 DEF ConfigInv, ConfigOK, Keyed, Whole, Networks
<1>2. CvmOK
  <2>1. running \in BOOLEAN /\ starved \in BOOLEAN
    BY Zenon DEF Init
  <2> QED
    BY <2>1 DEF Init, CvmOK
<1> QED
  BY <1>1, <1>2 DEF IInv

(* Every step keeps the invariant.                                         *)
LEMMA NextIInv ==
    ASSUME IInv, [Next]_control
    PROVE  IInv'
<1> USE DEF IInv
<1>1. CASE Boot \/ BootGenerates \/ AddWifi \/ AddWifiUnsaved \/ WriteEnds \/ WriteFails
  <2>1. UNCHANGED cvm
    BY <1>1 DEF Boot, BootGenerates, AddWifi, AddWifiUnsaved, WriteEnds, WriteFails
  <2> QED
    BY <1>1, <2>1, CvmStep, BootStep, BootGeneratesStep, AddWifiStep, WriteEndsStep
<1>2. CASE PowerLoss
  BY <1>2, PowerLossConfig, CvmStep
<1>3. CASE \/ CvmStop
           \/ \E l \in Listeners :
                \/ CvmStart(l) \/ Subscribe(l) \/ NoMemory(l) \/ Quit(l) \/ Closed(l) \/ Breaks(l)
                \/ \E r \in Requests : FrameLost(l, r)
           \/ \E r \in Requests : Publish(r)
  <2>1. UNCHANGED config
    BY <1>3 DEF CvmStop, CvmStart, Subscribe, NoMemory, Quit, Closed, Breaks, FrameLost, Publish
  <2> QED
    BY <1>3, <2>1, ConfigFrame, CvmStep
<1>4. CASE \E l \in Listeners, r \in Requests : Handle(l, r)
  BY <1>4, HandleConfig, CvmStep
<1>5. CASE UNCHANGED control
  <2>1. UNCHANGED config /\ UNCHANGED cvm
    BY <1>5 DEF control, config, cvm
  <2> QED
    BY <2>1, ConfigFrame, CvmStep
<1> QED
  BY <1>1, <1>2, <1>3, <1>4, <1>5 DEF Next

(* The inductive invariant holds in every reachable state.                 *)
THEOREM ControlInvariant == Spec => []IInv
<1>1. Init => IInv
  BY InitIInv
<1>2. IInv /\ [Next]_control => IInv'
  BY NextIInv
<1> QED
  BY <1>1, <1>2, PTL DEF Spec

(* Unless power is lost, or a write fails, while tollgate_config_add_wifi  *)
(* or the first boot writes config.json, the next boot can read it, with   *)
(* the key, and finds the networks in use, whatever the remote control     *)
(* has set in between.                                                     *)
THEOREM ControlDurable == Spec => []Durable
<1>1. IInv => Durable
  <2> SUFFICES ASSUME IInv
               PROVE  Durable
    OBVIOUS
  <2>1. TypeOK
    BY DEF IInv, ConfigInv, ConfigOK, CvmOK, TypeOK
  <2>2. ~cut /\ ~writing => disk # "torn" /\ file.nsec
    BY DEF IInv, ConfigInv, Keyed, Whole
  <2>3. booted /\ ~writing /\ ~unsaved => file.nets = cfg.nets
    BY DEF IInv, ConfigInv, Networks
  <2> QED
    BY <2>1, <2>2, <2>3 DEF Durable
<1> QED
  BY <1>1, ControlInvariant, PTL

(***************************************************************************)
(* The mints' health.                                                      *)
(***************************************************************************)

(* A probe updates the mint's flag and its count together.                 *)
LEMMA ProbeStep ==
    ASSUME HealthInv, Probe
    PROVE  HealthInv'
<1> DEFINE n == IF turn \notin up THEN 0
                ELSE IF round = "initial" THEN Threshold ELSE UpTo(streak[turn] + 1)
<1>1. turn \in Mints /\ Threshold \in Nat /\ Threshold > 0
  BY MintHealthAssumption DEF Probe, Probing
<1>2. streak' = [streak EXCEPT ![turn] = n] /\ successes' = [successes EXCEPT ![turn] = n]
  BY <1>1 DEF Probe, Updated, HealthInv
<1>3. n \in Nat /\ (turn \notin up => n = 0)
      /\ (turn \in up /\ streak[turn] >= Threshold => n = Threshold)
  BY <1>1 DEF UpTo, HealthInv
<1>4. reachable' = [reachable EXCEPT ![turn] = turn \in up /\ (@ \/ successes'[turn] >= Threshold)]
  BY DEF Probe, Updated
<1> HIDE DEF n
<1>5. /\ streak' \in [Mints -> Nat] /\ successes' = streak' /\ streak'[turn] = n
      /\ \A m \in Mints \ {turn} : streak'[m] = streak[m] /\ reachable'[m] = reachable[m]
  BY <1>1, <1>2, <1>3, <1>4 DEF HealthInv
<1>6. reachable' \in [Mints -> BOOLEAN]
  BY <1>1, <1>4, Zenon DEF HealthInv
<1>7. reachable'[turn] <=> streak'[turn] >= Threshold
  <2>1. reachable'[turn] <=> turn \in up /\ (reachable[turn] \/ n >= Threshold)
    BY <1>1, <1>4, <1>5 DEF HealthInv
  <2> QED
    BY <1>1, <1>3, <1>5, <2>1 DEF HealthInv, ReachableEarned
<1>8. ReachableEarned'
  BY <1>5, <1>7 DEF HealthInv, ReachableEarned
<1> QED
  BY <1>5, <1>6, <1>8 DEF HealthInv

(* A mint is taken for reachable exactly when its last probes were enough, *)
(* for any number of mints and any recovery threshold                      *)
(* (tollgate_core_mint_health_update).                                     *)
THEOREM HealthReachableEarned == HealthSpec => []ReachableEarned
<1>1. HealthInit => HealthInv
  BY MintHealthAssumption DEF HealthInit, HealthInv, ReachableEarned
<1>2. HealthInv /\ [HealthNext]_health => HealthInv'
  <2> SUFFICES ASSUME HealthInv, [HealthNext]_health
               PROVE  HealthInv'
    OBVIOUS
  <2>1. CASE Probe
    BY <2>1, ProbeStep
  <2>2. CASE ~Probe
    <3>1. UNCHANGED <<reachable, successes, streak>>
      BY <2>2 DEF HealthNext, HealthTask, HealthStarts, RoundEnds, RoundBegins, Discovery,
                  MintChanges, health
    <3> QED
      BY <3>1 DEF HealthInv, ReachableEarned
  <2> QED
    BY <2>1, <2>2
<1>3. HealthInv => ReachableEarned
  BY DEF HealthInv
<1> QED
  BY <1>1, <1>2, <1>3, PTL DEF HealthSpec

(***************************************************************************)
(* Mining (Stratum.tla).  The invariant says who is in which slot: nobody  *)
(* while the proxy waits in select, and the miner it serves, in one slot,  *)
(* while it serves one.  That a miner is not in the listen queue twice     *)
(* bounds the queue.                                                       *)
(***************************************************************************)

(* The client of the pool.                                                 *)
PoolOK ==
    /\ pool \in BOOLEAN /\ tp \in BOOLEAN /\ opened = IF tp THEN 1 ELSE 0
    /\ cli \in [at : {"connect", "read", "tell"}, job : 0..NJobs]
    /\ job \in 0..NJobs /\ heap \in 0..Heap

ToldOK == told \in [Miners -> 0..NJobs]

(* Every connection that waits is of another miner.                        *)
QueueOK ==
    /\ queue \in Seq(Miners)
    /\ \A i, j \in 1..Len(queue) : queue[i] = queue[j] => i = j

(* Slot s is the one of the miner that is served, and the only one in use. *)
InUse(s) == slots[s].miner = server.who /\ \A o \in Slots \ {s} : slots[o].miner = Nobody

AllFree == \A s \in Slots : slots[s].miner = Nobody

Places == {"select", "recv", "answer", "verdict", "closed"}

ProxyOK ==
    /\ server \in [at : Places, who : Miners \cup {Nobody}, job : 0..NJobs]
    /\ slots \in [Slots -> [miner : Miners \cup {Nobody}, authorized : BOOLEAN]]
    /\ server.at = "select" => server.who = Nobody /\ AllFree /\ active = 0
    /\ server.at # "select" => server.who \in Miners /\ active = 1 /\ \E s \in Slots : InUse(s)
    /\ unsettled = IF server.at = "verdict" THEN 1 ELSE 0

TableOK ==
    /\ DOMAIN clients \subseteq Miners \cup {Own}
    /\ Cardinality(DOMAIN clients) <= MaxClients

StratumInv == PoolOK /\ ToldOK /\ QueueOK /\ ProxyOK /\ TableOK

(* A sequence of bounded length.                                           *)
LEMMA ShortSeq ==
    ASSUME NEW S, NEW n \in Nat, NEW q \in Seq(S), Len(q) <= n
    PROVE  q \in BoundedSeq(S, n)
<1>1. Len(q) \in 0..n /\ q \in [1..Len(q) -> S]
  OBVIOUS
<1> QED
  BY <1>1 DEF BoundedSeq, SeqOf

(* No more miners wait than there are.                                     *)
LEMMA QueueBound ==
    ASSUME QueueOK
    PROVE  queue \in BoundedSeq(Miners, Cardinality(Miners))
<1> DEFINE n == Len(queue)
<1>1. queue \in [1..n -> Miners] /\ n \in Nat
  BY DEF QueueOK
<1>2. \A m \in Nat : IsFiniteSet(1..m) /\ Cardinality(1..m) = m
  BY FS_Interval
<1>3. IsFiniteSet(Miners) /\ Cardinality(Miners) \in Nat
  BY FS_CardinalityType, StratumAssumption
<1>4. ASSUME n > Cardinality(Miners) PROVE FALSE
  <2> DEFINE S == 1..n
  <2>1. IsFiniteSet(S) /\ Cardinality(S) = n
    BY <1>1, <1>2
  <2>2. Cardinality(Miners) < Cardinality(S)
    BY <1>1, <1>3, <1>4, <2>1
  <2>3. queue \in [S -> Miners]
    BY <1>1
  <2>4. \A x, y \in S : queue[x] = queue[y] => x = y
    BY DEF QueueOK
  <2> HIDE DEF S
  <2>5. \E x, y \in S : x # y /\ queue[x] = queue[y]
    BY <1>3, <2>1, <2>2, <2>3, FS_PigeonHole
  <2> QED
    BY <2>4, <2>5
<1>5. n <= Cardinality(Miners)
  BY <1>1, <1>3, <1>4
<1> QED
  BY <1>3, <1>5, ShortSeq DEF QueueOK

(* The invariant says what the statistics and the slots should be.         *)
LEMMA BooksFollow == StratumInv => BooksTrue
<1> SUFFICES ASSUME StratumInv PROVE BooksTrue
  OBVIOUS
<1> DEFINE used == {s \in Slots : slots[s].miner # Nobody}
<1>1. PoolOK /\ ToldOK /\ QueueOK /\ ProxyOK /\ TableOK
  BY DEF StratumInv
<1>2. queue \in BoundedSeq(Miners, Cardinality(Miners))
  BY <1>1, QueueBound
<1>3. active \in 0..MaxMiners /\ unsettled \in 0..1
  BY <1>1, StratumAssumption DEF ProxyOK
<1>4. StratumTypeOK
  BY <1>1, <1>2, <1>3 DEF StratumTypeOK, PoolOK, ToldOK, ProxyOK, TableOK, Places
<1>5. CASE server.at = "select"
  <2>1. used = {} /\ active = 0
    BY <1>1, <1>5 DEF ProxyOK, AllFree
  <2>2. Cardinality(used) = 0
    BY <2>1, FS_EmptySet
  <2> QED
    BY <1>1, <1>4, <1>5, <2>1, <2>2 DEF BooksTrue, ProxyOK
<1>6. CASE server.at # "select"
  <2>1. server.who \in Miners /\ server.who # Nobody /\ active = 1
    BY <1>1, <1>6, StratumAssumption DEF ProxyOK
  <2>2. PICK s \in Slots : InUse(s)
    BY <1>1, <1>6 DEF ProxyOK
  <2>3. used = {s}
    BY <2>1, <2>2 DEF InUse
  <2>4. Cardinality(used) = 1
    BY <2>3, FS_Singleton
  <2>5. \A o \in used : slots[o].miner = server.who
    BY <2>2, <2>3 DEF InUse
  <2> QED
    BY <1>1, <1>4, <1>6, <2>1, <2>4, <2>5 DEF BooksTrue, ProxyOK
<1> QED
  BY <1>5, <1>6

(* tollgate_core_mining_get_or_create_client never holds more clients than *)
(* the table has entries: a new one comes with room or for an old one.     *)
LEMMA CountedTable ==
    ASSUME NEW tab, NEW new, NEW ip \in Miners \cup {Own},
           DOMAIN tab \subseteq Miners \cup {Own}, Cardinality(DOMAIN tab) <= MaxClients,
           new \in Counted(tab, ip)
    PROVE  DOMAIN new \subseteq Miners \cup {Own} /\ Cardinality(DOMAIN new) <= MaxClients
<1> DEFINE D == DOMAIN tab
<1>1. IsFiniteSet(D) /\ Cardinality(D) \in Nat
  <2>1. IsFiniteSet(Miners \cup {Own})
    BY FS_AddElement, StratumAssumption
  <2> QED
    BY <2>1, FS_Subset, FS_CardinalityType
<1>2. CASE ~Countable(tab, ip)
  <2>1. new = tab
    BY <1>2 DEF Counted
  <2> QED
    BY <2>1
<1>3. CASE Countable(tab, ip) /\ (ip \in D \/ Cardinality(D) < MaxClients)
  <2>1. new = [a \in D \cup {ip} |-> IF a = ip THEN TRUE ELSE tab[a]]
    BY <1>3 DEF Counted
  <2>2. DOMAIN new = D \cup {ip}
    BY <2>1
  <2> HIDE DEF D
  <2>3. Cardinality(D \cup {ip}) <= MaxClients
    <3>1. CASE ip \in D
      <4>1. D \cup {ip} = D
        BY <3>1
      <4> QED
        BY <4>1 DEF D
    <3>2. CASE ip \notin D
      <4>1. Cardinality(D \cup {ip}) = Cardinality(D) + 1
        BY <1>1, <3>2, FS_AddElement
      <4> QED
        BY <1>1, <1>3, <3>2, <4>1, StratumAssumption
    <3> QED
      BY <3>1, <3>2
  <2> QED
    BY <2>2, <2>3 DEF D
<1>4. CASE Countable(tab, ip) /\ ~(ip \in D \/ Cardinality(D) < MaxClients)
  <2>1. PICK o \in D : new = [a \in (D \ {o}) \cup {ip} |-> IF a = ip THEN TRUE ELSE tab[a]]
    BY <1>4 DEF Counted
  <2> DEFINE E == D \ {o}
  <2>2. DOMAIN new = E \cup {ip}
    BY <2>1
  <2>3. IsFiniteSet(E) /\ Cardinality(E) = Cardinality(D) - 1 /\ ip \notin E
    BY <1>1, <1>4, FS_RemoveElement
  <2>4. E \subseteq Miners \cup {Own}
    OBVIOUS
  <2>5. Cardinality(D) <= MaxClients
    OBVIOUS
  <2> HIDE DEF D, E
  <2>6. Cardinality(E \cup {ip}) = Cardinality(E) + 1
    BY <2>3, FS_AddElement
  <2>7. Cardinality(E \cup {ip}) <= MaxClients
    BY <1>1, <2>3, <2>5, <2>6, StratumAssumption
  <2> QED
    BY <2>2, <2>4, <2>7
<1> QED
  BY <1>2, <1>3, <1>4

(* As the tasks are started nothing is counted and nobody is served.       *)
LEMMA StratumInitInv ==
    ASSUME pool \in BOOLEAN, cli = [at |-> "connect", job |-> NoJob],
           tp = FALSE, opened = 0, job = NoJob, heap = Heap, queue = <<>>, server = Idle,
           slots = [s \in Slots |-> Free], active = 0, unsettled = 0,
           told = [m \in Miners |-> NoJob], clients = <<>>
    PROVE  StratumInv
<1>1. NoJob \in 0..NJobs /\ Heap \in 0..Heap
  BY StratumAssumption DEF NoJob
<1>2. PoolOK /\ ToldOK
  BY <1>1 DEF PoolOK, ToldOK
<1>3. QueueOK
  <2>1. <<>> \in Seq(Miners) /\ 1..Len(<<>>) = {}
    OBVIOUS
  <2> QED
    BY <2>1 DEF QueueOK
<1>4. ProxyOK
  <2>1. slots \in [Slots -> [miner : Miners \cup {Nobody}, authorized : BOOLEAN]] /\ AllFree
    BY DEF Free, AllFree
  <2>2. server \in [at : Places, who : Miners \cup {Nobody}, job : 0..NJobs]
        /\ server.at = "select" /\ server.who = Nobody
    BY <1>1 DEF Idle, Places
  <2> QED
    BY <2>1, <2>2 DEF ProxyOK
<1>5. TableOK
  <2>1. DOMAIN clients = {}
    OBVIOUS
  <2> QED
    BY <2>1, FS_EmptySet, StratumAssumption DEF TableOK
<1> QED
  BY <1>2, <1>3, <1>4, <1>5 DEF StratumInv

(* stratum_client_task: the one transport and the job it has read.         *)
LEMMA PoolStep ==
    ASSUME PoolOK, \/ Connect \/ (\E j \in Jobs : Notify(j)) \/ Tell \/ BadLine \/ Lost
                   \/ PoolChanges
    PROVE  PoolOK'
<1>0. NoJob \in 0..NJobs /\ Jobs \subseteq 0..NJobs /\ Heap \in Nat
  BY StratumAssumption DEF NoJob, Jobs
<1>1. CASE Connect
  <2>1. tp' = TRUE /\ opened' = 1 /\ UNCHANGED <<pool, job, heap>>
    BY <1>1 DEF Connect, PoolOK
  <2>2. cli' \in [at : {"connect", "read", "tell"}, job : 0..NJobs]
    BY <1>1 DEF Connect, PoolOK
  <2> QED
    BY <2>1, <2>2 DEF PoolOK
<1>2. ASSUME NEW j \in Jobs, Notify(j) PROVE PoolOK'
  BY <1>0, <1>2 DEF Notify, Reads, PoolOK
<1>3. CASE Tell
  BY <1>0, <1>3 DEF Tell, PoolOK
<1>4. CASE Lost
  <2>1. tp' = FALSE /\ opened' = 0 /\ UNCHANGED <<pool, job>>
    BY <1>4 DEF Lost, Reads, PoolOK
  <2>3. heap' \in 0..Heap
    BY <1>0, <1>4 DEF Lost, Reads, PoolOK
  <2>2. cli' \in [at : {"connect", "read", "tell"}, job : 0..NJobs]
    BY <1>4 DEF Lost, Reads, PoolOK
  <2> QED
    BY <2>1, <2>2, <2>3 DEF PoolOK
<1>5. CASE PoolChanges
  <2>1. pool' \in BOOLEAN
    BY <1>5, Zenon DEF PoolChanges
  <2> QED
    BY <1>5, <2>1 DEF PoolChanges, client, PoolOK
<1>6. CASE BadLine
  <2>1. heap' \in 0..Heap
    BY <1>0, <1>6 DEF BadLine, Reads, PoolOK
  <2> QED
    BY <1>6, <2>1 DEF BadLine, Reads, PoolOK
<1> QED
  BY <1>1, <1>2, <1>3, <1>4, <1>5, <1>6

(* accept, register_miner: a slot that was free, the first in the queue.   *)
LEMMA AcceptStep ==
    ASSUME QueueOK, ProxyOK, Accept
    PROVE  QueueOK' /\ ProxyOK'
<1>1. server.at = "select" /\ queue # <<>> /\ queue' = Tail(queue) /\ unsettled' = unsettled
  BY DEF Accept, client
<1>2. Head(queue) \in Miners /\ QueueOK'
  <2>1. queue \in Seq(Miners) /\ Len(queue) \in Nat \ {0}
    BY <1>1 DEF QueueOK
  <2>2. Head(queue) \in Miners /\ Tail(queue) \in Seq(Miners)
        /\ Len(Tail(queue)) = Len(queue) - 1
        /\ \A i \in 1..(Len(queue) - 1) : Tail(queue)[i] = queue[i + 1]
    BY <1>1, <2>1
  <2>3. ASSUME NEW i \in 1..Len(queue'), NEW j \in 1..Len(queue'), queue'[i] = queue'[j]
        PROVE  i = j
    <3>1. i + 1 \in 1..Len(queue) /\ j + 1 \in 1..Len(queue)
      BY <1>1, <2>1, <2>2
    <3>2. queue[i + 1] = queue[j + 1]
      BY <1>1, <2>2, <2>3
    <3>3. i + 1 = j + 1
      BY <3>1, <3>2 DEF QueueOK
    <3> QED
      BY <3>3, <2>1
  <2> QED
    BY <1>1, <2>2, <2>3 DEF QueueOK
<1>3. PICK s \in FreeSlots :
         /\ slots' = [slots EXCEPT ![s] = [miner |-> Head(queue), authorized |-> FALSE]]
         /\ server' = [at |-> "recv", who |-> Head(queue), job |-> NoJob]
         /\ active' = active + 1
  BY DEF Accept
<1>4. s \in Slots /\ NoJob \in 0..NJobs
  BY StratumAssumption DEF FreeSlots, NoJob
<1>5. slots' \in [Slots -> [miner : Miners \cup {Nobody}, authorized : BOOLEAN]]
  BY <1>2, <1>3, <1>4 DEF ProxyOK
<1>6. /\ server' \in [at : Places, who : Miners \cup {Nobody}, job : 0..NJobs]
      /\ server'.at = "recv" /\ server'.who = Head(queue)
  BY <1>2, <1>3, <1>4 DEF Places
<1>7. InUse(s)'
  BY <1>1, <1>3, <1>4, <1>6 DEF InUse, ProxyOK, AllFree
<1>8. active' = 1 /\ unsettled' = 0
  BY <1>1, <1>3 DEF ProxyOK
<1> QED
  BY <1>2, <1>4, <1>5, <1>6, <1>7, <1>8 DEF ProxyOK

(* While a miner is served its slot stays its own, whatever line it sends. *)
LEMMA ServeStep ==
    ASSUME ProxyOK, server.at # "select", slots' = slots, active' = active,
           server' \in [at : Places, who : Miners \cup {Nobody}, job : 0..NJobs],
           server'.at # "select", server'.who = server.who,
           unsettled' = IF server'.at = "verdict" THEN 1 ELSE 0
    PROVE  ProxyOK'
<1>1. PICK s \in Slots : InUse(s)
  BY DEF ProxyOK
<1>2. InUse(s)'
  BY <1>1 DEF InUse
<1> QED
  BY <1>2 DEF ProxyOK

(* The lines of a miner, and the end of its connection.                    *)
LEMMA LineStep ==
    ASSUME PoolOK, ProxyOK,
           \/ MiningSubscribe \/ SubscribeAnswer \/ (\E j \in Jobs : Submit(j))
           \/ Verdict \/ RecvEnds
    PROVE  ProxyOK'
<1>0. NoJob \in 0..NJobs /\ Jobs \subseteq 0..NJobs /\ job \in 0..NJobs
      /\ server \in [at : Places, who : Miners \cup {Nobody}, job : 0..NJobs]
      /\ unsettled = IF server.at = "verdict" THEN 1 ELSE 0
  BY StratumAssumption DEF NoJob, Jobs, PoolOK, ProxyOK
<1>1. CASE MiningSubscribe
  <2>1. /\ server' \in [at : Places, who : Miners \cup {Nobody}, job : 0..NJobs]
        /\ server'.at = "answer" /\ server'.who = server.who
    BY <1>0, <1>1 DEF MiningSubscribe, Places
  <2> QED
    BY <1>0, <1>1, <2>1, ServeStep DEF MiningSubscribe
<1>2. CASE SubscribeAnswer
  <2>1. /\ server' \in [at : Places, who : Miners \cup {Nobody}, job : 0..NJobs]
        /\ server'.at = "recv" /\ server'.who = server.who
    BY <1>0, <1>2 DEF SubscribeAnswer, Places
  <2> QED
    BY <1>0, <1>2, <2>1, ServeStep DEF SubscribeAnswer
<1>3. ASSUME NEW j \in Jobs, Submit(j) PROVE ProxyOK'
  <2>1. CASE UNCHANGED <<server, unsettled>>
    BY <1>0, <1>3, <2>1, ServeStep DEF Submit
  <2>2. CASE /\ unsettled' = unsettled + 1
             /\ server' = [server EXCEPT !.at = "verdict", !.job = j]
    <3>1. /\ server' \in [at : Places, who : Miners \cup {Nobody}, job : 0..NJobs]
          /\ server'.at = "verdict" /\ server'.who = server.who
      BY <1>0, <2>2 DEF Places
    <3>2. server.at = "recv"
      BY <1>3 DEF Submit
    <3>3. unsettled = 0
      BY <1>0, <3>2
    <3>4. unsettled' = 1
      BY <2>2, <3>3
    <3> QED
      BY <1>3, <3>1, <3>2, <3>4, ServeStep DEF Submit
  <2> QED
    BY <1>3, <2>1, <2>2 DEF Submit
<1>4. CASE Verdict
  <2>1. /\ server' \in [at : Places, who : Miners \cup {Nobody}, job : 0..NJobs]
        /\ server'.at = "recv" /\ server'.who = server.who
    BY <1>0, <1>4 DEF Verdict, Places
  <2>2. server.at = "verdict" /\ unsettled' = 0
    BY <1>0, <1>4 DEF Verdict
  <2> QED
    BY <1>4, <2>1, <2>2, ServeStep DEF Verdict
<1>5. CASE RecvEnds
  <2>1. /\ server' \in [at : Places, who : Miners \cup {Nobody}, job : 0..NJobs]
        /\ server'.at = "closed" /\ server'.who = server.who
    BY <1>0, <1>5 DEF RecvEnds, Places
  <2> QED
    BY <1>0, <1>5, <2>1, ServeStep DEF RecvEnds
<1> QED
  BY <1>1, <1>2, <1>3, <1>4, <1>5

(* mining.authorize marks the slot the miner has.                          *)
LEMMA AuthorizeStep ==
    ASSUME ProxyOK, Authorize
    PROVE  ProxyOK'
<1>1. server.at = "recv" /\ UNCHANGED <<server, active, unsettled>>
      /\ slots' = [slots EXCEPT ![SlotOf(server.who)].authorized = TRUE]
  BY DEF Authorize
<1>2. PICK s \in Slots : InUse(s)
  BY <1>1 DEF ProxyOK
<1>3. SlotOf(server.who) \in Slots
  BY <1>2 DEF SlotOf, InUse
<1>4. /\ slots' \in [Slots -> [miner : Miners \cup {Nobody}, authorized : BOOLEAN]]
      /\ \A o \in Slots : slots'[o].miner = slots[o].miner
  <2> DEFINE t == SlotOf(server.who)
  <2> HIDE DEF t
  <2>1. slots' = [slots EXCEPT ![t].authorized = TRUE] /\ t \in Slots
    BY <1>1, <1>3 DEF t
  <2>2. slots[t] \in [miner : Miners \cup {Nobody}, authorized : BOOLEAN]
    BY <2>1 DEF ProxyOK
  <2>3. [slots[t] EXCEPT !.authorized = TRUE] \in [miner : Miners \cup {Nobody}, authorized : BOOLEAN]
        /\ [slots[t] EXCEPT !.authorized = TRUE].miner = slots[t].miner
    BY <2>2
  <2> QED
    BY <2>1, <2>3 DEF ProxyOK
<1>5. InUse(s)'
  BY <1>1, <1>2, <1>4 DEF InUse
<1> QED
  BY <1>1, <1>4, <1>5 DEF ProxyOK

(* unregister_miner leaves no slot in use.                                 *)
LEMMA UnregisterStep ==
    ASSUME ProxyOK, Unregister
    PROVE  ProxyOK'
<1>1. /\ server.at = "closed" /\ server' = Idle /\ active' = active - 1
      /\ slots' = [s \in Slots |-> IF slots[s].miner = server.who THEN Free ELSE slots[s]]
      /\ unsettled' = unsettled
  BY DEF Unregister
<1>2. PICK s \in Slots : InUse(s)
  BY <1>1 DEF ProxyOK
<1>3. Free \in [miner : Miners \cup {Nobody}, authorized : BOOLEAN] /\ Free.miner = Nobody
  BY DEF Free
<1>4. slots' \in [Slots -> [miner : Miners \cup {Nobody}, authorized : BOOLEAN]]
  BY <1>1, <1>3 DEF ProxyOK
<1>5. AllFree'
  BY <1>1, <1>2, <1>3 DEF AllFree, InUse
<1>6. /\ server' \in [at : Places, who : Miners \cup {Nobody}, job : 0..NJobs]
      /\ server'.at = "select" /\ server'.who = Nobody
  BY <1>1, StratumAssumption DEF Idle, Places, NoJob
<1>7. active' = 0 /\ unsettled' = 0
  BY <1>1 DEF ProxyOK
<1> QED
  BY <1>4, <1>5, <1>6, <1>7 DEF ProxyOK

(* Every step of the five tasks preserves the invariant.                   *)
LEMMA StratumStep ==
    ASSUME StratumInv, [StratumNext]_stratumVars
    PROVE  StratumInv'
<1>0. PoolOK /\ ToldOK /\ QueueOK /\ ProxyOK /\ TableOK
  BY DEF StratumInv
<1>1. ASSUME UNCHANGED <<pool, client>> PROVE PoolOK'
  BY <1>0, <1>1 DEF PoolOK, client
<1>2. ASSUME UNCHANGED told PROVE ToldOK'
  BY <1>0, <1>2 DEF ToldOK
<1>3. ASSUME UNCHANGED queue PROVE QueueOK'
  BY <1>0, <1>3 DEF QueueOK
<1>4. ASSUME UNCHANGED <<server, slots, active, unsettled>> PROVE ProxyOK'
  BY <1>0, <1>4 DEF ProxyOK, InUse, AllFree
<1>5. ASSUME UNCHANGED clients PROVE TableOK'
  BY <1>0, <1>5 DEF TableOK
<1>6. ASSUME NEW ip \in Miners \cup {Own}, clients' \in Counted(clients, ip) PROVE TableOK'
  BY <1>0, <1>6, CountedTable DEF TableOK
<1>7. CASE Connect \/ (\E j \in Jobs : Notify(j)) \/ BadLine \/ Lost \/ PoolChanges
  <2>1. PoolOK'
    BY <1>0, <1>7, PoolStep
  <2>2. UNCHANGED <<proxy, told, clients>>
    BY <1>7 DEF Connect, Notify, BadLine, Lost, PoolChanges
  <2> QED
    BY <1>2, <1>3, <1>4, <1>5, <2>1, <2>2 DEF StratumInv, proxy
<1>8. CASE Tell
  <2>1. PoolOK'
    BY <1>0, <1>8, PoolStep
  <2>2. ToldOK'
    <3>1. PICK lost \in SUBSET Hearers :
             told' = [m \in Miners |-> IF m \in Hearers \ lost THEN cli.job ELSE told[m]]
      BY <1>8 DEF Tell
    <3>2. cli.job \in 0..NJobs
      BY <1>0 DEF PoolOK
    <3> QED
      BY <1>0, <3>1, <3>2 DEF ToldOK
  <2>3. UNCHANGED <<proxy, clients>>
    BY <1>8 DEF Tell
  <2> QED
    BY <1>3, <1>4, <1>5, <2>1, <2>2, <2>3 DEF StratumInv, proxy
<1>9. CASE Accept
  <2>1. QueueOK' /\ ProxyOK'
    BY <1>0, <1>9, AcceptStep
  <2>2. UNCHANGED <<pool, client, told, clients>>
    BY <1>9 DEF Accept
  <2> QED
    BY <1>1, <1>2, <1>5, <2>1, <2>2 DEF StratumInv
<1>10. CASE MiningSubscribe \/ (\E j \in Jobs : Submit(j))
  <2>1. ProxyOK'
    BY <1>0, <1>10, LineStep
  <2>2. UNCHANGED <<pool, client, queue, told, clients>>
    BY <1>10 DEF MiningSubscribe, Submit
  <2> QED
    BY <1>1, <1>2, <1>3, <1>5, <2>1, <2>2 DEF StratumInv
<1>11. CASE SubscribeAnswer \/ RecvEnds
  <2>1. ProxyOK'
    BY <1>0, <1>11, LineStep
  <2>2. UNCHANGED <<pool, client, queue, clients>>
    BY <1>11 DEF SubscribeAnswer, RecvEnds
  <2>3. ToldOK'
    <3>1. server.job \in 0..NJobs /\ NoJob \in 0..NJobs
      BY <1>0, StratumAssumption DEF ProxyOK, NoJob
    <3> QED
      BY <1>0, <1>11, <3>1 DEF SubscribeAnswer, RecvEnds, ToldOK
  <2> QED
    BY <1>1, <1>3, <1>5, <2>1, <2>2, <2>3 DEF StratumInv
<1>12. CASE Authorize \/ Unregister
  <2>1. ProxyOK'
    BY <1>0, <1>12, AuthorizeStep, UnregisterStep
  <2>2. UNCHANGED <<pool, client, queue, told, clients>>
    BY <1>12 DEF Authorize, Unregister
  <2> QED
    BY <1>1, <1>2, <1>3, <1>5, <2>1, <2>2 DEF StratumInv
<1>13. CASE Verdict
  <2>1. ProxyOK'
    BY <1>0, <1>13, LineStep
  <2>2. server.who \in Miners \cup {Own} /\ clients' \in Counted(clients, server.who)
    BY <1>0, <1>13 DEF Verdict, ProxyOK
  <2>3. UNCHANGED <<pool, client, queue, told>>
    BY <1>13 DEF Verdict
  <2> QED
    BY <1>1, <1>2, <1>3, <1>6, <2>1, <2>2, <2>3 DEF StratumInv
<1>14. ASSUME NEW ip \in Miners \cup {Own}, clients' \in Counted(clients, ip),
              UNCHANGED <<pool, client, proxy, told>>
       PROVE  StratumInv'
  BY <1>1, <1>2, <1>3, <1>4, <1>6, <1>14 DEF StratumInv, proxy
<1>15. CASE SwShare
  BY <1>14, <1>15 DEF SwShare
<1>16. ASSUME NEW m \in Miners, HttpRefused(m) \/ HttpCredited(m) PROVE StratumInv'
  BY <1>14, <1>16 DEF HttpRefused, HttpCredited
<1>17. ASSUME NEW m \in Miners, HttpPanics(m) PROVE StratumInv'
  <2>1. PoolOK' /\ ToldOK'
    <3>1. NoJob \in 0..NJobs /\ Heap \in 0..Heap
      BY StratumAssumption DEF NoJob
    <3> QED
      BY <1>0, <1>17, <3>1 DEF HttpPanics, PoolOK, ToldOK
  <2>2. QueueOK'
    <3>1. <<>> \in Seq(Miners) /\ 1..Len(<<>>) = {}
      OBVIOUS
    <3> QED
      BY <1>17, <3>1 DEF QueueOK, HttpPanics
  <2>3. ProxyOK'
    <3>1. slots' \in [Slots -> [miner : Miners \cup {Nobody}, authorized : BOOLEAN]] /\ AllFree'
      BY <1>17 DEF HttpPanics, Free, AllFree
    <3>2. server' \in [at : Places, who : Miners \cup {Nobody}, job : 0..NJobs]
          /\ server'.at = "select" /\ server'.who = Nobody
      BY <1>17, StratumAssumption DEF HttpPanics, Idle, Places, NoJob
    <3> QED
      BY <1>17, <3>1, <3>2 DEF HttpPanics, ProxyOK
  <2>4. TableOK'
    <3>1. DOMAIN clients' = {}
      BY <1>17 DEF HttpPanics
    <3> QED
      BY <3>1, FS_EmptySet, StratumAssumption DEF TableOK
  <2> QED
    BY <2>1, <2>2, <2>3, <2>4 DEF StratumInv
<1>18. ASSUME NEW ip \in Miners \cup {Own}, WindowOver(ip) PROVE StratumInv'
  <2>1. DOMAIN clients' = DOMAIN clients
    BY <1>18 DEF WindowOver
  <2>2. TableOK'
    BY <1>0, <2>1 DEF TableOK
  <2> QED
    BY <1>1, <1>2, <1>3, <1>4, <1>18, <2>2 DEF StratumInv, WindowOver, proxy
<1>19. ASSUME NEW m \in Miners, MinerConnects(m) PROVE StratumInv'
  <2>1. queue' = Append(queue, m) /\ queue \in Seq(Miners)
        /\ \A i \in 1..Len(queue) : queue[i] # m
    BY <1>0, <1>19 DEF MinerConnects, Contains, QueueOK
  <2>2. /\ queue' \in Seq(Miners) /\ Len(queue') = Len(queue) + 1 /\ Len(queue) \in Nat
        /\ queue'[Len(queue) + 1] = m
        /\ \A i \in 1..Len(queue) : queue'[i] = queue[i]
    BY <2>1
  <2>3. ASSUME NEW i \in 1..Len(queue'), NEW j \in 1..Len(queue'), queue'[i] = queue'[j]
        PROVE  i = j
    <3>1. CASE i \in 1..Len(queue) /\ j \in 1..Len(queue)
      BY <1>0, <2>2, <2>3, <3>1 DEF QueueOK
    <3>2. CASE i \in 1..Len(queue) /\ j = Len(queue) + 1
      BY <2>1, <2>2, <2>3, <3>2
    <3>3. CASE j \in 1..Len(queue) /\ i = Len(queue) + 1
      BY <2>1, <2>2, <2>3, <3>3
    <3>4. CASE i = Len(queue) + 1 /\ j = Len(queue) + 1
      BY <3>4
    <3> QED
      BY <2>2, <3>1, <3>2, <3>3, <3>4
  <2>4. QueueOK'
    BY <2>2, <2>3 DEF QueueOK
  <2> QED
    BY <1>1, <1>2, <1>4, <1>5, <1>19, <2>4 DEF StratumInv, MinerConnects
<1>20. CASE UNCHANGED stratumVars
  BY <1>1, <1>2, <1>3, <1>4, <1>5, <1>20 DEF StratumInv, stratumVars, client
<1> QED
  BY <1>7, <1>8, <1>9, <1>10, <1>11, <1>12, <1>13, <1>15, <1>16, <1>17, <1>18, <1>19, <1>20
     DEF StratumNext

(* For any miners, slots, jobs and table: the proxy loses no slot and      *)
(* counts the miner it serves and no other, between two lines every share  *)
(* was accepted or rejected, the table of mining clients never overflows,  *)
(* and the pool's client has one transport open or none and knows it, also *)
(* across the restart that a full table causes.                            *)
THEOREM StratumBooksTrue == StratumSpec => []BooksTrue
<1>1. StratumInit => StratumInv
  BY StratumInitInv DEF StratumInit
<1>2. StratumInv /\ [StratumNext]_stratumVars => StratumInv'
  BY StratumStep
<1>3. StratumInv => BooksTrue
  BY BooksFollow
<1> QED
  BY <1>1, <1>2, <1>3, PTL DEF StratumSpec
=============================================================================
