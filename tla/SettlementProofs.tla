-------------------------- MODULE SettlementProofs --------------------------
(***************************************************************************)
(* Proofs about the way of a token to the wallet, for any tokens, any      *)
(* number of tasks that earn and any length of the queue.                  *)
(*                                                                         *)
(* IInv adds to NothingLost where each task can be and that it holds a     *)
(* token exactly there (Placed).                                           *)
(***************************************************************************)
EXTENDS Settlement, FiniteSetTheorems, TLAPS

Quiet == {"idle", "off", "probe", "poll", "drain"}

MayBe(p) == CASE p = "api"    -> {"idle", "check", "grant", "submit", "send", "receive"}
              [] p = "health" -> {"off", "probe", "poll", "drain", "poll_receive",
                                  "drain_receive"}
              [] OTHER        -> {"idle", "submit", "send", "receive"}

Placed ==
    /\ \A p \in Tasks : at[p] \in MayBe(p) /\ (at[p] \in Quiet <=> tok[p] = NoToken)
    /\ services = "down" => at["health"] = "off"

Bit(b) == IF b THEN 1 ELSE 0

IInv == NothingLost /\ Placed

(***************************************************************************)
(* The operators.                                                          *)
(***************************************************************************)

(* There are finitely many tasks, the API and the health task among them.  *)
LEMMA TaskSet ==
    /\ IsFiniteSet(Tasks) /\ Cardinality(Tasks) \in Nat /\ Cardinality(Tasks) >= 1
    /\ "api" \in Tasks /\ "health" \in Tasks /\ Earners \subseteq Tasks
    /\ Submitters \subseteq Tasks
<1>1. IsFiniteSet(Tasks)
  BY SettlementAssumption, FS_AddElement DEF Tasks, Submitters
<1>2. "api" \in Tasks /\ "health" \in Tasks /\ Earners \subseteq Tasks /\ Submitters \subseteq Tasks
  BY DEF Tasks, Submitters
<1>3. Cardinality(Tasks) # 0
  BY <1>1, <1>2, FS_EmptySet
<1> QED
  BY <1>1, <1>2, <1>3, FS_CardinalityType

(* Another time for one token.                                             *)
LEMMA IncType ==
    ASSUME NEW f \in [Tokens -> Nat], NEW t \in Tokens
    PROVE  /\ Inc(f, t) \in [Tokens -> Nat]
           /\ \A u \in Tokens : Inc(f, t)[u] = f[u] + Bit(u = t)
BY DEF Inc, Bit

(* The places of a token in a queue.                                       *)
LEMMA CopiesType ==
    ASSUME queue \in Seq(Tokens), NEW t
    PROVE  /\ IsFiniteSet({i \in DOMAIN queue : queue[i] = t})
           /\ Copies(t) \in Nat /\ Copies(t) <= Len(queue)
<1> DEFINE S == {i \in DOMAIN queue : queue[i] = t}
<1>1. DOMAIN queue = 1..Len(queue) /\ Len(queue) \in Nat
  OBVIOUS
<1>2. IsFiniteSet(1..Len(queue)) /\ Cardinality(1..Len(queue)) = Len(queue)
  BY <1>1, FS_Interval
<1>3. S \in SUBSET (1..Len(queue))
  BY <1>1
<1>4. IsFiniteSet(S) /\ Cardinality(S) <= Len(queue)
  BY <1>2, <1>3, FS_Subset
<1> QED
  BY <1>4, FS_CardinalityType DEF Copies

(* xQueueSend adds one.                                                    *)
LEMMA CopiesAppend ==
    ASSUME queue \in Seq(Tokens), NEW x \in Tokens, queue' = Append(queue, x), NEW t
    PROVE  Copies(t)' = Copies(t) + Bit(x = t)
<1> DEFINE S == {i \in DOMAIN queue : queue[i] = t}
           T == {i \in DOMAIN queue' : queue'[i] = t}
           n == Len(queue) + 1
<1>1. IsFiniteSet(S)
  BY CopiesType
<1>2. n \notin S
  OBVIOUS
<1>3. T = IF x = t THEN S \cup {n} ELSE S
  <2>1. /\ DOMAIN queue' = 1..n /\ DOMAIN queue = 1..(n - 1) /\ n \in Nat /\ queue'[n] = x
        /\ \A i \in 1..(n - 1) : queue'[i] = queue[i]
    OBVIOUS
  <2> HIDE DEF n
  <2>2. 1..n = 1..(n - 1) \cup {n} /\ n \notin 1..(n - 1)
    BY <2>1
  <2>3. \A i \in 1..(n - 1) : i \in S <=> queue'[i] = t
    BY <2>1
  <2>4. S \subseteq 1..(n - 1)
    BY <2>1
  <2> HIDE DEF S
  <2> QED
    BY <2>1, <2>2, <2>3, <2>4
<1>4. Cardinality(S \cup {n}) = Cardinality(S) + 1
  BY <1>1, <1>2, FS_AddElement
<1>5. Cardinality(S) \in Nat
  BY <1>1, FS_CardinalityType
<1>6. Copies(t) = Cardinality(S) /\ Copies(t)' = Cardinality(T)
  BY DEF Copies
<1> HIDE DEF S, T, n
<1>7. CASE x = t
  BY <1>3, <1>4, <1>6, <1>7 DEF Bit
<1>8. CASE x # t
  BY <1>3, <1>5, <1>6, <1>8 DEF Bit
<1> QED
  BY <1>7, <1>8

(* xQueueReceive takes the first away.                                     *)
LEMMA CopiesTail ==
    ASSUME queue \in Seq(Tokens), queue # <<>>, queue' = Tail(queue), NEW t
    PROVE  Copies(t)' \in Nat /\ Copies(t) = Copies(t)' + Bit(Head(queue) = t)
<1> DEFINE S == {i \in DOMAIN queue : queue[i] = t}
           T == {i \in DOMAIN queue' : queue'[i] = t}
           f == [i \in T |-> i + 1]
<1>1. /\ Len(queue) \in Nat /\ Len(queue) > 0 /\ DOMAIN queue = 1..Len(queue)
      /\ DOMAIN queue' = 1..(Len(queue) - 1)
      /\ \A i \in 1..(Len(queue) - 1) : queue'[i] = queue[i + 1]
  OBVIOUS
<1>2. IsFiniteSet(S)
  BY CopiesType
<1>3. f \in Bijection(T, S \ {1})
  <2>1. \A i \in T : i + 1 \in S \ {1}
    <3>1. TAKE i \in T
    <3>2. i \in 1..(Len(queue) - 1) /\ queue'[i] = t
      BY <1>1
    <3>3. i + 1 \in 1..Len(queue) /\ i + 1 # 1 /\ queue[i + 1] = t
      BY <1>1, <3>2
    <3> QED
      BY <1>1, <3>3
  <2>2. f \in [T -> S \ {1}] /\ \A a, b \in T : f[a] = f[b] => a = b
    <3>1. T \subseteq Int
      BY <1>1
    <3> HIDE DEF S, T
    <3> QED
      BY <2>1, <3>1
  <2>3. \A j \in S \ {1} : \E i \in T : f[i] = j
    <3>1. TAKE j \in S \ {1}
    <3>2. j - 1 \in T /\ f[j - 1] = j
      BY <1>1
    <3> QED
      BY <3>2
  <2> HIDE DEF f
  <2> QED
    BY <2>2, <2>3 DEF Bijection, Injection, Surjection, IsInjective
<1>4. IsFiniteSet(T)
  <2>1. IsFiniteSet(1..(Len(queue) - 1))
    BY <1>1, FS_Interval
  <2>2. T \in SUBSET (1..(Len(queue) - 1))
    BY <1>1
  <2> QED
    BY <2>1, <2>2, FS_Subset
<1>5. Cardinality(S \ {1}) = Cardinality(T)
  BY <1>3, <1>4, FS_Bijection DEF ExistsBijection
<1>6. Cardinality(S \ {1}) = IF 1 \in S THEN Cardinality(S) - 1 ELSE Cardinality(S)
  BY <1>2, FS_RemoveElement
<1>7. 1 \in S <=> Head(queue) = t
  BY <1>1
<1>8. Cardinality(S) \in Nat /\ Cardinality(T) \in Nat
  BY <1>2, <1>4, FS_CardinalityType
<1>9. Copies(t)' = Cardinality(T) /\ Copies(t) = Cardinality(S)
  BY DEF Copies
<1> HIDE DEF S, T
<1> QED
  BY <1>5, <1>6, <1>7, <1>8, <1>9 DEF Bit

(* The tasks with a token.                                                 *)
LEMMA CarriersType ==
    ASSUME NEW t
    PROVE  /\ IsFiniteSet(Carriers(t)) /\ Cardinality(Carriers(t)) \in Nat
           /\ Cardinality(Carriers(t)) <= Cardinality(Tasks)
<1>1. Carriers(t) \in SUBSET Tasks
  BY DEF Carriers
<1> QED
  BY <1>1, TaskSet, FS_Subset, FS_CardinalityType

(* One task moves.                                                         *)
LEMMA Move ==
    ASSUME IInv, NEW p \in Tasks, NEW l \in MayBe(p), NEW x \in Tokens \cup {NoToken},
           l \in Quiet <=> x = NoToken, Goto(p, l, x),
           services' = "down" => services = "down" /\ (p = "health" => at[p] # "off")
    PROVE  /\ Placed' /\ at' \in [Tasks -> Labels] /\ tok' \in [Tasks -> Tokens \cup {NoToken}]
           /\ at'[p] = l /\ tok'[p] = x
           /\ \A q \in Tasks \ {p} : at'[q] = at[q] /\ tok'[q] = tok[q]
           /\ \A t \in Tokens :
                Cardinality(Carriers(t))' \in Nat /\
                Cardinality(Carriers(t)) + Bit(x = t /\ l \notin {"check", "grant"}) =
                Cardinality(Carriers(t))' + Bit(tok[p] = t /\ at[p] \notin {"check", "grant"})
<1>1. MayBe(p) \subseteq Labels
  BY DEF MayBe, Labels
<1>2. /\ at' \in [Tasks -> Labels] /\ tok' \in [Tasks -> Tokens \cup {NoToken}]
      /\ at'[p] = l /\ tok'[p] = x
      /\ \A q \in Tasks \ {p} : at'[q] = at[q] /\ tok'[q] = tok[q]
  BY <1>1 DEF IInv, NothingLost, TypeOK, Goto
<1>3. \A q \in Tasks : at'[q] \in MayBe(q) /\ (at'[q] \in Quiet <=> tok'[q] = NoToken)
  BY <1>2 DEF IInv, Placed
<1>4. Placed'
  BY <1>2, <1>3, TaskSet DEF IInv, Placed
<1>5. ASSUME NEW t \in Tokens
      PROVE  Cardinality(Carriers(t))' \in Nat /\
             Cardinality(Carriers(t)) + Bit(x = t /\ l \notin {"check", "grant"}) =
             Cardinality(Carriers(t))' + Bit(tok[p] = t /\ at[p] \notin {"check", "grant"})
  <2> DEFINE C == Carriers(t)
             D == C \ {p}
  <2>1. IsFiniteSet(C) /\ Cardinality(C) \in Nat
    BY CarriersType
  <2>2. p \in C <=> tok[p] = t /\ at[p] \notin {"check", "grant"}
    BY DEF Carriers
  <2>3. Carriers(t)' = IF x = t /\ l \notin {"check", "grant"} THEN D \cup {p} ELSE D
    BY <1>2 DEF Carriers
  <2>4. IsFiniteSet(D) /\ Cardinality(D) + Bit(p \in C) = Cardinality(C) /\ p \notin D
    BY <2>1, FS_RemoveElement DEF Bit
  <2>5. Cardinality(D \cup {p}) = Cardinality(D) + 1 /\ Cardinality(D) \in Nat
    BY <2>4, FS_AddElement, FS_CardinalityType
  <2> HIDE DEF C, D
  <2>6. Cardinality(Carriers(t)') = Cardinality(D) + Bit(x = t /\ l \notin {"check", "grant"})
    BY <2>3, <2>5 DEF Bit
  <2>7. Cardinality(Carriers(t))' = Cardinality(Carriers(t)')
    OBVIOUS
  <2> QED
    BY <2>1, <2>2, <2>4, <2>5, <2>6, <2>7 DEF C, Bit
<1> QED
  BY <1>2, <1>4, <1>5

(* The numbers of IInv.                                                    *)
LEMMA Numbers ==
    ASSUME IInv
    PROVE  /\ TypeOK /\ Placed
           /\ \A t \in Tokens :
                /\ entered[t] \in Nat /\ done[t] \in Nat
                /\ Copies(t) \in Nat /\ Copies(t) <= QueueLen
                /\ Cardinality(Carriers(t)) \in Nat
                /\ entered[t] = Copies(t) + Cardinality(Carriers(t)) + done[t]
<1>1. TypeOK
  BY DEF IInv, NothingLost
<1>2. \A t \in Tokens : Copies(t) \in Nat /\ Copies(t) <= QueueLen
  <2>1. queue \in Seq(Tokens) /\ Len(queue) <= QueueLen /\ Len(queue) \in Nat
    BY <1>1 DEF TypeOK
  <2>2. \A t \in Tokens : Copies(t) \in Nat /\ Copies(t) <= Len(queue)
    BY <2>1, CopiesType
  <2> QED
    BY <2>1, <2>2, SettlementAssumption
<1> QED
  BY <1>1, <1>2, CarriersType DEF IInv, NothingLost, TypeOK

(* What is not touched is not counted again.                               *)
LEMMA CopiesSame ==
    ASSUME UNCHANGED queue, NEW t
    PROVE  Copies(t)' = Copies(t)
BY DEF Copies

(* A body with a token comes in, and the mint is asked about it.           *)
LEMMA PaymentStep ==
    ASSUME IInv,
           \/ \E t \in Tokens : PostPayment(t)
           \/ CheckAnswers \/ CheckFails \/ NoSession
    PROVE  IInv'
<1>1. /\ TypeOK /\ Placed /\ "api" \in Tasks
      /\ UNCHANGED <<spent, wallet, services, queue, has_queue, entered, done>>
  BY Numbers, TaskSet DEF PostPayment, CheckAnswers, CheckFails, NoSession
<1>2. /\ at["api"] \in {"idle", "check", "grant"}
      /\ at["api"] = "idle" => tok["api"] = NoToken
      /\ at["api"] # "idle" => tok["api"] \in Tokens
  BY <1>1 DEF PostPayment, CheckAnswers, CheckFails, NoSession, Placed, Quiet, TypeOK
<1>3. PICK l \in {"idle", "check", "grant"}, x \in Tokens \cup {NoToken} :
        /\ Goto("api", l, x) /\ (l = "idle" <=> x = NoToken)
  <2>1. NoToken \notin Tokens /\ Accepted \subseteq Tokens
    BY SettlementAssumption
  <2>2. CASE \E t \in Tokens : PostPayment(t)
    BY <2>1, <2>2 DEF PostPayment
  <2>3. CASE CheckAnswers
    BY <1>2, <2>1, <2>3 DEF CheckAnswers
  <2>4. CASE CheckFails
    BY <1>2, <2>1, <2>4 DEF CheckFails
  <2>5. CASE NoSession
    BY <2>1, <2>5 DEF NoSession
  <2> QED
    BY <2>2, <2>3, <2>4, <2>5
<1>4. l \in MayBe("api") /\ (l \in Quiet <=> x = NoToken)
  BY <1>3 DEF MayBe, Quiet
<1>5. /\ Placed' /\ at' \in [Tasks -> Labels] /\ tok' \in [Tasks -> Tokens \cup {NoToken}]
      /\ at'["api"] = l /\ tok'["api"] = x
      /\ \A t \in Tokens :
           Cardinality(Carriers(t))' \in Nat /\
           Cardinality(Carriers(t)) + Bit(x = t /\ l \notin {"check", "grant"}) =
           Cardinality(Carriers(t))' + Bit(tok["api"] = t /\ at["api"] \notin {"check", "grant"})
  BY <1>1, <1>3, <1>4, Move
<1>6. \A t \in Tokens : Cardinality(Carriers(t)) = Cardinality(Carriers(t))'
  <2>1. TAKE t \in Tokens
  <2>2. ~(x = t /\ l \notin {"check", "grant"}) /\ ~(tok["api"] = t /\ at["api"] \notin {"check", "grant"})
    BY <1>2, <1>3, SettlementAssumption
  <2> QED
    BY <1>5, <2>2, CarriersType DEF Bit
<1>8. TypeOK'
  BY <1>1, <1>5 DEF TypeOK
<1>9. NothingLost'
  BY <1>1, <1>6, <1>8, Numbers, CopiesSame DEF NothingLost
<1> QED
  BY <1>5, <1>9 DEF IInv

(* A session is opened for a token, or a token is earned.                  *)
LEMMA EnteredStep ==
    ASSUME IInv, OpenSession \/ \E p \in Earners, t \in Tokens : Earn(p, t)
    PROVE  IInv'
<1>1. /\ TypeOK /\ Placed /\ "api" \in Tasks
      /\ UNCHANGED <<spent, wallet, services, queue, has_queue, done>>
  BY Numbers, TaskSet DEF OpenSession, Earn
<1>2. PICK p \in Submitters, x \in Tokens :
        /\ Goto(p, "submit", x) /\ entered' = Inc(entered, x)
        /\ tok[p] = NoToken \/ at[p] = "grant"
  <2>1. CASE OpenSession
    <3>1. at["api"] = "grant" /\ tok["api"] # NoToken
      BY <1>1, <2>1 DEF OpenSession, Placed, Quiet
    <3> QED
      BY <1>1, <2>1, <3>1 DEF OpenSession, Submitters, TypeOK
  <2>2. CASE \E p \in Earners, t \in Tokens : Earn(p, t)
    <3>1. PICK p \in Earners, t \in Tokens : Earn(p, t)
      BY <2>2
    <3>2. p \in Submitters /\ p \in Tasks /\ p # "api"
      BY SettlementAssumption DEF Submitters, Tasks
    <3>3. tok[p] = NoToken
      BY <1>1, <3>1, <3>2 DEF Earn, Placed, Quiet
    <3> QED
      BY <3>1, <3>2, <3>3 DEF Earn
  <2> QED
    BY <2>1, <2>2
<1>3. p \in Tasks /\ p # "health" /\ "submit" \in MayBe(p) /\ "submit" \notin Quiet
      /\ x # NoToken
  BY SettlementAssumption DEF MayBe, Quiet, Tasks, Submitters
<1>4. /\ Placed' /\ at' \in [Tasks -> Labels] /\ tok' \in [Tasks -> Tokens \cup {NoToken}]
      /\ at'[p] = "submit" /\ tok'[p] = x
      /\ \A q \in Tasks \ {p} : at'[q] = at[q] /\ tok'[q] = tok[q]
      /\ \A t \in Tokens :
           Cardinality(Carriers(t))' \in Nat /\
           Cardinality(Carriers(t)) + Bit(x = t /\ "submit" \notin {"check", "grant"}) =
           Cardinality(Carriers(t))' + Bit(tok[p] = t /\ at[p] \notin {"check", "grant"})
  BY <1>1, <1>2, <1>3, Move
<1>5. \A t \in Tokens : Cardinality(Carriers(t))' = Cardinality(Carriers(t)) + Bit(t = x)
  <2>1. TAKE t \in Tokens
  <2>2. ~(tok[p] = t /\ at[p] \notin {"check", "grant"})
    BY <1>2, SettlementAssumption
  <2> QED
    BY <1>4, <2>2, CarriersType DEF Bit
<1>6. entered' \in [Tokens -> Nat] /\ \A t \in Tokens : entered'[t] = entered[t] + Bit(t = x)
  BY <1>1, <1>2 DEF TypeOK, Inc, Bit
<1>7. TypeOK'
  BY <1>1, <1>4, <1>6 DEF TypeOK
<1>8. NothingLost'
  <2>1. ASSUME NEW t \in Tokens
        PROVE  entered'[t] = Copies(t)' + Cardinality(Carriers(t))' + done'[t]
    BY <1>1, <1>5, <1>6, Numbers, CopiesSame DEF Bit
  <2> QED
    BY <1>7, <2>1 DEF NothingLost
<1> QED
  BY <1>4, <1>8 DEF IInv

(* tls_worker_submit goes on with its token.                               *)
LEMMA SubmitStep ==
    ASSUME IInv, NEW p \in Submitters, Submit(p) \/ SendTimesOut(p)
    PROVE  IInv'
<1>1. /\ TypeOK /\ Placed /\ p \in Tasks /\ at[p] \in {"submit", "send"} /\ p # "health"
      /\ UNCHANGED <<spent, wallet, services, queue, has_queue, entered, done>>
  BY Numbers, TaskSet, SettlementAssumption DEF Submit, SendTimesOut, Submitters
<1>2. tok[p] \in Tokens /\ tok[p] # NoToken
  BY <1>1 DEF TypeOK, Placed, Quiet
<1>3. PICK l \in {"send", "receive"} : Goto(p, l, tok[p])
  BY DEF Submit, SendTimesOut
<1>4. l \in MayBe(p) /\ l \notin Quiet
  BY <1>1, <1>3 DEF MayBe, Quiet
<1>5. /\ Placed' /\ at' \in [Tasks -> Labels] /\ tok' \in [Tasks -> Tokens \cup {NoToken}]
      /\ at'[p] = l /\ tok'[p] = tok[p]
      /\ \A q \in Tasks \ {p} : at'[q] = at[q] /\ tok'[q] = tok[q]
      /\ \A t \in Tokens :
           Cardinality(Carriers(t))' \in Nat /\
           Cardinality(Carriers(t)) + Bit(tok[p] = t /\ l \notin {"check", "grant"}) =
           Cardinality(Carriers(t))' + Bit(tok[p] = t /\ at[p] \notin {"check", "grant"})
  BY <1>1, <1>2, <1>3, <1>4, Move
<1>6. TypeOK'
  BY <1>1, <1>5 DEF TypeOK
<1>7. NothingLost'
  <2>1. ASSUME NEW t \in Tokens
        PROVE  Cardinality(Carriers(t))' = Cardinality(Carriers(t))
    <3>1. (tok[p] = t /\ l \notin {"check", "grant"}) <=> (tok[p] = t /\ at[p] \notin {"check", "grant"})
      BY <1>1, <1>3
    <3> QED
      BY <1>5, <3>1, CarriersType DEF Bit
  <2> QED
    BY <1>1, <1>6, <2>1, Numbers, CopiesSame DEF NothingLost
<1> QED
  BY <1>5, <1>7 DEF IInv

(* xQueueSend.                                                             *)
LEMMA SendStep ==
    ASSUME IInv, NEW p \in Submitters, Send(p)
    PROVE  IInv'
<1>1. /\ TypeOK /\ Placed /\ p \in Tasks /\ at[p] = "send" /\ p # "health"
      /\ queue' = Append(queue, tok[p]) /\ Len(queue) < QueueLen
      /\ Goto(p, "idle", NoToken)
      /\ UNCHANGED <<spent, wallet, services, has_queue, entered, done>>
  BY Numbers, TaskSet, SettlementAssumption DEF Send, Submitters
<1>2. tok[p] \in Tokens
  BY <1>1 DEF TypeOK, Placed, Quiet
<1>3. "idle" \in MayBe(p) /\ "idle" \in Quiet
  BY <1>1 DEF MayBe, Quiet
<1>4. /\ Placed' /\ at' \in [Tasks -> Labels] /\ tok' \in [Tasks -> Tokens \cup {NoToken}]
      /\ at'[p] = "idle" /\ tok'[p] = NoToken
      /\ \A q \in Tasks \ {p} : at'[q] = at[q] /\ tok'[q] = tok[q]
      /\ \A t \in Tokens :
           Cardinality(Carriers(t))' \in Nat /\
           Cardinality(Carriers(t)) + Bit(NoToken = t /\ "idle" \notin {"check", "grant"}) =
           Cardinality(Carriers(t))' + Bit(tok[p] = t /\ at[p] \notin {"check", "grant"})
  BY <1>1, <1>3, Move
<1>5. queue' \in Seq(Tokens) /\ Len(queue') <= QueueLen /\ queue \in Seq(Tokens)
  BY <1>1, <1>2, SettlementAssumption DEF TypeOK
<1>6. TypeOK'
  BY <1>1, <1>4, <1>5 DEF TypeOK
<1>7. NothingLost'
  <2>1. ASSUME NEW t \in Tokens
        PROVE  Copies(t) + Cardinality(Carriers(t)) = Copies(t)' + Cardinality(Carriers(t))'
    <3>1. Copies(t)' = Copies(t) + Bit(tok[p] = t)
      BY <1>1, <1>2, <1>5, CopiesAppend
    <3>2. Cardinality(Carriers(t)) = Cardinality(Carriers(t))' + Bit(tok[p] = t)
      BY <1>1, <1>4, CarriersType, SettlementAssumption DEF Bit
    <3>3. Copies(t) \in Nat /\ Cardinality(Carriers(t))' \in Nat /\ Bit(tok[p] = t) \in Nat
      BY <1>4, Numbers DEF Bit
    <3> QED
      BY <3>1, <3>2, <3>3
  <2>2. ASSUME NEW t \in Tokens
        PROVE  entered'[t] = Copies(t)' + Cardinality(Carriers(t))' + done'[t]
    BY <1>1, <2>1, Numbers
  <2> QED
    BY <1>6, <2>2 DEF NothingLost
<1> QED
  BY <1>4, <1>7 DEF IInv

(* A submission is over.                                                   *)
LEMMA OverStep ==
    ASSUME IInv, NEW p \in Tasks, NEW l \in Quiet, l \in MayBe(p), Goto(p, l, NoToken),
           at[p] \notin {"check", "grant", "off"}, tok[p] \in Tokens,
           done' = Inc(done, tok[p]), spent \subseteq spent', spent' \subseteq Tokens,
           wallet' \subseteq spent',
           UNCHANGED <<services, queue, has_queue, entered>>
    PROVE  IInv'
<1>1. TypeOK /\ Placed
  BY Numbers
<1>2. /\ Placed' /\ at' \in [Tasks -> Labels] /\ tok' \in [Tasks -> Tokens \cup {NoToken}]
      /\ at'[p] = l /\ tok'[p] = NoToken
      /\ \A q \in Tasks \ {p} : at'[q] = at[q] /\ tok'[q] = tok[q]
      /\ \A t \in Tokens :
           Cardinality(Carriers(t))' \in Nat /\
           Cardinality(Carriers(t)) + Bit(NoToken = t /\ l \notin {"check", "grant"}) =
           Cardinality(Carriers(t))' + Bit(tok[p] = t /\ at[p] \notin {"check", "grant"})
  BY Move
<1>3. \A t \in Tokens : Cardinality(Carriers(t)) = Cardinality(Carriers(t))' + Bit(t = tok[p])
  BY <1>2, CarriersType, SettlementAssumption DEF Bit
<1>4. done' \in [Tokens -> Nat] /\ \A t \in Tokens : done'[t] = done[t] + Bit(t = tok[p])
  BY <1>1 DEF TypeOK, Inc, Bit
<1>6. TypeOK'
  BY <1>1, <1>2, <1>4 DEF TypeOK
<1>7. NothingLost'
  <2>1. ASSUME NEW t \in Tokens
        PROVE  entered'[t] = Copies(t)' + Cardinality(Carriers(t))' + done'[t]
    <3>1. /\ Copies(t)' = Copies(t) /\ Copies(t) \in Nat /\ Cardinality(Carriers(t))' \in Nat
          /\ done[t] \in Nat /\ Bit(t = tok[p]) \in Nat /\ entered'[t] = entered[t]
      BY <1>2, Numbers, CopiesSame DEF Bit
    <3>2. /\ Cardinality(Carriers(t)) = Cardinality(Carriers(t))' + Bit(t = tok[p])
          /\ done'[t] = done[t] + Bit(t = tok[p])
          /\ entered[t] = Copies(t) + Cardinality(Carriers(t)) + done[t]
      BY <1>3, <1>4, Numbers
    <3> QED
      BY <3>1, <3>2
  <2> QED
    BY <1>6, <2>1 DEF NothingLost
<1> QED
  BY <1>2, <1>7 DEF IInv

(* No memory for the copy, or nucula_wallet_receive returns.               *)
LEMMA EndStep ==
    ASSUME IInv, \/ \E p \in Submitters : SubmitNoMemory(p)
                 \/ \E p \in Tasks : Receive(p)
    PROVE  IInv'
<1>1. TypeOK /\ Placed
  BY Numbers
<1>2. CASE \E p \in Submitters : SubmitNoMemory(p)
  <2>1. PICK p \in Submitters : SubmitNoMemory(p)
    BY <1>2
  <2>2. p \in Tasks /\ p # "health" /\ at[p] = "submit"
    BY <2>1, TaskSet, SettlementAssumption DEF SubmitNoMemory, Submitters
  <2>3. tok[p] \in Tokens
    BY <1>1, <2>2 DEF TypeOK, Placed, Quiet
  <2>4. "idle" \in MayBe(p) /\ "idle" \in Quiet
    BY <2>2 DEF Quiet, MayBe
  <2>5. /\ Goto(p, "idle", NoToken) /\ done' = Inc(done, tok[p])
        /\ UNCHANGED <<spent, wallet, services, queue, has_queue, entered>>
    BY <2>1 DEF SubmitNoMemory
  <2>6. spent \subseteq spent' /\ spent' \subseteq Tokens /\ wallet' \subseteq spent'
    BY <1>1, <2>5 DEF TypeOK
  <2>7. at[p] \notin {"check", "grant", "off"}
    BY <2>2
  <2> QED
    BY <2>2, <2>3, <2>4, <2>5, <2>6, <2>7, OverStep
<1>3. CASE \E p \in Tasks : Receive(p)
  <2>1. PICK p \in Tasks : Receive(p)
    BY <1>3
  <2>2. at[p] \in {"receive", "poll_receive", "drain_receive"}
    BY <2>1 DEF Receive, ReceiveSwaps, ReceiveAnswerLost, ReceiveFails, Receiving
  <2>3. tok[p] \in Tokens
    BY <1>1, <2>2 DEF TypeOK, Placed, Quiet
  <2>4. Returned(p) \in MayBe(p) /\ Returned(p) \in Quiet
    BY <1>1, <2>2 DEF Placed, Quiet, MayBe, Returned
  <2>5. /\ Goto(p, Returned(p), NoToken) /\ done' = Inc(done, tok[p])
        /\ UNCHANGED <<services, queue, has_queue, entered>>
    BY <2>1 DEF Receive, ReceiveSwaps, ReceiveAnswerLost, ReceiveFails
  <2>6. /\ spent \subseteq spent' /\ spent' \subseteq Tokens /\ wallet' \subseteq spent'
    <3>1. CASE ReceiveSwaps(p) \/ ReceiveAnswerLost(p)
      BY <1>1, <2>3, <3>1 DEF TypeOK, ReceiveSwaps, ReceiveAnswerLost
    <3>2. CASE ReceiveFails(p)
      <4>1. UNCHANGED <<spent, wallet>> /\ wallet \subseteq spent /\ spent \subseteq Tokens
        BY <1>1, <3>2 DEF TypeOK, ReceiveFails
      <4> QED
        BY <4>1
    <3> QED
      BY <2>1, <3>1, <3>2 DEF Receive
  <2>7. at[p] \notin {"check", "grant", "off"}
    BY <2>2
  <2> QED
    BY <2>3, <2>4, <2>5, <2>6, <2>7, OverStep
<1> QED
  BY <1>2, <1>3

(* xQueueReceive: the first token of the queue is the task's.              *)
LEMMA TakeStep ==
    ASSUME IInv, TakeFromQueue
    PROVE  IInv'
<1> DEFINE l == IF at["health"] = "poll" THEN "poll_receive" ELSE "drain_receive"
           x == Head(queue)
<1>1. /\ TypeOK /\ Placed /\ "health" \in Tasks /\ at["health"] \in {"poll", "drain"}
      /\ queue # <<>> /\ queue' = Tail(queue) /\ Goto("health", l, x)
      /\ UNCHANGED <<spent, wallet, services, has_queue, entered, done>>
  BY Numbers, TaskSet DEF TakeFromQueue
<1>2. queue \in Seq(Tokens) /\ x \in Tokens /\ queue' \in Seq(Tokens)
      /\ Len(queue') <= QueueLen
  BY <1>1, SettlementAssumption DEF TypeOK
<1>3. l \in MayBe("health") /\ l \notin Quiet /\ l \notin {"check", "grant"} /\ x # NoToken
  BY <1>2, SettlementAssumption DEF MayBe, Quiet
<1>4. tok["health"] = NoToken
  BY <1>1 DEF Placed, Quiet
<1> HIDE DEF l, x
<1>5. /\ Placed' /\ at' \in [Tasks -> Labels] /\ tok' \in [Tasks -> Tokens \cup {NoToken}]
      /\ at'["health"] = l /\ tok'["health"] = x
      /\ \A q \in Tasks \ {"health"} : at'[q] = at[q] /\ tok'[q] = tok[q]
      /\ \A t \in Tokens :
           Cardinality(Carriers(t))' \in Nat /\
           Cardinality(Carriers(t)) + Bit(x = t /\ l \notin {"check", "grant"}) =
           Cardinality(Carriers(t))' + Bit(tok["health"] = t /\ at["health"] \notin {"check", "grant"})
  BY <1>1, <1>2, <1>3, Move
<1>6. TypeOK'
  BY <1>1, <1>2, <1>5 DEF TypeOK
<1>7. NothingLost'
  <2>1. ASSUME NEW t \in Tokens
        PROVE  entered'[t] = Copies(t)' + Cardinality(Carriers(t))' + done'[t]
    <3>1. Copies(t)' \in Nat /\ Copies(t) = Copies(t)' + Bit(x = t)
      BY <1>1, <1>2, CopiesTail DEF x
    <3>2. Cardinality(Carriers(t))' = Cardinality(Carriers(t)) + Bit(x = t)
      BY <1>3, <1>4, <1>5, CarriersType, SettlementAssumption DEF Bit
    <3>3. /\ Cardinality(Carriers(t)) \in Nat /\ Bit(x = t) \in Nat /\ done[t] \in Nat
          /\ entered[t] = Copies(t) + Cardinality(Carriers(t)) + done[t]
      BY Numbers DEF Bit
    <3> QED
      BY <1>1, <3>1, <3>2, <3>3
  <2> QED
    BY <1>6, <2>1 DEF NothingLost
<1> QED
  BY <1>5, <1>7 DEF IInv

(* The rest of the health task holds no token.                             *)
LEMMA HealthStep ==
    ASSUME IInv, IntervalOver \/ ProbesDone \/ QueueDrained \/ StartHealth
    PROVE  IInv'
<1>1. /\ TypeOK /\ Placed /\ "health" \in Tasks
      /\ UNCHANGED <<spent, wallet, queue, entered, done>>
  BY Numbers, TaskSet DEF IntervalOver, ProbesDone, QueueDrained, StartHealth
<1>2. /\ at["health"] \in {"off", "poll", "probe", "drain"}
      /\ services' \in {"down", "queue", "up"} /\ has_queue' \in BOOLEAN
      /\ services' = "down" => services = "down" /\ at["health"] # "off"
  BY <1>1 DEF IntervalOver, ProbesDone, QueueDrained, StartHealth, TypeOK, Placed
<1>3. PICK l \in {"probe", "drain", "poll"} : Goto("health", l, NoToken)
  BY DEF IntervalOver, ProbesDone, QueueDrained, StartHealth
<1>4. l \in MayBe("health") /\ l \in Quiet
  BY <1>3 DEF MayBe, Quiet
<1>5. tok["health"] = NoToken
  BY <1>1, <1>2 DEF Placed, Quiet
<1>6. /\ Placed' /\ at' \in [Tasks -> Labels] /\ tok' \in [Tasks -> Tokens \cup {NoToken}]
      /\ at'["health"] = l /\ tok'["health"] = NoToken
      /\ \A q \in Tasks \ {"health"} : at'[q] = at[q] /\ tok'[q] = tok[q]
      /\ \A t \in Tokens :
           Cardinality(Carriers(t))' \in Nat /\
           Cardinality(Carriers(t)) + Bit(NoToken = t /\ l \notin {"check", "grant"}) =
           Cardinality(Carriers(t))' + Bit(tok["health"] = t /\ at["health"] \notin {"check", "grant"})
  BY <1>1, <1>2, <1>3, <1>4, Move
<1>7. TypeOK'
  BY <1>1, <1>2, <1>6 DEF TypeOK
<1>8. NothingLost'
  <2>1. \A t \in Tokens : Cardinality(Carriers(t)) = Cardinality(Carriers(t))'
    BY <1>5, <1>6, CarriersType, SettlementAssumption DEF Bit
  <2> QED
    BY <1>1, <1>7, <2>1, Numbers, CopiesSame DEF NothingLost
<1> QED
  BY <1>6, <1>8 DEF IInv

(* The wallet, what others do with a token, and nothing at all.            *)
LEMMA ElsewhereStep ==
    ASSUME IInv, \/ StartWallet \/ UNCHANGED vars
                 \/ \E t \in Tokens : SpentElsewhere(t)
    PROVE  IInv'
<1>1. /\ TypeOK /\ Placed /\ spent \subseteq spent' /\ spent' \subseteq Tokens
      /\ services' = services \/ services' = "up"
      /\ UNCHANGED <<wallet, queue, has_queue, at, tok, entered, done>>
  BY Numbers DEF StartWallet, SpentElsewhere, vars, TypeOK
<1>2. TypeOK'
  BY <1>1 DEF TypeOK
<1>3. Placed'
  BY <1>1 DEF Placed
<1>4. \A t \in Tokens : Carriers(t)' = Carriers(t)
  BY <1>1 DEF Carriers
<1>5. NothingLost'
  BY <1>1, <1>2, <1>4, Numbers, CopiesSame DEF NothingLost
<1> QED
  BY <1>3, <1>5 DEF IInv

(* Before start_services.                                                  *)
LEMMA InitIInv ==
    ASSUME Init
    PROVE  IInv
<1>1. /\ \A p \in Tasks : at[p] = (IF p = "health" THEN "off" ELSE "idle") /\ tok[p] = NoToken
      /\ \A t \in Tokens : entered[t] = 0 /\ done[t] = 0
  BY DEF Init
<1>2. TypeOK
  <2>1. at \in [Tasks -> Labels] /\ tok \in [Tasks -> Tokens \cup {NoToken}]
    BY DEF Init, Labels
  <2>2. entered \in [Tokens -> Nat] /\ done \in [Tokens -> Nat]
    BY DEF Init
  <2>3. queue \in Seq(Tokens) /\ Len(queue) <= QueueLen
    BY SettlementAssumption DEF Init
  <2> QED
    BY <2>1, <2>2, <2>3 DEF Init, TypeOK
<1>3. Placed
  BY <1>1, TaskSet DEF Placed, MayBe, Quiet
<1>4. \A t \in Tokens : Copies(t) = 0 /\ Carriers(t) = {}
  <2>1. TAKE t \in Tokens
  <2>2. {i \in DOMAIN queue : queue[i] = t} = {}
    BY DEF Init
  <2>3. Carriers(t) = {}
    BY <1>1, SettlementAssumption DEF Carriers
  <2> QED
    BY <2>2, <2>3, FS_EmptySet DEF Copies
<1>5. NothingLost
  BY <1>1, <1>2, <1>4, FS_EmptySet DEF NothingLost
<1> QED
  BY <1>3, <1>5 DEF IInv

(* Every step keeps the invariant.                                         *)
LEMMA NextIInv ==
    ASSUME IInv, [Next]_vars
    PROVE  IInv'
<1>1. CASE \/ \E t \in Tokens : PostPayment(t) \/ SpentElsewhere(t)
           \/ CheckAnswers \/ CheckFails \/ OpenSession \/ NoSession
  BY <1>1, PaymentStep, EnteredStep, ElsewhereStep
<1>2. CASE \E p \in Earners, t \in Tokens : Earn(p, t)
  BY <1>2, EnteredStep
<1>3. CASE \E p \in Submitters : Work(p)
  BY <1>3, SubmitStep, SendStep, EndStep DEF Work
<1>4. CASE \E p \in Tasks : Receive(p)
  BY <1>4, EndStep
<1>5. CASE HealthSteps \/ StartHealth \/ StartWallet \/ UNCHANGED vars
  BY <1>5, TakeStep, HealthStep, ElsewhereStep DEF HealthSteps
<1> QED
  BY <1>1, <1>2, <1>3, <1>4, <1>5 DEF Next

(***************************************************************************)
(* The results.                                                            *)
(***************************************************************************)

(* The inductive invariant holds in every reachable state.                 *)
THEOREM SettlementInvariant == Spec => []IInv
<1>1. Init => IInv
  BY InitIInv
<1>2. IInv /\ [Next]_vars => IInv'
  BY NextIInv
<1> QED
  BY <1>1, <1>2, PTL DEF Spec

(* tls_worker_submit, the wallet queue and its task account for every      *)
(* token that bought a session or was earned, for any length of the queue  *)
(* and any number of submitters, and the queue keeps to its length.        *)
THEOREM SettlementNothingLost == Spec => []NothingLost
<1>1. IInv => NothingLost
  BY DEF IInv
<1> QED
  BY <1>1, SettlementInvariant, PTL
=============================================================================
