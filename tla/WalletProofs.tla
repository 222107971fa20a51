---------------------------- MODULE WalletProofs ----------------------------
(***************************************************************************)
(* Proofs about the wallet, for any number of wallets, proofs and          *)
(* recipients and any of the calling tasks.                                *)
(*                                                                         *)
(* IInv has four parts.  Shape says what a call has in its hands at each   *)
(* of its places.  Fresh says that what the mint has just made is nobody   *)
(* else's, whatever calls overlap: this gives HandedOutOnce.  Exclusive    *)
(* says that, as long as no take of the lock timed out, one call at most   *)
(* is past the lock and its picture of the proofs is true: with it no step *)
(* but those that Accounted names loses anything.  Paid bounds what a      *)
(* payout has paid so far: this gives ReserveKept.                         *)
(***************************************************************************)
EXTENDS Wallet, FiniteSetTheorems, WellFoundedInduction, TLAPS

AllOps == {"none", "receive", "send", "swap_all", "melt", "balance"}

Calls == [at : Places, op : AllOps, slot : Slots, n : Nat, in : SUBSET Proofs,
          rem : SUBSET Proofs, new : SUBSET Proofs, change : SUBSET Proofs]

Payouts == [balance : Nat, pool : 0..(Width - 1), left : 0..Recipients,
            factors : Nat, paid : Nat]

(* What a call has in its hands, and where.                                *)
Shaped(c) ==
    /\ c.at # "save" => c.new = {} /\ c.change = {}
    /\ c.at \notin {"mint", "save"} => c.rem = {} /\ (c.op # "receive" => c.in = {})
    /\ c.at = "leave" => c.in = {}
    /\ c.at = "idle" => c = Idle
    /\ c.op # "send" => c.change = {}
    /\ c.new \cap c.change = {}

Shape ==
    /\ task \in [Tasks -> Calls]
    /\ pay \in Payouts
    /\ \A t \in Tasks : /\ Shaped(task[t])
                        /\ task[t].op = "balance" => t = "main"

(* What the mint has just made for a call.                                 *)
JustMade(t) == task[t].new \cup task[t].change

Fresh ==
    /\ out \cap (InMemory \cup InNvs) = {}
    /\ \A t \in Tasks : /\ JustMade(t) \cap (InMemory \cup InNvs \cup out) = {}
                        /\ task[t].rem \cap out = {}
    /\ \A t, u \in Tasks : /\ JustMade(t) \cap task[u].rem = {}
                           /\ t # u => JustMade(t) \cap JustMade(u) = {}

(* Past the lock.                                                          *)
Inside(t) == task[t].at \notin {"idle", "wait"}

(* What the call has selected is what it believes.                         *)
Informed(t) ==
    LET c == task[t]
    IN  /\ c.at = "save" => c.in \cap spendable = {}
        /\ c.at \in {"mint", "save"} /\ c.op # "receive" => c.in \subseteq proofs[c.slot]
        /\ c.at \in {"mint", "save"} /\ c.op = "send" => c.rem = proofs[c.slot] \ c.in
        /\ c.at \in {"mint", "save"} /\ c.op = "swap_all" => c.in = proofs[c.slot]

Exclusive ==
    ~overlap => /\ \A t \in Tasks : Inside(t) => holder = t
                /\ \A t \in Tasks : Informed(t)

(* The payout's melt that was begun, and the most it may cost.             *)
Pending == IF "main" \in Tasks /\ task["main"].op = "melt"
              /\ task["main"].at \in {"wait", "keys", "mint"}
           THEN task["main"].n ELSE 0

(* What the recipients so far may have cost, in hundredths of hundredths:  *)
(* their factors of the pool, half a unit for each, and the tolerance.     *)
Most(p) == (p.pool * p.factors + 50 * (Recipients - p.left)) * (100 + FeePct)

Paid ==
    /\ 10000 * (pay.paid + Pending) <= Most(pay)
    /\ pay = NoPay => Pending = 0
    /\ pay # NoPay => /\ pay.balance >= MinPayout /\ pay.pool > 0
                      /\ pay.pool = (pay.balance - MinBalance) % Width
    /\ pay.balance < Width

IInv == TypeOK /\ (saved = proofs \/ unsaved) /\ Shape /\ Fresh /\ Exclusive /\ Paid

(***************************************************************************)
(* The constants, and the operators the actions are built from.            *)
(***************************************************************************)

(* Whoever calls is one of the five tasks; nobody is called "free".        *)
LEMMA TaskNames == Tasks \subseteq {"health", "api", "main", "event", "cvm"} /\ "free" \notin Tasks
BY WalletAssumption DEF Ops

(* Sets of proofs are finite.                                              *)
LEMMA ProofSets ==
    ASSUME NEW S \in SUBSET Proofs
    PROVE  IsFiniteSet(S) /\ Cardinality(S) \in Nat /\ Cardinality(S) < Width
<1>1. IsFiniteSet(S) /\ Cardinality(S) <= Cardinality(Proofs)
  BY WalletAssumption, FS_Subset
<1> QED
  BY <1>1, FS_CardinalityType, WalletAssumption

(* The first wallet of a set of wallets is one of them.                    *)
LEMMA MinIn ==
    ASSUME NEW S \in SUBSET Slots, S # {}
    PROVE  Min(S) \in S
<1> DEFINE Less == {ss \in Nat \X Nat : ss[1] < ss[2]}
<1>1. S \subseteq Nat
  BY WalletAssumption DEF Slots
<1>2. IsWellFoundedOn(Less, Nat)
  BY NatLessThanWellFounded, Zenon DEF OpToRel
<1>3. PICK i \in S : \A j \in S : <<j, i>> \notin Less
  BY <1>1, <1>2, WFMin
<1>4. ASSUME NEW j \in S, j < i
      PROVE  FALSE
  <2>1. <<j, i>> \in Less
    BY <1>1, <1>4
  <2> QED
    BY <1>3, <2>1
<1>5. \A j \in S : i <= j
  BY <1>1, <1>4
<1> QED
  BY <1>5 DEF Min

(* A token is sent from a wallet that is there.                            *)
LEMMA WalletForSendType ==
    ASSUME NEW n \in Nat
    PROVE  WalletForSend(n) \in Slots
<1> DEFINE S == {s \in Slots : Balance(s) >= n}
<1>1. 0 \in Slots
  BY WalletAssumption DEF Slots
<1>2. CASE S = {}
  BY <1>1, <1>2 DEF WalletForSend
<1>3. CASE S # {}
  BY <1>3, MinIn DEF WalletForSend
<1> QED
  BY <1>2, <1>3

(* What a call is about once it has the lock.                              *)
LEMMA ChosenType ==
    ASSUME Shape, NEW t \in Tasks, proofs \in [Slots -> SUBSET Proofs]
    PROVE  Chosen(t) \in Slots \cup {-1}
<1>1. \A n \in Nat : WalletForSend(n) \in Slots
  BY WalletForSendType
<1>2. CASE task[t].op = "send"
  BY <1>1, <1>2 DEF Chosen, Shape, Calls
<1>3. CASE task[t].op = "melt"
  <2> DEFINE S == {s \in Slots : proofs[s] # {}}
  <2>1. InMemory # {} => S # {}
    BY DEF InMemory
  <2>2. S # {} => Min(S) \in Slots
    BY MinIn
  <2> QED
    BY <1>3, <2>1, <2>2 DEF Chosen
<1> QED
  BY <1>2, <1>3 DEF Chosen, Shape, Calls

(* Only a melt without a balance, or a question for it, is about none.     *)
LEMMA ChosenSlot ==
    ASSUME Shape, NEW t \in Tasks, proofs \in [Slots -> SUBSET Proofs], Chosen(t) = -1
    PROVE  task[t].op \in {"melt", "balance"}
<1>1. \A n \in Nat : WalletForSend(n) # -1
  BY WalletForSendType, WalletAssumption DEF Slots
<1> QED
  BY <1>1, WalletAssumption DEF Chosen, Shape, Calls, Slots

(* A tick of the payout starts with amounts of its width.                  *)
LEMMA PoolType ==
    ASSUME proofs \in [Slots -> SUBSET Proofs]
    PROVE  /\ Pool \in Payouts /\ Pool.paid = 0 /\ Pool.factors = 0
           /\ Pool # NoPay => /\ Pool.balance >= MinPayout /\ Pool.pool > 0
                              /\ Pool.left = Recipients
                              /\ Pool.pool = (Pool.balance - MinBalance) % Width
           /\ Pool.balance < Width
<1> DEFINE p == (Total - MinBalance) % Width
<1>1. InMemory \in SUBSET Proofs
  BY DEF InMemory
<1>2. Total \in Nat /\ Total < Width
  BY <1>1, ProofSets DEF Total
<1>3. p \in 0..(Width - 1)
  BY <1>2, WalletAssumption
<1>5. /\ NoPay \in Payouts /\ NoPay.paid = 0 /\ NoPay.factors = 0 /\ NoPay.balance = 0
      /\ Width > 0
  BY <1>2, WalletAssumption DEF NoPay, Payouts
<1>6. CASE Total < MinPayout \/ p = 0
  BY <1>5, <1>6 DEF Pool
<1>7. CASE ~(Total < MinPayout \/ p = 0)
  <2>1. p > 0
    BY <1>3, <1>7
  <2>2. Pool = [balance |-> Total, pool |-> p, left |-> Recipients, factors |-> 0, paid |-> 0]
    BY <1>7 DEF Pool, NoPay
  <2> HIDE DEF p
  <2> QED
    BY <1>2, <1>3, <1>7, <2>1, <2>2, WalletAssumption DEF Payouts, p
<1> QED
  BY <1>6, <1>7

(* A task that is not in a call.                                           *)
LEMMA IdleType ==
    /\ Idle \in Calls /\ Shaped(Idle) /\ Idle.at = "idle" /\ Idle.op = "none"
    /\ Idle.in = {} /\ Idle.rem = {} /\ Idle.new = {} /\ Idle.change = {}
BY WalletAssumption DEF Idle, Calls, Shaped, Places, AllOps, Slots

(* What a call begins with.                                                *)
LEMMA BegunCall ==
    ASSUME NEW o \in AllOps, NEW s \in Slots, NEW k \in Nat, NEW S \in SUBSET Proofs
    PROVE  LET c == [Idle EXCEPT !.at = "wait", !.op = o, !.slot = s, !.n = k, !.in = S]
           IN  /\ c \in Calls /\ c.at = "wait" /\ c.op = o /\ c.slot = s /\ c.n = k /\ c.in = S
               /\ c.rem = {} /\ c.new = {} /\ c.change = {}
BY IdleType DEF Calls, Places

(* A call that goes on has nothing left in its hands.                      *)
LEMMA NextPlaceType ==
    ASSUME Shape, NEW t \in Tasks, task[t].at # "idle"
    PROVE  LET c == NextPlace(t)
           IN  /\ c \in Calls /\ Shaped(c)
               /\ c.op = task[t].op /\ c.at \in {"keys", "leave"}
               /\ c.in = {} /\ c.rem = {} /\ c.new = {} /\ c.change = {}
<1>1. task[t] \in Calls /\ Shaped(task[t])
  BY DEF Shape
<1>2. CASE task[t].op = "swap_all" /\ task[t].slot < LastSlot
  <2>1. task[t].slot + 1 \in Slots
    BY <1>1, <1>2, WalletAssumption DEF Calls, Slots
  <2>2. NextPlace(t) = [at |-> "keys", op |-> "swap_all", slot |-> task[t].slot + 1,
                        n |-> task[t].n, in |-> {}, rem |-> {}, new |-> {}, change |-> {}]
    BY <1>1, <1>2 DEF NextPlace, Calls
  <2> QED
    BY <1>1, <1>2, <2>1, <2>2 DEF Calls, Shaped, Places
<1>3. CASE ~(task[t].op = "swap_all" /\ task[t].slot < LastSlot)
  <2>1. NextPlace(t) = [at |-> "leave", op |-> task[t].op, slot |-> task[t].slot,
                        n |-> task[t].n, in |-> {}, rem |-> {}, new |-> {}, change |-> {}]
    BY <1>1, <1>3 DEF NextPlace, Calls
  <2> QED
    BY <1>1, <2>1 DEF Calls, Shaped, Places
<1> QED
  BY <1>2, <1>3

(* When one call changes the shape of all of them is kept.                 *)
LEMMA OneCall ==
    ASSUME Shape, NEW t \in Tasks, NEW c \in Calls, Shaped(c),
           c.op = "balance" => t = "main",
           task' = [task EXCEPT ![t] = c], pay' \in Payouts
    PROVE  /\ Shape'
           /\ task'[t] = c
           /\ \A u \in Tasks \ {t} : task'[u] = task[u]
<1>1. task' \in [Tasks -> Calls] /\ task'[t] = c /\ \A u \in Tasks \ {t} : task'[u] = task[u]
  BY DEF Shape
<1>2. ASSUME NEW u \in Tasks
      PROVE  Shaped(task'[u]) /\ (task'[u].op = "balance" => u = "main")
  BY <1>1 DEF Shape
<1>3. \A u \in Tasks : /\ Shaped(task[u])'
                       /\ (task[u].op = "balance" => u = "main")'
  BY <1>2 DEF Shaped
<1> QED
  BY <1>1, <1>3 DEF Shape

(***************************************************************************)
(* Types and the shape of the calls.                                       *)
(***************************************************************************)
Typed == TypeOK /\ (saved = proofs \/ unsaved) /\ Shape

(* What of the types a step of one call has to see to.                     *)
LEMMA OneCallTyped ==
    ASSUME Typed, NEW t \in Tasks, NEW c \in Calls, Shaped(c),
           c.op = "balance" => t = "main",
           task' = [task EXCEPT ![t] = c], pay' \in Payouts,
           proofs' \in [Slots -> SUBSET Proofs], saved' \in [Slots -> SUBSET Proofs],
           spendable' \subseteq Proofs, out' \subseteq Proofs,
           loaded' \in [Slots -> BOOLEAN], attempts' \in [Slots -> 0..Overflow],
           overlap' \in BOOLEAN, unsaved' \in BOOLEAN, saved' = proofs' \/ unsaved',
           \/ holder' = holder /\ (holder = t => c.at \notin {"idle", "wait"})
           \/ holder' = t /\ c.at \notin {"idle", "wait"}
           \/ holder' = "free"
    PROVE  Typed'
<1>1. Shape' /\ task'[t] = c /\ \A u \in Tasks \ {t} : task'[u] = task[u]
  BY OneCall DEF Typed
<1>2. holder' \in Tasks \cup {"free"}
  BY DEF Typed, TypeOK
<1>3. holder' # "free" => task'[holder'].at \notin {"idle", "wait"}
  BY <1>1, <1>2, TaskNames DEF Typed, TypeOK
<1>4. \A u \in Tasks : task'[u].at \in Places /\ task'[u].slot \in Slots /\ task'[u].n \in Nat
  BY <1>1 DEF Shape, Calls
<1>5. /\ pay'.left \in 0..Recipients /\ pay'.pool \in 0..(Width - 1) /\ pay'.paid \in Nat
      /\ pay'.factors \in Nat
  BY DEF Payouts
<1> QED
  BY <1>1, <1>2, <1>3, <1>4, <1>5 DEF Typed, TypeOK

(* A step that leaves the calls, the NVS and the lock alone.               *)
LEMMA NoCallTyped ==
    ASSUME Typed, UNCHANGED <<task, holder>>, pay' \in Payouts,
           proofs' \in [Slots -> SUBSET Proofs], saved' \in [Slots -> SUBSET Proofs],
           spendable' \subseteq Proofs, out' \subseteq Proofs,
           loaded' \in [Slots -> BOOLEAN], attempts' \in [Slots -> 0..Overflow],
           overlap' \in BOOLEAN, unsaved' \in BOOLEAN, saved' = proofs' \/ unsaved'
    PROVE  Typed'
<1>1. Shape'
  BY DEF Typed, Shape, Shaped
<1>2. /\ pay'.left \in 0..Recipients /\ pay'.pool \in 0..(Width - 1) /\ pay'.paid \in Nat
      /\ pay'.factors \in Nat
  BY DEF Payouts
<1> QED
  BY <1>1, <1>2 DEF Typed, TypeOK

(* A call begins.                                                          *)
LEMMA CallTyped ==
    ASSUME Typed, NEW t \in Tasks, NEW op \in AllOps, NEW slot \in Slots, NEW n \in Nat,
           NEW in \in SUBSET Proofs, Call(t, op, slot, n, in),
           op # "receive" => in = {}, op = "balance" => t = "main",
           pay' \in Payouts, spendable' \subseteq Proofs,
           UNCHANGED <<proofs, saved, out, keys, holder, overlap, unsaved>>
    PROVE  /\ Typed'
           /\ task[t] = Idle
           /\ LET c == task'[t]
              IN  /\ c.at = "wait" /\ c.op = op /\ c.slot = slot /\ c.n = n /\ c.in = in
                  /\ c.rem = {} /\ c.new = {} /\ c.change = {}
           /\ \A u \in Tasks \ {t} : task'[u] = task[u]
<1> DEFINE c == [Idle EXCEPT !.at = "wait", !.op = op, !.slot = slot, !.n = n, !.in = in]
<1>1. /\ c \in Calls /\ c.at = "wait" /\ c.op = op /\ c.slot = slot /\ c.n = n /\ c.in = in
      /\ c.rem = {} /\ c.new = {} /\ c.change = {}
  BY BegunCall
<1>2. Shaped(c)
  BY <1>1 DEF Shaped
<1>3. task' = [task EXCEPT ![t] = c] /\ task[t].at = "idle"
  BY DEF Call, At
<1>4. holder # t
  BY <1>3, TaskNames DEF Typed, TypeOK
<1>5. Typed'
  <2> HIDE DEF c
  <2> QED
    BY <1>1, <1>2, <1>3, <1>4, OneCallTyped DEF Typed, TypeOK, keys
<1>6. task[t] = Idle
  BY <1>3 DEF Typed, Shape, Shaped
<1> HIDE DEF c
<1> QED
  BY <1>1, <1>3, <1>5, <1>6 DEF Typed, Shape

(* A call that fails, or is done with a wallet, goes on.                   *)
LEMMA OnwardTyped ==
    ASSUME Typed, NEW t \in Tasks, task[t].at \notin {"idle", "wait"}, Onward(t),
           pay' \in Payouts, proofs' \in [Slots -> SUBSET Proofs], saved' \in [Slots -> SUBSET Proofs],
           spendable' \subseteq Proofs, out' \subseteq Proofs,
           loaded' \in [Slots -> BOOLEAN], attempts' \in [Slots -> 0..Overflow],
           UNCHANGED <<holder, overlap>>, unsaved' \in BOOLEAN, saved' = proofs' \/ unsaved'
    PROVE  /\ Typed'
           /\ task'[t] = NextPlace(t)
           /\ \A u \in Tasks \ {t} : task'[u] = task[u]
<1> DEFINE c == NextPlace(t)
<1>1. c \in Calls /\ Shaped(c) /\ c.op = task[t].op /\ c.at \in {"keys", "leave"}
  BY NextPlaceType DEF Typed
<1>2. task' = [task EXCEPT ![t] = c]
  BY DEF Onward
<1>3. c.op = "balance" => t = "main"
  BY <1>1 DEF Typed, Shape
<1> HIDE DEF c
<1>4. Typed'
  BY <1>1, <1>2, <1>3, OneCallTyped DEF Typed, TypeOK
<1> QED
  BY <1>2, <1>4 DEF Typed, Shape, c

(***************************************************************************)
(* What each action does to the calls.                                     *)
(***************************************************************************)
Others(t) == \A u \in Tasks \ {t} : task'[u] = task[u]

(* A call that has nothing in its hands.                                   *)
Empty(c) == c.in = {} /\ c.rem = {} /\ c.new = {} /\ c.change = {}

(* nucula_wallet_receive is called and comes to the lock.                  *)
LEMMA CallReceiveStep ==
    ASSUME Typed, NEW t \in Tasks, CallReceive(t)
    PROVE  /\ Typed' /\ Others(t) /\ task[t] = Idle
           /\ task'[t].at = "wait" /\ task'[t].op = "receive"
           /\ task'[t].rem = {} /\ task'[t].new = {} /\ task'[t].change = {}
           /\ task'[t].in \subseteq Unused /\ spendable' = spendable \cup task'[t].in
           /\ UNCHANGED <<proofs, saved, out, holder, pay, overlap, unsaved>>
<1>1. PICK s \in Slots, p \in Unused :
        Call(t, "receive", s, 1, {p}) /\ spendable' = spendable \cup {p}
  BY DEF CallReceive
<1>2. UNCHANGED <<proofs, saved, out, keys, holder, pay, overlap, unsaved>>
  BY DEF CallReceive
<1>3. p \in Proofs
  BY DEF Unused
<1>4. spendable' \subseteq Proofs /\ pay' \in Payouts
  BY <1>1, <1>2, <1>3 DEF Typed, TypeOK, Shape
<1>5. /\ Typed' /\ task[t] = Idle /\ Others(t)
      /\ task'[t].at = "wait" /\ task'[t].op = "receive" /\ task'[t].in = {p}
      /\ task'[t].rem = {} /\ task'[t].new = {} /\ task'[t].change = {}
  BY <1>1, <1>2, <1>3, <1>4, CallTyped DEF AllOps, Others
<1> QED
  BY <1>1, <1>2, <1>5

(* The calls that bring nothing with them.                                 *)
LEMMA CallOtherStep ==
    ASSUME Typed, NEW t \in Tasks, NEW op \in {"send", "swap_all", "melt", "balance"},
           NEW n \in Nat, Call(t, op, 0, n, {}), op = "balance" => t = "main",
           pay' \in Payouts, UNCHANGED <<money, keys, holder, overlap, unsaved>>
    PROVE  /\ Typed' /\ Others(t) /\ task[t] = Idle
           /\ task'[t].at = "wait" /\ task'[t].op = op /\ task'[t].n = n /\ Empty(task'[t])
<1>1. 0 \in Slots /\ op \in AllOps
  BY WalletAssumption DEF Slots, AllOps
<1>2. spendable' \subseteq Proofs /\ UNCHANGED <<proofs, saved, out, keys, holder, overlap, unsaved>>
  BY DEF Typed, TypeOK, money
<1> QED
  BY <1>1, <1>2, CallTyped DEF Others, Empty

(* A call goes on past the lock, with it or after the time-out.            *)
LEMMA EntersStep ==
    ASSUME Typed, NEW t \in Tasks, At(t, "wait"), Enters(t), overlap' \in BOOLEAN,
           holder' \in {t, holder}, holder # t, UNCHANGED <<money, keys, unsaved>>
    PROVE  /\ Typed' /\ Others(t)
           /\ task'[t].at \in {"keys", "leave"} /\ task'[t].op = task[t].op
           /\ task'[t].n = task[t].n /\ task'[t].in = task[t].in
           /\ task'[t].rem = {} /\ task'[t].new = {} /\ task'[t].change = {}
           /\ task[t].op = "balance" => task'[t].at = "leave"
           /\ pay' = IF task[t].op = "balance" THEN Pool ELSE pay
<1> DEFINE place == IF Chosen(t) = -1 THEN "leave" ELSE "keys"
           s == IF Chosen(t) = -1 THEN 0 ELSE Chosen(t)
           c == [task[t] EXCEPT !.at = place, !.slot = s]
<1>1. task[t] \in Calls /\ Shaped(task[t]) /\ task[t].at = "wait"
  BY DEF Typed, Shape, At
<1>2. s \in Slots /\ place \in {"leave", "keys"}
  BY ChosenType, WalletAssumption DEF Typed, TypeOK, Slots
<1>3. place = "leave" => task[t].op \in {"melt", "balance"}
  BY <1>1, ChosenSlot DEF Typed, TypeOK
<1>4. task[t].op = "balance" => place = "leave"
  BY DEF Chosen
<1>5. task' = [task EXCEPT ![t] = c]
  BY <1>1 DEF Enters, Typed, Shape
<1>6. pay' = IF task[t].op = "balance" THEN Pool ELSE pay
  BY DEF Enters
<1>7. pay' \in Payouts
  BY <1>6, PoolType DEF Typed, TypeOK, Shape
<1> HIDE DEF place, s
<1>8. /\ c \in Calls /\ c.at = place /\ c.op = task[t].op /\ c.n = task[t].n
      /\ c.in = task[t].in /\ c.rem = {} /\ c.new = {} /\ c.change = {}
  BY <1>1, <1>2 DEF Calls, Shaped, Places
<1> HIDE DEF c
<1>9. Shaped(c)
  BY <1>1, <1>2, <1>3, <1>8 DEF Shaped
<1>10. c.op = "balance" => t = "main"
  BY <1>8 DEF Typed, Shape
<1>11. Typed'
  BY <1>2, <1>5, <1>7, <1>8, <1>9, <1>10, OneCallTyped DEF Typed, TypeOK, money, keys
<1>12. task'[t] = c /\ Others(t)
  BY <1>5 DEF Typed, Shape, Others
<1> QED
  BY <1>2, <1>4, <1>6, <1>8, <1>11, <1>12

(* The lock is given back, or was never there.                             *)
LEMMA LeaveStep ==
    ASSUME Typed, NEW t \in Tasks, Leave(t), holder \in {"free", t}
    PROVE  /\ Typed' /\ Others(t) /\ task'[t] = Idle /\ holder' = "free"
           /\ task[t].at = "leave"
           /\ pay' = IF t = "main" /\ task[t].op = "melt" /\ pay.left = 0 THEN NoPay ELSE pay
           /\ UNCHANGED <<money, overlap, unsaved>>
<1>1. /\ task' = [task EXCEPT ![t] = Idle] /\ holder' = "free" /\ task[t].at = "leave"
      /\ pay' = IF t = "main" /\ task[t].op = "melt" /\ pay.left = 0 THEN NoPay ELSE pay
      /\ UNCHANGED <<money, keys, overlap, unsaved>>
  BY DEF Leave, At
<1>2. NoPay \in Payouts
  BY WalletAssumption, FS_EmptySet, FS_CardinalityType DEF NoPay, Payouts
<1>3. pay' \in Payouts
  BY <1>1, <1>2 DEF Typed, Shape
<1>4. Typed'
  BY <1>1, <1>3, IdleType, OneCallTyped DEF Typed, TypeOK, money, keys
<1> QED
  BY <1>1, <1>4 DEF Typed, Shape, Others

(* Nothing but the NVS, and what others have, is left by a restart.        *)
LEMMA RestartsStep ==
    ASSUME Typed, Restarts
    PROVE  /\ Typed' /\ \A t \in Tasks : task'[t] = Idle
           /\ pay' = NoPay /\ holder' = "free" /\ proofs' = saved
           /\ UNCHANGED <<saved, spendable, out, overlap, unsaved>>
<1>1. NoPay \in Payouts
  BY WalletAssumption, FS_EmptySet, FS_CardinalityType DEF NoPay, Payouts
<1>2. task' \in [Tasks -> Calls] /\ \A t \in Tasks : task'[t] = Idle
  BY IdleType DEF Restarts
<1>3. Shape'
  <2>1. \A t \in Tasks : Shaped(task[t])' /\ (task[t].op = "balance" => t = "main")'
    BY <1>2, IdleType DEF Shaped
  <2> QED
    BY <1>1, <1>2, <2>1 DEF Restarts, Shape
<1>4. \A t \in Tasks : task'[t].at \in Places /\ task'[t].slot \in Slots /\ task'[t].n \in Nat
  BY <1>2 DEF Calls
<1>5. /\ pay'.left \in 0..Recipients /\ pay'.pool \in 0..(Width - 1) /\ pay'.paid \in Nat
      /\ pay'.factors \in Nat
  BY <1>1 DEF Payouts, Restarts
<1>6. attempts' \in [Slots -> 0..Overflow] /\ loaded' \in [Slots -> BOOLEAN]
  BY WalletAssumption DEF Restarts
<1> QED
  BY <1>2, <1>3, <1>4, <1>5, <1>6 DEF Restarts, Typed, TypeOK

(* What is paid out is added up.                                           *)
LEMMA BilledType ==
    ASSUME Shape, NEW t \in Tasks
    PROVE  /\ Billed(t) \in Payouts
           /\ ~(t = "main" /\ task[t].op = "melt") => Billed(t) = pay
<1>1. pay \in Payouts /\ task[t].n \in Nat
  BY DEF Shape, Calls
<1>2. [pay EXCEPT !.paid = @ + task[t].n] \in Payouts
  BY <1>1 DEF Payouts
<1> QED
  BY <1>1, <1>2 DEF Billed

(* The steps that end with a call, or its part about one wallet, do so     *)
(* with empty hands.                                                       *)
LEMMA OnwardStep ==
    ASSUME Typed, NEW t \in Tasks,
           \/ SkipsEmpty(t) \/ KeysFail(t) \/ SelectsNothing(t) \/ MintAnswerLost(t)
           \/ MintRefuses(t) \/ SendTooLarge(t)
    PROVE  /\ Typed' /\ Others(t) /\ Inside(t) /\ Empty(task'[t])
           /\ task'[t].at \in {"keys", "leave"} /\ task'[t].op = task[t].op
           /\ task'[t].at = "keys" => task[t].op = "swap_all"
           /\ IF MintAnswerLost(t)
              THEN /\ task[t].at = "mint" /\ pay' = Billed(t)
                   /\ \E made \in SUBSET Unused : spendable' = (spendable \ task[t].in) \cup made
              ELSE UNCHANGED <<spendable, pay>>
           /\ UNCHANGED <<proofs, saved, out, holder, overlap, unsaved>>
<1>1. Onward(t) /\ Inside(t) /\ task[t].at # "idle"
  BY DEF SkipsEmpty, KeysFail, SelectsNothing, MintAnswerLost, MintRefuses, SendTooLarge,
         At, WantsKeys, HasKeys, Inside
<1>2. UNCHANGED <<proofs, saved, out, holder, overlap, unsaved>>
  BY DEF SkipsEmpty, KeysFail, SelectsNothing, MintAnswerLost, MintRefuses, SendTooLarge, money
<1>3. task[t] \in Calls /\ pay \in Payouts
  BY DEF Typed, Shape
<1>4. /\ IF MintAnswerLost(t)
         THEN /\ task[t].at = "mint" /\ pay' = Billed(t)
              /\ \E made \in SUBSET Unused : spendable' = (spendable \ task[t].in) \cup made
         ELSE UNCHANGED <<spendable, pay>>
      /\ pay' \in Payouts /\ spendable' \subseteq Proofs
  <2>1. CASE MintAnswerLost(t)
    <3>1. PICK made \in kSubset(Made(t), Unused) : spendable' = (spendable \ task[t].in) \cup made
      BY <2>1 DEF MintAnswerLost
    <3>2. made \in SUBSET Unused /\ made \in SUBSET Proofs
      BY <3>1 DEF kSubset, Unused
    <3>3. pay' = Billed(t) /\ task[t].at = "mint"
      BY <2>1 DEF MintAnswerLost, At
    <3>4. pay' \in Payouts
      BY <3>3, BilledType DEF Typed
    <3>5. spendable' \subseteq Proofs
      BY <3>1, <3>2 DEF Typed, TypeOK
    <3> QED
      BY <2>1, <3>1, <3>2, <3>3, <3>4, <3>5
  <2>2. CASE ~MintAnswerLost(t)
    <3>1. UNCHANGED <<spendable, pay>>
      BY <2>2 DEF SkipsEmpty, KeysFail, SelectsNothing, MintRefuses, SendTooLarge, money
    <3> QED
      BY <1>3, <2>2, <3>1 DEF Typed, TypeOK
  <2> QED
    BY <2>1, <2>2
<1>5. loaded' \in [Slots -> BOOLEAN] /\ attempts' \in [Slots -> 0..Overflow]
  <2>1. CASE KeysFail(t)
    <3> DEFINE s == task[t].slot
    <3>1. s \in Slots
      BY <1>3 DEF Calls
    <3>2. /\ attempts[s] < Overflow /\ attempts' = [attempts EXCEPT ![s] = attempts[s] + 1]
          /\ loaded' = loaded
      BY <2>1 DEF KeysFail
    <3>3. attempts[s] + 1 \in 0..Overflow
      BY <3>1, <3>2, WalletAssumption DEF Typed, TypeOK
    <3> HIDE DEF s
    <3> QED
      BY <3>1, <3>2, <3>3 DEF Typed, TypeOK
  <2>2. CASE ~KeysFail(t)
    BY <2>2 DEF SkipsEmpty, SelectsNothing, MintAnswerLost, MintRefuses, SendTooLarge,
                keys, Typed, TypeOK
  <2> QED
    BY <2>1, <2>2
<1>6. Typed' /\ task'[t] = NextPlace(t) /\ Others(t)
  BY <1>1, <1>2, <1>4, <1>5, OnwardTyped DEF Typed, TypeOK, Inside, Others
<1>7. /\ task'[t].op = task[t].op /\ task'[t].at \in {"keys", "leave"} /\ Empty(task'[t])
  BY <1>1, <1>6, NextPlaceType DEF Typed, Empty
<1>8. task'[t].at = "keys" => task[t].op = "swap_all"
  BY <1>3, <1>6 DEF NextPlace, Calls
<1> QED
  BY <1>1, <1>2, <1>4, <1>6, <1>7, <1>8

(* The keysets change nothing else.                                        *)
LEMMA KeysLoadedStep ==
    ASSUME Typed, NEW t \in Tasks, KeysLoaded(t)
    PROVE  Typed' /\ UNCHANGED <<money, holder, task, pay, overlap, unsaved>>
<1>1. UNCHANGED <<money, holder, task, pay, overlap, unsaved>>
  BY DEF KeysLoaded
<1>2. task[t].slot \in Slots
  BY DEF Typed, TypeOK
<1>3. loaded' \in [Slots -> BOOLEAN] /\ attempts' \in [Slots -> 0..Overflow]
  BY <1>2, WalletAssumption DEF KeysLoaded, Typed, TypeOK
<1> QED
  BY <1>1, <1>3, NoCallTyped DEF Typed, TypeOK, money, Shape

(* What is sent to the mint, and what remains, is of the wallet.           *)
LEMMA AsksStep ==
    ASSUME Typed, NEW t \in Tasks, Selects(t) \/ Quotes(t) \/ ReceiveAsks(t)
    PROVE  /\ Typed' /\ Others(t) /\ task[t].at = "keys" /\ task'[t].at = "mint"
           /\ task'[t].op = task[t].op /\ task'[t].slot = task[t].slot
           /\ task'[t].n <= task[t].n
           /\ task'[t].new = {} /\ task'[t].change = {}
           /\ IF task[t].op = "receive" THEN task'[t].in = task[t].in
              ELSE task[t].in = {} /\ task'[t].in \subseteq proofs[task[t].slot]
           /\ task'[t].rem = IF task[t].op \in {"send", "swap_all"}
                             THEN proofs[task[t].slot] \ task'[t].in ELSE {}
           /\ task[t].op = "swap_all" => task'[t].in = proofs[task[t].slot]
           /\ UNCHANGED <<money, holder, pay, overlap, unsaved>>
<1> DEFINE s == task[t].slot
<1>1. /\ task[t] \in Calls /\ Shaped(task[t]) /\ task[t].at = "keys" /\ loaded[s]
      /\ task \in [Tasks -> Calls] /\ UNCHANGED <<money, keys, holder, pay, overlap, unsaved>>
  BY DEF Typed, Shape, Selects, Quotes, ReceiveAsks, HasKeys, WantsKeys, At
<1>2. s \in Slots /\ proofs[s] \in SUBSET Proofs
  BY <1>1 DEF Typed, TypeOK, Calls
<1>3. PICK c \in Calls :
        /\ task' = [task EXCEPT ![t] = c]
        /\ c.at = "mint" /\ c.op = task[t].op /\ c.slot = s /\ c.n <= task[t].n
        /\ c.new = {} /\ c.change = {}
        /\ IF task[t].op = "receive" THEN c.in = task[t].in ELSE c.in \subseteq proofs[s]
        /\ c.rem = IF task[t].op \in {"send", "swap_all"} THEN proofs[s] \ c.in ELSE {}
        /\ task[t].op = "swap_all" => c.in = proofs[s]
  <2>1. CASE Selects(t)
    <3>1. PICK S \in SUBSET proofs[s] :
            /\ task' = [task EXCEPT ![t].at = "mint", ![t].in = S, ![t].rem = proofs[s] \ S]
            /\ task[t].op = "swap_all" => S = proofs[s]
      BY <2>1 DEF Selects
    <3>2. task[t].op \in {"send", "swap_all"}
      BY <2>1 DEF Selects
    <3> DEFINE R == proofs[s] \ S
               c == [task[t] EXCEPT !.at = "mint", !.in = S, !.rem = R]
    <3>3. task' = [task EXCEPT ![t] = c]
      BY <1>1, <3>1
    <3>4. /\ c \in Calls /\ c.at = "mint" /\ c.op = task[t].op /\ c.slot = s
          /\ c.n <= task[t].n /\ c.new = {} /\ c.change = {} /\ c.in = S
          /\ c.rem = R
      <4>1. S \in SUBSET Proofs /\ R \in SUBSET Proofs
        BY <1>2
      <4> HIDE DEF R
      <4>2. c \in Calls
        BY <1>1, <4>1 DEF Calls, Places
      <4>3. c.at = "mint" /\ c.op = task[t].op /\ c.slot = s /\ c.in = S /\ c.rem = R
        BY <1>1 DEF Calls
      <4>4. c.n <= task[t].n /\ c.new = {} /\ c.change = {}
        BY <1>1 DEF Calls, Shaped
      <4> QED
        BY <4>2, <4>3, <4>4
    <3> HIDE DEF c, s
    <3> QED
      BY <3>1, <3>2, <3>3, <3>4
  <2>2. CASE Quotes(t)
    <3>1. PICK S \in SUBSET proofs[s] : \E n \in {Cardinality(S), Cardinality(S) - 1} :
            /\ 0 < n /\ n <= task[t].n
            /\ task' = [task EXCEPT ![t].at = "mint", ![t].in = S, ![t].n = n]
      BY <2>2 DEF Quotes
    <3>2. PICK n \in {Cardinality(S), Cardinality(S) - 1} :
            /\ 0 < n /\ n <= task[t].n
            /\ task' = [task EXCEPT ![t].at = "mint", ![t].in = S, ![t].n = n]
      BY <3>1
    <3>3. S \in SUBSET Proofs /\ Cardinality(S) \in Nat
      BY <1>2, ProofSets
    <3>4. n \in Nat
      BY <3>2, <3>3
    <3>5. task[t].op = "melt" /\ task[t].rem = {}
      BY <1>1, <2>2 DEF Quotes, Shaped
    <3> DEFINE c == [task[t] EXCEPT !.at = "mint", !.in = S, !.n = n]
    <3>6. task' = [task EXCEPT ![t] = c]
      BY <1>1, <3>2
    <3>7. /\ c \in Calls /\ c.at = "mint" /\ c.op = task[t].op /\ c.slot = s
          /\ c.n = n /\ c.new = {} /\ c.change = {} /\ c.in = S /\ c.rem = {}
      BY <1>1, <1>2, <3>3, <3>4, <3>5 DEF Calls, Places, Shaped
    <3> HIDE DEF c, s
    <3> QED
      BY <3>2, <3>5, <3>6, <3>7
  <2>3. CASE ReceiveAsks(t)
    <3>1. task[t].op = "receive" /\ task' = [task EXCEPT ![t].at = "mint"]
      BY <1>1, <2>3 DEF ReceiveAsks, Goes
    <3> DEFINE c == [task[t] EXCEPT !.at = "mint"]
    <3>2. task' = [task EXCEPT ![t] = c]
      BY <1>1, <3>1
    <3>3. /\ c \in Calls /\ c.at = "mint" /\ c.op = task[t].op /\ c.slot = s
          /\ c.n <= task[t].n /\ c.new = {} /\ c.change = {}
          /\ c.in = task[t].in /\ c.rem = {}
      BY <1>1, <1>2 DEF Calls, Places, Shaped
    <3> HIDE DEF c, s
    <3> QED
      BY <3>1, <3>2, <3>3
  <2> QED
    BY <2>1, <2>2, <2>3
<1>4. c.op = "balance" => t = "main"
  BY <1>3 DEF Typed, Shape
<1>5. Shaped(c)
  BY <1>3 DEF Shaped
<1>6. Typed'
  BY <1>1, <1>3, <1>4, <1>5, OneCallTyped DEF Typed, TypeOK, Shape, money, keys
<1>7. task'[t] = c /\ Others(t)
  BY <1>1, <1>3 DEF Others
<1>8. task[t].op # "receive" => task[t].in = {}
  BY <1>1 DEF Shaped
<1> QED
  BY <1>1, <1>3, <1>6, <1>7, <1>8 DEF s

(* What the mint makes was nobody's.                                       *)
LEMMA MintTakesStep ==
    ASSUME Typed, NEW t \in Tasks, MintTakes(t)
    PROVE  /\ Typed' /\ Others(t) /\ task[t].at = "mint" /\ task'[t].at = "save"
           /\ task'[t].op = task[t].op /\ task'[t].slot = task[t].slot
           /\ task'[t].in = task[t].in /\ task'[t].rem = task[t].rem
           /\ task'[t].new \cup task'[t].change \subseteq Unused
           /\ spendable' = (spendable \ task[t].in) \cup task'[t].new \cup task'[t].change
           /\ pay' = Billed(t)
           /\ UNCHANGED <<proofs, saved, out, holder, overlap, unsaved>>
<1>1. /\ task[t] \in Calls /\ Shaped(task[t]) /\ task[t].at = "mint"
      /\ task \in [Tasks -> Calls] /\ UNCHANGED <<proofs, saved, out, keys, holder, overlap, unsaved>>
      /\ pay' = Billed(t)
  BY DEF Typed, Shape, MintTakes, At
<1>2. PICK made \in SUBSET Unused, new \in SUBSET Unused :
        /\ new \subseteq made
        /\ spendable' = (spendable \ task[t].in) \cup made
        /\ task' = [task EXCEPT ![t].at = "save", ![t].new = new, ![t].change = made \ new]
        /\ task[t].op # "send" => new = made
  <2>1. PICK made \in kSubset(Made(t), Unused) :
        \E new \in IF task[t].op = "send" THEN kSubset(task[t].n, made) ELSE {made} :
          /\ spendable' = (spendable \ task[t].in) \cup made
          /\ task' = [task EXCEPT ![t].at = "save", ![t].new = new, ![t].change = made \ new]
    BY DEF MintTakes
  <2>2. PICK new \in IF task[t].op = "send" THEN kSubset(task[t].n, made) ELSE {made} :
          /\ spendable' = (spendable \ task[t].in) \cup made
          /\ task' = [task EXCEPT ![t].at = "save", ![t].new = new, ![t].change = made \ new]
    BY <2>1
  <2>3. made \in SUBSET Unused /\ new \subseteq made
    BY <2>1, <2>2 DEF kSubset
  <2> QED
    BY <2>2, <2>3
<1> DEFINE c == [task[t] EXCEPT !.at = "save", !.new = new, !.change = made \ new]
<1>3. made \in SUBSET Proofs
  BY <1>2 DEF Unused
<1>4. /\ c \in Calls /\ c.at = "save" /\ c.in = task[t].in /\ c.rem = task[t].rem
      /\ c.op = task[t].op /\ c.slot = task[t].slot /\ c.new = new /\ c.change = made \ new
  BY <1>1, <1>2, <1>3 DEF Calls, Places
<1>5. task' = [task EXCEPT ![t] = c] /\ (c.op = "balance" => t = "main")
  BY <1>1, <1>2, <1>4 DEF Typed, Shape
<1> HIDE DEF c
<1>6. Shaped(c)
  BY <1>2, <1>4 DEF Shaped
<1>7. pay' \in Payouts
  BY <1>1, BilledType DEF Typed
<1>8. spendable' \subseteq Proofs
  BY <1>2, <1>3 DEF Typed, TypeOK
<1>9. Typed'
  BY <1>1, <1>4, <1>5, <1>6, <1>7, <1>8, OneCallTyped DEF Typed, TypeOK, keys
<1>10. task'[t] = c /\ Others(t)
  BY <1>1, <1>5 DEF Others
<1> QED
  BY <1>1, <1>2, <1>4, <1>9, <1>10

(* The wallet's proofs are replaced; the NVS has them too, or what it had, *)
(* or nothing.                                                             *)
LEMMA SavesStep ==
    ASSUME Typed, NEW t \in Tasks, Saves(t) \/ SaveFails(t)
    PROVE  /\ Typed' /\ Others(t) /\ task[t].at = "save" /\ Empty(task'[t])
           /\ task'[t].at \in {"keys", "leave"} /\ task'[t].op = task[t].op
           /\ task'[t].at = "keys" => task[t].op = "swap_all"
           /\ task[t].slot \in Slots
           /\ \A s \in Slots : proofs'[s] = IF s = task[t].slot THEN Kept(t) ELSE proofs[s]
           /\ \A s \in Slots : saved'[s] \subseteq saved[s] \/ saved'[s] = Kept(t)
           /\ out' = IF task[t].op = "send" THEN out \cup task[t].new ELSE out
           /\ UNCHANGED <<spendable, holder, pay, overlap>>
<1> DEFINE s == task[t].slot
<1>1. /\ proofs' = [proofs EXCEPT ![s] = Kept(t)]
      /\ \E P \in {saved[s], {}, Kept(t)} : saved' = [saved EXCEPT ![s] = P]
      /\ unsaved' \in BOOLEAN
      /\ unsaved' \/ (unsaved' = unsaved /\ saved' = [saved EXCEPT ![s] = Kept(t)])
      /\ out' = IF task[t].op = "send" THEN out \cup task[t].new ELSE out
      /\ task[t].at = "save" /\ Onward(t)
      /\ UNCHANGED <<spendable, keys, holder, pay, overlap>>
  BY DEF Saves, SaveFails, Stores, At, Typed, TypeOK
<1>2. task[t] \in Calls
  BY DEF Typed, Shape
<1>3. s \in Slots /\ Kept(t) \in SUBSET Proofs /\ out' \subseteq Proofs
  BY <1>1, <1>2 DEF Calls, Kept, Typed, TypeOK
<1>4. /\ proofs' \in [Slots -> SUBSET Proofs] /\ saved' \in [Slots -> SUBSET Proofs]
      /\ saved' = proofs' \/ unsaved'
      /\ \A r \in Slots : saved'[r] \subseteq saved[r] \/ saved'[r] = Kept(t)
      /\ \A r \in Slots : proofs'[r] = IF r = s THEN Kept(t) ELSE proofs[r]
  <2>1. PICK P \in {saved[s], {}, Kept(t)} : saved' = [saved EXCEPT ![s] = P]
    BY <1>1
  <2> HIDE DEF s
  <2>2. /\ saved' \in [Slots -> SUBSET Proofs]
        /\ \A r \in Slots : saved'[r] = IF r = s THEN P ELSE saved[r]
    BY <1>3, <2>1 DEF Typed, TypeOK
  <2>3. /\ proofs' \in [Slots -> SUBSET Proofs]
        /\ \A r \in Slots : proofs'[r] = IF r = s THEN Kept(t) ELSE proofs[r]
    BY <1>1, <1>3 DEF Typed, TypeOK
  <2>4. saved' = proofs' \/ unsaved'
    <3>1. CASE ~unsaved'
      <4>1. ~unsaved /\ saved' = [saved EXCEPT ![task[t].slot] = Kept(t)]
        BY <1>1, <3>1 DEF s
      <4>2. saved = proofs
        BY <4>1 DEF Typed
      <4> QED
        BY <1>1, <4>1, <4>2 DEF s
    <3> QED
      BY <3>1
  <2> QED
    BY <2>1, <2>2, <2>3, <2>4
<1>5. Typed' /\ task'[t] = NextPlace(t) /\ Others(t)
  BY <1>1, <1>3, <1>4, OnwardTyped DEF Typed, TypeOK, Shape, Others, keys
<1>6. task'[t].op = task[t].op /\ task'[t].at \in {"keys", "leave"} /\ Empty(task'[t])
  BY <1>1, <1>5, NextPlaceType DEF Typed, Empty
<1>7. task'[t].at = "keys" => task[t].op = "swap_all"
  BY <1>2, <1>5 DEF NextPlace, Calls
<1> QED
  BY <1>1, <1>3, <1>4, <1>5, <1>6, <1>7

(***************************************************************************)
(* What the mint makes is nobody else's.                                   *)
(***************************************************************************)

(* A call that makes nothing and hands nothing out.                        *)
LEMMA FreshKept ==
    ASSUME Fresh, NEW t \in Tasks, Others(t), UNCHANGED <<proofs, saved>>, out' \subseteq out,
           task'[t].new \cup task'[t].change \subseteq task[t].new \cup task[t].change,
           task'[t].rem \subseteq task[t].rem \cup InMemory
    PROVE  Fresh'
<1>1. InMemory' = InMemory /\ InNvs' = InNvs
  BY DEF InMemory, InNvs
<1>2. \A u \in Tasks : /\ JustMade(u)' \subseteq JustMade(u)
                       /\ task'[u].rem \subseteq task[u].rem \cup InMemory
  BY DEF Others, JustMade
<1>3. /\ out \cap (InMemory \cup InNvs) = {}
      /\ \A u \in Tasks : /\ JustMade(u) \cap (InMemory \cup InNvs \cup out) = {}
                          /\ task[u].rem \cap out = {}
      /\ \A u, w \in Tasks : /\ JustMade(u) \cap task[w].rem = {}
                             /\ u # w => JustMade(u) \cap JustMade(w) = {}
  BY DEF Fresh
<1>4. (out \cap (InMemory \cup InNvs) = {})'
  BY <1>1, <1>3
<1>5. \A u \in Tasks : /\ (JustMade(u) \cap (InMemory \cup InNvs \cup out) = {})'
                       /\ (task[u].rem \cap out = {})'
  BY <1>1, <1>2, <1>3
<1>6. \A u, w \in Tasks : /\ (JustMade(u) \cap task[w].rem = {})'
                          /\ u # w => (JustMade(u) \cap JustMade(w) = {})'
  BY <1>1, <1>2, <1>3
<1> QED
  BY <1>4, <1>5, <1>6 DEF Fresh

(* The mint's new proofs are not among any that exist.                     *)
LEMMA FreshMade ==
    ASSUME Typed, Fresh, NEW t \in Tasks, MintTakes(t)
    PROVE  Fresh'
<1>1. /\ Others(t) /\ task[t].at = "mint" /\ UNCHANGED <<proofs, saved, out>>
      /\ task'[t].rem = task[t].rem
      /\ JustMade(t)' \subseteq Unused
  BY MintTakesStep DEF JustMade
<1>2. InMemory' = InMemory /\ InNvs' = InNvs
  BY <1>1 DEF InMemory, InNvs
<1>3. /\ \A u \in Tasks \ {t} : JustMade(u)' = JustMade(u)
      /\ \A u \in Tasks : task'[u].rem = task[u].rem
  BY <1>1 DEF Others, JustMade
<1>4. /\ JustMade(t)' \cap (InMemory \cup InNvs \cup out) = {}
      /\ \A u \in Tasks : JustMade(t)' \cap task[u].rem = {} /\ JustMade(t)' \cap JustMade(u) = {}
  BY <1>1 DEF Unused, JustMade
<1>5. \A u \in Tasks : /\ (JustMade(u) \cap (InMemory \cup InNvs \cup out) = {})'
                       /\ (task[u].rem \cap out = {})'
  BY <1>1, <1>2, <1>3, <1>4 DEF Fresh
<1>6. \A u, w \in Tasks : /\ (JustMade(u) \cap task[w].rem = {})'
                          /\ u # w => (JustMade(u) \cap JustMade(w) = {})'
  BY <1>3, <1>4 DEF Fresh
<1>7. (out \cap (InMemory \cup InNvs) = {})'
  BY <1>1, <1>2 DEF Fresh
<1> QED
  BY <1>5, <1>6, <1>7 DEF Fresh

(* A call writes what it has in its hands, or hands it out, never both.    *)
LEMMA FreshSaved ==
    ASSUME Typed, Fresh, NEW t \in Tasks, Saves(t) \/ SaveFails(t)
    PROVE  Fresh'
<1> DEFINE New == task[t].new
           Mine == IF task[t].op = "send" THEN task[t].rem \cup task[t].change ELSE New
           Stored == InMemory \cup InNvs
<1>1. /\ Typed' /\ Others(t) /\ Empty(task'[t]) /\ task[t].slot \in Slots
      /\ \A s \in Slots : proofs'[s] = IF s = task[t].slot THEN Kept(t) ELSE proofs[s]
      /\ \A s \in Slots : saved'[s] \subseteq saved[s] \/ saved'[s] = Kept(t)
      /\ out' = IF task[t].op = "send" THEN out \cup New ELSE out
  BY SavesStep
<1>2. Kept(t) \subseteq InMemory \cup Mine
  BY <1>1 DEF Kept, InMemory
<1>3. InMemory' \subseteq InMemory \cup Mine
  BY <1>1, <1>2 DEF InMemory
<1>4. InNvs' \subseteq InNvs \cup InMemory \cup Mine
  BY <1>1, <1>2 DEF InNvs
<1>5. /\ \A u \in Tasks : /\ JustMade(u)' = IF u = t THEN {} ELSE JustMade(u)
                          /\ task'[u].rem = IF u = t THEN {} ELSE task[u].rem
  BY <1>1 DEF Others, JustMade, Empty
<1>6. New \cap task[t].change = {} /\ New \subseteq JustMade(t) /\ task[t].change \subseteq JustMade(t)
  BY DEF Typed, Shape, Shaped, JustMade
<1>7. /\ out \cap Stored = {}
      /\ \A u \in Tasks : /\ JustMade(u) \cap (Stored \cup out) = {}
                          /\ task[u].rem \cap out = {}
      /\ \A u, w \in Tasks : /\ JustMade(u) \cap task[w].rem = {}
                             /\ u # w => JustMade(u) \cap JustMade(w) = {}
  BY DEF Fresh
<1>8. Stored' \subseteq Stored \cup Mine
  BY <1>3, <1>4
<1> HIDE DEF New, Stored
<1>9. out' \cap Stored' = {}
  <2>1. CASE task[t].op = "send"
    <3>1. out' = out \cup New /\ Mine = task[t].rem \cup task[t].change
      BY <1>1, <2>1
    <3>2. out \cap Mine = {} /\ New \cap Mine = {} /\ New \cap Stored = {}
      BY <1>6, <1>7, <3>1
    <3> HIDE DEF Mine
    <3> QED
      BY <1>7, <1>8, <3>1, <3>2
  <2>2. CASE task[t].op # "send"
    BY <1>1, <1>6, <1>7, <1>8, <2>2
  <2> QED
    BY <2>1, <2>2
<1>10. ASSUME NEW u \in Tasks \ {t}
       PROVE  JustMade(u) \cap (Stored' \cup out') = {} /\ task[u].rem \cap out' = {}
  <2>1. JustMade(u) \cap Mine = {} /\ JustMade(u) \cap New = {} /\ task[u].rem \cap New = {}
    BY <1>6, <1>7
  <2> HIDE DEF Mine
  <2> QED
    BY <1>1, <1>7, <1>8, <2>1
<1>11. \A u \in Tasks : /\ (JustMade(u) \cap (InMemory \cup InNvs \cup out) = {})'
                        /\ (task[u].rem \cap out = {})'
  BY <1>5, <1>10 DEF Stored
<1>12. \A u, w \in Tasks : /\ (JustMade(u) \cap task[w].rem = {})'
                           /\ u # w => (JustMade(u) \cap JustMade(w) = {})'
  BY <1>5, <1>7
<1>13. (out \cap (InMemory \cup InNvs) = {})'
  BY <1>9 DEF Stored
<1> QED
  BY <1>11, <1>12, <1>13 DEF Fresh

(* A step that is of no call.                                              *)
LEMMA FreshAlone ==
    ASSUME Fresh, UNCHANGED <<proofs, saved, task>>, out' \subseteq out
    PROVE  Fresh'
<1>1. /\ InMemory' = InMemory /\ InNvs' = InNvs
      /\ \A u \in Tasks : JustMade(u)' = JustMade(u) /\ task'[u].rem = task[u].rem
  BY DEF InMemory, InNvs, JustMade
<1>2. (out \cap (InMemory \cup InNvs) = {})'
  BY <1>1 DEF Fresh
<1>3. \A u \in Tasks : /\ (JustMade(u) \cap (InMemory \cup InNvs \cup out) = {})'
                       /\ (task[u].rem \cap out = {})'
  BY <1>1 DEF Fresh
<1>4. \A u, w \in Tasks : /\ (JustMade(u) \cap task[w].rem = {})'
                          /\ u # w => (JustMade(u) \cap JustMade(w) = {})'
  BY <1>1 DEF Fresh
<1> QED
  BY <1>2, <1>3, <1>4 DEF Fresh

(***************************************************************************)
(* The lock.                                                               *)
(***************************************************************************)

(* The hands of the calls that do not take the step.                       *)
LEMMA HandsOf ==
    ASSUME NEW t \in Tasks, Others(t)
    PROVE  /\ \A u \in Tasks \ {t} : InHand(u)' = InHand(u)
           /\ \A u \in Tasks : InHand(u) \subseteq InHands /\ InHand(u)' \subseteq InHands'
           /\ \A x \in InHands : \E u \in Tasks : x \in InHand(u)
<1>1. \A u \in Tasks \ {t} : InHand(u)' = InHand(u)
  BY DEF Others, InHand
<1> QED
  BY <1>1 DEF InHands

(* What a step of a call has to see to, so that nothing is lost: where     *)
(* each proof is that can be spent and that it had in its hands.           *)
Steady == ~overlap' => Lost' \subseteq Lost

LEMMA CallSteady ==
    ASSUME NEW t \in Tasks, Others(t),
           \A x \in spendable' :
              \/ x \in InMemory' \cup out' \cup InHand(t)'
              \/ x \in spendable /\ x \notin InMemory \cup out \cup InHand(t)
    PROVE  Lost' \subseteq Lost
<1> SUFFICES ASSUME NEW x \in Lost'
             PROVE  x \in Lost
  OBVIOUS
<1>1. x \in spendable' /\ x \notin InMemory' \cup out' /\ x \notin InHands'
  BY DEF Lost
<1>2. x \in spendable /\ x \notin InMemory \cup out \cup InHand(t)
  BY <1>1, HandsOf
<1>3. ASSUME x \in InHands
      PROVE  FALSE
  <2>1. PICK u \in Tasks : x \in InHand(u)
    BY <1>3, HandsOf
  <2>2. u # t /\ x \in InHand(u)'
    BY <1>2, <2>1, HandsOf
  <2> QED
    BY <1>1, <2>2, HandsOf
<1> QED
  BY <1>2, <1>3 DEF Lost

(* A step of the call inside: its own picture is still true.               *)
LEMMA ExclusiveInside ==
    ASSUME Typed, Exclusive, NEW t \in Tasks, Others(t), Inside(t), UNCHANGED overlap,
           \/ holder' = holder
           \/ holder \in {t, "free"} /\ ~Inside(t)',
           ~overlap => Informed(t)'
    PROVE  Exclusive'
<1> SUFFICES ASSUME ~overlap
             PROVE  /\ \A u \in Tasks : Inside(u)' => holder' = u
                    /\ \A u \in Tasks : Informed(u)'
  BY DEF Exclusive
<1>1. \A u \in Tasks : Inside(u) => holder = u
  BY DEF Exclusive
<1>2. holder = t /\ \A u \in Tasks \ {t} : ~Inside(u) /\ task'[u] = task[u]
  BY <1>1 DEF Others
<1>3. \A u \in Tasks \ {t} : ~Inside(u)' /\ Informed(u)'
  BY <1>2 DEF Inside, Informed
<1>4. \A u \in Tasks : Inside(u)' => holder' = u
  BY <1>2, <1>3
<1> QED
  BY <1>3, <1>4

(* A call begins or enters without changing the proofs.                    *)
LEMMA ExclusiveOutside ==
    ASSUME Typed, Exclusive, NEW t \in Tasks, Others(t), ~Inside(t),
           UNCHANGED <<proofs, out>>, overlap => overlap',
           ~overlap' => IF Inside(t)' THEN holder = "free" /\ holder' = t ELSE holder' = holder,
           task'[t].at \notin {"mint", "save"}, task[t].in \subseteq task'[t].in,
           spendable' = spendable \cup (task'[t].in \cap Unused)
    PROVE  Exclusive' /\ Steady
<1>1. \A u \in Tasks \ {t} : task'[u] = task[u] /\ (Inside(u)' <=> Inside(u))
  BY DEF Others, Inside
<1>2. ASSUME ~overlap', ~overlap
      PROVE  \A u \in Tasks : Inside(u)' => holder' = u
  BY <1>1, <1>2, TaskNames DEF Exclusive
<1>3. ASSUME ~overlap', ~overlap, NEW u \in Tasks
      PROVE  Informed(u)'
  <2>1. CASE u = t
    BY <2>1 DEF Informed
  <2>2. CASE u # t
    <3>1. task'[u] = task[u] /\ Informed(u) /\ task[u].in \cap Unused = {}
      BY <1>1, <1>3, <2>2 DEF Unused, Exclusive
    <3> QED
      BY <3>1 DEF Informed
  <2> QED
    BY <2>1, <2>2
<1>4. InMemory' = InMemory
  BY DEF InMemory
<1>5. task[t].at \in {"idle", "wait"} /\ Shaped(task[t])
  BY DEF Inside, Typed, Shape
<1>6. InHand(t) \subseteq task'[t].in /\ task'[t].in \subseteq InHand(t)'
  BY <1>5 DEF InHand, Shaped
<1>7. \A x \in spendable' : \/ x \in InMemory' \cup out' \cup InHand(t)'
                            \/ x \in spendable /\ x \notin InMemory \cup out \cup InHand(t)
  BY <1>4, <1>6
<1>8. Steady
  BY <1>7, CallSteady DEF Steady
<1> QED
  BY <1>2, <1>3, <1>8 DEF Exclusive

(* Nothing but the tokens that were handed out.                            *)
LEMMA ExclusiveAlone ==
    ASSUME Exclusive, UNCHANGED <<proofs, holder, task, overlap>>, out' \subseteq out,
           spendable' = spendable \ (out \ out')
    PROVE  Exclusive' /\ Steady
<1>1. InMemory' = InMemory /\ InHands' = InHands
  BY DEF InMemory, InHands, InHand
<1>2. \A u \in Tasks : (Inside(u)' <=> Inside(u)) /\ (Informed(u) => Informed(u)')
  BY DEF Inside, Informed
<1>3. Steady
  BY <1>1 DEF Steady, Lost
<1> QED
  BY <1>2, <1>3 DEF Exclusive

(***************************************************************************)
(* What a payout pays.                                                     *)
(***************************************************************************)

(* A share is of the pool, up to its rounding.                             *)
Fits(cost, pool, f) == 10000 * cost <= (pool * f + 50) * (100 + FeePct)

LEMMA ShareType ==
    ASSUME NEW pool \in Nat, NEW f \in Nat
    PROVE  /\ Share(pool, f) \in Nat /\ MaxCost(Share(pool, f)) \in Nat
           /\ Fits(MaxCost(Share(pool, f)), pool, f)
<1> DEFINE a == pool * f + 50
           sh == Share(pool, f)
           fee == sh * FeePct
           K == 100 + FeePct
<1>1. a \in Nat /\ K \in Nat
  BY WalletAssumption
<1>2. sh = a \div 100
  BY DEF Share
<1> HIDE DEF a, sh
<1>3. sh \in Nat /\ 100 * sh <= a
  BY <1>1, <1>2
<1>4. fee \in Nat
  BY <1>3, WalletAssumption
<1>5. MaxCost(sh) = sh + fee \div 100
  BY DEF MaxCost
<1>6. sh * K = 100 * sh + fee
  BY <1>3, WalletAssumption
<1> HIDE DEF fee
<1>7. MaxCost(sh) \in Nat /\ 100 * MaxCost(sh) <= 100 * sh + fee
  BY <1>3, <1>4, <1>5
<1> HIDE DEF K
<1>8. (100 * sh) * K <= a * K
  BY <1>1, <1>3
<1>9. (100 * sh) * K = 100 * (sh * K)
  BY <1>1, <1>3
<1>10. 10000 * MaxCost(sh) <= 100 * (sh * K)
  BY <1>3, <1>4, <1>6, <1>7
<1>11. a * K \in Int /\ sh * K \in Int
  BY <1>1, <1>3
<1>12. 10000 * MaxCost(sh) <= a * K
  BY <1>7, <1>8, <1>9, <1>10, <1>11
<1> QED
  BY <1>3, <1>7, <1>12 DEF a, sh, K, Fits

(* What the recipients may cost is a number.                               *)
LEMMA MostType ==
    ASSUME NEW p \in Payouts
    PROVE  /\ Most(p) \in Nat /\ p.paid \in Nat /\ p.pool \in Nat /\ p.factors \in Nat
           /\ p.left \in 0..Recipients /\ p.balance \in Nat
<1>1. /\ p.paid \in Nat /\ p.pool \in Nat /\ p.factors \in Nat
      /\ p.left \in 0..Recipients /\ p.balance \in Nat
  BY WalletAssumption DEF Payouts
<1>2. p.pool * p.factors \in Nat /\ 50 * (Recipients - p.left) \in Nat /\ 100 + FeePct \in Nat
  BY <1>1, WalletAssumption
<1> QED
  BY <1>1, <1>2 DEF Most

(* A step that pays nothing and begins no payment.                         *)
LEMMA PaidKept ==
    ASSUME Shape, Shape', Paid, NEW t \in Tasks, Others(t), pay' = pay,
           t = "main" /\ task'[t].op = "melt" /\ task'[t].at \in {"wait", "keys", "mint"} =>
               /\ task[t].op = "melt" /\ task[t].at \in {"wait", "keys", "mint"}
               /\ task'[t].n <= task[t].n
    PROVE  Paid'
<1>1. Pending' \in Nat /\ Pending \in Nat /\ Pending' <= Pending
  <2>1. Pending' \in Nat /\ Pending \in Nat
    BY DEF Shape, Calls, Pending
  <2>2. CASE t = "main"
    BY <2>1, <2>2 DEF Pending
  <2>3. CASE t # "main"
    <3>1. "main" \in Tasks => task'["main"] = task["main"]
      BY <2>3 DEF Others
    <3> QED
      BY <2>1, <3>1 DEF Pending
  <2> QED
    BY <2>1, <2>2, <2>3
<1>2. pay.paid \in Nat /\ Most(pay) \in Nat
  BY MostType DEF Shape
<1>3. 10000 * (pay.paid + Pending) <= Most(pay)
  BY DEF Paid
<1>4. 10000 * (pay.paid + Pending') <= Most(pay)
  BY <1>1, <1>2, <1>3
<1>5. (pay = NoPay => Pending = 0)'
  BY <1>1 DEF Paid
<1> QED
  BY <1>4, <1>5 DEF Paid, Most

(* The mint takes what was at stake.                                       *)
LEMMA PaidMore ==
    ASSUME Shape, Shape', Paid, NEW t \in Tasks, Others(t),
           task[t].at = "mint", task'[t].at \notin {"wait", "keys", "mint"} \/ task[t].op # "melt",
           task'[t].op = task[t].op,
           pay' = Billed(t)
    PROVE  Paid'
<1>1. CASE ~(t = "main" /\ task[t].op = "melt")
  BY <1>1, PaidKept, BilledType
<1>2. CASE t = "main" /\ task[t].op = "melt"
  <2>1. task[t].n \in Nat /\ pay \in Payouts
    BY <1>2 DEF Shape, Calls
  <2>2. Pending = task[t].n /\ Pending' = 0
    BY <1>2, <2>1 DEF Pending
  <2>3. /\ pay'.paid = pay.paid + task[t].n /\ pay'.left = pay.left /\ pay'.pool = pay.pool
        /\ pay'.balance = pay.balance /\ pay'.factors = pay.factors /\ pay.paid \in Nat
    BY <1>2, <2>1 DEF Payouts, Billed
  <2>4. Most(pay') = Most(pay)
    BY <2>3 DEF Most
  <2>5. 10000 * (pay'.paid + Pending') <= Most(pay')
    BY <2>1, <2>2, <2>3, <2>4 DEF Paid
  <2>6. CASE pay = NoPay
    <3>1. task[t].n = 0
      BY <2>2, <2>6 DEF Paid
    <3>2. pay' = pay
      BY <1>2, <2>1, <3>1 DEF Payouts, Billed
    <3> QED
      BY <2>2, <2>5, <3>1, <3>2 DEF Paid, Most
  <2>7. CASE pay # NoPay
    <3>1. pay'.pool > 0
      BY <2>3, <2>7 DEF Paid
    <3>2. pay' # NoPay
      BY <3>1 DEF NoPay
    <3> QED
      BY <2>2, <2>3, <2>5, <2>7, <3>1, <3>2 DEF Paid, Most
  <2> QED
    BY <2>6, <2>7
<1> QED
  BY <1>1, <1>2

(* No payout is going on.                                                  *)
LEMMA PaidNone ==
    ASSUME pay' = NoPay, Pending' = 0
    PROVE  Paid'
<1>1. /\ pay'.paid = 0 /\ pay'.left = 0 /\ pay'.pool = 0 /\ pay'.balance = 0
      /\ NoPay \in Payouts
  BY WalletAssumption, FS_EmptySet, FS_CardinalityType DEF NoPay, Payouts
<1>2. Width > 0
  BY WalletAssumption, FS_CardinalityType
<1>3. Most(NoPay) \in Nat
  BY <1>1, MostType
<1>4. 10000 * (pay'.paid + Pending') <= Most(pay')
  BY <1>1, <1>3
<1> QED
  BY <1>1, <1>2, <1>4 DEF Paid, Most

(* A tick has asked for the balance.                                       *)
LEMMA PaidBegins ==
    ASSUME proofs \in [Slots -> SUBSET Proofs], pay' = Pool, Pending' = 0
    PROVE  Paid'
<1>1. CASE Pool = NoPay
  BY <1>1, PaidNone
<1>2. CASE Pool # NoPay
  <2>1. /\ pay'.paid = 0 /\ pay' \in Payouts
        /\ pay'.balance >= MinPayout /\ pay'.pool > 0
        /\ pay'.pool = (pay'.balance - MinBalance) % Width
        /\ pay'.balance < Width
    BY <1>2, PoolType
  <2>2. Most(pay') \in Nat
    BY <2>1, MostType
  <2>3. 10000 * (pay'.paid + Pending') <= Most(pay')
    BY <2>1, <2>2
  <2> QED
    BY <1>2, <2>1, <2>3 DEF Paid, Most
<1> QED
  BY <1>1, <1>2

(* The next recipient's turn: with an invoice or without.                  *)
LEMMA PaidNext ==
    ASSUME Shape, Paid, Pending = 0, pay.left > 0, NEW f \in Nat,
           pay' \in Payouts, pay'.left = pay.left - 1, pay'.factors = pay.factors + f,
           pay'.pool = pay.pool, pay'.balance = pay.balance, pay'.paid = pay.paid,
           Pending' \in {0, MaxCost(Share(pay.pool, f))}
    PROVE  Paid'
<1>1. /\ pay.paid \in Nat /\ pay.left \in 0..Recipients /\ pay.pool \in Nat
      /\ pay.factors \in Nat /\ Most(pay) \in Nat
  BY MostType DEF Shape
<1>2. pay # NoPay
  BY <1>1 DEF NoPay
<1>3. pay'.pool > 0
  BY <1>1, <1>2 DEF Paid
<1>4. pay' # NoPay
  BY <1>3 DEF NoPay
<1> DEFINE M == MaxCost(Share(pay.pool, f))
           K == 100 + FeePct
           a == pay.pool * pay.factors
           b == pay.pool * f
           c == 50 * (Recipients - pay.left)
<1>5. M \in Nat /\ 10000 * M <= (b + 50) * K
  <2>1. M \in Nat /\ Fits(M, pay.pool, f)
    BY <1>1, ShareType
  <2> QED
    BY <2>1 DEF Fits
<1>6. a \in Nat /\ b \in Nat /\ c \in Nat /\ K \in Nat
  BY <1>1, WalletAssumption
<1>7. Most(pay) = (a + c) * K
  BY DEF Most
<1>8. Most(pay') = ((a + b) + (c + 50)) * K
  <2>1. pay.pool * (pay.factors + f) = a + b
    BY <1>1
  <2>2. 50 * (Recipients - (pay.left - 1)) = c + 50
    BY <1>1, WalletAssumption
  <2> HIDE DEF a, b, c, K
  <2>3. pay'.pool * pay'.factors = a + b /\ 50 * (Recipients - pay'.left) = c + 50
    BY <2>1, <2>2
  <2> QED
    BY <2>3 DEF Most, K
<1> HIDE DEF M, K, a, b, c
<1>9. ((a + b) + (c + 50)) * K = (a + c) * K + (b + 50) * K
  BY <1>6
<1>10. 10000 * pay.paid <= (a + c) * K
  BY <1>1, <1>7 DEF Paid
<1>11. (a + c) * K \in Nat /\ (b + 50) * K \in Nat
  BY <1>6
<1>12. Pending' \in Nat /\ 10000 * Pending' <= (b + 50) * K
  BY <1>5, <1>11 DEF M
<1>13. 10000 * (pay'.paid + Pending') <= Most(pay')
  BY <1>1, <1>8, <1>9, <1>10, <1>11, <1>12
<1> QED
  BY <1>2, <1>3, <1>4, <1>13 DEF Paid, Most

(* The payouts of a tick are within the limit.                             *)
LEMMA ReserveFromPaid ==
    ASSUME Shape, Paid
    PROVE  ReserveKept
<1> SUFFICES ASSUME MinBalance <= MinPayout, pay # NoPay, pay.factors <= 100
             PROVE  200 * pay.paid
                      <= (2 * (pay.balance - MinBalance) + Recipients) * (100 + FeePct)
  BY DEF ReserveKept
<1> DEFINE K == 100 + FeePct
           p == pay.pool
           g == pay.factors
           L == Recipients - pay.left
<1>1. /\ pay.paid \in Nat /\ pay.left \in 0..Recipients /\ p \in Nat /\ g \in Nat
      /\ pay.balance \in Nat
  BY MostType DEF Shape
<1>2. p = pay.balance - MinBalance
  <2>1. /\ pay.balance >= MinPayout /\ pay.balance < Width
        /\ p = (pay.balance - MinBalance) % Width
    BY DEF Paid
  <2>2. pay.balance - MinBalance \in 0..(Width - 1)
    BY <1>1, <2>1, WalletAssumption
  <2> QED
    BY <2>1, <2>2, WalletAssumption
<1>3. Pending \in Nat
  BY DEF Shape, Calls, Pending
<1>4. L \in Nat /\ L <= Recipients /\ Recipients \in Nat /\ K \in Nat /\ g <= 100
  BY <1>1, WalletAssumption
<1>5. 10000 * (pay.paid + Pending) <= (p * g + 50 * L) * K
  BY DEF Paid, Most
<1> HIDE DEF K, p, g, L
<1> DEFINE q == p * g
<1>6. q \in Nat /\ q <= p * 100
  BY <1>1, <1>4
<1> HIDE DEF q
<1> DEFINE a == q + 50 * L
           b == 50 * (2 * p + Recipients)
<1>7. a \in Nat /\ b \in Nat /\ a <= b
  BY <1>1, <1>4, <1>6
<1>8. 10000 * (pay.paid + Pending) <= a * K
  BY <1>5 DEF q
<1>9. b * K = 50 * ((2 * p + Recipients) * K)
  BY <1>1, <1>4
<1> HIDE DEF a, b
<1>10. a * K <= b * K /\ a * K \in Nat /\ b * K \in Nat
  BY <1>4, <1>7
<1> DEFINE d == (2 * p + Recipients) * K
<1>11. d \in Nat
  BY <1>1, <1>4
<1>12. 10000 * pay.paid <= 50 * d
  <2> HIDE DEF d
  <2>1. b * K = 50 * d
    BY <1>9 DEF d
  <2> QED
    BY <1>1, <1>3, <1>8, <1>10, <1>11, <2>1
<1>13. 200 * pay.paid <= d
  <2> HIDE DEF d
  <2> QED
    BY <1>1, <1>11, <1>12
<1> QED
  BY <1>2, <1>13 DEF K

(***************************************************************************)
(* The steps.                                                              *)
(***************************************************************************)

(* Calls that are begun.                                                   *)
LEMMA BeginStep ==
    ASSUME IInv, NEW t \in Tasks,
           CallReceive(t) \/ CallSend(t) \/ CallSwapAll(t) \/ CallMelt(t)
    PROVE  IInv' /\ Steady
<1>1. /\ Typed' /\ Others(t) /\ task[t] = Idle /\ task'[t].at = "wait"
      /\ task'[t].op = "melt" => t # "main"
      /\ task'[t].rem = {} /\ task'[t].new = {} /\ task'[t].change = {}
      /\ task'[t].in \subseteq Unused /\ spendable' = spendable \cup task'[t].in
      /\ UNCHANGED <<proofs, saved, out, holder, pay, overlap, unsaved>>
  <2> USE DEF IInv, Typed
  <2>1. CASE CallReceive(t)
    BY <2>1, CallReceiveStep
  <2>2. CASE CallSend(t)
    <3>1. Call(t, "send", 0, 1, {}) /\ UNCHANGED <<money, keys, holder, pay, overlap, unsaved>>
      BY <2>2 DEF CallSend
    <3>2. pay' \in Payouts
      BY <3>1 DEF Shape
    <3> QED
      BY <3>1, <3>2, CallOtherStep DEF Empty, money
  <2>3. CASE CallSwapAll(t)
    <3>1. Call(t, "swap_all", 0, 0, {}) /\ UNCHANGED <<money, keys, holder, pay, overlap, unsaved>>
      BY <2>3 DEF CallSwapAll
    <3>2. pay' \in Payouts
      BY <3>1 DEF Shape
    <3> QED
      BY <3>1, <3>2, CallOtherStep DEF Empty, money
  <2>4. CASE CallMelt(t)
    <3>1. PICK n \in 1..Cardinality(Proofs) : Call(t, "melt", 0, n, {})
      BY <2>4 DEF CallMelt
    <3>2. n \in Nat /\ t # "main" /\ UNCHANGED <<money, keys, holder, pay, overlap, unsaved>>
      BY <2>4, WalletAssumption, FS_CardinalityType DEF CallMelt, Ops
    <3>3. pay' \in Payouts
      BY <3>2 DEF Shape
    <3> QED
      BY <3>1, <3>2, <3>3, CallOtherStep DEF Empty, money
  <2> QED
    BY <2>1, <2>2, <2>3, <2>4
<1>2. Fresh'
  BY <1>1, FreshKept DEF IInv
<1>3. Exclusive' /\ Steady
  <2>1. ~Inside(t) /\ task[t].in = {} /\ ~Inside(t)'
    BY <1>1, IdleType DEF Inside
  <2> QED
    BY <1>1, <2>1, ExclusiveOutside DEF IInv, Typed
<1>4. Paid'
  BY <1>1, PaidKept DEF IInv, Typed
<1> QED
  BY <1>1, <1>2, <1>3, <1>4 DEF IInv, Typed

(* The lock is taken, or was not to be had.                                *)
LEMMA EnterStep ==
    ASSUME IInv, NEW t \in Tasks, Acquire(t) \/ TimesOut(t)
    PROVE  IInv' /\ Steady
<1>1. /\ At(t, "wait") /\ Enters(t) /\ UNCHANGED <<money, keys, unsaved>>
      /\ \/ holder = "free" /\ holder' = t /\ overlap' = overlap
         \/ holder # t /\ holder' = holder /\ overlap' = TRUE
  BY DEF Acquire, TimesOut
<1>2. /\ Typed' /\ Others(t)
      /\ task'[t].at \in {"keys", "leave"} /\ task'[t].op = task[t].op
      /\ task'[t].n = task[t].n /\ task'[t].in = task[t].in
      /\ task'[t].rem = {} /\ task'[t].new = {} /\ task'[t].change = {}
      /\ task[t].op = "balance" => task'[t].at = "leave"
      /\ pay' = IF task[t].op = "balance" THEN Pool ELSE pay
  <2>1. holder # t /\ holder' \in {t, holder} /\ overlap' \in BOOLEAN
    BY <1>1, TaskNames DEF IInv, TypeOK
  <2> QED
    BY <1>1, <2>1, EntersStep DEF IInv, Typed
<1>3. Fresh'
  BY <1>1, <1>2, FreshKept DEF IInv, money
<1>4. Exclusive' /\ Steady
  <2>1. ~Inside(t) /\ Inside(t)'
    BY <1>1, <1>2 DEF Inside, At
  <2>2. task[t].in \cap Unused = {}
    BY DEF Unused
  <2> QED
    BY <1>1, <1>2, <2>1, <2>2, ExclusiveOutside DEF IInv, Typed, money
<1>5. Paid'
  <2>1. CASE task[t].op # "balance"
    <3>1. task'[t].n <= task[t].n
      BY <1>2 DEF IInv, TypeOK
    <3> QED
      BY <1>1, <1>2, <2>1, <3>1, PaidKept DEF IInv, Typed, At
  <2>2. CASE task[t].op = "balance"
    <3>1. t = "main"
      BY <2>2 DEF IInv, Shape
    <3>2. Pending' = 0
      BY <1>2, <2>2, <3>1 DEF Pending
    <3> QED
      BY <1>2, <2>2, <3>2, PaidBegins DEF IInv, TypeOK
  <2> QED
    BY <2>1, <2>2
<1> QED
  BY <1>2, <1>3, <1>4, <1>5 DEF IInv, Typed

(* A restart costs what is in the hands of the calls, and after a save     *)
(* that has failed perhaps more.                                           *)
LEMMA RestartStep ==
    ASSUME IInv, Restarts
    PROVE  IInv' /\ (Lost' \subseteq Lost \cup InHands \/ unsaved)
<1>1. /\ Typed' /\ \A t \in Tasks : task'[t] = Idle
      /\ pay' = NoPay /\ proofs' = saved /\ UNCHANGED <<saved, spendable, out, overlap, unsaved>>
  BY RestartsStep DEF IInv, Typed
<1>2. InMemory' = InNvs /\ InNvs' = InNvs
  BY <1>1 DEF InMemory, InNvs
<1>3. Fresh'
  <2>1. \A u \in Tasks : JustMade(u)' = {} /\ task'[u].rem = {}
    BY <1>1, IdleType DEF JustMade
  <2> QED
    BY <1>1, <1>2, <2>1 DEF IInv, Fresh
<1>4. Exclusive'
  <2>1. \A u \in Tasks : ~Inside(u)' /\ Informed(u)'
    BY <1>1, IdleType DEF Inside, Informed
  <2> QED
    BY <2>1 DEF Exclusive
<1>5. Paid'
  <2>1. Pending' = 0
    BY <1>1, IdleType DEF Pending
  <2> QED
    BY <1>1, <2>1, PaidNone
<1>6. ASSUME ~unsaved
      PROVE  Lost' \subseteq Lost \cup InHands
  <2>1. InMemory' = InMemory
    BY <1>1, <1>6 DEF IInv, InMemory
  <2> QED
    BY <1>1, <2>1 DEF Lost
<1> QED
  BY <1>1, <1>3, <1>4, <1>5, <1>6 DEF IInv, Typed

(* The destructor, of a lock that is held by this call or by none.         *)
LEMMA GiveStep ==
    ASSUME IInv, NEW t \in Tasks, Leave(t), holder \in {"free", t}
    PROVE  IInv' /\ Steady
<1>1. /\ Typed' /\ Others(t) /\ task'[t] = Idle /\ holder' = "free" /\ task[t].at = "leave"
      /\ pay' = IF t = "main" /\ task[t].op = "melt" /\ pay.left = 0 THEN NoPay ELSE pay
      /\ UNCHANGED <<money, overlap, unsaved>>
  BY LeaveStep DEF IInv, Typed
<1>2. Fresh'
  BY <1>1, IdleType, FreshKept DEF IInv, money
<1>3. Exclusive' /\ Steady
  <2>1. Inside(t) /\ ~Inside(t)' /\ InHand(t) = {} /\ Informed(t)'
    BY <1>1, IdleType DEF Inside, InHand, Informed, IInv, Shape, Shaped
  <2>2. InMemory' = InMemory
    BY <1>1 DEF InMemory, money
  <2>3. Steady
    BY <1>1, <2>1, <2>2, CallSteady DEF money, Steady
  <2> QED
    BY <1>1, <2>1, <2>3, ExclusiveInside DEF IInv, Typed
<1>4. Paid'
  <2>1. CASE t = "main" /\ task[t].op = "melt" /\ pay.left = 0
    <3>1. Pending' = 0
      BY <1>1, <2>1, IdleType DEF Pending
    <3> QED
      BY <1>1, <2>1, <3>1, PaidNone
  <2>2. CASE ~(t = "main" /\ task[t].op = "melt" /\ pay.left = 0)
    BY <1>1, <2>2, IdleType, PaidKept DEF IInv, Typed
  <2> QED
    BY <2>1, <2>2
<1> QED
  BY <1>1, <1>2, <1>3, <1>4 DEF IInv, Typed

(* A call that fails, at the keysets, at the selection, at the mint or at  *)
(* the token.                                                              *)
LEMMA FailStep ==
    ASSUME IInv, NEW t \in Tasks,
           \/ SkipsEmpty(t) \/ KeysFail(t) \/ SelectsNothing(t) \/ MintAnswerLost(t)
           \/ MintRefuses(t) \/ SendTooLarge(t)
    PROVE  /\ IInv'
           /\ IF MintAnswerLost(t) THEN Lost' \subseteq Lost \cup (spendable' \ spendable)
              ELSE /\ Lost' \subseteq Lost \cup InHands
                   /\ ~SendTooLarge(t) /\ task[t].op # "receive" => Lost' \subseteq Lost
<1>1. /\ Typed' /\ Others(t) /\ Inside(t) /\ Empty(task'[t])
      /\ task'[t].at \in {"keys", "leave"} /\ task'[t].op = task[t].op
      /\ task'[t].at = "keys" => task[t].op = "swap_all"
      /\ IF MintAnswerLost(t)
         THEN /\ task[t].at = "mint" /\ pay' = Billed(t)
              /\ \E made \in SUBSET Unused : spendable' = (spendable \ task[t].in) \cup made
         ELSE UNCHANGED <<spendable, pay>>
      /\ UNCHANGED <<proofs, saved, out, holder, overlap, unsaved>>
  BY OnwardStep DEF IInv, Typed
<1>2. Shaped(task[t]) /\ InMemory' = InMemory
  BY <1>1 DEF IInv, Shape, InMemory
<1>3. Fresh'
  BY <1>1, FreshKept DEF IInv, Empty
<1>4. Exclusive'
  <2>1. Informed(t)'
    BY <1>1 DEF Informed
  <2> QED
    BY <1>1, <2>1, ExclusiveInside DEF IInv, Typed
<1>5. Paid'
  <2>1. CASE MintAnswerLost(t)
    <3>1. task'[t].at \notin {"wait", "keys", "mint"} \/ task[t].op # "melt"
      BY <1>1
    <3> QED
      BY <1>1, <2>1, <3>1, PaidMore DEF IInv, Typed
  <2>2. CASE ~MintAnswerLost(t)
    <3>1. task'[t].op = "melt" /\ task'[t].at \in {"wait", "keys", "mint"} => FALSE
      BY <1>1
    <3> QED
      BY <1>1, <2>2, <3>1, PaidKept DEF IInv, Typed
  <2> QED
    BY <2>1, <2>2
<1>6. ASSUME MintAnswerLost(t)
      PROVE  Lost' \subseteq Lost \cup (spendable' \ spendable)
  <2> SUFFICES ASSUME NEW x \in Lost', x \in spendable
               PROVE  x \in Lost
    BY DEF Lost
  <2>1. x \notin Unused
    BY DEF Unused
  <2>2. x \notin task[t].in /\ x \notin InMemory \cup out /\ x \notin InHands'
    BY <1>1, <1>2, <1>6, <2>1 DEF Lost
  <2>3. x \notin InHand(t)
    BY <1>1, <1>2, <1>6, <2>2 DEF InHand, Shaped
  <2>4. x \notin InHands
    BY <1>1, <2>2, <2>3, HandsOf
  <2> QED
    BY <2>2, <2>4 DEF Lost
<1>7. ASSUME ~MintAnswerLost(t)
      PROVE  Lost' \subseteq Lost \cup InHands
  BY <1>1, <1>2, <1>7 DEF Lost
<1>8. ASSUME ~MintAnswerLost(t), ~SendTooLarge(t), task[t].op # "receive"
      PROVE  Lost' \subseteq Lost
  <2>1. task[t].at \in {"keys", "mint"}
    BY <1>8 DEF SkipsEmpty, KeysFail, SelectsNothing, MintRefuses, HasKeys, WantsKeys, At
  <2>2. InHand(t) = {}
    BY <1>2, <1>8, <2>1 DEF InHand, Shaped
  <2> QED
    BY <1>1, <1>2, <1>8, <2>2, CallSteady
<1> QED
  BY <1>1, <1>3, <1>4, <1>5, <1>6, <1>7, <1>8 DEF IInv, Typed

(* The mint is asked.                                                      *)
LEMMA AskStep ==
    ASSUME IInv, NEW t \in Tasks, Selects(t) \/ Quotes(t) \/ ReceiveAsks(t)
    PROVE  IInv' /\ Steady
<1>1. /\ Typed' /\ Others(t) /\ task[t].at = "keys" /\ task'[t].at = "mint"
      /\ task'[t].op = task[t].op /\ task'[t].slot = task[t].slot
      /\ task'[t].n <= task[t].n
      /\ task'[t].new = {} /\ task'[t].change = {}
      /\ IF task[t].op = "receive" THEN task'[t].in = task[t].in
         ELSE task[t].in = {} /\ task'[t].in \subseteq proofs[task[t].slot]
      /\ task'[t].rem = IF task[t].op \in {"send", "swap_all"}
                        THEN proofs[task[t].slot] \ task'[t].in ELSE {}
      /\ task[t].op = "swap_all" => task'[t].in = proofs[task[t].slot]
      /\ UNCHANGED <<money, holder, pay, overlap, unsaved>>
  BY AsksStep DEF IInv, Typed
<1>2. Fresh'
  <2>1. task'[t].rem \subseteq InMemory
    BY <1>1 DEF InMemory, IInv, TypeOK
  <2> QED
    BY <1>1, <2>1, FreshKept DEF IInv, money
<1>3. Exclusive' /\ Steady
  <2>1. Inside(t) /\ Shaped(task[t]) /\ InMemory' = InMemory
    BY <1>1 DEF Inside, IInv, Shape, InMemory, money
  <2>2. InHand(t) = InHand(t)'
    BY <1>1, <2>1 DEF InHand, Shaped
  <2>3. Informed(t)'
    BY <1>1 DEF Informed, money
  <2>4. Steady
    BY <1>1, <2>1, <2>2, CallSteady DEF money, Steady
  <2> QED
    BY <1>1, <2>1, <2>3, <2>4, ExclusiveInside DEF IInv, Typed
<1>4. Paid'
  BY <1>1, PaidKept DEF IInv, Typed
<1> QED
  BY <1>1, <1>2, <1>3, <1>4 DEF IInv, Typed

(* The mint takes the proofs and answers.                                  *)
LEMMA TakeStep ==
    ASSUME IInv, NEW t \in Tasks, MintTakes(t)
    PROVE  IInv' /\ Steady
<1>1. /\ Typed' /\ Others(t) /\ task[t].at = "mint" /\ task'[t].at = "save"
      /\ task'[t].op = task[t].op /\ task'[t].slot = task[t].slot
      /\ task'[t].in = task[t].in /\ task'[t].rem = task[t].rem
      /\ task'[t].new \cup task'[t].change \subseteq Unused
      /\ spendable' = (spendable \ task[t].in) \cup task'[t].new \cup task'[t].change
      /\ pay' = Billed(t)
      /\ UNCHANGED <<proofs, saved, out, holder, overlap, unsaved>>
  BY MintTakesStep DEF IInv, Typed
<1>2. Fresh'
  BY FreshMade DEF IInv, Typed
<1>3. Exclusive' /\ Steady
  <2>1. Inside(t) /\ Shaped(task[t]) /\ InMemory' = InMemory
    BY <1>1 DEF Inside, IInv, Shape, InMemory
  <2>2. InHand(t) \subseteq task[t].in
    BY <1>1, <2>1 DEF InHand, Shaped
  <2>3. InHand(t)' = task[t].in \cup task'[t].new \cup task'[t].change
    BY <1>1 DEF InHand
  <2>4. ASSUME ~overlap
        PROVE  Informed(t)'
    <3>1. task[t].in \cap Unused = {} /\ Informed(t)
      BY <2>4 DEF Unused, IInv, Exclusive
    <3>2. task[t].in \cap spendable' = {}
      BY <1>1, <3>1
    <3> QED
      BY <1>1, <3>1, <3>2 DEF Informed
  <2>5. Steady
    BY <1>1, <2>1, <2>2, <2>3, CallSteady DEF Steady
  <2> QED
    BY <1>1, <2>1, <2>4, <2>5, ExclusiveInside DEF IInv, Typed
<1>4. Paid'
  BY <1>1, PaidMore DEF IInv, Typed
<1> QED
  BY <1>1, <1>2, <1>3, <1>4 DEF IInv, Typed

(* The call writes what it has, and hands out the token.                   *)
LEMMA SaveStep ==
    ASSUME IInv, NEW t \in Tasks, Saves(t) \/ SaveFails(t)
    PROVE  IInv' /\ Steady
<1>1. /\ Typed' /\ Others(t) /\ task[t].at = "save" /\ Empty(task'[t])
      /\ task'[t].at \in {"keys", "leave"} /\ task'[t].op = task[t].op
      /\ task'[t].at = "keys" => task[t].op = "swap_all"
      /\ task[t].slot \in Slots
      /\ \A s \in Slots : proofs'[s] = IF s = task[t].slot THEN Kept(t) ELSE proofs[s]
      /\ out' = IF task[t].op = "send" THEN out \cup task[t].new ELSE out
      /\ UNCHANGED <<spendable, holder, pay, overlap>>
  BY SavesStep DEF IInv, Typed
<1>2. Fresh'
  BY FreshSaved DEF IInv, Typed
<1>3. Exclusive' /\ Steady
  <2>1. Inside(t) /\ Shaped(task[t]) /\ Informed(t)'
    BY <1>1 DEF Inside, IInv, Shape, Informed
  <2>2. InHand(t) = task[t].in \cup task[t].new \cup task[t].change
    BY <1>1 DEF InHand
  <2>3. ASSUME ~overlap, NEW x \in spendable, x \in InMemory \cup out \cup InHand(t)
        PROVE  x \in InMemory' \cup out'
    <3>1. Informed(t) /\ x \notin task[t].in
      BY <1>1, <2>3 DEF IInv, Exclusive, Informed
    <3>2. Kept(t) \subseteq InMemory'
      BY <1>1 DEF InMemory
    <3>3. CASE x \in InMemory
      <4>1. PICK r \in Slots : x \in proofs[r]
        BY <3>3 DEF InMemory
      <4>2. CASE r # task[t].slot
        BY <1>1, <4>1, <4>2 DEF InMemory
      <4>3. CASE r = task[t].slot
        <5>1. x \in Kept(t)
          BY <1>1, <3>1, <4>1, <4>3 DEF Kept, Informed
        <5> QED
          BY <3>2, <5>1
      <4> QED
        BY <4>2, <4>3
    <3>4. CASE x \in out
      BY <1>1, <3>4
    <3>5. CASE x \in InHand(t)
      <4>1. x \in Kept(t) \cup out'
        BY <1>1, <2>1, <2>2, <3>1, <3>5 DEF Kept, Shaped
      <4> QED
        BY <3>2, <4>1
    <3> QED
      BY <2>3, <3>3, <3>4, <3>5
  <2>4. Steady
    BY <1>1, <2>3, CallSteady DEF Steady
  <2> QED
    BY <1>1, <2>1, <2>4, ExclusiveInside DEF IInv, Typed
<1>4. Paid'
  BY <1>1, PaidKept DEF IInv, Typed
<1> QED
  BY <1>1, <1>2, <1>3, <1>4 DEF IInv, Typed

(* The keysets, and a token that its receiver redeems.                     *)
LEMMA AloneStep ==
    ASSUME IInv, Redeem \/ \E t \in Tasks : KeysLoaded(t)
    PROVE  IInv' /\ Steady
<1>1. /\ Typed' /\ UNCHANGED <<proofs, saved, holder, task, pay, overlap, unsaved>> /\ out' \subseteq out
      /\ spendable' = spendable \ (out \ out')
  <2>1. CASE \E t \in Tasks : KeysLoaded(t)
    BY <2>1, KeysLoadedStep DEF IInv, Typed, money
  <2>2. CASE Redeem
    <3>1. UNCHANGED <<proofs, saved, keys, holder, task, pay, overlap, unsaved>>
      BY <2>2 DEF Redeem
    <3>2. out' = {} /\ spendable' = spendable \ out
      BY <2>2 DEF Redeem
    <3> QED
      BY <3>1, <3>2, NoCallTyped DEF IInv, Typed, TypeOK, keys, Shape
  <2> QED
    BY <2>1, <2>2
<1>2. Fresh' /\ Exclusive' /\ Steady
  BY <1>1, FreshAlone, ExclusiveAlone DEF IInv
<1>3. Paid'
  BY <1>1 DEF IInv, Paid, Pending, Most
<1> QED
  BY <1>1, <1>2, <1>3 DEF IInv, Typed

(* The main loop begins a call of the payout.                              *)
LEMMA PayoutCall ==
    ASSUME IInv, "main" \in Tasks, Typed', Others("main"), task["main"] = Idle,
           task'["main"].at = "wait", Empty(task'["main"]), Paid',
           UNCHANGED <<money, keys, holder, overlap>>
    PROVE  IInv' /\ Steady
<1>1. Fresh'
  BY FreshKept DEF IInv, Empty, money
<1>2. Exclusive' /\ Steady
  <2>1. ~Inside("main") /\ ~Inside("main")' /\ task["main"].in = {}
    BY IdleType DEF Inside
  <2> QED
    BY <2>1, ExclusiveOutside DEF IInv, Typed, Empty, money
<1> QED
  BY <1>1, <1>2 DEF IInv, Typed

(* lightning_payout_tick and payout_one.                                   *)
LEMMA PayoutStep ==
    ASSUME IInv, PayoutTick \/ PayoutOne \/ PayoutNone
    PROVE  IInv' /\ Steady
<1>1. "main" \in Tasks /\ pay \in Payouts /\ task["main"].at = "idle"
  BY DEF PayoutTick, PayoutOne, PayoutNone, Call, At, IInv, Shape
<1>2. Pending = 0
  BY <1>1 DEF Pending
<1>3. CASE PayoutNone
  <2>1. UNCHANGED <<proofs, saved, spendable, out, loaded, attempts, holder, task, overlap, unsaved>>
    BY <1>3 DEF PayoutNone, money, keys
  <2>2. /\ pay.left > 0
        /\ pay' = IF pay.left = 1 THEN NoPay ELSE [pay EXCEPT !.left = @ - 1]
    BY <1>3 DEF PayoutNone
  <2>3. pay' \in Payouts
    <3>1. NoPay \in Payouts
      BY WalletAssumption, FS_EmptySet, FS_CardinalityType DEF NoPay, Payouts
    <3> QED
      BY <1>1, <2>2, <3>1, WalletAssumption DEF Payouts
  <2>4. Typed'
    BY <2>1, <2>3, NoCallTyped DEF IInv, Typed, TypeOK
  <2>5. Fresh' /\ Exclusive' /\ Steady
    BY <2>1, FreshAlone, ExclusiveAlone DEF IInv
  <2>6. Pending' = 0
    BY <1>1, <2>1 DEF Pending
  <2>7. Paid'
    <3>1. CASE pay.left = 1
      BY <2>2, <2>6, <3>1, PaidNone
    <3>2. CASE pay.left # 1
      <4>1. /\ pay'.left = pay.left - 1 /\ pay'.factors = pay.factors + 0
            /\ pay'.pool = pay.pool /\ pay'.balance = pay.balance /\ pay'.paid = pay.paid
        BY <1>1, <2>2, <3>2 DEF Payouts
      <4> QED
        BY <1>2, <2>2, <2>3, <2>6, <4>1, PaidNext DEF IInv
    <3> QED
      BY <3>1, <3>2
  <2> QED
    BY <2>4, <2>5, <2>7 DEF IInv, Typed
<1>4. CASE PayoutTick
  <2>1. Call("main", "balance", 0, 0, {}) /\ UNCHANGED <<money, keys, holder, pay, overlap, unsaved>>
    BY <1>4 DEF PayoutTick
  <2>2. /\ Typed' /\ Others("main") /\ task["main"] = Idle
        /\ task'["main"].at = "wait" /\ task'["main"].op = "balance" /\ Empty(task'["main"])
    BY <1>1, <2>1, CallOtherStep DEF IInv, Typed
  <2>3. Paid'
    BY <1>1, <2>1, <2>2, PaidKept DEF IInv, Typed
  <2> QED
    BY <1>1, <2>1, <2>2, <2>3, PayoutCall DEF IInv, Typed
<1>5. CASE PayoutOne
  <2>1. PICK f \in Factors :
          /\ Call("main", "melt", 0, MaxCost(Share(pay.pool, f)), {})
          /\ pay' = [pay EXCEPT !.left = @ - 1, !.factors = @ + f]
    BY <1>5 DEF PayoutOne
  <2>2. pay.left > 0 /\ UNCHANGED <<money, keys, holder, overlap, unsaved>>
    BY <1>5 DEF PayoutOne
  <2> DEFINE M == MaxCost(Share(pay.pool, f))
  <2>3. f \in Nat /\ M \in Nat
    <3>1. f \in Nat /\ pay.pool \in Nat
      BY <1>1, MostType, WalletAssumption
    <3> QED
      BY <3>1, ShareType, Zenon
  <2>4. /\ pay' \in Payouts /\ pay'.left = pay.left - 1 /\ pay'.factors = pay.factors + f
        /\ pay'.pool = pay.pool /\ pay'.balance = pay.balance /\ pay'.paid = pay.paid
    <3>1. pay.left - 1 \in 0..Recipients /\ pay.factors + f \in Nat
      BY <1>1, <2>2, <2>3, MostType, WalletAssumption
    <3>2. pay' = [pay EXCEPT !.left = pay.left - 1, !.factors = pay.factors + f]
      BY <2>1
    <3> QED
      BY <1>1, <3>1, <3>2 DEF Payouts
  <2>5. Call("main", "melt", 0, M, {})
    BY <2>1
  <2>6. /\ Typed' /\ Others("main") /\ task["main"] = Idle
        /\ task'["main"].at = "wait" /\ task'["main"].op = "melt" /\ task'["main"].n = M
        /\ Empty(task'["main"])
    <3> HIDE DEF M
    <3> QED
      BY <1>1, <2>2, <2>3, <2>4, <2>5, CallOtherStep DEF IInv, Typed
  <2>7. Pending' = M
    <3> HIDE DEF M
    <3> QED
      BY <1>1, <2>6 DEF Pending
  <2>8. Paid'
    BY <1>2, <2>2, <2>3, <2>4, <2>7, PaidNext DEF IInv
  <2> QED
    BY <1>1, <2>2, <2>6, <2>8, PayoutCall DEF IInv, Typed
<1> QED
  BY <1>3, <1>4, <1>5

(* Before the first call.                                                  *)
LEMMA InitIInv ==
    ASSUME Init
    PROVE  IInv
<1>1. NoPay \in Payouts /\ Width > 0
  BY WalletAssumption, FS_EmptySet, FS_CardinalityType DEF NoPay, Payouts
<1>2. /\ task \in [Tasks -> Calls] /\ \A t \in Tasks : task[t] = Idle
      /\ pay = NoPay
  BY IdleType DEF Init
<1>3. Shape
  BY <1>1, <1>2, IdleType DEF Shape
<1>4. TypeOK
  <2>1. \A t \in Tasks : task[t].at \in Places /\ task[t].slot \in Slots /\ task[t].n \in Nat
    BY <1>2 DEF Calls
  <2>2. /\ pay.left \in 0..Recipients /\ pay.pool \in 0..(Width - 1) /\ pay.paid \in Nat
        /\ pay.factors \in Nat
    BY <1>1, <1>2 DEF Payouts
  <2>3. /\ proofs \in [Slots -> SUBSET Proofs] /\ saved \in [Slots -> SUBSET Proofs]
        /\ spendable = {} /\ out = {} /\ holder = "free"
    BY DEF Init
  <2>4. loaded \in [Slots -> BOOLEAN] /\ overlap \in BOOLEAN /\ unsaved \in BOOLEAN
    BY Zenon DEF Init
  <2>5. attempts \in [Slots -> 0..Overflow]
    BY WalletAssumption DEF Init
  <2> QED
    BY <2>1, <2>2, <2>3, <2>4, <2>5 DEF TypeOK
<1>5. InMemory = {} /\ InNvs = {}
  BY DEF Init, InMemory, InNvs
<1>6. Fresh
  BY <1>2, <1>5, IdleType DEF Init, Fresh, JustMade
<1>7. Exclusive
  BY <1>2, IdleType DEF Init, Exclusive, Inside, Informed
<1>8. Paid
  <2>1. Pending = 0
    BY <1>2, IdleType DEF Pending
  <2>2. Most(NoPay) \in Nat
    BY <1>1, MostType
  <2> QED
    BY <1>1, <1>2, <2>1, <2>2 DEF Paid, NoPay
<1> QED
  BY <1>3, <1>4, <1>6, <1>7, <1>8 DEF IInv, Init

(* Every step keeps the invariant and loses nothing that is not named.     *)
LEMMA NextIInv ==
    ASSUME IInv, [Next]_vars
    PROVE  IInv' /\ LossesNamed
<1>1. Steady => LossesNamed
  BY DEF Steady, LossesNamed
<1>2. ASSUME NEW t \in Tasks,
             \/ CallReceive(t) \/ CallSend(t) \/ CallSwapAll(t) \/ CallMelt(t)
             \/ Acquire(t) \/ TimesOut(t)
      PROVE  IInv' /\ LossesNamed
  BY <1>1, <1>2, BeginStep, EnterStep
<1>3. ASSUME Restarts
      PROVE  IInv' /\ LossesNamed
  BY <1>3, RestartStep DEF LossesNamed
<1>4. ASSUME NEW t \in Tasks, Leave(t)
      PROVE  IInv' /\ LossesNamed
  <2>1. CASE holder \in {"free", t}
    BY <1>1, <1>4, <2>1, GiveStep
  <2>2. CASE holder \notin {"free", t}
    BY <1>3, <1>4, <2>2 DEF Leave
  <2> QED
    BY <2>1, <2>2
<1>5. ASSUME NEW t \in Tasks,
             \/ SkipsEmpty(t) \/ KeysFail(t) \/ SelectsNothing(t) \/ MintAnswerLost(t)
             \/ MintRefuses(t) \/ SendTooLarge(t)
      PROVE  IInv' /\ LossesNamed
  <2>1. /\ IInv'
        /\ IF MintAnswerLost(t) THEN Lost' \subseteq Lost \cup (spendable' \ spendable)
           ELSE /\ Lost' \subseteq Lost \cup InHands
                /\ ~SendTooLarge(t) /\ task[t].op # "receive" => Lost' \subseteq Lost
    BY <1>5, FailStep
  <2>2. SkipsEmpty(t) \/ SelectsNothing(t) => task[t].op # "receive"
    BY DEF SkipsEmpty, SelectsNothing
  <2> QED
    BY <1>5, <2>1, <2>2 DEF LossesNamed
<1>6. ASSUME NEW t \in Tasks,
             \/ Selects(t) \/ Quotes(t) \/ ReceiveAsks(t) \/ MintTakes(t)
             \/ Saves(t) \/ SaveFails(t) \/ KeysLoaded(t)
      PROVE  IInv' /\ LossesNamed
  BY <1>1, <1>6, AskStep, TakeStep, SaveStep, AloneStep
<1>7. CASE PayoutTick \/ PayoutOne \/ PayoutNone \/ Redeem \/ PowerLoss
  BY <1>1, <1>3, <1>7, PayoutStep, AloneStep DEF PowerLoss
<1>8. CASE UNCHANGED vars
  <2>1. UNCHANGED <<proofs, saved, spendable, out, loaded, attempts, holder, task, pay, overlap, unsaved>>
    BY <1>8 DEF vars
  <2>2. Typed'
    BY <2>1, NoCallTyped DEF IInv, Typed, TypeOK, Shape
  <2>3. Fresh' /\ Exclusive' /\ Steady
    BY <2>1, FreshAlone, ExclusiveAlone DEF IInv
  <2>4. Paid'
    BY <2>1 DEF IInv, Paid, Pending, Most
  <2> QED
    BY <1>1, <2>2, <2>3, <2>4 DEF IInv, Typed
<1>9. CASE Next
  <2>1. ASSUME NEW t \in Tasks,
               CallReceive(t) \/ CallSend(t) \/ CallSwapAll(t) \/ CallMelt(t) \/ Steps(t)
        PROVE  IInv' /\ LossesNamed
    BY <2>1, <1>2, <1>4, <1>5, <1>6 DEF Steps
  <2> QED
    BY <1>7, <1>9, <2>1 DEF Next
<1> QED
  BY <1>8, <1>9

(***************************************************************************)
(* The results.                                                            *)
(***************************************************************************)

(* The inductive invariant holds in every reachable state: through calls   *)
(* that overlap after a timed-out take of the lock, exchanges that fail at *)
(* any place and restarts.                                                 *)
THEOREM WalletInvariant == Spec => []IInv
<1>1. Init => IInv
  BY InitIInv
<1>2. IInv /\ [Next]_vars => IInv'
  BY NextIInv
<1> QED
  BY <1>1, <1>2, PTL DEF Spec

(* As long as no call went on without the lock, no step of                 *)
(* nucula_wallet_send, swap_all, receive and melt loses a proof that can be*)
(* spent, at any of their returns, but those that are named, and those     *)
(* only what is in the hands of the calls or was just made by the mint.    *)
THEOREM WalletAccounted == Spec => Accounted
<1>1. IInv /\ [Next]_vars => [LossesNamed]_vars
  BY NextIInv
<1> QED
  BY <1>1, WalletInvariant, PTL DEF Spec, Accounted

(* What nucula_wallet_send has put into a token is in no wallet and not in *)
(* the NVS, even where calls overlapped.                                   *)
THEOREM WalletHandedOutOnce == Spec => []HandedOutOnce
<1>1. IInv => HandedOutOnce
  BY DEF IInv, Fresh, HandedOutOnce
<1> QED
  BY <1>1, WalletInvariant, PTL

(* One tick of lightning_payout_tick pays no more than what was above      *)
(* min_balance, up to the rounding and the tolerance for fees.             *)
THEOREM WalletReserveKept == Spec => []ReserveKept
<1>1. IInv => ReserveKept
  BY ReserveFromPaid DEF IInv
<1> QED
  BY <1>1, WalletInvariant, PTL
=============================================================================
