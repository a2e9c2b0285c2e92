--------------------------- MODULE Treasury_proofs ---------------------------
(***************************************************************************)
(* Proofs about Treasury, for every set of accounts, keys and calls.       *)
(*                                                                         *)
(* TypeInv   the types, and what every order and every call carries        *)
(* LockInv   a row is locked by one call at a time, and only the rows that *)
(*           its order locks; from it, which calls can wait in a circle    *)
(* BookInv   what is written under a key is all of its order or nothing,   *)
(*           and a transfer that is reversed has both its movements        *)
(* ReadInv   what a call has read of balances and reversals stands as long *)
(*           as it holds its locks                                         *)
(*                                                                         *)
(* IInv joins them with the two properties about money.                    *)
(*                                                                         *)
(* PairInv and SignInv, what transfers look like, are needed in addition   *)
(* to show that the treasury implements Ledger.                            *)
(***************************************************************************)
EXTENDS Treasury, TLAPS

-----------------------------------------------------------------------------
\* Types

\* A call has an order and a key from its beginning to its end.
CallInv ==
  \A r \in Request : pc[r] # "idle" => key[r] \in Key /\ OrderOf(r) # NULL

\* What the orders of callers look like
OrderShape ==
  \A k \in Key : order[k] # NULL =>
    /\ order[k].amount > 0
    /\ order[k].op = "reverseMovement" =>
         /\ order[k].target \in Id
         /\ order[k].target[2] = order[k].account
         /\ order[k].to = order[k].account
    /\ order[k].op = "reverseTransfer" => order[k].target \in Key

TypeInv == TypeOK /\ CallInv /\ OrderShape

\* The orders a caller may place
NewOrders == PostOrders \union TransferOrders \union MovementReversals \union TransferReversals

LEMMA NewOrderTypes ==
  ASSUME TypeInv, NEW o \in NewOrders
  PROVE  /\ o \in Order /\ o # NULL
         /\ o.amount > 0
         /\ o.op = "reverseMovement" =>
              o.target \in Id /\ o.target[2] = o.account /\ o.to = o.account
         /\ o.op = "reverseTransfer" => o.target \in Key
<1>0. NULL \notin Order
  BY ConstantsAssumption
<1>1. CASE o \in PostOrders
  BY <1>0, <1>1, ConstantsAssumption DEF PostOrders, Order, Post, Op
<1>2. CASE o \in TransferOrders
  BY <1>0, <1>2, ConstantsAssumption DEF TransferOrders, Order, Op
<1>3. CASE o \in MovementReversals
  BY <1>0, <1>3, ConstantsAssumption DEF MovementReversals, Order, Op, Id
<1>4. CASE o \in TransferReversals
  <2>1. PICK k \in Key : /\ order[k] # NULL
                         /\ o = [order[k] EXCEPT !.op = "reverseTransfer", !.target = k]
    BY <1>4 DEF TransferReversals, Done
  <2>2. order[k] \in Order /\ order[k].amount > 0
    BY <2>1 DEF TypeInv, TypeOK, OrderShape
  <2> QED BY <1>0, <2>1, <2>2 DEF Order, Op
<1> QED BY <1>1, <1>2, <1>3, <1>4 DEF NewOrders

LEMMA InitType == Init => TypeInv
<1> SUFFICES ASSUME Init PROVE TypeInv
  OBVIOUS
<1>1. TypeOK
  <2>1. movement \in [Id -> Movement]
    <3>1. \A id \in Id : id[2] \in Account
      BY DEF Id
    <3>2. ASSUME NEW id \in Id PROVE [NoMovement EXCEPT !.amount = Opening[id[2]]] \in Movement
      <4>1. Opening[id[2]] \in Int
        BY <3>1, ConstantsAssumption
      <4> QED BY <4>1 DEF Movement, NoMovement
    <3>3. NoMovement \in Movement
      BY DEF Movement, NoMovement
    <3> QED BY <3>2, <3>3 DEF Init
  <2>2. balance \in [Account -> Int]
    BY ConstantsAssumption DEF Init
  <2> QED BY <2>1, <2>2 DEF Init, TypeOK, PC, Unseen, Nothing
<1>2. CallInv /\ OrderShape
  BY DEF Init, CallInv, OrderShape
<1> QED BY <1>1, <1>2 DEF TypeInv

\* The rows a call wants are rows.
LEMMA WantedRows ==
  ASSUME TypeInv, NEW r \in Request
  PROVE  Wanted(r) \subseteq Row
<1> USE DEF OrderOf
<1>1. CASE pc[r] = "locking"
  <2>1. key[r] \in Key /\ order[key[r]] \in Order
    BY <1>1 DEF TypeInv, TypeOK, CallInv
  <2>2. TargetRows(order[key[r]]) \subseteq Row
    BY <2>1, ConstantsAssumption DEF TypeInv, OrderShape, TargetRows, Row, MovementRow, TransferRow
  <2>3. {AccountRow(a) : a \in InOrder(order[key[r]], {a \in AccountsLocked(order[key[r]]) : AccountRow(a) \notin held[r]})}
           \subseteq Row
    BY <2>1 DEF InOrder, AccountsLocked, Accounts, Row, Order
  <2> QED BY <1>1, <2>2, <2>3 DEF Wanted
<1>2. CASE pc[r] = "checking"
  BY <1>2 DEF Wanted, MovementRows, Row
<1>3. CASE pc[r] \notin {"locking", "checking"}
  BY <1>3 DEF Wanted
<1> QED BY <1>1, <1>2, <1>3

\* What a movement becomes when it is reversed, and what an order changes
LEMMA ChangeType ==
  ASSUME TypeInv, NEW k \in Key, order[k] # NULL, NEW a \in Account
  PROVE  /\ order[k].amount \in Nat \ {0}
         /\ Change(order[k], a) \in Int
         /\ a \in Accounts(order[k]) =>
              Change(order[k], a) \in {order[k].amount, -order[k].amount}
<1>1. order[k] \in Order /\ order[k].amount \in Nat \ {0}
  BY DEF TypeInv, TypeOK, OrderShape, Order
<1> QED BY <1>1 DEF Change

LEMMA EndType ==
  ASSUME TypeInv, NEW r \in Request, End(r)
  PROVE  /\ order' \in [Key -> Order \union {NULL}]
         /\ pc' \in [Request -> PC]
         /\ key' \in [Request -> Key \union {NULL}]
         /\ seen' \in [Request -> [Account -> Nat]]
         /\ held' \in [Request -> SUBSET Row]
         /\ found' \in [Request -> [funds : SUBSET Int, left : SUBSET Int]]
         /\ CallInv' /\ OrderShape'
<1>1. CallInv'
  BY DEF TypeInv, TypeOK, CallInv, OrderOf, End
<1>2. OrderShape'
  BY DEF TypeInv, OrderShape, End
<1>3. Unseen \in [Account -> Nat] /\ Nothing \in [funds : SUBSET Int, left : SUBSET Int]
  BY DEF Unseen, Nothing
<1> QED BY <1>1, <1>2, <1>3 DEF TypeInv, TypeOK, End, PC

LEMMA StepType == TypeInv /\ [Next]_vars => TypeInv'
<1> SUFFICES ASSUME TypeInv, [Next]_vars PROVE TypeInv'
  OBVIOUS
<1>1. ASSUME NEW r \in Request, Begin(r) PROVE TypeInv'
  <2>1. PICK k \in Key, o \in Order :
          /\ order[k] # NULL => o = order[k]
          /\ order' = [order EXCEPT ![k] = o]
          /\ key' = [key EXCEPT ![r] = k]
          /\ seen' = [seen EXCEPT ![r] =
                        [a \in Account |-> IF a \in Accounts(o) THEN rowVersion[a] ELSE 0]]
          /\ o # NULL /\ o.amount > 0
          /\ o.op = "reverseMovement" =>
               o.target \in Id /\ o.target[2] = o.account /\ o.to = o.account
          /\ o.op = "reverseTransfer" => o.target \in Key
    <3>0. PICK k \in Key : \E o \in IF order[k] # NULL THEN {order[k]} ELSE NewOrders :
            /\ order' = [order EXCEPT ![k] = o]
            /\ key' = [key EXCEPT ![r] = k]
            /\ seen' = [seen EXCEPT ![r] =
                          [a \in Account |-> IF a \in Accounts(o) THEN rowVersion[a] ELSE 0]]
      BY <1>1, Zenon DEF Begin, NewOrders
    <3>1. PICK o \in IF order[k] # NULL THEN {order[k]} ELSE NewOrders :
            /\ order' = [order EXCEPT ![k] = o]
            /\ key' = [key EXCEPT ![r] = k]
            /\ seen' = [seen EXCEPT ![r] =
                          [a \in Account |-> IF a \in Accounts(o) THEN rowVersion[a] ELSE 0]]
      BY <3>0
    <3>2. CASE order[k] # NULL
      BY <3>1, <3>2 DEF TypeInv, TypeOK, OrderShape
    <3>3. CASE order[k] = NULL
      BY <3>1, <3>3, NewOrderTypes
    <3> QED BY <3>2, <3>3
  <2>2. TypeOK'
    BY <1>1, <2>1 DEF Begin, TypeInv, TypeOK, PC, tables
  <2>3. CallInv'
    BY <1>1, <2>1 DEF Begin, TypeInv, TypeOK, CallInv, OrderOf
  <2>4. OrderShape'
    BY <2>1 DEF TypeInv, TypeOK, OrderShape
  <2> QED BY <2>2, <2>3, <2>4 DEF TypeInv
<1>2. ASSUME NEW r \in Request, Lock(r) PROVE TypeInv'
  <2>1. held' \in [Request -> SUBSET Row]
    BY <1>2, WantedRows DEF Lock, TypeInv, TypeOK
  <2> QED BY <1>2, <2>1 DEF Lock, TypeInv, TypeOK, CallInv, OrderOf, OrderShape, tables
<1>3. ASSUME NEW r \in Request, End(r), UNCHANGED tables PROVE TypeInv'
  BY <1>3, EndType DEF TypeInv, TypeOK, tables
<1>4. ASSUME NEW r \in Request, Verify(r) PROVE TypeInv'
  <2>1. {balance[a] : a \in Debited(OrderOf(r)) \ Overdraft} \subseteq Int
    <3>1. Debited(OrderOf(r)) \subseteq Account
      BY <1>4 DEF Verify, AccountsAreLocked, Debited, Accounts, OrderOf, TypeInv, TypeOK, CallInv, Order
    <3> QED BY <3>1 DEF TypeInv, TypeOK
  <2>2. {Capacity(id) : id \in Questioned(OrderOf(r))} \subseteq Int
    <3>1. Questioned(OrderOf(r)) \subseteq Id
      BY <1>4 DEF Verify, AccountsAreLocked, Questioned, OrderOf, TypeInv, OrderShape, CallInv
    <3>2. \A id \in Id : Capacity(id) \in Int
      BY DEF Capacity, TypeInv, TypeOK, Movement
    <3> QED BY <3>1, <3>2
  <2>3. found' \in [Request -> [funds : SUBSET Int, left : SUBSET Int]]
    BY <1>4, <2>1, <2>2 DEF Verify, TypeInv, TypeOK
  <2>4. TypeOK'
    BY <1>4, <2>3 DEF Verify, TypeInv, TypeOK, tables, PC
  <2>5. CallInv' /\ OrderShape'
    BY <1>4 DEF Verify, AccountsAreLocked, TypeInv, TypeOK, CallInv, OrderOf, OrderShape
  <2> QED BY <2>4, <2>5 DEF TypeInv
<1>5. ASSUME NEW r \in Request, Check(r) PROVE TypeInv'
  BY <1>5 DEF Check, TypeInv, TypeOK, CallInv, OrderOf, OrderShape, tables, PC
<1>6. ASSUME NEW r \in Request, Write(r) PROVE TypeInv'
  <2>1. key[r] \in Key /\ OrderOf(r) # NULL /\ OrderOf(r) = order[key[r]]
    BY <1>6 DEF Write, TypeInv, CallInv, OrderOf
  <2>2. movement' \in [Id -> Movement]
    <3>1. ASSUME NEW id \in Id PROVE id[2] \in Account
      BY DEF Id
    <3>2. ASSUME NEW id \in Id PROVE Reverse(OrderOf(r), movement[id]) \in Movement
      <4>1. OrderOf(r).amount \in Nat
        BY <2>1 DEF TypeInv, TypeOK, Order
      <4>2. movement[id] \in Movement
        BY DEF TypeInv, TypeOK
      <4> QED BY <4>1, <4>2 DEF Reverse, Movement
    <3>3. ASSUME NEW id \in Id
          PROVE  [amount |-> Change(OrderOf(r), id[2]), reversed |-> 0] \in Movement
      BY <2>1, <3>1, ChangeType DEF Movement
    <3> QED BY <1>6, <3>2, <3>3 DEF Write, TypeInv, TypeOK
  <2>3. balance' \in [Account -> Int] /\ rowVersion' \in [Account -> Nat]
    BY <1>6, <2>1, ChangeType DEF Write, TypeInv, TypeOK
  <2>4. reversal' \in [Key -> Key \union {NULL}]
    BY <1>6, <2>1 DEF Write, TypeInv, TypeOK
  <2> QED BY <1>6, <2>2, <2>3, <2>4, EndType DEF Write, TypeInv, TypeOK
<1>7. CASE UNCHANGED vars
  BY <1>7 DEF vars, tables, TypeInv, TypeOK, CallInv, OrderOf, OrderShape
<1> QED BY <1>1, <1>2, <1>3, <1>4, <1>5, <1>6, <1>7
     DEF Next, RefuseReversed, Replay, RefuseStale, RefuseAmount, Abort

\* The types of accounts, movements and calls, for any accounts, keys and calls
THEOREM TypeCorrect == Spec => []TypeOK
<1>1. TypeInv => TypeOK
  BY DEF TypeInv
<1> QED BY InitType, StepType, <1>1, PTL DEF Spec

-----------------------------------------------------------------------------
\* Locks

AccountRows(o) == {AccountRow(a) : a \in Accounts(o)}
MovementsOf(o) == {MovementRow(id) : id \in {i \in Id : i[2] \in Accounts(o)}}

\* A call has read what it will decide on.
Past(r) == pc[r] \in {"checking", "writing"}

\* First what is reversed, then the accounts in their order
LockingRows(o, rows) ==
  /\ rows \subseteq TargetRows(o) \union AccountRows(o)
  /\ ~(TargetRows(o) \subseteq rows) => rows \subseteq TargetRows(o)
  /\ \A a, b \in Accounts(o) :
       AccountRow(a) \in rows /\ AccountRow(b) \notin rows => Rank[a] <= Rank[b]

\* Then movements of these accounts
PastRows(o, rows) ==
  /\ TargetRows(o) \union AccountRows(o) \subseteq rows
  /\ o.op # "reverseMovement" =>
       rows \subseteq TargetRows(o) \union AccountRows(o) \union MovementsOf(o)

LockInv ==
  /\ \A r, s \in Request : r # s => held[r] \intersect held[s] = {}
  /\ \A r \in Request :
       /\ pc[r] = "idle" => held[r] = {}
       /\ pc[r] = "locking" => LockingRows(OrderOf(r), held[r])
       /\ Past(r) => PastRows(OrderOf(r), held[r])

\* An order that a caller has placed is never changed.
LEMMA OrdersStay ==
  ASSUME TypeInv, [Next]_vars
  PROVE  \A k \in Key : order[k] # NULL => order'[k] = order[k]
<1>1. ASSUME NEW r \in Request, Begin(r)
      PROVE  \A k \in Key : order[k] # NULL => order'[k] = order[k]
  <2>1. PICK k \in Key : \E o \in IF order[k] # NULL THEN {order[k]} ELSE NewOrders :
          order' = [order EXCEPT ![k] = o]
    BY <1>1, Zenon DEF Begin, NewOrders
  <2> QED BY <2>1 DEF TypeInv, TypeOK
<1> QED BY <1>1 DEF Next, vars, Lock, RefuseReversed, Replay, RefuseStale, Verify, Check,
                    RefuseAmount, Write, Abort, End

\* Nor does a call change its order while it goes on, and one call moves at a time.
LEMMA CallsStay ==
  ASSUME TypeInv, [Next]_vars, NEW s \in Request, pc[s] # "idle", pc'[s] # "idle"
  PROVE  key'[s] = key[s] /\ OrderOf(s)' = OrderOf(s)
<1>1. key[s] \in Key /\ order[key[s]] # NULL
  BY DEF TypeInv, CallInv, OrderOf
<1>2. key'[s] = key[s]
  BY DEF Next, vars, Begin, Lock, RefuseReversed, Replay, RefuseStale, Verify, Check,
         RefuseAmount, Write, Abort, End, TypeInv, TypeOK
<1> QED BY <1>1, <1>2, OrdersStay DEF OrderOf

\* A call that locks its next row
LEMMA LockStep ==
  ASSUME TypeInv, LockInv, NEW r \in Request, Lock(r)
  PROVE  /\ pc[r] = "locking" => LockingRows(OrderOf(r), held'[r])
         /\ Past(r) => PastRows(OrderOf(r), held'[r])
<1> DEFINE o == OrderOf(r)
<1>1. PICK x \in Wanted(r) : held' = [held EXCEPT ![r] = @ \union {x}]
  BY DEF Lock
<1>2. held'[r] = held[r] \union {x}
  BY <1>1 DEF TypeInv, TypeOK
<1>3. CASE pc[r] = "locking"
  <2>1. LockingRows(o, held[r])
    BY <1>3 DEF LockInv
  <2>2. CASE TargetRows(o) \ held[r] # {}
    <3>1. x \in TargetRows(o) /\ held[r] \subseteq TargetRows(o)
      BY <1>3, <2>1, <2>2 DEF Wanted, LockingRows
    <3>2. \A a \in Accounts(o) : AccountRow(a) \notin TargetRows(o)
      BY DEF AccountRow, TargetRows, MovementRow, TransferRow
    <3> QED BY <1>2, <1>3, <3>1, <3>2 DEF LockingRows, Past
  <2>3. CASE TargetRows(o) \ held[r] = {}
    <3> DEFINE A == {a \in Accounts(o) : AccountRow(a) \notin held[r]}
    <3>1. PICK c \in InOrder(o, A) : x = AccountRow(c)
      BY <1>3, <2>3 DEF Wanted, AccountsLocked
    <3>2. c \in A /\ \A b \in A : Rank[c] <= Rank[b]
      BY <3>1 DEF InOrder
    <3>3. held'[r] \subseteq TargetRows(o) \union AccountRows(o)
      BY <1>2, <2>1, <3>1, <3>2 DEF LockingRows, AccountRows
    <3>4. \A a \in Account, b \in Account : AccountRow(a) = AccountRow(b) => a = b
      BY DEF AccountRow
    <3>5. \A a, b \in Accounts(o) :
            AccountRow(a) \in held'[r] /\ AccountRow(b) \notin held'[r] => Rank[a] <= Rank[b]
      <4> SUFFICES ASSUME NEW a \in Accounts(o), NEW b \in Accounts(o),
                          AccountRow(a) \in held'[r], AccountRow(b) \notin held'[r]
                   PROVE  Rank[a] <= Rank[b]
        OBVIOUS
      <4>1. Accounts(o) \subseteq Account
        BY <1>3 DEF Accounts, OrderOf, TypeInv, TypeOK, CallInv, Order
      <4>2. b \in A
        BY <1>2
      <4>3. CASE AccountRow(a) \in held[r]
        BY <4>2, <4>3, <2>1 DEF LockingRows
      <4>4. CASE AccountRow(a) \notin held[r]
        BY <1>2, <3>1, <3>2, <3>4, <4>1, <4>2, <4>4
      <4> QED BY <4>3, <4>4
    <3>6. TargetRows(o) \subseteq held'[r]
      BY <1>2, <2>3
    <3> QED BY <1>3, <3>3, <3>5, <3>6 DEF LockingRows, Past
  <2> QED BY <2>2, <2>3
<1>4. CASE pc[r] = "checking"
  <2>1. PastRows(o, held[r])
    BY <1>4 DEF LockInv, Past
  <2>2. x \in MovementRows(o)
    BY <1>4 DEF Wanted
  <2>3. o.op # "reverseMovement" => x \in MovementsOf(o)
    BY <2>2 DEF MovementRows, MovementsOf, Debited
  <2> QED BY <1>2, <1>4, <2>1, <2>3 DEF PastRows
<1> QED BY <1>3, <1>4 DEF Lock, Past

\* A call that has all its accounts
LEMMA AllLocked ==
  ASSUME TypeInv, LockInv, NEW r \in Request, AccountsAreLocked(r)
  PROVE  PastRows(OrderOf(r), held[r])
<1> DEFINE o == OrderOf(r)
           A == {a \in Accounts(o) : AccountRow(a) \notin held[r]}
<1>1. LockingRows(o, held[r])
  BY DEF LockInv, AccountsAreLocked
<1>2. TargetRows(o) \subseteq held[r]
  BY DEF AccountsAreLocked, Wanted
<1>3. InOrder(o, A) = {}
  <2> SUFFICES ASSUME NEW a \in InOrder(o, A) PROVE FALSE
    OBVIOUS
  <2>1. AccountRow(a) \in Wanted(r)
    BY <1>2 DEF AccountsAreLocked, Wanted, AccountsLocked
  <2> QED BY <2>1 DEF AccountsAreLocked
<1>4. A = {}
  <2>1. o.account \in Account /\ o.to \in Account
    BY DEF AccountsAreLocked, OrderOf, TypeInv, TypeOK, CallInv, Order
  <2>2. Rank[o.account] \in Nat /\ Rank[o.to] \in Nat
    BY <2>1, ConstantsAssumption
  <2> SUFFICES ASSUME A # {} PROVE FALSE
    OBVIOUS
  <2>3. A \subseteq {o.account, o.to}
    BY DEF Accounts
  <2>4. \E a \in A : \A b \in A : Rank[a] <= Rank[b]
    <3>1. CASE o.account \notin A \/ o.to \notin A
      BY <2>2, <2>3, <3>1
    <3>2. CASE o.account \in A /\ o.to \in A
      BY <2>2, <2>3, <3>2
    <3> QED BY <3>1, <3>2
  <2> QED BY <1>3, <2>4 DEF InOrder
<1> QED BY <1>1, <1>2, <1>4 DEF LockingRows, PastRows, AccountRows

LEMMA InitLock == Init => LockInv
BY DEF Init, LockInv, Past

LEMMA StepLock == TypeInv /\ LockInv /\ [Next]_vars => LockInv'
<1> SUFFICES ASSUME TypeInv, LockInv, [Next]_vars PROVE LockInv'
  OBVIOUS
<1> DEFINE Fine(r) == /\ pc[r] = "idle" => held[r] = {}
                      /\ pc[r] = "locking" => LockingRows(OrderOf(r), held[r])
                      /\ Past(r) => PastRows(OrderOf(r), held[r])
\* Calls that stand still
<1>0. ASSUME NEW s \in Request, pc'[s] = pc[s], held'[s] = held[s] PROVE Fine(s)'
  <2>1. CASE pc[s] = "idle"
    BY <1>0, <2>1 DEF LockInv, Past
  <2>2. CASE pc[s] # "idle"
    BY <1>0, <2>2, CallsStay DEF LockInv, Past
  <2> QED BY <2>1, <2>2
<1>1. ASSUME NEW r \in Request, Begin(r) PROVE LockInv'
  <2>1. held' = held /\ held[r] = {} /\ pc' = [pc EXCEPT ![r] = "locking"]
    BY <1>1 DEF Begin, LockInv
  <2>2. LockingRows(OrderOf(r)', held'[r])
    BY <2>1 DEF LockingRows
  <2>3. Fine(r)'
    BY <2>1, <2>2 DEF Past, TypeInv, TypeOK
  <2>4. \A s \in Request \ {r} : pc'[s] = pc[s] /\ held'[s] = held[s]
    BY <2>1 DEF TypeInv, TypeOK
  <2> QED BY <1>0, <2>1, <2>3, <2>4 DEF LockInv
<1>2. ASSUME NEW r \in Request, Lock(r) PROVE LockInv'
  <2>1. PICK x \in Wanted(r) : Free(x) /\ held' = [held EXCEPT ![r] = @ \union {x}]
    BY <1>2 DEF Lock
  <2>2. \A s, q \in Request : s # q => held'[s] \intersect held'[q] = {}
    BY <2>1 DEF Free, LockInv, TypeInv, TypeOK
  <2>3. pc' = pc /\ order' = order /\ key' = key
    BY <1>2 DEF Lock
  <2>4. Fine(r)'
    BY <1>2, <2>3, LockStep DEF Lock, Past, OrderOf
  <2>5. \A s \in Request \ {r} : pc'[s] = pc[s] /\ held'[s] = held[s]
    BY <2>1, <2>3 DEF TypeInv, TypeOK
  <2> QED BY <1>0, <2>2, <2>4, <2>5 DEF LockInv
<1>3. ASSUME NEW r \in Request, End(r) PROVE LockInv'
  <2>1. pc'[r] = "idle" /\ held'[r] = {}
    BY <1>3 DEF End, TypeInv, TypeOK
  <2>2. \A s \in Request \ {r} : pc'[s] = pc[s] /\ held'[s] = held[s]
    BY <1>3 DEF End, TypeInv, TypeOK
  <2>3. Fine(r)'
    BY <2>1 DEF Past
  <2> QED BY <1>0, <2>1, <2>2, <2>3 DEF LockInv
<1>4. ASSUME NEW r \in Request, Verify(r) \/ Check(r) PROVE LockInv'
  <2>1. held' = held /\ order' = order /\ key' = key /\ Past(r)'
    BY <1>4 DEF Verify, Check, Past, TypeInv, TypeOK
  <2>2. \A s \in Request \ {r} : pc'[s] = pc[s] /\ held'[s] = held[s]
    BY <1>4 DEF Verify, Check, TypeInv, TypeOK
  <2>3. PastRows(OrderOf(r), held[r])
    BY <1>4, AllLocked DEF Verify, Check, LockInv, Past
  <2>4. Fine(r)'
    BY <2>1, <2>3 DEF OrderOf, Past
  <2> QED BY <1>0, <2>1, <2>2, <2>4 DEF LockInv
<1>5. CASE UNCHANGED vars
  BY <1>5 DEF vars, LockInv, Past, OrderOf
<1> QED BY <1>1, <1>2, <1>3, <1>4, <1>5
     DEF Next, RefuseReversed, Replay, RefuseStale, RefuseAmount, Write, Abort

\* What a waiting call has locked, by the kind of row it waits for
LEMMA WaitingRows ==
  ASSUME TypeInv, LockInv, NEW r \in Request, OrderOf(r).op # "reverseMovement",
         NEW x \in Wanted(r)
  PROVE  /\ x \notin held[r]
         /\ \/ /\ pc[r] = "locking"
               /\ x \in TargetRows(OrderOf(r))
               /\ held[r] = {}
            \/ /\ pc[r] = "locking"
               /\ held[r] \subseteq TargetRows(OrderOf(r)) \union AccountRows(OrderOf(r))
               /\ \E a \in Accounts(OrderOf(r)) :
                    /\ x = AccountRow(a)
                    /\ \A b \in Accounts(OrderOf(r)) :
                         AccountRow(b) \in held[r] => Rank[b] <= Rank[a]
            \/ /\ pc[r] = "checking"
               /\ \E id \in Id : x = MovementRow(id) /\ AccountRow(id[2]) \in held[r]
<1> DEFINE o == OrderOf(r)
<1>1. CASE pc[r] = "locking" /\ TargetRows(o) \ held[r] # {}
  <2>1. x \in TargetRows(o) /\ x \notin held[r]
    BY <1>1 DEF Wanted
  <2>2. held[r] \subseteq TargetRows(o)
    BY <1>1 DEF LockInv, LockingRows
  <2>3. TargetRows(o) \subseteq {x}
    BY <2>1 DEF TargetRows
  <2> QED BY <1>1, <2>1, <2>2, <2>3
<1>2. CASE pc[r] = "locking" /\ TargetRows(o) \ held[r] = {}
  <2>1. PICK a \in InOrder(o, {b \in Accounts(o) : AccountRow(b) \notin held[r]}) : x = AccountRow(a)
    BY <1>2 DEF Wanted, AccountsLocked
  <2>2. a \in Accounts(o) /\ AccountRow(a) \notin held[r]
    BY <2>1 DEF InOrder
  <2>3. LockingRows(o, held[r])
    BY <1>2 DEF LockInv
  <2> QED BY <1>2, <2>1, <2>2, <2>3 DEF LockingRows
<1>3. CASE pc[r] = "checking"
  <2>1. x \in MovementRows(o) /\ x \notin held[r]
    BY <1>3 DEF Wanted
  <2>2. PICK id \in Id : x = MovementRow(id) /\ id[2] \in Accounts(o)
    BY <2>1 DEF MovementRows, Debited
  <2>3. AccountRow(id[2]) \in held[r]
    BY <1>3, <2>2 DEF LockInv, Past, PastRows, AccountRows
  <2> QED BY <1>3, <2>1, <2>2, <2>3
<1> QED BY <1>1, <1>2, <1>3 DEF Wanted

\* Rows of different tables differ, and a row has one id.
LEMMA RowsDiffer ==
  /\ \A a, b : AccountRow(a) = AccountRow(b) => a = b
  /\ \A i, j : MovementRow(i) = MovementRow(j) => i = j
  /\ \A a, i : AccountRow(a) # MovementRow(i)
  /\ \A k, i : TransferRow(k) # MovementRow(i)
  /\ \A a, k : AccountRow(a) # TransferRow(k)
BY DEF AccountRow, MovementRow, TransferRow

\* Of two calls that wait for each other, neither waits for a movement: who has
\* locked it has locked its account, which the waiting one has locked as well.
LEMMA NoMovementAwaited ==
  ASSUME TypeInv, LockInv, NEW r \in Request, NEW s \in Request, r # s,
         OrderOf(s).op # "reverseMovement", NEW id \in Id,
         MovementRow(id) \in held[s], AccountRow(id[2]) \in held[r]
  PROVE  FALSE
<1> DEFINE o == OrderOf(s)
<1>1. MovementRow(id) \notin TargetRows(o) \union AccountRows(o)
  BY RowsDiffer DEF TargetRows, AccountRows
<1>2. Past(s)
  BY <1>1 DEF LockInv, LockingRows, Past, TypeInv, TypeOK, PC
<1>3. PastRows(o, held[s])
  BY <1>2 DEF LockInv
<1>4. MovementRow(id) \in MovementsOf(o)
  BY <1>1, <1>3 DEF PastRows
<1>5. id[2] \in Accounts(o)
  BY <1>4, RowsDiffer DEF MovementsOf
<1>6. AccountRow(id[2]) \in held[s]
  BY <1>3, <1>5 DEF PastRows, AccountRows
<1> QED BY <1>6 DEF LockInv

LEMMA NoCircle == TypeInv /\ LockInv => DeadlockNeedsReversal
<1> SUFFICES ASSUME TypeInv, LockInv, NEW r \in Request, NEW s \in Request,
                    WaitsFor(r, s), WaitsFor(s, r),
                    OrderOf(r).op # "reverseMovement", OrderOf(s).op # "reverseMovement"
             PROVE  FALSE
  BY DEF DeadlockNeedsReversal
<1>1. PICK x \in Wanted(r) : x \in held[s]
  BY DEF WaitsFor
<1>2. PICK y \in Wanted(s) : y \in held[r]
  BY DEF WaitsFor
<1>3. r # s
  BY DEF WaitsFor
<1>4. pc[r] # "checking"
  BY <1>1, <1>3, WaitingRows, NoMovementAwaited
<1>5. pc[s] # "checking"
  BY <1>2, <1>3, WaitingRows, NoMovementAwaited
<1>6. PICK a \in Accounts(OrderOf(r)) :
        /\ x = AccountRow(a) /\ x \notin held[r]
        /\ \A c \in Accounts(OrderOf(r)) : AccountRow(c) \in held[r] => Rank[c] <= Rank[a]
  BY <1>2, <1>4, WaitingRows
<1>7. PICK b \in Accounts(OrderOf(s)) :
        /\ y = AccountRow(b) /\ y \notin held[s]
        /\ \A c \in Accounts(OrderOf(s)) : AccountRow(c) \in held[s] => Rank[c] <= Rank[b]
  BY <1>1, <1>5, WaitingRows
<1>8. pc[r] = "locking" /\ pc[s] = "locking"
  BY <1>1, <1>2, <1>4, <1>5, WaitingRows
<1>9. /\ held[r] \subseteq TargetRows(OrderOf(r)) \union AccountRows(OrderOf(r))
      /\ held[s] \subseteq TargetRows(OrderOf(s)) \union AccountRows(OrderOf(s))
  BY <1>8 DEF LockInv, LockingRows
<1>10. b \in Accounts(OrderOf(r)) /\ a \in Accounts(OrderOf(s))
  <2>1. ASSUME NEW c, NEW q \in Request, OrderOf(q).op # "reverseMovement",
               AccountRow(c) \in TargetRows(OrderOf(q)) \union AccountRows(OrderOf(q))
        PROVE  c \in Accounts(OrderOf(q))
    BY <2>1, RowsDiffer DEF TargetRows, AccountRows
  <2> QED BY <1>1, <1>2, <1>6, <1>7, <1>9, <2>1
<1>11. Rank[a] <= Rank[b] /\ Rank[b] <= Rank[a]
  BY <1>1, <1>2, <1>6, <1>7, <1>10
<1>12. Accounts(OrderOf(r)) \subseteq Account
  BY <1>8 DEF Accounts, OrderOf, TypeInv, TypeOK, CallInv, Order
<1>13. a \in Account /\ b \in Account
  BY <1>10, <1>12
<1>14. a = b
  BY <1>11, <1>13, ConstantsAssumption
<1> QED BY <1>1, <1>2, <1>6, <1>7, <1>14

\* Transfers, posts and reversals of transfers never deadlock among themselves:
\* two calls that wait for each other have a reversal of a movement among them.
THEOREM DeadlocksNeedReversals == Spec => []DeadlockNeedsReversal
<1>1. Init => TypeInv /\ LockInv
  BY InitType, InitLock
<1>2. TypeInv /\ LockInv /\ [Next]_vars => (TypeInv /\ LockInv)'
  BY StepType, StepLock
<1>3. TypeInv /\ LockInv => DeadlockNeedsReversal
  BY NoCircle
<1> QED BY <1>1, <1>2, <1>3, PTL DEF Spec

-----------------------------------------------------------------------------
\* Books: what movements, orders and reversals of transfers say of each other

\* A movement under a key is of the order of that key, which is carried out as
\* a whole.
PostedInv ==
  \A k \in Key, a \in Account : Posted(<<k, a>>) =>
    /\ order[k] # NULL
    /\ a \in Accounts(order[k])
    /\ movement[<<k, a>>].amount \in {order[k].amount, -order[k].amount}
    /\ Done(k)

\* A reversal has something to reverse, and one of a transfer is like it.
TargetInv ==
  \A k \in Key : order[k] # NULL =>
    /\ order[k].op = "reverseMovement" =>
         Posted(order[k].target) /\ ~IsLeg(order[k].target)
    /\ order[k].op = "reverseTransfer" =>
         /\ Done(order[k].target)
         /\ order[order[k].target].op = "transfer"
         /\ order[order[k].target].amount = order[k].amount
         /\ Accounts(order[order[k].target]) = Accounts(order[k])

\* The legs of a transfer are reversed with it or not at all.
ReversedInv ==
  \A k \in Key :
    /\ reversal[k] # NULL => Done(reversal[k])
    /\ reversal[k] = NULL /\ (order[k] = NULL \/ order[k].op = "transfer") =>
         \A a \in Account : movement[<<k, a>>].reversed = 0

WholeInv == \A k \in Key : Done(k) => \A a \in Accounts(order[k]) : Posted(<<k, a>>)

BookInv == PostedInv /\ TargetInv /\ ReversedInv /\ WholeInv

\* What a call has read under its locks stands until it ends.
ReadStands(r) ==
  LET o == OrderOf(r) IN
  /\ ~Done(key[r])
  /\ \A a \in Debited(o) \ Overdraft : balance[a] \in found[r].funds
  /\ \A id \in Questioned(o) : Capacity(id) \in found[r].left
  /\ o.op = "reverseTransfer" => reversal[o.target] = NULL
  /\ pc[r] = "writing" => FitsCapacity(r) /\ Sufficient(r)

ReadInv == \A r \in Request : Past(r) => ReadStands(r)

\* Calls that have locked their accounts have no account and no transfer in common.
LEMMA Apart ==
  ASSUME LockInv, NEW r \in Request, NEW s \in Request, r # s, Past(r), Past(s)
  PROVE  /\ Accounts(OrderOf(r)) \intersect Accounts(OrderOf(s)) = {}
         /\ TargetRows(OrderOf(r)) \intersect TargetRows(OrderOf(s)) = {}
<1>1. PastRows(OrderOf(r), held[r]) /\ PastRows(OrderOf(s), held[s])
  BY DEF LockInv
<1>2. held[r] \intersect held[s] = {}
  BY DEF LockInv
<1> QED BY <1>1, <1>2 DEF PastRows, AccountRows

\* A key whose order is not carried out has no movements.
LEMMA Unposted ==
  ASSUME PostedInv, NEW k \in Key, ~Done(k)
  PROVE  \A a \in Account : ~Posted(<<k, a>>)
BY DEF PostedInv

LEMMA IdType ==
  /\ \A id \in Id : /\ id = <<id[1], id[2]>> /\ id[2] \in Account
                     /\ (id[1] \in Key \/ id[1] = NULL)
  /\ \A k \in Key, a \in Account : /\ <<k, a>> \in Id
                                   /\ <<k, a>>[1] = k /\ <<k, a>>[2] = a
BY DEF Id

\* The rows that an order of a call posts
PostedBy(r, id) == id[1] = key[r] /\ id[2] \in Accounts(OrderOf(r))

\* What a call writes: movements under its key, and reversals.
LEMMA WriteEffect ==
  ASSUME TypeInv, BookInv, ReadInv, NEW r \in Request, Write(r)
  PROVE  /\ key[r] \in Key /\ OrderOf(r) = order[key[r]] /\ order[key[r]] # NULL
         /\ order' = order
         /\ \A id \in Id : Posted(id) => id[1] # key[r]
<1>1. key[r] \in Key /\ OrderOf(r) = order[key[r]] /\ order[key[r]] # NULL
  BY DEF Write, TypeInv, CallInv, OrderOf
<1>2. ~Done(key[r])
  BY DEF Write, ReadInv, ReadStands, Past
<1>3. \A id \in Id : Posted(id) => id[1] # key[r]
  <2> SUFFICES ASSUME NEW id \in Id, Posted(id), id[1] = key[r] PROVE FALSE
    OBVIOUS
  <2>1. id = <<key[r], id[2]>> /\ id[2] \in Account
    BY DEF Id
  <2>2. ~Posted(<<key[r], id[2]>>)
    BY <1>1, <1>2, <2>1, Unposted, Zenon DEF BookInv
  <2> QED BY <2>1, <2>2
<1>4. order' = order
  BY DEF Write, End
<1> QED BY <1>1, <1>3, <1>4

LEMMA WriteRow ==
  ASSUME TypeInv, NEW r \in Request, Write(r), NEW id \in Id
  PROVE  /\ PostedBy(r, id) =>
              /\ movement'[id].amount = Change(OrderOf(r), id[2])
              /\ movement'[id].reversed = 0
         /\ ~PostedBy(r, id) =>
              /\ movement'[id].amount = movement[id].amount
              /\ id \notin Undone(OrderOf(r)) => movement'[id].reversed = movement[id].reversed
              /\ id \in Undone(OrderOf(r)) =>
                   movement'[id].reversed = movement[id].reversed + OrderOf(r).amount
<1>1. CASE PostedBy(r, id)
  BY <1>1 DEF Write, PostedBy
<1>2. CASE ~PostedBy(r, id)
  <2>1. movement[id] \in Movement
    BY DEF TypeInv, TypeOK
  <2>2. id \notin Undone(OrderOf(r)) => movement'[id] = movement[id]
    BY <1>2 DEF Write, PostedBy
  <2>3. id \in Undone(OrderOf(r)) => movement'[id] = Reverse(OrderOf(r), movement[id])
    BY <1>2 DEF Write, PostedBy
  <2> QED BY <1>2, <2>1, <2>2, <2>3 DEF Reverse, Movement
<1> QED BY <1>1, <1>2

\* A movement that is posted keeps its amount and stays what it is.
LEMMA PostedStays ==
  ASSUME TypeInv, BookInv, ReadInv, [Next]_vars, NEW id \in Id, Posted(id)
  PROVE  /\ Posted(id)'
         /\ movement'[id].amount = movement[id].amount
<1>2. ASSUME NEW r \in Request, Write(r)
      PROVE  movement'[id].amount = movement[id].amount
  BY <1>2, WriteEffect, WriteRow DEF PostedBy
<1>3. (\E r \in Request : Write(r)) \/ UNCHANGED movement
  BY DEF Next, vars, tables, Begin, Lock, RefuseReversed, Replay, RefuseStale, Verify, Check,
         RefuseAmount, Abort
<1> QED BY <1>2, <1>3 DEF Posted

LEMMA DoneStays ==
  ASSUME TypeInv, BookInv, ReadInv, [Next]_vars, NEW k \in Key, Done(k)
  PROVE  Done(k)'
<1>1. order'[k] = order[k] /\ order[k] # NULL
  BY OrdersStay DEF Done
<1>2. order[k].account \in Account
  BY <1>1 DEF TypeInv, TypeOK, Order
<1>3. Posted(<<k, order[k].account>>)'
  <2>1. <<k, order[k].account>> \in Id
    BY <1>2, IdType
  <2>2. movement'[<<k, order[k].account>>].amount # 0
    BY <2>1, PostedStays DEF Done, Posted
  <2> QED BY <1>1, <2>2 DEF Posted
<1> QED BY <1>1, <1>3 DEF Done

LEMMA InitBook == Init => BookInv /\ ReadInv
<1> SUFFICES ASSUME Init PROVE BookInv /\ ReadInv
  OBVIOUS
<1>1. \A k \in Key, a \in Account : movement[<<k, a>>] = NoMovement
  BY IdType, ConstantsAssumption DEF Init
<1>2. BookInv
  <2>1. ASSUME NEW k \in Key, NEW a \in Account
        PROVE  ~Posted(<<k, a>>) /\ movement[<<k, a>>].reversed = 0
    <3>1. NoMovement.amount = 0 /\ NoMovement.reversed = 0
      BY DEF NoMovement
    <3> QED BY <1>1, <3>1, Zenon DEF Posted
  <2>2. PostedInv
    BY <2>1 DEF PostedInv
  <2>3. TargetInv /\ ReversedInv /\ WholeInv
    BY <2>1 DEF Init, TargetInv, ReversedInv, WholeInv, Done
  <2> QED BY <2>2, <2>3 DEF BookInv
<1>3. ReadInv
  BY DEF Init, ReadInv, Past
<1> QED BY <1>2, <1>3

\* The books at rest: nothing but a new order
LEMMA QuietBook ==
  ASSUME TypeInv, BookInv, ReadInv, [Next]_vars, UNCHANGED <<movement, reversal>>
  PROVE  PostedInv' /\ ReversedInv'
<1>1. \A k \in Key : order[k] # NULL => order'[k] = order[k]
  BY OrdersStay
<1>2. \A k \in Key : Done(k) => Done(k)'
  BY DoneStays
<1>3. PostedInv'
  BY <1>1, <1>2 DEF BookInv, PostedInv, Posted
<1>4. ReversedInv'
  <2>1. \A k \in Key : reversal'[k] # NULL => Done(reversal[k])'
    BY <1>2 DEF BookInv, ReversedInv, TypeInv, TypeOK
  <2>2. \A k \in Key : order'[k] = NULL \/ order'[k].op = "transfer" =>
                          order[k] = NULL \/ order[k].op = "transfer"
    BY <1>1
  <2> QED BY <2>1, <2>2 DEF BookInv, ReversedInv
<1> QED BY <1>3, <1>4

LEMMA WriteBook ==
  ASSUME TypeInv, BookInv, ReadInv, [Next]_vars, NEW r \in Request, Write(r)
  PROVE  PostedInv' /\ ReversedInv'
<1>1. PICK k0 \in Key, o \in Order :
        k0 = key[r] /\ o = OrderOf(r) /\ o = order[k0] /\ order[k0] # NULL /\ order' = order
  BY WriteEffect DEF TypeInv, TypeOK
<1>2. \A k \in Key : Done(k) => Done(k)'
  BY DoneStays
<1>3. o.account \in Account /\ o.account \in Accounts(o)
  BY <1>1 DEF Accounts, TypeInv, TypeOK, Order
\* the rows of the order
<1>4. ASSUME NEW a \in Account, a \in Accounts(o)
      PROVE  /\ movement'[<<k0, a>>].amount \in {o.amount, -o.amount}
             /\ movement'[<<k0, a>>].amount # 0
  <2>1. <<k0, a>> \in Id /\ PostedBy(r, <<k0, a>>)
    BY <1>1, <1>4, IdType DEF PostedBy
  <2>2. Change(o, a) \in {o.amount, -o.amount} /\ o.amount \in Nat \ {0}
    BY <1>1, <1>4, ChangeType
  <2>3. <<k0, a>>[2] = a
    OBVIOUS
  <2>4. movement'[<<k0, a>>].amount = Change(o, a)
    BY <1>1, <2>1, <2>3, WriteRow
  <2> QED BY <2>2, <2>4
<1>5. Done(k0)'
  BY <1>1, <1>3, <1>4 DEF Done, Posted
<1>6. PostedInv'
  <2> SUFFICES ASSUME NEW k \in Key, NEW a \in Account, Posted(<<k, a>>)'
               PROVE  /\ order[k] # NULL
                      /\ a \in Accounts(order[k])
                      /\ movement'[<<k, a>>].amount \in {order[k].amount, -order[k].amount}
                      /\ Done(k)'
    BY <1>1 DEF PostedInv
  <2>1. CASE k = k0 /\ a \in Accounts(o)
    BY <1>1, <1>4, <1>5, <2>1
  <2>2. CASE ~(k = k0 /\ a \in Accounts(o))
    <3>1. <<k, a>> \in Id /\ ~PostedBy(r, <<k, a>>)
      BY <1>1, <2>2, IdType DEF PostedBy
    <3>2. movement'[<<k, a>>].amount = movement[<<k, a>>].amount
      BY <3>1, WriteRow
    <3>3. Posted(<<k, a>>)
      BY <3>2 DEF Posted
    <3> QED BY <1>2, <3>2, <3>3 DEF BookInv, PostedInv
  <2> QED BY <2>1, <2>2
<1>7. ReversedInv'
  <2>1. \A k \in Key : reversal'[k] = IF o.op = "reverseTransfer" /\ k = o.target THEN k0 ELSE reversal[k]
    BY <1>1 DEF Write
  <2>2. ASSUME NEW k \in Key, reversal'[k] # NULL PROVE Done(reversal[k])'
    BY <1>1, <1>2, <1>5, <2>1, <2>2 DEF BookInv, ReversedInv, TypeInv, TypeOK
  <2>3. ASSUME NEW k \in Key, reversal'[k] = NULL, order[k] = NULL \/ order[k].op = "transfer",
               NEW a \in Account
        PROVE  movement'[<<k, a>>].reversed = 0
    <3>1. k0 # NULL
      BY <1>1, ConstantsAssumption
    <3>2. reversal[k] = NULL /\ ~(o.op = "reverseTransfer" /\ k = o.target)
      BY <2>1, <2>3, <3>1
    <3>3. <<k, a>> \notin Undone(o)
      <4> SUFFICES ASSUME o.op = "reverseMovement", o.target = <<k, a>> PROVE FALSE
        BY <3>2, IdType DEF Undone
      <4>1. Posted(<<k, a>>) /\ ~IsLeg(<<k, a>>)
        BY <1>1 DEF BookInv, TargetInv
      <4>2. k # NULL
        BY ConstantsAssumption
      <4> QED BY <2>3, <4>1, <4>2, IdType DEF BookInv, PostedInv, IsLeg
    <3>4. movement[<<k, a>>].reversed = 0
      BY <2>3, <3>2 DEF BookInv, ReversedInv
    <3>5. <<k, a>> \in Id
      BY IdType
    <3> QED BY <1>1, <3>3, <3>4, <3>5, WriteRow
  <2> QED BY <1>1, <2>2, <2>3 DEF ReversedInv
<1> QED BY <1>6, <1>7

LEMMA StepTarget ==
  ASSUME TypeInv, BookInv, ReadInv, [Next]_vars
  PROVE  TargetInv'
<1>1. \A k \in Key : order[k] # NULL => order'[k] = order[k]
  BY OrdersStay
<1> DEFINE Right(o) ==
      /\ o.op = "reverseMovement" => o.target \in Id /\ Posted(o.target) /\ ~IsLeg(o.target)
      /\ o.op = "reverseTransfer" =>
           /\ o.target \in Key /\ Done(o.target)
           /\ order[o.target].op = "transfer"
           /\ order[o.target].amount = o.amount
           /\ Accounts(order[o.target]) = Accounts(o)
\* an order that is right stays so
<1>2. ASSUME NEW o, Right(o)
      PROVE  /\ o.op = "reverseMovement" => Posted(o.target)' /\ ~IsLeg(o.target)'
             /\ o.op = "reverseTransfer" =>
                  /\ Done(o.target)'
                  /\ order'[o.target].op = "transfer"
                  /\ order'[o.target].amount = o.amount
                  /\ Accounts(order'[o.target]) = Accounts(o)
  <2>1. o.op = "reverseMovement" => Posted(o.target)' /\ ~IsLeg(o.target)'
    <3> SUFFICES ASSUME o.op = "reverseMovement" PROVE Posted(o.target)' /\ ~IsLeg(o.target)'
      OBVIOUS
    <3>1. o.target \in Id /\ Posted(o.target) /\ ~IsLeg(o.target)
      BY <1>2
    <3>2. PICK k \in Key \union {NULL}, a \in Account : o.target = <<k, a>>
      BY <3>1 DEF Id
    <3>3. k \in Key => order[k] # NULL
      BY <3>1, <3>2 DEF BookInv, PostedInv
    <3>4. Posted(o.target)'
      BY <3>1, PostedStays
    <3>5. k # NULL => order'[k] = order[k]
      BY <1>1, <3>3
    <3> QED BY <3>1, <3>2, <3>4, <3>5 DEF IsLeg
  <2>2. ASSUME o.op = "reverseTransfer"
        PROVE  Done(o.target)' /\ order'[o.target] = order[o.target]
    BY <1>1, <1>2, <2>2, DoneStays DEF Done
  <2> QED BY <1>2, <2>1, <2>2
<1>3. ASSUME NEW k \in Key, order[k] # NULL PROVE Right(order[k])
  BY <1>3 DEF BookInv, TargetInv, TypeInv, OrderShape
<1>4. ASSUME NEW o \in NewOrders PROVE Right(o)
  <2>1. CASE o \in PostOrders \union TransferOrders
    BY <2>1 DEF PostOrders, TransferOrders, Post
  <2>2. CASE o \in MovementReversals
    BY <2>2 DEF MovementReversals
  <2>3. CASE o \in TransferReversals
    <3>1. PICK k \in Key : /\ Done(k) /\ order[k].op = "transfer"
                           /\ o = [order[k] EXCEPT !.op = "reverseTransfer", !.target = k]
      BY <2>3 DEF TransferReversals
    <3>2. order[k] \in Order
      BY <3>1 DEF Done, TypeInv, TypeOK
    <3> QED BY <3>1, <3>2 DEF Order, Accounts
  <2> QED BY <2>1, <2>2, <2>3 DEF NewOrders
<1>5. ASSUME NEW k \in Key, order'[k] # NULL PROVE Right(order'[k])
  <2>1. CASE order[k] # NULL
    BY <1>1, <1>3, <2>1
  <2>2. CASE order[k] = NULL
    <3>1. PICK r \in Request : Begin(r)
      BY <1>5, <2>2 DEF Next, vars, Lock, RefuseReversed, Replay, RefuseStale, Verify, Check,
                        RefuseAmount, Write, Abort, End
    <3>2. PICK l \in Key : \E o \in IF order[l] # NULL THEN {order[l]} ELSE NewOrders :
            order' = [order EXCEPT ![l] = o]
      BY <3>1, Zenon DEF Begin, NewOrders
    <3>3. order'[k] \in NewOrders
      BY <1>5, <2>2, <3>2 DEF TypeInv, TypeOK
    <3> QED BY <1>4, <3>3
  <2> QED BY <2>1, <2>2
<1> QED BY <1>2, <1>5 DEF TargetInv

LEMMA StepWhole ==
  ASSUME TypeInv, BookInv, ReadInv, [Next]_vars
  PROVE  WholeInv'
<1> SUFFICES ASSUME NEW k \in Key, Done(k)', NEW a \in Accounts(order'[k]) PROVE Posted(<<k, a>>)'
  BY DEF WholeInv, Accounts
<1>1. order'[k] \in Order
  BY StepType DEF Done, TypeInv, TypeOK
<1>2. a \in Account /\ order'[k].account \in Account
  BY <1>1 DEF Accounts, Order
<1>3. CASE Done(k)
  <2>1. Posted(<<k, a>>)
    BY <1>3, OrdersStay DEF BookInv, WholeInv, Done
  <2> QED BY <1>2, <2>1, IdType, PostedStays
\* the order has just been carried out
<1>4. CASE ~Done(k)
  <2>1. movement'[<<k, order'[k].account>>].amount # 0
    BY DEF Done, Posted
  <2>2. movement[<<k, order'[k].account>>].amount = 0
    BY <1>2, <1>4, Unposted DEF BookInv, Posted
  <2>3. PICK r \in Request : Write(r)
    BY <2>1, <2>2 DEF Next, vars, tables, Begin, Lock, RefuseReversed, Replay, RefuseStale, Verify,
                      Check, RefuseAmount, Abort
  <2>4. <<k, order'[k].account>> \in Id /\ <<k, a>> \in Id
    BY <1>2, IdType
  <2>5. PostedBy(r, <<k, order'[k].account>>)
    BY <2>1, <2>2, <2>3, <2>4, WriteRow
  <2>6. k = key[r] /\ OrderOf(r) = order[k] /\ order' = order /\ order[k] # NULL
    BY <2>3, <2>5, WriteEffect DEF PostedBy
  <2>7. PostedBy(r, <<k, a>>) /\ <<k, a>>[2] = a
    BY <2>6 DEF PostedBy
  <2>8. movement'[<<k, a>>].amount = Change(order[k], a)
    BY <2>3, <2>4, <2>6, <2>7, WriteRow
  <2>9. Change(order[k], a) \in {order[k].amount, -order[k].amount} /\ order[k].amount \in Nat \ {0}
    BY <1>2, <2>6, ChangeType
  <2> QED BY <2>8, <2>9 DEF Posted
<1> QED BY <1>3, <1>4

LEMMA StepBook == TypeInv /\ BookInv /\ ReadInv /\ [Next]_vars => BookInv'
<1> SUFFICES ASSUME TypeInv, BookInv, ReadInv, [Next]_vars PROVE BookInv'
  OBVIOUS
<1>1. (\E r \in Request : Write(r)) \/ UNCHANGED <<movement, reversal>>
  BY DEF Next, vars, tables, Begin, Lock, RefuseReversed, Replay, RefuseStale, Verify, Check,
         RefuseAmount, Abort
<1>2. PostedInv' /\ ReversedInv'
  BY <1>1, WriteBook, QuietBook
<1> QED BY <1>2, StepTarget, StepWhole DEF BookInv

-----------------------------------------------------------------------------
\* What calls have read

\* The accounts an order debits depend on the sign of what it reverses, which stays.
LEMMA DebitedStays ==
  ASSUME TypeInv, BookInv, ReadInv, [Next]_vars, NEW s \in Request, pc[s] # "idle", pc'[s] # "idle"
  PROVE  /\ OrderOf(s)' = OrderOf(s) /\ OrderOf(s) \in Order /\ key'[s] = key[s]
         /\ Accounts(OrderOf(s))' = Accounts(OrderOf(s))
         /\ Debited(OrderOf(s))' = Debited(OrderOf(s))
         /\ Questioned(OrderOf(s))' = Questioned(OrderOf(s))
<1>1. OrderOf(s)' = OrderOf(s) /\ key'[s] = key[s]
  BY CallsStay
<1>2. key[s] \in Key /\ order[key[s]] # NULL /\ OrderOf(s) = order[key[s]]
  BY DEF TypeInv, CallInv, OrderOf
<1>3. OrderOf(s) \in Order
  BY <1>2 DEF TypeInv, TypeOK
<1>4. OrderOf(s).op = "reverseMovement" =>
        movement'[OrderOf(s).target].amount = movement[OrderOf(s).target].amount
  BY <1>2, PostedStays DEF BookInv, TargetInv, TypeInv, OrderShape
<1>5. Accounts(OrderOf(s))' = Accounts(OrderOf(s))
  BY <1>1 DEF Accounts
<1>6. Debited(OrderOf(s))' = Debited(OrderOf(s))
  BY <1>1, <1>4, <1>5 DEF Debited
<1>7. Questioned(OrderOf(s))' = Questioned(OrderOf(s))
  BY <1>1 DEF Questioned
<1> QED BY <1>1, <1>3, <1>5, <1>6, <1>7

\* A call at rest, while the books rest
LEMMA QuietRead ==
  ASSUME TypeInv, BookInv, ReadInv, [Next]_vars, UNCHANGED tables, NEW s \in Request, Past(s),
         pc'[s] = pc[s], found'[s] = found[s]
  PROVE  ReadStands(s)'
<1>1. pc[s] # "idle" /\ pc'[s] # "idle"
  BY DEF Past
<1>2. ReadStands(s)
  BY DEF ReadInv
<1>3. key[s] \in Key /\ order[key[s]] # NULL /\ order'[key[s]] = order[key[s]]
  BY <1>1, OrdersStay DEF TypeInv, CallInv, OrderOf
<1>4. ~Done(key[s])'
  BY <1>1, <1>2, <1>3, DebitedStays DEF ReadStands, Done, Posted, tables
<1>5. \A a \in Debited(OrderOf(s))' \ Overdraft : balance'[a] \in found'[s].funds
  BY <1>1, <1>2, DebitedStays DEF ReadStands, tables
<1>6. \A id \in Questioned(OrderOf(s))' : Capacity(id)' \in found'[s].left
  BY <1>1, <1>2, DebitedStays DEF ReadStands, Capacity, tables
<1>7. OrderOf(s)'.op = "reverseTransfer" => reversal'[OrderOf(s)'.target] = NULL
  BY <1>1, <1>2, DebitedStays DEF ReadStands, tables
<1>8. pc'[s] = "writing" => FitsCapacity(s)' /\ Sufficient(s)'
  BY <1>1, <1>2, DebitedStays DEF ReadStands, FitsCapacity, Sufficient
<1> QED BY <1>4, <1>5, <1>6, <1>7, <1>8 DEF ReadStands

\* A call at rest, while another writes
LEMMA WriteRead ==
  ASSUME TypeInv, LockInv, BookInv, ReadInv, [Next]_vars,
         NEW r \in Request, Write(r), NEW s \in Request, r # s, Past(s)
  PROVE  ReadStands(s)'
<1>1. pc'[s] = pc[s] /\ found'[s] = found[s] /\ pc[s] # "idle" /\ pc'[s] # "idle"
  BY DEF Write, End, Past, TypeInv, TypeOK
<1>2. ReadStands(s)
  BY DEF ReadInv
<1>3. /\ Accounts(OrderOf(r)) \intersect Accounts(OrderOf(s)) = {}
      /\ TargetRows(OrderOf(r)) \intersect TargetRows(OrderOf(s)) = {}
  BY Apart DEF Write, Past
<1>4. key[s] \in Key /\ OrderOf(s) = order[key[s]] /\ order[key[s]] # NULL
  BY <1>1 DEF TypeInv, CallInv, OrderOf
<1>5. order' = order /\ key'[s] = key[s] /\ OrderOf(s)' = OrderOf(s)
  BY <1>1, WriteEffect, CallsStay
<1>6. OrderOf(s).account \in Account /\ OrderOf(s).account \in Accounts(OrderOf(s))
  BY <1>4 DEF Accounts, TypeInv, TypeOK, Order
<1>7. ~Done(key[s])'
  <2>1. PICK k \in Key, a \in Account : k = key[s] /\ a = OrderOf(s).account
    BY <1>4, <1>6
  <2>2. <<k, a>> \in Id /\ ~PostedBy(r, <<k, a>>)
    BY <1>3, <1>6, <2>1, IdType DEF PostedBy
  <2>3. movement'[<<k, a>>].amount = movement[<<k, a>>].amount
    BY <2>2, WriteRow
  <2>4. movement[<<k, a>>].amount = 0
    BY <1>2, <1>4, <2>1 DEF ReadStands, Done, Posted
  <2> QED BY <1>4, <1>5, <2>1, <2>3, <2>4 DEF Done, Posted
<1>8. \A a \in Debited(OrderOf(s))' \ Overdraft : balance'[a] \in found'[s].funds
  <2> SUFFICES ASSUME NEW a \in Debited(OrderOf(s)) \ Overdraft PROVE balance'[a] \in found[s].funds
    BY <1>1, DebitedStays
  <2>1. a \in Accounts(OrderOf(s)) /\ balance[a] \in found[s].funds
    BY <1>2 DEF Debited, ReadStands
  <2>2. a \in Account
    BY <1>4, <2>1 DEF Accounts, TypeInv, TypeOK, Order
  <2>3. Change(OrderOf(r), a) = 0
    BY <1>3, <2>1 DEF Change
  <2>4. balance'[a] = balance[a] + 0
    BY <2>2, <2>3 DEF Write
  <2> QED BY <2>1, <2>2, <2>4 DEF TypeInv, TypeOK
<1>9. \A id \in Questioned(OrderOf(s))' : Capacity(id)' \in found'[s].left
  <2> SUFFICES ASSUME NEW id \in Questioned(OrderOf(s)) PROVE Capacity(id)' \in found[s].left
    BY <1>1, DebitedStays
  <2>1. OrderOf(s).op = "reverseMovement" /\ id = OrderOf(s).target
    BY DEF Questioned
  <2>2. id \in Id /\ Posted(id) /\ id[2] \in Accounts(OrderOf(s))
    BY <1>4, <2>1 DEF BookInv, TargetInv, TypeInv, OrderShape, Accounts
  <2>3. ~PostedBy(r, id)
    BY <2>2, WriteEffect DEF PostedBy
  <2>4. id \notin Undone(OrderOf(r))
    BY <1>3, <2>1, <2>2 DEF Undone, TargetRows
  <2>5. movement'[id].amount = movement[id].amount /\ movement'[id].reversed = movement[id].reversed
    BY <2>2, <2>3, <2>4, WriteRow
  <2>6. Capacity(id)' = Capacity(id)
    BY <2>5 DEF Capacity
  <2> QED BY <1>2, <2>6 DEF ReadStands
<1>10. OrderOf(s)'.op = "reverseTransfer" => reversal'[OrderOf(s)'.target] = NULL
  <2> SUFFICES ASSUME OrderOf(s).op = "reverseTransfer" PROVE reversal'[OrderOf(s).target] = NULL
    BY <1>5
  <2>1. OrderOf(s).target \in Key
    BY <1>4 DEF TypeInv, OrderShape
  <2>2. ~(OrderOf(r).op = "reverseTransfer" /\ OrderOf(s).target = OrderOf(r).target)
    BY <1>3 DEF TargetRows
  <2>3. reversal'[OrderOf(s).target] = reversal[OrderOf(s).target]
    BY <2>1, <2>2 DEF Write
  <2> QED BY <1>2, <2>3 DEF ReadStands
<1>11. pc'[s] = "writing" => FitsCapacity(s)' /\ Sufficient(s)'
  BY <1>1, <1>2, <1>5 DEF ReadStands, FitsCapacity, Sufficient
<1> QED BY <1>7, <1>8, <1>9, <1>10, <1>11 DEF ReadStands

\* A call that reads, with all its accounts locked
LEMMA VerifyRead ==
  ASSUME TypeInv, LockInv, BookInv, ReadInv, NEW r \in Request, Verify(r)
  PROVE  ReadStands(r)'
<1> DEFINE o == OrderOf(r)
<1>1. /\ UNCHANGED <<order, tables, key>> /\ pc'[r] = "checking"
      /\ found'[r] = [funds |-> {balance[a] : a \in Debited(o) \ Overdraft},
                      left |-> {Capacity(id) : id \in Questioned(o)}]
  BY DEF Verify, TypeInv, TypeOK
<1>2. o' = o
  BY <1>1 DEF OrderOf
<1>3. Debited(o)' = Debited(o) /\ Questioned(o)' = Questioned(o)
  BY <1>1, <1>2 DEF Debited, Questioned, Accounts, tables
<1>4. ~Done(key[r])'
  BY <1>1 DEF Verify, Done, Posted, tables
<1>5. \A a \in Debited(o)' \ Overdraft : balance'[a] \in found'[r].funds
  BY <1>1, <1>3 DEF tables
<1>6. \A id \in Questioned(o)' : Capacity(id)' \in found'[r].left
  BY <1>1, <1>3 DEF Capacity, tables
<1>7. ASSUME o.op = "reverseTransfer" PROVE reversal[o.target] = NULL
  <2>1. TargetRows(o) \subseteq held[r]
    BY AllLocked DEF Verify, PastRows
  <2>2. reversal[o.target] \in {NULL, key[r]}
    BY <1>7, <2>1 DEF Verify, AccountsAreLocked, ReversedUnderOtherKey
  <2>3. o.target \in Key
    BY <1>7 DEF Verify, AccountsAreLocked, TypeInv, CallInv, OrderShape, OrderOf
  <2>4. ~Done(key[r])
    BY DEF Verify
  <2> QED BY <2>2, <2>3, <2>4 DEF BookInv, ReversedInv
<1>8. o'.op = "reverseTransfer" => reversal'[o'.target] = NULL
  BY <1>1, <1>2, <1>7 DEF tables
<1> QED BY <1>1, <1>4, <1>5, <1>6, <1>8 DEF ReadStands

LEMMA StepRead == TypeInv /\ LockInv /\ BookInv /\ ReadInv /\ [Next]_vars => ReadInv'
<1> SUFFICES ASSUME TypeInv, LockInv, BookInv, ReadInv, [Next]_vars, NEW s \in Request, Past(s)'
             PROVE  ReadStands(s)'
  BY DEF ReadInv
<1>1. ASSUME NEW r \in Request, Write(r) PROVE ReadStands(s)'
  <2>1. r # s /\ Past(s)
    BY <1>1 DEF Write, End, Past, TypeInv, TypeOK
  <2> QED BY <1>1, <2>1, WriteRead
<1>2. ASSUME NEW r \in Request, Verify(r) PROVE ReadStands(s)'
  <2>1. CASE r = s
    BY <1>2, <2>1, VerifyRead
  <2>2. CASE r # s
    BY <1>2, <2>2, QuietRead DEF Verify, Past, TypeInv, TypeOK
  <2> QED BY <2>1, <2>2
<1>3. ASSUME NEW r \in Request, Check(r) PROVE ReadStands(s)'
  <2>1. CASE r # s
    BY <1>3, <2>1, QuietRead DEF Check, Past, TypeInv, TypeOK
  <2>2. CASE r = s
    <3>1. ReadStands(r) /\ FitsCapacity(r) /\ Sufficient(r) /\ UNCHANGED <<order, tables, key, found>>
      BY <1>3 DEF Check, ReadInv, Past
    <3> QED BY <2>2, <3>1 DEF ReadStands, OrderOf, tables, Done, Posted, Debited, Questioned, Accounts,
                              Capacity, FitsCapacity, Sufficient
  <2> QED BY <2>1, <2>2
<1>4. ASSUME NEW r \in Request, Lock(r) \/ Begin(r) PROVE ReadStands(s)'
  <2>1. pc'[s] = pc[s] /\ found'[s] = found[s] /\ Past(s) /\ UNCHANGED tables
    BY <1>4 DEF Lock, Begin, Past, TypeInv, TypeOK
  <2> QED BY <2>1, QuietRead
<1>5. ASSUME NEW r \in Request, End(r), UNCHANGED tables PROVE ReadStands(s)'
  <2>1. pc'[s] = pc[s] /\ found'[s] = found[s] /\ Past(s)
    BY <1>5 DEF End, Past, TypeInv, TypeOK
  <2> QED BY <1>5, <2>1, QuietRead
<1>6. CASE UNCHANGED vars
  BY <1>6, QuietRead DEF vars, tables, Past
<1> QED BY <1>1, <1>2, <1>3, <1>4, <1>5, <1>6
     DEF Next, RefuseReversed, Replay, RefuseStale, RefuseAmount, Abort

-----------------------------------------------------------------------------
\* Balances and reversals

IInv == TypeInv /\ LockInv /\ BookInv /\ ReadInv /\ NoOverdraft /\ ReversalsFit

LEMMA InitInv == Init => IInv
<1> SUFFICES ASSUME Init PROVE IInv
  OBVIOUS
<1>1. NoOverdraft
  BY ConstantsAssumption DEF Init, NoOverdraft
<1>2. ReversalsFit
  <2> SUFFICES ASSUME NEW id \in Id PROVE Capacity(id) >= 0
    BY DEF ReversalsFit
  <2>1. movement[id].amount \in Int /\ movement[id].reversed = 0
    <3>1. id[2] \in Account
      BY DEF Id
    <3>2. Opening[id[2]] \in Int
      BY <3>1, ConstantsAssumption
    <3> QED BY <3>2 DEF Init, NoMovement
  <2> QED BY <2>1 DEF Capacity
<1> QED BY <1>1, <1>2, InitType, InitLock, InitBook DEF IInv

\* Under its locks, a call debits what is there.
LEMMA StepOverdraft == IInv /\ [Next]_vars => NoOverdraft'
<1> SUFFICES ASSUME IInv, [Next]_vars, NEW a \in Account \ Overdraft PROVE balance'[a] >= 0
  BY DEF NoOverdraft
<1>1. balance[a] \in Int /\ balance[a] >= 0
  BY DEF IInv, NoOverdraft, TypeInv, TypeOK
<1>2. ASSUME NEW r \in Request, Write(r) PROVE balance'[a] >= 0
  <2>1. key[r] \in Key /\ OrderOf(r) = order[key[r]] /\ order[key[r]] # NULL
    BY <1>2, WriteEffect DEF IInv
  <2>2. OrderOf(r).amount \in Nat
    BY <2>1, ChangeType DEF IInv
  <2>3. balance'[a] = balance[a] + Change(OrderOf(r), a)
    BY <1>2 DEF Write
  <2>4. CASE a \in Debited(OrderOf(r)) /\ a \in Accounts(OrderOf(r))
    <3>1. balance[a] \in found[r].funds /\ Sufficient(r)
      BY <1>2, <2>4 DEF IInv, ReadInv, ReadStands, Past, Write
    <3>2. OrderOf(r).amount <= balance[a]
      BY <3>1 DEF Sufficient
    <3> QED BY <1>1, <2>2, <2>3, <2>4, <3>2 DEF Change
  <2>5. CASE ~(a \in Debited(OrderOf(r)) /\ a \in Accounts(OrderOf(r)))
    BY <1>1, <2>2, <2>3, <2>5 DEF Change
  <2> QED BY <2>4, <2>5
<1>3. (\E r \in Request : Write(r)) \/ UNCHANGED balance
  BY DEF Next, vars, tables, Begin, Lock, RefuseReversed, Replay, RefuseStale, Verify, Check,
         RefuseAmount, Abort
<1> QED BY <1>1, <1>2, <1>3

\* Under its locks, a call reverses what is left, and a transfer that is reversed
\* had nothing of it reversed before.
LEMMA StepReversals == IInv /\ [Next]_vars => ReversalsFit'
<1> SUFFICES ASSUME IInv, [Next]_vars, NEW id \in Id PROVE Capacity(id)' >= 0
  BY DEF ReversalsFit
<1>1. movement[id].amount \in Int /\ movement[id].reversed \in Nat /\ Capacity(id) >= 0
  BY DEF IInv, ReversalsFit, TypeInv, TypeOK, Movement
<1>2. ASSUME NEW r \in Request, Write(r) PROVE Capacity(id)' >= 0
  <2> DEFINE o == OrderOf(r)
  <2>1. key[r] \in Key /\ o = order[key[r]] /\ order[key[r]] # NULL
    BY <1>2, WriteEffect DEF IInv
  <2>2. o.amount \in Nat \ {0} /\ id[2] \in Account /\ Change(o, id[2]) \in Int
    <3>1. id[2] \in Account
      BY DEF Id
    <3>2. /\ OrderOf(r).amount \in Nat \ {0}
          /\ Change(OrderOf(r), id[2]) \in Int
      BY <1>2, <2>1, <3>1, ChangeType DEF IInv
    <3> QED BY <3>1, <3>2
  <2>3. CASE PostedBy(r, id)
    <3>1. movement'[id].amount \in Int /\ movement'[id].reversed = 0
      BY <1>2, <2>2, <2>3, WriteRow DEF IInv
    <3> QED BY <3>1 DEF Capacity
  <2>4. CASE ~PostedBy(r, id) /\ id \notin Undone(o)
    BY <1>1, <1>2, <2>4, WriteRow DEF IInv, Capacity
  <2>5. CASE ~PostedBy(r, id) /\ id \in Undone(o)
    <3>1. movement'[id].amount = movement[id].amount
          /\ movement'[id].reversed = movement[id].reversed + o.amount
      BY <1>2, <2>5, WriteRow DEF IInv
    <3>2. ReadStands(r) /\ pc[r] = "writing"
      BY <1>2 DEF IInv, ReadInv, Past, Write
    <3>3. CASE o.op = "reverseMovement" /\ id = o.target
      <4>1. Capacity(id) \in found[r].left /\ FitsCapacity(r)
        BY <3>2, <3>3 DEF ReadStands, Questioned
      <4>2. o.amount <= Capacity(id)
        BY <4>1 DEF FitsCapacity
      <4> QED BY <1>1, <2>2, <3>1, <4>2 DEF Capacity
    <3>4. CASE o.op = "reverseTransfer" /\ id[1] = o.target /\ id[2] \in Accounts(o)
      <4> DEFINE k == o.target
      <4>1. /\ k \in Key /\ Done(k) /\ order[k].op = "transfer"
            /\ order[k].amount = o.amount /\ Accounts(order[k]) = Accounts(o)
        BY <2>1, <3>4 DEF IInv, BookInv, TargetInv, TypeInv, OrderShape
      <4>2. id = <<k, id[2]>>
        BY <3>4 DEF Id
      <4>3. Posted(<<k, id[2]>>)
        BY <3>4, <4>1 DEF IInv, BookInv, WholeInv
      <4>4. movement[<<k, id[2]>>].amount \in {o.amount, -o.amount}
        BY <2>2, <4>1, <4>3 DEF IInv, BookInv, PostedInv
      <4>5. reversal[k] = NULL
        BY <3>2, <3>4 DEF ReadStands
      <4>6. movement[<<k, id[2]>>].reversed = 0
        BY <2>2, <4>1, <4>5 DEF IInv, BookInv, ReversedInv
      <4> QED BY <2>2, <3>1, <4>2, <4>4, <4>6 DEF Capacity
    <3> QED BY <2>5, <3>3, <3>4 DEF Undone
  <2> QED BY <2>3, <2>4, <2>5
<1>3. (\E r \in Request : Write(r)) \/ UNCHANGED movement
  BY DEF Next, vars, tables, Begin, Lock, RefuseReversed, Replay, RefuseStale, Verify, Check,
         RefuseAmount, Abort
<1> QED BY <1>1, <1>2, <1>3 DEF Capacity

LEMMA StepInv == IInv /\ [Next]_vars => IInv'
BY StepType, StepLock, StepBook, StepRead, StepOverdraft, StepReversals DEF IInv

\* An account without overdraft never goes below zero, for any number of calls,
\* keys, accounts and amounts.
THEOREM NeverOverdrawn == Spec => []NoOverdraft
<1>1. IInv => NoOverdraft
  BY DEF IInv
<1> QED BY InitInv, StepInv, <1>1, PTL DEF Spec

\* Movements and transfers are never reversed beyond what they are, for any
\* number of calls, keys, accounts and amounts.
THEOREM ReversalsAlwaysFit == Spec => []ReversalsFit
<1>1. IInv => ReversalsFit
  BY DEF IInv
<1> QED BY InitInv, StepInv, <1>1, PTL DEF Spec

-----------------------------------------------------------------------------
\* The ledger: with what was read still so, a commit is an entry in the book.

\* What callers order: transfers, and their reversals, are between two accounts.
PairInv ==
  \A k \in Key : order[k] # NULL =>
    /\ order[k].amount \in Amount
    /\ order[k].op \in {"transfer", "reverseTransfer"} <=> order[k].account # order[k].to
    /\ order[k].op = "reverseTransfer" =>
         /\ order[order[k].target].account = order[k].account
         /\ order[order[k].target].to = order[k].to

\* A transfer took from its account what it gave to the other.
SignInv ==
  \A k \in Key : Done(k) /\ order[k].op = "transfer" =>
    /\ movement[<<k, order[k].account>>].amount = -order[k].amount
    /\ movement[<<k, order[k].to>>].amount = order[k].amount

LEMMA StepPair ==
  ASSUME TypeInv, BookInv, PairInv, [Next]_vars
  PROVE  PairInv'
<1>1. \A k \in Key : order[k] # NULL => order'[k] = order[k]
  BY OrdersStay
<1> DEFINE Paired(o) ==
      /\ o.amount \in Amount
      /\ o.op \in {"transfer", "reverseTransfer"} <=> o.account # o.to
      /\ o.op = "reverseTransfer" =>
           /\ o.target \in Key /\ order[o.target] # NULL
           /\ order[o.target].account = o.account /\ order[o.target].to = o.to
<1>2. ASSUME NEW k \in Key, order[k] # NULL PROVE Paired(order[k])
  BY <1>2 DEF PairInv, TypeInv, OrderShape, BookInv, TargetInv, Done
<1>3. ASSUME NEW o \in NewOrders PROVE Paired(o)
  <2>1. CASE o \in PostOrders
    BY <2>1 DEF PostOrders, Post
  <2>2. CASE o \in TransferOrders
    BY <2>2 DEF TransferOrders
  <2>3. CASE o \in MovementReversals
    BY <2>3 DEF MovementReversals
  <2>4. CASE o \in TransferReversals
    <3>1. PICK k \in Key : /\ Done(k) /\ order[k].op = "transfer"
                           /\ o = [order[k] EXCEPT !.op = "reverseTransfer", !.target = k]
      BY <2>4, Zenon DEF TransferReversals
    <3>2. order[k] \in Order /\ Paired(order[k]) /\ order[k] # NULL
      BY <1>2, <3>1 DEF Done, TypeInv, TypeOK
    <3>3. /\ o.op = "reverseTransfer" /\ o.target = k /\ o.amount = order[k].amount
          /\ o.account = order[k].account /\ o.to = order[k].to
      BY <3>1, <3>2 DEF Order
    <3> QED BY <3>1, <3>2, <3>3
  <2> QED BY <2>1, <2>2, <2>3, <2>4 DEF NewOrders
<1>4. ASSUME NEW k \in Key, order'[k] # NULL PROVE Paired(order'[k])
  <2>1. CASE order[k] # NULL
    BY <1>1, <1>2, <2>1
  <2>2. CASE order[k] = NULL
    <3>1. PICK r \in Request : Begin(r)
      BY <1>4, <2>2 DEF Next, vars, Lock, RefuseReversed, Replay, RefuseStale, Verify, Check,
                        RefuseAmount, Write, Abort, End
    <3>2. PICK l \in Key : \E o \in IF order[l] # NULL THEN {order[l]} ELSE NewOrders :
            order' = [order EXCEPT ![l] = o]
      BY <3>1, Zenon DEF Begin, NewOrders
    <3>3. order'[k] \in NewOrders
      BY <1>4, <2>2, <3>2 DEF TypeInv, TypeOK
    <3> QED BY <1>3, <3>3
  <2> QED BY <2>1, <2>2
<1> QED BY <1>1, <1>4 DEF PairInv

LEMMA StepSign ==
  ASSUME TypeInv, BookInv, ReadInv, PairInv, [Next]_vars
  PROVE  SignInv => SignInv'
<1> SUFFICES ASSUME SignInv, NEW k \in Key, Done(k)', order'[k].op = "transfer"
             PROVE  /\ movement'[<<k, order'[k].account>>].amount = -order'[k].amount
                    /\ movement'[<<k, order'[k].to>>].amount = order'[k].amount
  BY DEF SignInv
<1>1. order'[k] \in Order
  BY StepType DEF Done, TypeInv, TypeOK
<1> DEFINE from == <<k, order'[k].account>>
           to == <<k, order'[k].to>>
<1>2. /\ order'[k].account \in Accounts(order'[k]) /\ order'[k].to \in Accounts(order'[k])
      /\ from \in Id /\ to \in Id /\ from[1] = k /\ to[1] = k
      /\ from[2] = order'[k].account /\ to[2] = order'[k].to
  BY <1>1, IdType DEF Accounts, Order
<1>3. CASE Done(k)
  <2>1. order'[k] = order[k]
    BY <1>3, OrdersStay DEF Done
  <2>2. Posted(from) /\ Posted(to)
    BY <1>2, <1>3, <2>1 DEF BookInv, WholeInv
  <2>3. movement'[from].amount = movement[from].amount /\ movement'[to].amount = movement[to].amount
    BY <1>2, <2>2, PostedStays
  <2> QED BY <1>3, <2>1, <2>3 DEF SignInv
\* the transfer has just been carried out
<1>4. CASE ~Done(k)
  <2>1. movement'[from].amount # 0 /\ movement[from].amount = 0
    <3>1. movement'[from].amount # 0
      BY DEF Done, Posted
    <3>2. movement[from].amount = 0
      BY <1>1, <1>4, Unposted DEF BookInv, Posted, Order
    <3> QED BY <3>1, <3>2
  <2>2. PICK r \in Request : Write(r)
    BY <2>1 DEF Next, vars, tables, Begin, Lock, RefuseReversed, Replay, RefuseStale, Verify,
                Check, RefuseAmount, Abort
  <2>3. PostedBy(r, from)
    BY <1>2, <2>1, <2>2, WriteRow
  <2>4. k = key[r] /\ OrderOf(r) = order[k] /\ order' = order /\ order[k] # NULL
    BY <1>2, <2>2, <2>3, WriteEffect DEF PostedBy
  <2>5. PostedBy(r, to)
    BY <1>2, <2>4 DEF PostedBy
  <2>6. /\ movement'[from].amount = Change(order[k], order[k].account)
        /\ movement'[to].amount = Change(order[k], order[k].to)
    BY <1>2, <2>2, <2>3, <2>4, <2>5, WriteRow
  <2>7. order[k].account # order[k].to
    BY <2>4 DEF PairInv
  <2> QED BY <1>2, <2>4, <2>6, <2>7 DEF Change, Debited
<1> QED BY <1>3, <1>4

\* What is in the book, row by row
LEMMA EntryRows ==
  /\ \A k \in LedgerKeys, a \in Account : <<k, a>> \in Id /\ <<k, a>>[1] = k /\ <<k, a>>[2] = a
  /\ \A k \in LedgerKeys, a \in Account :
       /\ Entry[k][a] = movement[<<k, a>>].amount
       /\ Reversed[k][a] = movement[<<k, a>>].reversed
BY DEF LedgerKeys, Id, Entry, Reversed

\* Of a movement that is not there nothing is reversed.
LEMMA NothingReversed ==
  ASSUME TypeInv, ReversalsFit, NEW id \in Id, ~Posted(id)
  PROVE  movement[id].amount = 0 /\ movement[id].reversed = 0
<1>1. movement[id].reversed \in Nat /\ Capacity(id) >= 0
  BY DEF TypeInv, TypeOK, Movement, ReversalsFit
<1> QED BY <1>1 DEF Posted, Capacity

\* What a call posts to each account
Posting(r) == [a \in Account |-> Change(OrderOf(r), a)]

\* A commit makes its entry under its key, the first one, and no account has to
\* give what it has not.
LEMMA WriteEnters ==
  ASSUME IInv, NEW r \in Request, Write(r)
  PROVE  /\ Entry[key[r]] = Books!Zero /\ Entry'[key[r]] # Books!Zero
         /\ Books!Enter(key[r], Posting(r))
<1> DEFINE k == key[r]
           o == OrderOf(r)
<1>1. k \in Key /\ o = order[k] /\ order[k] # NULL
  BY WriteEffect DEF IInv
<1>2. ~Done(k) /\ Sufficient(r)
  BY DEF IInv, ReadInv, ReadStands, Past, Write
<1>3. \A a \in Account : movement[<<k, a>>].amount = 0
  <2>1. \A a \in Account : ~Posted(<<key[r], a>>)
    BY <1>1, <1>2, Unposted, Zenon DEF IInv, BookInv
  <2> QED BY <2>1 DEF Posted
<1>4. o.amount \in Nat \ {0} /\ \A a \in Account : Change(o, a) \in Int
  <2>1. /\ order[key[r]].amount \in Nat \ {0}
        /\ \A a \in Account : Change(order[key[r]], a) \in Int
    <3>1. \A a \in Account : Change(order[key[r]], a) \in Int
      BY <1>1, ChangeType DEF IInv
    <3> QED BY <1>1, <3>1 DEF IInv, TypeInv, TypeOK, OrderShape, Order
  <2> QED BY <1>1, <2>1
<1>5. Entry[k] = Books!Zero
  <2>1. Entry[k] = [a \in Account |-> movement[<<k, a>>].amount]
    BY <1>1 DEF Entry, LedgerKeys
  <2> QED BY <1>3, <2>1 DEF Books!Zero
<1>6. ASSUME NEW a \in Account \ Overdraft, Posting(r)[a] < 0
      PROVE  balance[a] + Posting(r)[a] >= 0
  <2>1. Posting(r)[a] = Change(o, a)
    BY DEF Posting
  <2>2. a \in Accounts(o) /\ a \in Debited(o) /\ Change(o, a) = -o.amount
    BY <1>4, <1>6, <2>1 DEF Change
  <2>3. balance[a] \in found[r].funds
    BY <2>2 DEF IInv, ReadInv, ReadStands, Past, Write
  <2>4. o.amount <= balance[a] /\ balance[a] \in Int
    BY <1>2, <2>3 DEF Sufficient, IInv, TypeInv, TypeOK
  <2> QED BY <1>4, <2>1, <2>2, <2>4
<1>7. Entry' = [Entry EXCEPT ![k] = Posting(r)]
  <2>1. ASSUME NEW l \in LedgerKeys, NEW a \in Account
        PROVE  movement'[<<l, a>>].amount =
                 IF l = k THEN Change(o, a) ELSE movement[<<l, a>>].amount
    <3>1. <<l, a>> \in Id /\ <<l, a>>[1] = l /\ <<l, a>>[2] = a
      BY EntryRows
    <3>2. CASE PostedBy(r, <<l, a>>)
      BY <3>1, <3>2, WriteRow DEF PostedBy, IInv
    <3>3. CASE ~PostedBy(r, <<l, a>>)
      <4>1. movement'[<<l, a>>].amount = movement[<<l, a>>].amount
        BY <3>1, <3>3, WriteRow DEF IInv
      <4>2. l = k => a \notin Accounts(o)
        BY <3>1, <3>3 DEF PostedBy
      <4> QED BY <1>3, <4>1, <4>2 DEF Change
    <3> QED BY <3>2, <3>3
  <2>2. Entry' = [l \in LedgerKeys |-> [a \in Account |-> movement'[<<l, a>>].amount]]
    BY DEF Entry
  <2>3. ASSUME NEW l \in LedgerKeys
        PROVE  [a \in Account |-> movement'[<<l, a>>].amount] =
                 IF l = k THEN Posting(r) ELSE Entry[l]
    BY <2>1, <2>3 DEF Posting, Entry
  <2> QED BY <1>1, <2>2, <2>3 DEF Entry
<1>8. balance' = [a \in Account |-> balance[a] + Posting(r)[a]]
  BY DEF Write, Posting
<1>9. Entry'[k] # Books!Zero
  <2>1. o.account \in Account /\ o.account \in Accounts(o)
    BY <1>1 DEF Accounts, IInv, TypeInv, TypeOK, Order
  <2>2. Posting(r)[o.account] # 0
    BY <1>4, <2>1 DEF Posting, Change
  <2>3. Entry'[k] = Posting(r)
    BY <1>1, <1>7 DEF Entry, LedgerKeys
  <2> QED BY <2>1, <2>2, <2>3 DEF Books!Zero
<1> QED BY <1>5, <1>6, <1>7, <1>8, <1>9 DEF Books!Enter

\* A commit reverses what its order names and nothing else.
LEMMA WriteUndoes ==
  ASSUME IInv, NEW r \in Request, Write(r), NEW l \in LedgerKeys, NEW a \in Account
  PROVE  Reversed'[l][a] = IF <<l, a>> \in Undone(OrderOf(r))
                           THEN Reversed[l][a] + OrderOf(r).amount ELSE Reversed[l][a]
<1> DEFINE id == <<l, a>>
           o == OrderOf(r)
<1>1. id \in Id /\ id[1] = l /\ id[2] = a /\ Reversed[l][a] = movement[id].reversed
  BY EntryRows
<1>2. Reversed'[l][a] = movement'[id].reversed
  BY DEF Reversed
<1>3. CASE ~PostedBy(r, id)
  BY <1>1, <1>2, <1>3, WriteRow DEF IInv
<1>4. CASE PostedBy(r, id)
  <2>1. l = key[r] /\ key[r] \in Key /\ o = order[key[r]] /\ order[key[r]] # NULL
    BY <1>1, <1>4, WriteEffect DEF PostedBy, IInv
  <2>2. ~Posted(id)
    BY <1>1, <2>1, WriteEffect DEF IInv
  <2>3. ~Done(key[r])
    BY DEF IInv, ReadInv, ReadStands, Past, Write
  <2>4. id \notin Undone(o)
    BY <1>1, <2>1, <2>2, <2>3 DEF Undone, IInv, BookInv, TargetInv
  <2>5. movement[id].reversed = 0 /\ movement'[id].reversed = 0
    BY <1>1, <1>4, <2>2, NothingReversed, WriteRow DEF IInv
  <2> QED BY <1>1, <1>2, <2>4, <2>5
<1> QED BY <1>3, <1>4

\* The entries a commit may make, by what was ordered
LEMMA PostEnters ==
  ASSUME IInv, PairInv, NEW r \in Request, Write(r), OrderOf(r).op \in Post
  PROVE  Books!Post(key[r])
<1> DEFINE o == OrderOf(r)
<1>1. /\ key[r] \in Key /\ o = order[key[r]] /\ o \in Order /\ o.amount \in Amount
      /\ o.account = o.to
  BY WriteEffect DEF IInv, PairInv, TypeInv, TypeOK, Post
<1>2. o.account \in Account /\ Undone(o) = {}
  BY <1>1 DEF Order, Undone, Post
<1>3. Posting(r) = Books!Single(o.account, o.amount) \/ Posting(r) = Books!Single(o.account, -o.amount)
  <2>1. \A a \in Account : Change(o, a) = IF a # o.account THEN 0
                             ELSE IF o.op = "debit" THEN -o.amount ELSE o.amount
    BY <1>1 DEF Change, Debited, Accounts, Post
  <2> QED BY <1>2, <2>1 DEF Posting, Books!Single, Books!Zero
<1>4. Reversed' = Reversed
  <2>1. \A l \in LedgerKeys, a \in Account : Reversed'[l][a] = Reversed[l][a]
    BY <1>2, WriteUndoes
  <2> QED BY <2>1 DEF Reversed
<1> QED BY <1>1, <1>2, <1>3, <1>4, WriteEnters DEF Books!Post

LEMMA TransferEnters ==
  ASSUME IInv, PairInv, NEW r \in Request, Write(r), OrderOf(r).op = "transfer"
  PROVE  Books!Transfer(key[r])
<1> DEFINE o == OrderOf(r)
<1>1. /\ key[r] \in Key /\ o = order[key[r]] /\ o \in Order /\ o.amount \in Amount
      /\ o.account # o.to
  BY WriteEffect DEF IInv, PairInv, TypeInv, TypeOK
<1>2. o.account \in Account /\ o.to \in Account /\ Undone(o) = {}
  BY <1>1 DEF Order, Undone
<1>3. Posting(r) = [Books!Single(o.account, -o.amount) EXCEPT ![o.to] = o.amount]
  <2>1. \A a \in Account : Change(o, a) = IF a = o.to THEN o.amount
                             ELSE IF a = o.account THEN -o.amount ELSE 0
    BY <1>1 DEF Change, Debited, Accounts
  <2> QED BY <1>1, <1>2, <2>1 DEF Posting, Books!Single, Books!Zero
<1>4. Reversed' = Reversed
  <2>1. \A l \in LedgerKeys, a \in Account : Reversed'[l][a] = Reversed[l][a]
    BY <1>2, WriteUndoes
  <2> QED BY <2>1 DEF Reversed
<1> QED BY <1>1, <1>2, <1>3, <1>4, WriteEnters DEF Books!Transfer

LEMMA PartReversed ==
  ASSUME IInv, PairInv, NEW r \in Request, Write(r), OrderOf(r).op = "reverseMovement"
  PROVE  Books!ReversePart(key[r])
<1> DEFINE o == OrderOf(r)
<1>1. /\ key[r] \in Key /\ o = order[key[r]] /\ o \in Order /\ o.amount \in Amount
      /\ o.account = o.to /\ order[key[r]] # NULL
  BY WriteEffect DEF IInv, PairInv, TypeInv, TypeOK
<1>2. /\ o.target \in Id /\ o.target[2] = o.account /\ o.account \in Account
      /\ Posted(o.target) /\ ~IsLeg(o.target)
  BY <1>1 DEF IInv, BookInv, TargetInv, TypeInv, OrderShape, Order
<1>3. PICK l \in LedgerKeys : o.target = <<l, o.account>> /\ o.target[1] = l
  BY <1>2 DEF Id, LedgerKeys
<1>4. Books!Alone(l, o.account)
  <2> SUFFICES ASSUME l # NULL, NEW b \in Account \ {o.account} PROVE Entry[l][b] = 0
    BY DEF Books!Alone
  <2>1. l \in Key /\ order[l] # NULL /\ o.account \in Accounts(order[l])
    BY <1>2, <1>3 DEF IInv, BookInv, PostedInv, LedgerKeys
  <2>2. order[l].account = order[l].to
    BY <1>2, <1>3, <2>1 DEF IsLeg, PairInv
  <2>3. ~Posted(<<l, b>>)
    BY <2>1, <2>2 DEF IInv, BookInv, PostedInv, Accounts
  <2> QED BY <2>3, EntryRows DEF Posted
<1>5. /\ Entry[l][o.account] = movement[o.target].amount
      /\ Reversed[l][o.account] = movement[o.target].reversed
  BY <1>2, <1>3, EntryRows
<1>6. Reversed[l][o.account] + o.amount <= Books!Abs(Entry[l][o.account])
  <2>1. Capacity(o.target) \in found[r].left /\ FitsCapacity(r)
    BY <1>2 DEF IInv, ReadInv, ReadStands, Past, Write, Questioned
  <2>2. o.amount <= Capacity(o.target)
    BY <2>1 DEF FitsCapacity
  <2>3. movement[o.target].amount \in Int /\ movement[o.target].reversed \in Nat /\ o.amount \in Nat
    BY <1>1, <1>2 DEF IInv, TypeInv, TypeOK, Movement, Order
  <2> QED BY <1>5, <2>2, <2>3 DEF Capacity, Books!Abs
<1>7. Posting(r) = Books!Single(o.account, IF Entry[l][o.account] > 0 THEN -o.amount ELSE o.amount)
  <2>1. \A a \in Account : Change(o, a) = IF a # o.account THEN 0
                             ELSE IF movement[o.target].amount > 0 THEN -o.amount ELSE o.amount
    BY <1>1 DEF Change, Debited, Accounts
  <2> QED BY <1>2, <1>5, <2>1 DEF Posting, Books!Single, Books!Zero
<1>8. Reversed' = [Reversed EXCEPT ![l][o.account] = @ + o.amount]
  <2>1. \A k \in LedgerKeys, a \in Account :
          Reversed'[k][a] = IF k = l /\ a = o.account THEN Reversed[k][a] + o.amount ELSE Reversed[k][a]
    <3>1. ASSUME NEW k \in LedgerKeys, NEW a \in Account
          PROVE  <<k, a>> \in Undone(o) <=> k = l /\ a = o.account
      <4>1. <<k, a>> \in Id /\ (<<k, a>> = <<l, o.account>> <=> k = l /\ a = o.account)
        BY DEF Id, LedgerKeys
      <4>2. \A id \in Id : id \in Undone(o) <=> id = <<l, o.account>>
        BY <1>3 DEF Undone
      <4> QED BY <4>1, <4>2, Zenon
    <3> QED BY <3>1, WriteUndoes
  <2> DEFINE R == [Reversed EXCEPT ![l][o.account] = @ + o.amount]
  <2>2. R = [Reversed EXCEPT ![l] = [Reversed[l] EXCEPT ![o.account] = Reversed[l][o.account] + o.amount]]
    OBVIOUS
  <2>3. ASSUME NEW k \in LedgerKeys PROVE R[k] = [a \in Account |-> Reversed'[k][a]]
    <3>1. CASE k = l
      <4>1. Reversed[l] = [a \in Account |-> Reversed[l][a]]
        BY DEF Reversed
      <4>2. R[l] = [a \in Account |-> IF a = o.account THEN Reversed[l][a] + o.amount ELSE Reversed[l][a]]
        BY <1>2, <2>2, <4>1 DEF Reversed
      <4> QED BY <2>1, <3>1, <4>2
    <3>2. CASE k # l
      BY <2>1, <2>2, <3>2 DEF Reversed
    <3> QED BY <3>1, <3>2
  <2>4. R = [k \in LedgerKeys |-> R[k]]
    BY <2>2 DEF Reversed
  <2>5. Reversed' = [k \in LedgerKeys |-> [a \in Account |-> Reversed'[k][a]]]
    BY DEF Reversed
  <2> HIDE DEF R
  <2>6. R = Reversed'
    BY <2>3, <2>4, <2>5, Zenon
  <2> QED BY <2>6 DEF R
<1> QED BY <1>1, <1>2, <1>3, <1>4, <1>6, <1>7, <1>8, WriteEnters DEF Books!ReversePart, LedgerKeys

LEMMA TransferReversed ==
  ASSUME IInv, PairInv, SignInv, NEW r \in Request, Write(r), OrderOf(r).op = "reverseTransfer"
  PROVE  Books!ReverseTransfer(key[r])
<1> DEFINE o == OrderOf(r)
<1>1. key[r] \in Key /\ o = order[key[r]] /\ o \in Order /\ order[key[r]] # NULL /\ o.account # o.to
  BY WriteEffect DEF IInv, PairInv, TypeInv, TypeOK
<1>2. PICK l \in Key : l = o.target
  BY <1>1 DEF IInv, TypeInv, OrderShape
<1> DEFINE t == order[l]
<1>3. /\ Done(l) /\ t.op = "transfer" /\ t.amount = o.amount /\ Accounts(t) = Accounts(o)
      /\ t # NULL
  BY <1>1, <1>2 DEF IInv, BookInv, TargetInv, Done
<1>4. t \in Order /\ t.account \in Account /\ t.to \in Account /\ t.account # t.to
      /\ t.amount \in Nat \ {0}
  BY <1>3 DEF IInv, TypeInv, TypeOK, OrderShape, Order, PairInv
<1>5. \A a \in Account : Entry[l][a] = IF a = t.account THEN -o.amount
                                       ELSE IF a = t.to THEN o.amount ELSE 0
  <2>1. \A a \in Account : Entry[l][a] = movement[<<l, a>>].amount
    BY EntryRows DEF LedgerKeys
  <2>2. \A a \in Account : a \notin Accounts(t) => movement[<<l, a>>].amount = 0
    BY DEF IInv, BookInv, PostedInv, Posted
  <2> QED BY <1>3, <1>4, <2>1, <2>2 DEF SignInv, Accounts
<1>6. \A a \in Account : ~Books!Alone(l, a)
  BY <1>4, <1>3, <1>5, ConstantsAssumption DEF Books!Alone
<1>7. Reversed[l] = Books!Zero
  <2>1. reversal[l] = NULL
    BY <1>2 DEF IInv, ReadInv, ReadStands, Past, Write
  <2>2. \A a \in Account : movement[<<l, a>>].reversed = 0
    BY <1>3, <2>1 DEF IInv, BookInv, ReversedInv
  <2> QED BY <2>2 DEF Reversed, LedgerKeys, Books!Zero
<1>8. Posting(r) = [a \in Account |-> -Entry[l][a]]
  <2>1. o.account = t.account /\ o.to = t.to
    BY <1>1, <1>2 DEF PairInv
  <2>2. \A a \in Account : Change(o, a) = -Entry[l][a]
    BY <1>1, <1>3, <1>4, <1>5, <2>1 DEF Change, Debited, Accounts
  <2> QED BY <2>2 DEF Posting
<1>9. Reversed' = [Reversed EXCEPT ![l] = [a \in Account |-> Books!Abs(Entry[l][a])]]
  <2>1. \A k \in LedgerKeys, a \in Account :
          Reversed'[k][a] = IF k = l THEN Books!Abs(Entry[l][a]) ELSE Reversed[k][a]
    <3>1. ASSUME NEW k \in LedgerKeys, NEW a \in Account
          PROVE  <<k, a>> \in Undone(o) <=> k = l /\ a \in Accounts(t)
      <4>1. <<k, a>> \in Id /\ <<k, a>>[1] = k /\ <<k, a>>[2] = a
        BY DEF Id, LedgerKeys
      <4>2. \A id \in Id : id \in Undone(o) <=> id[1] = l /\ id[2] \in Accounts(t)
        BY <1>2, <1>3 DEF Undone
      <4> HIDE DEF o, t
      <4> QED BY <4>1, <4>2, Zenon
    <3>2. \A a \in Account : Reversed[l][a] = 0
      BY <1>7 DEF Books!Zero
    <3>3. \A a \in Account : Books!Abs(Entry[l][a]) = IF a \in Accounts(t) THEN o.amount ELSE 0
      BY <1>3, <1>4, <1>5 DEF Books!Abs, Accounts
    <3>4. o.amount \in Nat
      BY <1>3, <1>4
    <3> SUFFICES ASSUME NEW k \in LedgerKeys, NEW a \in Account
                 PROVE  Reversed'[k][a] = IF k = l THEN Books!Abs(Entry[l][a]) ELSE Reversed[k][a]
      OBVIOUS
    <3>5. Reversed'[k][a] = IF <<k, a>> \in Undone(o) THEN Reversed[k][a] + o.amount ELSE Reversed[k][a]
      BY WriteUndoes
    <3> HIDE DEF o, t
    <3>6. CASE k = l /\ a \in Accounts(t)
      BY <3>1, <3>2, <3>3, <3>4, <3>5, <3>6
    <3>7. CASE k # l \/ a \notin Accounts(t)
      BY <3>1, <3>2, <3>3, <3>5, <3>7
    <3> QED BY <3>6, <3>7
  <2> QED BY <2>1 DEF Reversed, LedgerKeys
<1> QED BY <1>1, <1>2, <1>6, <1>7, <1>8, <1>9, WriteEnters DEF Books!ReverseTransfer

LedgerInv == IInv /\ PairInv /\ SignInv

LEMMA InitLedger == Init => LedgerInv /\ Books!Init
<1> SUFFICES ASSUME Init PROVE LedgerInv /\ Books!Init
  OBVIOUS
<1>1. PairInv /\ SignInv
  BY DEF Init, PairInv, SignInv, Done
<1>2. \A k \in LedgerKeys, a \in Account :
        /\ movement[<<k, a>>].amount = IF k = NULL THEN Opening[a] ELSE 0
        /\ movement[<<k, a>>].reversed = 0
  <2> SUFFICES ASSUME NEW k \in LedgerKeys, NEW a \in Account
               PROVE  /\ movement[<<k, a>>].amount = IF k = NULL THEN Opening[a] ELSE 0
                      /\ movement[<<k, a>>].reversed = 0
    OBVIOUS
  <2>1. <<k, a>> \in Id /\ <<k, a>>[1] = k /\ <<k, a>>[2] = a
    BY EntryRows
  <2>2. movement[<<k, a>>] = IF k = NULL THEN [NoMovement EXCEPT !.amount = Opening[a]] ELSE NoMovement
    BY <2>1 DEF Init
  <2> QED BY <2>2 DEF NoMovement
<1>3. Opening = [a \in Account |-> Opening[a]]
  BY ConstantsAssumption
<1>5. Entry = [k \in LedgerKeys |-> IF k = NULL THEN Opening ELSE Books!Zero]
  <2>1. ASSUME NEW k \in LedgerKeys
        PROVE  [a \in Account |-> movement[<<k, a>>].amount] =
                 IF k = NULL THEN Opening ELSE Books!Zero
    <3>1. CASE k = NULL
      <4>1. [a \in Account |-> movement[<<k, a>>].amount] = [a \in Account |-> Opening[a]]
        BY <1>2, <3>1
      <4> QED BY <1>3, <3>1, <4>1
    <3>2. CASE k # NULL
      BY <1>2, <3>2 DEF Books!Zero
    <3> QED BY <3>1, <3>2
  <2> QED BY <2>1 DEF Entry
<1>6. Reversed = [k \in LedgerKeys |-> Books!Zero]
  <2>1. ASSUME NEW k \in LedgerKeys
        PROVE  [a \in Account |-> movement[<<k, a>>].reversed] = Books!Zero
    <3>1. \A a \in Account : movement[<<k, a>>].reversed = 0
      BY <1>2
    <3> QED BY <3>1 DEF Books!Zero
  <2> QED BY <2>1 DEF Reversed
<1>7. Books!Init
  BY <1>5, <1>6 DEF Init, Books!Init, LedgerKeys
<1> QED BY <1>1, <1>7, InitInv DEF LedgerInv

LEMMA StepLedger ==
  ASSUME LedgerInv, [Next]_vars
  PROVE  LedgerInv' /\ [Books!Next]_<<Entry, Reversed, balance>>
<1>1. LedgerInv'
  <2>1. PairInv' /\ SignInv'
    BY StepPair, StepSign DEF LedgerInv, IInv
  <2> QED BY <2>1, StepInv DEF LedgerInv
<1>2. ASSUME NEW r \in Request, Write(r) PROVE Books!Next
  <2>1. key[r] \in Key /\ OrderOf(r) \in Order
    BY <1>2, WriteEffect DEF LedgerInv, IInv, TypeInv, TypeOK
  <2>2. OrderOf(r).op \in Post \union {"transfer", "reverseMovement", "reverseTransfer"}
    BY <2>1 DEF Order, Op
  <2>3. \/ Books!Post(key[r]) \/ Books!Transfer(key[r])
        \/ Books!ReversePart(key[r]) \/ Books!ReverseTransfer(key[r])
    BY <1>2, <2>2, PostEnters, TransferEnters, PartReversed, TransferReversed DEF LedgerInv
  <2> QED BY <1>2, <2>1, <2>3, WriteEnters DEF Books!Next, LedgerInv
<1>3. (\E r \in Request : Write(r)) \/ UNCHANGED <<movement, balance>>
  BY DEF Next, vars, tables, Begin, Lock, RefuseReversed, Replay, RefuseStale, Verify, Check,
         RefuseAmount, Abort
<1>4. UNCHANGED movement => UNCHANGED <<Entry, Reversed>>
  BY DEF Entry, Reversed
<1> QED BY <1>1, <1>2, <1>3, <1>4

\* The treasury implements Ledger, for any number of calls, keys, accounts and
\* amounts: however calls overlap, wait and abort, the book is the one that those
\* that commit would have made one after the other, in the order of their commits.
THEOREM TreasuryKeepsLedger == Spec => KeepsLedger
<1> SUFFICES Spec => Books!Spec
  BY DEF KeepsLedger
<1>1. Init => LedgerInv /\ Books!Init
  BY InitLedger
<1>2. LedgerInv /\ [Next]_vars => LedgerInv' /\ [Books!Next]_<<Entry, Reversed, balance>>
  BY StepLedger
<1> QED BY <1>1, <1>2, PTL DEF Spec, Books!Spec

=============================================================================
