------------------------- MODULE Procurement_proofs -------------------------
(***************************************************************************)
(* Proofs about Procurement, for every set of purchases, receipts,         *)
(* invoices and calls.                                                     *)
(*                                                                         *)
(* TypeInv     the types, and what each call carries at each label         *)
(* Checks      what a call has checked stands as long as the row has the   *)
(*             version that its client has read                            *)
(* OrderInv    the parts of OrdersStand without the sum, and what they     *)
(*             need of orders that are not issued or have no receipts      *)
(* Shows       the sum: what an order shows is what its receipts bring in  *)
(* Owed        what every payable is for: a receipt has its payable for a  *)
(*             reason, and the row it is for says what it is worth,        *)
(*             unless a client opened it                                   *)
(***************************************************************************)
EXTENDS Procurement, FiniteSetTheorems, TLAPS

-----------------------------------------------------------------------------
\* Sums

\* MapThenSumSet adds up the members of a set one by one.  That there is such a
\* sum, and that the order does not matter, is shown by induction over the
\* subsets of a finite set: of the subsets with another sum, one is least.
Some(s) == CHOOSE x \in s : TRUE

\* g has the sum of the quantities of each subset of S.
Adds(rows, g, S) ==
  g = [s \in SUBSET S |-> IF s = {} THEN 0 ELSE rows[Some(s)].quantity + g[s \ {Some(s)}]]

Sum(rows, S) == (CHOOSE g : Adds(rows, g, S))[S]

LEMMA SomeIn == \A s : s # {} => Some(s) \in s
BY DEF Some

\* Induction over the subsets of a finite set, as the search for a least counterexample
LEMMA LeastSubset ==
  ASSUME NEW S, IsFiniteSet(S), NEW T \in SUBSET SUBSET S, T # {}
  PROVE  \E s \in T : \A t \in SUBSET s : t # s => t \notin T
<1>1. IsWellFoundedOn(StrictSubsetOrdering(S), FiniteSubsetsOf(S))
  BY FS_StrictSubsetOrderingWellFounded
<1>2. FiniteSubsetsOf(S) = SUBSET S
  BY FS_FiniteSubsetsOfFinite
<1>3. PICK s \in T : \A t \in T : ~(<<t, s>> \in StrictSubsetOrdering(S))
  BY <1>1, <1>2, WFMin
<1>4. ASSUME NEW t \in SUBSET s, t # s, t \in T PROVE FALSE
  <2>1. <<t, s>> \in StrictSubsetOrdering(S)
    BY <1>4 DEF StrictSubsetOrdering
  <2> QED BY <2>1, <1>3, <1>4
<1> QED BY <1>3, <1>4

LEMMA AddsAt ==
  ASSUME NEW rows, NEW g, NEW S, Adds(rows, g, S)
  PROVE  /\ g[{}] = 0
         /\ \A s \in SUBSET S : s # {} => g[s] = rows[Some(s)].quantity + g[s \ {Some(s)}]
BY DEF Adds

\* Running sums are those of each subset, there is one of them, and there is one.
LEMMA AddsBelow ==
  ASSUME NEW rows, NEW S, NEW g, Adds(rows, g, S), NEW R \in SUBSET S
  PROVE  Adds(rows, [s \in SUBSET R |-> g[s]], R)
<1>1. \A s \in SUBSET R : s # {} => Some(s) \in s /\ s \ {Some(s)} \in SUBSET R
  BY SomeIn
<1>2. \A s \in SUBSET R : g[s] = IF s = {} THEN 0 ELSE rows[Some(s)].quantity + g[s \ {Some(s)}]
  BY DEF Adds
<1> QED BY <1>1, <1>2 DEF Adds

LEMMA AddsOnce ==
  ASSUME NEW rows, NEW S, IsFiniteSet(S), NEW g, Adds(rows, g, S), NEW h, Adds(rows, h, S)
  PROVE  g = h
<1> DEFINE T == {s \in SUBSET S : g[s] # h[s]}
<1>1. T = {}
  <2> SUFFICES ASSUME T # {} PROVE FALSE
    OBVIOUS
  <2>1. PICK s \in T : \A t \in SUBSET s : t # s => t \notin T
    <3>1. T \in SUBSET SUBSET S
      OBVIOUS
    <3> HIDE DEF T
    <3> QED BY <3>1, LeastSubset
  <2>2. s # {}
    BY AddsAt
  <2>3. Some(s) \in s /\ s \ {Some(s)} \in SUBSET S
    BY <2>2, SomeIn
  <2>4. g[s \ {Some(s)}] = h[s \ {Some(s)}]
    BY <2>1, <2>3
  <2> QED BY <2>2, <2>4, AddsAt
<1>2. /\ g = [s \in SUBSET S |-> IF s = {} THEN 0 ELSE rows[Some(s)].quantity + g[s \ {Some(s)}]]
      /\ h = [s \in SUBSET S |-> IF s = {} THEN 0 ELSE rows[Some(s)].quantity + h[s \ {Some(s)}]]
  BY Zenon DEF Adds
<1>3. g = [s \in SUBSET S |-> g[s]] /\ h = [s \in SUBSET S |-> h[s]]
  BY <1>2
<1>4. \A s \in SUBSET S : g[s] = h[s]
  BY <1>1
<1> QED BY <1>3, <1>4

LEMMA AddsExists ==
  ASSUME NEW rows, NEW S, IsFiniteSet(S)
  PROVE  \E g : Adds(rows, g, S)
<1> DEFINE T == {s \in SUBSET S : ~\E g : Adds(rows, g, s)}
<1> SUFFICES ASSUME T # {} PROVE FALSE
  BY S \in SUBSET S
<1>1. PICK s \in T : \A t \in SUBSET s : t # s => t \notin T
  <2> HIDE DEF T
  <2>1. T \in SUBSET SUBSET S
    BY DEF T
  <2> QED BY <2>1, LeastSubset
<1> DEFINE of(t) == CHOOSE g : Adds(rows, g, t)
           less(t) == t \ {Some(t)}
<1>2. \A t \in SUBSET s : t # s => Adds(rows, of(t), t)
  <2> TAKE t \in SUBSET s
  <2> HAVE t # s
  <2>1. \E g : Adds(rows, g, t)
    BY <1>1
  <2> QED BY <2>1
<1> DEFINE G == [t \in SUBSET s |-> IF t = {} THEN 0 ELSE rows[Some(t)].quantity + of(less(t))[less(t)]]
<1>3. ASSUME NEW t \in SUBSET s, t # s PROVE of(t)[t] = G[t]
  <2>1. CASE t = {}
    BY <2>1, <1>2, <1>3, AddsAt
  <2>2. CASE t # {}
    <3>1. Some(t) \in t /\ less(t) \in SUBSET t /\ less(t) # s
      BY <2>2, <1>3, SomeIn
    <3>2. Adds(rows, [r \in SUBSET less(t) |-> of(t)[r]], less(t))
      BY <1>2, <1>3, <3>1, AddsBelow
    <3>3. Adds(rows, of(less(t)), less(t))
      BY <1>2, <1>3, <3>1
    <3>4. IsFiniteSet(less(t))
      BY FS_Subset, <3>1
    <3>5. of(less(t)) = [r \in SUBSET less(t) |-> of(t)[r]]
      <4> HIDE DEF of, less
      <4> QED BY <3>2, <3>3, <3>4, AddsOnce
    <3>6. of(less(t))[less(t)] = of(t)[less(t)]
      BY <3>5
    <3>7. of(t)[t] = rows[Some(t)].quantity + of(t)[less(t)]
      BY <1>2, <1>3, <2>2, AddsAt
    <3> QED BY <3>6, <3>7, <2>2
  <2> QED BY <2>1, <2>2
<1>4. Adds(rows, G, s)
  <2>1. \A t \in SUBSET s : t # {} => of(less(t))[less(t)] = G[less(t)]
    <3> TAKE t \in SUBSET s
    <3> HAVE t # {}
    <3>1. less(t) \in SUBSET s /\ less(t) # s
      BY SomeIn
    <3> QED BY <3>1, <1>3
  <2>2. \A t \in SUBSET s : G[t] = IF t = {} THEN 0 ELSE rows[Some(t)].quantity + G[less(t)]
    <3> TAKE t \in SUBSET s
    <3>1. G[t] = IF t = {} THEN 0 ELSE rows[Some(t)].quantity + of(less(t))[less(t)]
      BY Zenon
    <3> HIDE DEF G, of, less
    <3> QED BY <2>1, <3>1
  <2>3. G = [t \in SUBSET s |-> G[t]]
    OBVIOUS
  <2> HIDE DEF G
  <2> QED BY <2>2, <2>3 DEF Adds
<1> QED BY <1>4

LEMMA SumDef ==
  ASSUME NEW rows, NEW S, IsFiniteSet(S)
  PROVE  /\ Sum(rows, {}) = 0
         /\ S # {} => Some(S) \in S /\ Sum(rows, S) = rows[Some(S)].quantity + Sum(rows, S \ {Some(S)})
<1> DEFINE of(t) == CHOOSE g : Adds(rows, g, t)
<1>1. \A t \in SUBSET S : IsFiniteSet(t) /\ Adds(rows, of(t), t)
  BY FS_Subset, AddsExists
<1>2. Sum(rows, {}) = 0
  BY <1>1, AddsAt DEF Sum
<1>3. ASSUME S # {} PROVE Some(S) \in S /\ Sum(rows, S) = rows[Some(S)].quantity + Sum(rows, S \ {Some(S)})
  <2> DEFINE less == S \ {Some(S)}
  <2>1. Some(S) \in S
    BY <1>3, SomeIn
  <2>2. Adds(rows, [r \in SUBSET less |-> of(S)[r]], less)
    <3> HIDE DEF of
    <3> QED BY <1>1, AddsBelow
  <2>3. of(less) = [r \in SUBSET less |-> of(S)[r]]
    <3>1. Adds(rows, of(less), less) /\ IsFiniteSet(less)
      BY <1>1
    <3> HIDE DEF of, less
    <3> QED BY <2>2, <3>1, AddsOnce
  <2>4. of(less)[less] = of(S)[less]
    BY <2>3
  <2>5. of(S)[S] = rows[Some(S)].quantity + of(S)[less]
    <3>1. Adds(rows, of(S), S) 
      BY <1>1
    <3> HIDE DEF of
    <3> QED BY <3>1, <1>3, AddsAt
  <2> QED BY <2>1, <2>4, <2>5 DEF Sum
<1> QED BY <1>2, <1>3
LEMMA SumNat ==
  ASSUME NEW rows, NEW S, IsFiniteSet(S), \A x \in S : rows[x].quantity \in Nat
  PROVE  Sum(rows, S) \in Nat
<1> DEFINE T == {s \in SUBSET S : Sum(rows, s) \notin Nat}
<1> SUFFICES ASSUME T # {} PROVE FALSE
  BY S \in SUBSET S
<1>1. PICK s \in T : \A t \in SUBSET s : t # s => t \notin T
  <2>1. T \in SUBSET SUBSET S
    OBVIOUS
  <2> HIDE DEF T
  <2> QED BY <2>1, LeastSubset
<1>2. IsFiniteSet(s) /\ s # {}
  <2>1. Sum(rows, {}) = 0 /\ 0 \in Nat
    BY SumDef
  <2> QED BY <2>1, FS_Subset
<1>3. Some(s) \in s /\ Sum(rows, s) = rows[Some(s)].quantity + Sum(rows, s \ {Some(s)})
  BY <1>2, SumDef
<1>4. Sum(rows, s \ {Some(s)}) \in Nat
  BY <1>1, <1>3
<1> QED BY <1>3, <1>4

\* The order of the elements does not matter.
LEMMA SumLess ==
  ASSUME NEW rows, NEW S, IsFiniteSet(S), \A x \in S : rows[x].quantity \in Nat, NEW x \in S
  PROVE  Sum(rows, S) = rows[x].quantity + Sum(rows, S \ {x})
<1> DEFINE T == {s \in SUBSET S : \E y \in s : Sum(rows, s) # rows[y].quantity + Sum(rows, s \ {y})}
<1> SUFFICES ASSUME T # {} PROVE FALSE
  BY S \in SUBSET S
<1>1. PICK s \in T : \A t \in SUBSET s : t # s => t \notin T
  <2>1. T \in SUBSET SUBSET S
    OBVIOUS
  <2> HIDE DEF T
  <2> QED BY <2>1, LeastSubset
<1>2. PICK y \in s : Sum(rows, s) # rows[y].quantity + Sum(rows, s \ {y})
  OBVIOUS
<1> DEFINE z == Some(s)
<1>3. z \in s /\ Sum(rows, s) = rows[z].quantity + Sum(rows, s \ {z})
  BY <1>2, FS_Subset, SumDef
<1>4. y # z
  BY <1>2, <1>3
<1> HIDE DEF z
<1>5. Sum(rows, s \ {z}) = rows[y].quantity + Sum(rows, (s \ {z}) \ {y})
  BY <1>1, <1>3, <1>4
<1>6. Sum(rows, s \ {y}) = rows[z].quantity + Sum(rows, (s \ {y}) \ {z})
  BY <1>1, <1>2, <1>3, <1>4
<1>7. (s \ {z}) \ {y} = (s \ {y}) \ {z}
  OBVIOUS
<1>8. rows[y].quantity \in Nat /\ rows[z].quantity \in Nat
  BY <1>3
<1>9. IsFiniteSet((s \ {y}) \ {z}) /\ \A v \in (s \ {y}) \ {z} : rows[v].quantity \in Nat
  BY FS_Subset
<1>10. Sum(rows, (s \ {y}) \ {z}) \in Nat
  BY <1>9, SumNat
<1>11. \A a, b, n \in Nat : a + (b + n) = b + (a + n)
  OBVIOUS
<1>12. Sum(rows, s) = rows[z].quantity + (rows[y].quantity + Sum(rows, (s \ {y}) \ {z}))
  BY <1>3, <1>5, <1>7, Zenon
<1>13. rows[y].quantity + Sum(rows, s \ {y}) = rows[y].quantity + (rows[z].quantity + Sum(rows, (s \ {y}) \ {z}))
  BY <1>6, Zenon
<1> QED BY <1>2, <1>8, <1>10, <1>11, <1>12, <1>13, Zenon

LEMMA SumSame ==
  ASSUME NEW rows, NEW g, NEW S, IsFiniteSet(S), \A x \in S : rows[x].quantity = g[x].quantity
  PROVE  Sum(rows, S) = Sum(g, S)
<1> DEFINE T == {s \in SUBSET S : Sum(rows, s) # Sum(g, s)}
<1> SUFFICES ASSUME T # {} PROVE FALSE
  BY S \in SUBSET S
<1>1. PICK s \in T : \A t \in SUBSET s : t # s => t \notin T
  <2>1. T \in SUBSET SUBSET S
    OBVIOUS
  <2> HIDE DEF T
  <2> QED BY <2>1, LeastSubset
<1>2. IsFiniteSet(s) /\ s # {}
  BY FS_Subset, FS_EmptySet, SumDef
<1>3. /\ Some(s) \in s
      /\ Sum(rows, s) = rows[Some(s)].quantity + Sum(rows, s \ {Some(s)})
      /\ Sum(g, s) = g[Some(s)].quantity + Sum(g, s \ {Some(s)})
  BY <1>2, SumDef
<1>4. Sum(rows, s \ {Some(s)}) = Sum(g, s \ {Some(s)})
  BY <1>1, <1>3
<1> QED BY <1>3, <1>4

\* A part is no more than the whole.
LEMMA SumPart ==
  ASSUME NEW rows, NEW S, IsFiniteSet(S), \A x \in S : rows[x].quantity \in Nat, NEW R \in SUBSET S
  PROVE  Sum(rows, R) <= Sum(rows, S)
<1> DEFINE T == {s \in SUBSET S : \E r \in SUBSET s : ~(Sum(rows, r) <= Sum(rows, s))}
<1> SUFFICES ASSUME T # {} PROVE FALSE
  BY S \in SUBSET S
<1>1. PICK s \in T : \A t \in SUBSET s : t # s => t \notin T
  <2>1. T \in SUBSET SUBSET S
    OBVIOUS
  <2> HIDE DEF T
  <2> QED BY <2>1, LeastSubset
<1>2. PICK r \in SUBSET s : ~(Sum(rows, r) <= Sum(rows, s))
  OBVIOUS
<1>3. \A t \in SUBSET S : IsFiniteSet(t) /\ Sum(rows, t) \in Nat
  BY FS_Subset, SumNat
<1>4. PICK x \in s : x \notin r
  BY <1>2, <1>3
<1>5. Sum(rows, s) = rows[x].quantity + Sum(rows, s \ {x})
  BY <1>3, SumLess
<1>6. Sum(rows, r) <= Sum(rows, s \ {x})
  <2>1. s \ {x} \notin T /\ s \ {x} \in SUBSET S /\ r \in SUBSET (s \ {x})
    BY <1>1, <1>4
  <2> QED BY <2>1
<1>7. /\ Sum(rows, r) \in Nat /\ Sum(rows, s) \in Nat /\ Sum(rows, s \ {x}) \in Nat
      /\ rows[x].quantity \in Nat
  BY <1>3, <1>4
<1> QED BY <1>2, <1>5, <1>6, <1>7

-----------------------------------------------------------------------------
\* Types

\* What a call carries at each label
Carries(c) ==
  LET t == task[c] IN
  /\ pc[c] \in {"reading", "asking", "writing"} =>
       t.op \in RequestOp \union {"cancelOrder"} /\ t.purchase \in Purchase
  /\ pc[c] = "receiving" =>
       t.key \in ReceiptKey /\ t.purchase \in Purchase /\ t.quantity \in Nat \ {0}
  /\ pc[c] \in {"owing", "opening"} => t.key \in ReceiptKey /\ receipt[t.key].purchase \in Purchase
  /\ pc[c] = "attaching" => t.key \in ReceiptKey /\ t.payable \in Origin
  /\ pc[c] \in {"preparing", "invoicing", "validating"} =>
       t.invoice \in Invoice /\ invoice[t.invoice].status # "NONE"

TypeInv == TypeOK /\ \A c \in Call : Carries(c)

LEMMA InitType == Init => TypeInv
<1> SUFFICES ASSUME Init PROVE TypeInv
  OBVIOUS
<1>1. NoTask \in Task
  BY DEF NoTask, Task
<1>2. TypeOK
  BY <1>1 DEF Init, TypeOK, RequestStatus, NoOrder, NoReceipt, NoInvoice, NoPayable, PC
<1> QED BY <1>2 DEF Init, TypeInv, Carries

\* A call that ends leaves nothing behind.
LEMMA EndType ==
  ASSUME TypeOK, NEW c \in Call, End(c)
  PROVE  /\ pc' \in [Call -> PC] /\ task' \in [Call -> Task]
         /\ pc'[c] = "idle" /\ \A d \in Call \ {c} : pc'[d] = pc[d] /\ task'[d] = task[d]
<1>1. NoTask \in Task
  BY DEF NoTask, Task
<1> QED BY <1>1 DEF End, Goto, TypeOK, PC

LEMMA GoOnType ==
  ASSUME TypeOK, NEW c \in Call, NEW label \in PC, NEW found \in Task, GoOn(c, label, found)
  PROVE  /\ pc' \in [Call -> PC] /\ task' \in [Call -> Task]
         /\ pc'[c] = label /\ task'[c] = found
         /\ \A d \in Call \ {c} : pc'[d] = pc[d] /\ task'[d] = task[d]
BY DEF GoOn, Goto, TypeOK

LEMMA GotoType ==
  ASSUME TypeOK, NEW c \in Call, NEW label \in PC, Goto(c, label), UNCHANGED task
  PROVE  /\ pc' \in [Call -> PC] /\ task' \in [Call -> Task]
         /\ pc'[c] = label /\ task'[c] = task[c]
         /\ \A d \in Call \ {c} : pc'[d] = pc[d] /\ task'[d] = task[d]
BY DEF Goto, TypeOK

\* What clients ask for
Asked(t) ==
  /\ t \in Task
  /\ t.op \in Op
  /\ t.op \in RequestOp => t.purchase \in Purchase /\ t.version = request[t.purchase].version
  /\ t.op \in OrderOp =>
       /\ t.purchase \in Purchase /\ Issued(t.purchase)
       /\ t.version = order[t.purchase].version
  /\ t.op = "receive" => t.key \in ReceiptKey /\ t.quantity \in Nat \ {0}
  /\ t.op = "validate" => t.invoice \in Invoice /\ invoice[t.invoice].status # "NONE"

LEMMA BeginAsks ==
  ASSUME TypeOK, NEW c \in Call, Begin(c)
  PROVE  \E t \in Task : Asked(t) /\ Start(c, t)
<1>1. ASSUME NEW op \in RequestOp, NEW p \in Purchase
      PROVE  Asked([NoTask EXCEPT !.op = op, !.purchase = p, !.version = request[p].version])
  BY DEF Asked, NoTask, Task, Op, RequestOp, OrderOp, TypeOK
<1>2. ASSUME NEW p \in Purchase, Issued(p)
      PROVE  Asked([NoTask EXCEPT !.op = "cancelOrder", !.purchase = p,
                                  !.version = order[p].version])
  BY <1>2 DEF Asked, NoTask, Task, Op, RequestOp, OrderOp, TypeOK
<1>3. ASSUME NEW p \in Purchase, NEW k \in ReceiptKey, NEW n \in 1 .. Ordered[p], Issued(p)
      PROVE  Asked([NoTask EXCEPT !.op = "receive", !.purchase = p, !.version = order[p].version,
                                  !.key = k, !.quantity = n])
  <2>1. n \in Nat \ {0}
    BY ConstantsAssumption
  <2> QED BY <1>3, <2>1 DEF Asked, NoTask, Task, Op, RequestOp, OrderOp, TypeOK
<1>4. ASSUME NEW i \in Invoice, invoice[i].status # "NONE"
      PROVE  Asked([NoTask EXCEPT !.op = "validate", !.invoice = i,
                                  !.version = invoice[i].version])
  BY <1>4 DEF Asked, NoTask, Task, Op, RequestOp, OrderOp, TypeOK
<1>5. \A t : Asked(t) => t \in Task
  BY DEF Asked
<1> QED BY <1>1, <1>2, <1>3, <1>4, <1>5, Zenon DEF Begin

\* Receipts and invoices stay what they are.
Persists ==
  /\ \A k \in ReceiptKey : receipt[k].purchase \in Purchase => receipt'[k].purchase \in Purchase
  /\ \A i \in Invoice : invoice[i].status # "NONE" => invoice'[i].status # "NONE"

\* What a call carries is disturbed by no other.
LEMMA OthersCarry ==
  ASSUME NEW d \in Call, Carries(d), pc'[d] = pc[d], task'[d] = task[d], Persists
  PROVE  Carries(d)'
BY DEF Carries, Persists

LEMMA EndCarries ==
  ASSUME TypeInv, NEW c \in Call, End(c), Persists
  PROVE  pc' \in [Call -> PC] /\ task' \in [Call -> Task] /\ \A d \in Call : Carries(d)'
<1>1. \A d \in Call \ {c} : Carries(d)'
  BY EndType, OthersCarry DEF TypeInv
<1>2. Carries(c)'
  BY EndType DEF TypeInv, Carries
<1> QED BY <1>1, <1>2, EndType DEF TypeInv

LEMMA GoOnCarries ==
  ASSUME TypeInv, NEW c \in Call, NEW label \in PC, NEW found \in Task, Persists,
         GoOn(c, label, found) \/ (Goto(c, label) /\ found = task[c] /\ UNCHANGED task),
         label # "idle",
         label \in {"reading", "asking", "writing"} =>
           found.op \in RequestOp \union {"cancelOrder"} /\ found.purchase \in Purchase,
         label = "receiving" =>
           found.key \in ReceiptKey /\ found.purchase \in Purchase /\ found.quantity \in Nat \ {0},
         label \in {"owing", "opening"} =>
           found.key \in ReceiptKey /\ receipt'[found.key].purchase \in Purchase,
         label = "attaching" => found.key \in ReceiptKey /\ found.payable \in Origin,
         label \in {"preparing", "invoicing", "validating"} =>
           found.invoice \in Invoice /\ invoice[found.invoice].status # "NONE"
  PROVE  pc' \in [Call -> PC] /\ task' \in [Call -> Task] /\ \A d \in Call : Carries(d)'
<1>1. /\ pc' \in [Call -> PC] /\ task' \in [Call -> Task]
      /\ pc'[c] = label /\ task'[c] = found
      /\ \A d \in Call \ {c} : pc'[d] = pc[d] /\ task'[d] = task[d]
  BY GoOnType, GotoType DEF TypeInv
<1>2. \A d \in Call \ {c} : Carries(d)'
  BY <1>1, OthersCarry DEF TypeInv
<1>3. Carries(c)'
  BY <1>1 DEF Carries, Persists
<1> QED BY <1>1, <1>2, <1>3

\* Versions, statuses and quantities of what a call writes
LEMMA WriteType ==
  ASSUME TypeInv, NEW c \in Call, WriteRequest(c) \/ CancelOrder(c)
  PROVE  /\ request' \in [Purchase -> [status : RequestStatus, version : Nat]]
         /\ order' \in [Purchase -> [status : OrderStatus \union {"NONE"}, version : Nat,
                                     received : Nat]]
<1> DEFINE p == task[c].purchase
<1>1. p \in Purchase /\ task[c].op \in RequestOp \union {"cancelOrder"}
  BY DEF WriteRequest, CancelOrder, TypeInv, Carries
<1>2. /\ request[p].status \in RequestStatus /\ request[p].version \in Nat
      /\ order[p].version \in Nat /\ order[p].received \in Nat
  BY <1>1 DEF TypeInv, TypeOK
<1>3. CASE WriteRequest(c)
  <2>0. task[c].op \in RequestOp
    BY <1>3 DEF WriteRequest
  <2>1. To(task[c].op) \in RequestStatus
    <3>1. ASSUME NEW op \in RequestOp PROVE To(op) \in RequestStatus
      BY DEF RequestOp, To, RequestStatus
    <3> QED BY <2>0, <3>1
  <2>2. PICK s \in RequestStatus :
          request' = [request EXCEPT ![p] = [status |-> s, version |-> request[p].version + 1]]
    <3>1. request' = [request EXCEPT ![p] =
                        [status |-> IF task[c].op = "issue" THEN request[p].status ELSE To(task[c].op),
                         version |-> request[p].version + 1]]
      BY <1>1, <1>3 DEF WriteRequest, TypeInv, TypeOK
    <3> QED BY <1>2, <2>1, <3>1
  <2>3. [status |-> s, version |-> request[p].version + 1] \in [status : RequestStatus, version : Nat]
    BY <1>2
  <2>4. [status |-> "ISSUED", version |-> 1, received |-> 0]
          \in [status : OrderStatus \union {"NONE"}, version : Nat, received : Nat]
    BY DEF OrderStatus
  <2>5. order' = [order EXCEPT ![p] = [status |-> "ISSUED", version |-> 1, received |-> 0]]
        \/ order' = order
    BY <1>3 DEF WriteRequest
  <2> QED BY <1>1, <2>2, <2>3, <2>4, <2>5 DEF TypeInv, TypeOK
<1>4. CASE CancelOrder(c)
  <2> DEFINE row == [status |-> "CANCELLED", version |-> order[p].version + 1,
                     received |-> order[p].received]
  <2>1. row \in [status : OrderStatus \union {"NONE"}, version : Nat, received : Nat]
    BY <1>2 DEF OrderStatus
  <2>2. order' = [order EXCEPT ![p] = row] /\ request' = request
    BY <1>1, <1>4 DEF CancelOrder, TypeInv, TypeOK
  <2> HIDE DEF row
  <2> QED BY <2>1, <2>2 DEF TypeInv, TypeOK
<1> QED BY <1>3, <1>4

ReceiptRow == [purchase : Purchase \union {NULL}, quantity : Nat, payable : Origin \union {NULL}]
InvoiceRow ==
  [status : {"NONE", "DRAFT", "VALIDATED"}, purchase : Purchase \union {NULL},
   receipt : ReceiptKey \union {NULL}, amount : Nat, version : Nat, payable : Origin \union {NULL}]
PayableRow ==
  [lifecycle : {"NONE", "ACTIVE", "CANCELLED"}, principal : Nat, paid : Nat, byClient : BOOLEAN]

LEMMA OpenType ==
  ASSUME payable \in [Origin -> PayableRow], NEW o \in Origin, NEW n \in Nat, NEW b \in BOOLEAN,
         OpenPayable(o, n, b)
  PROVE  payable' \in [Origin -> PayableRow]
<1>1. [lifecycle |-> "ACTIVE", principal |-> n, paid |-> 0, byClient |-> b] \in PayableRow
  BY DEF PayableRow
<1> QED BY <1>1 DEF OpenPayable

LEMMA ValidatedType ==
  ASSUME invoice \in [Invoice -> InvoiceRow], NEW i \in Invoice, NEW o \in Origin \union {NULL}
  PROVE  Validated(i, o) \in InvoiceRow /\ Validated(i, o).status = "VALIDATED"
<1>1. PICK n \in Nat : n = invoice[i].version + 1
  BY DEF InvoiceRow
<1>2. Validated(i, o) = [invoice[i] EXCEPT !.status = "VALIDATED", !.payable = o, !.version = n]
  BY <1>1 DEF Validated
<1>3. invoice[i] \in InvoiceRow
  OBVIOUS
<1>4. [invoice[i] EXCEPT !.status = "VALIDATED", !.payable = o, !.version = n] \in InvoiceRow
  BY <1>3 DEF InvoiceRow
<1>5. Validated(i, o).status = "VALIDATED"
  BY <1>3 DEF Validated, InvoiceRow
<1> QED BY <1>2, <1>4, <1>5

LEMMA StepType == TypeInv /\ [Next]_vars => TypeInv'
<1> SUFFICES ASSUME TypeInv, [Next]_vars PROVE TypeInv'
  OBVIOUS
<1> USE DEF TypeInv
<1>0. /\ receipt \in [ReceiptKey -> ReceiptRow] /\ invoice \in [Invoice -> InvoiceRow]
      /\ payable \in [Origin -> PayableRow]
  BY DEF TypeOK, ReceiptRow, InvoiceRow, PayableRow
<1>1. ASSUME NEW c \in Call, Begin(c) PROVE TypeInv'
  <2>1. PICK t \in Task : Asked(t) /\ Start(c, t)
    BY <1>1, BeginAsks
  <2>2. UNCHANGED tables /\ Persists
    BY <2>1 DEF Start, tables, documents, Persists
  <2>3. /\ FirstStep(t.op) \in {"receiving", "preparing", "reading"}
        /\ FirstStep(t.op) = "receiving" => t.op = "receive"
        /\ FirstStep(t.op) = "preparing" => t.op = "validate"
        /\ FirstStep(t.op) = "reading" => t.op \in RequestOp \union {"cancelOrder"}
    BY <2>1 DEF Asked, FirstStep, Op, OrderOp
  <2>4. GoOn(c, FirstStep(t.op), t)
    BY <2>1 DEF Start, GoOn
  <2>5. FirstStep(t.op) \in PC
    BY <2>3 DEF PC
  <2>6. t.op \in RequestOp \union OrderOp => t.purchase \in Purchase
    BY <2>1 DEF Asked
  <2>7. /\ t.op = "receive" => t.key \in ReceiptKey /\ t.quantity \in Nat \ {0}
        /\ t.op = "validate" => t.invoice \in Invoice /\ invoice[t.invoice].status # "NONE"
    BY <2>1 DEF Asked
  <2>8. pc' \in [Call -> PC] /\ task' \in [Call -> Task] /\ \A d \in Call : Carries(d)'
    BY <2>2, <2>3, <2>4, <2>5, <2>6, <2>7, GoOnCarries DEF OrderOp
  <2> QED BY <2>2, <2>8 DEF TypeOK, tables, documents
<1>2. ASSUME NEW c \in Call, End(c), UNCHANGED tables PROVE TypeInv'
  <2>1. Persists
    BY <1>2 DEF Persists, tables, documents
  <2> QED BY <1>2, <2>1, EndCarries DEF TypeOK, tables, documents
<1>3. ASSUME NEW c \in Call, Read(c) \/ Ask(c) PROVE TypeInv'
  <2>1. UNCHANGED tables /\ Persists
    BY <1>3 DEF Read, Ask, Persists, tables, documents
  <2>2. PICK label \in {"asking", "writing"} : Goto(c, label) /\ task' = task
    BY <1>3 DEF Read, Ask
  <2>3. task[c].op \in RequestOp \union {"cancelOrder"} /\ task[c].purchase \in Purchase
        /\ task[c] \in Task
    BY <1>3 DEF Read, Ask, Carries, TypeOK
  <2>4. pc' \in [Call -> PC] /\ task' \in [Call -> Task] /\ \A d \in Call : Carries(d)'
    BY <2>1, <2>2, <2>3, GoOnCarries DEF PC
  <2> QED BY <2>1, <2>4 DEF TypeOK, tables, documents
<1>4. ASSUME NEW c \in Call, WriteRequest(c) \/ CancelOrder(c) PROVE TypeInv'
  <2>1. End(c) /\ UNCHANGED <<receipt, invoice, payable>>
    BY <1>4 DEF WriteRequest, CancelOrder
  <2>2. Persists
    BY <2>1 DEF Persists
  <2> QED BY <1>4, <2>1, <2>2, WriteType, EndCarries DEF TypeOK
<1>5. ASSUME NEW c \in Call, Receive(c) PROVE TypeInv'
  <2>1. PICK k \in ReceiptKey, p \in Purchase, n \in Nat :
          k = task[c].key /\ p = task[c].purchase /\ n = task[c].quantity
    BY <1>5 DEF Receive, Carries
  <2> DEFINE total == order[p].received + n
             row == [status |-> Derive(p, total), version |-> order[p].version + 1, received |-> total]
             new == [purchase |-> p, quantity |-> n, payable |-> NULL]
             found == [NoTask EXCEPT !.key = k]
  <2>2. /\ receipt' = [receipt EXCEPT ![k] = new] /\ order' = [order EXCEPT ![p] = row]
        /\ GoOn(c, "owing", found) /\ UNCHANGED <<request, invoice, payable>>
    BY <1>5, <2>1 DEF Receive, TypeOK
  <2>3. row \in [status : OrderStatus \union {"NONE"}, version : Nat, received : Nat]
    <3>1. total \in Nat /\ order[p].version + 1 \in Nat
      BY DEF TypeOK
    <3>2. Derive(p, total) \in OrderStatus
      BY DEF Derive, OrderStatus
    <3> QED BY <3>1, <3>2
  <2>4. new \in ReceiptRow /\ new.purchase = p
    BY DEF ReceiptRow
  <2>5. found \in Task /\ found.key = k
    BY DEF NoTask, Task
  <2> HIDE DEF row, new, found
  <2>6. /\ receipt' \in [ReceiptKey -> ReceiptRow]
        /\ order' \in [Purchase -> [status : OrderStatus \union {"NONE"}, version : Nat, received : Nat]]
        /\ receipt'[k].purchase \in Purchase
    BY <1>0, <2>2, <2>3, <2>4 DEF TypeOK
  <2>7. Persists
    BY <1>0, <2>2, <2>4 DEF Persists
  <2>8. pc' \in [Call -> PC] /\ task' \in [Call -> Task] /\ \A d \in Call : Carries(d)'
    BY <2>2, <2>5, <2>6, <2>7, GoOnCarries DEF PC
  <2> QED BY <2>2, <2>6, <2>8 DEF TypeOK, ReceiptRow
\* The call is to find a payable for a receipt.
<1>6. ASSUME NEW c \in Call, NEW label \in {"owing", "opening"}, UNCHANGED tables,
             NEW k \in ReceiptKey, receipt[k].purchase \in Purchase,
             NEW found \in Task, found.key = k,
             GoOn(c, label, found) \/ (Goto(c, label) /\ found = task[c] /\ UNCHANGED task)
      PROVE  TypeInv'
  <2>1. Persists
    BY <1>6 DEF Persists, tables, documents
  <2>2. label \in PC /\ receipt'[k].purchase \in Purchase
    BY <1>6 DEF PC, tables, documents
  <2>3. pc' \in [Call -> PC] /\ task' \in [Call -> Task] /\ \A d \in Call : Carries(d)'
    BY <1>6, <2>1, <2>2, GoOnCarries
  <2> QED BY <1>6, <2>3 DEF TypeOK, tables, documents
<1>7. ASSUME NEW c \in Call, ReceiveAgain(c) PROVE TypeInv'
  <2>1. PICK k \in ReceiptKey : k = task[c].key
    BY <1>7 DEF ReceiveAgain, Carries
  <2>2. receipt[k].purchase \in Purchase
    BY <1>0, <1>7, <2>1 DEF ReceiveAgain, Posted, ReceiptRow
  <2> DEFINE found == [NoTask EXCEPT !.key = k]
  <2>3. UNCHANGED tables /\ (GoOn(c, "owing", found) \/ End(c))
    BY <1>7, <2>1 DEF ReceiveAgain
  <2>4. found \in Task /\ found.key = k
    BY DEF NoTask, Task
  <2> HIDE DEF found
  <2>5. CASE GoOn(c, "owing", found)
    BY <1>6, <2>2, <2>3, <2>4, <2>5
  <2> QED BY <1>2, <2>3, <2>5
\* The call is to attach a payable to a receipt.
<1>8. ASSUME NEW c \in Call, NEW k \in ReceiptKey, NEW o \in Origin, Persists,
             NEW found \in Task, found.key = k, found.payable = o, GoOn(c, "attaching", found)
      PROVE  pc' \in [Call -> PC] /\ task' \in [Call -> Task] /\ \A d \in Call : Carries(d)'
  BY <1>8, GoOnCarries DEF PC
<1>9. ASSUME NEW c \in Call, FindInvoice(c) PROVE TypeInv'
  <2>1. PICK k \in ReceiptKey : k = task[c].key /\ receipt[k].purchase \in Purchase /\ task[c] \in Task
    BY <1>9 DEF FindInvoice, Carries, TypeOK
  <2>2. UNCHANGED tables
    BY <1>9 DEF FindInvoice
  <2>3. CASE Goto(c, "opening") /\ UNCHANGED task
    <3>1. task[c] \in Task /\ task[c].key = k
      BY <2>1
    <3> QED BY <1>6, <2>1, <2>2, <2>3, <3>1
  <2>4. ASSUME NEW o \in InvoicePayables(receipt[k].purchase),
               GoOn(c, "attaching", [task[c] EXCEPT !.payable = o])
        PROVE  TypeInv'
    <3>1. o \in Origin
      BY <1>0 DEF InvoicePayables, InvoiceRow
    <3> DEFINE found == [task[c] EXCEPT !.payable = o]
    <3>2. found \in Task /\ found.key = k /\ found.payable = o
      BY <2>1, <3>1 DEF Task
    <3> HIDE DEF found
    <3>3. Persists /\ GoOn(c, "attaching", found)
      BY <2>2, <2>4 DEF Persists, tables, documents, found
    <3>4. pc' \in [Call -> PC] /\ task' \in [Call -> Task] /\ \A d \in Call : Carries(d)'
      BY <1>8, <3>1, <3>2, <3>3
    <3> QED BY <2>2, <3>4 DEF TypeOK, tables, documents
  <2> QED BY <1>9, <2>1, <2>3, <2>4 DEF FindInvoice
<1>10. ASSUME NEW c \in Call, OpenForReceipt(c) PROVE TypeInv'
  <2>1. PICK k \in ReceiptKey : k = task[c].key /\ task[c] \in Task
    BY <1>10 DEF OpenForReceipt, Carries, TypeOK
  <2>2. k \in Origin /\ receipt[k].quantity \in Nat
    BY <1>0 DEF Origin, ReceiptRow
  <2>3. payable' \in [Origin -> PayableRow] /\ UNCHANGED documents
    BY <1>0, <1>10, <2>1, <2>2, OpenType DEF OpenForReceipt
  <2> DEFINE found == [task[c] EXCEPT !.payable = k]
  <2>4. found \in Task /\ found.key = k /\ found.payable = k
    BY <2>1, <2>2 DEF Task
  <2>5. GoOn(c, "attaching", found) /\ Persists
    BY <1>10, <2>1 DEF OpenForReceipt, Persists, documents
  <2> HIDE DEF found
  <2>6. pc' \in [Call -> PC] /\ task' \in [Call -> Task] /\ \A d \in Call : Carries(d)'
    BY <1>8, <2>2, <2>4, <2>5
  <2> QED BY <2>3, <2>6 DEF TypeOK, documents, PayableRow
<1>11. ASSUME NEW c \in Call, Attach(c) PROVE TypeInv'
  <2>1. PICK k \in ReceiptKey, o \in Origin : k = task[c].key /\ o = task[c].payable
    BY <1>11 DEF Attach, Carries
  <2>2. PICK x \in Origin \union {NULL} : receipt' = [receipt EXCEPT ![k].payable = x]
    <3>1. receipt' = [receipt EXCEPT ![k].payable = IF receipt[k].payable = NULL THEN o
                                                    ELSE receipt[k].payable]
      BY <1>11, <2>1 DEF Attach
    <3>2. receipt[k].payable \in Origin \union {NULL}
      BY <1>0 DEF ReceiptRow
    <3> QED BY <3>1, <3>2
  <2> DEFINE row == [receipt[k] EXCEPT !.payable = x]
  <2>3. row \in ReceiptRow /\ row.purchase = receipt[k].purchase
    BY <1>0 DEF ReceiptRow
  <2>4. receipt' = [receipt EXCEPT ![k] = row]
    BY <2>2
  <2> HIDE DEF row
  <2>5. receipt' \in [ReceiptKey -> ReceiptRow]
    BY <1>0, <2>3, <2>4
  <2>6. UNCHANGED <<request, order, invoice, payable>> /\ End(c)
    BY <1>11 DEF Attach
  <2>7. Persists
    BY <1>0, <2>3, <2>4, <2>6 DEF Persists
  <2>8. pc' \in [Call -> PC] /\ task' \in [Call -> Task] /\ \A d \in Call : Carries(d)'
    BY <2>6, <2>7, EndCarries
  <2> QED BY <2>5, <2>6, <2>8 DEF TypeOK, ReceiptRow
\* An invoice is validated.
<1>12. ASSUME NEW i \in Invoice, NEW o \in Origin, UNCHANGED <<request, order, receipt, payable>>,
              invoice' = [invoice EXCEPT ![i] = Validated(i, o)] \/ invoice' = invoice
       PROVE  invoice' \in [Invoice -> InvoiceRow] /\ Persists
  <2>1. Validated(i, o) \in InvoiceRow /\ Validated(i, o).status = "VALIDATED"
    BY <1>0, ValidatedType
  <2> QED BY <1>0, <1>12, <2>1 DEF Persists
<1>13. ASSUME NEW c \in Call, Prepare(c) PROVE TypeInv'
  <2>1. PICK i \in Invoice : i = task[c].invoice /\ invoice[i].status # "NONE"
    BY <1>13 DEF Prepare, Carries
  <2>2. UNCHANGED <<request, order, receipt, payable>>
    BY <1>13 DEF Prepare
  <2>3. CASE ReceiptPayable(i) # NULL /\ invoice' = [invoice EXCEPT ![i] = Validated(i, ReceiptPayable(i))]
             /\ End(c)
    <3>1. ReceiptPayable(i) \in Origin
      BY <1>0, <2>3 DEF ReceiptPayable, ReceiptRow, InvoiceRow
    <3>2. invoice' \in [Invoice -> InvoiceRow] /\ Persists
      BY <1>12, <2>2, <2>3, <3>1
    <3>3. pc' \in [Call -> PC] /\ task' \in [Call -> Task] /\ \A d \in Call : Carries(d)'
      BY <2>3, <3>2, EndCarries
    <3> QED BY <2>2, <3>2, <3>3 DEF TypeOK, InvoiceRow
  <2>4. CASE GoOn(c, "invoicing", [NoTask EXCEPT !.invoice = i]) /\ UNCHANGED invoice
    <3> DEFINE found == [NoTask EXCEPT !.invoice = i]
    <3>1. found \in Task /\ found.invoice = i
      BY DEF NoTask, Task
    <3>2. Persists
      BY <2>2, <2>4 DEF Persists
    <3> HIDE DEF found
    <3>3. GoOn(c, "invoicing", found)
      BY <2>4 DEF found
    <3>4. pc' \in [Call -> PC] /\ task' \in [Call -> Task] /\ \A d \in Call : Carries(d)'
      BY <2>1, <3>1, <3>2, <3>3, GoOnCarries DEF PC
    <3> QED BY <2>2, <2>4, <3>4 DEF TypeOK
  <2> QED BY <1>13, <2>1, <2>3, <2>4 DEF Prepare
<1>14. ASSUME NEW c \in Call, OpenForInvoice(c) PROVE TypeInv'
  <2>1. PICK i \in Invoice : i = task[c].invoice /\ invoice[i].status # "NONE" /\ task[c] \in Task
    BY <1>14 DEF OpenForInvoice, Carries, TypeOK
  <2>2. i \in Origin /\ invoice[i].amount \in Nat
    BY <1>0 DEF Origin, InvoiceRow
  <2>3. payable' \in [Origin -> PayableRow] /\ UNCHANGED documents /\ Goto(c, "validating") /\ task' = task
    BY <1>0, <1>14, <2>1, <2>2, OpenType DEF OpenForInvoice
  <2>4. Persists
    BY <2>3 DEF Persists, documents
  <2>5. pc' \in [Call -> PC] /\ task' \in [Call -> Task] /\ \A d \in Call : Carries(d)'
    BY <2>1, <2>3, <2>4, GoOnCarries DEF PC
  <2> QED BY <2>3, <2>5 DEF TypeOK, documents, PayableRow
<1>15. ASSUME NEW c \in Call, Validate(c) PROVE TypeInv'
  <2>1. PICK i \in Invoice : i = task[c].invoice /\ invoice[i].status # "NONE"
    BY <1>15 DEF Validate, Carries
  <2>2. i \in Origin /\ UNCHANGED <<request, order, receipt, payable>>
    BY <1>15 DEF Validate, Origin
  <2>3. invoice' = [invoice EXCEPT ![i] = Validated(i, i)] \/ invoice' = invoice
    BY <1>15, <2>1 DEF Validate
  <2>4. invoice' \in [Invoice -> InvoiceRow] /\ Persists
    BY <1>12, <2>2, <2>3
  <2>5. CASE End(c)
    BY <2>2, <2>4, <2>5, EndCarries DEF TypeOK, InvoiceRow
  <2>6. CASE /\ invoice[i].receipt # NULL
             /\ GoOn(c, "attaching", [NoTask EXCEPT !.key = invoice[i].receipt, !.payable = i])
    <3>1. PICK k \in ReceiptKey : k = invoice[i].receipt
      BY <1>0, <2>6 DEF InvoiceRow
    <3> DEFINE found == [NoTask EXCEPT !.key = k, !.payable = i]
    <3>2. found \in Task /\ found.key = k /\ found.payable = i
      BY <2>2 DEF NoTask, Task
    <3> HIDE DEF found
    <3>3. GoOn(c, "attaching", found)
      BY <2>6, <3>1 DEF found
    <3>4. pc' \in [Call -> PC] /\ task' \in [Call -> Task] /\ \A d \in Call : Carries(d)'
      BY <1>8, <2>2, <2>4, <3>2, <3>3
    <3> QED BY <2>2, <2>4, <3>4 DEF TypeOK, InvoiceRow
  <2> QED BY <1>15, <2>1, <2>5, <2>6 DEF Validate
<1>16. ASSUME NEW i \in Invoice, CreateInvoice(i) PROVE TypeInv'
  <2>1. PICK p \in Purchase \union {NULL}, k \in ReceiptKey \union {NULL},
             n \in Amount :
          invoice' = [invoice EXCEPT ![i] = [status |-> "DRAFT", purchase |-> p, receipt |-> k,
                                             amount |-> n, version |-> 1, payable |-> NULL]]
    BY <1>16 DEF CreateInvoice
  <2>2. UNCHANGED <<request, order, receipt, payable, pc, task>>
    BY <1>16 DEF CreateInvoice
  <2>3. PICK row \in InvoiceRow : row.status = "DRAFT" /\ invoice' = [invoice EXCEPT ![i] = row]
    <3>1. n \in Nat
      BY DEF Amount
    <3>2. [status |-> "DRAFT", purchase |-> p, receipt |-> k, amount |-> n, version |-> 1,
           payable |-> NULL] \in InvoiceRow
      BY <3>1 DEF InvoiceRow
    <3> QED BY <2>1, <3>2
  <2>4. invoice' \in [Invoice -> InvoiceRow] /\ Persists
    BY <1>0, <2>2, <2>3 DEF Persists
  <2>5. \A d \in Call : Carries(d)'
    BY <2>2, <2>4, OthersCarry
  <2> QED BY <2>2, <2>4, <2>5 DEF TypeOK, InvoiceRow
<1>17. ASSUME NEW o \in Origin, Pay(o) \/ Reverse(o) \/ CancelPayable(o) PROVE TypeInv'
  <2>1. UNCHANGED <<documents, pc, task>>
    BY <1>17 DEF Pay, Reverse, CancelPayable
  <2>2. payable' \in [Origin -> PayableRow]
    <3>1. payable[o] \in PayableRow
      BY <1>0
    <3>2. \/ \E x \in Nat : payable' = [payable EXCEPT ![o].paid = x]
          \/ payable' = [payable EXCEPT ![o].lifecycle = "CANCELLED"]
      <4>1. CASE CancelPayable(o)
        BY <4>1 DEF CancelPayable
      <4>2. CASE Pay(o)
        <5>1. PICK n \in 1 .. Unpaid(o) : payable' = [payable EXCEPT ![o].paid = payable[o].paid + n]
          BY <4>2 DEF Pay
        <5>2. payable[o].paid + n \in Nat
          BY <3>1 DEF PayableRow
        <5> QED BY <5>1, <5>2
      <4>3. CASE Reverse(o)
        <5>1. PICK n \in 1 .. payable[o].paid : payable' = [payable EXCEPT ![o].paid = payable[o].paid - n]
          BY <4>3 DEF Reverse
        <5>2. payable[o].paid - n \in Nat
          BY <3>1 DEF PayableRow
        <5> QED BY <5>1, <5>2
      <4> QED BY <1>17, <4>1, <4>2, <4>3
    <3> QED BY <1>0, <3>1, <3>2 DEF PayableRow
  <2>3. \A d \in Call : Carries(d)'
    BY <2>1, OthersCarry DEF Persists, documents
  <2> QED BY <2>1, <2>2, <2>3 DEF TypeOK, documents, PayableRow
<1>18. ASSUME NEW o \in Origin, OpenByClient(o) PROVE TypeInv'
  <2>1. PICK n \in Amount : OpenPayable(o, n, TRUE) /\ UNCHANGED <<documents, pc, task>>
    BY <1>18 DEF OpenByClient
  <2>2. n \in Nat
    BY DEF Amount
  <2>3. payable' \in [Origin -> PayableRow]
    BY <1>0, <2>1, <2>2, OpenType
  <2>4. \A d \in Call : Carries(d)'
    BY <2>1, OthersCarry DEF Persists, documents
  <2> QED BY <2>1, <2>3, <2>4 DEF TypeOK, documents, PayableRow
<1>19. CASE UNCHANGED vars
  <2>1. \A d \in Call : Carries(d)'
    BY <1>19, OthersCarry DEF Persists, vars, tables, documents
  <2> QED BY <1>19, <2>1 DEF TypeOK, vars, tables, documents
<1>20. ASSUME NEW c \in Call, Abort(c) PROVE TypeInv'
  BY <1>2, <1>20 DEF Abort
<1> QED BY <1>1, <1>3, <1>4, <1>5, <1>7, <1>9, <1>10, <1>11, <1>13, <1>14, <1>15, <1>16, <1>17,
           <1>18, <1>19, <1>20 DEF Next

\* The types of documents, payables and calls, whatever the instance.
THEOREM TypeCorrect == Spec => []TypeOK
<1>1. TypeInv => TypeOK
  BY DEF TypeInv
<1> QED BY InitType, StepType, <1>1, PTL DEF Spec

-----------------------------------------------------------------------------
\* Requests and orders

\* What a call has checked before its transaction stands as long as the version
\* that its client has read does.
ChecksRequest(c) ==
  LET t == task[c]
      p == t.purchase
  IN
  /\ t.version <= request[p].version
  /\ t.version = request[p].version =>
       /\ pc[c] \in {"asking", "writing"} => request[p].status \in From(t.op)
       /\ pc[c] = "writing" /\ t.op = "cancelRequest" => ~Issued(p)

ChecksOrder(c) ==
  LET t == task[c]
      p == t.purchase
  IN
  /\ Issued(p)
  /\ t.version <= order[p].version
  /\ t.version = order[p].version /\ pc[c] = "writing" => order[p].received = 0

Checks(c) ==
  pc[c] \in {"reading", "asking", "writing"} =>
    /\ task[c].op \in RequestOp => ChecksRequest(c)
    /\ task[c].op = "cancelOrder" => ChecksOrder(c)

\* An order that shows nothing received has no receipts.
ShowsSome(p) == order[p].received = 0 => ReceiptsOf(p) = {}
NothingYet(p) == ~Issued(p) => order[p].received = 0

OrderInv(p) ==
  OnApproved(p) /\ NothingOnCancelled(p) /\ WithinOrdered(p) /\ ShowsSome(p) /\ NothingYet(p)

IInv ==
  /\ TypeInv
  /\ \A c \in Call : Checks(c)
  /\ \A p \in Purchase : OrderInv(p)

\* Whoever changes a request or an order changes its version.
Advances ==
  \A p \in Purchase :
    /\ \/ request'[p] = request[p] /\ (~Issued(p) => order'[p].status = "NONE")
       \/ request'[p].version > request[p].version
    /\ Issued(p) =>
         /\ order'[p].status # "NONE"
         /\ order'[p] = order[p] \/ order'[p].version > order[p].version

\* What one call has checked is disturbed by no other.
LEMMA OthersCheck ==
  ASSUME TypeInv, TypeInv', NEW d \in Call, Checks(d), pc'[d] = pc[d], task'[d] = task[d], Advances
  PROVE  Checks(d)'
<1> SUFFICES ASSUME pc[d] \in {"reading", "asking", "writing"} PROVE Checks(d)'
  BY DEF Checks
<1>1. PICK p \in Purchase : p = task[d].purchase
  BY DEF TypeInv, Carries
<1>2. /\ task[d].version \in Nat /\ request[p].version \in Nat /\ request'[p].version \in Nat
      /\ order[p].version \in Nat /\ order'[p].version \in Nat
  BY DEF TypeInv, TypeOK, Task
<1>3. CASE task[d].op \in RequestOp
  <2>1. ChecksRequest(d)
    BY <1>3 DEF Checks
  <2>2. ChecksRequest(d)'
    BY <1>1, <1>2, <2>1 DEF ChecksRequest, Advances, Issued
  <2>3. task[d].op # "cancelOrder"
    BY <1>3 DEF RequestOp
  <2> QED BY <1>3, <2>2, <2>3 DEF Checks
<1>4. CASE task[d].op = "cancelOrder"
  <2>1. ChecksOrder(d)
    BY <1>4 DEF Checks
  <2>2. ChecksOrder(d)'
    BY <1>1, <1>2, <2>1 DEF ChecksOrder, Advances, Issued
  <2>3. task[d].op \notin RequestOp
    BY <1>4 DEF RequestOp
  <2> QED BY <1>4, <2>2, <2>3 DEF Checks
<1> QED BY <1>3, <1>4 DEF TypeInv, Carries

\* Orders, requests and what receipts are for stay, or a call that has ended
\* its checks writes.
LEMMA QuietOrders ==
  ASSUME IInv, UNCHANGED <<request, order>>,
         \A k \in ReceiptKey : receipt'[k].purchase = receipt[k].purchase
  PROVE  /\ Advances
         /\ \A p \in Purchase : OrderInv(p)'
<1>1. \A p \in Purchase : ReceiptsOf(p)' = ReceiptsOf(p)
  BY DEF ReceiptsOf
<1>2. Advances
  BY DEF Advances, Issued
<1> QED BY <1>1, <1>2
        DEF IInv, OrderInv, OnApproved, NothingOnCancelled, WithinOrdered, ShowsSome, NothingYet,
            Issued

LEMMA InitInv == Init => IInv
<1> SUFFICES ASSUME Init PROVE IInv
  OBVIOUS
<1>1. \A c \in Call : Checks(c)
  BY DEF Init, Checks
<1>2. \A p \in Purchase : ReceiptsOf(p) = {}
  BY ConstantsAssumption DEF Init, ReceiptsOf, NoReceipt
<1>3. \A p \in Purchase : OrderInv(p)
  BY <1>2, ConstantsAssumption
     DEF Init, OrderInv, OnApproved, NothingOnCancelled, WithinOrdered, ShowsSome, NothingYet, Issued,
         NoOrder
<1> QED BY <1>1, <1>3, InitType DEF IInv

LEMMA StepRequest ==
  ASSUME IInv, TypeInv', NEW c \in Call, WriteRequest(c)
  PROVE  Advances /\ \A p \in Purchase : OrderInv(p)'
<1>1. PICK q \in Purchase, op \in RequestOp : q = task[c].purchase /\ op = task[c].op
  BY DEF WriteRequest, IInv, TypeInv, Carries
<1>2. ChecksRequest(c) /\ task[c].version = request[q].version /\ pc[c] = "writing"
  BY <1>1 DEF WriteRequest, SameVersion, IInv, Checks
<1>3. request[q].status \in From(op) /\ (op = "cancelRequest" => ~Issued(q))
  BY <1>1, <1>2 DEF ChecksRequest
<1>4. /\ request'[q].version = request[q].version + 1
      /\ op = "issue" => request'[q].status = request[q].status
      /\ \A p \in Purchase \ {q} : request'[p] = request[p] /\ order'[p] = order[p]
      /\ op = "issue" => ~Issued(q) /\ order'[q] = [status |-> "ISSUED", version |-> 1, received |-> 0]
      /\ op # "issue" => order' = order
      /\ receipt' = receipt
  BY <1>1 DEF WriteRequest, IInv, TypeInv, TypeOK
<1>5. request[q].version \in Nat
  BY DEF IInv, TypeInv, TypeOK
<1>6. Advances
  <2>1. request'[q].version > request[q].version
    BY <1>4, <1>5
  <2>2. Issued(q) => order'[q] = order[q] /\ order'[q].status # "NONE"
    BY <1>4 DEF Issued
  <2> QED BY <1>4, <2>1, <2>2 DEF Advances, Issued
<1>7. ~Issued(q)
  <2>1. CASE op = "issue"
    BY <1>4, <2>1
  <2>2. CASE op = "cancelRequest"
    BY <1>3, <2>2
  <2>3. CASE op \in {"submit", "approve", "reject"}
    <3>1. request[q].status # "APPROVED"
      BY <1>3, <2>3 DEF From
    <3> QED BY <3>1 DEF IInv, OrderInv, OnApproved
  <2> QED BY <2>1, <2>2, <2>3 DEF RequestOp
<1>8. ASSUME NEW p \in Purchase PROVE OrderInv(p)'
  <2>1. ReceiptsOf(p)' = ReceiptsOf(p) /\ OrderInv(p) /\ Ordered[p] \in Nat
    BY <1>4, ConstantsAssumption DEF ReceiptsOf, IInv
  <2>2. CASE p # q
    BY <1>4, <2>1, <2>2
       DEF OrderInv, OnApproved, NothingOnCancelled, WithinOrdered, ShowsSome, NothingYet, Issued
  <2>3. CASE p = q /\ op = "issue"
    <3>1. request[q].status = "APPROVED"
      BY <1>3, <2>3 DEF From
    <3>2. order'[p].status = "ISSUED" /\ order'[p].received = 0 /\ request'[p].status = "APPROVED"
      BY <1>4, <2>3, <3>1
    <3>3. ReceiptsOf(p) = {}
      BY <1>7, <2>1, <2>3 DEF OrderInv, ShowsSome, NothingYet
    <3> QED BY <2>1, <3>2, <3>3
            DEF OrderInv, OnApproved, NothingOnCancelled, WithinOrdered, ShowsSome, NothingYet, Issued
  <2>4. CASE p = q /\ op # "issue"
    BY <1>4, <1>7, <2>1, <2>4
       DEF OrderInv, OnApproved, NothingOnCancelled, WithinOrdered, ShowsSome, NothingYet, Issued
  <2> QED BY <2>2, <2>3, <2>4
<1> QED BY <1>6, <1>8

LEMMA StepCancel ==
  ASSUME IInv, NEW c \in Call, CancelOrder(c)
  PROVE  Advances /\ \A p \in Purchase : OrderInv(p)'
<1>1. PICK q \in Purchase : q = task[c].purchase
  BY DEF CancelOrder, IInv, TypeInv, Carries
<1>2. ChecksOrder(c) /\ task[c].version = order[q].version /\ pc[c] = "writing"
  BY <1>1 DEF CancelOrder, SameVersion, IInv, Checks
<1>3. Issued(q) /\ order[q].received = 0
  BY <1>1, <1>2 DEF ChecksOrder
<1>4. /\ order'[q].status = "CANCELLED" /\ order'[q].version = order[q].version + 1
      /\ order'[q].received = order[q].received
      /\ \A p \in Purchase \ {q} : order'[p] = order[p]
      /\ request' = request /\ receipt' = receipt
  BY <1>1 DEF CancelOrder, IInv, TypeInv, TypeOK
<1>5. order[q].version \in Nat
  BY DEF IInv, TypeInv, TypeOK
<1>6. Advances
  BY <1>3, <1>4, <1>5 DEF Advances, Issued
<1>7. ASSUME NEW p \in Purchase PROVE OrderInv(p)'
  <2>1. ReceiptsOf(p)' = ReceiptsOf(p) /\ OrderInv(p)
    BY <1>4 DEF ReceiptsOf, IInv
  <2> QED BY <1>3, <1>4, <2>1
          DEF OrderInv, OnApproved, NothingOnCancelled, WithinOrdered, ShowsSome, NothingYet, Issued
<1> QED BY <1>6, <1>7

LEMMA StepReceive ==
  ASSUME IInv, NEW c \in Call, Receive(c)
  PROVE  Advances /\ \A p \in Purchase : OrderInv(p)'
<1>1. PICK q \in Purchase, k \in ReceiptKey, n \in Nat \ {0} :
        q = task[c].purchase /\ k = task[c].key /\ n = task[c].quantity
  BY DEF Receive, IInv, TypeInv, Carries
<1>2. /\ order[q].version \in Nat /\ order[q].received \in Nat /\ Ordered[q] \in Nat
      /\ order[q].status \in {"ISSUED", "PARTIALLY_RECEIVED"}
      /\ order[q].received + n <= Ordered[q]
  BY <1>1, ConstantsAssumption DEF Receive, Fits, IInv, TypeInv, TypeOK
<1> DEFINE total == order[q].received + n
<1>3. /\ order'[q].status = Derive(q, total) /\ order'[q].version = order[q].version + 1
      /\ order'[q].received = total
      /\ \A p \in Purchase \ {q} : order'[p] = order[p]
      /\ request' = request
      /\ \A j \in ReceiptKey \ {k} : receipt'[j] = receipt[j]
      /\ receipt'[k].purchase = q
  BY <1>1 DEF Receive, IInv, TypeInv, TypeOK
<1>4. Derive(q, total) \notin {"NONE", "CANCELLED"} /\ total > 0 /\ Issued(q)
  BY <1>2 DEF Derive, Issued
<1>5. Advances
  BY <1>2, <1>3, <1>4 DEF Advances, Issued
<1>6. ASSUME NEW p \in Purchase PROVE OrderInv(p)'
  <2>1. OrderInv(p)
    BY DEF IInv
  <2>2. CASE p = q
    BY <1>2, <1>3, <1>4, <2>1, <2>2
       DEF OrderInv, OnApproved, NothingOnCancelled, WithinOrdered, ShowsSome, NothingYet, Issued
  <2>3. CASE p # q
    <3>1. ~Posted(k)
      BY <1>1 DEF Receive
    <3>2. ReceiptsOf(p)' \subseteq ReceiptsOf(p)
      BY <1>3, <2>3 DEF ReceiptsOf
    <3> QED BY <1>3, <2>1, <2>3, <3>2
            DEF OrderInv, OnApproved, NothingOnCancelled, WithinOrdered, ShowsSome, NothingYet, Issued
  <2> QED BY <2>2, <2>3
<1> QED BY <1>5, <1>6

LEMMA StepInv == IInv /\ [Next]_vars => IInv'
<1> SUFFICES ASSUME IInv, [Next]_vars
             PROVE  (\A c \in Call : Checks(c)') /\ \A p \in Purchase : OrderInv(p)'
  BY StepType DEF IInv
<1>0. TypeInv /\ TypeInv' /\ \A c \in Call : Carries(c)'
  BY StepType DEF IInv, TypeInv
\* One call moves, to where it needs no checks or with those it has made.
<1>1. ASSUME NEW c \in Call, Advances, Checks(c)',
             \A d \in Call \ {c} : pc'[d] = pc[d] /\ task'[d] = task[d]
      PROVE  \A d \in Call : Checks(d)'
  <2>1. \A d \in Call \ {c} : Checks(d)'
    BY <1>0, <1>1, OthersCheck DEF IInv
  <2> QED BY <1>1, <2>1
<1>2. ASSUME NEW c \in Call, Begin(c)
      PROVE  (\A d \in Call : Checks(d)') /\ \A p \in Purchase : OrderInv(p)'
  <2>1. PICK t \in Task : Asked(t) /\ Start(c, t)
    BY <1>0, <1>2, BeginAsks DEF TypeInv
  <2>2. /\ task'[c] = t /\ pc'[c] = FirstStep(t.op) /\ UNCHANGED tables
        /\ \A d \in Call \ {c} : pc'[d] = pc[d] /\ task'[d] = task[d]
    BY <1>0, <2>1 DEF Start, Goto, TypeInv, TypeOK
  <2>3. Advances /\ \A p \in Purchase : OrderInv(p)'
    BY <2>2, QuietOrders DEF tables, documents
  <2>4. ASSUME pc'[c] \in {"reading", "asking", "writing"} PROVE Checks(c)'
    <3>1. pc'[c] = "reading" /\ t.op \in RequestOp \union {"cancelOrder"} /\ t.version \in Nat
      BY <2>1, <2>2, <2>4 DEF Asked, FirstStep, Op, OrderOp, Task
    <3>2. CASE t.op \in RequestOp
      <4>1. t.version = request'[t.purchase].version /\ t.op # "cancelOrder"
        BY <2>1, <2>2, <3>2 DEF Asked, RequestOp, tables, documents
      <4> QED BY <2>2, <3>1, <4>1 DEF Checks, ChecksRequest
    <3>3. CASE t.op = "cancelOrder"
      <4>1. t.version = order'[t.purchase].version /\ t.op \notin RequestOp
            /\ order'[t.purchase].status # "NONE"
        BY <2>1, <2>2, <3>3 DEF Asked, RequestOp, OrderOp, Issued, tables, documents
      <4> QED BY <2>2, <3>1, <4>1 DEF Checks, ChecksOrder, Issued
    <3> QED BY <3>1, <3>2, <3>3
  <2>5. Checks(c)'
    BY <2>4 DEF Checks
  <2> QED BY <1>1, <2>2, <2>3, <2>5
<1>3. ASSUME NEW c \in Call, Read(c)
      PROVE  (\A d \in Call : Checks(d)') /\ \A p \in Purchase : OrderInv(p)'
  <2>1. /\ UNCHANGED <<tables, task>> /\ pc[c] = "reading"
        /\ pc'[c] \in {"asking", "writing"}
        /\ pc'[c] = "writing" => task[c].op \notin {"cancelRequest", "cancelOrder"}
        /\ \A d \in Call \ {c} : pc'[d] = pc[d] /\ task'[d] = task[d]
    BY <1>0, <1>3 DEF Read, Goto, TypeInv, TypeOK
  <2>2. Advances /\ \A p \in Purchase : OrderInv(p)'
    BY <2>1, QuietOrders DEF tables, documents
  <2>3. CASE task[c].op \in RequestOp
    <3>1. request[task[c].purchase].status \in From(task[c].op) /\ task[c].op # "cancelOrder"
      BY <1>3, <2>3 DEF Read, RequestOp
    <3>2. ChecksRequest(c)
      BY <2>1, <2>3 DEF IInv, Checks
    <3>3. ChecksRequest(c)'
      BY <2>1, <3>1, <3>2 DEF ChecksRequest, Issued, tables, documents
    <3>4. Checks(c)'
      BY <2>1, <2>3, <3>1, <3>3 DEF Checks
    <3> QED BY <1>1, <2>1, <2>2, <3>4
  <2>4. CASE task[c].op = "cancelOrder"
    <3>1. ChecksOrder(c) /\ task[c].op \notin RequestOp
      BY <2>1, <2>4 DEF IInv, Checks, RequestOp
    <3>2. ChecksOrder(c)'
      BY <2>1, <2>4, <3>1 DEF ChecksOrder, Issued, tables, documents
    <3>3. Checks(c)'
      BY <2>1, <3>1, <3>2 DEF Checks
    <3> QED BY <1>1, <2>1, <2>2, <3>3
  <2> QED BY <1>0, <2>1, <2>3, <2>4 DEF TypeInv, Carries
<1>4. ASSUME NEW c \in Call, Ask(c)
      PROVE  (\A d \in Call : Checks(d)') /\ \A p \in Purchase : OrderInv(p)'
  <2>1. /\ UNCHANGED <<tables, task>> /\ pc[c] = "asking" /\ pc'[c] = "writing"
        /\ \A d \in Call \ {c} : pc'[d] = pc[d] /\ task'[d] = task[d]
    BY <1>0, <1>4 DEF Ask, Goto, TypeInv, TypeOK
  <2>2. Advances /\ \A p \in Purchase : OrderInv(p)'
    BY <2>1, QuietOrders DEF tables, documents
  <2>3. CASE task[c].op \in RequestOp
    <3>1. ~Issued(task[c].purchase) /\ task[c].op # "cancelOrder"
      BY <1>4, <2>3 DEF Ask, RequestOp
    <3>2. ChecksRequest(c)
      BY <2>1, <2>3 DEF IInv, Checks
    <3>3. ChecksRequest(c)'
      BY <2>1, <3>1, <3>2 DEF ChecksRequest, Issued, tables, documents
    <3>4. Checks(c)'
      BY <2>1, <2>3, <3>1, <3>3 DEF Checks
    <3> QED BY <1>1, <2>1, <2>2, <3>4
  <2>4. CASE task[c].op = "cancelOrder"
    <3>1. ChecksOrder(c) /\ task[c].op \notin RequestOp
      BY <2>1, <2>4 DEF IInv, Checks, RequestOp
    <3>2. order[task[c].purchase].received = 0
      BY <1>4, <2>4 DEF Ask
    <3>3. ChecksOrder(c)'
      BY <2>1, <3>1, <3>2 DEF ChecksOrder, Issued, tables, documents
    <3>4. Checks(c)'
      BY <2>1, <3>1, <3>3 DEF Checks
    <3> QED BY <1>1, <2>1, <2>2, <3>4
  <2> QED BY <1>0, <2>1, <2>3, <2>4 DEF TypeInv, Carries
\* A call that ends, or goes on with receipts, invoices and payables, needs no checks.
<1>5. ASSUME NEW c \in Call, Advances, \A p \in Purchase : OrderInv(p)',
             End(c) \/ \E label \in PC \ {"reading", "asking", "writing"} :
                         Goto(c, label) /\ \A d \in Call \ {c} : task'[d] = task[d]
      PROVE  (\A d \in Call : Checks(d)') /\ \A p \in Purchase : OrderInv(p)'
  <2>1. /\ pc'[c] \notin {"reading", "asking", "writing"}
        /\ \A d \in Call \ {c} : pc'[d] = pc[d] /\ task'[d] = task[d]
    BY <1>0, <1>5 DEF End, Goto, TypeInv, TypeOK
  <2>2. Checks(c)'
    BY <2>1 DEF Checks
  <2> QED BY <1>1, <1>5, <2>1, <2>2
<1>6. ASSUME NEW c \in Call, WriteRequest(c) \/ CancelOrder(c) \/ Receive(c)
      PROVE  (\A d \in Call : Checks(d)') /\ \A p \in Purchase : OrderInv(p)'
  <2>1. Advances /\ \A p \in Purchase : OrderInv(p)'
    BY <1>0, <1>6, StepRequest, StepCancel, StepReceive
  <2>2. End(c) \/ \E label \in PC \ {"reading", "asking", "writing"} :
                    Goto(c, label) /\ \A d \in Call \ {c} : task'[d] = task[d]
    BY <1>0, <1>6 DEF WriteRequest, CancelOrder, Receive, GoOn, PC, TypeInv, TypeOK
  <2> QED BY <1>5, <2>1, <2>2
<1>7. ASSUME NEW c \in Call,
             \/ Abort(c) \/ ReceiveAgain(c) \/ FindInvoice(c) \/ OpenForReceipt(c) \/ Attach(c)
             \/ Prepare(c) \/ OpenForInvoice(c) \/ Validate(c)
      PROVE  (\A d \in Call : Checks(d)') /\ \A p \in Purchase : OrderInv(p)'
  <2>1. UNCHANGED <<request, order>>
    BY <1>7 DEF Abort, ReceiveAgain, FindInvoice, OpenForReceipt, Attach, Prepare, OpenForInvoice,
                Validate, tables, documents
  <2>2. \A k \in ReceiptKey : receipt'[k].purchase = receipt[k].purchase
    <3>1. CASE Attach(c)
      <4>1. \A k \in ReceiptKey \ {task[c].key} : receipt'[k] = receipt[k]
        BY <1>0, <3>1 DEF Attach, TypeInv, TypeOK
      <4>2. PICK k \in ReceiptKey : k = task[c].key
        BY <1>0, <3>1 DEF Attach, TypeInv, Carries
      <4>3. receipt'[k] = [receipt[k] EXCEPT !.payable = IF receipt[k].payable = NULL
                                              THEN task[c].payable ELSE receipt[k].payable]
        BY <1>0, <3>1, <4>2 DEF Attach, TypeInv, TypeOK
      <4>4. receipt[k] \in ReceiptRow
        BY <1>0 DEF TypeInv, TypeOK, ReceiptRow
      <4> QED BY <4>1, <4>2, <4>3, <4>4 DEF ReceiptRow
    <3>2. CASE ~Attach(c)
      BY <1>7, <3>2 DEF Abort, ReceiveAgain, FindInvoice, OpenForReceipt, Prepare, OpenForInvoice,
                        Validate, tables, documents
    <3> QED BY <3>1, <3>2
  <2>3. Advances /\ \A p \in Purchase : OrderInv(p)'
    BY <2>1, <2>2, QuietOrders
  <2>4. End(c) \/ \E label \in PC \ {"reading", "asking", "writing"} :
                    Goto(c, label) /\ \A d \in Call \ {c} : task'[d] = task[d]
    BY <1>0, <1>7 DEF Abort, ReceiveAgain, FindInvoice, OpenForReceipt, Attach, Prepare,
                      OpenForInvoice, Validate, GoOn, PC, TypeInv, TypeOK
  <2> QED BY <1>5, <2>3, <2>4
<1>8. CASE UNCHANGED <<request, order, receipt, pc, task>>
  <2>1. Advances /\ \A p \in Purchase : OrderInv(p)'
    BY <1>8, QuietOrders
  <2>2. \A d \in Call : Checks(d)'
    BY <1>0, <1>8, <2>1, OthersCheck DEF IInv
  <2> QED BY <2>1, <2>2
<1>9. /\ (\E i \in Invoice : CreateInvoice(i)) \/ UNCHANGED vars => UNCHANGED <<request, order, receipt, pc, task>>
      /\ \A o \in Origin : OpenByClient(o) \/ Pay(o) \/ Reverse(o) \/ CancelPayable(o) =>
           UNCHANGED <<request, order, receipt, pc, task>>
  BY DEF CreateInvoice, OpenByClient, Pay, Reverse, CancelPayable, vars, tables, documents
<1> QED BY <1>2, <1>3, <1>4, <1>6, <1>7, <1>8, <1>9 DEF Next

-----------------------------------------------------------------------------
\* What an order shows

LEMMA ShowsSum ==
  \A p \in Purchase : ShowsReceipts(p) <=> order[p].received = Sum(receipt, ReceiptsOf(p))
BY Zenon DEF ShowsReceipts, MapThenSumSet, MapThenFoldSet, Sum, Adds, Some

LEMMA ShowsSumNext ==
  \A p \in Purchase : ShowsReceipts(p)' <=> order'[p].received = Sum(receipt', ReceiptsOf(p)')
BY Zenon DEF ShowsReceipts, MapThenSumSet, MapThenFoldSet, Sum, Adds, Some

Shows == \A p \in Purchase : ShowsReceipts(p)

LEMMA Quantities ==
  ASSUME TypeInv, NEW S \in SUBSET ReceiptKey
  PROVE  IsFiniteSet(S) /\ \A k \in S : receipt[k].quantity \in Nat
BY ConstantsAssumption, FS_Subset DEF TypeInv, TypeOK

LEMMA InitShows == Init => Shows
<1> SUFFICES ASSUME Init, NEW p \in Purchase PROVE ShowsReceipts(p)
  BY DEF Shows
<1>1. ReceiptsOf(p) = {} /\ order[p].received = 0
  BY ConstantsAssumption DEF Init, ReceiptsOf, NoReceipt, NoOrder
<1>2. Sum(receipt, {}) = 0
  BY FS_EmptySet, SumDef
<1> QED BY <1>1, <1>2, ShowsSum

\* What an order shows and what its receipts bring in stay.
LEMMA QuietShows ==
  ASSUME TypeInv, Shows,
         \A p \in Purchase : order'[p].received = order[p].received,
         \A k \in ReceiptKey : receipt'[k].purchase = receipt[k].purchase
                              /\ receipt'[k].quantity = receipt[k].quantity
  PROVE  Shows'
<1> SUFFICES ASSUME NEW p \in Purchase PROVE ShowsReceipts(p)'
  BY DEF Shows
<1>1. ReceiptsOf(p)' = ReceiptsOf(p) /\ ReceiptsOf(p) \in SUBSET ReceiptKey
  BY DEF ReceiptsOf
<1>2. IsFiniteSet(ReceiptsOf(p))
  BY <1>1, Quantities
<1>3. Sum(receipt', ReceiptsOf(p)) = Sum(receipt, ReceiptsOf(p))
  BY <1>1, <1>2, SumSame
<1> QED BY <1>1, <1>3, ShowsSum, ShowsSumNext DEF Shows

\* The one step that brings in goods adds them to what the order shows.
LEMMA ReceiveShows ==
  ASSUME TypeInv, TypeInv', Shows, NEW c \in Call, Receive(c)
  PROVE  Shows'
<1> SUFFICES ASSUME NEW p \in Purchase PROVE ShowsReceipts(p)'
  BY DEF Shows
<1>1. PICK q \in Purchase, k \in ReceiptKey, n \in Nat :
        q = task[c].purchase /\ k = task[c].key /\ n = task[c].quantity
  BY DEF Receive, TypeInv, Carries
<1>2. /\ order'[q].received = order[q].received + n
      /\ \A r \in Purchase \ {q} : order'[r] = order[r]
      /\ \A j \in ReceiptKey \ {k} : receipt'[j] = receipt[j]
      /\ receipt'[k].purchase = q /\ receipt'[k].quantity = n
      /\ receipt[k].purchase = NULL
  BY <1>1 DEF Receive, Posted, TypeInv, TypeOK
<1>3. ReceiptsOf(p) \in SUBSET ReceiptKey /\ k \notin ReceiptsOf(p)
  BY <1>2, ConstantsAssumption DEF ReceiptsOf
<1>4. Sum(receipt', ReceiptsOf(p)) = Sum(receipt, ReceiptsOf(p))
  <2>1. IsFiniteSet(ReceiptsOf(p)) /\ \A j \in ReceiptsOf(p) : receipt'[j].quantity = receipt[j].quantity
    BY <1>2, <1>3, Quantities
  <2> QED BY <2>1, SumSame
<1>5. order[p].received = Sum(receipt, ReceiptsOf(p))
  BY ShowsSum DEF Shows
<1>6. CASE p = q
  <2>1. ReceiptsOf(p)' = ReceiptsOf(p) \union {k}
    BY <1>2, <1>6 DEF ReceiptsOf
  <2>2. IsFiniteSet(ReceiptsOf(p)') /\ \A j \in ReceiptsOf(p)' : receipt'[j].quantity \in Nat
    BY <2>1, <1>3, FS_Subset, ConstantsAssumption DEF TypeInv, TypeOK
  <2>3. Sum(receipt', ReceiptsOf(p)') = receipt'[k].quantity + Sum(receipt', ReceiptsOf(p)' \ {k})
    BY <2>1, <2>2, SumLess
  <2>4. ReceiptsOf(p)' \ {k} = ReceiptsOf(p)
    BY <2>1, <1>3
  <2>5. order[p].received \in Nat
    BY DEF TypeInv, TypeOK
  <2>6. order'[p].received = n + order[p].received
    BY <1>2, <1>6, <2>5
  <2> QED BY <1>2, <1>4, <1>5, <2>3, <2>4, <2>6, ShowsSumNext
<1>7. CASE p # q
  <2>1. ReceiptsOf(p)' = ReceiptsOf(p)
    BY <1>2, <1>3, <1>7 DEF ReceiptsOf
  <2> QED BY <1>2, <1>4, <1>5, <1>7, <2>1, ShowsSumNext
<1> QED BY <1>6, <1>7

\* An attached payable leaves the rest of a receipt alone.
LEMMA AttachRow ==
  ASSUME TypeInv, NEW c \in Call, Attach(c)
  PROVE  \A k \in ReceiptKey : receipt'[k].purchase = receipt[k].purchase
                              /\ receipt'[k].quantity = receipt[k].quantity
<1>1. PICK k \in ReceiptKey : k = task[c].key
  BY DEF Attach, TypeInv, Carries
<1>2. PICK x : receipt' = [receipt EXCEPT ![k] = [receipt[k] EXCEPT !.payable = x]]
  BY <1>1 DEF Attach
<1>3. /\ [receipt[k] EXCEPT !.payable = x].purchase = receipt[k].purchase
      /\ [receipt[k] EXCEPT !.payable = x].quantity = receipt[k].quantity
  BY DEF TypeInv, TypeOK
<1> QED BY <1>2, <1>3 DEF TypeInv, TypeOK

LEMMA StepShows == IInv /\ Shows /\ [Next]_vars => Shows'
<1> SUFFICES ASSUME IInv, Shows, [Next]_vars PROVE Shows'
  OBVIOUS
<1>1. TypeInv /\ TypeInv'
  BY StepType DEF IInv
<1>2. ASSUME NEW c \in Call, WriteRequest(c) PROVE Shows'
  <2>1. PICK q \in Purchase, op \in RequestOp : q = task[c].purchase /\ op = task[c].op
    BY <1>1, <1>2 DEF WriteRequest, TypeInv, Carries
  <2>2. /\ \A p \in Purchase \ {q} : order'[p] = order[p]
        /\ order'[q] = order[q] \/ (~Issued(q) /\ order'[q].received = 0)
        /\ receipt' = receipt
    BY <1>1, <1>2, <2>1 DEF WriteRequest, TypeInv, TypeOK
  <2>3. ~Issued(q) => order[q].received = 0
    BY DEF IInv, OrderInv, NothingYet
  <2> QED BY <1>1, <2>2, <2>3, QuietShows
<1>3. ASSUME NEW c \in Call, CancelOrder(c) PROVE Shows'
  <2>1. PICK q \in Purchase : q = task[c].purchase
    BY <1>1, <1>3 DEF CancelOrder, TypeInv, Carries
  <2>2. /\ order'[q].received = order[q].received
        /\ \A p \in Purchase \ {q} : order'[p] = order[p]
        /\ receipt' = receipt
    BY <1>1, <1>3, <2>1 DEF CancelOrder, TypeInv, TypeOK
  <2> QED BY <1>1, <2>2, QuietShows
<1>4. ASSUME NEW c \in Call, Receive(c) PROVE Shows'
  BY <1>1, <1>4, ReceiveShows
<1>5. ASSUME NEW c \in Call, Attach(c) PROVE Shows'
  <2>1. order' = order
    BY <1>5 DEF Attach
  <2> QED BY <1>1, <1>5, <2>1, AttachRow, QuietShows
<1>6. CASE UNCHANGED <<order, receipt>>
  BY <1>1, <1>6, QuietShows
<1>7. \A c \in Call :
        \/ Begin(c) \/ Abort(c) \/ Read(c) \/ Ask(c) \/ ReceiveAgain(c) \/ FindInvoice(c)
        \/ OpenForReceipt(c) \/ Prepare(c) \/ OpenForInvoice(c) \/ Validate(c)
        => UNCHANGED <<order, receipt>>
  BY DEF Begin, Start, Abort, Read, Ask, ReceiveAgain, FindInvoice, OpenForReceipt, Prepare,
         OpenForInvoice, Validate, tables, documents
<1>8. /\ (\E i \in Invoice : CreateInvoice(i)) \/ UNCHANGED vars => UNCHANGED <<order, receipt>>
      /\ \A o \in Origin : OpenByClient(o) \/ Pay(o) \/ Reverse(o) \/ CancelPayable(o) =>
           UNCHANGED <<order, receipt>>
  BY DEF CreateInvoice, OpenByClient, Pay, Reverse, CancelPayable, vars, tables, documents
<1> QED BY <1>2, <1>3, <1>4, <1>5, <1>6, <1>7, <1>8 DEF Next

\* An order stands on an approved request, nothing is received on a cancelled one,
\* what it shows is the sum of its receipts and within what was ordered, however
\* calls overlap between their checks and their transactions.
THEOREM OrdersKeepTheirGround == Spec => []OrdersStand
<1> DEFINE Inv == IInv /\ Shows
<1>1. Init => Inv
  BY InitInv, InitShows
<1>2. Inv /\ [Next]_vars => Inv'
  BY StepInv, StepShows
<1>3. Inv => OrdersStand
  BY DEF IInv, OrderInv, Shows, OrdersStand
<1> HIDE DEF Inv
<1> QED BY <1>1, <1>2, <1>3, PTL DEF Spec

-----------------------------------------------------------------------------
\* What payables are worth

\* Why a receipt has, or is to have, a payable: it is its own, that of the
\* invoice for the receipt, or the payable of an invoice that names its order.
Reason(k, o) ==
  \/ o = k
  \/ o \in Invoice /\ invoice[o].receipt = k /\ AmountMatches(o)
  \/ \E i \in Invoice : invoice[i].payable = o /\ invoice[i].purchase = receipt[k].purchase

Founded(k, o) == Posted(k) /\ Opened(o) /\ Reason(k, o)

OwesReceipt(k) ==
  /\ receipt[k].payable # NULL => Founded(k, receipt[k].payable)
  /\ Opened(k) => payable[k].byClient \/ (Posted(k) /\ payable[k].principal = receipt[k].quantity)

OwesInvoice(i) ==
  /\ invoice[i].status = "NONE" => invoice[i].receipt = NULL
  /\ invoice[i].receipt # NULL => Posted(invoice[i].receipt)
  /\ invoice[i].payable # NULL =>
       /\ invoice[i].status = "VALIDATED"
       /\ Opened(invoice[i].payable)
       /\ invoice[i].payable = i \/ invoice[i].receipt # NULL
       /\ AmountMatches(i)
  /\ Opened(i) =>
       payable[i].byClient \/ (invoice[i].status # "NONE" /\ payable[i].principal = invoice[i].amount)

\* What a call has found and is to act on
Due(c) ==
  LET t == task[c] IN
  /\ pc[c] = "attaching" => Founded(t.key, t.payable)
  /\ pc[c] \in {"invoicing", "validating"} => AmountMatches(t.invoice)
  /\ pc[c] = "validating" => Opened(t.invoice)

Owed ==
  /\ \A k \in ReceiptKey : OwesReceipt(k)
  /\ \A i \in Invoice : OwesInvoice(i)
  /\ \A c \in Call : Due(c)

\* What no step takes back
Stays ==
  /\ \A k \in ReceiptKey : Posted(k) =>
       receipt'[k].purchase = receipt[k].purchase /\ receipt'[k].quantity = receipt[k].quantity
  /\ \A i \in Invoice :
       /\ invoice[i].status # "NONE" =>
            /\ invoice'[i].status # "NONE" /\ invoice'[i].purchase = invoice[i].purchase
            /\ invoice'[i].receipt = invoice[i].receipt /\ invoice'[i].amount = invoice[i].amount
       /\ invoice[i].status = "VALIDATED" => invoice'[i].status = "VALIDATED"
       /\ invoice[i].payable # NULL => invoice'[i].payable = invoice[i].payable
  /\ \A o \in Origin : Opened(o) =>
       /\ payable'[o].lifecycle # "NONE" /\ payable'[o].principal = payable[o].principal
       /\ payable'[o].byClient = payable[o].byClient

LEMMA PostedStays ==
  ASSUME TypeInv, Stays, NEW k \in ReceiptKey, Posted(k)
  PROVE  Posted(k)'
BY ConstantsAssumption DEF Stays, Posted, TypeInv, TypeOK

LEMMA OpenedStays ==
  ASSUME Stays, NEW o \in Origin, Opened(o)
  PROVE  Opened(o)'
BY DEF Stays, Opened

LEMMA MatchesStays ==
  ASSUME TypeInv, Owed, Stays, NEW i \in Invoice, invoice[i].status # "NONE", AmountMatches(i)
  PROVE  AmountMatches(i)'
<1>1. /\ invoice'[i].purchase = invoice[i].purchase
      /\ invoice'[i].receipt = invoice[i].receipt /\ invoice'[i].amount = invoice[i].amount
  BY DEF Stays
<1>2. invoice[i].receipt # NULL =>
        receipt'[invoice[i].receipt].quantity = receipt[invoice[i].receipt].quantity
  BY DEF Owed, OwesInvoice, Stays, TypeInv, TypeOK
<1> QED BY <1>1, <1>2 DEF AmountMatches

LEMMA ReasonStays ==
  ASSUME TypeInv, Owed, Stays, NEW k \in ReceiptKey, NEW o \in Origin, Founded(k, o)
  PROVE  Founded(k, o)'
<1>1. Posted(k)' /\ Opened(o)' /\ receipt'[k].purchase = receipt[k].purchase
  <2>1. Posted(k) /\ Opened(o)
    BY DEF Founded
  <2>2. Posted(k)' /\ Opened(o)'
    BY <2>1, PostedStays, OpenedStays
  <2> QED BY <2>1, <2>2 DEF Stays
<1>2. NULL \notin ReceiptKey /\ NULL \notin Origin
  BY ConstantsAssumption DEF Origin
<1>3. CASE o \in Invoice /\ invoice[o].receipt = k /\ AmountMatches(o)
  <2>1. invoice[o].status # "NONE" /\ invoice'[o].receipt = k
    BY <1>2, <1>3 DEF Owed, OwesInvoice, Stays
  <2>2. AmountMatches(o)'
    BY <1>3, <2>1, MatchesStays
  <2> QED BY <1>1, <1>3, <2>1, <2>2 DEF Founded, Reason
<1>4. ASSUME NEW i \in Invoice, invoice[i].payable = o, invoice[i].purchase = receipt[k].purchase
      PROVE  Founded(k, o)'
  <2>1. invoice[i].status # "NONE" /\ invoice[i].payable # NULL
    BY <1>2, <1>4 DEF Owed, OwesInvoice
  <2>2. invoice'[i].payable = o /\ invoice'[i].purchase = receipt'[k].purchase
    BY <1>1, <1>4, <2>1 DEF Stays
  <2> QED BY <1>1, <2>2 DEF Founded, Reason
<1> QED BY <1>1, <1>3, <1>4 DEF Founded, Reason

\* A receipt, an invoice or a call still owes what it did, or as much as is new.
LEMMA ReceiptOwes ==
  ASSUME TypeInv, TypeInv', Owed, Stays, NEW k \in ReceiptKey,
         \/ receipt'[k].payable \in {NULL, receipt[k].payable}
         \/ Founded(k, receipt'[k].payable),
         Opened(k)' =>
           \/ Opened(k)
           \/ payable'[k].byClient
           \/ Posted(k) /\ payable'[k].principal = receipt[k].quantity
  PROVE  OwesReceipt(k)'
<1>1. k \in Origin /\ OwesReceipt(k)
  BY DEF Origin, Owed
<1>2. ASSUME receipt'[k].payable # NULL PROVE Founded(k, receipt[k].payable)'
  <2>1. PICK o \in Origin : o = receipt'[k].payable
    BY <1>2 DEF TypeInv, TypeOK
  <2>2. Founded(k, o)
    BY <1>1, <1>2, <2>1 DEF OwesReceipt
  <2>3. Founded(k, o)'
    BY <2>2, ReasonStays
  <2> QED BY <2>1, <2>3 DEF Founded, Reason, Opened, AmountMatches
<1>3. Opened(k)' =>
        payable'[k].byClient \/ (Posted(k)' /\ payable'[k].principal = receipt'[k].quantity)
  BY <1>1, PostedStays DEF OwesReceipt, Stays
<1> QED BY <1>2, <1>3 DEF OwesReceipt

LEMMA InvoiceOwes ==
  ASSUME TypeInv, TypeInv', Owed, Stays, NEW i \in Invoice,
         invoice'[i].status = "NONE" => invoice'[i].receipt = NULL,
         invoice'[i].receipt # NULL => invoice[i].status # "NONE" \/ Posted(invoice'[i].receipt),
         \/ invoice'[i].payable \in {NULL, invoice[i].payable}
         \/ /\ invoice'[i].status = "VALIDATED"
            /\ Opened(invoice'[i].payable)
            /\ invoice'[i].payable = i \/ invoice'[i].receipt # NULL
            /\ invoice[i].status # "NONE" /\ AmountMatches(i),
         Opened(i)' =>
           \/ Opened(i)
           \/ payable'[i].byClient
           \/ invoice[i].status # "NONE" /\ payable'[i].principal = invoice[i].amount
  PROVE  OwesInvoice(i)'
<1>1. i \in Origin /\ OwesInvoice(i)
  BY DEF Origin, Owed
<1>2. ASSUME invoice'[i].receipt # NULL PROVE Posted(invoice[i].receipt)'
  <2>1. PICK k \in ReceiptKey : k = invoice'[i].receipt
    BY <1>2 DEF TypeInv, TypeOK
  <2>2. Posted(k)
    BY <1>1, <1>2, <2>1 DEF OwesInvoice, Stays
  <2>3. Posted(k)'
    BY <2>2, PostedStays
  <2> QED BY <2>1, <2>3 DEF Posted
<1>3. ASSUME invoice'[i].payable # NULL
      PROVE  /\ invoice'[i].status = "VALIDATED"
             /\ Opened(invoice[i].payable)'
             /\ invoice'[i].payable = i \/ invoice'[i].receipt # NULL
             /\ AmountMatches(i)'
  <2>1. PICK o \in Origin : o = invoice'[i].payable
    BY <1>3 DEF TypeInv, TypeOK
  <2>2. /\ invoice'[i].status = "VALIDATED" /\ Opened(o)
        /\ invoice'[i].payable = i \/ invoice'[i].receipt # NULL
        /\ invoice[i].status # "NONE" /\ AmountMatches(i)
    <3>1. CASE o = invoice[i].payable
      BY <1>1, <1>3, <2>1, <3>1 DEF OwesInvoice, Stays
    <3>2. CASE o # invoice[i].payable
      BY <1>3, <2>1, <3>2
    <3> QED BY <3>1, <3>2
  <2>3. Opened(o)'
    BY <2>2, OpenedStays
  <2>4. AmountMatches(i)'
    BY <2>2, MatchesStays
  <2> QED BY <2>1, <2>2, <2>3, <2>4 DEF Opened
<1>4. ASSUME Opened(i)'
      PROVE  \/ payable'[i].byClient
             \/ invoice'[i].status # "NONE" /\ payable'[i].principal = invoice'[i].amount
  BY <1>1, <1>4 DEF OwesInvoice, Stays
<1> QED BY <1>2, <1>3, <1>4 DEF OwesInvoice

LEMMA CallOwes ==
  ASSUME TypeInv, Owed, Stays, NEW d \in Call, pc'[d] = pc[d], task'[d] = task[d]
  PROVE  Due(d)'
<1>1. Due(d) /\ Carries(d)
  BY DEF Owed, TypeInv
<1>2. CASE pc[d] = "attaching"
  <2>1. PICK k \in ReceiptKey, o \in Origin : k = task[d].key /\ o = task[d].payable
    BY <1>1, <1>2 DEF Carries
  <2>2. Founded(k, o)'
    BY <1>1, <1>2, <2>1, ReasonStays DEF Due
  <2>3. pc'[d] = "attaching" /\ k = task'[d].key /\ o = task'[d].payable
    BY <1>2, <2>1
  <2> QED BY <2>2, <2>3 DEF Due, Founded, Reason, Posted, Opened, AmountMatches
<1>3. CASE pc[d] \in {"invoicing", "validating"}
  <2>1. PICK i \in Invoice : i = task[d].invoice /\ i \in Origin /\ invoice[i].status # "NONE"
    BY <1>1, <1>3 DEF Carries, Origin
  <2>2. AmountMatches(i)'
    BY <1>1, <1>3, <2>1, MatchesStays DEF Due
  <2>3. pc[d] = "validating" => Opened(i)'
    BY <1>1, <2>1, OpenedStays DEF Due
  <2>4. pc'[d] \in {"invoicing", "validating"} /\ i = task'[d].invoice
    BY <1>3, <2>1
  <2> QED BY <1>3, <2>2, <2>3, <2>4 DEF Due, AmountMatches, Opened
<1> QED BY <1>2, <1>3 DEF Due

\* One call moves, the others owe what they did.
LEMMA MoverOwes ==
  ASSUME TypeInv, Owed, Stays, NEW c \in Call, Due(c)',
         \A d \in Call \ {c} : pc'[d] = pc[d] /\ task'[d] = task[d]
  PROVE  \A d \in Call : Due(d)'
<1>1. \A d \in Call \ {c} : Due(d)'
  BY CallOwes
<1> QED BY <1>1

\* Rows stay, but for receipts and invoices that are new and payables' states.
LEMMA RowsOwe ==
  ASSUME TypeInv, TypeInv', Owed, UNCHANGED <<receipt, invoice>>,
         \A o \in Origin : /\ Opened(o)' <=> Opened(o)
                           /\ payable'[o].principal = payable[o].principal
                           /\ payable'[o].byClient = payable[o].byClient
  PROVE  /\ Stays
         /\ \A k \in ReceiptKey : OwesReceipt(k)'
         /\ \A i \in Invoice : OwesInvoice(i)'
<1>1. Stays
  BY DEF Stays, Opened
<1>2. \A k \in ReceiptKey : k \in Origin
  BY DEF Origin
<1>3. \A i \in Invoice : i \in Origin /\ OwesInvoice(i)
  BY DEF Origin, Owed
<1>4. \A k \in ReceiptKey : OwesReceipt(k)'
  BY <1>1, <1>2, ReceiptOwes
<1>5. ASSUME NEW i \in Invoice PROVE OwesInvoice(i)'
  <2>1. invoice'[i] = invoice[i]
    OBVIOUS
  <2>2. invoice'[i].status = "NONE" => invoice'[i].receipt = NULL
    BY <1>3, <2>1 DEF OwesInvoice
  <2>3. invoice'[i].receipt # NULL => invoice[i].status # "NONE" \/ Posted(invoice'[i].receipt)
    BY <1>3, <2>1 DEF OwesInvoice
  <2> QED BY <1>1, <1>3, <2>1, <2>2, <2>3, InvoiceOwes
<1> QED BY <1>1, <1>4, <1>5

LEMMA OpenOwes ==
  ASSUME TypeInv, TypeInv', Owed, NEW o \in Origin, NEW n, NEW b \in BOOLEAN,
         OpenPayable(o, n, b), UNCHANGED <<receipt, invoice>>,
         o \in ReceiptKey => b \/ (Posted(o) /\ n = receipt[o].quantity),
         o \in Invoice => b \/ (invoice[o].status # "NONE" /\ n = invoice[o].amount)
  PROVE  /\ Stays /\ Opened(o)'
         /\ \A k \in ReceiptKey : OwesReceipt(k)'
         /\ \A i \in Invoice : OwesInvoice(i)'
<1>1. CASE Opened(o)
  <2>1. payable' = payable
    BY <1>1 DEF OpenPayable
  <2> QED BY <1>1, <2>1, RowsOwe DEF Opened
<1>2. CASE ~Opened(o)
  <2>1. /\ payable'[o].lifecycle = "ACTIVE" /\ payable'[o].principal = n
        /\ payable'[o].byClient = b
        /\ \A x \in Origin \ {o} : payable'[x] = payable[x]
    BY <1>2 DEF OpenPayable, TypeInv, TypeOK
  <2>2. Stays /\ Opened(o)' /\ \A x \in Origin \ {o} : Opened(x)' <=> Opened(x)
    BY <1>2, <2>1 DEF Stays, Opened
  <2>3. ASSUME NEW k \in ReceiptKey PROVE OwesReceipt(k)'
    <3>1. k \in Origin /\ receipt'[k].payable = receipt[k].payable
      BY DEF Origin
    <3>2. Opened(k)' =>
            \/ Opened(k)
            \/ payable'[k].byClient
            \/ Posted(k) /\ payable'[k].principal = receipt[k].quantity
      <4>1. CASE k = o
        BY <2>1, <4>1
      <4> QED BY <2>2, <3>1, <4>1
    <3> QED BY <2>2, <3>1, <3>2, ReceiptOwes
  <2>4. ASSUME NEW i \in Invoice PROVE OwesInvoice(i)'
    <3>1. i \in Origin /\ invoice'[i] = invoice[i] /\ OwesInvoice(i)
      BY DEF Origin, Owed
    <3>2. Opened(i)' =>
            \/ Opened(i)
            \/ payable'[i].byClient
            \/ invoice[i].status # "NONE" /\ payable'[i].principal = invoice[i].amount
      BY <2>1, <2>2, <3>1
    <3>3. /\ invoice'[i].status = "NONE" => invoice'[i].receipt = NULL
          /\ invoice'[i].receipt # NULL => invoice[i].status # "NONE" \/ Posted(invoice'[i].receipt)
      BY <3>1 DEF OwesInvoice
    <3> QED BY <2>2, <3>1, <3>2, <3>3, InvoiceOwes
  <2> QED BY <2>2, <2>3, <2>4
<1> QED BY <1>1, <1>2

\* An invoice is validated with a payable there is.
LEMMA ValidatedOwes ==
  ASSUME TypeInv, TypeInv', Owed, NEW i \in Invoice, NEW o \in Origin, Opened(o),
         UNCHANGED <<receipt, payable>>, invoice[i].status # "NONE", invoice[i].payable = NULL,
         invoice' = [invoice EXCEPT ![i] = Validated(i, o)],
         o = i \/ invoice[i].receipt # NULL, AmountMatches(i)
  PROVE  /\ Stays
         /\ \A k \in ReceiptKey : OwesReceipt(k)'
         /\ \A j \in Invoice : OwesInvoice(j)'
<1>1. /\ \A j \in Invoice \ {i} : invoice'[j] = invoice[j]
      /\ invoice'[i].status = "VALIDATED" /\ invoice'[i].payable = o
      /\ invoice'[i].purchase = invoice[i].purchase /\ invoice'[i].receipt = invoice[i].receipt
      /\ invoice'[i].amount = invoice[i].amount
  <2>1. invoice[i] \in InvoiceRow
    BY DEF TypeInv, TypeOK, InvoiceRow
  <2>2. /\ Validated(i, o).status = "VALIDATED" /\ Validated(i, o).payable = o
        /\ Validated(i, o).purchase = invoice[i].purchase
        /\ Validated(i, o).receipt = invoice[i].receipt
        /\ Validated(i, o).amount = invoice[i].amount
    BY <2>1 DEF Validated, InvoiceRow
  <2> QED BY <2>2 DEF TypeInv, TypeOK
<1>2. Stays
  BY <1>1 DEF Stays, Opened
<1>3. \A x : Opened(x)' <=> Opened(x)
  BY DEF Opened
<1>4. ASSUME NEW k \in ReceiptKey PROVE OwesReceipt(k)'
  BY <1>2, <1>3, ReceiptOwes
<1>5. ASSUME NEW j \in Invoice PROVE OwesInvoice(j)'
  <2>1. OwesInvoice(j)
    BY DEF Owed
  <2>2. CASE j = i
    BY <1>1, <1>2, <1>3, <2>1, <2>2, InvoiceOwes DEF OwesInvoice
  <2>3. CASE j # i
    <3>1. invoice'[j] = invoice[j]
      BY <1>1, <2>3
    <3>2. /\ invoice'[j].status = "NONE" => invoice'[j].receipt = NULL
          /\ invoice'[j].receipt # NULL => invoice[j].status # "NONE" \/ Posted(invoice'[j].receipt)
      BY <2>1, <3>1 DEF OwesInvoice
    <3> QED BY <1>2, <1>3, <3>1, <3>2, InvoiceOwes
  <2> QED BY <2>2, <2>3
<1> QED BY <1>2, <1>4, <1>5

\* An invoice is new.
LEMMA CreateOwes ==
  ASSUME TypeInv, TypeInv', Owed, NEW i \in Invoice, CreateInvoice(i)
  PROVE  /\ Stays
         /\ \A k \in ReceiptKey : OwesReceipt(k)'
         /\ \A j \in Invoice : OwesInvoice(j)'
<1>1. PICK p \in Purchase \union {NULL}, k \in ReceiptKey \union {NULL},
           n \in Amount :
        /\ k # NULL => Posted(k)
        /\ invoice[i].status = "NONE"
        /\ invoice' = [invoice EXCEPT ![i] = [status |-> "DRAFT", purchase |-> p, receipt |-> k,
                                              amount |-> n, version |-> 1, payable |-> NULL]]
        /\ UNCHANGED <<receipt, payable>>
  BY DEF CreateInvoice
<1>2. /\ \A j \in Invoice \ {i} : invoice'[j] = invoice[j]
      /\ invoice'[i].status = "DRAFT" /\ invoice'[i].receipt = k /\ invoice'[i].payable = NULL
  BY <1>1 DEF TypeInv, TypeOK
<1>3. /\ \A j \in Invoice : OwesInvoice(j)
      /\ \A x : Opened(x)' <=> Opened(x)
  BY <1>1 DEF Owed, Opened
<1>4. invoice[i].payable = NULL
  BY <1>1, <1>3 DEF OwesInvoice
<1>5. Stays
  BY <1>1, <1>2, <1>4 DEF Stays, Opened
<1>6. ASSUME NEW x \in ReceiptKey PROVE OwesReceipt(x)'
  BY <1>1, <1>3, <1>5, ReceiptOwes
<1>7. ASSUME NEW j \in Invoice PROVE OwesInvoice(j)'
  <2>1. CASE j = i
    BY <1>1, <1>2, <1>3, <1>5, <2>1, InvoiceOwes
  <2>2. CASE j # i
    <3>1. invoice'[j] = invoice[j]
      BY <1>2, <2>2
    <3>2. /\ invoice'[j].status = "NONE" => invoice'[j].receipt = NULL
          /\ invoice'[j].receipt # NULL => invoice[j].status # "NONE" \/ Posted(invoice'[j].receipt)
      BY <1>3, <3>1 DEF OwesInvoice
    <3> QED BY <1>3, <1>5, <3>1, <3>2, InvoiceOwes
  <2> QED BY <2>1, <2>2
<1> QED BY <1>5, <1>6, <1>7

\* A receipt is new.
LEMMA ReceiveOwes ==
  ASSUME TypeInv, TypeInv', Owed, NEW c \in Call, Receive(c)
  PROVE  /\ Stays
         /\ \A k \in ReceiptKey : OwesReceipt(k)'
         /\ \A j \in Invoice : OwesInvoice(j)'
<1>1. PICK k \in ReceiptKey, p \in Purchase, n \in Nat :
        k = task[c].key /\ p = task[c].purchase /\ n = task[c].quantity
  BY DEF Receive, TypeInv, Carries
<1>2. /\ ~Posted(k) /\ receipt'[k].payable = NULL
      /\ \A x \in ReceiptKey \ {k} : receipt'[x] = receipt[x]
      /\ UNCHANGED <<invoice, payable>>
  BY <1>1 DEF Receive, TypeInv, TypeOK
<1>3. Stays
  BY <1>2 DEF Stays, Opened
<1>4. \A x : Opened(x)' <=> Opened(x)
  BY <1>2 DEF Opened
<1>5. ASSUME NEW x \in ReceiptKey PROVE OwesReceipt(x)'
  BY <1>2, <1>3, <1>4, ReceiptOwes
<1>6. ASSUME NEW j \in Invoice PROVE OwesInvoice(j)'
  <2>1. invoice'[j] = invoice[j] /\ OwesInvoice(j)
    BY <1>2 DEF Owed
  <2>2. /\ invoice'[j].status = "NONE" => invoice'[j].receipt = NULL
        /\ invoice'[j].receipt # NULL => invoice[j].status # "NONE" \/ Posted(invoice'[j].receipt)
    BY <2>1 DEF OwesInvoice
  <2> QED BY <1>3, <1>4, <2>1, <2>2, InvoiceOwes
<1> QED BY <1>3, <1>5, <1>6

\* A receipt has a payable, for the reason that the call has found.
LEMMA AttachOwes ==
  ASSUME TypeInv, TypeInv', Owed, NEW c \in Call, Attach(c)
  PROVE  /\ Stays
         /\ \A k \in ReceiptKey : OwesReceipt(k)'
         /\ \A j \in Invoice : OwesInvoice(j)'
<1>1. PICK k \in ReceiptKey, o \in Origin : k = task[c].key /\ o = task[c].payable
  BY DEF Attach, TypeInv, Carries
<1>2. /\ receipt'[k].payable \in {receipt[k].payable, o}
      /\ \A x \in ReceiptKey \ {k} : receipt'[x] = receipt[x]
      /\ UNCHANGED <<invoice, payable>>
  BY <1>1 DEF Attach, TypeInv, TypeOK
<1>3. Founded(k, o)
  BY <1>1 DEF Attach, Owed, Due
<1>4. Stays
  BY <1>2, AttachRow DEF Stays, Opened
<1>5. \A x : Opened(x)' <=> Opened(x)
  BY <1>2 DEF Opened
<1>6. ASSUME NEW x \in ReceiptKey PROVE OwesReceipt(x)'
  <2>1. receipt'[x].payable \in {NULL, receipt[x].payable} \/ Founded(x, receipt'[x].payable)
    BY <1>2, <1>3
  <2> QED BY <1>4, <1>5, <2>1, ReceiptOwes
<1>7. ASSUME NEW j \in Invoice PROVE OwesInvoice(j)'
  <2>1. invoice'[j] = invoice[j] /\ OwesInvoice(j)
    BY <1>2 DEF Owed
  <2>2. /\ invoice'[j].status = "NONE" => invoice'[j].receipt = NULL
        /\ invoice'[j].receipt # NULL => invoice[j].status # "NONE" \/ Posted(invoice'[j].receipt)
    BY <2>1 DEF OwesInvoice
  <2> QED BY <1>4, <1>5, <2>1, <2>2, InvoiceOwes
<1> QED BY <1>4, <1>6, <1>7

LEMMA InitOwed == Init => Owed
<1> SUFFICES ASSUME Init PROVE Owed
  OBVIOUS
<1>1. \A o \in Origin : ~Opened(o)
  BY DEF Init, Opened, NoPayable
<1>2. ASSUME NEW k \in ReceiptKey PROVE OwesReceipt(k)
  BY <1>1 DEF Init, OwesReceipt, NoReceipt, Origin
<1>3. ASSUME NEW i \in Invoice PROVE OwesInvoice(i)
  BY <1>1 DEF Init, OwesInvoice, NoInvoice, Origin
<1>4. ASSUME NEW c \in Call PROVE Due(c)
  BY DEF Init, Due
<1> QED BY <1>2, <1>3, <1>4 DEF Owed

LEMMA StepOwed == TypeInv /\ Owed /\ [Next]_vars => Owed'
<1> SUFFICES ASSUME TypeInv, Owed, [Next]_vars PROVE Owed'
  OBVIOUS
<1>0. TypeInv'
  BY StepType
<1> DEFINE Rows == /\ Stays
                   /\ \A k \in ReceiptKey : OwesReceipt(k)'
                   /\ \A j \in Invoice : OwesInvoice(j)'
\* A call ends, or goes on where it owes nothing.
<1>1. ASSUME NEW c \in Call, Rows,
             \/ End(c)
             \/ \E label \in PC \ {"attaching", "invoicing", "validating"} :
                  Goto(c, label) /\ \A d \in Call \ {c} : task'[d] = task[d]
      PROVE  Owed'
  <2>1. /\ pc'[c] \notin {"attaching", "invoicing", "validating"}
        /\ \A d \in Call \ {c} : pc'[d] = pc[d] /\ task'[d] = task[d]
    BY <1>1 DEF End, Goto, TypeInv, TypeOK
  <2>2. Due(c)'
    BY <2>1 DEF Due
  <2> QED BY <1>1, <2>1, <2>2, MoverOwes DEF Owed
<1>2. ASSUME UNCHANGED tables PROVE Rows
  BY <1>0, <1>2, RowsOwe DEF Opened, tables, documents
\* It is to attach a payable to a receipt.
<1>3. ASSUME NEW c \in Call, Rows, NEW k \in ReceiptKey, NEW o \in Origin, Founded(k, o)',
             pc'[c] = "attaching", task'[c].key = k, task'[c].payable = o,
             \A d \in Call \ {c} : pc'[d] = pc[d] /\ task'[d] = task[d]
      PROVE  Owed'
  <2>1. Due(c)'
    BY <1>3 DEF Due, Founded, Reason, Posted, Opened, AmountMatches
  <2> QED BY <1>3, <2>1, MoverOwes DEF Owed
<1>4. ASSUME NEW c \in Call,
             Begin(c) \/ Abort(c) \/ Read(c) \/ Ask(c) \/ ReceiveAgain(c)
      PROVE  Owed'
  <2>1. UNCHANGED tables
    BY <1>4 DEF Begin, Start, Abort, Read, Ask, ReceiveAgain
  <2>2. \/ End(c)
        \/ \E label \in PC \ {"attaching", "invoicing", "validating"} :
             Goto(c, label) /\ \A d \in Call \ {c} : task'[d] = task[d]
    <3>1. CASE Begin(c)
      <4>1. PICK t \in Task : Start(c, t)
        BY <3>1, BeginAsks DEF TypeInv
      <4>2. FirstStep(t.op) \in PC \ {"attaching", "invoicing", "validating"}
        BY DEF FirstStep, PC
      <4> QED BY <4>1, <4>2 DEF Start, TypeInv, TypeOK
    <3>2. CASE Abort(c) \/ Read(c) \/ Ask(c) \/ ReceiveAgain(c)
      BY <3>2 DEF Abort, Read, Ask, ReceiveAgain, GoOn, PC, TypeInv, TypeOK
    <3> QED BY <1>4, <3>1, <3>2
  <2> QED BY <1>1, <1>2, <2>1, <2>2
<1>5. ASSUME NEW c \in Call, WriteRequest(c) \/ CancelOrder(c) PROVE Owed'
  <2>1. End(c) /\ UNCHANGED <<receipt, invoice, payable>>
    BY <1>5 DEF WriteRequest, CancelOrder
  <2>2. Rows
    BY <1>0, <2>1, RowsOwe DEF Opened
  <2> QED BY <1>1, <2>1, <2>2
<1>6. ASSUME NEW c \in Call, Receive(c) PROVE Owed'
  <2>1. Rows
    BY <1>0, <1>6, ReceiveOwes
  <2>2. Goto(c, "owing") /\ \A d \in Call \ {c} : task'[d] = task[d]
    BY <1>6 DEF Receive, GoOn, TypeInv, TypeOK
  <2> QED BY <1>1, <2>1, <2>2 DEF PC
<1>7. ASSUME NEW c \in Call, FindInvoice(c) PROVE Owed'
  <2>1. PICK k \in ReceiptKey : k = task[c].key /\ receipt[k].purchase \in Purchase
    BY <1>7 DEF FindInvoice, TypeInv, Carries
  <2>2. UNCHANGED tables /\ Rows
    BY <1>2, <1>7 DEF FindInvoice
  <2>3. CASE Goto(c, "opening") /\ UNCHANGED task
    BY <1>1, <2>2, <2>3 DEF PC
  <2>4. ASSUME NEW o \in InvoicePayables(receipt[k].purchase),
               GoOn(c, "attaching", [task[c] EXCEPT !.payable = o])
        PROVE  Owed'
    <3>1. PICK i \in Invoice :
            invoice[i].payable = o /\ invoice[i].payable # NULL /\ invoice[i].purchase = receipt[k].purchase
      BY DEF InvoicePayables
    <3>2. o \in Origin
      BY <3>1 DEF TypeInv, TypeOK
    <3>3. Posted(k) /\ Opened(o)
      BY <2>1, <3>1, ConstantsAssumption DEF Owed, OwesInvoice, Posted
    <3>4. Founded(k, o)
      BY <3>1, <3>3 DEF Founded, Reason
    <3>5. Founded(k, o)'
      BY <2>2, <3>2, <3>4, ReasonStays
    <3>6. [task[c] EXCEPT !.payable = o].key = k /\ [task[c] EXCEPT !.payable = o].payable = o
      BY <2>1 DEF TypeInv, TypeOK, Task
    <3>7. /\ pc'[c] = "attaching" /\ task'[c].key = k /\ task'[c].payable = o
          /\ \A d \in Call \ {c} : pc'[d] = pc[d] /\ task'[d] = task[d]
      BY <2>4, <3>6 DEF GoOn, Goto, TypeInv, TypeOK
    <3> QED BY <1>3, <2>2, <3>2, <3>5, <3>7
  <2> QED BY <1>7, <2>1, <2>3, <2>4 DEF FindInvoice
<1>8. ASSUME NEW c \in Call, OpenForReceipt(c) PROVE Owed'
  <2>1. PICK k \in ReceiptKey : k = task[c].key /\ receipt[k].purchase \in Purchase
    BY <1>8 DEF OpenForReceipt, TypeInv, Carries
  <2>2. k \in Origin /\ k \notin Invoice /\ Posted(k)
    BY <2>1, ConstantsAssumption DEF Origin, Posted
  <2>3. /\ OpenPayable(k, receipt[k].quantity, FALSE) /\ UNCHANGED documents
        /\ GoOn(c, "attaching", [task[c] EXCEPT !.payable = k])
    BY <1>8, <2>1 DEF OpenForReceipt
  <2>4. Rows /\ Opened(k)'
    BY <1>0, <2>2, <2>3, OpenOwes DEF documents
  <2>5. Founded(k, k)'
    BY <2>2, <2>4, PostedStays DEF Founded, Reason
  <2>6. [task[c] EXCEPT !.payable = k].key = k /\ [task[c] EXCEPT !.payable = k].payable = k
    BY <2>1 DEF TypeInv, TypeOK, Task
  <2>7. /\ pc'[c] = "attaching" /\ task'[c].key = k /\ task'[c].payable = k
        /\ \A d \in Call \ {c} : pc'[d] = pc[d] /\ task'[d] = task[d]
    BY <2>3, <2>6 DEF GoOn, Goto, TypeInv, TypeOK
  <2> QED BY <1>3, <2>2, <2>4, <2>5, <2>7
<1>9. ASSUME NEW c \in Call, Attach(c) PROVE Owed'
  <2>1. Rows /\ End(c)
    BY <1>0, <1>9, AttachOwes DEF Attach
  <2> QED BY <1>1, <2>1
<1>10. ASSUME NEW c \in Call, Prepare(c) PROVE Owed'
  <2>1. PICK i \in Invoice : i = task[c].invoice /\ invoice[i].status = "DRAFT" /\ AmountMatches(i)
    BY <1>10 DEF Prepare, TypeInv, Carries
  <2>2. OwesInvoice(i) /\ UNCHANGED <<receipt, payable>>
    BY <1>10 DEF Owed, Prepare
  <2>3. CASE ReceiptPayable(i) # NULL /\ invoice' = [invoice EXCEPT ![i] = Validated(i, ReceiptPayable(i))]
             /\ End(c)
    <3>1. PICK k \in ReceiptKey : k = invoice[i].receipt
      BY <2>3 DEF ReceiptPayable, TypeInv, TypeOK
    <3>2. PICK o \in Origin : o = ReceiptPayable(i)
      BY <2>3, <3>1 DEF ReceiptPayable, TypeInv, TypeOK
    <3>3. Opened(o) /\ invoice[i].receipt # NULL /\ invoice[i].payable = NULL
      BY <2>1, <2>2, <2>3, <3>1, <3>2 DEF ReceiptPayable, Owed, OwesReceipt, OwesInvoice, Founded
    <3>4. Rows
      BY <1>0, <2>1, <2>2, <2>3, <3>2, <3>3, ValidatedOwes
    <3> QED BY <1>1, <2>3, <3>4
  <2>4. CASE GoOn(c, "invoicing", [NoTask EXCEPT !.invoice = i]) /\ UNCHANGED invoice
    <3>1. Rows
      BY <1>0, <2>2, <2>4, RowsOwe DEF Opened
    <3>2. /\ pc'[c] = "invoicing" /\ task'[c].invoice = i
          /\ \A d \in Call \ {c} : pc'[d] = pc[d] /\ task'[d] = task[d]
      BY <2>4 DEF GoOn, Goto, NoTask, TypeInv, TypeOK
    <3>3. AmountMatches(i)'
      BY <2>1, <3>1, MatchesStays
    <3>4. Due(c)'
      BY <3>2, <3>3 DEF Due, AmountMatches
    <3> QED BY <3>1, <3>2, <3>4, MoverOwes DEF Owed
  <2> QED BY <1>10, <2>1, <2>3, <2>4 DEF Prepare
<1>11. ASSUME NEW c \in Call, OpenForInvoice(c) PROVE Owed'
  <2>1. PICK i \in Invoice : i = task[c].invoice /\ invoice[i].status # "NONE"
    BY <1>11 DEF OpenForInvoice, TypeInv, Carries
  <2>2. i \in Origin /\ i \notin ReceiptKey /\ AmountMatches(i)
    BY <1>11, <2>1, ConstantsAssumption DEF Origin, OpenForInvoice, Owed, Due
  <2>3. OpenPayable(i, invoice[i].amount, FALSE) /\ UNCHANGED documents /\ Goto(c, "validating") /\ task' = task
    BY <1>11, <2>1 DEF OpenForInvoice
  <2>4. Rows /\ Opened(i)'
    BY <1>0, <2>1, <2>2, <2>3, OpenOwes DEF documents
  <2>5. AmountMatches(i)'
    BY <2>1, <2>2, <2>4, MatchesStays
  <2>6. /\ pc'[c] = "validating" /\ task'[c].invoice = i
        /\ \A d \in Call \ {c} : pc'[d] = pc[d] /\ task'[d] = task[d]
    BY <2>1, <2>3 DEF Goto, TypeInv, TypeOK
  <2>7. Due(c)'
    BY <2>4, <2>5, <2>6 DEF Due, AmountMatches, Opened
  <2> QED BY <2>4, <2>6, <2>7, MoverOwes DEF Owed
<1>12. ASSUME NEW c \in Call, Validate(c) PROVE Owed'
  <2>1. PICK i \in Invoice : i = task[c].invoice /\ invoice[i].status # "NONE"
    BY <1>12 DEF Validate, TypeInv, Carries
  <2>2. i \in Origin /\ Opened(i) /\ AmountMatches(i) /\ UNCHANGED <<receipt, payable>>
    BY <1>12, <2>1 DEF Validate, Origin, Owed, Due
  <2>3. Rows
    <3>1. CASE invoice[i].payable = NULL
      BY <1>0, <1>12, <2>1, <2>2, <3>1, ValidatedOwes DEF Validate
    <3>2. CASE invoice[i].payable # NULL
      BY <1>0, <1>12, <2>1, <2>2, <3>2, RowsOwe DEF Validate, Opened
    <3> QED BY <3>1, <3>2
  <2>4. CASE End(c)
    BY <1>1, <2>3, <2>4
  <2>5. CASE /\ invoice[i].receipt # NULL
             /\ GoOn(c, "attaching", [NoTask EXCEPT !.key = invoice[i].receipt, !.payable = i])
    <3>1. PICK k \in ReceiptKey : k = invoice[i].receipt
      BY <2>5 DEF TypeInv, TypeOK
    <3>2. Founded(k, i)
      BY <2>1, <2>2, <2>5, <3>1 DEF Owed, OwesInvoice, Founded, Reason
    <3>3. Founded(k, i)'
      BY <2>2, <2>3, <3>2, ReasonStays
    <3>4. /\ pc'[c] = "attaching" /\ task'[c].key = k /\ task'[c].payable = i
          /\ \A d \in Call \ {c} : pc'[d] = pc[d] /\ task'[d] = task[d]
      BY <2>5, <3>1 DEF GoOn, Goto, NoTask, TypeInv, TypeOK
    <3> QED BY <1>3, <2>2, <2>3, <3>3, <3>4
  <2> QED BY <1>12, <2>1, <2>4, <2>5 DEF Validate
<1>13. ASSUME Rows, UNCHANGED <<pc, task>> PROVE Owed'
  BY <1>13, CallOwes DEF Owed
<1>14. ASSUME NEW i \in Invoice, CreateInvoice(i) PROVE Owed'
  BY <1>0, <1>13, <1>14, CreateOwes DEF CreateInvoice
<1>15. ASSUME NEW o \in Origin, Pay(o) \/ Reverse(o) \/ CancelPayable(o) PROVE Owed'
  <2>1. UNCHANGED <<documents, pc, task>>
    BY <1>15 DEF Pay, Reverse, CancelPayable
  <2>2. payable[o].lifecycle = "ACTIVE"
    BY <1>15 DEF Pay, Reverse, CancelPayable
  <2>3. PICK row : /\ payable' = [payable EXCEPT ![o] = row]
                   /\ row.principal = payable[o].principal /\ row.byClient = payable[o].byClient
                   /\ row.lifecycle \in {"ACTIVE", "CANCELLED"}
    <3>1. payable[o] \in PayableRow
      BY DEF TypeInv, TypeOK, PayableRow
    <3>2. ASSUME NEW n, payable' = [payable EXCEPT ![o] = [payable[o] EXCEPT !.paid = n]]
          PROVE  \E row : /\ payable' = [payable EXCEPT ![o] = row]
                          /\ row.principal = payable[o].principal /\ row.byClient = payable[o].byClient
                          /\ row.lifecycle \in {"ACTIVE", "CANCELLED"}
      <4>1. /\ [payable[o] EXCEPT !.paid = n].principal = payable[o].principal
            /\ [payable[o] EXCEPT !.paid = n].byClient = payable[o].byClient
            /\ [payable[o] EXCEPT !.paid = n].lifecycle = "ACTIVE"
        BY <2>2, <3>1 DEF PayableRow
      <4> QED BY <3>2, <4>1
    <3>3. /\ [payable[o] EXCEPT !.lifecycle = "CANCELLED"].principal = payable[o].principal
          /\ [payable[o] EXCEPT !.lifecycle = "CANCELLED"].byClient = payable[o].byClient
          /\ [payable[o] EXCEPT !.lifecycle = "CANCELLED"].lifecycle = "CANCELLED"
      BY <3>1 DEF PayableRow
    <3>4. CASE Pay(o)
      BY <3>2, <3>4 DEF Pay
    <3>5. CASE Reverse(o)
      BY <3>2, <3>5 DEF Reverse
    <3>6. CASE CancelPayable(o)
      BY <3>3, <3>6 DEF CancelPayable
    <3> QED BY <1>15, <3>4, <3>5, <3>6
  <2>4. \A x \in Origin : /\ Opened(x)' <=> Opened(x)
                          /\ payable'[x].principal = payable[x].principal
                          /\ payable'[x].byClient = payable[x].byClient
    BY <2>2, <2>3 DEF Opened, TypeInv, TypeOK
  <2>5. Rows
    BY <1>0, <2>1, <2>4, RowsOwe DEF documents
  <2> QED BY <1>13, <2>1, <2>5
<1>16. ASSUME NEW o \in Origin, OpenByClient(o) PROVE Owed'
  <2>1. PICK n \in Amount : OpenPayable(o, n, TRUE) /\ UNCHANGED <<documents, pc, task>>
    BY <1>16 DEF OpenByClient
  <2>2. Rows
    BY <1>0, <2>1, OpenOwes DEF documents
  <2> QED BY <1>13, <2>1, <2>2
<1>17. CASE UNCHANGED vars
  <2>1. UNCHANGED tables /\ UNCHANGED <<pc, task>>
    BY <1>17 DEF vars
  <2> QED BY <1>2, <1>13, <2>1
<1> HIDE DEF Rows
<1> QED BY <1>4, <1>5, <1>6, <1>7, <1>8, <1>9, <1>10, <1>11, <1>12, <1>14, <1>15, <1>16, <1>17 DEF Next

LEMMA AttachedSum ==
  \A o \in Origin : Attached(o) = Sum(receipt, {k \in ReceiptKey : receipt[k].payable = o})
BY Zenon DEF Attached, MapThenSumSet, MapThenFoldSet, Sum, Adds, Some

\* At most one receipt, and worth what it brought in
LEMMA OneReceipt ==
  ASSUME TypeInv, NEW k \in ReceiptKey, NEW A \in SUBSET {k}
  PROVE  Sum(receipt, A) <= receipt[k].quantity
<1>1. IsFiniteSet({k}) /\ receipt[k].quantity \in Nat
  BY FS_Singleton DEF TypeInv, TypeOK
<1>2. Sum(receipt, {k}) = receipt[k].quantity + Sum(receipt, {k} \ {k})
  BY <1>1, SumLess
<1>3. Sum(receipt, {}) = 0 /\ {k} \ {k} = {}
  BY FS_EmptySet, SumDef
<1>4. Sum(receipt, A) <= Sum(receipt, {k})
  BY <1>1, SumPart
<1> QED BY <1>1, <1>2, <1>3, <1>4

LEMMA OwedWorth == IInv /\ Shows /\ Owed => GoodsAreOwed
<1> SUFFICES ASSUME IInv, Shows, Owed, NEW o \in Origin,
                    \A i \in Invoice : invoice[i].payable = o =>
                      invoice[i].purchase = NULL \/ invoice[i].receipt = NULL
             PROVE  ~(Attached(o) > IF payable[o].byClient THEN Worth(o) ELSE payable[o].principal)
  BY DEF GoodsAreOwed
<1> DEFINE A == {k \in ReceiptKey : receipt[k].payable = o}
           W == IF payable[o].byClient THEN Worth(o) ELSE payable[o].principal
<1>0. TypeInv
  BY DEF IInv
<1>1. /\ W \in Nat /\ Attached(o) = Sum(receipt, A)
      /\ IsFiniteSet(A) /\ Sum(receipt, A) \in Nat
  <2>1. IsFiniteSet(A) /\ \A k \in A : receipt[k].quantity \in Nat
    BY <1>0, Quantities
  <2>2. Attached(o) = Sum(receipt, A)
    BY AttachedSum
  <2>3. W \in Nat
    BY <1>0 DEF Worth, Origin, TypeInv, TypeOK
  <2> HIDE DEF A, W
  <2> QED BY <2>1, <2>2, <2>3, SumNat
<1>2. SUFFICES ASSUME A # {} PROVE Sum(receipt, A) <= W
  <2>1. Sum(receipt, {}) = 0
    BY FS_EmptySet, SumDef
  <2> HIDE DEF A
  <2> QED BY <1>1, <2>1
\* An invoice whose payable this is and that names an order is for no receipt,
\* and so has a payable of its own.
<1>3. ASSUME NEW k \in A
      PROVE  /\ Posted(k) /\ Opened(o)
             /\ \/ o = k
                \/ /\ o \in Invoice /\ AmountMatches(o)
                   /\ \/ invoice[o].receipt = k
                      \/ invoice[o].receipt = NULL /\ invoice[o].purchase = receipt[k].purchase
  <2>1. Founded(k, o)
    BY ConstantsAssumption DEF Owed, OwesReceipt, Origin
  <2>2. ASSUME NEW i \in Invoice, invoice[i].payable = o, invoice[i].purchase = receipt[k].purchase
        PROVE  i = o /\ invoice[o].receipt = NULL /\ AmountMatches(o)
    <3>1. invoice[i].receipt = NULL
      BY <2>1, <2>2 DEF Founded, Posted
    <3>2. invoice[i].payable = i /\ AmountMatches(i)
      BY <2>2, <3>1, ConstantsAssumption DEF Owed, OwesInvoice, Origin
    <3> QED BY <2>2, <3>1, <3>2
  <2> QED BY <2>1, <2>2 DEF Founded, Reason
<1>4. CASE o \in ReceiptKey
  <2>1. A \in SUBSET {o}
    BY <1>3, <1>4, ConstantsAssumption
  <2>2. W = receipt[o].quantity
    BY <1>2, <1>3, <1>4 DEF Owed, OwesReceipt, Worth
  <2> QED BY <1>0, <1>4, <2>1, <2>2, OneReceipt
<1>5. CASE o \in Invoice
  <2>2. o \notin ReceiptKey
    BY <1>5, ConstantsAssumption
  <2>1. W = invoice[o].amount /\ AmountMatches(o)
    BY <1>2, <1>3, <1>5, <2>2 DEF Owed, OwesInvoice, Worth
  <2>3. CASE invoice[o].receipt # NULL
    <3>1. PICK k \in ReceiptKey : k = invoice[o].receipt
      BY <1>0, <1>5, <2>3 DEF TypeInv, TypeOK
    <3>2. A \in SUBSET {k}
      BY <1>3, <2>2, <2>3, <3>1
    <3>3. W = receipt[k].quantity
      BY <2>1, <2>3, <3>1 DEF AmountMatches
    <3> QED BY <1>0, <3>2, <3>3, OneReceipt
  <2>4. CASE invoice[o].receipt = NULL
    <3>1. PICK p \in Purchase : p = invoice[o].purchase /\ A \in SUBSET ReceiptsOf(p)
      <4>1. PICK k \in A : TRUE
        BY <1>2
      <4>2. invoice[o].purchase = receipt[k].purchase /\ receipt[k].purchase \in Purchase
        BY <1>0, <1>3, <2>2, <2>4, ConstantsAssumption DEF Posted, TypeInv, TypeOK, Origin
      <4>3. \A j \in A : invoice[o].purchase = receipt[j].purchase
        BY <1>3, <2>2, <2>4, ConstantsAssumption DEF Origin
      <4> QED BY <4>2, <4>3 DEF ReceiptsOf
    <3>2. W = Ordered[p]
      BY <2>1, <2>4, <3>1, ConstantsAssumption DEF AmountMatches
    <3>3. IsFiniteSet(ReceiptsOf(p)) /\ \A k \in ReceiptsOf(p) : receipt[k].quantity \in Nat
      BY <1>0, Quantities DEF ReceiptsOf
    <3>4. Sum(receipt, A) <= Sum(receipt, ReceiptsOf(p))
      BY <3>1, <3>3, SumPart
    <3>5. order[p].received = Sum(receipt, ReceiptsOf(p)) /\ order[p].received <= Ordered[p]
      BY ShowsSum DEF Shows, IInv, OrderInv, WithinOrdered
    <3>6. order[p].received \in Nat /\ Ordered[p] \in Nat
      BY <1>0, ConstantsAssumption DEF TypeInv, TypeOK
    <3> HIDE DEF A
    <3> QED BY <1>1, <3>2, <3>4, <3>5, <3>6
  <2> QED BY <2>3, <2>4
<1> QED BY <1>4, <1>5 DEF Origin

\* The goods attached to a payable are worth no more than its principal or, where
\* a client had opened it with a principal of its own choice, than the receipt or
\* the invoice it is for; but for the invoices that name an order and one of its
\* receipts.  So it is however receipts, validations, payables that clients open
\* at any time and the crashes between transactions interleave.
THEOREM PayablesAreWorthTheGoods == Spec => []GoodsAreOwed
<1> DEFINE Inv == IInv /\ Shows /\ Owed
<1>1. Init => Inv
  BY InitInv, InitShows, InitOwed
<1>2. Inv /\ [Next]_vars => Inv'
  BY StepInv, StepShows, StepOwed DEF IInv
<1>3. Inv => GoodsAreOwed
  BY OwedWorth
<1> HIDE DEF Inv
<1> QED BY <1>1, <1>2, <1>3, PTL DEF Spec

=============================================================================
