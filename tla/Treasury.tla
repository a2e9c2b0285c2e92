------------------------------ MODULE Treasury ------------------------------
(***************************************************************************)
(* Treasury (apps/api/src/finance): financial accounts, their movements,   *)
(* transfers between them and the reversals of both.                       *)
(*                                                                         *)
(* Every operation is one transaction that locks rows (SELECT ... FOR      *)
(* UPDATE) one after the other, checks, writes and commits; the locks go   *)
(* with the transaction.  The model takes the locks row by row, so that    *)
(* transactions wait for each other as they do in PostgreSQL.              *)
(*                                                                         *)
(* A caller repeats a call under its idempotency key.  A movement is named *)
(* by that key and its account; the opening balance has the key NULL.      *)
(***************************************************************************)
EXTENDS Integers, FiniteSets

CONSTANTS
  Account,
  Rank,       \* the order of account ids (compareIds)
  Overdraft,  \* accounts with overdraft_allowed
  Opening,    \* opening balance of an account
  Key,        \* idempotency keys, each for one order of a caller
  Amount,     \* amounts that callers ask for
  Request,    \* calls that may be under way at once
  NULL

Id == (Key \union {NULL}) \X Account

Post == {"credit", "debit"}
Op == Post \union {"transfer", "reverseMovement", "reverseTransfer"}

\* An order: its account (from), its second one (to, or the same), its amount
\* and the movement or the transfer it reverses.
Order == [op : Op, account : Account, to : Account, amount : Nat,
          target : Id \union Key \union {NULL}]

ASSUME ConstantsAssumption ==
  /\ Rank \in [Account -> Nat]
  /\ \A a, b \in Account : Rank[a] = Rank[b] => a = b
  /\ Overdraft \subseteq Account
  /\ Opening \in [Account -> Nat]
  /\ Amount \subseteq Nat \ {0}
  /\ NULL \notin Key \union Account \union Request \union Id \union Order

VARIABLES
  order,       \* what a caller wants under a key, NULL as long as it is unused
  movement,    \* rows of fin.financial_transactions, amount 0 for no row
  balance,     \* derivedBalance of an account's movements
  reversal,    \* key of the transfer that reverses a transfer
  rowVersion,  \* row_version of an account
  pc,          \* where a call stands
  key,         \* its idempotency key
  seen,        \* the row versions its caller has read
  held,        \* the rows it has locked
  found        \* what its statements have read of balances and reversals

tables == <<movement, balance, reversal, rowVersion>>
vars == <<order, tables, pc, key, seen, held, found>>

Movement == [amount : Int, reversed : Nat]
NoMovement == [amount |-> 0, reversed |-> 0]
Posted(id) == movement[id].amount # 0

PC == {"idle", "locking", "checking", "writing"}

Unseen == [a \in Account |-> 0]
Nothing == [funds |-> {}, left |-> {}]

\* openAccount, with the opening balance as a movement
Init ==
  /\ order = [k \in Key |-> NULL]
  /\ movement = [id \in Id |-> IF id[1] = NULL
                               THEN [NoMovement EXCEPT !.amount = Opening[id[2]]]
                               ELSE NoMovement]
  /\ balance = Opening
  /\ reversal = [k \in Key |-> NULL]
  /\ rowVersion = [a \in Account |-> 1]
  /\ pc = [r \in Request |-> "idle"]
  /\ key = [r \in Request |-> NULL]
  /\ seen = [r \in Request |-> Unseen]
  /\ held = [r \in Request |-> {}]
  /\ found = [r \in Request |-> Nothing]

-----------------------------------------------------------------------------
\* Orders

OrderOf(r) == order[key[r]]
Accounts(o) == {o.account, o.to}

\* The account that an order takes money from, if any.  A reversal moves in
\* the direction opposite to what it reverses.
Debited(o) ==
  {a \in Accounts(o) : \/ o.op \in {"debit", "transfer"} /\ a = o.account
                       \/ o.op = "reverseTransfer" /\ a = o.to
                       \/ o.op = "reverseMovement" /\ movement[o.target].amount > 0}

Change(o, a) ==
  IF a \notin Accounts(o) THEN 0 ELSE IF a \in Debited(o) THEN -o.amount ELSE o.amount

\* The movements that an order reverses
Undone(o) ==
  {id \in Id : \/ o.op = "reverseMovement" /\ id = o.target
               \/ o.op = "reverseTransfer" /\ id[1] = o.target /\ id[2] \in Accounts(o)}

\* The movement whose reversals are counted.  A transfer is reversed as a whole,
\* and only once.
Questioned(o) == IF o.op = "reverseMovement" THEN {o.target} ELSE {}

\* What is left to reverse (reversalCapacity)
Capacity(id) ==
  (IF movement[id].amount < 0 THEN -movement[id].amount ELSE movement[id].amount)
    - movement[id].reversed

Done(k) == order[k] # NULL /\ Posted(<<k, order[k].account>>)

\* The movement has a transfer_id.
IsLeg(id) == id[1] # NULL /\ order[id[1]].op \in {"transfer", "reverseTransfer"}

PostOrders ==
  {[op |-> p, account |-> a, to |-> a, amount |-> m, target |-> NULL] :
     p \in Post, a \in Account, m \in Amount}

TransferOrders ==
  {o \in [op : {"transfer"}, account : Account, to : Account, amount : Amount, target : {NULL}] :
     o.account # o.to}

\* Legs of a transfer are reversed with it (TREASURY_REVERSE_VIA_TRANSFER).
MovementReversals ==
  {[op |-> "reverseMovement", account |-> id[2], to |-> id[2], amount |-> m, target |-> id] :
     id \in {i \in Id : Posted(i) /\ ~IsLeg(i)}, m \in Amount}

TransferReversals ==
  {[order[k] EXCEPT !.op = "reverseTransfer", !.target = k] :
     k \in {l \in Key : Done(l) /\ order[l].op = "transfer"}}

-----------------------------------------------------------------------------
\* Locks

AccountRow(a) == <<"account", a>>
MovementRow(id) == <<"movement", id>>
TransferRow(k) == <<"transfer", k>>
Row == {AccountRow(a) : a \in Account} \union {MovementRow(id) : id \in Id}
         \union {TransferRow(k) : k \in Key}

TargetRows(o) ==
  CASE o.op = "reverseMovement" -> {MovementRow(o.target)}
    [] o.op = "reverseTransfer" -> {TransferRow(o.target)}
    [] OTHER -> {}

\* mutant: a reversal relies on the lock of what it reverses
AccountsOfOthers(o) == IF o.op = "reverseMovement" THEN {} ELSE Accounts(o)

\* The accounts an order locks
AccountsLocked(o) == Accounts(o)

\* mutant: accounts are locked from source to destination
FromTo(o, A) == IF o.account \in A THEN {o.account} ELSE A

\* The account to lock next, in the order of ids
InOrder(o, A) == {a \in A : \A b \in A : Rank[a] <= Rank[b]}

\* lockMovements for the account to debit, and the reversals of what is reversed
MovementRows(o) ==
  {MovementRow(id) : id \in {i \in Id :
     /\ Posted(i)
     /\ \/ i[2] \in Debited(o)
        \/ /\ o.op = "reverseMovement"
           /\ i[1] # NULL /\ order[i[1]].target = o.target}}

\* The rows that the call's next statement locks
Wanted(r) ==
  LET o == OrderOf(r)
      unlocked == {a \in AccountsLocked(o) : AccountRow(a) \notin held[r]}
  IN
  CASE pc[r] = "locking" ->
         IF TargetRows(o) \ held[r] # {} THEN TargetRows(o) \ held[r]
         ELSE {AccountRow(a) : a \in InOrder(o, unlocked)}
    [] pc[r] = "checking" -> MovementRows(o) \ held[r]
    [] OTHER -> {}

Free(x) == \A r \in Request : x \notin held[r]

\* r waits for a row that s has locked.
WaitsFor(r, s) == r # s /\ Wanted(r) \intersect held[s] # {}

-----------------------------------------------------------------------------
\* Calls

\* A caller orders something, or repeats an order, with the versions it has read.
Begin(r) ==
  /\ pc[r] = "idle"
  /\ \E k \in Key :
       \E o \in IF order[k] # NULL THEN {order[k]}
                ELSE PostOrders \union TransferOrders \union MovementReversals
                       \union TransferReversals :
         /\ order' = [order EXCEPT ![k] = o]
         /\ key' = [key EXCEPT ![r] = k]
         /\ seen' = [seen EXCEPT ![r] =
                       [a \in Account |-> IF a \in Accounts(o) THEN rowVersion[a] ELSE 0]]
  /\ pc' = [pc EXCEPT ![r] = "locking"]
  /\ UNCHANGED <<tables, held, found>>

\* The transaction ends: its locks are gone.
End(r) ==
  /\ pc' = [pc EXCEPT ![r] = "idle"]
  /\ key' = [key EXCEPT ![r] = NULL]
  /\ seen' = [seen EXCEPT ![r] = Unseen]
  /\ held' = [held EXCEPT ![r] = {}]
  /\ found' = [found EXCEPT ![r] = Nothing]
  /\ UNCHANGED order

\* TREASURY_ALREADY_REVERSED, found under the lock of the transfer
ReversedUnderOtherKey(r) ==
  /\ OrderOf(r).op = "reverseTransfer"
  /\ TargetRows(OrderOf(r)) \subseteq held[r]
  /\ reversal[OrderOf(r).target] \notin {NULL, key[r]}

Lock(r) ==
  /\ pc[r] \in {"locking", "checking"}
  /\ ~ReversedUnderOtherKey(r)
  /\ \E x \in Wanted(r) : Free(x) /\ held' = [held EXCEPT ![r] = @ \union {x}]
  /\ UNCHANGED <<order, tables, pc, key, seen, found>>

RefuseReversed(r) ==
  /\ pc[r] = "locking"
  /\ ReversedUnderOtherKey(r)
  /\ End(r)
  /\ UNCHANGED tables

AccountsAreLocked(r) ==
  pc[r] = "locking" /\ ~ReversedUnderOtherKey(r) /\ Wanted(r) = {}

\* The order was carried out before; the call returns what it posted.
Replay(r) ==
  /\ AccountsAreLocked(r)
  /\ Done(key[r])
  /\ End(r)
  /\ UNCHANGED tables

\* classifyRowVersion, for every account of the order
UpToDate(r) == \A a \in Accounts(OrderOf(r)) : seen[r][a] = rowVersion[a]

RefuseStale(r) ==
  /\ AccountsAreLocked(r)
  /\ ~Done(key[r])
  /\ ~UpToDate(r)
  /\ End(r)
  /\ UNCHANGED tables

\* The statements that read the movements see the rows committed when they
\* start: what others insert while they wait for a row's lock is not among them.
Verify(r) ==
  LET o == OrderOf(r) IN
  /\ AccountsAreLocked(r)
  /\ ~Done(key[r])
  /\ UpToDate(r)
  /\ pc' = [pc EXCEPT ![r] = "checking"]
  /\ found' = [found EXCEPT ![r] = [funds |-> {balance[a] : a \in Debited(o) \ Overdraft},
                                   left |-> {Capacity(id) : id \in Questioned(o)}]]
  /\ UNCHANGED <<order, tables, key, seen, held>>

\* mutant: a reversal does not ask what was reversed before
FitsAlways(r) == OrderOf(r).amount > 0

\* assertReversalAmount
FitsCapacity(r) == \A c \in found[r].left : OrderOf(r).amount <= c

\* assertSufficientBalance
Sufficient(r) == \A f \in found[r].funds : OrderOf(r).amount <= f

Check(r) ==
  /\ pc[r] = "checking"
  /\ Wanted(r) = {}
  /\ FitsCapacity(r)
  /\ Sufficient(r)
  /\ pc' = [pc EXCEPT ![r] = "writing"]
  /\ UNCHANGED <<order, tables, key, seen, held, found>>

RefuseAmount(r) ==
  /\ pc[r] = "checking"
  /\ Wanted(r) = {}
  /\ ~(FitsCapacity(r) /\ Sufficient(r))
  /\ End(r)
  /\ UNCHANGED tables

\* mutant: a partial reversal keeps what is left instead of what is reversed
KeepRest(o, m) == [m EXCEPT !.reversed = @ - o.amount]

\* A movement that an order reverses
Reverse(o, m) == [m EXCEPT !.reversed = @ + o.amount]

\* insertMovement, the row of the transfer, bumpAccount and the commit
Write(r) ==
  LET o == OrderOf(r)
      k == key[r]
  IN
  /\ pc[r] = "writing"
  /\ movement' = [id \in Id |->
       IF id[1] = k /\ id[2] \in Accounts(o)
       THEN [amount |-> Change(o, id[2]), reversed |-> 0]
       ELSE IF id \in Undone(o) THEN Reverse(o, movement[id])
       ELSE movement[id]]
  /\ balance' = [a \in Account |-> balance[a] + Change(o, a)]
  /\ reversal' = [l \in Key |-> IF o.op = "reverseTransfer" /\ l = o.target THEN k ELSE reversal[l]]
  /\ rowVersion' = [a \in Account |-> IF a \in Accounts(o) THEN rowVersion[a] + 1 ELSE rowVersion[a]]
  /\ End(r)

\* An error, a lost connection or a crash before the commit: a rollback.
Abort(r) ==
  /\ pc[r] # "idle"
  /\ End(r)
  /\ UNCHANGED tables

-----------------------------------------------------------------------------
Next ==
  \E r \in Request :
    \/ Begin(r)
    \/ Lock(r)
    \/ RefuseReversed(r)
    \/ Replay(r)
    \/ RefuseStale(r)
    \/ Verify(r)
    \/ Check(r)
    \/ RefuseAmount(r)
    \/ Write(r)
    \/ Abort(r)

Spec == Init /\ [][Next]_vars

-----------------------------------------------------------------------------
\* Correctness

TypeOK ==
  /\ order \in [Key -> Order \union {NULL}]
  /\ movement \in [Id -> Movement]
  /\ balance \in [Account -> Int]
  /\ reversal \in [Key -> Key \union {NULL}]
  /\ rowVersion \in [Account -> Nat]
  /\ pc \in [Request -> PC]
  /\ key \in [Request -> Key \union {NULL}]
  /\ seen \in [Request -> [Account -> Nat]]
  /\ held \in [Request -> SUBSET Row]
  /\ found \in [Request -> [funds : SUBSET Int, left : SUBSET Int]]

\* An account without overdraft never goes below zero, whatever debits,
\* transfers and reversals of credits meet on it.
NoOverdraft == \A a \in Account \ Overdraft : balance[a] >= 0

\* What reverses a movement never adds up to more than the movement, in part,
\* in full or through its transfer, whichever calls reverse it at the same time.
ReversalsFit == \A id \in Id : Capacity(id) >= 0

\* Two transactions that wait for each other: one of them is a reversal of a
\* movement, which locks the movement before its account; the other operations
\* lock the accounts first.  Transfers in opposite directions do not meet so.
DeadlockNeedsReversal ==
  \A r, s \in Request :
    WaitsFor(r, s) /\ WaitsFor(s, r) =>
      "reverseMovement" \in {OrderOf(r).op, OrderOf(s).op}

-----------------------------------------------------------------------------
\* The treasury keeps a ledger

LedgerKeys == Key \union {NULL}
Entry == [k \in LedgerKeys |-> [a \in Account |-> movement[<<k, a>>].amount]]
Reversed == [k \in LedgerKeys |-> [a \in Account |-> movement[<<k, a>>].reversed]]

Books == INSTANCE Ledger WITH entry <- Entry, undone <- Reversed

\* Calls that overlap post as if they came one after the other: what each has
\* read of balances and reversals is still so when it commits, a key posts once,
\* and a transfer is posted and reversed as a whole.
KeepsLedger == Books!Spec

=============================================================================
