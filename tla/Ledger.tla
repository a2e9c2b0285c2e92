------------------------------- MODULE Ledger -------------------------------
(***************************************************************************)
(* What the treasury promises to those who post: a book in which entries   *)
(* are made one at a time, with no call, lock or row version in it.  Under *)
(* a key one entry is made, once.  It takes from no account more than is   *)
(* there at that moment, leaves in total what was there when it moves      *)
(* money between accounts, and when it undoes another it undoes no more of *)
(* it than is left.                                                        *)
(***************************************************************************)
EXTENDS Integers

CONSTANTS Account, Overdraft, Opening, Key, Amount, NULL

VARIABLES
  entry,    \* what is posted under a key to each account; NULL for the opening
  undone,   \* how much of that was reversed
  balance

Zero == [a \in Account |-> 0]
Single(a, m) == [Zero EXCEPT ![a] = m]
Abs(n) == IF n < 0 THEN -n ELSE n

Init ==
  /\ entry = [k \in Key \union {NULL} |-> IF k = NULL THEN Opening ELSE Zero]
  /\ undone = [k \in Key \union {NULL} |-> Zero]
  /\ balance = Opening

Enter(k, posting) ==
  /\ \A a \in Account \ Overdraft : posting[a] < 0 => balance[a] + posting[a] >= 0
  /\ entry' = [entry EXCEPT ![k] = posting]
  /\ balance' = [a \in Account |-> balance[a] + posting[a]]

Post(k) ==
  \E a \in Account, m \in Amount :
    /\ Enter(k, Single(a, m)) \/ Enter(k, Single(a, -m))
    /\ UNCHANGED undone

Transfer(k) ==
  \E a, b \in Account, m \in Amount :
    /\ a # b
    /\ Enter(k, [Single(a, -m) EXCEPT ![b] = m])
    /\ UNCHANGED undone

\* The opening of an account, or all that is posted under a key
Alone(l, a) == l # NULL => \A b \in Account \ {a} : entry[l][b] = 0

ReversePart(k) ==
  \E l \in Key \union {NULL}, a \in Account, m \in Amount :
    /\ Alone(l, a)
    /\ undone[l][a] + m <= Abs(entry[l][a])
    /\ Enter(k, Single(a, IF entry[l][a] > 0 THEN -m ELSE m))
    /\ undone' = [undone EXCEPT ![l][a] = @ + m]

\* A transfer is undone as a whole and by its opposite.
ReverseTransfer(k) ==
  \E l \in Key :
    /\ \A a \in Account : ~Alone(l, a)
    /\ undone[l] = Zero
    /\ Enter(k, [a \in Account |-> -entry[l][a]])
    /\ undone' = [undone EXCEPT ![l] = [a \in Account |-> Abs(entry[l][a])]]

\* A key that has made no entry makes one.
Next ==
  \E k \in Key :
    /\ entry[k] = Zero /\ entry'[k] # Zero
    /\ Post(k) \/ Transfer(k) \/ ReversePart(k) \/ ReverseTransfer(k)

Spec == Init /\ [][Next]_<<entry, undone, balance>>

=============================================================================
