------------------------- MODULE BankReconciliation -------------------------
(***************************************************************************)
(* Bank import and reconciliation (apps/api/src/finance): lines of bank    *)
(* files, the movements of the treasury they may stand for, and the        *)
(* reconciliations that a person confirms.                                 *)
(*                                                                         *)
(* Requests share a pool of database clients.  A transaction holds one     *)
(* from BEGIN to COMMIT, and several of them ask the pool for a second one *)
(* in between (findActiveByLine, countConfirmedMatchesForLine, listLines). *)
(* A request that waits for a client gives up after                        *)
(* connectionTimeoutMillis.                                                *)
(***************************************************************************)
EXTENDS Naturals, FiniteSets

CONSTANTS
  File,
  LinesOf,     \* the lines of a file, each named by its fingerprint
  Movement,    \* posted movements of the account
  Exact,       \* <<line, movement>> of one direction, amount and day
  Request,
  PoolSize,
  MaxRecons,   \* bound on reconciliations
  NULL

Line == UNION {LinesOf[f] : f \in File}
Recon == 1..MaxRecons
ReconStatus == {"DRAFT", "CONFIRMED", "UNRECONCILED"}

ASSUME ConstantsAssumption ==
  /\ \A f \in File : LinesOf[f] \subseteq Nat
  /\ Exact \subseteq Line \X Movement
  /\ PoolSize \in Nat \ {0}
  /\ MaxRecons \in Nat
  /\ NULL \notin File \union Line \union Movement
  /\ NULL \notin ReconStatus

VARIABLES
  imported,   \* files with a row in fin.bank_statement_imports
  statement,  \* the file whose import stored a line
  match,      \* match_status of a line
  recon,      \* rows of fin.reconciliations with their match
  pc,         \* where a request stands
  task,       \* its transaction
  eligible,   \* movements that autoMatch has read and not used
  todo        \* lines that autoMatch has read and not treated

tables == <<imported, statement, match, recon>>
vars == <<tables, pc, task, eligible, todo>>

\* mutant: the type in the database lacks a status
MatchStatusFirst == {"UNMATCHED", "SUGGESTED", "MATCHED"}

MatchStatus == {"UNMATCHED", "REVIEW_REQUIRED", "SUGGESTED", "MATCHED"}
PC == {"idle", "movements", "lines", "match", "connect", "lock", "work"}
Do == {"import", "review", "suggest", "confirm", "unreconcile"}

\* A transaction: its line, its movement, the reconciliation it changes, the
\* file it imports or whose lines autoMatch treats, and the lines that looked
\* new to it.
Task == [do : Do \union {NULL}, line : Line \union {NULL}, movement : Movement \union {NULL},
         recon : Recon \union {0}, file : File \union {NULL}, fresh : SUBSET Line]
NoTask == [do |-> NULL, line |-> NULL, movement |-> NULL, recon |-> 0,
           file |-> NULL, fresh |-> {}]

NoRecon == [status |-> NULL, line |-> NULL, movement |-> NULL]

Init ==
  /\ imported = {}
  /\ statement = [l \in Line |-> NULL]
  /\ match = [l \in Line |-> "UNMATCHED"]
  /\ recon = [c \in Recon |-> NoRecon]
  /\ pc = [r \in Request |-> "idle"]
  /\ task = [r \in Request |-> NoTask]
  /\ eligible = [r \in Request |-> {}]
  /\ todo = [r \in Request |-> {}]

-----------------------------------------------------------------------------
\* What the statements read

Active(c) == recon[c].status \in {"DRAFT", "CONFIRMED"}
ActiveOn(l) == {c \in Recon : Active(c) /\ recon[c].line = l}
Confirmed(l) == {c \in Recon : recon[c].status = "CONFIRMED" /\ recon[c].line = l}
Taken(m) == \E c \in Recon : Active(c) /\ recon[c].movement = m
Stored(l) == statement[l] # NULL

\* classifyAutoMatch
Candidates(r, l) == {m \in eligible[r] : <<l, m>> \in Exact}

\* The line that autoMatch treats next
FirstLine(L) == {l \in L : \A k \in L : l <= k}

-----------------------------------------------------------------------------
\* Clients of the pool and row locks

Clients(r) == IF pc[r] \in {"lock", "work"} THEN 1 ELSE 0
InUse == Cardinality({r \in Request : Clients(r) = 1})
ClientFree == InUse < PoolSize

\* withLockedLine holds the line's row.
LineLocked(l) == \E r \in Request : pc[r] = "work" /\ task[r].line = l

\* The transaction sends a statement through the pool instead of its own client.
NeedsAnother(r) ==
  LET t == task[r] IN
  \/ t.do = "suggest" /\ match[t.line] # "MATCHED"
  \/ t.do = "confirm"
  \/ t.do = "import" /\ (t.file \in imported \/ t.fresh = {})

Fail(r) ==
  /\ pc' = [pc EXCEPT ![r] = "idle"]
  /\ task' = [task EXCEPT ![r] = NoTask]
  /\ eligible' = [eligible EXCEPT ![r] = {}]
  /\ todo' = [todo EXCEPT ![r] = {}]

Refuse(r) == Fail(r) /\ UNCHANGED tables

StartTask(r, t) ==
  /\ pc' = [pc EXCEPT ![r] = "connect"]
  /\ task' = [task EXCEPT ![r] = t]

\* The transaction is committed: autoMatch goes on, another request is answered.
Committed(r) ==
  IF task[r].file # NULL
  THEN /\ pc' = [pc EXCEPT ![r] = "match"]
       /\ todo' = [todo EXCEPT ![r] = @ \ {task[r].line}]
       /\ eligible' = [eligible EXCEPT ![r] = @ \ {task[r].movement}]
       /\ UNCHANGED task
  ELSE Fail(r)

-----------------------------------------------------------------------------
\* Requests

\* importFile, up to its transaction: what is stored already is left out.
BeginImport(r, f) ==
  /\ pc[r] = "idle" /\ ClientFree
  /\ f \notin imported
  /\ StartTask(r, [NoTask EXCEPT !.do = "import", !.file = f,
                                 !.fresh = {l \in LinesOf[f] : ~Stored(l)}])
  /\ UNCHANGED <<tables, eligible, todo>>

\* autoMatch reads the movements, then the lines, and treats one after the other.
BeginAutoMatch(r, f) ==
  /\ pc[r] = "idle" /\ ClientFree
  /\ \E l \in Line : statement[l] = f
  /\ pc' = [pc EXCEPT ![r] = "movements"]
  /\ task' = [task EXCEPT ![r] = [NoTask EXCEPT !.file = f]]
  /\ UNCHANGED <<tables, eligible, todo>>

\* matchManual does not ask whether the movement is taken.
BeginManual(r, l, m) ==
  /\ pc[r] = "idle" /\ ClientFree
  /\ Stored(l) /\ <<l, m>> \in Exact
  /\ StartTask(r, [NoTask EXCEPT !.do = "suggest", !.line = l, !.movement = m])
  /\ UNCHANGED <<tables, eligible, todo>>

BeginConfirm(r, c) ==
  /\ pc[r] = "idle" /\ ClientFree
  /\ recon[c].status = "DRAFT"
  /\ StartTask(r, [NoTask EXCEPT !.do = "confirm", !.line = recon[c].line, !.recon = c])
  /\ UNCHANGED <<tables, eligible, todo>>

BeginUnreconcile(r, c) ==
  /\ pc[r] = "idle" /\ ClientFree
  /\ recon[c].status = "CONFIRMED"
  /\ StartTask(r, [NoTask EXCEPT !.do = "unreconcile", !.line = recon[c].line, !.recon = c])
  /\ UNCHANGED <<tables, eligible, todo>>

Begin(r) ==
  \/ \E f \in File : BeginImport(r, f) \/ BeginAutoMatch(r, f)
  \/ \E l \in Line, m \in Movement : BeginManual(r, l, m)
  \/ \E c \in Recon : BeginConfirm(r, c) \/ BeginUnreconcile(r, c)

\* listEligibleMovements
ReadMovements(r) ==
  /\ pc[r] = "movements" /\ ClientFree
  /\ eligible' = [eligible EXCEPT ![r] = {m \in Movement : ~Taken(m)}]
  /\ pc' = [pc EXCEPT ![r] = "lines"]
  /\ UNCHANGED <<tables, task, todo>>

\* listLines; those that are matched are skipped.
ReadLines(r) ==
  /\ pc[r] = "lines" /\ ClientFree
  /\ todo' = [todo EXCEPT ![r] =
                {l \in Line : statement[l] = task[r].file /\ match[l] # "MATCHED"}]
  /\ pc' = [pc EXCEPT ![r] = "match"]
  /\ UNCHANGED <<tables, task, eligible>>

\* One turn of autoMatch's loop
NextLine(r) ==
  /\ pc[r] = "match"
  /\ \E l \in FirstLine(todo[r]) :
       LET C == Candidates(r, l)
           t == [task[r] EXCEPT !.line = l, !.movement = NULL]
       IN
       \/ /\ C = {}
          /\ todo' = [todo EXCEPT ![r] = @ \ {l}]
          /\ UNCHANGED <<pc, task>>
       \/ /\ Cardinality(C) = 1
          /\ \E m \in C : StartTask(r, [t EXCEPT !.do = "suggest", !.movement = m])
          /\ UNCHANGED todo
       \/ /\ Cardinality(C) > 1
          /\ StartTask(r, [t EXCEPT !.do = "review"])
          /\ UNCHANGED todo
  /\ UNCHANGED <<tables, eligible>>

EndAutoMatch(r) ==
  /\ pc[r] = "match"
  /\ todo[r] = {}
  /\ Refuse(r)

-----------------------------------------------------------------------------
\* Transactions

Connect(r) ==
  /\ pc[r] = "connect" /\ ClientFree
  /\ pc' = [pc EXCEPT ![r] = IF task[r].do = "import" THEN "work" ELSE "lock"]
  /\ UNCHANGED <<tables, task, eligible, todo>>

LockLine(r) ==
  /\ pc[r] = "lock"
  /\ ~LineLocked(task[r].line)
  /\ pc' = [pc EXCEPT ![r] = "work"]
  /\ UNCHANGED <<tables, task, eligible, todo>>

\* The transaction has the clients it needs to go on.
Working(r, do) ==
  /\ pc[r] = "work"
  /\ task[r].do = do
  /\ NeedsAnother(r) => ClientFree

\* importFile: a line that another import has stored meanwhile is a duplicate,
\* and a file with nothing but such lines is refused (BANK_IMPORT_MALFORMED).
Import(r) ==
  LET f == task[r].file
      new == {l \in task[r].fresh : ~Stored(l)}
  IN
  /\ Working(r, "import")
  /\ f \notin imported
  /\ task[r].fresh = {} \/ new # {}
  /\ imported' = imported \union {f}
  /\ statement' = [l \in Line |-> IF l \in new THEN f ELSE statement[l]]
  /\ pc' = [pc EXCEPT ![r] = "movements"]
  /\ \E s \in IF new # {} THEN {f} ELSE {statement[l] : l \in LinesOf[f]} :
       task' = [task EXCEPT ![r] = [NoTask EXCEPT !.file = s]]
  /\ UNCHANGED <<match, recon, eligible, todo>>

RefuseImport(r) ==
  /\ Working(r, "import")
  /\ \/ task[r].file \in imported
     \/ task[r].fresh # {} /\ \A l \in task[r].fresh : Stored(l)
  /\ Refuse(r)

\* markReviewRequired does not look at the line it has locked.
Review(r) ==
  /\ Working(r, "review")
  /\ match' = [match EXCEPT ![task[r].line] = "REVIEW_REQUIRED"]
  /\ Committed(r)
  /\ UNCHANGED <<imported, statement, recon>>

\* mutant: a line that shows no match is taken for one without a reconciliation
OpenByStatus(l) == match[l] \notin {"MATCHED", "SUGGESTED"}

\* findActiveByLine finds nothing.
Open(l) == match[l] # "MATCHED" /\ ActiveOn(l) = {}

\* suggestExact: insertDraft, with the unique index of active matches per movement
Suggest(r) ==
  LET t == task[r] IN
  /\ Working(r, "suggest")
  /\ Open(t.line)
  /\ ~Taken(t.movement)
  /\ \E c \in Recon :
       /\ recon[c] = NoRecon
       /\ \A d \in 1..(c - 1) : recon[d] # NoRecon
       /\ recon' = [recon EXCEPT ![c] = [status |-> "DRAFT", line |-> t.line, movement |-> t.movement]]
  /\ match' = [match EXCEPT ![t.line] = "SUGGESTED"]
  /\ Committed(r)
  /\ UNCHANGED <<imported, statement>>

\* The line has a draft: it is the answer.
SuggestAgain(r) ==
  LET t == task[r] IN
  /\ Working(r, "suggest")
  /\ match[t.line] # "MATCHED"
  /\ \E c \in ActiveOn(t.line) : recon[c].status = "DRAFT"
  /\ Committed(r)
  /\ UNCHANGED tables

RefuseSuggestion(r) ==
  LET t == task[r] IN
  /\ Working(r, "suggest")
  /\ \/ match[t.line] = "MATCHED"
     \/ Confirmed(t.line) # {}
     \/ Open(t.line) /\ (Taken(t.movement) \/ \A c \in Recon : recon[c] # NoRecon)
  /\ Refuse(r)

\* mutant: a draft is confirmed whatever became of it
ConfirmableAnyway(t) == Confirmed(t.line) = {}

Confirmable(t) == Confirmed(t.line) = {} /\ recon[t.recon].status = "DRAFT"

Confirm(r) ==
  LET t == task[r] IN
  /\ Working(r, "confirm")
  /\ Confirmable(t)
  /\ recon' = [recon EXCEPT ![t.recon].status = "CONFIRMED"]
  /\ match' = [match EXCEPT ![t.line] = "MATCHED"]
  /\ Committed(r)
  /\ UNCHANGED <<imported, statement>>

RefuseConfirm(r) ==
  /\ Working(r, "confirm")
  /\ ~Confirmable(task[r])
  /\ Refuse(r)

Unreconcile(r) ==
  LET t == task[r] IN
  /\ Working(r, "unreconcile")
  /\ recon[t.recon].status = "CONFIRMED"
  /\ recon' = [recon EXCEPT ![t.recon].status = "UNRECONCILED"]
  /\ match' = [match EXCEPT ![t.line] = "UNMATCHED"]
  /\ Committed(r)
  /\ UNCHANGED <<imported, statement>>

RefuseUnreconcile(r) ==
  /\ Working(r, "unreconcile")
  /\ recon[task[r].recon].status # "CONFIRMED"
  /\ Refuse(r)

\* mutant: only the first client of a request is waited for with a timeout
WaitsToConnect(r) == pc[r] = "connect" /\ ~ClientFree

\* A client is asked for and the pool has none.
WaitsForClient(r) ==
  /\ ~ClientFree
  /\ pc[r] \in {"movements", "lines", "connect"} \/ (pc[r] = "work" /\ NeedsAnother(r))

PoolTimeout(r) == WaitsForClient(r) /\ Refuse(r)

\* An error or a lost connection before the commit: a rollback.
Abort(r) == pc[r] # "idle" /\ Refuse(r)

-----------------------------------------------------------------------------
Work(r) ==
  \/ Import(r) \/ RefuseImport(r)
  \/ Review(r)
  \/ Suggest(r) \/ SuggestAgain(r) \/ RefuseSuggestion(r)
  \/ Confirm(r) \/ RefuseConfirm(r)
  \/ Unreconcile(r) \/ RefuseUnreconcile(r)

Serve(r) ==
  \/ ReadMovements(r) \/ ReadLines(r) \/ NextLine(r) \/ EndAutoMatch(r)
  \/ Connect(r) \/ LockLine(r) \/ Work(r) \/ PoolTimeout(r)

Next == \E r \in Request : Begin(r) \/ Serve(r) \/ Abort(r)

Spec == Init /\ [][Next]_vars

\* A row lock goes to those who wait in order of arrival.
Fairness == \A r \in Request : WF_vars(Serve(r)) /\ SF_vars(LockLine(r))

FairSpec == Spec /\ Fairness

-----------------------------------------------------------------------------
\* Correctness

TypeOK ==
  /\ imported \subseteq File
  /\ statement \in [Line -> File \union {NULL}]
  /\ match \in [Line -> MatchStatus]
  /\ recon \in [Recon -> [status : ReconStatus \union {NULL}, line : Line \union {NULL},
                          movement : Movement \union {NULL}]]
  /\ pc \in [Request -> PC]
  /\ task \in [Request -> Task]
  /\ eligible \in [Request -> SUBSET Movement]
  /\ todo \in [Request -> SUBSET Line]

\* A line has one reconciliation that stands, drafts included, and a movement
\* is claimed once, although the draft is looked for on another connection than
\* the one that inserts, and autoMatch works from lists that others make stale.
OneActive ==
  \A c, d \in Recon :
    c # d /\ Active(c) /\ Active(d) =>
      recon[c].line # recon[d].line /\ recon[c].movement # recon[d].movement

\* A line that shows MATCHED has its confirmed reconciliation, and a line that
\* shows nothing has none.  What is shown may be behind in one way only: autoMatch,
\* which has read the line before, marks it REVIEW_REQUIRED over a reconciliation
\* that stands, a confirmed one included.
ShownMatches ==
  \A l \in Line :
    /\ match[l] = "MATCHED" => Confirmed(l) # {}
    /\ match[l] = "UNMATCHED" => ActiveOn(l) = {}
    /\ match[l] = "SUGGESTED" => ActiveOn(l) # {} /\ Confirmed(l) = {}

\* Requests that hold all clients and wait for one more, or for a line that such
\* a request has locked, come to an end all the same.
EveryRequestEnds == \A r \in Request : pc[r] # "idle" ~> pc[r] = "idle"

=============================================================================
