---------------------- MODULE BankReconciliation_proofs ----------------------
(***************************************************************************)
(* Proofs about BankReconciliation, for every set of files, lines,         *)
(* movements and requests, every size of the pool and every bound on       *)
(* reconciliations.                                                        *)
(*                                                                         *)
(* TypeInv  the types, and what each transaction carries: confirm and      *)
(*          unreconcile lock the line of the reconciliation they change    *)
(* IInv     TypeInv with the two properties of lines and movements; each   *)
(*          of them needs the other when a reconciliation is taken back    *)
(***************************************************************************)
EXTENDS BankReconciliation, TLAPS

-----------------------------------------------------------------------------
\* Types

ReconRow == [status : ReconStatus, line : Line, movement : Movement]

LineTask == {"review", "suggest", "confirm", "unreconcile"}
InTransaction == {"connect", "lock", "work"}

\* What the transaction of a request carries
Carries(r) ==
  LET t == task[r] IN
  /\ pc[r] = "lock" => t.do # "import"
  /\ t.do = "import" => t.file \in File
  /\ t.do \in LineTask => t.line \in Line
  /\ t.do = "suggest" => t.movement \in Movement
  /\ t.do \in {"confirm", "unreconcile"} =>
       t.recon \in Recon /\ recon[t.recon] # NoRecon /\ recon[t.recon].line = t.line

TypeInv ==
  /\ TypeOK
  /\ \A c \in Recon : recon[c] = NoRecon \/ recon[c] \in ReconRow
  /\ \A r \in Request : pc[r] \in InTransaction => Carries(r)

LEMMA InitType == Init => TypeInv
<1> SUFFICES ASSUME Init PROVE TypeInv
  OBVIOUS
<1>1. NoTask \in Task
  BY DEF NoTask, Task
<1>2. TypeOK
  BY <1>1 DEF Init, TypeOK, MatchStatus, PC, NoRecon
<1> QED BY <1>2 DEF Init, TypeInv, InTransaction

\* A request that ends leaves nothing behind.
LEMMA FailType ==
  ASSUME TypeInv, NEW r \in Request, Fail(r), NEW q \in Request,
         UNCHANGED recon \/ \A c \in Recon : recon[c] # NoRecon =>
                              recon'[c] # NoRecon /\ recon'[c].line = recon[c].line
  PROVE  /\ pc' \in [Request -> PC] /\ task' \in [Request -> Task]
         /\ eligible' \in [Request -> SUBSET Movement]
         /\ todo' \in [Request -> SUBSET Line]
         /\ pc'[q] \in InTransaction => Carries(q)'
<1>1. NoTask \in Task
  BY DEF NoTask, Task
<1>2. pc' \in [Request -> PC] /\ task' \in [Request -> Task]
  BY <1>1 DEF Fail, TypeInv, TypeOK, PC
<1>3. eligible' \in [Request -> SUBSET Movement] /\ todo' \in [Request -> SUBSET Line]
  BY DEF Fail, TypeInv, TypeOK
<1>4. ASSUME pc'[q] \in InTransaction PROVE Carries(q)'
  <2>1. q # r /\ pc'[q] = pc[q] /\ task'[q] = task[q]
    BY <1>4 DEF Fail, TypeInv, TypeOK, InTransaction
  <2>2. Carries(q)
    BY <1>4, <2>1 DEF TypeInv
  <2> QED BY <2>1, <2>2 DEF Carries
<1> QED BY <1>2, <1>3, <1>4

\* So does one that has committed, or else autoMatch goes on with its next line.
LEMMA CommittedType ==
  ASSUME TypeInv, NEW r \in Request, Committed(r), NEW q \in Request,
         UNCHANGED recon \/ \A c \in Recon : recon[c] # NoRecon =>
                              recon'[c] # NoRecon /\ recon'[c].line = recon[c].line
  PROVE  /\ pc' \in [Request -> PC] /\ task' \in [Request -> Task]
         /\ eligible' \in [Request -> SUBSET Movement]
         /\ todo' \in [Request -> SUBSET Line]
         /\ pc'[q] \in InTransaction => Carries(q)'
<1>1. CASE task[r].file # NULL
  <2>1. /\ pc' = [pc EXCEPT ![r] = "match"]
        /\ todo' = [todo EXCEPT ![r] = @ \ {task[r].line}]
        /\ eligible' = [eligible EXCEPT ![r] = @ \ {task[r].movement}]
        /\ task' = task
    BY <1>1 DEF Committed
  <2>2. ASSUME pc'[q] \in InTransaction PROVE Carries(q)'
    <3>1. pc'[q] = pc[q] /\ task'[q] = task[q]
      BY <2>1, <2>2 DEF TypeInv, TypeOK, InTransaction
    <3>2. Carries(q)
      BY <2>2, <3>1 DEF TypeInv
    <3> QED BY <3>1, <3>2 DEF Carries
  <2> QED BY <2>1, <2>2 DEF TypeInv, TypeOK, PC
<1>2. CASE task[r].file = NULL
  BY <1>2, FailType DEF Committed
<1> QED BY <1>1, <1>2

\* A transaction begins with what it carries.
LEMMA StartType ==
  ASSUME TypeInv, NEW r \in Request, NEW t \in Task, StartTask(r, t), UNCHANGED recon,
         t.do = "import" => t.file \in File,
         t.do \in LineTask => t.line \in Line,
         t.do = "suggest" => t.movement \in Movement,
         t.do \in {"confirm", "unreconcile"} =>
           t.recon \in Recon /\ recon[t.recon] # NoRecon /\ recon[t.recon].line = t.line,
         NEW q \in Request
  PROVE  /\ pc' \in [Request -> PC] /\ task' \in [Request -> Task]
         /\ pc'[q] \in InTransaction => Carries(q)'
<1>1. pc' \in [Request -> PC] /\ task' \in [Request -> Task]
  BY DEF StartTask, TypeInv, TypeOK, PC
<1>2. ASSUME pc'[q] \in InTransaction PROVE Carries(q)'
  <2>1. CASE q = r
    <3>1. task'[q] = t /\ pc'[q] = "connect"
      BY <2>1 DEF StartTask, TypeInv, TypeOK
    <3> QED BY <3>1 DEF Carries
  <2>2. CASE q # r
    <3>1. task'[q] = task[q] /\ pc'[q] = pc[q]
      BY <2>2 DEF StartTask, TypeInv, TypeOK
    <3>2. Carries(q)
      BY <1>2, <3>1 DEF TypeInv
    <3> QED BY <3>1, <3>2 DEF Carries
  <2> QED BY <2>1, <2>2
<1> QED BY <1>1, <1>2

\* Rows of reconciliations are not changed but by these three.
LEMMA ReconStep ==
  ASSUME TypeInv, NEW r \in Request, Suggest(r) \/ Confirm(r) \/ Unreconcile(r)
  PROVE  /\ \A c \in Recon : recon'[c] = NoRecon \/ recon'[c] \in ReconRow
         /\ recon' \in [Recon -> [status : ReconStatus \union {NULL},
                                  line : Line \union {NULL}, movement : Movement \union {NULL}]]
         /\ match' \in [Line -> MatchStatus]
         /\ \A c \in Recon : recon[c] # NoRecon =>
              recon'[c] # NoRecon /\ recon'[c].line = recon[c].line
<1>1. pc[r] = "work" /\ Carries(r)
  BY DEF Suggest, Confirm, Unreconcile, Working, TypeInv, InTransaction
<1>2. CASE Suggest(r)
  <2>1. PICK c \in Recon :
          /\ recon[c] = NoRecon
          /\ recon' = [recon EXCEPT ![c] = [status |-> "DRAFT", line |-> task[r].line,
                                            movement |-> task[r].movement]]
    BY <1>2 DEF Suggest
  <2>2. task[r].line \in Line /\ task[r].movement \in Movement
    BY <1>1, <1>2 DEF Suggest, Working, Carries, LineTask
  <2>3. [status |-> "DRAFT", line |-> task[r].line, movement |-> task[r].movement] \in ReconRow
    BY <2>2 DEF ReconRow, ReconStatus
  <2>4. match' \in [Line -> MatchStatus]
    BY <1>2 DEF Suggest, TypeInv, TypeOK, MatchStatus
  <2> QED BY <2>1, <2>2, <2>3, <2>4 DEF TypeInv, TypeOK, ReconRow, ReconStatus
<1>3. CASE Confirm(r)
  <2>1. task[r].recon \in Recon /\ recon[task[r].recon] \in ReconRow
    BY <1>1, <1>3 DEF Confirm, Working, Carries, TypeInv
  <2>2. recon' = [recon EXCEPT ![task[r].recon].status = "CONFIRMED"]
        /\ match' \in [Line -> MatchStatus]
    BY <1>3 DEF Confirm, TypeInv, TypeOK, MatchStatus
  <2> DEFINE row == [recon[task[r].recon] EXCEPT !.status = "CONFIRMED"]
  <2>3. row \in ReconRow /\ row.line = recon[task[r].recon].line
    BY <2>1 DEF ReconRow, ReconStatus
  <2>4. row # NoRecon
    BY <2>3, ConstantsAssumption DEF ReconRow, NoRecon
  <2>5. recon' = [recon EXCEPT ![task[r].recon] = row]
    BY <2>2
  <2>6. recon' \in [Recon -> [status : ReconStatus \union {NULL},
                             line : Line \union {NULL}, movement : Movement \union {NULL}]]
    BY <2>3, <2>5 DEF TypeInv, TypeOK, ReconRow
  <2> HIDE DEF row
  <2> QED BY <2>1, <2>2, <2>3, <2>4, <2>5, <2>6 DEF TypeInv, TypeOK
<1>4. CASE Unreconcile(r)
  <2>1. task[r].recon \in Recon /\ recon[task[r].recon] \in ReconRow
    BY <1>1, <1>4 DEF Unreconcile, Working, Carries, TypeInv
  <2>2. recon' = [recon EXCEPT ![task[r].recon].status = "UNRECONCILED"]
        /\ match' \in [Line -> MatchStatus]
    BY <1>4 DEF Unreconcile, TypeInv, TypeOK, MatchStatus
  <2> DEFINE row == [recon[task[r].recon] EXCEPT !.status = "UNRECONCILED"]
  <2>3. row \in ReconRow /\ row.line = recon[task[r].recon].line
    BY <2>1 DEF ReconRow, ReconStatus
  <2>4. row # NoRecon
    BY <2>3, ConstantsAssumption DEF ReconRow, NoRecon
  <2>5. recon' = [recon EXCEPT ![task[r].recon] = row]
    BY <2>2
  <2>6. recon' \in [Recon -> [status : ReconStatus \union {NULL},
                             line : Line \union {NULL}, movement : Movement \union {NULL}]]
    BY <2>3, <2>5 DEF TypeInv, TypeOK, ReconRow
  <2> HIDE DEF row
  <2> QED BY <2>1, <2>2, <2>3, <2>4, <2>5, <2>6 DEF TypeInv, TypeOK
<1> QED BY <1>2, <1>3, <1>4

LEMMA BeginType ==
  ASSUME TypeInv, NEW r \in Request, Begin(r), NEW q \in Request
  PROVE  /\ UNCHANGED <<tables, eligible, todo>>
         /\ pc' \in [Request -> PC] /\ task' \in [Request -> Task]
         /\ pc'[q] \in InTransaction => Carries(q)'
<1>1. ASSUME NEW f \in File, BeginImport(r, f)
      PROVE  /\ pc' \in [Request -> PC] /\ task' \in [Request -> Task]
             /\ pc'[q] \in InTransaction => Carries(q)'
  <2> DEFINE t == [NoTask EXCEPT !.do = "import", !.file = f,
                                 !.fresh = {l \in LinesOf[f] : ~Stored(l)}]
  <2>1. t \in Task
    BY DEF Task, NoTask, Do, Line
  <2>2. t.do = "import" /\ t.file = f
    BY DEF NoTask
  <2>3. StartTask(r, t) /\ recon' = recon
    BY <1>1 DEF BeginImport, tables
  <2> QED BY <2>1, <2>2, <2>3, StartType DEF LineTask
<1>2. ASSUME NEW f \in File, BeginAutoMatch(r, f)
      PROVE  /\ pc' \in [Request -> PC] /\ task' \in [Request -> Task]
             /\ pc'[q] \in InTransaction => Carries(q)'
  <2> DEFINE t == [NoTask EXCEPT !.file = f]
  <2>1. t \in Task
    BY DEF Task, NoTask
  <2>2. /\ pc' = [pc EXCEPT ![r] = "movements"]
        /\ task' = [task EXCEPT ![r] = t]
        /\ recon' = recon
    BY <1>2 DEF BeginAutoMatch, tables
  <2> HIDE DEF t
  <2>3. ASSUME pc'[q] \in InTransaction PROVE Carries(q)'
    <3>1. task'[q] = task[q] /\ pc'[q] = pc[q]
      BY <2>2, <2>3 DEF TypeInv, TypeOK, InTransaction
    <3>2. Carries(q)
      BY <2>3, <3>1 DEF TypeInv
    <3> QED BY <2>2, <3>1, <3>2 DEF Carries
  <2> QED BY <2>1, <2>2, <2>3 DEF TypeInv, TypeOK, PC
<1>3. ASSUME NEW l \in Line, NEW m \in Movement, BeginManual(r, l, m)
      PROVE  /\ pc' \in [Request -> PC] /\ task' \in [Request -> Task]
             /\ pc'[q] \in InTransaction => Carries(q)'
  <2> DEFINE t == [NoTask EXCEPT !.do = "suggest", !.line = l, !.movement = m]
  <2>1. t \in Task
    BY DEF Task, NoTask, Do
  <2>2. t.do = "suggest" /\ t.line = l /\ t.movement = m
    BY DEF NoTask
  <2>3. StartTask(r, t) /\ recon' = recon
    BY <1>3 DEF BeginManual, tables
  <2> QED BY <2>1, <2>2, <2>3, StartType DEF LineTask
<1>4. ASSUME NEW c \in Recon, NEW do \in {"confirm", "unreconcile"},
             recon[c].status \in ReconStatus, recon' = recon,
             StartTask(r, [NoTask EXCEPT !.do = do, !.line = recon[c].line, !.recon = c])
      PROVE  /\ pc' \in [Request -> PC] /\ task' \in [Request -> Task]
             /\ pc'[q] \in InTransaction => Carries(q)'
  <2> DEFINE t == [NoTask EXCEPT !.do = do, !.line = recon[c].line, !.recon = c]
  <2>1. recon[c] # NoRecon /\ recon[c].line \in Line
    BY <1>4, ConstantsAssumption DEF TypeInv, NoRecon, ReconRow
  <2>2. t \in Task
    BY <2>1 DEF Task, NoTask, Do
  <2>3. t.do = do /\ t.line = recon[c].line /\ t.recon = c
    BY DEF NoTask
  <2> QED BY <1>4, <2>1, <2>2, <2>3, StartType DEF LineTask
<1>5. ASSUME NEW c \in Recon, BeginConfirm(r, c) \/ BeginUnreconcile(r, c)
      PROVE  /\ pc' \in [Request -> PC] /\ task' \in [Request -> Task]
             /\ pc'[q] \in InTransaction => Carries(q)'
  BY <1>4, <1>5 DEF BeginConfirm, BeginUnreconcile, ReconStatus, tables
<1>6. UNCHANGED <<tables, eligible, todo>>
  BY DEF Begin, BeginImport, BeginAutoMatch, BeginManual, BeginConfirm, BeginUnreconcile
<1> QED BY <1>1, <1>2, <1>3, <1>5, <1>6 DEF Begin

LEMMA StepType == TypeInv /\ [Next]_vars => TypeInv'
<1> SUFFICES ASSUME TypeInv, [Next]_vars PROVE TypeInv'
  OBVIOUS
<1> USE DEF TypeInv
<1>1. ASSUME NEW r \in Request, Begin(r) PROVE TypeInv'
  BY <1>1, BeginType DEF TypeOK, tables
<1>2. ASSUME NEW r \in Request, Fail(r), UNCHANGED tables PROVE TypeInv'
  BY <1>2, FailType DEF TypeOK, tables
<1>3. ASSUME NEW r \in Request, Committed(r), UNCHANGED tables PROVE TypeInv'
  BY <1>3, CommittedType DEF TypeOK, tables
<1>4. ASSUME NEW r \in Request, ReadMovements(r) \/ ReadLines(r) PROVE TypeInv'
  <2>1. /\ task' = task /\ UNCHANGED tables
        /\ eligible' \in [Request -> SUBSET Movement]
        /\ todo' \in [Request -> SUBSET Line]
        /\ pc' \in [Request -> PC]
        /\ pc'[r] \notin InTransaction /\ \A q \in Request \ {r} : pc'[q] = pc[q]
    BY <1>4 DEF ReadMovements, ReadLines, TypeOK, PC, InTransaction
  <2> QED BY <2>1 DEF TypeOK, tables, Carries
<1>5. ASSUME NEW r \in Request, NextLine(r) PROVE TypeInv'
  <2>1. UNCHANGED <<tables, eligible>> /\ recon' = recon /\ task[r] \in Task
    BY <1>5 DEF NextLine, tables, TypeOK
  <2>0. PICK l \in FirstLine(todo[r]) :
          LET C == Candidates(r, l)
              t == [task[r] EXCEPT !.line = l, !.movement = NULL]
          IN
          \/ todo' = [todo EXCEPT ![r] = @ \ {l}] /\ UNCHANGED <<pc, task>>
          \/ /\ \E m \in C : StartTask(r, [t EXCEPT !.do = "suggest", !.movement = m])
             /\ UNCHANGED todo
          \/ StartTask(r, [t EXCEPT !.do = "review"]) /\ UNCHANGED todo
    BY <1>5 DEF NextLine
  <2> DEFINE C == Candidates(r, l)
             t == [task[r] EXCEPT !.line = l, !.movement = NULL]
  <2>2. CASE todo' = [todo EXCEPT ![r] = @ \ {l}] /\ UNCHANGED <<pc, task>>
    BY <2>1, <2>2 DEF TypeOK, tables, Carries
  <2>3. l \in Line
    BY DEF FirstLine, TypeOK
  <2>4. ASSUME NEW m \in C, StartTask(r, [t EXCEPT !.do = "suggest", !.movement = m]),
               UNCHANGED todo
        PROVE  TypeInv'
    <3> DEFINE u == [t EXCEPT !.do = "suggest", !.movement = m]
    <3>1. m \in Movement
      BY DEF Candidates, TypeOK
    <3>2. u \in Task /\ u.do = "suggest" /\ u.line = l /\ u.movement = m
      BY <2>1, <2>3, <3>1 DEF Task, Do
    <3> HIDE DEF u
    <3>3. StartTask(r, u)
      BY <2>4 DEF u
    <3>4. ASSUME NEW q \in Request
          PROVE  /\ pc' \in [Request -> PC] /\ task' \in [Request -> Task]
                 /\ pc'[q] \in InTransaction => Carries(q)'
      BY <2>1, <2>3, <3>1, <3>2, <3>3, StartType DEF LineTask
    <3> QED BY <2>1, <2>4, <3>4 DEF TypeOK, tables
  <2>5. ASSUME StartTask(r, [t EXCEPT !.do = "review"]), UNCHANGED todo PROVE TypeInv'
    <3> DEFINE u == [t EXCEPT !.do = "review"]
    <3>2. u \in Task /\ u.do = "review" /\ u.line = l
      BY <2>1, <2>3 DEF Task, Do
    <3> HIDE DEF u
    <3>3. StartTask(r, u)
      BY <2>5 DEF u
    <3>4. ASSUME NEW q \in Request
          PROVE  /\ pc' \in [Request -> PC] /\ task' \in [Request -> Task]
                 /\ pc'[q] \in InTransaction => Carries(q)'
      BY <2>1, <2>3, <3>2, <3>3, StartType DEF LineTask
    <3> QED BY <2>1, <2>5, <3>4 DEF TypeOK, tables
  <2> QED BY <2>0, <2>2, <2>4, <2>5
<1>6. ASSUME NEW r \in Request, Connect(r) \/ LockLine(r) PROVE TypeInv'
  <2>1. /\ UNCHANGED <<tables, task, eligible, todo>>
        /\ pc' \in [Request -> PC] /\ pc[r] \in InTransaction
        /\ pc'[r] = "lock" => task[r].do # "import"
        /\ \A q \in Request \ {r} : pc'[q] = pc[q]
    BY <1>6 DEF Connect, LockLine, TypeOK, PC, InTransaction
  <2>2. ASSUME NEW q \in Request, pc'[q] \in InTransaction PROVE Carries(q)'
    <3>1. Carries(q)
      BY <2>1, <2>2
    <3> QED BY <2>1, <2>2, <3>1 DEF Carries, tables
  <2> QED BY <2>1, <2>2 DEF TypeOK, tables
<1>7. ASSUME NEW r \in Request, Import(r) PROVE TypeInv'
  <2>1. pc[r] \in InTransaction /\ task[r].file \in File /\ task[r] \in Task
    BY <1>7 DEF Import, Working, InTransaction, Carries, TypeOK
  <2>2. /\ UNCHANGED <<match, recon, eligible, todo>>
        /\ imported' \subseteq File
        /\ statement' \in [Line -> File \union {NULL}]
        /\ pc' = [pc EXCEPT ![r] = "movements"]
    BY <1>7, <2>1 DEF Import, TypeOK
  <2> DEFINE new == {l \in task[r].fresh : ~Stored(l)}
             S == IF new # {} THEN {task[r].file}
                  ELSE {statement[l] : l \in LinesOf[task[r].file]}
  <2>0. S \subseteq File \union {NULL}
    BY <2>1 DEF TypeOK, Line
  <2>3. PICK s \in S : task' = [task EXCEPT ![r] = [NoTask EXCEPT !.file = s]]
    BY <1>7 DEF Import
  <2> HIDE DEF S
  <2>4. [NoTask EXCEPT !.file = s] \in Task
    BY <2>0 DEF Task, NoTask
  <2>5. pc' \in [Request -> PC] /\ task' \in [Request -> Task]
    BY <2>2, <2>3, <2>4 DEF TypeOK, PC
  <2>6. ASSUME NEW q \in Request, pc'[q] \in InTransaction PROVE Carries(q)'
    <3>1. q # r /\ pc'[q] = pc[q] /\ task'[q] = task[q]
      BY <2>2, <2>3, <2>6 DEF TypeOK, InTransaction
    <3>2. Carries(q)
      BY <2>6, <3>1
    <3> QED BY <2>2, <3>1, <3>2 DEF Carries
  <2> QED BY <2>2, <2>5, <2>6 DEF TypeOK
<1>8. ASSUME NEW r \in Request, Review(r) PROVE TypeInv'
  <2>1. match' \in [Line -> MatchStatus] /\ UNCHANGED <<imported, statement, recon>>
    BY <1>8 DEF Review, TypeOK, MatchStatus
  <2> QED BY <1>8, <2>1, CommittedType DEF Review, TypeOK
<1>9. ASSUME NEW r \in Request, Suggest(r) \/ Confirm(r) \/ Unreconcile(r) PROVE TypeInv'
  <2>1. Committed(r) /\ UNCHANGED <<imported, statement>>
    BY <1>9 DEF Suggest, Confirm, Unreconcile
  <2> QED BY <1>9, <2>1, ReconStep, CommittedType DEF TypeOK
<1>10. CASE UNCHANGED vars
  BY <1>10 DEF vars, tables, TypeOK, Carries
<1>11. ASSUME NEW r \in Request, Serve(r) PROVE TypeInv'
  BY <1>2, <1>3, <1>4, <1>5, <1>6, <1>7, <1>8, <1>9, <1>11
     DEF Serve, Work, EndAutoMatch, RefuseImport, SuggestAgain, RefuseSuggestion, RefuseConfirm,
         RefuseUnreconcile, PoolTimeout, Refuse
<1> QED BY <1>1, <1>2, <1>10, <1>11 DEF Next, Abort, Refuse

\* The types of files, lines, reconciliations and requests, whatever the instance.
THEOREM TypeCorrect == Spec => []TypeOK
<1>1. TypeInv => TypeOK
  BY DEF TypeInv
<1> QED BY InitType, StepType, <1>1, PTL DEF Spec

-----------------------------------------------------------------------------
\* Lines and their reconciliations

\* One reconciliation stands for a line and for a movement, and a line shows what
\* stands for it.
IInv == TypeInv /\ OneActive /\ ShownMatches

\* Neither property is about more than reconciliations and what lines show.
LEMMA Unchanged ==
  ASSUME OneActive, ShownMatches, UNCHANGED <<recon, match>>
  PROVE  OneActive' /\ ShownMatches'
BY DEF OneActive, ShownMatches, Active, ActiveOn, Confirmed

LEMMA StepReview ==
  ASSUME IInv, NEW r \in Request, Review(r)
  PROVE  OneActive' /\ ShownMatches'
<1>1. match' = [match EXCEPT ![task[r].line] = "REVIEW_REQUIRED"] /\ recon' = recon
  BY DEF Review
<1>2. match \in [Line -> MatchStatus]
  BY DEF IInv, TypeInv, TypeOK
<1> QED BY <1>1, <1>2 DEF IInv, OneActive, ShownMatches, Active, ActiveOn, Confirmed

\* A draft is inserted for a line that has none and a movement that nobody claims.
LEMMA StepSuggest ==
  ASSUME IInv, NEW r \in Request, Suggest(r)
  PROVE  OneActive' /\ ShownMatches'
<1>0. PICK l \in Line, m \in Movement : l = task[r].line /\ m = task[r].movement
  BY DEF Suggest, Working, IInv, TypeInv, Carries, InTransaction, LineTask
<1> DEFINE row == [status |-> "DRAFT", line |-> l, movement |-> m]
<1>1. PICK c \in Recon : recon[c] = NoRecon /\ recon' = [recon EXCEPT ![c] = row]
  BY <1>0 DEF Suggest
<1>2. /\ ActiveOn(l) = {} /\ ~Taken(m)
      /\ match' = [match EXCEPT ![l] = "SUGGESTED"]
      /\ match \in [Line -> MatchStatus]
      /\ recon'[c] = row /\ \A d \in Recon \ {c} : recon'[d] = recon[d]
  BY <1>0, <1>1 DEF Suggest, Working, Open, IInv, TypeInv, TypeOK, Carries, InTransaction, LineTask
<1>3. ~Active(c) /\ recon[c].status # "CONFIRMED"
  BY <1>1, ConstantsAssumption DEF Active, NoRecon, ReconStatus
<1>4. row.status = "DRAFT" /\ row.line = l /\ row.movement = m
  OBVIOUS
<1> HIDE DEF row
<1>5. \A d \in Recon : d # c /\ Active(d) => recon[d].line # l /\ recon[d].movement # m
  BY <1>2 DEF ActiveOn, Taken
<1>6. OneActive'
  BY <1>2, <1>3, <1>4, <1>5 DEF IInv, OneActive, Active
<1>7. \A k \in Line \ {l} :
        match'[k] = match[k] /\ ActiveOn(k)' = ActiveOn(k) /\ Confirmed(k)' = Confirmed(k)
  BY <1>2, <1>3, <1>4 DEF ActiveOn, Confirmed, Active
<1>8. match'[l] = "SUGGESTED" /\ c \in ActiveOn(l)' /\ Confirmed(l)' = {}
  BY <1>2, <1>4, <1>5 DEF ActiveOn, Confirmed, Active
<1> QED BY <1>6, <1>7, <1>8 DEF IInv, ShownMatches

\* A reconciliation that stands is confirmed, or one that is confirmed taken back.
LEMMA StepDecide ==
  ASSUME IInv, NEW r \in Request, Confirm(r) \/ Unreconcile(r)
  PROVE  OneActive' /\ ShownMatches'
<1>0. PICK c \in Recon, l \in Line : c = task[r].recon /\ l = task[r].line
  BY DEF Confirm, Unreconcile, Working, IInv, TypeInv, TypeOK, Carries, InTransaction, LineTask
<1>1. /\ recon[c] \in ReconRow /\ recon[c].line = l
      /\ match \in [Line -> MatchStatus]
  BY <1>0 DEF Confirm, Unreconcile, Working, IInv, TypeInv, TypeOK, Carries, InTransaction, LineTask
<1>2. PICK s \in {"CONFIRMED", "UNRECONCILED"}, m \in {"MATCHED", "UNMATCHED"} :
        /\ recon' = [recon EXCEPT ![c].status = s] /\ match' = [match EXCEPT ![l] = m]
        /\ Confirm(r) => s = "CONFIRMED" /\ m = "MATCHED"
        /\ Unreconcile(r) => s = "UNRECONCILED" /\ m = "UNMATCHED"
  <2>1. CASE Confirm(r)
    <3>1. recon' = [recon EXCEPT ![c].status = "CONFIRMED"]
          /\ match' = [match EXCEPT ![l] = "MATCHED"] /\ task[r].do = "confirm"
      BY <1>0, <2>1 DEF Confirm, Working
    <3>2. ~Unreconcile(r)
      BY <3>1 DEF Unreconcile, Working
    <3> QED BY <3>1, <3>2
  <2>2. CASE Unreconcile(r)
    <3>1. recon' = [recon EXCEPT ![c].status = "UNRECONCILED"]
          /\ match' = [match EXCEPT ![l] = "UNMATCHED"] /\ task[r].do = "unreconcile"
      BY <1>0, <2>2 DEF Unreconcile, Working
    <3>2. ~Confirm(r)
      BY <3>1 DEF Confirm, Working
    <3> QED BY <3>1, <3>2
  <2> QED BY <2>1, <2>2
<1> DEFINE row == [recon[c] EXCEPT !.status = s]
<1>8. row.status = s /\ row.line = l /\ row.movement = recon[c].movement
  BY <1>1 DEF ReconRow
<1>9. recon'[c] = row /\ \A d \in Recon \ {c} : recon'[d] = recon[d]
  BY <1>1, <1>2 DEF IInv, TypeInv, TypeOK
<1> HIDE DEF row
<1>10. match'[l] = m /\ \A k \in Line \ {l} : match'[k] = match[k]
  BY <1>1, <1>2
<1>3. Active(c)
  BY <1>0 DEF Confirm, Confirmable, Unreconcile, Active
<1>4. OneActive'
  BY <1>1, <1>3, <1>8, <1>9 DEF IInv, OneActive, Active
<1>5. \A k \in Line \ {l} : ActiveOn(k)' = ActiveOn(k) /\ Confirmed(k)' = Confirmed(k)
  BY <1>1, <1>8, <1>9 DEF ActiveOn, Confirmed, Active
<1>6. CASE Confirm(r)
  <2>1. recon'[c].status = "CONFIRMED" /\ match'[l] = "MATCHED"
    BY <1>2, <1>6, <1>8, <1>9, <1>10
  <2>2. c \in Confirmed(l)'
    BY <1>1, <1>8, <1>9, <2>1 DEF Confirmed
  <2> QED BY <1>4, <1>5, <1>10, <2>1, <2>2 DEF IInv, ShownMatches
<1>7. CASE Unreconcile(r)
  <2>1. recon'[c].status = "UNRECONCILED" /\ match'[l] = "UNMATCHED"
    BY <1>2, <1>7, <1>8, <1>9, <1>10
  <2>2. ActiveOn(l)' = {}
    BY <1>1, <1>3, <1>9, <2>1 DEF ActiveOn, Active, IInv, OneActive
  <2> QED BY <1>4, <1>5, <1>10, <2>1, <2>2 DEF IInv, ShownMatches
<1> QED BY <1>6, <1>7

LEMMA StepInv == IInv /\ [Next]_vars => IInv'
<1> SUFFICES ASSUME IInv, [Next]_vars PROVE OneActive' /\ ShownMatches'
  BY StepType DEF IInv
<1>1. ASSUME NEW r \in Request, Review(r) PROVE OneActive' /\ ShownMatches'
  BY <1>1, StepReview
<1>2. ASSUME NEW r \in Request, Suggest(r) PROVE OneActive' /\ ShownMatches'
  BY <1>2, StepSuggest
<1>3. ASSUME NEW r \in Request, Confirm(r) \/ Unreconcile(r) PROVE OneActive' /\ ShownMatches'
  BY <1>3, StepDecide
<1>4. \/ \E r \in Request : Review(r) \/ Suggest(r) \/ Confirm(r) \/ Unreconcile(r)
      \/ UNCHANGED <<recon, match>>
  BY DEF Next, vars, tables, Begin, BeginImport, BeginAutoMatch, BeginManual, BeginConfirm,
         BeginUnreconcile, Serve, Work, ReadMovements, ReadLines, NextLine, EndAutoMatch, Connect,
         LockLine, Import, RefuseImport, SuggestAgain, RefuseSuggestion, RefuseConfirm,
         RefuseUnreconcile, PoolTimeout, Abort, Refuse
<1>5. OneActive /\ ShownMatches
  BY DEF IInv
<1> QED BY <1>1, <1>2, <1>3, <1>4, <1>5, Unchanged

LEMMA InitInv == Init => IInv
<1> SUFFICES ASSUME Init PROVE OneActive /\ ShownMatches
  BY InitType DEF IInv
<1>1. \A c \in Recon : ~Active(c)
  BY ConstantsAssumption DEF Init, Active, NoRecon, ReconStatus
<1> QED BY <1>1 DEF Init, OneActive, ShownMatches, ActiveOn

\* A line has one reconciliation that stands and a movement is claimed once,
\* however requests overlap and however stale the lists are that they work from.
THEOREM OneReconciliationStands == Spec => []OneActive
<1>1. IInv => OneActive
  BY DEF IInv
<1> QED BY InitInv, StepInv, <1>1, PTL DEF Spec

\* A line that shows a match has it, and one that shows none has none.
THEOREM LinesShowTheirMatch == Spec => []ShownMatches
<1>1. IInv => ShownMatches
  BY DEF IInv
<1> QED BY InitInv, StepInv, <1>1, PTL DEF Spec

=============================================================================
