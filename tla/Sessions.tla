------------------------------ MODULE Sessions ------------------------------
(***************************************************************************)
(* Authentication sessions of one identity (apps/api/src/auth): login,     *)
(* rotation of refresh tokens with detection of reuse, logout and the      *)
(* logout of all sessions.  A session has one family of refresh tokens.    *)
(*                                                                         *)
(* A transaction is a list of statements.  Each selects its rows in what   *)
(* is committed when it starts, locks them one after the other, waiting    *)
(* for those that others have locked, and looks again at what it has       *)
(* waited for.  The rows it marks are written when it commits, and its     *)
(* locks go with it.  PostgreSQL ends transactions that wait in a circle.  *)
(***************************************************************************)
EXTENDS Naturals, Sequences, FiniteSets

CONSTANTS
  Session,     \* sessions, numbered in the order in which scans meet them
  MaxTokens,   \* bound on refresh tokens
  Request

ASSUME ConstantsAssumption ==
  /\ Session \subseteq Nat
  /\ IsFiniteSet(Session)  \* the rows of a table
  /\ MaxTokens \in Nat

Token == 1..MaxTokens

VARIABLES
  status,     \* of a session
  family,     \* sessions whose family is revoked
  token,      \* rows of identity.refresh_tokens
  overlapped, \* sessions whose login met a logoutAll (history)
  call,       \* what a request does
  rest,       \* the statements it has before it, the current one first
  plan,       \* rows that its current statement has selected and not locked
  held,       \* rows it has locked
  marked      \* rows it revokes when it commits

tables == <<status, family, token, overlapped>>
vars == <<tables, call, rest, plan, held, marked>>

\* mutant: a session can only expire
SessionStatusExpiring == {"none", "active", "expired"}

\* What the model uses of session_status; sessions do not expire in it.
SessionStatus == {"none", "active", "revoked"}

\* A token, the session it belongs to, and what became of it
NoToken == [session |-> 0, state |-> "none"]
TokenState == {"none", "live", "revoked", "replaced"}
IsLive(t) == token[t].state = "live"

Table == {"session", "family", "token"}
Row == Table \X (Session \union Token)

\* refresh reads whether the family is revoked with the token, in one statement.
Call == [op : {"none", "refresh", "reuse", "logout", "logoutAll"},
         scope : SUBSET Session, token : Token \union {0}, familySeen : SUBSET Session]
NoCall == [op |-> "none", scope |-> {}, token |-> 0, familySeen |-> {}]
Idle(r) == call[r] = NoCall

Init ==
  /\ status = [s \in Session |-> "none"]
  /\ family = {}
  /\ token = [t \in Token |-> NoToken]
  /\ overlapped = {}
  /\ call = [r \in Request |-> NoCall]
  /\ rest = [r \in Request |-> <<>>]
  /\ plan = [r \in Request |-> {}]
  /\ held = [r \in Request |-> {}]
  /\ marked = [r \in Request |-> {}]

-----------------------------------------------------------------------------
\* Statements

\* A row that an UPDATE of the table would revoke
Selects(table, scope, x) ==
  /\ x[1] = table
  /\ CASE table = "session" -> x[2] \in scope /\ status[x[2]] = "active"
       [] table = "family" -> x[2] \in scope /\ status[x[2]] # "none" /\ x[2] \notin family
       [] table = "token" -> x[2] \in Token /\ IsLive(x[2]) /\ token[x[2]].session \in scope

Selected(table, scope) == {x \in Row : Selects(table, scope, x)}

Begin(r, c, statements, rows) ==
  /\ Idle(r)
  /\ call' = [call EXCEPT ![r] = c]
  /\ rest' = [rest EXCEPT ![r] = statements]
  /\ plan' = [plan EXCEPT ![r] = rows]
  /\ UNCHANGED <<tables, held, marked>>

\* The transaction begins its next statement.
NextStatement(r) ==
  /\ rest' = [rest EXCEPT ![r] = Tail(@)]
  /\ plan' = [plan EXCEPT ![r] =
                IF Tail(rest[r]) = <<>> THEN {} ELSE Selected(rest[r][2], call[r].scope)]

Free(r, x) == \A q \in Request \ {r} : x \notin held[q]

\* Scans go through a table in one order.
First(rows) == {x \in rows : \A y \in rows : x[2] <= y[2]}
Wanted(r) == First(plan[r])

\* mutant: the call returns and its transaction is not ended
FinishAnswering(r) ==
  /\ call' = [call EXCEPT ![r] = NoCall]
  /\ rest' = [rest EXCEPT ![r] = <<>>]
  /\ plan' = [plan EXCEPT ![r] = {}]
  /\ UNCHANGED <<held, marked>>

\* COMMIT or ROLLBACK
Finish(r) ==
  /\ call' = [call EXCEPT ![r] = NoCall]
  /\ rest' = [rest EXCEPT ![r] = <<>>]
  /\ plan' = [plan EXCEPT ![r] = {}]
  /\ held' = [held EXCEPT ![r] = {}]
  /\ marked' = [marked EXCEPT ![r] = {}]

-----------------------------------------------------------------------------
\* Calls

NewTokens == {t \in Token : token[t] = NoToken /\ \A u \in 1..(t - 1) : token[u] # NoToken}

\* issueSessionTokens waits for nobody, and shows at once.
Login ==
  \E s \in Session, t \in NewTokens :
    /\ status[s] = "none"
    /\ status' = [status EXCEPT ![s] = "active"]
    /\ token' = [token EXCEPT ![t] = [session |-> s, state |-> "live"]]
    /\ overlapped' = IF \E r \in Request : call[r].op = "logoutAll"
                     THEN overlapped \union {s} ELSE overlapped
    /\ UNCHANGED <<family, call, rest, plan, held, marked>>

\* Any token that was issued may be presented, and more than once.
BeginRefresh(r) ==
  \E t \in Token :
    /\ token[t] # NoToken
    /\ Begin(r, [op |-> "refresh", scope |-> {token[t].session}, token |-> t,
                 familySeen |-> family \intersect {token[t].session}],
             <<"lockToken", "lockSession">>, {<<"token", t>>})

\* mutant: logout locks in the order in which refresh does
LogoutLikeRefresh == <<"token", "family", "session">>

\* The order of statements in logout
LogoutOrder == <<"session", "family", "token">>

BeginLogout(r) ==
  \E s \in Session :
    /\ status[s] # "none"
    /\ Begin(r, [NoCall EXCEPT !.op = "logout", !.scope = {s}],
             LogoutOrder, Selected(Head(LogoutOrder), {s}))

\* revokeAllSessionsForIdentity
LogoutAllOrder == <<"session", "family", "token">>

BeginLogoutAll(r) ==
  Begin(r, [NoCall EXCEPT !.op = "logoutAll", !.scope = Session],
        LogoutAllOrder, Selected(Head(LogoutAllOrder), Session))

\* An UPDATE locks its next row.  If the row has changed while it waited, and is
\* revoked by now, it is left alone.
LockRow(r) ==
  /\ rest[r] # <<>> /\ Head(rest[r]) \in Table
  /\ \E x \in Wanted(r) :
       /\ Free(r, x)
       /\ held' = [held EXCEPT ![r] = @ \union {x}]
       /\ plan' = [plan EXCEPT ![r] = @ \ {x}]
       /\ marked' = [marked EXCEPT ![r] =
            IF Selects(Head(rest[r]), call[r].scope, x) THEN @ \union {x} ELSE @]
  /\ UNCHANGED <<tables, call, rest>>

\* logout does not go on when the session is not active.
NothingToRevoke(r) ==
  call[r].op = "logout" /\ Head(rest[r]) = "session" /\ marked[r] = {}

StatementDone(r) ==
  /\ rest[r] # <<>> /\ Head(rest[r]) \in Table
  /\ plan[r] = {}
  /\ ~NothingToRevoke(r)
  /\ NextStatement(r)
  /\ UNCHANGED <<tables, call, held, marked>>

\* logout returns, with nothing revoked.
LogoutAgain(r) ==
  /\ rest[r] # <<>> /\ plan[r] = {}
  /\ NothingToRevoke(r)
  /\ Finish(r)
  /\ UNCHANGED tables

\* The rows that were marked are revoked.
Revoke(r) ==
  /\ ~Idle(r) /\ rest[r] = <<>>
  /\ status' = [s \in Session |-> IF <<"session", s>> \in marked[r] THEN "revoked" ELSE status[s]]
  /\ family' = family \union {s \in Session : <<"family", s>> \in marked[r]}
  /\ token' = [t \in Token |-> IF <<"token", t>> \in marked[r]
                               THEN [token[t] EXCEPT !.state = "revoked"] ELSE token[t]]
  /\ Finish(r)
  /\ UNCHANGED overlapped

\* mutant: the token is read without a lock
ReadToken(r) == held[r]

\* findRefreshTokenByHashForUpdate
LockedToken(r) == held[r] \union {<<"token", call[r].token>>}

\* mutant: reuse revokes the tokens and leaves the session
RevokeFamilyOnly == <<"family", "token">>

\* The order of statements when a token is reused: revokeFamily, revokeSession
ReuseOrder == <<"family", "token", "session">>

\* A token that was replaced is reused: its family and its session are revoked.
\* A token that is revoked otherwise, or whose family is, is refused.
LockToken(r) ==
  LET t == call[r].token IN
  /\ rest[r] # <<>> /\ Head(rest[r]) = "lockToken"
  /\ Free(r, <<"token", t>>)
  /\ \/ /\ token[t].state = "replaced"
        /\ call' = [call EXCEPT ![r].op = "reuse"]
        /\ rest' = [rest EXCEPT ![r] = ReuseOrder]
        /\ plan' = [plan EXCEPT ![r] = Selected(Head(ReuseOrder), call[r].scope)]
     \/ /\ IsLive(t) /\ call[r].familySeen = {}
        /\ rest' = [rest EXCEPT ![r] = Tail(@)]
        /\ plan' = [plan EXCEPT ![r] = {<<"session", token[t].session>>}]
        /\ UNCHANGED call
  /\ held' = [held EXCEPT ![r] = LockedToken(r)]
  /\ UNCHANGED <<tables, marked>>

RefuseToken(r) ==
  LET t == call[r].token IN
  /\ rest[r] # <<>> /\ Head(rest[r]) = "lockToken"
  /\ Free(r, <<"token", t>>)
  /\ token[t].state = "revoked" \/ (IsLive(t) /\ call[r].familySeen # {})
  /\ Finish(r)
  /\ UNCHANGED tables

SessionUsable(s) == status[s] = "active"

\* getSessionByIdForUpdate, insertRefreshToken, markRefreshTokenRotated, COMMIT:
\* from the lock of the session on, nothing that others do stands in the way.
Rotate(r) ==
  LET t == call[r].token
      s == token[t].session
  IN
  /\ rest[r] # <<>> /\ Head(rest[r]) = "lockSession"
  /\ Free(r, <<"session", s>>)
  /\ SessionUsable(s)
  /\ \E n \in NewTokens :
       token' = [token EXCEPT ![n] = [session |-> s, state |-> "live"],
                              ![t].state = "replaced"]
  /\ Finish(r)
  /\ UNCHANGED <<status, family, overlapped>>

\* The session was revoked, or the bound on tokens is reached.
RefuseRotation(r) ==
  LET s == token[call[r].token].session IN
  /\ rest[r] # <<>> /\ Head(rest[r]) = "lockSession"
  /\ Free(r, <<"session", s>>)
  /\ ~SessionUsable(s) \/ NewTokens = {}
  /\ Finish(r)
  /\ UNCHANGED tables

\* An error or a lost connection: a rollback.
Abort(r) ==
  /\ ~Idle(r)
  /\ Finish(r)
  /\ UNCHANGED tables

WaitsFor(r, q) == Wanted(r) \intersect held[q] # {}

\* Requests each of which waits for another of them
Circle(S) == S # {} /\ \A r \in S : \E q \in S \ {r} : WaitsFor(r, q)

\* PostgreSQL finds the circle and fails one of them.
BreakDeadlock(r) ==
  /\ \E S \in SUBSET Request : r \in S /\ Circle(S)
  /\ Abort(r)

-----------------------------------------------------------------------------
Serve(r) ==
  \/ LockRow(r) \/ StatementDone(r) \/ LogoutAgain(r) \/ Revoke(r)
  \/ LockToken(r) \/ RefuseToken(r) \/ Rotate(r) \/ RefuseRotation(r)
  \/ BreakDeadlock(r)

Next ==
  \/ Login
  \/ \E r \in Request :
       BeginRefresh(r) \/ BeginLogout(r) \/ BeginLogoutAll(r) \/ Serve(r) \/ Abort(r)

Spec == Init /\ [][Next]_vars

\* A row lock goes to those who wait in order of arrival.
FairSpec == Spec /\ \A r \in Request : SF_vars(Serve(r))

-----------------------------------------------------------------------------
\* Correctness

TypeOK ==
  /\ status \in [Session -> SessionStatus]
  /\ family \subseteq Session
  /\ token \in [Token -> [session : Session \union {0}, state : TokenState]]
  /\ overlapped \subseteq Session
  /\ call \in [Request -> Call]
  /\ rest \in [Request -> Seq(Table \union {"lockToken", "lockSession"})]
  /\ plan \in [Request -> SUBSET Row]
  /\ held \in [Request -> SUBSET Row]
  /\ marked \in [Request -> SUBSET Row]

LiveTokens(s) == {t \in Token : IsLive(t) /\ token[t].session = s}

\* A session never has two tokens that can be rotated, and what is left of a
\* revoked session is of no use, as its family is revoked with it.  The row lock
\* of the presented token decides between rotations of one token; a rotation
\* that slips past a revocation leaves a live token in a revoked family.
RotationIsLinear ==
  \A s \in Session :
    /\ Cardinality(LiveTokens(s)) <= 1
    /\ status[s] = "revoked" => s \in family

\* An active session can be refreshed: its family stands and it has a live
\* token.  Only a login that meets a logoutAll may end with an active session of
\* which the family or the token was revoked, because logoutAll revokes sessions,
\* families and tokens in statements that each see what is committed by then.
ActiveCanRotate ==
  \A s \in Session \ overlapped :
    status[s] = "active" => s \notin family /\ LiveTokens(s) # {}

\* refresh locks the token first and the session next, or the family, the tokens
\* and the session; logouts lock the session first.  There is no deadlock among
\* logouts alone.
DeadlockNeedsRefresh ==
  \A S \in SUBSET Request :
    Circle(S) => \E r \in S : call[r].op \in {"refresh", "reuse"}

\* No token is issued in a revoked family.  refresh reads the family before it
\* waits for the token and never again, so that what it has read may be stale,
\* for the presented token or for one that slipped past the revocation: it is
\* stopped by the session, which is revoked with the family.  Where a login meets
\* a logoutAll the session may stand, and what was read before still counts.
NoTokenInRevokedFamily ==
  [][\A t \in Token : token[t] = NoToken /\ token'[t] # NoToken =>
       token'[t].session \notin family' \ overlapped']_vars

\* Every call returns, those that wait for each other too.
EveryCallEnds == \A r \in Request : ~Idle(r) ~> Idle(r)

=============================================================================
