--------------------------- MODULE Sessions_proofs ---------------------------
(***************************************************************************)
(* Proofs about Sessions, for every set of sessions and requests and every *)
(* bound on tokens.                                                        *)
(*                                                                         *)
(* TypeInv   the types, the statements a call may have before it, and what *)
(*           calls and tokens say of sessions                              *)
(* LockInv   a row is locked by one transaction, which marks only rows     *)
(*           that it has locked; a token under rotation is live and locked *)
(* PassInv   what a transaction has marked once it has passed a statement  *)
(* TableInv  sessions that are revoked have lost their family, and those   *)
(*           that are active have not, nor their live token                *)
(* ClimbInv  logouts take locks in the order of tables and rows            *)
(***************************************************************************)
EXTENDS Sessions, FiniteSetTheorems, TLAPS

-----------------------------------------------------------------------------
\* Types

Revoking == {"reuse", "logout", "logoutAll"}

\* Statements that a call may have before it
RestOf(op) ==
  CASE op = "none" -> {<<>>}
    [] op = "refresh" -> {<<"lockToken", "lockSession">>, <<"lockSession">>}
    [] op = "reuse" -> {<<"family", "token", "session">>, <<"token", "session">>, <<"session">>, <<>>}
    [] OTHER -> {<<"session", "family", "token">>, <<"family", "token">>, <<"token">>, <<>>}

\* What a call says of sessions and tokens
CallInv(r) ==
  LET c == call[r] IN
  /\ rest[r] \in RestOf(c.op)
  /\ c.op = "none" => call[r] = NoCall /\ plan[r] = {} /\ held[r] = {} /\ marked[r] = {}
  /\ c.op \in {"refresh", "reuse", "logout"} => \A s \in c.scope : status[s] # "none"
  /\ c.op = "refresh" =>
       c.token \in Token /\ token[c.token].state # "none" /\ marked[r] = {}

TokenInv ==
  \A t \in Token :
    /\ token[t].state = "none" => token[t] = NoToken
    /\ token[t].state # "none" => token[t].session \in Session /\ status[token[t].session] # "none"

MarkedTokens == \A r \in Request, t \in Token : <<"token", t>> \in marked[r] => token[t].state # "none"

TypeInv == TypeOK /\ TokenInv /\ MarkedTokens /\ \A r \in Request : CallInv(r)

Statement == Table \union {"lockToken", "lockSession"}

LEMMA RestType ==
  ASSUME NEW op, NEW q \in RestOf(op)
  PROVE  q \in Seq(Statement)
<1> DEFINE lists == {<<>>, <<"lockToken", "lockSession">>, <<"lockSession">>,
                     <<"family", "token", "session">>, <<"token", "session">>, <<"session">>,
                     <<"session", "family", "token">>, <<"family", "token">>, <<"token">>}
<1>1. q \in lists
  BY DEF RestOf
<1>2. <<>> \in Seq(Statement)
  OBVIOUS
<1>3. ASSUME NEW a \in Statement, NEW b \in Statement, NEW c \in Statement
      PROVE  <<a>> \in Seq(Statement) /\ <<a, b>> \in Seq(Statement) /\ <<a, b, c>> \in Seq(Statement)
  OBVIOUS
<1>4. {"session", "family", "token", "lockToken", "lockSession"} \subseteq Statement
  BY DEF Statement, Table
<1> HIDE DEF Statement
<1>5. /\ <<"lockToken", "lockSession">> \in Seq(Statement) /\ <<"lockSession">> \in Seq(Statement)
      /\ <<"family", "token", "session">> \in Seq(Statement)
      /\ <<"token", "session">> \in Seq(Statement) /\ <<"session">> \in Seq(Statement)
      /\ <<"session", "family", "token">> \in Seq(Statement)
      /\ <<"family", "token">> \in Seq(Statement) /\ <<"token">> \in Seq(Statement)
  BY <1>3, <1>4
<1> QED BY <1>1, <1>2, <1>5

LEMMA InitType == Init => TypeInv
<1> SUFFICES ASSUME Init PROVE TypeInv
  OBVIOUS
<1>1. NoCall \in Call /\ NoCall.op = "none"
  BY DEF NoCall, Call
<1>2. <<>> \in Seq(Table \union {"lockToken", "lockSession"})
  OBVIOUS
<1>3. TypeOK
  BY <1>1, <1>2 DEF Init, TypeOK, SessionStatus, NoToken, TokenState
<1>4. TokenInv
  BY DEF Init, TokenInv, NoToken
<1>5. \A r \in Request : CallInv(r)
  BY <1>1 DEF Init, CallInv, RestOf
<1>6. MarkedTokens
  BY DEF Init, MarkedTokens
<1> QED BY <1>3, <1>4, <1>5, <1>6 DEF TypeInv

\* A call that ends leaves nothing behind.
LEMMA FinishType ==
  ASSUME TypeOK, NEW r \in Request, Finish(r)
  PROVE  /\ call' \in [Request -> Call]
         /\ rest' \in [Request -> Seq(Statement)]
         /\ plan' \in [Request -> SUBSET Row] /\ held' \in [Request -> SUBSET Row]
         /\ marked' \in [Request -> SUBSET Row]
         /\ call'[r] = NoCall /\ rest'[r] = <<>> /\ plan'[r] = {} /\ held'[r] = {} /\ marked'[r] = {}
         /\ \A q \in Request \ {r} :
              /\ call'[q] = call[q] /\ rest'[q] = rest[q] /\ plan'[q] = plan[q]
              /\ held'[q] = held[q] /\ marked'[q] = marked[q]
<1>1. NoCall \in Call
  BY DEF NoCall, Call
<1>2. <<>> \in Seq(Statement)
  OBVIOUS
<1> QED BY <1>1, <1>2 DEF Finish, TypeOK, Statement

\* Sessions that there are stay, and so do tokens.
Persists ==
  /\ \A s \in Session : status[s] # "none" => status'[s] # "none"
  /\ \A t \in Token :
       token[t].state # "none" => token'[t].state # "none" /\ token'[t].session = token[t].session

\* What a call says is disturbed by no other.
LEMMA OthersCall ==
  ASSUME TypeInv, NEW q \in Request, Persists,
         call'[q] = call[q], rest'[q] = rest[q], plan'[q] = plan[q], held'[q] = held[q],
         marked'[q] = marked[q]
  PROVE  CallInv(q)'
<1>1. CallInv(q) /\ call[q].scope \subseteq Session
  BY DEF TypeInv, TypeOK, Call
<1> QED BY <1>1 DEF CallInv, Persists

LEMMA FinishCalls ==
  ASSUME TypeInv, NEW r \in Request, Finish(r), Persists
  PROVE  \A q \in Request : CallInv(q)'
<1>1. NoCall.op = "none" /\ NoCall.scope = {}
  BY DEF NoCall
<1>2. CallInv(r)'
  BY <1>1, FinishType DEF TypeInv, CallInv, RestOf
<1>3. \A q \in Request \ {r} : CallInv(q)'
  BY FinishType, OthersCall DEF TypeInv
<1> QED BY <1>2, <1>3

-----------------------------------------------------------------------------
\* Statements

\* The statements of logouts and of reuse, in their order
LEMMA LogoutRests ==
  LET all == <<"session", "family", "token">>
      last2 == <<"family", "token">>
      last1 == <<"token">>
  IN
  /\ Tail(all) = last2 /\ Tail(last2) = last1 /\ Tail(last1) = <<>>
  /\ Head(all) = "session" /\ Head(last2) = "family" /\ Head(last1) = "token"
  /\ all[2] = "family" /\ last2[2] = "token"
  /\ all # <<>> /\ last2 # <<>> /\ last1 # <<>>
OBVIOUS

LEMMA ReuseRests ==
  LET all == <<"family", "token", "session">>
      last2 == <<"token", "session">>
      last1 == <<"session">>
  IN
  /\ Tail(all) = last2 /\ Tail(last2) = last1 /\ Tail(last1) = <<>>
  /\ Head(all) = "family" /\ Head(last2) = "token" /\ Head(last1) = "session"
  /\ all[2] = "token" /\ last2[2] = "session"
  /\ all # <<>> /\ last2 # <<>> /\ last1 # <<>>
OBVIOUS

LEMMA RefreshRests ==
  /\ Tail(<<"lockToken", "lockSession">>) = <<"lockSession">>
  /\ Head(<<"lockToken", "lockSession">>) = "lockToken" /\ Head(<<"lockSession">>) = "lockSession"
  /\ <<"lockToken", "lockSession">> # <<>> /\ <<"lockSession">> # <<>>
OBVIOUS

LEMMA RestSteps ==
  ASSUME NEW op \in Revoking, NEW q \in RestOf(op), q # <<>>
  PROVE  /\ Tail(q) \in RestOf(op) /\ Head(q) \in Table
         /\ Tail(q) # <<>> => q[2] = Head(Tail(q)) /\ q[2] \in Table
<1>1. CASE op = "reuse"
  <2>1. q \in {<<"family", "token", "session">>, <<"token", "session">>, <<"session">>}
    BY <1>1 DEF RestOf
  <2> QED BY <1>1, <2>1, ReuseRests DEF RestOf, Table
<1>2. CASE op \in {"logout", "logoutAll"}
  <2>1. q \in {<<"session", "family", "token">>, <<"family", "token">>, <<"token">>}
    BY <1>2 DEF RestOf
  <2>2. Tail(q) \in {<<"session", "family", "token">>, <<"family", "token">>, <<"token">>, <<>>}
    BY <2>1, LogoutRests
  <2>3. Tail(q) \in RestOf(op)
    BY <1>2, <2>2 DEF RestOf
  <2> QED BY <2>1, <2>3, LogoutRests DEF Table
<1> QED BY <1>1, <1>2 DEF Revoking

\* Only calls that revoke have statements that mark rows.
LEMMA MarkingRevokes ==
  ASSUME TypeInv, NEW r \in Request,
         \/ rest[r] # <<>> /\ Head(rest[r]) \in Table
         \/ call[r].op # "none" /\ rest[r] = <<>>
  PROVE  call[r].op \in Revoking
<1>1. rest[r] \in RestOf(call[r].op) /\ call[r].op \in {"none", "refresh", "reuse", "logout", "logoutAll"}
  BY DEF TypeInv, TypeOK, CallInv, Call
<1>2. call[r].op # "refresh"
  BY <1>1, RefreshRests DEF RestOf, Table
<1>3. call[r].op # "none"
  BY <1>1 DEF RestOf
<1> QED BY <1>1, <1>2, <1>3 DEF Revoking

LEMMA RefreshingRefreshes ==
  ASSUME TypeInv, NEW r \in Request, rest[r] # <<>>, Head(rest[r]) \in {"lockToken", "lockSession"}
  PROVE  /\ call[r].op = "refresh" /\ call[r].token \in Token
         /\ Head(rest[r]) = "lockToken" => Tail(rest[r]) = <<"lockSession">>
<1>1. rest[r] \in RestOf(call[r].op) /\ call[r].op \in {"none", "refresh", "reuse", "logout", "logoutAll"}
  BY DEF TypeInv, TypeOK, CallInv, Call
<1>2. call[r].op \notin Revoking
  BY <1>1, RestSteps DEF Table
<1>3. call[r].op = "refresh"
  BY <1>1, <1>2 DEF RestOf, Revoking
<1> QED BY <1>1, <1>3, RefreshRests DEF TypeInv, CallInv, RestOf

\* Whatever a login, a rotation or a revocation does, sessions and tokens stay.
LEMMA LoginStep ==
  ASSUME TypeInv, Login
  PROVE  /\ status' \in [Session -> SessionStatus]
         /\ token' \in [Token -> [session : Session \union {0}, state : TokenState]]
         /\ overlapped' \subseteq Session
         /\ TokenInv' /\ Persists
<1>1. PICK s \in Session, n \in NewTokens :
        /\ status[s] = "none"
        /\ status' = [status EXCEPT ![s] = "active"]
        /\ token' = [token EXCEPT ![n] = [session |-> s, state |-> "live"]]
        /\ overlapped' = IF \E r \in Request : call[r].op = "logoutAll"
                         THEN overlapped \union {s} ELSE overlapped
  BY DEF Login
<1> DEFINE row == [session |-> s, state |-> "live"]
<1>2. row \in [session : Session \union {0}, state : TokenState] /\ row.session = s /\ row.state = "live"
  BY DEF TokenState
<1>3. n \in Token /\ token[n] = NoToken /\ token[n].state = "none" /\ token' = [token EXCEPT ![n] = row]
  BY <1>1 DEF NewTokens, NoToken
<1> HIDE DEF row
<1>4. /\ status' \in [Session -> SessionStatus]
      /\ token' \in [Token -> [session : Session \union {0}, state : TokenState]]
      /\ overlapped' \subseteq Session
  BY <1>1, <1>2, <1>3 DEF TypeInv, TypeOK, SessionStatus
<1>5. Persists
  BY <1>1, <1>2, <1>3 DEF TypeInv, TypeOK, Persists
<1>6. TokenInv'
  BY <1>1, <1>2, <1>3, <1>4 DEF TypeInv, TypeOK, TokenInv
<1> QED BY <1>4, <1>5, <1>6

LEMMA RotateStep ==
  ASSUME TypeInv, NEW r \in Request, Rotate(r)
  PROVE  /\ token' \in [Token -> [session : Session \union {0}, state : TokenState]]
         /\ TokenInv' /\ Persists
         /\ \E t \in Token, n \in Token :
              /\ t = call[r].token /\ token[n] = NoToken /\ n # t
              /\ token'[n] = [session |-> token[t].session, state |-> "live"]
              /\ token'[t].state = "replaced" /\ token'[t].session = token[t].session
              /\ \A u \in Token \ {n, t} : token'[u] = token[u]
<1>1. PICK t \in Token : t = call[r].token /\ token[t].state # "none"
  BY RefreshingRefreshes DEF Rotate, TypeInv, CallInv
<1>2. PICK s \in Session : s = token[t].session /\ status[s] # "none"
  BY <1>1 DEF TypeInv, TokenInv
<1>3. PICK n \in NewTokens :
        token' = [token EXCEPT ![n] = [session |-> s, state |-> "live"], ![t].state = "replaced"]
  BY <1>1, <1>2 DEF Rotate
<1>4. n \in Token /\ token[n] = NoToken /\ n # t
  BY <1>1 DEF NewTokens, NoToken
<1> DEFINE row == [session |-> s, state |-> "live"]
           old == [token[t] EXCEPT !.state = "replaced"]
<1>5. row \in [session : Session \union {0}, state : TokenState] /\ row.session = s /\ row.state = "live"
  BY DEF TokenState
<1>6. old \in [session : Session \union {0}, state : TokenState] /\ old.session = s /\ old.state = "replaced"
  BY <1>2 DEF TokenState, TypeInv, TypeOK
<1>7. token'[n] = row /\ token'[t] = old /\ \A u \in Token \ {n, t} : token'[u] = token[u]
  BY <1>3, <1>4 DEF TypeInv, TypeOK
<1>8. token' = [u \in Token |-> token'[u]]
  BY <1>3 DEF TypeInv, TypeOK
<1>12. token'[n] = [session |-> token[t].session, state |-> "live"]
  BY <1>2, <1>7
<1> HIDE DEF row, old
<1>9. token' \in [Token -> [session : Session \union {0}, state : TokenState]]
  BY <1>4, <1>5, <1>6, <1>7, <1>8 DEF TypeInv, TypeOK
<1>13. status' = status
  BY DEF Rotate
<1>10. Persists
  BY <1>4, <1>5, <1>6, <1>7, <1>2, <1>13 DEF Persists, NoToken
<1>11. TokenInv'
  BY <1>2, <1>4, <1>5, <1>6, <1>7, <1>13 DEF TypeInv, TokenInv, NoToken
<1> QED BY <1>1, <1>2, <1>4, <1>6, <1>7, <1>9, <1>10, <1>11, <1>12

LEMMA RevokeStep ==
  ASSUME TypeInv, NEW r \in Request, Revoke(r)
  PROVE  /\ status' \in [Session -> SessionStatus] /\ family' \subseteq Session
         /\ token' \in [Token -> [session : Session \union {0}, state : TokenState]]
         /\ TokenInv' /\ Persists
         /\ \A t \in Token :
              /\ token'[t].session = token[t].session
              /\ token'[t] = token[t] \/ (<<"token", t>> \in marked[r] /\ token'[t].state = "revoked")
<1>1. ASSUME NEW t \in Token
      PROVE  /\ token'[t] \in [session : Session \union {0}, state : TokenState]
             /\ token'[t].session = token[t].session
             /\ token'[t] = token[t] \/ (<<"token", t>> \in marked[r] /\ token'[t].state = "revoked")
  <2>1. token[t] \in [session : Session \union {0}, state : TokenState]
    BY DEF TypeInv, TypeOK
  <2> DEFINE old == [token[t] EXCEPT !.state = "revoked"]
  <2>2. /\ old \in [session : Session \union {0}, state : TokenState]
        /\ old.session = token[t].session /\ old.state = "revoked"
    BY <2>1 DEF TokenState
  <2>3. token'[t] = IF <<"token", t>> \in marked[r] THEN old ELSE token[t]
    BY DEF Revoke
  <2> HIDE DEF old
  <2> QED BY <2>1, <2>2, <2>3
<1>2. token' = [t \in Token |-> token'[t]]
  BY DEF Revoke
<1>3. token' \in [Token -> [session : Session \union {0}, state : TokenState]]
  BY <1>1, <1>2
<1>4. /\ status' \in [Session -> SessionStatus] /\ family' \subseteq Session
      /\ \A s \in Session : status[s] # "none" => status'[s] # "none"
  BY DEF Revoke, TypeInv, TypeOK, SessionStatus
<1>5. \A t \in Token : token'[t].state # "none" => token[t].state # "none"
  BY <1>1 DEF TypeInv, MarkedTokens
<1>6. Persists
  BY <1>1, <1>4 DEF Persists
<1>7. TokenInv'
  BY <1>1, <1>4, <1>5 DEF TypeInv, TokenInv
<1> QED BY <1>1, <1>3, <1>4, <1>6, <1>7

\* A call begins with its statements, its rows and what it says of sessions.
LEMMA BeginStep ==
  ASSUME TypeInv, NEW r \in Request, NEW c \in Call, NEW statements, NEW rows \in SUBSET Row,
         Begin(r, c, statements, rows), c.op # "none", statements \in RestOf(c.op),
         c.op \in {"refresh", "reuse", "logout"} => \A s \in c.scope : status[s] # "none",
         c.op = "refresh" => c.token \in Token /\ token[c.token].state # "none"
  PROVE  TypeInv'
<1>1. /\ call' = [call EXCEPT ![r] = c] /\ rest' = [rest EXCEPT ![r] = statements]
      /\ plan' = [plan EXCEPT ![r] = rows] /\ UNCHANGED <<tables, held, marked>> /\ call[r] = NoCall
  BY DEF Begin, Idle
<1>2. statements \in Seq(Statement)
  BY RestType
<1>3. TypeOK'
  BY <1>1, <1>2 DEF TypeInv, TypeOK, Statement, tables
<1>4. TokenInv' /\ MarkedTokens' /\ Persists
  BY <1>1 DEF TypeInv, TokenInv, MarkedTokens, Persists, tables
<1>5. \A q \in Request \ {r} : CallInv(q)'
  BY <1>1, <1>4, OthersCall DEF TypeInv, TypeOK
<1>6. marked[r] = {}
  BY <1>1 DEF TypeInv, CallInv, NoCall
<1>7. call'[r] = c /\ rest'[r] = statements /\ marked'[r] = {} /\ status' = status /\ token' = token
  BY <1>1, <1>6 DEF TypeInv, TypeOK, tables
<1>8. CallInv(r)'
  BY <1>7 DEF CallInv
<1> QED BY <1>3, <1>4, <1>5, <1>8 DEF TypeInv

LEMMA SelectedRows == \A table, scope : Selected(table, scope) \subseteq Row
BY DEF Selected

\* What is selected in each table
LEMMA SelectsToken ==
  ASSUME NEW table \in Table, NEW scope, NEW t, Selects(table, scope, <<"token", t>>)
  PROVE  table = "token" /\ t \in Token /\ IsLive(t) /\ token[t].session \in scope
<1> DEFINE x == <<"token", t>>
<1>1. x[1] = "token" /\ x[2] = t
  OBVIOUS
<1>2. table = "token"
  BY <1>1 DEF Selects
<1> QED BY <1>1, <1>2 DEF Selects

\* A call that ends and leaves sessions and tokens there.
LEMMA FinishStep ==
  ASSUME TypeInv, NEW r \in Request, Finish(r), Persists,
         status' \in [Session -> SessionStatus], family' \subseteq Session,
         token' \in [Token -> [session : Session \union {0}, state : TokenState]],
         overlapped' \subseteq Session, TokenInv'
  PROVE  TypeInv'
<1>1. TypeOK'
  BY FinishType DEF TypeInv, TypeOK, Statement
<1>2. MarkedTokens'
  BY FinishType DEF TypeInv, MarkedTokens, Persists
<1> QED BY <1>1, <1>2, FinishCalls DEF TypeInv

LEMMA StepType == TypeInv /\ [Next]_vars => TypeInv'
<1> SUFFICES ASSUME TypeInv, [Next]_vars PROVE TypeInv'
  OBVIOUS
<1>0. TypeOK /\ TokenInv /\ MarkedTokens
  BY DEF TypeInv
<1>1. CASE Login
  <2>1. UNCHANGED <<family, call, rest, plan, held, marked>>
    BY <1>1 DEF Login
  <2>2. TypeOK' /\ TokenInv' /\ Persists
    BY <1>0, <1>1, <2>1, LoginStep DEF TypeOK
  <2>3. MarkedTokens'
    BY <1>0, <2>1, <2>2 DEF MarkedTokens, Persists
  <2>4. \A q \in Request : CallInv(q)'
    BY <2>1, <2>2, OthersCall
  <2> QED BY <2>2, <2>3, <2>4 DEF TypeInv
<1>2. ASSUME NEW r \in Request, BeginRefresh(r) PROVE TypeInv'
  <2>1. PICK t \in Token :
          /\ token[t] # NoToken
          /\ Begin(r, [op |-> "refresh", scope |-> {token[t].session}, token |-> t,
                       familySeen |-> family \intersect {token[t].session}],
                   <<"lockToken", "lockSession">>, {<<"token", t>>})
    BY <1>2 DEF BeginRefresh
  <2>2. token[t].state # "none" /\ token[t].session \in Session /\ status[token[t].session] # "none"
    BY <1>0, <2>1 DEF TokenInv
  <2> DEFINE c == [op |-> "refresh", scope |-> {token[t].session}, token |-> t,
                   familySeen |-> family \intersect {token[t].session}]
  <2>3. c \in Call /\ c.op = "refresh" /\ c.token = t /\ c.scope = {token[t].session}
    BY <2>2 DEF Call
  <2> HIDE DEF c
  <2>4. {<<"token", t>>} \in SUBSET Row
    BY DEF Row, Table
  <2>5. Begin(r, c, <<"lockToken", "lockSession">>, {<<"token", t>>})
    BY <2>1 DEF c
  <2>6. <<"lockToken", "lockSession">> \in RestOf(c.op)
    BY <2>3 DEF RestOf
  <2>7. \A s \in c.scope : status[s] # "none"
    BY <2>2, <2>3
  <2> QED BY <2>2, <2>3, <2>4, <2>5, <2>6, <2>7, BeginStep
<1>3. ASSUME NEW r \in Request, BeginLogout(r) \/ BeginLogoutAll(r) PROVE TypeInv'
  <2>1. PICK c \in Call, rows \in SUBSET Row :
          /\ c.op \in {"logout", "logoutAll"}
          /\ Begin(r, c, <<"session", "family", "token">>, rows)
          /\ c.op = "logout" => \A s \in c.scope : status[s] # "none"
    <3>1. CASE BeginLogout(r)
      <4>1. PICK s \in Session :
              /\ status[s] # "none"
              /\ Begin(r, [NoCall EXCEPT !.op = "logout", !.scope = {s}],
                       LogoutOrder, Selected(Head(LogoutOrder), {s}))
        BY <3>1 DEF BeginLogout
      <4> DEFINE c == [NoCall EXCEPT !.op = "logout", !.scope = {s}]
      <4>2. c \in Call /\ c.op = "logout" /\ c.scope = {s}
        BY DEF NoCall, Call
      <4> HIDE DEF c
      <4>3. Begin(r, c, <<"session", "family", "token">>, Selected(Head(LogoutOrder), {s}))
        BY <4>1 DEF c, LogoutOrder
      <4> QED BY <4>1, <4>2, <4>3, SelectedRows
    <3>2. CASE BeginLogoutAll(r)
      <4> DEFINE c == [NoCall EXCEPT !.op = "logoutAll", !.scope = Session]
      <4>1. Begin(r, c, <<"session", "family", "token">>, Selected(Head(LogoutAllOrder), Session))
        BY <3>2 DEF BeginLogoutAll, LogoutAllOrder
      <4>2. c \in Call /\ c.op = "logoutAll"
        BY DEF NoCall, Call
      <4> HIDE DEF c
      <4> QED BY <4>1, <4>2, SelectedRows
    <3> QED BY <1>3, <3>1, <3>2
  <2>2. <<"session", "family", "token">> \in RestOf(c.op)
    BY <2>1 DEF RestOf
  <2> QED BY <2>1, <2>2, BeginStep
\* One call moves on, and marks rows that it selects.
<1>4. ASSUME NEW r \in Request, UNCHANGED tables,
             call' \in [Request -> Call], rest'[r] \in RestOf(call'[r].op),
             rest' \in [Request -> Seq(Statement)],
             plan' \in [Request -> SUBSET Row], held' \in [Request -> SUBSET Row],
             marked' \in [Request -> SUBSET Row],
             call[r].op # "none", call'[r].op \in {call[r].op, "reuse"}, call'[r].op # "refresh" \/ UNCHANGED marked,
             call'[r].scope = call[r].scope, call'[r].token = call[r].token,
             call[r].op = "refresh" \/ UNCHANGED call,
             \A t \in Token : <<"token", t>> \in marked'[r] => token[t].state # "none",
             \A q \in Request \ {r} :
               /\ call'[q] = call[q] /\ rest'[q] = rest[q] /\ plan'[q] = plan[q]
               /\ held'[q] = held[q] /\ marked'[q] = marked[q]
      PROVE  TypeInv'
  <2>1. TypeOK' /\ TokenInv' /\ Persists
    BY <1>0, <1>4 DEF TypeOK, TokenInv, Persists, tables, Statement
  <2>2. MarkedTokens'
    BY <1>0, <1>4 DEF MarkedTokens, tables
  <2>3. \A q \in Request \ {r} : CallInv(q)'
    BY <1>4, <2>1, OthersCall
  <2>4. CallInv(r) /\ status' = status /\ token' = token /\ call'[r].op # "none"
    BY <1>4 DEF TypeInv, tables
  <2>5. CallInv(r)'
    BY <1>4, <2>4 DEF CallInv, tables
  <2> QED BY <2>1, <2>2, <2>3, <2>5 DEF TypeInv
<1>5. ASSUME NEW r \in Request, LockRow(r) PROVE TypeInv'
  <2>1. call[r].op \in Revoking
    BY <1>5, MarkingRevokes DEF LockRow
  <2>2. PICK x \in Wanted(r) :
          /\ held' = [held EXCEPT ![r] = @ \union {x}]
          /\ plan' = [plan EXCEPT ![r] = @ \ {x}]
          /\ marked' = [marked EXCEPT ![r] =
               IF Selects(Head(rest[r]), call[r].scope, x) THEN @ \union {x} ELSE @]
    BY <1>5 DEF LockRow
  <2>3. x \in Row
    BY <1>0 DEF Wanted, First, TypeOK
  <2>4. \A t \in Token : x = <<"token", t>> /\ Selects(Head(rest[r]), call[r].scope, x)
                           => token[t].state # "none"
    <3>1. Head(rest[r]) \in Table
      BY <1>5 DEF LockRow
    <3> QED BY <3>1, SelectsToken DEF IsLive
  <2>5. \A t \in Token : <<"token", t>> \in marked'[r] => token[t].state # "none"
    BY <1>0, <2>2, <2>4 DEF TypeOK, MarkedTokens
  <2>6. /\ UNCHANGED <<tables, call, rest>>
        /\ plan' \in [Request -> SUBSET Row] /\ held' \in [Request -> SUBSET Row]
        /\ marked' \in [Request -> SUBSET Row]
        /\ \A q \in Request \ {r} : plan'[q] = plan[q] /\ held'[q] = held[q] /\ marked'[q] = marked[q]
    BY <1>0, <1>5, <2>2, <2>3 DEF LockRow, TypeOK
  <2>7. rest[r] \in RestOf(call[r].op) /\ call \in [Request -> Call] /\ rest \in [Request -> Seq(Statement)]
    BY <1>0 DEF TypeInv, CallInv, TypeOK, Statement
  <2> QED BY <1>4, <2>1, <2>5, <2>6, <2>7 DEF Revoking
<1>6. ASSUME NEW r \in Request, StatementDone(r) PROVE TypeInv'
  <2>1. call[r].op \in Revoking /\ rest[r] \in RestOf(call[r].op) /\ rest[r] # <<>>
    BY <1>6, MarkingRevokes DEF StatementDone, TypeInv, CallInv
  <2>2. Tail(rest[r]) \in RestOf(call[r].op) /\ Tail(rest[r]) \in Seq(Statement)
    BY <2>1, RestSteps, RestType
  <2>3. PICK rows \in SUBSET Row : plan' = [plan EXCEPT ![r] = rows]
    <3>1. {} \in SUBSET Row /\ Selected(rest[r][2], call[r].scope) \in SUBSET Row
      BY SelectedRows
    <3> QED BY <1>6, <3>1 DEF StatementDone, NextStatement
  <2>4. rest' = [rest EXCEPT ![r] = Tail(rest[r])] /\ UNCHANGED <<tables, call, held, marked>>
    BY <1>6 DEF StatementDone, NextStatement
  <2>5. /\ plan' \in [Request -> SUBSET Row] /\ rest' \in [Request -> Seq(Statement)]
        /\ rest'[r] = Tail(rest[r])
        /\ \A q \in Request \ {r} : plan'[q] = plan[q] /\ rest'[q] = rest[q]
    BY <1>0, <2>2, <2>3, <2>4 DEF TypeOK, Statement
  <2>6. \A t \in Token : <<"token", t>> \in marked'[r] => token[t].state # "none"
    BY <1>0, <2>4 DEF MarkedTokens
  <2> QED BY <1>0, <1>4, <2>1, <2>2, <2>4, <2>5, <2>6 DEF Revoking, TypeOK
<1>7. ASSUME NEW r \in Request, LockToken(r) PROVE TypeInv'
  <2>1. call[r].op = "refresh" /\ Tail(rest[r]) = <<"lockSession">> /\ call[r].token \in Token
        /\ marked[r] = {} /\ UNCHANGED <<tables, marked>>
    BY <1>7, RefreshingRefreshes DEF LockToken, TypeInv, CallInv
  <2>2. PICK t \in Token : t = call[r].token
    BY <2>1
  <2>3. held' \in [Request -> SUBSET Row] /\ \A q \in Request \ {r} : held'[q] = held[q]
    <3>1. <<"token", t>> \in Row
      BY DEF Row, Table
    <3> QED BY <1>0, <1>7, <2>2, <3>1 DEF LockToken, LockedToken, TypeOK
  <2>4. \A u \in Token : <<"token", u>> \in marked'[r] => token[u].state # "none"
    BY <2>1
  <2>5. CASE /\ call' = [call EXCEPT ![r].op = "reuse"]
             /\ rest' = [rest EXCEPT ![r] = ReuseOrder]
             /\ plan' = [plan EXCEPT ![r] = Selected(Head(ReuseOrder), call[r].scope)]
    <3> DEFINE c == [call[r] EXCEPT !.op = "reuse"]
    <3>1. /\ c \in Call /\ c.op = "reuse" /\ c.scope = call[r].scope /\ c.token = call[r].token
          /\ call' = [call EXCEPT ![r] = c]
      BY <1>0, <2>5 DEF TypeOK, Call
    <3> HIDE DEF c
    <3>2. ReuseOrder \in RestOf("reuse")
      BY DEF ReuseOrder, RestOf
    <3>3. ReuseOrder \in Seq(Statement)
      BY <3>2, RestType
    <3>4. /\ call' \in [Request -> Call] /\ rest' \in [Request -> Seq(Statement)]
          /\ plan' \in [Request -> SUBSET Row]
          /\ call'[r] = c /\ rest'[r] = ReuseOrder
          /\ \A q \in Request \ {r} : call'[q] = call[q] /\ rest'[q] = rest[q] /\ plan'[q] = plan[q]
      BY <1>0, <2>5, <3>1, <3>3, SelectedRows DEF TypeOK, Statement
    <3> QED BY <1>0, <1>4, <2>1, <2>3, <2>4, <3>1, <3>2, <3>4 DEF TypeOK
  <2>6. CASE /\ rest' = [rest EXCEPT ![r] = Tail(@)]
             /\ plan' = [plan EXCEPT ![r] = {<<"session", token[t].session>>}]
             /\ UNCHANGED call
    <3>1. token[t].session \in Session
      BY <1>0, <2>1, <2>2 DEF TypeInv, CallInv, TokenInv
    <3>2. {<<"session", token[t].session>>} \in SUBSET Row
      BY <3>1 DEF Row, Table
    <3>3. <<"lockSession">> \in RestOf("refresh")
      BY DEF RestOf
    <3>4. <<"lockSession">> \in Seq(Statement)
      BY <3>3, RestType
    <3>5. /\ rest' \in [Request -> Seq(Statement)] /\ plan' \in [Request -> SUBSET Row]
          /\ rest'[r] = <<"lockSession">>
          /\ \A q \in Request \ {r} : rest'[q] = rest[q] /\ plan'[q] = plan[q]
      BY <1>0, <2>1, <2>6, <3>2, <3>4 DEF TypeOK, Statement
    <3> QED BY <1>0, <1>4, <2>1, <2>3, <2>4, <2>6, <3>3, <3>5 DEF TypeOK
  <2> QED BY <1>7, <2>2, <2>5, <2>6 DEF LockToken
<1>8. ASSUME NEW r \in Request, Revoke(r) PROVE TypeInv'
  <2>1. Finish(r) /\ UNCHANGED overlapped
    BY <1>8 DEF Revoke
  <2> QED BY <1>0, <1>8, <2>1, RevokeStep, FinishStep DEF TypeOK
<1>9. ASSUME NEW r \in Request, Rotate(r) PROVE TypeInv'
  <2>1. Finish(r) /\ UNCHANGED <<status, family, overlapped>>
    BY <1>9 DEF Rotate
  <2> QED BY <1>0, <1>9, <2>1, RotateStep, FinishStep DEF TypeOK
<1>10. ASSUME NEW r \in Request, Finish(r), UNCHANGED tables PROVE TypeInv'
  <2>1. Persists /\ TokenInv'
    BY <1>0, <1>10 DEF Persists, TokenInv, tables
  <2> QED BY <1>0, <1>10, <2>1, FinishStep DEF TypeOK, tables
<1>11. CASE UNCHANGED vars
  <2>1. TypeOK' /\ TokenInv' /\ MarkedTokens' /\ Persists
    BY <1>0, <1>11 DEF vars, tables, TypeOK, TokenInv, MarkedTokens, Persists
  <2>2. \A q \in Request : CallInv(q)'
    BY <1>11, <2>1, OthersCall DEF vars
  <2> QED BY <2>1, <2>2 DEF TypeInv
<1>12. ASSUME NEW r \in Request, Serve(r) \/ Abort(r) PROVE TypeInv'
  BY <1>5, <1>6, <1>7, <1>8, <1>9, <1>10, <1>12
     DEF Serve, LogoutAgain, RefuseToken, RefuseRotation, BreakDeadlock, Abort
<1> QED BY <1>1, <1>2, <1>3, <1>11, <1>12 DEF Next

\* The types of sessions, tokens and calls, whatever the instance.
THEOREM TypeCorrect == Spec => []TypeOK
<1>1. TypeInv => TypeOK
  BY DEF TypeInv
<1> QED BY InitType, StepType, <1>1, PTL DEF Spec

-----------------------------------------------------------------------------
\* Locks and tokens

\* A token under rotation is live and locked, and so is a token that is marked.
LockInv ==
  /\ \A r, q \in Request : r # q => held[r] \intersect held[q] = {}
  /\ \A r \in Request : marked[r] \subseteq held[r]
  /\ \A r \in Request, t \in Token : <<"token", t>> \in marked[r] => IsLive(t)
  /\ \A r \in Request :
       rest[r] = <<"lockSession">> =>
         IsLive(call[r].token) /\ <<"token", call[r].token>> \in held[r]

OneLive ==
  \A t, u \in Token : IsLive(t) /\ IsLive(u) /\ token[t].session = token[u].session => t = u

\* Nobody else changes a token that a transaction has locked.
LockedStay(q) ==
  \A t \in Token : IsLive(t) /\ <<"token", t>> \in held[q] => token'[t] = token[t]

LEMMA LockStep ==
  ASSUME TypeInv, LockInv, NEW r \in Request, NEW rows \in SUBSET Row,
         \A x \in rows : Free(r, x),
         held'[r] \subseteq held[r] \union rows, marked'[r] \subseteq held'[r],
         \A t \in Token : <<"token", t>> \in marked'[r] => token'[t].state = "live",
         rest'[r] = <<"lockSession">> =>
           token'[call'[r].token].state = "live" /\ <<"token", call'[r].token>> \in held'[r],
         \A q \in Request \ {r} :
           /\ held'[q] = held[q] /\ marked'[q] = marked[q] /\ rest'[q] = rest[q] /\ call'[q] = call[q]
           /\ LockedStay(q)
  PROVE  LockInv'
<1>1. \A q, s \in Request : q # s => held'[q] \intersect held'[s] = {}
  BY DEF LockInv, Free
<1>2. \A q \in Request : marked'[q] \subseteq held'[q]
  BY DEF LockInv
<1>3. ASSUME NEW q \in Request, NEW t \in Token, <<"token", t>> \in marked'[q]
      PROVE  token'[t].state = "live"
  <2>1. CASE q = r
    BY <1>3, <2>1
  <2>2. CASE q # r
    <3>1. <<"token", t>> \in marked[q] /\ IsLive(t) /\ <<"token", t>> \in held[q]
      BY <1>3, <2>2 DEF LockInv
    <3> QED BY <2>2, <3>1 DEF LockedStay, IsLive
  <2> QED BY <2>1, <2>2
<1>4. ASSUME NEW q \in Request, rest'[q] = <<"lockSession">>
      PROVE  token'[call'[q].token].state = "live" /\ <<"token", call'[q].token>> \in held'[q]
  <2>1. CASE q = r
    BY <1>4, <2>1
  <2>2. CASE q # r
    <3>1. rest[q] = <<"lockSession">>
      BY <1>4, <2>2
    <3>2. call[q].token \in Token
      BY <3>1, RefreshingRefreshes, RefreshRests
    <3> QED BY <2>2, <3>1, <3>2 DEF LockInv, LockedStay, IsLive
  <2> QED BY <2>1, <2>2
<1> QED BY <1>1, <1>2, <1>3, <1>4 DEF LockInv, IsLive

LEMMA InitLock == Init => LockInv /\ OneLive
BY DEF Init, LockInv, OneLive, IsLive, NoToken

LEMMA StepLock == TypeInv /\ LockInv /\ [Next]_vars => LockInv'
<1> SUFFICES ASSUME TypeInv, LockInv, [Next]_vars PROVE LockInv'
  OBVIOUS
<1>0. TypeOK
  BY DEF TypeInv
<1>1. CASE Login
  <2>1. PICK s \in Session, n \in NewTokens :
          /\ token' = [token EXCEPT ![n] = [session |-> s, state |-> "live"]]
          /\ UNCHANGED <<call, rest, held, marked>>
    BY <1>1 DEF Login
  <2>2. \A t \in Token : IsLive(t) => token'[t] = token[t]
    BY <1>0, <2>1 DEF NewTokens, NoToken, IsLive, TypeOK
  <2>3. ASSUME NEW q \in Request, rest[q] = <<"lockSession">> PROVE call[q].token \in Token
    BY <2>3, RefreshingRefreshes, RefreshRests
  <2> QED BY <2>1, <2>2, <2>3 DEF LockInv, IsLive
<1>2. ASSUME NEW r \in Request, NEW c, NEW statements, NEW rows, Begin(r, c, statements, rows),
             statements # <<"lockSession">>
      PROVE  LockInv'
  <2>1. UNCHANGED <<tables, held, marked>> /\ rest'[r] # <<"lockSession">>
        /\ \A q \in Request \ {r} : call'[q] = call[q] /\ rest'[q] = rest[q]
    BY <1>0, <1>2 DEF Begin, TypeOK
  <2>2. \A q \in Request \ {r} : LockedStay(q)
    BY <2>1 DEF LockedStay, tables
  <2> QED BY <2>1, <2>2, LockStep DEF LockInv, IsLive, tables
<1>3. ASSUME NEW r \in Request, BeginRefresh(r) \/ BeginLogout(r) \/ BeginLogoutAll(r) PROVE LockInv'
  <2>1. /\ <<"lockToken", "lockSession">> # <<"lockSession">>
        /\ <<"session", "family", "token">> # <<"lockSession">>
    OBVIOUS
  <2>2. CASE BeginRefresh(r)
    BY <1>2, <2>1, <2>2 DEF BeginRefresh
  <2>3. CASE BeginLogout(r)
    BY <1>2, <2>1, <2>3 DEF BeginLogout, LogoutOrder
  <2>4. CASE BeginLogoutAll(r)
    BY <1>2, <2>1, <2>4 DEF BeginLogoutAll, LogoutAllOrder
  <2> QED BY <1>3, <2>2, <2>3, <2>4
<1>4. ASSUME NEW r \in Request, LockRow(r) PROVE LockInv'
  <2>1. PICK x \in Wanted(r) :
          /\ Free(r, x)
          /\ held' = [held EXCEPT ![r] = @ \union {x}]
          /\ marked' = [marked EXCEPT ![r] =
               IF Selects(Head(rest[r]), call[r].scope, x) THEN @ \union {x} ELSE @]
    BY <1>4 DEF LockRow
  <2>2. x \in Row /\ UNCHANGED <<tables, call, rest>>
    BY <1>0, <1>4 DEF Wanted, First, TypeOK, LockRow
  <2>3. \A t \in Token : <<"token", t>> \in marked'[r] => IsLive(t)
    <3>1. Head(rest[r]) \in Table
      BY <1>4 DEF LockRow
    <3> QED BY <1>0, <2>1, <3>1, SelectsToken DEF LockInv, TypeOK
  <2>4. \A q \in Request \ {r} : held'[q] = held[q] /\ marked'[q] = marked[q] /\ LockedStay(q)
    BY <1>0, <2>1, <2>2 DEF LockedStay, TypeOK, tables
  <2>5. held'[r] = held[r] \union {x} /\ marked'[r] \subseteq held'[r]
    BY <1>0, <2>1 DEF TypeOK, LockInv
  <2>6. rest[r] # <<"lockSession">>
    BY <1>4, RefreshRests DEF LockRow, Table
  <2> DEFINE rows == {x}
  <2>7. rows \in SUBSET Row /\ (\A y \in rows : Free(r, y)) /\ held'[r] \subseteq held[r] \union rows
    BY <2>1, <2>2, <2>5
  <2>8. token' = token /\ rest' = rest /\ call' = call
    BY <2>2 DEF tables
  <2> HIDE DEF rows
  <2> QED BY <2>3, <2>4, <2>5, <2>6, <2>7, <2>8, LockStep DEF IsLive
<1>5. ASSUME NEW r \in Request, StatementDone(r) PROVE LockInv'
  <2>1. /\ UNCHANGED <<tables, call, held, marked>> /\ rest'[r] = Tail(rest[r])
        /\ \A q \in Request \ {r} : rest'[q] = rest[q] /\ LockedStay(q)
    BY <1>0, <1>5 DEF StatementDone, NextStatement, TypeOK, LockedStay, tables
  <2>2. rest'[r] # <<"lockSession">>
    <3>1. call[r].op \in Revoking /\ rest[r] \in RestOf(call[r].op) /\ rest[r] # <<>>
      BY <1>5, MarkingRevokes DEF StatementDone, TypeInv, CallInv
    <3>2. Tail(rest[r]) # <<>> => Head(Tail(rest[r])) \in Table
      BY <3>1, RestSteps
    <3> QED BY <2>1, <3>2, RefreshRests DEF Table
  <2> QED BY <2>1, <2>2, LockStep DEF LockInv, IsLive, tables
<1>6. ASSUME NEW r \in Request, LockToken(r) PROVE LockInv'
  <2>1. PICK t \in Token : t = call[r].token
    BY <1>6, RefreshingRefreshes DEF LockToken
  <2>2. /\ UNCHANGED <<tables, marked>> /\ held'[r] = held[r] \union {<<"token", t>>}
        /\ Free(r, <<"token", t>>) /\ <<"token", t>> \in Row
        /\ \A q \in Request \ {r} : held'[q] = held[q] /\ rest'[q] = rest[q] /\ call'[q] = call[q]
    BY <1>0, <1>6, <2>1 DEF LockToken, LockedToken, TypeOK, Row, Table
  <2>3. rest'[r] = <<"lockSession">> => IsLive(t) /\ call'[r] = call[r]
    <3>1. ReuseOrder # <<"lockSession">>
      BY DEF ReuseOrder
    <3> QED BY <1>0, <1>6, <2>1, <3>1 DEF LockToken, TypeOK
  <2>4. \A q \in Request \ {r} : LockedStay(q)
    BY <2>2 DEF LockedStay, tables
  <2>5. marked'[r] \subseteq held'[r] /\ \A u \in Token : <<"token", u>> \in marked'[r] => IsLive(u)
    BY <2>2 DEF LockInv
  <2> DEFINE rows == {<<"token", t>>}
  <2>6. rows \in SUBSET Row /\ \A x \in rows : Free(r, x)
    BY <2>2
  <2>7. token' = token
    BY <2>2 DEF tables
  <2> QED BY <2>1, <2>2, <2>3, <2>4, <2>5, <2>6, <2>7, LockStep DEF IsLive
\* A call ends, and changes only tokens that it has locked or that are new.
<1>7. ASSUME NEW r \in Request, Finish(r), \A q \in Request \ {r} : LockedStay(q) PROVE LockInv'
  <2>1. /\ held'[r] = {} /\ marked'[r] = {} /\ rest'[r] = <<>>
        /\ \A q \in Request \ {r} :
             /\ held'[q] = held[q] /\ marked'[q] = marked[q] /\ rest'[q] = rest[q]
             /\ call'[q] = call[q] /\ LockedStay(q)
    BY <1>0, <1>7, FinishType
  <2>2. rest'[r] # <<"lockSession">>
    BY <2>1, RefreshRests
  <2> QED BY <2>1, <2>2, LockStep
<1>8. ASSUME NEW r \in Request, Finish(r), UNCHANGED tables PROVE LockInv'
  BY <1>7, <1>8 DEF LockedStay, tables
<1>9. ASSUME NEW r \in Request, Revoke(r) PROVE LockInv'
  <2>1. \A q \in Request \ {r} : LockedStay(q)
    BY <1>9, RevokeStep DEF LockedStay, LockInv
  <2> QED BY <1>7, <1>9, <2>1 DEF Revoke
<1>10. ASSUME NEW r \in Request, Rotate(r) PROVE LockInv'
  <2>1. rest[r] = <<"lockSession">>
    <3>1. rest[r] \in RestOf("refresh")
      BY <1>10, RefreshingRefreshes DEF Rotate, TypeInv, CallInv
    <3> QED BY <1>10, <3>1, RefreshRests DEF RestOf, Rotate
  <2>2. PICK t \in Token, n \in Token :
          /\ t = call[r].token /\ token[n] = NoToken
          /\ \A u \in Token \ {n, t} : token'[u] = token[u]
    BY <1>10, RotateStep
  <2>3. \A q \in Request \ {r} : LockedStay(q)
    <3>1. <<"token", t>> \in held[r] /\ ~IsLive(n)
      BY <2>1, <2>2 DEF LockInv, IsLive, NoToken
    <3> QED BY <2>2, <3>1 DEF LockedStay, LockInv
  <2> QED BY <1>7, <1>10, <2>3 DEF Rotate
<1>11. CASE UNCHANGED vars
  BY <1>11 DEF vars, tables, LockInv, IsLive
<1>12. ASSUME NEW r \in Request, Serve(r) \/ Abort(r) PROVE LockInv'
  BY <1>4, <1>5, <1>6, <1>8, <1>9, <1>10, <1>12
     DEF Serve, LogoutAgain, RefuseToken, RefuseRotation, BreakDeadlock, Abort
<1> QED BY <1>1, <1>3, <1>11, <1>12 DEF Next

\* A session has one token that can be rotated, before a rotation and after it.
LEMMA StepLive == TypeInv /\ LockInv /\ OneLive /\ [Next]_vars => OneLive'
<1> SUFFICES ASSUME TypeInv, LockInv, OneLive, [Next]_vars PROVE OneLive'
  OBVIOUS
<1>1. CASE Login
  <2>1. PICK s \in Session, n \in NewTokens :
          /\ status[s] = "none"
          /\ token' = [token EXCEPT ![n] = [session |-> s, state |-> "live"]]
    BY <1>1 DEF Login
  <2>2. \A t \in Token : IsLive(t) => token[t].session # s
    BY <2>1 DEF TypeInv, TokenInv, IsLive
  <2>3. n \in Token /\ token'[n].session = s /\ \A t \in Token \ {n} : token'[t] = token[t]
    BY <2>1 DEF NewTokens, TypeInv, TypeOK
  <2> QED BY <2>2, <2>3 DEF OneLive, IsLive
<1>2. ASSUME NEW r \in Request, Rotate(r) PROVE OneLive'
  <2>1. rest[r] = <<"lockSession">>
    <3>1. rest[r] \in RestOf("refresh")
      BY <1>2, RefreshingRefreshes DEF Rotate, TypeInv, CallInv
    <3> QED BY <1>2, <3>1, RefreshRests DEF RestOf, Rotate
  <2>2. PICK t \in Token, n \in Token :
          /\ t = call[r].token /\ n # t
          /\ token'[n] = [session |-> token[t].session, state |-> "live"]
          /\ token'[t].state = "replaced"
          /\ \A u \in Token \ {n, t} : token'[u] = token[u]
    BY <1>2, RotateStep
  <2>3. IsLive(t) /\ token'[n].session = token[t].session
    <3>1. IsLive(call[r].token)
      BY <2>1 DEF LockInv
    <3>2. token'[n].session = token[t].session
      BY <2>2
    <3> QED BY <2>2, <3>1, <3>2
  <2>4. \A u \in Token : token'[u].state = "live" => u # t
    BY <2>2
  <2>5. \A u \in Token \ {n} : token'[u].state = "live" =>
          IsLive(u) /\ token'[u].session = token[u].session /\ token[u].session # token[t].session
    BY <2>2, <2>3, <2>4 DEF OneLive, IsLive
  <2> QED BY <2>3, <2>5 DEF OneLive, IsLive
<1>3. ASSUME NEW r \in Request, Revoke(r) PROVE OneLive'
  <2>1. \A t \in Token : token'[t].state = "live" => token'[t] = token[t]
    BY <1>3, RevokeStep
  <2> QED BY <2>1 DEF OneLive, IsLive
<1>4. CASE token' = token
  BY <1>4 DEF OneLive, IsLive
<1>5. Login \/ (\E r \in Request : Rotate(r) \/ Revoke(r)) \/ token' = token
  BY DEF Next, Serve, BeginRefresh, BeginLogout, BeginLogoutAll, Begin, LockRow, StatementDone,
         LogoutAgain, LockToken, RefuseToken, RefuseRotation, BreakDeadlock, Abort, vars, tables
<1> QED BY <1>1, <1>2, <1>3, <1>4, <1>5

-----------------------------------------------------------------------------
\* What a transaction has marked

AtFamily(r) == rest[r] # <<>> /\ Head(rest[r]) = "family"
AtSession(r) == rest[r] # <<>> /\ Head(rest[r]) = "session"

PastFamily(r) ==
  call[r].op \in Revoking /\
  rest[r] \in {<<"token", "session">>, <<"session">>, <<"token">>, <<>>}

PastSession(r) ==
  \/ call[r].op = "reuse" /\ rest[r] = <<>>
  \/ call[r].op \in {"logout", "logoutAll"} /\ rest[r] \in {<<"family", "token">>, <<"token">>, <<>>}

\* Sessions whose family a transaction has to revoke
Due(r) ==
  {s \in call[r].scope : call[r].op = "reuse" \/ <<"session", s>> \in marked[r]}

FamilyDone(r, s) == s \in family \/ <<"family", s>> \in marked[r]

SessionDone(r, s) == status[s] = "active" => <<"session", s>> \in marked[r] \/ s \in overlapped

PassInv(r) ==
  /\ \A s \in Session : <<"session", s>> \in marked[r] \/ <<"family", s>> \in marked[r] =>
       s \in call[r].scope /\ status[s] # "none"
  /\ \A t \in Token : <<"token", t>> \in marked[r] => token[t].session \in call[r].scope
  /\ AtFamily(r) => \A s \in Due(r) : FamilyDone(r, s) \/ <<"family", s>> \in plan[r]
  /\ AtFamily(r) => \A x \in plan[r] : \E s \in call[r].scope : x = <<"family", s>> /\ status[s] # "none"
  /\ PastFamily(r) => \A s \in Due(r) : FamilyDone(r, s)
  /\ AtSession(r) => \A s \in call[r].scope : SessionDone(r, s) \/ <<"session", s>> \in plan[r]
  /\ AtSession(r) => \A x \in plan[r] : \E s \in call[r].scope : x = <<"session", s>>
  /\ PastSession(r) => \A s \in call[r].scope : SessionDone(r, s)

\* What is revoked stays revoked, and a session that begins meets a logoutAll.
Moves ==
  /\ Persists
  /\ family \subseteq family' /\ overlapped \subseteq overlapped'
  /\ \A s \in Session : status'[s] = "active" =>
       \/ status[s] = "active"
       \/ status[s] = "none" /\ ((\E r \in Request : call[r].op = "logoutAll") => s \in overlapped')

LEMMA OthersPass ==
  ASSUME TypeInv, NEW q \in Request, PassInv(q), Moves,
         call'[q] = call[q], rest'[q] = rest[q], plan'[q] = plan[q], marked'[q] = marked[q]
  PROVE  PassInv(q)'
<1>1. call[q].scope \subseteq Session /\ call[q] \in Call
  BY DEF TypeInv, TypeOK, Call
<1>2. \A s \in call[q].scope : FamilyDone(q, s) => FamilyDone(q, s)'
  BY DEF FamilyDone, Moves
<1>3. call[q].op \in {"logout", "reuse", "logoutAll"} =>
        \A s \in call[q].scope : SessionDone(q, s) => SessionDone(q, s)'
  <2>1. CASE call[q].op = "logoutAll"
    BY <1>1, <2>1 DEF SessionDone, Moves
  <2>2. CASE call[q].op \in {"logout", "reuse"}
    <3>1. \A s \in call[q].scope : status[s] # "none"
      BY <2>2 DEF TypeInv, CallInv
    <3> QED BY <1>1, <3>1 DEF SessionDone, Moves
  <2> QED BY <2>1, <2>2
<1>4. AtSession(q) \/ PastSession(q) => call[q].op \in {"logout", "reuse", "logoutAll"}
  BY MarkingRevokes DEF AtSession, PastSession, Table, Revoking
<1>5. /\ AtFamily(q)' = AtFamily(q) /\ AtSession(q)' = AtSession(q)
      /\ PastFamily(q)' = PastFamily(q) /\ PastSession(q)' = PastSession(q)
      /\ Due(q)' = Due(q) /\ Due(q) \subseteq call[q].scope
  BY DEF AtFamily, AtSession, PastFamily, PastSession, Due
<1>6. \A t \in Token : <<"token", t>> \in marked[q] => token'[t].session = token[t].session
  BY DEF TypeInv, MarkedTokens, Moves, Persists
<1>7. \A s \in Session : status[s] # "none" => status'[s] # "none"
  BY DEF Moves, Persists
<1> QED BY <1>1, <1>2, <1>3, <1>4, <1>5, <1>6, <1>7 DEF PassInv

\* A login, a rotation and a revocation only move sessions on.
LEMMA TablesMove ==
  ASSUME TypeInv, NEW r \in Request, Login \/ Rotate(r) \/ Revoke(r) \/ UNCHANGED tables
  PROVE  Moves
<1>1. CASE Login
  <2>1. PICK s \in Session :
          /\ status[s] = "none" /\ status' = [status EXCEPT ![s] = "active"] /\ family' = family
          /\ overlapped' = IF \E q \in Request : call[q].op = "logoutAll"
                           THEN overlapped \union {s} ELSE overlapped
    BY <1>1 DEF Login
  <2> QED BY <1>1, <2>1, LoginStep DEF Moves, TypeInv, TypeOK
<1>2. CASE Rotate(r)
  BY <1>2, RotateStep DEF Moves, Rotate
<1>3. CASE Revoke(r)
  BY <1>3, RevokeStep DEF Moves, Revoke
<1>4. CASE UNCHANGED tables
  BY <1>4 DEF Moves, Persists, tables
<1> QED BY <1>1, <1>2, <1>3, <1>4

\* A call that has ended has nothing to answer for.
LEMMA IdlePass ==
  ASSUME NEW r \in Request, call'[r] = NoCall, rest'[r] = <<>>, marked'[r] = {}
  PROVE  PassInv(r)'
<1>1. NoCall.op = "none" /\ NoCall.scope = {}
  BY DEF NoCall
<1> QED BY <1>1 DEF PassInv, AtFamily, AtSession, PastFamily, PastSession, Revoking

LEMMA FinishPass ==
  ASSUME TypeInv, NEW r \in Request, Finish(r), Moves, \A q \in Request : PassInv(q)
  PROVE  \A q \in Request : PassInv(q)'
<1>1. PassInv(r)'
  BY FinishType, IdlePass DEF TypeInv
<1>2. \A q \in Request \ {r} : PassInv(q)'
  BY FinishType, OthersPass DEF TypeInv
<1> QED BY <1>1, <1>2

\* What is selected in the tables of sessions and families
LEMMA SelectedSessions ==
  ASSUME NEW scope \in SUBSET Session
  PROVE  /\ \A x \in Selected("session", scope) :
              \E s \in scope : x = <<"session", s>> /\ status[s] = "active"
         /\ \A s \in scope : status[s] = "active" => <<"session", s>> \in Selected("session", scope)
<1>1. ASSUME NEW x \in Selected("session", scope)
      PROVE  \E s \in scope : x = <<"session", s>> /\ status[s] = "active"
  <2>1. x \in Row /\ x[1] = "session" /\ x[2] \in scope /\ status[x[2]] = "active"
    BY DEF Selected, Selects
  <2> QED BY <2>1 DEF Row
<1>2. ASSUME NEW s \in scope, status[s] = "active"
      PROVE  <<"session", s>> \in Selected("session", scope)
  <2> DEFINE x == <<"session", s>>
  <2>1. x \in Row /\ x[1] = "session" /\ x[2] = s
    BY DEF Row, Table
  <2> HIDE DEF x
  <2>2. x \in Selected("session", scope)
    BY <1>2, <2>1 DEF Selected, Selects
  <2> QED BY <2>2 DEF x
<1> QED BY <1>1, <1>2

LEMMA SelectedFamilies ==
  ASSUME NEW scope \in SUBSET Session
  PROVE  /\ \A x \in Selected("family", scope) :
              \E s \in scope : x = <<"family", s>> /\ status[s] # "none"
         /\ \A s \in scope : status[s] # "none" /\ s \notin family =>
              <<"family", s>> \in Selected("family", scope)
<1>1. ASSUME NEW x \in Selected("family", scope)
      PROVE  \E s \in scope : x = <<"family", s>> /\ status[s] # "none"
  <2>1. x \in Row /\ x[1] = "family" /\ x[2] \in scope /\ status[x[2]] # "none"
    BY DEF Selected, Selects
  <2> QED BY <2>1 DEF Row
<1>2. ASSUME NEW s \in scope, status[s] # "none", s \notin family
      PROVE  <<"family", s>> \in Selected("family", scope)
  <2> DEFINE x == <<"family", s>>
  <2>1. x \in Row /\ x[1] = "family" /\ x[2] = s
    BY DEF Row, Table
  <2> HIDE DEF x
  <2>2. x \in Selected("family", scope)
    BY <1>2, <2>1 DEF Selected, Selects
  <2> QED BY <2>2 DEF x
<1> QED BY <1>1, <1>2

LEMMA InitPass == Init => \A r \in Request : PassInv(r)
<1> SUFFICES ASSUME Init, NEW r \in Request PROVE PassInv(r)
  OBVIOUS
<1>1. call[r] = NoCall /\ rest[r] = <<>> /\ marked[r] = {} /\ NoCall.op = "none" /\ NoCall.scope = {}
  BY DEF Init, NoCall
<1> QED BY <1>1 DEF PassInv, AtFamily, AtSession, PastFamily, PastSession, Revoking

\* A transaction locks a row: it marks it, or has nothing to do there.
LEMMA LockRowPass ==
  ASSUME TypeInv, NEW r \in Request, LockRow(r), PassInv(r)
  PROVE  PassInv(r)'
<1>0. /\ call[r].op \in Revoking /\ rest[r] \in RestOf(call[r].op) /\ rest[r] # <<>>
      /\ Head(rest[r]) \in Table /\ call[r].scope \subseteq Session
  BY MarkingRevokes DEF LockRow, TypeInv, TypeOK, CallInv, Call
<1>1. PICK x \in plan[r] :
        /\ plan' = [plan EXCEPT ![r] = @ \ {x}]
        /\ marked' = [marked EXCEPT ![r] =
             IF Selects(Head(rest[r]), call[r].scope, x) THEN @ \union {x} ELSE @]
  BY DEF LockRow, Wanted, First
<1>2. UNCHANGED <<tables, call, rest>>
  BY DEF LockRow
<1>3. /\ plan'[r] = plan[r] \ {x} /\ x \in Row
      /\ marked'[r] = IF Selects(Head(rest[r]), call[r].scope, x) THEN marked[r] \union {x} ELSE marked[r]
  BY <1>1 DEF TypeInv, TypeOK
<1>4. /\ AtFamily(r)' = AtFamily(r) /\ AtSession(r)' = AtSession(r)
      /\ PastFamily(r)' = PastFamily(r) /\ PastSession(r)' = PastSession(r)
  BY <1>2 DEF AtFamily, AtSession, PastFamily, PastSession
<1>5. marked[r] \subseteq marked'[r]
  BY <1>3
<1>6. x \in marked'[r] \ marked[r] => Selects(Head(rest[r]), call[r].scope, x) /\ x[1] = Head(rest[r])
  BY <1>3 DEF Selects
\* The row is marked because it is there to be revoked.
<1>7. ASSUME NEW s \in Session, <<"session", s>> \in marked'[r] \/ <<"family", s>> \in marked'[r]
      PROVE  s \in call[r].scope /\ status[s] # "none"
  <2>1. CASE <<"session", s>> \in marked[r] \/ <<"family", s>> \in marked[r]
    BY <2>1 DEF PassInv
  <2>2. CASE x = <<"session", s>> /\ Selects(Head(rest[r]), call[r].scope, x)
    BY <2>2 DEF Selects
  <2>3. CASE x = <<"family", s>> /\ Selects(Head(rest[r]), call[r].scope, x)
    BY <2>3 DEF Selects
  <2> QED BY <1>3, <1>7, <2>1, <2>2, <2>3
<1>8. ASSUME NEW t \in Token, <<"token", t>> \in marked'[r]
      PROVE  token[t].session \in call[r].scope
  BY <1>0, <1>3, <1>8, SelectsToken DEF PassInv
\* The family that was selected is marked, or has been revoked meanwhile.
<1>9. ASSUME AtFamily(r)
      PROVE  /\ \A s \in Due(r)' : FamilyDone(r, s)' \/ <<"family", s>> \in plan'[r]
             /\ \A y \in plan'[r] : \E s \in call[r].scope : y = <<"family", s>> /\ status[s] # "none"
  <2>1. Head(rest[r]) = "family"
    BY <1>9 DEF AtFamily
  <2>2. PICK s \in call[r].scope : x = <<"family", s>> /\ status[s] # "none"
    BY <1>1, <1>9 DEF PassInv
  <2>3. Due(r)' = Due(r)
    BY <1>2, <1>3, <2>2 DEF Due
  <2>4. FamilyDone(r, s)'
    <3>1. x[1] = "family" /\ x[2] = s
      BY <2>2
    <3>2. CASE s \in family
      BY <1>2, <3>2 DEF FamilyDone, tables
    <3>3. CASE s \notin family
      <4>1. Selects("family", call[r].scope, x)
        BY <2>2, <3>1, <3>3 DEF Selects
      <4> QED BY <1>3, <2>1, <2>2, <4>1 DEF FamilyDone
    <3> QED BY <3>2, <3>3
  <2>5. ASSUME NEW u \in Due(r), u # s
        PROVE  FamilyDone(r, u)' \/ <<"family", u>> \in plan'[r]
    <3>1. FamilyDone(r, u) \/ <<"family", u>> \in plan[r]
      BY <1>9 DEF PassInv
    <3>2. <<"family", u>> # x
      BY <2>2, <2>5
    <3> QED BY <1>2, <1>3, <1>5, <3>1, <3>2 DEF FamilyDone, tables
  <2>6. \A y \in plan'[r] : \E v \in call[r].scope : y = <<"family", v>> /\ status[v] # "none"
    BY <1>3, <1>9 DEF PassInv
  <2> QED BY <2>3, <2>4, <2>5, <2>6
<1>10. ASSUME AtSession(r)
       PROVE  /\ \A s \in call[r].scope : SessionDone(r, s)' \/ <<"session", s>> \in plan'[r]
              /\ \A y \in plan'[r] : \E s \in call[r].scope : y = <<"session", s>>
  <2>1. Head(rest[r]) = "session"
    BY <1>10 DEF AtSession
  <2>2. PICK s \in call[r].scope : x = <<"session", s>>
    BY <1>1, <1>10 DEF PassInv
  <2>3. SessionDone(r, s)'
    <3>1. x[1] = "session" /\ x[2] = s
      BY <2>2
    <3>2. status[s] = "active" => Selects("session", call[r].scope, x)
      BY <2>2, <3>1 DEF Selects
    <3> QED BY <1>2, <1>3, <2>1, <2>2, <3>2 DEF SessionDone, tables
  <2>4. ASSUME NEW u \in call[r].scope, u # s
        PROVE  SessionDone(r, u)' \/ <<"session", u>> \in plan'[r]
    <3>1. SessionDone(r, u) \/ <<"session", u>> \in plan[r]
      BY <1>10 DEF PassInv
    <3>2. <<"session", u>> # x
      BY <2>2, <2>4
    <3> QED BY <1>2, <1>3, <1>5, <3>1, <3>2 DEF SessionDone, tables
  <2>5. \A y \in plan'[r] : \E v \in call[r].scope : y = <<"session", v>>
    BY <1>3, <1>10 DEF PassInv
  <2> QED BY <2>3, <2>4, <2>5
\* Past a statement, its rows are marked no more.
<1>11. ASSUME PastFamily(r), NEW s \in Due(r)' PROVE FamilyDone(r, s)'
  <2>1. s \in Due(r)
    <3>1. CASE call[r].op = "reuse"
      BY <1>2, <1>11, <3>1 DEF Due
    <3>2. CASE call[r].op # "reuse"
      <4>1. rest[r] \in {<<"token">>, <<"token", "session">>}
        <5>1. rest[r] \in {<<"token", "session">>, <<"session">>, <<"token">>}
          BY <1>0, <1>11 DEF PastFamily
        <5>2. <<"session">> \notin {<<"session", "family", "token">>, <<"family", "token">>, <<"token">>, <<>>}
          BY ReuseRests, LogoutRests
        <5> QED BY <1>0, <3>2, <5>1, <5>2 DEF RestOf, Revoking
      <4>2. Head(rest[r]) = "token"
        BY <4>1, LogoutRests, ReuseRests
      <4>3. <<"session", s>> \in marked'[r] => <<"session", s>> \in marked[r]
        <5> SUFFICES ASSUME <<"session", s>> \in marked'[r], <<"session", s>> \notin marked[r]
                     PROVE  FALSE
          OBVIOUS
        <5>1. x = <<"session", s>>
          BY <1>3
        <5>2. x[1] = "session"
          BY <5>1
        <5> QED BY <1>6, <4>2, <5>1, <5>2
      <4> QED BY <1>2, <1>11, <3>2, <4>3 DEF Due
    <3> QED BY <3>1, <3>2
  <2> QED BY <1>2, <1>5, <1>11, <2>1 DEF PassInv, FamilyDone, tables
<1>12. ASSUME PastSession(r), NEW s \in call[r].scope PROVE SessionDone(r, s)'
  BY <1>2, <1>5, <1>12 DEF PassInv, SessionDone, tables
<1> QED
  BY <1>2, <1>4, <1>7, <1>8, <1>9, <1>10, <1>11, <1>12 DEF PassInv, tables

\* A statement is over when all that it has selected is locked.
LEMMA StatementPass ==
  ASSUME TypeInv, NEW r \in Request, StatementDone(r), PassInv(r)
  PROVE  PassInv(r)'
<1>0. /\ call[r].op \in Revoking /\ rest[r] \in RestOf(call[r].op) /\ rest[r] # <<>> /\ plan[r] = {}
      /\ call[r].scope \in SUBSET Session
  BY MarkingRevokes DEF StatementDone, TypeInv, TypeOK, CallInv, Call
<1>1. /\ UNCHANGED <<tables, call, marked>> /\ rest'[r] = Tail(rest[r])
      /\ Tail(rest[r]) # <<>> => plan'[r] = Selected(rest[r][2], call[r].scope)
  BY DEF StatementDone, NextStatement, TypeInv, TypeOK
<1>2. Due(r)' = Due(r) /\ Due(r) \subseteq call[r].scope
  BY <1>1 DEF Due
<1>3. /\ \A s \in Session : FamilyDone(r, s)' = FamilyDone(r, s)
      /\ \A s \in Session : SessionDone(r, s)' = SessionDone(r, s)
  BY <1>1 DEF FamilyDone, SessionDone, tables
<1>4. /\ AtFamily(r) => \A s \in Due(r) : FamilyDone(r, s)
      /\ PastFamily(r) => \A s \in Due(r) : FamilyDone(r, s)
      /\ AtSession(r) => \A s \in call[r].scope : SessionDone(r, s)
      /\ PastSession(r) => \A s \in call[r].scope : SessionDone(r, s)
      /\ \A s \in Session : <<"session", s>> \in marked[r] \/ <<"family", s>> \in marked[r] =>
           s \in call[r].scope /\ status[s] # "none"
      /\ \A t \in Token : <<"token", t>> \in marked[r] => token[t].session \in call[r].scope
  BY <1>0 DEF PassInv
<1>5. CASE call[r].op = "reuse"
  <2>1. \/ rest[r] = <<"family", "token", "session">> \/ rest[r] = <<"token", "session">>
        \/ rest[r] = <<"session">>
    BY <1>0, <1>5 DEF RestOf
  <2>2. CASE rest[r] = <<"family", "token", "session">>
    <3>1. AtFamily(r) /\ rest'[r] = <<"token", "session">>
      BY <1>1, <2>2, ReuseRests DEF AtFamily
    <3>2. ~AtFamily(r)' /\ ~AtSession(r)' /\ ~PastSession(r)'
      BY <1>1, <1>5, <3>1, ReuseRests DEF AtFamily, AtSession, PastSession
    <3> QED BY <1>0, <1>1, <1>2, <1>3, <1>4, <3>1, <3>2 DEF PassInv, tables
  <2>3. CASE rest[r] = <<"token", "session">>
    <3>1. PastFamily(r) /\ rest'[r] = <<"session">> /\ plan'[r] = Selected("session", call[r].scope)
      BY <1>0, <1>1, <2>3, ReuseRests DEF PastFamily
    <3>2. ~AtFamily(r)' /\ ~PastSession(r)'
      BY <1>1, <1>5, <3>1, ReuseRests DEF AtFamily, PastSession
    <3>5. \A s \in call[r].scope :
            status[s] = "active" => <<"session", s>> \in Selected("session", call[r].scope)
      BY <1>0, SelectedSessions
    <3>3. \A s \in call[r].scope : SessionDone(r, s) \/ <<"session", s>> \in plan'[r]
      BY <3>1, <3>5 DEF SessionDone
    <3>4. \A x \in plan'[r] : \E s \in call[r].scope : x = <<"session", s>>
      BY <1>0, <3>1, SelectedSessions
    <3> QED BY <1>0, <1>1, <1>2, <1>3, <1>4, <3>1, <3>2, <3>3, <3>4 DEF PassInv, tables
  <2>4. CASE rest[r] = <<"session">>
    <3>1. PastFamily(r) /\ AtSession(r) /\ rest'[r] = <<>>
      BY <1>0, <1>1, <2>4, ReuseRests DEF PastFamily, AtSession
    <3>2. ~AtFamily(r)' /\ ~AtSession(r)'
      BY <3>1 DEF AtFamily, AtSession
    <3> QED BY <1>0, <1>1, <1>2, <1>3, <1>4, <3>1, <3>2 DEF PassInv, tables
  <2> QED BY <2>1, <2>2, <2>3, <2>4
<1>6. CASE call[r].op \in {"logout", "logoutAll"}
  <2>1. \/ rest[r] = <<"session", "family", "token">> \/ rest[r] = <<"family", "token">>
        \/ rest[r] = <<"token">>
    BY <1>0, <1>6 DEF RestOf
  <2>2. CASE rest[r] = <<"session", "family", "token">>
    <3>1. /\ AtSession(r) /\ rest'[r] = <<"family", "token">>
          /\ plan'[r] = Selected("family", call[r].scope)
      BY <1>1, <2>2, LogoutRests DEF AtSession
    <3>2. ~AtSession(r)' /\ ~PastFamily(r)'
      BY <1>1, <3>1, LogoutRests, ReuseRests DEF AtSession, PastFamily
    <3>3. \A s \in Due(r) : FamilyDone(r, s) \/ <<"family", s>> \in plan'[r]
      <4>1. \A s \in Due(r) : <<"session", s>> \in marked[r]
        BY <1>6 DEF Due
      <4>2. \A s \in Due(r) : s \in Session /\ status[s] # "none"
        BY <1>0, <1>2, <1>4, <4>1
      <4>3. \A s \in call[r].scope : status[s] # "none" /\ s \notin family =>
              <<"family", s>> \in Selected("family", call[r].scope)
        BY <1>0, SelectedFamilies
      <4> QED BY <1>2, <3>1, <4>2, <4>3 DEF FamilyDone
    <3>4. \A x \in plan'[r] : \E s \in call[r].scope : x = <<"family", s>> /\ status[s] # "none"
      BY <1>0, <3>1, SelectedFamilies
    <3> QED BY <1>0, <1>1, <1>2, <1>3, <1>4, <3>1, <3>2, <3>3, <3>4 DEF PassInv, tables
  <2>3. CASE rest[r] = <<"family", "token">>
    <3>1. AtFamily(r) /\ PastSession(r) /\ rest'[r] = <<"token">>
      BY <1>1, <1>6, <2>3, LogoutRests DEF AtFamily, PastSession
    <3>2. ~AtFamily(r)' /\ ~AtSession(r)'
      BY <3>1, LogoutRests DEF AtFamily, AtSession
    <3> QED BY <1>0, <1>1, <1>2, <1>3, <1>4, <3>1, <3>2 DEF PassInv, tables
  <2>4. CASE rest[r] = <<"token">>
    <3>1. PastFamily(r) /\ PastSession(r) /\ rest'[r] = <<>>
      BY <1>0, <1>1, <1>6, <2>4, LogoutRests DEF PastFamily, PastSession
    <3>2. ~AtFamily(r)' /\ ~AtSession(r)'
      BY <3>1 DEF AtFamily, AtSession
    <3> QED BY <1>0, <1>1, <1>2, <1>3, <1>4, <3>1, <3>2 DEF PassInv, tables
  <2> QED BY <2>1, <2>2, <2>3, <2>4
<1> QED BY <1>0, <1>5, <1>6 DEF Revoking

\* A logout begins with the sessions that it has selected.
LEMMA LogoutPass ==
  ASSUME TypeInv, NEW r \in Request, NEW c \in Call, c.op \in {"logout", "logoutAll"},
         Begin(r, c, <<"session", "family", "token">>, Selected("session", c.scope))
  PROVE  PassInv(r)'
<1>1. /\ call'[r] = c /\ rest'[r] = <<"session", "family", "token">>
      /\ plan'[r] = Selected("session", c.scope) /\ UNCHANGED <<tables, marked>> /\ call[r] = NoCall
  BY DEF Begin, Idle, TypeInv, TypeOK
<1>2. marked'[r] = {}
  BY <1>1 DEF TypeInv, CallInv, NoCall
<1>3. ~AtFamily(r)' /\ ~PastFamily(r)' /\ ~PastSession(r)'
  BY <1>1, LogoutRests, ReuseRests DEF AtFamily, PastFamily, PastSession
<1>4. c.scope \in SUBSET Session
  BY DEF Call
<1>5. /\ \A s \in c.scope : SessionDone(r, s)' \/ <<"session", s>> \in plan'[r]
      /\ \A x \in plan'[r] : \E s \in c.scope : x = <<"session", s>>
  BY <1>1, <1>4, SelectedSessions DEF SessionDone, tables
<1> QED BY <1>1, <1>2, <1>3, <1>4, <1>5 DEF PassInv

LEMMA BeginPass ==
  ASSUME TypeInv, \A q \in Request : PassInv(q), NEW r \in Request,
         BeginRefresh(r) \/ BeginLogout(r) \/ BeginLogoutAll(r)
  PROVE  \A q \in Request : PassInv(q)'
<1>1. /\ UNCHANGED tables /\ UNCHANGED marked
      /\ \A q \in Request \ {r} : call'[q] = call[q] /\ rest'[q] = rest[q] /\ plan'[q] = plan[q]
  BY DEF BeginRefresh, BeginLogout, BeginLogoutAll, Begin, TypeInv, TypeOK
<1>2. \A q \in Request \ {r} : PassInv(q)'
  BY <1>1, TablesMove, OthersPass
<1>3. CASE BeginRefresh(r)
  <2>4. PICK t \in Token :
          Begin(r, [op |-> "refresh", scope |-> {token[t].session}, token |-> t,
                    familySeen |-> family \intersect {token[t].session}],
                <<"lockToken", "lockSession">>, {<<"token", t>>})
    BY <1>3 DEF BeginRefresh
  <2> DEFINE c == [op |-> "refresh", scope |-> {token[t].session}, token |-> t,
                   familySeen |-> family \intersect {token[t].session}]
  <2>5. c.op = "refresh" /\ Begin(r, c, <<"lockToken", "lockSession">>, {<<"token", t>>})
    BY <2>4
  <2> HIDE DEF c
  <2>1. /\ call'[r].op = "refresh" /\ rest'[r] = <<"lockToken", "lockSession">> /\ call[r] = NoCall
    BY <2>5 DEF Begin, Idle, TypeInv, TypeOK
  <2>2. marked'[r] = {}
    BY <1>1, <2>1 DEF TypeInv, CallInv, NoCall
  <2>3. ~AtFamily(r)' /\ ~AtSession(r)' /\ ~PastFamily(r)' /\ ~PastSession(r)'
    BY <2>1, RefreshRests DEF AtFamily, AtSession, PastFamily, PastSession, Revoking
  <2> QED BY <1>2, <2>2, <2>3 DEF PassInv
<1>4. CASE BeginLogout(r)
  <2>1. PICK s \in Session :
          Begin(r, [NoCall EXCEPT !.op = "logout", !.scope = {s}],
                LogoutOrder, Selected(Head(LogoutOrder), {s}))
    BY <1>4 DEF BeginLogout
  <2> DEFINE c == [NoCall EXCEPT !.op = "logout", !.scope = {s}]
  <2>2. c \in Call /\ c.op = "logout" /\ c.scope = {s}
    BY DEF NoCall, Call
  <2>3. Begin(r, c, <<"session", "family", "token">>, Selected("session", {s}))
    BY <2>1, LogoutRests DEF LogoutOrder
  <2> HIDE DEF c
  <2>4. Begin(r, c, <<"session", "family", "token">>, Selected("session", c.scope))
    BY <2>2, <2>3
  <2> QED BY <1>2, <2>2, <2>4, LogoutPass
<1>5. CASE BeginLogoutAll(r)
  <2> DEFINE c == [NoCall EXCEPT !.op = "logoutAll", !.scope = Session]
  <2>2. c \in Call /\ c.op = "logoutAll" /\ c.scope = Session
    BY DEF NoCall, Call
  <2>3. Begin(r, c, <<"session", "family", "token">>, Selected("session", Session))
    BY <1>5, LogoutRests DEF BeginLogoutAll, LogoutAllOrder
  <2> HIDE DEF c
  <2>4. Begin(r, c, <<"session", "family", "token">>, Selected("session", c.scope))
    BY <2>2, <2>3
  <2> QED BY <1>2, <2>2, <2>4, LogoutPass
<1> QED BY <1>3, <1>4, <1>5

\* A call that finds its token replaced has to revoke the session and its family.
LEMMA LockTokenPass ==
  ASSUME TypeInv, NEW r \in Request, LockToken(r)
  PROVE  PassInv(r)'
<1>1. call[r].op = "refresh" /\ Tail(rest[r]) = <<"lockSession">> /\ marked[r] = {}
  BY RefreshingRefreshes DEF LockToken, TypeInv, CallInv
<1>2. UNCHANGED tables /\ marked'[r] = {}
  BY <1>1 DEF LockToken
<1>3. call[r].scope \in SUBSET Session /\ \A s \in call[r].scope : status[s] # "none"
  BY <1>1 DEF TypeInv, TypeOK, CallInv, Call
<1>4. CASE rest' = [rest EXCEPT ![r] = Tail(@)] /\ UNCHANGED call
  <2>1. rest'[r] = <<"lockSession">> /\ call'[r].op = "refresh"
    BY <1>1, <1>4 DEF TypeInv, TypeOK
  <2>2. ~AtFamily(r)' /\ ~AtSession(r)' /\ ~PastFamily(r)' /\ ~PastSession(r)'
    BY <2>1, RefreshRests DEF AtFamily, AtSession, PastFamily, PastSession, Revoking
  <2> QED BY <1>2, <2>2 DEF PassInv
<1>5. CASE /\ call' = [call EXCEPT ![r].op = "reuse"]
           /\ rest' = [rest EXCEPT ![r] = ReuseOrder]
           /\ plan' = [plan EXCEPT ![r] = Selected(Head(ReuseOrder), call[r].scope)]
  <2>1. /\ call'[r].op = "reuse" /\ call'[r].scope = call[r].scope
        /\ rest'[r] = <<"family", "token", "session">> /\ plan'[r] = Selected("family", call[r].scope)
    BY <1>5, ReuseRests DEF TypeInv, TypeOK, Call, ReuseOrder
  <2>2. ~AtSession(r)' /\ ~PastFamily(r)' /\ ~PastSession(r)' /\ Due(r)' = call[r].scope
    BY <2>1, ReuseRests DEF AtSession, PastFamily, PastSession, Due
  <2>3. \A s \in call[r].scope : status[s] # "none" /\ s \notin family =>
          <<"family", s>> \in Selected("family", call[r].scope)
    BY <1>3, SelectedFamilies
  <2>4. \A s \in call[r].scope : FamilyDone(r, s)' \/ <<"family", s>> \in plan'[r]
    BY <1>2, <1>3, <2>1, <2>3 DEF FamilyDone, tables
  <2>5. \A x \in plan'[r] : \E s \in call[r].scope : x = <<"family", s>> /\ status[s] # "none"
    BY <1>3, <2>1, SelectedFamilies
  <2> QED BY <1>2, <2>1, <2>2, <2>4, <2>5 DEF PassInv, tables
<1> QED BY <1>4, <1>5 DEF LockToken

LEMMA StepPass ==
  TypeInv /\ (\A r \in Request : PassInv(r)) /\ [Next]_vars => \A r \in Request : PassInv(r)'
<1> SUFFICES ASSUME TypeInv, \A r \in Request : PassInv(r), [Next]_vars
             PROVE  \A r \in Request : PassInv(r)'
  OBVIOUS
<1>1. CASE Login
  <2> SUFFICES ASSUME NEW r \in Request PROVE PassInv(r)'
    OBVIOUS
  <2> QED BY <1>1, TablesMove, OthersPass DEF Login
<1>2. ASSUME NEW r \in Request, LockRow(r) \/ StatementDone(r) \/ LockToken(r)
      PROVE  \A q \in Request : PassInv(q)'
  <2>1. /\ UNCHANGED tables
        /\ \A q \in Request \ {r} :
             call'[q] = call[q] /\ rest'[q] = rest[q] /\ plan'[q] = plan[q] /\ marked'[q] = marked[q]
    BY <1>2 DEF LockRow, StatementDone, NextStatement, LockToken, TypeInv, TypeOK
  <2>2. \A q \in Request \ {r} : PassInv(q)'
    BY <2>1, TablesMove, OthersPass
  <2> QED BY <1>2, <2>2, LockRowPass, StatementPass, LockTokenPass
<1>3. ASSUME NEW r \in Request, Finish(r), UNCHANGED tables PROVE \A q \in Request : PassInv(q)'
  BY <1>3, TablesMove, FinishPass
<1>4. ASSUME NEW r \in Request, Rotate(r) \/ Revoke(r) PROVE \A q \in Request : PassInv(q)'
  <2>1. Moves /\ Finish(r)
    BY <1>4, TablesMove DEF Rotate, Revoke
  <2> QED BY <2>1, FinishPass
<1>5. CASE UNCHANGED vars
  <2> SUFFICES ASSUME NEW r \in Request PROVE PassInv(r)'
    OBVIOUS
  <2> QED BY <1>5, TablesMove, OthersPass DEF vars
<1>6. ASSUME NEW r \in Request, Serve(r) \/ Abort(r) PROVE \A q \in Request : PassInv(q)'
  BY <1>2, <1>3, <1>4, <1>6
     DEF Serve, LogoutAgain, RefuseToken, RefuseRotation, BreakDeadlock, Abort
<1> QED BY <1>1, <1>5, <1>6, BeginPass DEF Next

-----------------------------------------------------------------------------
\* Sessions and their families

TableInv ==
  /\ \A s \in family : status[s] # "none"
  /\ \A s \in Session : status[s] = "revoked" => s \in family
  /\ ActiveCanRotate

LEMMA InitTable == Init => TableInv
BY DEF Init, TableInv, ActiveCanRotate

\* Every revocation revokes what it has to, and no more.
LEMMA RevokeTable ==
  ASSUME TypeInv, NEW r \in Request, PassInv(r), TableInv, Revoke(r)
  PROVE  TableInv'
<1>0. /\ family \subseteq Session /\ call[r].op \in Revoking /\ rest[r] = <<>>
      /\ call[r].scope \subseteq Session
  BY MarkingRevokes DEF TypeInv, TypeOK, Revoke, Idle, CallInv, RestOf, NoCall, Call
<1>1. /\ \A s \in call[r].scope : <<"session", s>> \in marked[r] => FamilyDone(r, s)
      /\ \A s \in call[r].scope : SessionDone(r, s)
      /\ \A s \in Session : <<"session", s>> \in marked[r] \/ <<"family", s>> \in marked[r] =>
           s \in call[r].scope /\ status[s] # "none"
      /\ \A t \in Token : <<"token", t>> \in marked[r] => token[t].session \in call[r].scope
  <2>1. PastFamily(r) /\ PastSession(r)
    BY <1>0 DEF PastFamily, PastSession, Revoking
  <2> QED BY <2>1 DEF PassInv, Due
<1>2. /\ \A s \in Session : status'[s] = IF <<"session", s>> \in marked[r] THEN "revoked" ELSE status[s]
      /\ family' = family \union {s \in Session : <<"family", s>> \in marked[r]}
      /\ overlapped' = overlapped
  BY DEF Revoke
<1>3. \A s \in family' : status'[s] # "none"
  BY <1>0, <1>1, <1>2 DEF TableInv
<1>4. \A s \in Session : status'[s] = "revoked" => s \in family'
  BY <1>1, <1>2 DEF TableInv, FamilyDone
<1>5. ASSUME NEW s \in Session \ overlapped', status'[s] = "active"
      PROVE  s \notin family' /\ LiveTokens(s)' # {}
  <2>1. status[s] = "active" /\ <<"session", s>> \notin marked[r]
    BY <1>2, <1>5
  <2>2. s \notin call[r].scope
    BY <1>1, <1>2, <1>5, <2>1 DEF SessionDone
  <2>3. s \notin family'
    BY <1>1, <1>2, <1>5, <2>1, <2>2 DEF TableInv, ActiveCanRotate
  <2>4. PICK t \in Token : IsLive(t) /\ token[t].session = s
    BY <1>2, <1>5, <2>1 DEF TableInv, ActiveCanRotate, LiveTokens
  <2>5. token'[t] = token[t]
    BY <1>1, <2>2, <2>4, RevokeStep
  <2> QED BY <2>3, <2>4, <2>5 DEF LiveTokens, IsLive
<1> QED BY <1>3, <1>4, <1>5 DEF TableInv, ActiveCanRotate

LEMMA StepTable ==
  TypeInv /\ TableInv /\ (\A r \in Request : PassInv(r)) /\ [Next]_vars => TableInv'
<1> SUFFICES ASSUME TypeInv, TableInv, \A r \in Request : PassInv(r), [Next]_vars PROVE TableInv'
  OBVIOUS
<1>1. CASE Login
  <2>1. PICK s \in Session, n \in NewTokens :
          /\ status[s] = "none"
          /\ status' = [status EXCEPT ![s] = "active"]
          /\ token' = [token EXCEPT ![n] = [session |-> s, state |-> "live"]]
          /\ overlapped \subseteq overlapped' /\ family' = family
    BY <1>1 DEF Login
  <2>2. /\ n \in Token /\ token[n] = NoToken /\ token'[n].session = s /\ token'[n].state = "live"
        /\ \A t \in Token \ {n} : token'[t] = token[t]
        /\ status'[s] = "active" /\ \A u \in Session \ {s} : status'[u] = status[u]
    BY <2>1 DEF NewTokens, TypeInv, TypeOK
  <2>3. s \notin family'
    BY <2>1 DEF TableInv
  <2>4. \A t \in Token : IsLive(t) => token'[t] = token[t]
    BY <2>2 DEF IsLive, NoToken
  <2>5. n \in LiveTokens(s)'
    BY <2>2 DEF LiveTokens, IsLive
  <2>6. \A u \in Session : LiveTokens(u) \subseteq LiveTokens(u)'
    BY <2>4 DEF LiveTokens, IsLive
  <2>7. family \subseteq Session
    BY DEF TypeInv, TypeOK
  <2> QED BY <2>1, <2>2, <2>3, <2>5, <2>6, <2>7 DEF TableInv, ActiveCanRotate
<1>2. ASSUME NEW r \in Request, Rotate(r) PROVE TableInv'
  <2>1. PICK t \in Token, n \in Token :
          /\ token'[n] = [session |-> token[t].session, state |-> "live"]
          /\ \A u \in Token \ {n, t} : token'[u] = token[u]
          /\ token[n] = NoToken
    BY <1>2, RotateStep
  <2>2. UNCHANGED <<status, family, overlapped>>
    BY <1>2 DEF Rotate
  <2>3. ASSUME NEW s \in Session, LiveTokens(s) # {} PROVE LiveTokens(s)' # {}
    <3>1. PICK u \in Token : IsLive(u) /\ token[u].session = s
      BY <2>3 DEF LiveTokens
    <3>2. token'[n].state = "live" /\ token'[n].session = token[t].session /\ u # n
      BY <2>1, <3>1 DEF IsLive, NoToken
    <3>3. IF u = t THEN n \in LiveTokens(s)' ELSE u \in LiveTokens(s)'
      BY <2>1, <3>1, <3>2 DEF LiveTokens, IsLive
    <3> QED BY <3>3
  <2> QED BY <2>2, <2>3 DEF TableInv, ActiveCanRotate
<1>3. ASSUME NEW r \in Request, Revoke(r) PROVE TableInv'
  BY <1>3, RevokeTable
<1>4. CASE UNCHANGED tables
  BY <1>4 DEF tables, TableInv, ActiveCanRotate, LiveTokens, IsLive
<1>5. Login \/ (\E r \in Request : Rotate(r) \/ Revoke(r)) \/ UNCHANGED tables
  BY DEF Next, Serve, BeginRefresh, BeginLogout, BeginLogoutAll, Begin, LockRow, StatementDone,
         LogoutAgain, LockToken, RefuseToken, RefuseRotation, BreakDeadlock, Abort, vars
<1> QED BY <1>1, <1>2, <1>3, <1>4, <1>5

\* An active session can be refreshed, unless its login met a logoutAll.
THEOREM ActiveRotates == Spec => []ActiveCanRotate
<1> DEFINE Pass == \A r \in Request : PassInv(r)
<1>1. Init => TypeInv /\ Pass /\ TableInv
  BY InitType, InitPass, InitTable
<1>2. TypeInv /\ Pass /\ TableInv /\ [Next]_vars => TypeInv' /\ Pass' /\ TableInv'
  BY StepType, StepPass, StepTable
<1>3. TableInv => ActiveCanRotate
  BY DEF TableInv
<1> QED BY <1>1, <1>2, <1>3, PTL DEF Spec

\* The step behind NoTokenInRevokedFamily: a token that is new is of a session that
\* is active, and an active session that met no logoutAll has its family.
LEMMA NewTokenStep ==
  ASSUME TypeInv, TableInv, [Next]_vars,
         NEW t \in Token, token[t] = NoToken, token'[t] # NoToken
  PROVE  token'[t].session \notin family' \ overlapped'
<1>1. token[t].state = "none"
  BY DEF NoToken
<1>2. CASE Login
  <2>1. PICK s \in Session, n \in NewTokens :
          /\ status[s] = "none" /\ family' = family
          /\ token' = [token EXCEPT ![n] = [session |-> s, state |-> "live"]]
    BY <1>2 DEF Login
  <2>2. t = n /\ token'[t].session = s
    BY <2>1 DEF NewTokens, TypeInv, TypeOK
  <2> QED BY <2>1, <2>2 DEF TableInv
<1>3. ASSUME NEW r \in Request, Rotate(r)
      PROVE  token'[t].session \notin family' \ overlapped'
  <2>1. PICK u \in Token, n \in Token :
          /\ u = call[r].token /\ token[n] = NoToken /\ n # u
          /\ token'[n] = [session |-> token[u].session, state |-> "live"]
          /\ token'[u].state = "replaced" /\ token'[u].session = token[u].session
          /\ \A v \in Token \ {n, u} : token'[v] = token[v]
    BY <1>3, RotateStep
  <2>2. status[token[u].session] = "active" /\ UNCHANGED <<status, family, overlapped>>
    BY <1>3, <2>1 DEF Rotate, SessionUsable
  <2>3. t \in {n, u}
    BY <2>1
  <2>4. token'[t].session = token[u].session
    BY <2>1, <2>3
  <2>5. family \subseteq Session
    BY DEF TypeInv, TypeOK
  <2> QED BY <2>2, <2>4, <2>5 DEF TableInv, ActiveCanRotate
<1>4. ASSUME NEW r \in Request, Revoke(r) PROVE FALSE
  BY <1>1, <1>4, RevokeStep DEF TypeInv, MarkedTokens
<1>5. CASE token' = token
  BY <1>5
<1>6. Login \/ (\E r \in Request : Rotate(r) \/ Revoke(r)) \/ token' = token
  BY DEF Next, Serve, BeginRefresh, BeginLogout, BeginLogoutAll, Begin, LockRow, StatementDone,
         LogoutAgain, LockToken, RefuseToken, RefuseRotation, BreakDeadlock, Abort, vars, tables
<1> QED BY <1>2, <1>3, <1>4, <1>5, <1>6

\* No token is issued in a family that is revoked, though refresh has read the
\* family before it waited, unless the login of the session met a logoutAll.
THEOREM RevokedFamilyGetsNoToken == Spec => NoTokenInRevokedFamily
<1> DEFINE Pass == \A r \in Request : PassInv(r)
<1>1. Init => TypeInv /\ Pass /\ TableInv
  BY InitType, InitPass, InitTable
<1>2. TypeInv /\ Pass /\ TableInv /\ [Next]_vars => TypeInv' /\ Pass' /\ TableInv'
  BY StepType, StepPass, StepTable
<1>3. TypeInv /\ TableInv /\ [Next]_vars =>
        [\A t \in Token : token[t] = NoToken /\ token'[t] # NoToken =>
           token'[t].session \notin family' \ overlapped']_vars
  BY NewTokenStep
<1> QED BY <1>1, <1>2, <1>3, PTL DEF Spec, NoTokenInRevokedFamily

\* A session has at most one token that can be rotated, and a session that is
\* revoked has lost its family.
THEOREM LinearRotation == Spec => []RotationIsLinear
<1> DEFINE Pass == \A r \in Request : PassInv(r)
<1>1. Init => TypeInv /\ LockInv /\ OneLive /\ Pass /\ TableInv
  BY InitType, InitLock, InitPass, InitTable
<1>2. TypeInv /\ LockInv /\ OneLive /\ Pass /\ TableInv /\ [Next]_vars =>
        TypeInv' /\ LockInv' /\ OneLive' /\ Pass' /\ TableInv'
  BY StepType, StepLock, StepLive, StepPass, StepTable
<1>3. OneLive /\ TableInv => RotationIsLinear
  <2> SUFFICES ASSUME OneLive, TableInv, NEW s \in Session
               PROVE  Cardinality(LiveTokens(s)) <= 1 /\ (status[s] = "revoked" => s \in family)
    BY DEF RotationIsLinear
  <2>1. CASE LiveTokens(s) = {}
    BY <2>1, FS_EmptySet DEF TableInv
  <2>2. CASE LiveTokens(s) # {}
    <3>1. PICK t : t \in LiveTokens(s)
      BY <2>2
    <3>2. LiveTokens(s) = {t}
      BY <3>1 DEF LiveTokens, OneLive
    <3>3. Cardinality({t}) = 1
      BY FS_Singleton
    <3> QED BY <3>2, <3>3 DEF TableInv
  <2> QED BY <2>1, <2>2
<1> QED BY <1>1, <1>2, <1>3, PTL DEF Spec

-----------------------------------------------------------------------------
\* The order in which logouts take locks

Logouts == {"logout", "logoutAll"}

Place(table) == CASE table = "session" -> 1 [] table = "family" -> 2 [] OTHER -> 3

Before(x, y) == Place(x[1]) < Place(y[1]) \/ (x[1] = y[1] /\ x[2] < y[2])

\* A logout has locked nothing that comes after what it is to lock.
ClimbInv(r) ==
  call[r].op \in Logouts =>
    /\ \A x \in held[r], y \in plan[r] : Before(x, y)
    /\ rest[r] # <<>> =>
         /\ \A y \in plan[r] : y[1] = Head(rest[r])
         /\ \A x \in held[r] : Place(x[1]) <= Place(Head(rest[r]))

Climb == \A r \in Request : ClimbInv(r)

LEMMA PlaceType == \A table : Place(table) \in 1..3
BY DEF Place

LEMMA RowType ==
  ASSUME NEW x \in Row
  PROVE  x = <<x[1], x[2]>> /\ x[1] \in Table /\ x[2] \in Nat
<1>1. PICK table \in Table, n \in Session \union Token : x = <<table, n>>
  BY DEF Row
<1>2. x[1] = table /\ x[2] = n
  BY <1>1
<1>3. n \in Nat
  BY ConstantsAssumption DEF Token
<1> QED BY <1>1, <1>2, <1>3

LEMMA BeforeOrders ==
  /\ \A x \in Row : ~Before(x, x)
  /\ \A x, y, z \in Row : Before(x, y) /\ Before(y, z) => Before(x, z)
<1>1. ASSUME NEW x \in Row PROVE ~Before(x, x)
  BY RowType, PlaceType DEF Before
<1>2. ASSUME NEW x \in Row, NEW y \in Row, NEW z \in Row, Before(x, y), Before(y, z)
      PROVE  Before(x, z)
  <2>1. /\ Place(x[1]) \in Nat /\ Place(y[1]) \in Nat /\ Place(z[1]) \in Nat
        /\ x[2] \in Nat /\ y[2] \in Nat /\ z[2] \in Nat
    BY RowType, PlaceType
  <2> QED BY <1>2, <2>1 DEF Before
<1> QED BY <1>1, <1>2

\* The tables of a logout's statements come in their order.
LEMMA LogoutsClimb ==
  ASSUME NEW op \in Logouts, NEW q \in RestOf(op), q # <<>>, Tail(q) # <<>>
  PROVE  Place(Head(q)) < Place(Head(Tail(q)))
<1>1. q \in {<<"session", "family", "token">>, <<"family", "token">>, <<"token">>}
  BY DEF RestOf, Logouts
<1>2. \/ Head(q) = "session" /\ Head(Tail(q)) = "family"
      \/ Head(q) = "family" /\ Head(Tail(q)) = "token"
  BY <1>1, LogoutRests
<1> QED BY <1>2 DEF Place

LEMMA SelectedTable == \A table, scope : \A x \in Selected(table, scope) : x[1] = table
BY DEF Selected, Selects

LEMMA InitClimb == Init => Climb
BY DEF Init, Climb, ClimbInv, NoCall, Logouts

LEMMA StepClimb == TypeInv /\ Climb /\ [Next]_vars => Climb'
<1> SUFFICES ASSUME TypeInv, Climb, [Next]_vars PROVE Climb'
  OBVIOUS
<1>0. TypeOK
  BY DEF TypeInv
\* The step of a request leaves the others where they are.
<1>1. ASSUME NEW r \in Request, ClimbInv(r)',
             \A q \in Request \ {r} :
               call'[q] = call[q] /\ rest'[q] = rest[q] /\ plan'[q] = plan[q] /\ held'[q] = held[q]
      PROVE  Climb'
  BY <1>1 DEF Climb, ClimbInv
<1>2. CASE UNCHANGED <<call, rest, plan, held>>
  BY <1>2 DEF Climb, ClimbInv
<1>3. ASSUME NEW r \in Request, BeginRefresh(r) \/ BeginLogout(r) \/ BeginLogoutAll(r) PROVE Climb'
  <2>1. PICK c, statements, rows : Begin(r, c, statements, rows)
                                   /\ (c.op \in Logouts => \A y \in rows : y[1] = Head(statements))
    <3>1. CASE BeginRefresh(r)
      <4>1. PICK c, t, statements, rows :
              c = [op |-> "refresh", scope |-> {token[t].session}, token |-> t,
                   familySeen |-> family \intersect {token[t].session}]
              /\ Begin(r, c, statements, rows)
        BY <3>1 DEF BeginRefresh
      <4>2. c.op \notin Logouts
        BY <4>1 DEF Logouts
      <4> QED BY <4>1, <4>2
    <3>2. CASE BeginLogout(r)
      <4>1. PICK s \in Session :
              Begin(r, [NoCall EXCEPT !.op = "logout", !.scope = {s}],
                    LogoutOrder, Selected(Head(LogoutOrder), {s}))
        BY <3>2 DEF BeginLogout
      <4>2. \A y \in Selected(Head(LogoutOrder), {s}) : y[1] = Head(LogoutOrder)
        BY SelectedTable
      <4> QED BY <4>1, <4>2
    <3>3. CASE BeginLogoutAll(r)
      BY <1>3, <3>3, SelectedTable DEF BeginLogoutAll
    <3> QED BY <1>3, <3>1, <3>2, <3>3
  <2>2. /\ call'[r] = c /\ rest'[r] = statements /\ plan'[r] = rows /\ held'[r] = held[r]
        /\ \A q \in Request \ {r} :
             call'[q] = call[q] /\ rest'[q] = rest[q] /\ plan'[q] = plan[q] /\ held'[q] = held[q]
    BY <1>0, <2>1 DEF Begin, TypeOK
  <2>3. held[r] = {}
    BY <2>1 DEF Begin, Idle, NoCall, TypeInv, CallInv
  <2>4. ClimbInv(r)'
    BY <2>1, <2>2, <2>3 DEF ClimbInv
  <2> QED BY <1>1, <2>2, <2>4
<1>4. ASSUME NEW r \in Request, LockRow(r) PROVE Climb'
  <2>1. PICK x \in Wanted(r) :
          held' = [held EXCEPT ![r] = @ \union {x}] /\ plan' = [plan EXCEPT ![r] = @ \ {x}]
    BY <1>4 DEF LockRow
  <2>2. x \in plan[r] /\ rest[r] # <<>> /\ UNCHANGED <<call, rest>>
    BY <1>4, <2>1 DEF LockRow, Wanted, First
  <2>3. held'[r] = held[r] \union {x} /\ plan'[r] = plan[r] \ {x} /\ plan[r] \subseteq Row
    BY <1>0, <2>1 DEF TypeOK
  <2>4. ASSUME call[r].op \in Logouts PROVE ClimbInv(r)'
    <3>1. /\ \A z \in held[r], y \in plan[r] : Before(z, y)
          /\ \A y \in plan[r] : y[1] = Head(rest[r])
          /\ \A z \in held[r] : Place(z[1]) <= Place(Head(rest[r]))
      BY <2>2, <2>4 DEF Climb, ClimbInv
    <3>2. ASSUME NEW y \in plan[r] \ {x} PROVE Before(x, y)
      <4>1. x[1] = y[1] /\ x[2] <= y[2]
        BY <2>1, <2>2, <3>1 DEF Wanted, First
      <4>2. x[2] # y[2] /\ x[2] \in Nat /\ y[2] \in Nat
        BY <2>2, <2>3, <4>1, RowType
      <4> QED BY <4>1, <4>2 DEF Before
    <3>3. Place(x[1]) <= Place(Head(rest[r]))
      BY <2>2, <3>1, PlaceType
    <3> QED BY <2>2, <2>3, <3>1, <3>2, <3>3 DEF ClimbInv
  <2>5. ClimbInv(r)'
    BY <2>2, <2>4 DEF ClimbInv
  <2>6. \A q \in Request \ {r} :
          call'[q] = call[q] /\ rest'[q] = rest[q] /\ plan'[q] = plan[q] /\ held'[q] = held[q]
    BY <1>0, <2>1, <2>2 DEF TypeOK
  <2> QED BY <1>1, <2>5, <2>6
<1>5. ASSUME NEW r \in Request, StatementDone(r) PROVE Climb'
  <2>1. /\ UNCHANGED <<call, held>> /\ rest[r] # <<>> /\ plan[r] = {} /\ rest'[r] = Tail(rest[r])
        /\ plan'[r] = IF Tail(rest[r]) = <<>> THEN {} ELSE Selected(rest[r][2], call[r].scope)
        /\ \A q \in Request \ {r} : rest'[q] = rest[q] /\ plan'[q] = plan[q]
    BY <1>0, <1>5 DEF StatementDone, NextStatement, TypeOK
  <2>2. ASSUME call[r].op \in Logouts PROVE ClimbInv(r)'
    <3>1. CASE Tail(rest[r]) = <<>>
      BY <2>1, <3>1 DEF ClimbInv
    <3>2. CASE Tail(rest[r]) # <<>>
      <4>1. rest[r] \in RestOf(call[r].op) /\ call[r].op \in Revoking
        BY <2>2 DEF TypeInv, CallInv, Logouts, Revoking
      <4>2. rest[r][2] = Head(Tail(rest[r]))
        BY <2>1, <3>2, <4>1, RestSteps
      <4>3. Place(Head(rest[r])) < Place(Head(Tail(rest[r])))
        BY <2>1, <2>2, <3>2, <4>1, LogoutsClimb
      <4>4. \A y \in plan'[r] : y[1] = Head(Tail(rest[r]))
        BY <2>1, <3>2, <4>2, SelectedTable
      <4>5. \A x \in held[r] : Place(x[1]) < Place(Head(Tail(rest[r])))
        <5>1. \A x \in held[r] : Place(x[1]) <= Place(Head(rest[r]))
          BY <2>1, <2>2 DEF Climb, ClimbInv
        <5>2. \A i, j, k \in Nat : i <= j /\ j < k => i < k
          OBVIOUS
        <5>3. \A table : Place(table) \in Nat
          BY PlaceType
        <5> QED BY <4>3, <5>1, <5>2, <5>3
      <4>6. \A x \in held[r], y \in plan'[r] : Before(x, y)
        BY <4>4, <4>5 DEF Before
      <4>7. \A x \in held[r] : Place(x[1]) <= Place(Head(Tail(rest[r])))
        <5>1. \A i, j \in Nat : i < j => i <= j
          OBVIOUS
        <5>2. \A table : Place(table) \in Nat
          BY PlaceType
        <5> QED BY <4>5, <5>1, <5>2
      <4> QED BY <2>1, <4>4, <4>6, <4>7 DEF ClimbInv
    <3> QED BY <3>1, <3>2
  <2>3. ClimbInv(r)'
    BY <2>1, <2>2 DEF ClimbInv
  <2> QED BY <1>1, <2>1, <2>3
<1>6. ASSUME NEW r \in Request, LockToken(r) PROVE Climb'
  <2>1. call'[r].op \notin Logouts
    <3>1. call[r].op = "refresh"
      BY <1>6, RefreshingRefreshes DEF LockToken
    <3> QED BY <1>0, <1>6, <3>1 DEF LockToken, Logouts, TypeOK, Call
  <2>2. ClimbInv(r)'
    BY <2>1 DEF ClimbInv
  <2>3. \A q \in Request \ {r} :
          call'[q] = call[q] /\ rest'[q] = rest[q] /\ plan'[q] = plan[q] /\ held'[q] = held[q]
    BY <1>0, <1>6 DEF LockToken, TypeOK
  <2> QED BY <1>1, <2>2, <2>3
<1>7. ASSUME NEW r \in Request, Finish(r) PROVE Climb'
  <2>1. ClimbInv(r)'
    BY <1>0, <1>7, FinishType DEF ClimbInv, NoCall, Logouts
  <2> QED BY <1>0, <1>1, <1>7, <2>1, FinishType
<1>8. ASSUME NEW r \in Request, Serve(r) \/ Abort(r) PROVE Climb'
  BY <1>4, <1>5, <1>6, <1>7, <1>8
     DEF Serve, LogoutAgain, Revoke, RefuseToken, Rotate, RefuseRotation, BreakDeadlock, Abort
<1>9. CASE Login
  BY <1>2, <1>9 DEF Login
<1>10. CASE UNCHANGED vars
  BY <1>2, <1>10 DEF vars
<1> QED BY <1>3, <1>8, <1>9, <1>10 DEF Next

\* A set of rows has a last one.
LEMMA LastRow ==
  ASSUME NEW W \in SUBSET Row, W # {}
  PROVE  \E x \in W : \A y \in W : ~Before(x, y)
<1> DEFINE After(x) == {y \in Row : Before(x, y)}
           T == {After(x) : x \in W}
<1>1. IsFiniteSet(Row)
  <2>1. IsFiniteSet(Token)
    BY ConstantsAssumption, FS_Interval DEF Token
  <2>2. IsFiniteSet(Session \union Token)
    BY <2>1, ConstantsAssumption, FS_Union
  <2>3. IsFiniteSet(Table)
    <3>1. IsFiniteSet({"session"} \union {"family"}) /\ IsFiniteSet({"token"})
      BY FS_Singleton, FS_Union
    <3>2. Table = ({"session"} \union {"family"}) \union {"token"}
      BY DEF Table
    <3> QED BY <3>1, <3>2, FS_Union
  <2> QED BY <2>2, <2>3, FS_Product DEF Row
<1>2. PICK s \in T : \A t \in T : ~(<<t, s>> \in StrictSubsetOrdering(Row))
  <2>1. IsWellFoundedOn(StrictSubsetOrdering(Row), FiniteSubsetsOf(Row))
    BY FS_StrictSubsetOrderingWellFounded
  <2>2. FiniteSubsetsOf(Row) = SUBSET Row
    BY <1>1, FS_FiniteSubsetsOfFinite
  <2>3. T \subseteq SUBSET Row /\ T # {}
    OBVIOUS
  <2> HIDE DEF T
  <2> QED BY <2>1, <2>2, <2>3, WFMin
<1>3. PICK x \in W : s = After(x)
  OBVIOUS
<1>4. ASSUME NEW y \in W, Before(x, y) PROVE FALSE
  <2>1. After(y) \subseteq After(x) /\ y \in After(x) /\ y \notin After(y)
    BY <1>4, BeforeOrders
  <2>2. <<After(y), s>> \in StrictSubsetOrdering(Row)
    BY <1>3, <2>1 DEF StrictSubsetOrdering
  <2> QED BY <1>2, <2>2
<1> QED BY <1>4

\* In a circle every row that somebody waits for is held by somebody who waits
\* for another: had each taken its locks in order, there would be no last one.
LEMMA NoCircle ==
  ASSUME TypeInv, Climb, NEW S \in SUBSET Request, Circle(S)
  PROVE  \E r \in S : call[r].op \in {"refresh", "reuse"}
<1> SUFFICES ASSUME \A r \in S : call[r].op \notin {"refresh", "reuse"} PROVE FALSE
  OBVIOUS
<1> DEFINE W == {x \in Row : \E r, q \in S : x \in Wanted(r) /\ x \in held[q]}
<1>1. ASSUME NEW r \in S PROVE \E x \in W : x \in plan[r]
  <2>1. PICK q \in S, x \in Wanted(r) : x \in held[q]
    BY DEF Circle, WaitsFor
  <2>2. x \in plan[r] /\ x \in Row
    BY <2>1 DEF Wanted, First, TypeInv, TypeOK
  <2> QED BY <2>1, <2>2
<1>2. ASSUME NEW r \in S PROVE call[r].op \in Logouts
  <2>1. call[r].op \in {"none", "refresh", "reuse", "logout", "logoutAll"}
    BY DEF TypeInv, TypeOK, Call
  <2>2. call[r].op # "none"
    BY <1>1 DEF TypeInv, CallInv
  <2> QED BY <2>1, <2>2 DEF Logouts
<1>3. ASSUME NEW x \in W PROVE \E y \in W : Before(x, y)
  <2>1. PICK q \in S : x \in held[q]
    BY <1>3
  <2>2. PICK y \in W : y \in plan[q]
    BY <1>1
  <2>3. \A u \in held[q], v \in plan[q] : Before(u, v)
    BY <1>2 DEF Climb, ClimbInv
  <2> QED BY <2>1, <2>2, <2>3
<1>4. W # {} /\ W \in SUBSET Row
  <2>1. S # {}
    BY DEF Circle
  <2> QED BY <1>1, <2>1
<1> HIDE DEF W
<1> QED BY <1>3, <1>4, LastRow

\* Logouts alone do not wait for each other in a circle: a refresh is in it, or
\* the revocation that a reused token brings.
THEOREM LogoutsDoNotDeadlock == Spec => []DeadlockNeedsRefresh
<1>1. Init => TypeInv /\ Climb
  BY InitType, InitClimb
<1>2. TypeInv /\ Climb /\ [Next]_vars => TypeInv' /\ Climb'
  BY StepType, StepClimb
<1>3. TypeInv /\ Climb => DeadlockNeedsRefresh
  BY NoCircle DEF DeadlockNeedsRefresh
<1> QED BY <1>1, <1>2, <1>3, PTL DEF Spec

=============================================================================
