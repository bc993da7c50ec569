------------------------- MODULE OpenBankingProofs -------------------------
(* Theorems about OpenBanking for every value of its constants.            *)
EXTENDS OpenBanking, TLAPS

LEMMA ZeroAndOne == 0 \in Tokens /\ 1 \in Tokens /\ Tokens \subseteq Nat
BY ConstantsAssumption DEF Tokens

LEMMA IdleReqType == IdleReq \in Requests
BY ZeroAndOne DEF IdleReq, Requests, Steps, SyncSteps, Statuses

(* What the moves shared by the handlers do to the requests and locks.     *)
LEMMA GotoType ==
  ASSUME NEW r \in Reqs, NEW step \in Steps, req \in [Reqs -> Requests], Goto(r, step)
  PROVE  req' \in [Reqs -> Requests]
BY DEF Goto, Requests

LEMMA TakeTokenType ==
  ASSUME NEW r \in Reqs, NEW step \in Steps, NEW t \in Tokens,
         req \in [Reqs -> Requests], req' = [req EXCEPT ![r].at = step, ![r].tok = t]
  PROVE  req' \in [Reqs -> Requests]
BY DEF Requests

LEMMA AnswerType ==
  ASSUME NEW r \in Reqs, TypeOK, Answer(r)
  PROVE  /\ req' \in [Reqs -> Requests]
         /\ lock' \in [Procs \X Conns -> Reqs \cup {None}]
BY IdleReqType DEF Answer, ReleasedBy, TypeOK

LEMMA BeginType ==
  ASSUME NEW r \in Reqs, NEW p \in Procs, NEW c \in Conns, NEW step \in Steps,
         TypeOK, Begin(r, p, c, step)
  PROVE  req' \in [Reqs -> Requests]
BY IdleReqType DEF Begin, TypeOK, Requests

LEMMA StepNames == {"idle", "insert", "seed", "drop", "close", "consent", "lookup",
                    "lock", "read", "refresh", "store", "pull"} = Steps
BY DEF Steps, SyncSteps

LEMMA WriteType ==
  ASSUME NEW r \in Reqs, TypeOK, req[r].conn \in Conns, req[r].at \in WritingSteps
  PROVE  WriteOf(r) \in Writes
BY ZeroAndOne DEF WriteOf, Writes, WritingSteps, TypeOK, Requests

----------------------------------------------------------------------------
LEMMA TypeInit == Init => TypeOK
BY ZeroAndOne, IdleReqType DEF Init, TypeOK, Statuses

(* A request that is under way has a connection and a process.             *)
Addressed ==
  \A r \in Reqs : req[r].at # "idle" => req[r].conn \in Conns /\ req[r].proc \in Procs

LEMMA TypeStep == TypeOK /\ Addressed /\ [Next]_vars => TypeOK'
<1> SUFFICES ASSUME TypeOK, Addressed, [Next]_vars PROVE TypeOK'
  OBVIOUS
<1>1. ASSUME NEW r \in Reqs, Step(r) PROVE TypeOK'
  <2>1. CASE CallbackInsert(r)
    BY <2>1, GotoType, StepNames DEF CallbackInsert, TypeOK, db, bank, Statuses
  <2>2. CASE CallbackRefused(r)
    BY <2>2, AnswerType DEF CallbackRefused, TypeOK, db, bank
  <2>3. CASE CallbackSeed(r)
    <3>1. req[r].tok \in Tokens BY DEF TypeOK, Requests
    <3> QED BY <2>3, <3>1, AnswerType DEF CallbackSeed, TypeOK, db, bank
  <2>4. CASE SyncReadConsent(r)
    BY <2>4, GotoType, AnswerType, StepNames DEF SyncReadConsent, TypeOK, db, bank
  <2>5. CASE SyncLookup(r)
    <3>1. CASE status[req[r].conn] = "absent"
      BY <2>5, <3>1, AnswerType DEF SyncLookup, TypeOK, db, bank
    <3>2. CASE status[req[r].conn] # "absent"
      <4>1. status[req[r].conn] \in Statuses BY <2>5 DEF TypeOK, Addressed, SyncLookup
      <4>2. req' \in [Reqs -> Requests]
        BY <2>5, <3>2, <4>1, StepNames DEF SyncLookup, Requests, TypeOK
      <4> QED BY <2>5, <3>2, <4>2 DEF SyncLookup, TypeOK, db, bank
    <3> QED BY <3>1, <3>2
  <2>6. CASE SyncLock(r)
    BY <2>6, GotoType, StepNames DEF SyncLock, TypeOK, db, bank
  <2>7. CASE SyncReadToken(r)
    <3>1. CASE token[req[r].conn] = 0
      BY <2>7, <3>1, AnswerType DEF SyncReadToken, TypeOK, db, bank
    <3>2. CASE token[req[r].conn] # 0
      <4>1. token[req[r].conn] \in Tokens BY <2>7 DEF TypeOK, Addressed, SyncReadToken
      <4>2. req' \in [Reqs -> Requests]
        BY <2>7, <3>2, <4>1, StepNames DEF SyncReadToken, Requests, TypeOK
      <4> QED BY <2>7, <3>2, <4>2 DEF SyncReadToken, TypeOK, db, bank
    <3> QED BY <3>1, <3>2
  <2>8. CASE SyncRefresh(r)
    <3> DEFINE next == newest[req[r].conn] + 1
    <3>0. next \in Tokens /\ "store" \in Steps BY <2>8, StepNames DEF SyncRefresh
    <3>1. req' \in [Reqs -> Requests]
      <4>1. req' = [req EXCEPT ![r].at = "store", ![r].tok = next]
        BY <2>8 DEF SyncRefresh
      <4>2. req \in [Reqs -> Requests] BY DEF TypeOK
      <4> HIDE DEF next
      <4> QED BY <3>0, <4>1, <4>2, TakeTokenType
    <3> QED BY <2>8, <3>1 DEF SyncRefresh, TypeOK, db, bank
  <2>9. CASE SyncRefused(r)
    BY <2>9, GotoType, StepNames DEF SyncRefused, TypeOK, db, bank
  <2>10. CASE SyncFails(r)
    BY <2>10, AnswerType DEF SyncFails, TypeOK, db, bank
  <2>11. CASE SyncStore(r)
    <3>1. req[r].tok \in Tokens BY DEF TypeOK, Requests
    <3>2. lock' \in [Procs \X Conns -> Reqs \cup {None}]
      BY <2>11 DEF SyncStore, ReleasedBy, TypeOK
    <3> QED BY <2>11, <3>1, <3>2, GotoType, StepNames DEF SyncStore, TypeOK, db, bank
  <2>12. CASE SyncPull(r)
    BY <2>12, AnswerType DEF SyncPull, TypeOK, db, bank
  <2>13. CASE DropToken(r)
    BY <2>13, ZeroAndOne, GotoType, StepNames DEF DropToken, TypeOK, db, bank
  <2>14. CASE CloseConnection(r)
    BY <2>14, AnswerType DEF CloseConnection, Closed, Statuses, TypeOK, db, bank
  <2> QED BY <1>1, <2>1, <2>2, <2>3, <2>4, <2>5, <2>6, <2>7, <2>8, <2>9, <2>10,
             <2>11, <2>12, <2>13, <2>14 DEF Step
<1>2. ASSUME NEW r \in Reqs, Arrive(r) PROVE TypeOK'
  <2>1. PICK p \in Procs, c \in Conns :
          CallbackExchange(r, p, c) \/ SyncBegin(r, p, c) \/ RevokeBegin(r, p, c)
    BY <1>2 DEF Arrive
  <2>2. CASE CallbackExchange(r, p, c)
    <3>1. req' \in [Reqs -> Requests]
      BY <2>2, IdleReqType, ZeroAndOne, StepNames DEF CallbackExchange, Requests, TypeOK
    <3> QED BY <2>2, <3>1, ZeroAndOne DEF CallbackExchange, TypeOK, db, bank
  <2>3. CASE SyncBegin(r, p, c)
    <3>1. "consent" \in Steps BY StepNames
    <3>2. req' \in [Reqs -> Requests] BY <2>3, <3>1, BeginType DEF SyncBegin
    <3> QED BY <2>3, <3>2 DEF SyncBegin, TypeOK, db, bank
  <2>4. CASE RevokeBegin(r, p, c)
    <3>1. "drop" \in Steps BY StepNames
    <3>2. req' \in [Reqs -> Requests] BY <2>4, <3>1, BeginType DEF RevokeBegin
    <3> QED BY <2>4, <3>2 DEF RevokeBegin, TypeOK, db, bank
  <2> QED BY <2>1, <2>2, <2>3, <2>4
<1>3. ASSUME NEW r \in Reqs, GoWrong(r) PROVE TypeOK'
  <2>1. CASE CallbackInsertUnanswered(r)
    <3>1. Answer(r) BY <2>1 DEF CallbackInsertUnanswered
    <3>2. status' \in [Conns -> Statuses]
      BY <2>1 DEF CallbackInsertUnanswered, Statuses, TypeOK
    <3>3. faults' \in Nat BY <2>1 DEF CallbackInsertUnanswered, Fault, TypeOK
    <3> QED BY <2>1, <3>1, <3>2, <3>3, AnswerType DEF CallbackInsertUnanswered, TypeOK, bank
  <2>2. CASE SyncRefreshUnanswered(r)
    <3>1. Answer(r) BY <2>2 DEF SyncRefreshUnanswered
    <3>2. newest' \in [Conns -> Tokens] BY <2>2 DEF SyncRefreshUnanswered, TypeOK
    <3>3. faults' \in Nat BY <2>2 DEF SyncRefreshUnanswered, Fault, TypeOK
    <3> QED BY <2>2, <3>1, <3>2, <3>3, AnswerType DEF SyncRefreshUnanswered, TypeOK, db
  <2>3. CASE WriteUnanswered(r)
    <3>1. WriteOf(r) \in Writes
      BY <2>3, WriteType DEF WriteUnanswered, WritingSteps, Addressed
    <3> QED BY <2>3, <3>1, AnswerType DEF WriteUnanswered, Fault, TypeOK, db, bank
  <2> QED BY <1>3, <2>1, <2>2, <2>3 DEF GoWrong
<1>4. ASSUME NEW w \in late, LateWrite(w) PROVE TypeOK'
  <2>1. w.conn \in Conns /\ w.tok \in Tokens /\ w.op \in {"store", "drop", "close"}
    BY DEF TypeOK, Writes
  <2> QED BY <1>4, <2>1, ZeroAndOne DEF LateWrite, Closed, Statuses, TypeOK, bank
<1>5. ASSUME NEW p \in Procs, Crash(p) PROVE TypeOK'
  <2> DEFINE dead == {r \in Reqs : req[r].proc = p}
  <2>1. req' \in [Reqs -> Requests] BY <1>5, IdleReqType DEF Crash, TypeOK
  <2>2. lock' \in [Procs \X Conns -> Reqs \cup {None}]
    BY <1>5 DEF Crash, ReleasedBy, TypeOK
  <2>3. \A r \in Reqs : req[r].at \in WritingSteps => WriteOf(r) \in Writes
    BY WriteType DEF Addressed, WritingSteps
  <2>4. late' \subseteq Writes BY <1>5, <2>3 DEF Crash, TypeOK
  <2> QED BY <1>5, <2>1, <2>2, <2>4 DEF Crash, Fault, TypeOK, bank
<1>6. ASSUME NEW c \in Conns, GrantEnds(c) PROVE TypeOK'
  BY <1>6 DEF GrantEnds, TypeOK, db
<1>7. CASE AcceptConsent
  <2>1. req' \in [Reqs -> Requests] BY <1>7 DEF AcceptConsent, Requests, TypeOK
  <2> QED BY <1>7, <2>1 DEF AcceptConsent, TypeOK, db, bank
<1>8. CASE WithdrawConsent
  BY <1>8 DEF WithdrawConsent, TypeOK, db, bank
<1>9. CASE UNCHANGED vars
  BY <1>9 DEF TypeOK, vars
<1> QED BY <1>1, <1>2, <1>3, <1>4, <1>5, <1>6, <1>7, <1>8, <1>9 DEF Next

----------------------------------------------------------------------------
(* The locks and their holders agree: a lock is held by the sync of that   *)
(* very connection in that very process, and by nobody else.               *)
Critical == {"read", "refresh", "store"}
LockInv ==
  /\ \A p \in Procs, c \in Conns : lock[<<p, c>>] \in Reqs =>
       /\ req[lock[<<p, c>>]].at \in Critical \cup {"drop", "close"}
       /\ req[lock[<<p, c>>]].proc = p
       /\ req[lock[<<p, c>>]].conn = c
  /\ \A r \in Reqs : req[r].at \in Critical => lock[<<req[r].proc, req[r].conn>>] = r
Control == Addressed /\ LockInv

(* A request moves on to `step` with the connection and process it has.    *)
Moves(r, step) ==
  /\ \A q \in Reqs : q # r => req'[q] = req[q]
  /\ req'[r].at = step
  /\ req'[r].conn = req[r].conn
  /\ req'[r].proc = req[r].proc

LEMMA GotoMoves ==
  ASSUME NEW r \in Reqs, NEW step, TypeOK, Goto(r, step)
  PROVE  Moves(r, step)
BY DEF Goto, Moves, TypeOK, Requests

LEMMA MovesControl ==
  ASSUME NEW r \in Reqs, NEW step, TypeOK, Control, Moves(r, step), lock' = lock,
         req[r].at # "idle",
         step \in Critical => req[r].at \in Critical,
         req[r].at \in Critical \cup {"drop", "close"}
           => step \in Critical \cup {"drop", "close"}
  PROVE  Control'
BY DEF Control, Addressed, LockInv, Moves, TypeOK

LEMMA AnswerControl ==
  ASSUME NEW r \in Reqs, TypeOK, Control, Answer(r)
  PROVE  Control'
<1>1. /\ \A q \in Reqs : q # r => req'[q] = req[q]
      /\ req'[r] = IdleReq /\ req'[r].at = "idle"
  BY DEF Answer, IdleReq, TypeOK
<1>2. \A p \in Procs, c \in Conns :
        lock'[<<p, c>>] = IF lock[<<p, c>>] = r THEN None ELSE lock[<<p, c>>]
  BY DEF Answer, ReleasedBy
<1>3. Addressed' BY <1>1 DEF Control, Addressed
<1>4. None \notin Reqs BY ConstantsAssumption
<1>5. LockInv'
  <2>1. ASSUME NEW p \in Procs, NEW c \in Conns, lock'[<<p, c>>] \in Reqs
        PROVE  /\ lock[<<p, c>>] = lock'[<<p, c>>] /\ lock[<<p, c>>] # r
               /\ req'[lock[<<p, c>>]] = req[lock[<<p, c>>]]
    BY <1>1, <1>2, <1>4, <2>1
  <2>2. ASSUME NEW q \in Reqs, req'[q].at \in Critical
        PROVE  lock'[<<req'[q].proc, req'[q].conn>>] = q
    <3>1. q # r /\ req'[q] = req[q] BY <1>1, <2>2 DEF Critical
    <3>2. req[q].proc \in Procs /\ req[q].conn \in Conns
      BY <2>2, <3>1 DEF Control, Addressed, Critical
    <3> QED BY <1>2, <2>2, <3>1, <3>2 DEF Control, LockInv
  <2> QED BY <2>1, <2>2 DEF Control, LockInv
<1> QED BY <1>3, <1>5 DEF Control

(* A request that begins with a connection and a process, outside the lock.*)
Begins(r) ==
  /\ req[r].at = "idle"
  /\ \A q \in Reqs : q # r => req'[q] = req[q]
  /\ req'[r].at \in {"consent", "drop", "insert"}
  /\ req'[r].conn \in Conns
  /\ req'[r].proc \in Procs

LEMMA BeginsControl ==
  ASSUME NEW r \in Reqs, TypeOK, Control, Begins(r), lock' = lock
  PROVE  Control'
BY DEF Control, Addressed, LockInv, Begins, Critical, TypeOK

LEMMA ControlInit == Init => Control
BY ConstantsAssumption DEF Init, Control, Addressed, LockInv, Critical, IdleReq

LEMMA ControlStep == TypeOK /\ Control /\ [Next]_vars => Control'
<1> SUFFICES ASSUME TypeOK, Control, [Next]_vars PROVE Control'
  OBVIOUS
<1>1. ASSUME NEW r \in Reqs, Step(r) PROVE Control'
  <2>1. CASE CallbackInsert(r)
    BY <2>1, GotoMoves, MovesControl DEF CallbackInsert, Critical
  <2>2. CASE CallbackRefused(r) BY <2>2, AnswerControl DEF CallbackRefused
  <2>3. CASE CallbackSeed(r) BY <2>3, AnswerControl DEF CallbackSeed
  <2>4. CASE SyncReadConsent(r)
    BY <2>4, GotoMoves, MovesControl, AnswerControl DEF SyncReadConsent, Critical
  <2>5. CASE SyncLookup(r)
    <3>1. CASE Answer(r) BY <3>1, AnswerControl
    <3>2. CASE req' = [req EXCEPT ![r].at = "lock", ![r].seen = status[req[r].conn]]
      <4>1. Moves(r, "lock") BY <3>2 DEF Moves, TypeOK, Requests
      <4>2. lock' = lock \/ Answer(r) BY <2>5 DEF SyncLookup
      <4> QED BY <2>5, <4>1, <4>2, <3>1, MovesControl DEF SyncLookup, Critical
    <3> QED BY <2>5, <3>1, <3>2 DEF SyncLookup
  <2>6. CASE SyncLock(r)
    <3>1. Moves(r, "read") BY <2>6, GotoMoves DEF SyncLock
    <3>2. req[r].proc \in Procs /\ req[r].conn \in Conns
      BY <2>6 DEF SyncLock, Control, Addressed
    <3>3. \A p \in Procs, c \in Conns : lock'[<<p, c>>] =
            IF p = req[r].proc /\ c = req[r].conn THEN r ELSE lock[<<p, c>>]
      BY <2>6, <3>2 DEF SyncLock, TypeOK
    <3>4. lock[<<req[r].proc, req[r].conn>>] = None /\ None \notin Reqs
      BY <2>6, ConstantsAssumption DEF SyncLock
    <3>5. ASSUME NEW p \in Procs, NEW c \in Conns PROVE lock[<<p, c>>] # r
      <4>1. req[r].at \notin Critical \cup {"drop", "close"}
        BY <2>6 DEF SyncLock, Critical
      <4> QED BY <4>1 DEF Control, LockInv
    <3>6. Addressed' BY <3>1, <3>2 DEF Moves, Control, Addressed
    <3>7. LockInv'
      <4>1. ASSUME NEW p \in Procs, NEW c \in Conns, lock'[<<p, c>>] \in Reqs
            PROVE  /\ req'[lock'[<<p, c>>]].at \in Critical \cup {"drop", "close"}
                   /\ req'[lock'[<<p, c>>]].proc = p
                   /\ req'[lock'[<<p, c>>]].conn = c
        <5>1. CASE p = req[r].proc /\ c = req[r].conn
          BY <3>1, <3>3, <5>1 DEF Moves, Critical
        <5>2. CASE ~(p = req[r].proc /\ c = req[r].conn)
          BY <3>1, <3>3, <3>5, <4>1, <5>2 DEF Moves, Control, LockInv
        <5> QED BY <5>1, <5>2
      <4>2. ASSUME NEW q \in Reqs, req'[q].at \in Critical
            PROVE  lock'[<<req'[q].proc, req'[q].conn>>] = q
        <5>1. CASE q = r BY <3>1, <3>2, <3>3, <5>1 DEF Moves
        <5>2. CASE q # r
          <6>1. req'[q] = req[q] BY <3>1, <5>2 DEF Moves
          <6>2. req[q].proc \in Procs /\ req[q].conn \in Conns
            BY <4>2, <6>1 DEF Control, Addressed, Critical
          <6>3. lock[<<req[q].proc, req[q].conn>>] = q
            BY <4>2, <6>1 DEF Control, LockInv
          <6> QED BY <3>3, <3>4, <6>1, <6>2, <6>3
        <5> QED BY <5>1, <5>2
      <4> QED BY <4>1, <4>2 DEF LockInv
    <3> QED BY <3>6, <3>7 DEF Control
  <2>7. CASE SyncReadToken(r)
    <3>1. CASE Answer(r) BY <3>1, AnswerControl
    <3>2. CASE req' = [req EXCEPT ![r].at = "refresh", ![r].tok = token[req[r].conn]]
      <4>1. Moves(r, "refresh") BY <3>2 DEF Moves, TypeOK, Requests
      <4>2. lock' = lock \/ Answer(r) BY <2>7 DEF SyncReadToken
      <4> QED BY <2>7, <4>1, <4>2, <3>1, MovesControl DEF SyncReadToken, Critical
    <3> QED BY <2>7, <3>1, <3>2 DEF SyncReadToken
  <2>8. CASE SyncRefresh(r)
    <3>1. Moves(r, "store") BY <2>8 DEF SyncRefresh, Moves, TypeOK, Requests
    <3> QED BY <2>8, <3>1, MovesControl DEF SyncRefresh, Critical
  <2>9. CASE SyncRefused(r)
    BY <2>9, GotoMoves, MovesControl DEF SyncRefused, Critical
  <2>10. CASE SyncFails(r) BY <2>10, AnswerControl DEF SyncFails
  <2>11. CASE SyncStore(r)
    <3>1. Moves(r, "pull") BY <2>11, GotoMoves DEF SyncStore
    <3>2. \A p \in Procs, c \in Conns :
            lock'[<<p, c>>] = IF lock[<<p, c>>] = r THEN None ELSE lock[<<p, c>>]
      BY <2>11 DEF SyncStore, ReleasedBy
    <3>3. None \notin Reqs BY ConstantsAssumption
    <3>4. Addressed' BY <2>11, <3>1 DEF SyncStore, Moves, Control, Addressed
    <3>5. ASSUME NEW q \in Reqs, req'[q].at \in Critical
          PROVE  lock'[<<req'[q].proc, req'[q].conn>>] = q
      <4>1. q # r /\ req'[q] = req[q] BY <3>1, <3>5 DEF Moves, Critical
      <4>2. req[q].proc \in Procs /\ req[q].conn \in Conns
        BY <3>5, <4>1 DEF Control, Addressed, Critical
      <4> QED BY <3>2, <3>5, <4>1, <4>2 DEF Control, LockInv
    <3>6. LockInv' BY <3>1, <3>2, <3>3, <3>5 DEF Moves, Control, LockInv
    <3> QED BY <3>4, <3>6 DEF Control
  <2>12. CASE SyncPull(r) BY <2>12, AnswerControl DEF SyncPull
  <2>13. CASE DropToken(r)
    BY <2>13, GotoMoves, MovesControl DEF DropToken, Critical
  <2>14. CASE CloseConnection(r) BY <2>14, AnswerControl DEF CloseConnection
  <2> QED BY <1>1, <2>1, <2>2, <2>3, <2>4, <2>5, <2>6, <2>7, <2>8, <2>9, <2>10,
             <2>11, <2>12, <2>13, <2>14 DEF Step
<1>2. ASSUME NEW r \in Reqs, Arrive(r) PROVE Control'
  <2>1. PICK p \in Procs, c \in Conns :
          CallbackExchange(r, p, c) \/ SyncBegin(r, p, c) \/ RevokeBegin(r, p, c)
    BY <1>2 DEF Arrive
  <2>2. CASE CallbackExchange(r, p, c)
    BY <2>2, BeginsControl DEF CallbackExchange, Begins, IdleReq, TypeOK
  <2>3. CASE SyncBegin(r, p, c)
    BY <2>3, BeginsControl DEF SyncBegin, Begin, Begins, IdleReq, TypeOK
  <2>4. CASE RevokeBegin(r, p, c)
    BY <2>4, BeginsControl DEF RevokeBegin, Begin, Begins, IdleReq, TypeOK
  <2> QED BY <2>1, <2>2, <2>3, <2>4
<1>3. ASSUME NEW r \in Reqs, GoWrong(r) PROVE Control'
  <2>1. Answer(r)
    BY <1>3 DEF GoWrong, CallbackInsertUnanswered, SyncRefreshUnanswered, WriteUnanswered
  <2> QED BY <2>1, AnswerControl
<1>4. ASSUME NEW w \in late, LateWrite(w) PROVE Control'
  BY <1>4 DEF LateWrite, Control, Addressed, LockInv
<1>5. ASSUME NEW p \in Procs, Crash(p) PROVE Control'
  <2>1. \A q \in Reqs : req'[q] = IF req[q].proc = p THEN IdleReq ELSE req[q]
    BY <1>5 DEF Crash
  <2>2. \A s \in Procs, c \in Conns : lock'[<<s, c>>] =
          IF lock[<<s, c>>] \in {q \in Reqs : req[q].proc = p} THEN None ELSE lock[<<s, c>>]
    BY <1>5 DEF Crash, ReleasedBy
  <2>3. None \notin Reqs BY ConstantsAssumption
  <2>4. IdleReq.at = "idle" BY DEF IdleReq
  <2>5. Addressed' BY <2>1, <2>4 DEF Control, Addressed
  <2>6. ASSUME NEW q \in Reqs, req'[q].at \in Critical
        PROVE  lock'[<<req'[q].proc, req'[q].conn>>] = q
    <3>1. req[q].proc # p /\ req'[q] = req[q] BY <2>1, <2>4, <2>6 DEF Critical
    <3>2. req[q].proc \in Procs /\ req[q].conn \in Conns
      BY <2>6, <3>1 DEF Control, Addressed, Critical
    <3> QED BY <2>2, <2>6, <3>1, <3>2 DEF Control, LockInv
  <2>7. ASSUME NEW s \in Procs, NEW c \in Conns, lock'[<<s, c>>] \in Reqs
        PROVE  /\ lock'[<<s, c>>] = lock[<<s, c>>]
               /\ req'[lock[<<s, c>>]] = req[lock[<<s, c>>]]
    BY <2>1, <2>2, <2>3, <2>7
  <2>8. LockInv' BY <2>6, <2>7 DEF Control, LockInv
  <2> QED BY <2>5, <2>8 DEF Control
<1>6. ASSUME NEW c \in Conns, GrantEnds(c) PROVE Control'
  BY <1>6 DEF GrantEnds, Control, Addressed, LockInv
<1>7. CASE AcceptConsent
  <2>1. \A q \in Reqs : /\ req'[q].at = req[q].at
                        /\ req'[q].conn = req[q].conn
                        /\ req'[q].proc = req[q].proc
    BY <1>7 DEF AcceptConsent, TypeOK, Requests
  <2>2. lock' = lock BY <1>7 DEF AcceptConsent
  <2>3. Addressed' BY <2>1 DEF Control, Addressed
  <2>4. LockInv' BY <2>1, <2>2 DEF Control, LockInv
  <2> QED BY <2>3, <2>4 DEF Control
<1>8. CASE WithdrawConsent
  BY <1>8 DEF WithdrawConsent, Control, Addressed, LockInv
<1>9. CASE UNCHANGED vars
  BY <1>9 DEF vars, Control, Addressed, LockInv
<1> QED BY <1>1, <1>2, <1>3, <1>4, <1>5, <1>6, <1>7, <1>8, <1>9 DEF Next

(* Every variable keeps its type, under any number of connections,         *)
(* requests, processes and faults.                                         *)
THEOREM TypeCorrect == Spec => []TypeOK
<1>1. Init => TypeOK /\ Control BY TypeInit, ControlInit
<1>2. TypeOK /\ Control /\ [Next]_vars => (TypeOK /\ Control)'
  BY TypeStep, ControlStep DEF Control
<1> QED BY <1>1, <1>2, PTL DEF Spec

LEMMA ControlCorrect == Spec => [](TypeOK /\ Control)
<1>1. Init => TypeOK /\ Control BY TypeInit, ControlInit
<1>2. TypeOK /\ Control /\ [Next]_vars => (TypeOK /\ Control)'
  BY TypeStep, ControlStep DEF Control
<1> QED BY <1>1, <1>2, PTL DEF Spec

(* The per-connection lock of sync excludes, however many syncs overlap:   *)
(* one process never has two of them between reading a connection's token  *)
(* and storing its replacement.                                            *)
THEOREM LockExcludes == Spec => []OneRefreshPerProcess
<1>1. TypeOK /\ Control => OneRefreshPerProcess
  <2> SUFFICES ASSUME Control, NEW r \in Reqs, NEW q \in Reqs,
                      {req[r].at, req[q].at} \subseteq {"read", "refresh", "store"},
                      req[r].conn = req[q].conn, req[r].proc = req[q].proc
               PROVE  r = q
    BY DEF OneRefreshPerProcess
  <2>1. req[r].at \in Critical /\ req[q].at \in Critical BY DEF Critical
  <2>2. /\ lock[<<req[r].proc, req[r].conn>>] = r
        /\ lock[<<req[q].proc, req[q].conn>>] = q
    BY <2>1 DEF Control, LockInv
  <2> QED BY <2>2
<1> QED BY <1>1, ControlCorrect, PTL

----------------------------------------------------------------------------
(* The newest token of a grant is in one pair of hands: while a request or *)
(* a late write carries it towards the database, neither the database nor  *)
(* any other request has a token the bank would still honour.              *)
Carriers   == {r \in Reqs : req[r].at \in {"insert", "seed", "store"}}
LateStores == {w \in late : w.op = "store"}
Readers    == {r \in Reqs : req[r].at = "refresh"}

Untouched(c) ==   \* nobody but a carrier has the newest token of c
  /\ newest[c] # 0
  /\ token[c] # newest[c]
  /\ \A q \in Readers : req[q].conn = c => req[q].tok # newest[c]

CarryInv ==
  /\ \A c \in Conns : token[c] \in 0..newest[c]
  /\ \A r \in Readers : req[r].tok \in 1..newest[req[r].conn]
  /\ \A r \in Carriers : req[r].tok = newest[req[r].conn] /\ Untouched(req[r].conn)
  /\ \A w \in LateStores : w.tok = newest[w.conn] /\ Untouched(w.conn)
  /\ \A r, q \in Carriers : req[r].conn = req[q].conn => r = q
  /\ \A w, v \in LateStores : w.conn = v.conn => w = v
  /\ \A r \in Carriers, w \in LateStores : req[r].conn # w.conn

(* A step that brings no token into the database and none out of it or the *)
(* bank: requests may lose what they hold, or leave it to a late write.    *)
Lapse ==
  /\ newest' = newest
  /\ \A c \in Conns : token'[c] \in {token[c], 0}
  /\ \A q \in Reqs : req'[q].at = "refresh" =>
       req[q].at = "refresh" /\ req'[q].conn = req[q].conn /\ req'[q].tok = req[q].tok
  /\ \A q \in Reqs : req'[q].at \in {"insert", "seed", "store"} =>
       /\ req[q].at \in {"insert", "seed", "store"}
       /\ req'[q].conn = req[q].conn /\ req'[q].tok = req[q].tok
  /\ \A w \in late' : w.op = "store" =>
       \/ w \in late
       \/ \E q \in Carriers : w = WriteOf(q) /\ req'[q].at = "idle"

LEMMA CarrierWrite ==
  ASSUME NEW q \in Reqs, WriteOf(q).op = "store"
  PROVE  WriteOf(q).conn = req[q].conn /\ WriteOf(q).tok = req[q].tok
BY DEF WriteOf

LEMMA LapseCarry ==
  ASSUME TypeOK, Addressed, CarryInv, Lapse
  PROVE  CarryInv'
<1>1. \A q \in Readers' : q \in Readers /\ req'[q].conn = req[q].conn /\ req'[q].tok = req[q].tok
  BY DEF Readers, Lapse
<1>2. \A q \in Carriers' : q \in Carriers /\ req'[q].conn = req[q].conn /\ req'[q].tok = req[q].tok
  BY DEF Carriers, Lapse
<1>3. \A c \in Conns : Untouched(c) => Untouched(c)'
  BY <1>1 DEF Untouched, Lapse
<1>4. ASSUME NEW c \in Conns PROVE token'[c] \in 0..newest'[c]
  <2>1. newest[c] \in Nat BY ZeroAndOne DEF TypeOK
  <2>2. token[c] \in 0..newest[c] BY DEF CarryInv
  <2>3. token'[c] \in {token[c], 0} /\ newest'[c] = newest[c] BY DEF Lapse
  <2> QED BY <2>1, <2>2, <2>3
<1>5. \A r \in Reqs : req[r].at # "idle" => req[r].conn \in Conns
  BY DEF Addressed
<1>6. ASSUME NEW w \in LateStores'
      PROVE  \/ w \in LateStores
             \/ \E q \in Carriers : /\ w = WriteOf(q) /\ q \notin Carriers'
                                   /\ w.conn = req[q].conn /\ w.tok = req[q].tok
  BY <1>6, CarrierWrite DEF LateStores, Lapse, Carriers
<1>7. \A r \in Carriers : req[r].conn \in Conns BY <1>5 DEF Carriers
<1>8. \A w \in LateStores : w.conn \in Conns BY DEF LateStores, TypeOK, Writes
<1>9. \A r \in Readers' : req'[r].tok \in 1..newest'[req'[r].conn]
  BY <1>1 DEF CarryInv, Lapse
<1>10. \A r \in Carriers' : (req[r].tok = newest[req[r].conn] /\ Untouched(req[r].conn))'
  <2> SUFFICES ASSUME NEW r \in Carriers'
               PROVE  (req[r].tok = newest[req[r].conn] /\ Untouched(req[r].conn))'
    OBVIOUS
  <2> DEFINE c == req[r].conn
  <2>1. r \in Carriers /\ c \in Conns /\ c' = c /\ req'[r].tok = req[r].tok
    BY <1>2, <1>7
  <2>2. req[r].tok = newest[c] /\ Untouched(c) BY <2>1 DEF CarryInv
  <2>3. newest' = newest BY DEF Lapse
  <2>4. newest'[c] # 0 /\ token'[c] # newest'[c]
    BY <2>1, <2>2, <2>3 DEF Untouched, Lapse
  <2>5. \A q \in Readers' : req'[q].conn = c => req'[q].tok # newest'[c]
    BY <1>1, <2>2, <2>3 DEF Untouched
  <2> QED BY <2>1, <2>2, <2>3, <2>4, <2>5 DEF Untouched
<1>11. \A w \in LateStores' : w.tok = newest'[w.conn] /\ Untouched(w.conn)'
  BY <1>3, <1>6, <1>7, <1>8 DEF CarryInv, Lapse
<1>12. \A r, q \in Carriers' : req'[r].conn = req'[q].conn => r = q
  BY <1>2 DEF CarryInv
<1>13. \A w, v \in LateStores' : w.conn = v.conn => w = v
  BY <1>6 DEF CarryInv
<1>14. \A r \in Carriers', w \in LateStores' : req'[r].conn # w.conn
  BY <1>2, <1>6 DEF CarryInv
<1> QED BY <1>4, <1>9, <1>10, <1>11, <1>12, <1>13, <1>14 DEF CarryInv

LEMMA AnswerLapse ==
  ASSUME NEW r \in Reqs, TypeOK, Answer(r), newest' = newest,
         \A c \in Conns : token'[c] \in {token[c], 0},
         \A w \in late' : w \in late \/ (r \in Carriers /\ w = WriteOf(r)) \/ w.op # "store"
  PROVE  Lapse
BY DEF Answer, IdleReq, Lapse, TypeOK, Carriers

LEMMA GotoLapse ==
  ASSUME NEW r \in Reqs, NEW step, TypeOK, Goto(r, step), newest' = newest, late' = late,
         \A c \in Conns : token'[c] \in {token[c], 0}, step # "refresh",
         step \in {"insert", "seed", "store"} => req[r].at \in {"insert", "seed", "store"}
  PROVE  Lapse
<1>1. /\ \A q \in Reqs : q # r => req'[q] = req[q]
      /\ req'[r].at = step /\ req'[r].conn = req[r].conn /\ req'[r].tok = req[r].tok
  BY DEF Goto, TypeOK, Requests
<1> QED BY <1>1 DEF Lapse

(* The steps of a request that move no token forward.                      *)
IdleStep(r) ==
  \/ CallbackInsert(r) \/ CallbackRefused(r)
  \/ SyncReadConsent(r) \/ SyncLookup(r) \/ SyncLock(r)
  \/ SyncRefused(r) \/ SyncFails(r) \/ SyncPull(r)
  \/ DropToken(r) \/ CloseConnection(r)

LEMMA IdleStepLapse ==
  ASSUME NEW r \in Reqs, TypeOK, Addressed, IdleStep(r)
  PROVE  Lapse
<1>1. CASE CallbackInsert(r) BY <1>1, GotoLapse DEF CallbackInsert, bank
<1>2. CASE CallbackRefused(r) BY <1>2, AnswerLapse DEF CallbackRefused, db, bank
<1>3. CASE SyncReadConsent(r)
  BY <1>3, AnswerLapse, GotoLapse DEF SyncReadConsent, db, bank
<1>4. CASE SyncLookup(r)
  <2>1. CASE status[req[r].conn] = "absent"
    BY <1>4, <2>1, AnswerLapse DEF SyncLookup, db, bank
  <2>2. CASE status[req[r].conn] # "absent"
    <3>1. /\ \A q \in Reqs : q # r => req'[q] = req[q]
          /\ req'[r].at = "lock"
      BY <1>4, <2>2 DEF SyncLookup, TypeOK, Requests
    <3> QED BY <1>4, <3>1 DEF SyncLookup, db, bank, Lapse
  <2> QED BY <2>1, <2>2
<1>5. CASE SyncLock(r) BY <1>5, GotoLapse DEF SyncLock, db, bank
<1>6. CASE SyncRefused(r) BY <1>6, GotoLapse DEF SyncRefused, db, bank
<1>7. CASE SyncFails(r) BY <1>7, AnswerLapse DEF SyncFails, db, bank
<1>8. CASE SyncPull(r) BY <1>8, AnswerLapse DEF SyncPull, db, bank
<1>9. CASE DropToken(r)
  <2>1. \A c \in Conns : token'[c] \in {token[c], 0} BY <1>9 DEF DropToken, TypeOK
  <2> QED BY <1>9, <2>1, GotoLapse DEF DropToken, bank
<1>10. CASE CloseConnection(r) BY <1>10, AnswerLapse DEF CloseConnection, bank
<1> QED BY <1>1, <1>2, <1>3, <1>4, <1>5, <1>6, <1>7, <1>8, <1>9, <1>10 DEF IdleStep

(* A carrier's token reaches the database.                                 *)
Deposits(r) == CallbackSeed(r) \/ SyncStore(r)

LEMMA DepositCarry ==
  ASSUME NEW r \in Reqs, TypeOK, Addressed, CarryInv, Deposits(r)
  PROVE  CarryInv'
<1> DEFINE d == req[r].conn
<1>1. r \in Carriers /\ d \in Conns
  BY DEF Deposits, CallbackSeed, SyncStore, Carriers, Addressed
<1>2. /\ newest' = newest /\ late' = late
      /\ token' = [token EXCEPT ![d] = req[r].tok]
  BY DEF Deposits, CallbackSeed, SyncStore, bank
<1>3. /\ \A q \in Reqs : q # r => req'[q] = req[q]
      /\ req'[r].at \in {"idle", "pull"}
  BY DEF Deposits, CallbackSeed, SyncStore, Answer, Goto, IdleReq, TypeOK, Requests
<1>4. /\ \A q \in Readers' : q \in Readers /\ req'[q] = req[q]
      /\ \A q \in Carriers' : q \in Carriers /\ req'[q] = req[q] /\ q # r
      /\ LateStores' = LateStores
  BY <1>2, <1>3 DEF Readers, Carriers, LateStores
<1>5. /\ \A q \in Carriers' : req[q].conn # d /\ req[q].conn \in Conns
      /\ \A w \in LateStores : w.conn # d /\ w.conn \in Conns
  BY <1>1, <1>4 DEF CarryInv, LateStores, TypeOK, Writes, Addressed, Carriers
<1>6. ASSUME NEW c \in Conns, c # d, Untouched(c) PROVE Untouched(c)'
  BY <1>2, <1>4, <1>6 DEF Untouched, TypeOK
<1>7. ASSUME NEW c \in Conns PROVE token'[c] \in 0..newest'[c]
  <2>1. newest[c] \in Nat /\ token[c] \in 0..newest[c]
    BY ZeroAndOne DEF TypeOK, CarryInv
  <2>2. CASE c = d
    BY <1>1, <1>2, <2>1, <2>2 DEF CarryInv, TypeOK
  <2>3. CASE c # d BY <1>2, <2>1, <2>3 DEF TypeOK
  <2> QED BY <2>2, <2>3
<1>8. \A q \in Readers' : req'[q].tok \in 1..newest'[req'[q].conn]
  BY <1>2, <1>4 DEF CarryInv
<1>9. \A q \in Carriers' : (req[q].tok = newest[req[q].conn] /\ Untouched(req[q].conn))'
  <2> SUFFICES ASSUME NEW q \in Carriers'
               PROVE  (req[q].tok = newest[req[q].conn] /\ Untouched(req[q].conn))'
    OBVIOUS
  <2> DEFINE c == req[q].conn
  <2>1. q \in Carriers /\ c \in Conns /\ c # d /\ c' = c /\ req'[q].tok = req[q].tok
    BY <1>4, <1>5
  <2>2. req[q].tok = newest[c] /\ Untouched(c) BY <2>1 DEF CarryInv
  <2>3. newest'[c] # 0 /\ token'[c] # newest'[c]
    BY <1>2, <2>1, <2>2 DEF Untouched, TypeOK
  <2>4. \A s \in Readers' : req'[s].conn = c => req'[s].tok # newest'[c]
    BY <1>2, <1>4, <2>2 DEF Untouched
  <2> QED BY <1>2, <2>1, <2>2, <2>3, <2>4 DEF Untouched
<1>10. \A w \in LateStores' : w.tok = newest'[w.conn] /\ Untouched(w.conn)'
  BY <1>2, <1>4, <1>5, <1>6 DEF CarryInv
<1>11. \A s, q \in Carriers' : req'[s].conn = req'[q].conn => s = q
  BY <1>4 DEF CarryInv
<1>12. \A w, v \in LateStores' : w.conn = v.conn => w = v BY <1>4 DEF CarryInv
<1>13. \A q \in Carriers', w \in LateStores' : req'[q].conn # w.conn
  BY <1>4 DEF CarryInv
<1> QED BY <1>7, <1>8, <1>9, <1>10, <1>11, <1>12, <1>13 DEF CarryInv

(* A late store is applied.                                                *)
LEMMA LateStoreCarry ==
  ASSUME NEW w \in LateStores, TypeOK, Addressed, CarryInv, LateWrite(w)
  PROVE  CarryInv'
<1> DEFINE d == w.conn
<1>1. w \in late /\ w.op = "store" /\ d \in Conns /\ w.tok \in Tokens
  BY DEF LateStores, TypeOK, Writes
<1>2. /\ newest' = newest /\ req' = req /\ late' = late \ {w}
      /\ token' = [token EXCEPT ![d] = w.tok]
  BY <1>1 DEF LateWrite, bank
<1>3. Readers' = Readers /\ Carriers' = Carriers /\ LateStores' = LateStores \ {w}
  BY <1>2 DEF Readers, Carriers, LateStores
<1>4. /\ \A q \in Carriers : req[q].conn # d /\ req[q].conn \in Conns
      /\ \A v \in LateStores' : v \in LateStores /\ v.conn # d /\ v.conn \in Conns
  BY <1>3 DEF CarryInv, LateStores, TypeOK, Writes, Addressed, Carriers
<1>5. ASSUME NEW c \in Conns, c # d, Untouched(c) PROVE Untouched(c)'
  BY <1>2, <1>3, <1>5 DEF Untouched, TypeOK
<1>6. ASSUME NEW c \in Conns PROVE token'[c] \in 0..newest'[c]
  <2>1. newest[c] \in Nat /\ token[c] \in 0..newest[c]
    BY ZeroAndOne DEF TypeOK, CarryInv
  <2>2. CASE c = d BY <1>1, <1>2, <2>1, <2>2 DEF CarryInv, TypeOK
  <2>3. CASE c # d BY <1>2, <2>1, <2>3 DEF TypeOK
  <2> QED BY <2>2, <2>3
<1>7. \A q \in Readers' : req'[q].tok \in 1..newest'[req'[q].conn]
  BY <1>2, <1>3 DEF CarryInv
<1>8. \A q \in Carriers' : (req[q].tok = newest[req[q].conn] /\ Untouched(req[q].conn))'
  <2> SUFFICES ASSUME NEW q \in Carriers
               PROVE  (req[q].tok = newest[req[q].conn] /\ Untouched(req[q].conn))'
    BY <1>3
  <2> DEFINE c == req[q].conn
  <2>1. c \in Conns /\ c # d /\ c' = c /\ req'[q] = req[q] BY <1>2, <1>4
  <2>2. req[q].tok = newest[c] /\ Untouched(c) BY DEF CarryInv
  <2>3. newest'[c] # 0 /\ token'[c] # newest'[c]
    BY <1>2, <2>1, <2>2 DEF Untouched, TypeOK
  <2>4. \A s \in Readers' : req'[s].conn = c => req'[s].tok # newest'[c]
    BY <1>2, <1>3, <2>2 DEF Untouched
  <2> QED BY <1>2, <2>1, <2>2, <2>3, <2>4 DEF Untouched
<1>9. \A v \in LateStores' : v.tok = newest'[v.conn] /\ Untouched(v.conn)'
  BY <1>2, <1>4, <1>5 DEF CarryInv
<1>10. \A s, q \in Carriers' : req'[s].conn = req'[q].conn => s = q
  BY <1>2, <1>3 DEF CarryInv
<1>11. \A u, v \in LateStores' : u.conn = v.conn => u = v BY <1>4 DEF CarryInv
<1>12. \A q \in Carriers', v \in LateStores' : req'[q].conn # v.conn
  BY <1>2, <1>3, <1>4 DEF CarryInv
<1> QED BY <1>6, <1>7, <1>8, <1>9, <1>10, <1>11, <1>12 DEF CarryInv

(* A sync takes a copy of the stored token.                                *)
LEMMA ReadCarry ==
  ASSUME NEW r \in Reqs, TypeOK, Addressed, CarryInv, SyncReadToken(r)
  PROVE  CarryInv'
<1> DEFINE d == req[r].conn
<1>1. d \in Conns /\ newest' = newest /\ token' = token /\ late' = late
  BY DEF SyncReadToken, Addressed, db, bank
<1>2. CASE token[d] = 0
  <2>1. Answer(r) BY <1>2 DEF SyncReadToken
  <2>2. Lapse BY <1>1, <2>1, AnswerLapse
  <2> QED BY <2>2, LapseCarry
<1>3. CASE token[d] # 0
  <2>1. /\ \A q \in Reqs : q # r => req'[q] = req[q]
        /\ req'[r].at = "refresh" /\ req'[r].conn = d /\ req'[r].tok = token[d]
    BY <1>3 DEF SyncReadToken, TypeOK, Requests
  <2>2. req[r].at = "read" BY DEF SyncReadToken
  <2>3. /\ Carriers' = Carriers /\ r \notin Carriers /\ LateStores' = LateStores
        /\ Readers' = Readers \cup {r} /\ r \notin Readers
    BY <1>1, <2>1, <2>2 DEF Carriers, LateStores, Readers
  <2>4. token[d] \in 1..newest[d]
    <3>1. token[d] \in 0..newest[d] /\ newest[d] \in Nat
      BY <1>1, ZeroAndOne DEF CarryInv, TypeOK
    <3> QED BY <1>3, <3>1
  <2>5. ASSUME NEW c \in Conns, Untouched(c) PROVE Untouched(c)'
    <3>1. \A q \in Readers : req'[q] = req[q] BY <2>1, <2>3 DEF Readers
    <3>2. req'[r].conn = c => req'[r].tok # newest[c] BY <2>1, <2>5 DEF Untouched
    <3> QED BY <1>1, <2>3, <2>5, <3>1, <3>2 DEF Untouched
  <2>6. \A q \in Readers' : req'[q].tok \in 1..newest'[req'[q].conn]
    BY <1>1, <2>1, <2>3, <2>4 DEF CarryInv, Readers
  <2>7. \A q \in Carriers' : (req[q].tok = newest[req[q].conn] /\ Untouched(req[q].conn))'
    <3> SUFFICES ASSUME NEW q \in Carriers
                 PROVE  (req[q].tok = newest[req[q].conn] /\ Untouched(req[q].conn))'
      BY <2>3
    <3> DEFINE c == req[q].conn
    <3>1. c \in Conns /\ c' = c /\ req'[q] = req[q]
      BY <2>1, <2>3 DEF Addressed, Carriers
    <3>2. req[q].tok = newest[c] /\ Untouched(c) BY DEF CarryInv
    <3>3. newest'[c] # 0 /\ token'[c] # newest'[c] BY <1>1, <3>2 DEF Untouched
    <3>4. \A s \in Readers' : req'[s].conn = c => req'[s].tok # newest'[c]
      BY <1>1, <2>1, <2>3, <3>2 DEF Untouched, Readers
    <3> QED BY <1>1, <3>1, <3>2, <3>3, <3>4 DEF Untouched
  <2>8. \A w \in LateStores' : w.tok = newest'[w.conn] /\ Untouched(w.conn)'
    <3>1. \A w \in LateStores : w.conn \in Conns BY DEF LateStores, TypeOK, Writes
    <3> QED BY <1>1, <2>3, <2>5, <3>1 DEF CarryInv
  <2>9. \A s, q \in Carriers' : req'[s].conn = req'[q].conn => s = q
    BY <2>1, <2>3 DEF CarryInv, Carriers
  <2>10. \A q \in Carriers', w \in LateStores' : req'[q].conn # w.conn
    BY <2>1, <2>3 DEF CarryInv, Carriers
  <2>11. \A c \in Conns : token'[c] \in 0..newest'[c] BY <1>1 DEF CarryInv
  <2>12. \A w, v \in LateStores' : w.conn = v.conn => w = v BY <2>3 DEF CarryInv
  <2> QED BY <2>6, <2>7, <2>8, <2>9, <2>10, <2>11, <2>12 DEF CarryInv
<1> QED BY <1>2, <1>3

(* The bank rotates the token a reader shows it.                           *)
Rotates(r) == SyncRefresh(r) \/ SyncRefreshUnanswered(r)

LEMMA RotateCarry ==
  ASSUME NEW r \in Reqs, TypeOK, Addressed, CarryInv, Rotates(r)
  PROVE  CarryInv'
<1> DEFINE d == req[r].conn
           n == newest[d] + 1
<1>1. /\ d \in Conns /\ r \in Readers /\ req[r].tok = newest[d] /\ n \in Tokens
      /\ token' = token /\ late' = late /\ newest' = [newest EXCEPT ![d] = n]
  BY DEF Rotates, SyncRefresh, SyncRefreshUnanswered, Honoured, Addressed, Readers, db
<1>2. /\ \A q \in Reqs : q # r => req'[q] = req[q]
      /\ \/ req'[r].at = "idle"
         \/ req'[r].at = "store" /\ req'[r].conn = d /\ req'[r].tok = n
  <2>1. CASE SyncRefresh(r) BY <2>1 DEF SyncRefresh, TypeOK, Requests
  <2>2. CASE SyncRefreshUnanswered(r)
    BY <2>2 DEF SyncRefreshUnanswered, Answer, IdleReq, TypeOK
  <2> QED BY <2>1, <2>2 DEF Rotates
<1>3. newest[d] \in Nat /\ n # 0 /\ newest'[d] = n
  <2>1. newest[d] \in Nat BY <1>1, ZeroAndOne DEF TypeOK
  <2>2. newest'[d] = n BY <1>1 DEF TypeOK
  <2> QED BY <2>1, <2>2
<1>4. /\ \A q \in Readers' : q \in Readers /\ q # r /\ req'[q] = req[q]
      /\ \A q \in Carriers' : q # r => q \in Carriers /\ req'[q] = req[q]
      /\ LateStores' = LateStores /\ r \notin Carriers
  BY <1>1, <1>2 DEF Readers, Carriers, LateStores
<1>5. ~Untouched(d) BY <1>1 DEF Untouched
<1>6. /\ \A q \in Carriers : req[q].conn # d /\ req[q].conn \in Conns
      /\ \A w \in LateStores : w.conn # d /\ w.conn \in Conns
  <2>1. \A q \in Carriers : req[q].conn \in Conns BY DEF Carriers, Addressed
  <2>2. \A w \in LateStores : w.conn \in Conns BY DEF LateStores, TypeOK, Writes
  <2> QED BY <1>5, <2>1, <2>2 DEF CarryInv
<1>7. ASSUME NEW c \in Conns, c # d, Untouched(c) PROVE Untouched(c)'
  BY <1>1, <1>4, <1>7 DEF Untouched, TypeOK
<1>8. ASSUME NEW c \in Conns PROVE token'[c] \in 0..newest'[c]
  <2>1. newest[c] \in Nat /\ token[c] \in 0..newest[c]
    BY ZeroAndOne DEF TypeOK, CarryInv
  <2>2. CASE c = d BY <1>1, <1>3, <2>1, <2>2
  <2>3. CASE c # d BY <1>1, <2>1, <2>3 DEF TypeOK
  <2> QED BY <2>2, <2>3
<1>9. ASSUME NEW q \in Readers'
      PROVE  /\ req'[q].tok \in 1..newest'[req'[q].conn]
             /\ req'[q].conn = d => req'[q].tok # newest'[d]
  <2>1. q \in Readers /\ req'[q] = req[q] BY <1>4
  <2>2. req[q].tok \in 1..newest[req[q].conn] /\ req[q].conn \in Conns
    BY <2>1 DEF CarryInv, Readers, Addressed
  <2>3. newest[req[q].conn] \in Nat BY <2>2, ZeroAndOne DEF TypeOK
  <2>4. CASE req[q].conn = d BY <1>3, <2>1, <2>2, <2>4
  <2>5. CASE req[q].conn # d BY <1>1, <2>1, <2>2, <2>5 DEF TypeOK
  <2> QED BY <2>4, <2>5
<1>10. token'[d] # newest'[d]
  <2>1. token[d] \in 0..newest[d] BY <1>1 DEF CarryInv
  <2> QED BY <1>1, <1>3, <2>1
<1>11. \A q \in Carriers' : (req[q].tok = newest[req[q].conn] /\ Untouched(req[q].conn))'
  <2> SUFFICES ASSUME NEW q \in Carriers'
               PROVE  (req[q].tok = newest[req[q].conn] /\ Untouched(req[q].conn))'
    OBVIOUS
  <2>1. CASE q = r
    <3>1. req'[q].conn = d /\ req'[q].tok = newest'[d]
      BY <1>2, <1>3, <2>1 DEF Carriers
    <3> HIDE DEF d
    <3> QED BY <1>3, <1>9, <1>10, <3>1 DEF Untouched
  <2>2. CASE q # r
    <3> DEFINE c == req[q].conn
    <3>1. q \in Carriers /\ c \in Conns /\ c # d /\ c' = c /\ req'[q] = req[q]
      BY <1>4, <1>6, <2>2
    <3>2. req[q].tok = newest[c] /\ Untouched(c) BY <3>1 DEF CarryInv
    <3>3. newest'[c] = newest[c] BY <1>1, <3>1 DEF TypeOK
    <3>4. newest'[c] # 0 /\ token'[c] # newest'[c]
      BY <1>1, <3>2, <3>3 DEF Untouched
    <3>5. \A s \in Readers' : req'[s].conn = c => req'[s].tok # newest'[c]
      BY <1>4, <3>2, <3>3 DEF Untouched
    <3> QED BY <3>1, <3>2, <3>3, <3>4, <3>5 DEF Untouched
  <2> QED BY <2>1, <2>2
<1>12. \A w \in LateStores' : w.tok = newest'[w.conn] /\ Untouched(w.conn)'
  BY <1>1, <1>4, <1>6, <1>7 DEF CarryInv, TypeOK
<1>13. \A s, q \in Carriers' : req'[s].conn = req'[q].conn => s = q
  <2>1. \A q \in Carriers' : q # r => q \in Carriers /\ req'[q].conn = req[q].conn /\ req'[q].conn # d
    BY <1>4, <1>6
  <2>2. r \in Carriers' => req'[r].conn = d BY <1>2 DEF Carriers
  <2> QED BY <2>1, <2>2 DEF CarryInv
<1>14. \A w, v \in LateStores' : w.conn = v.conn => w = v BY <1>4 DEF CarryInv
<1>15. \A q \in Carriers', w \in LateStores' : req'[q].conn # w.conn
  <2>1. \A q \in Carriers' : q # r => q \in Carriers /\ req'[q].conn = req[q].conn
    BY <1>4
  <2>2. r \in Carriers' => req'[r].conn = d BY <1>2 DEF Carriers
  <2> QED BY <1>4, <1>6, <2>1, <2>2 DEF CarryInv
<1> QED BY <1>8, <1>9, <1>11, <1>12, <1>13, <1>14, <1>15 DEF CarryInv

(* The bank opens a grant and gives its first token to the callback.       *)
LEMMA IssueCarry ==
  ASSUME NEW r \in Reqs, NEW p \in Procs, NEW d \in Conns,
         TypeOK, Addressed, CarryInv, CallbackExchange(r, p, d)
  PROVE  CarryInv'
<1>1. /\ newest[d] = 0 /\ req[r].at = "idle" /\ token' = token /\ late' = late
      /\ newest' = [newest EXCEPT ![d] = 1]
  BY DEF CallbackExchange, db
<1>2. /\ \A q \in Reqs : q # r => req'[q] = req[q]
      /\ req'[r].at = "insert" /\ req'[r].conn = d /\ req'[r].tok = 1
  BY DEF CallbackExchange, IdleReq, TypeOK
<1>3. newest'[d] = 1 BY <1>1 DEF TypeOK
<1>4. /\ Readers' = Readers /\ Carriers' = Carriers \cup {r} /\ LateStores' = LateStores
      /\ r \notin Readers /\ r \notin Carriers
  BY <1>1, <1>2 DEF Readers, Carriers, LateStores
<1>5. ~Untouched(d) BY <1>1 DEF Untouched
<1>6. /\ \A q \in Carriers : req[q].conn # d /\ req[q].conn \in Conns
      /\ \A w \in LateStores : w.conn # d /\ w.conn \in Conns
  BY <1>5 DEF CarryInv, Carriers, LateStores, Addressed, TypeOK, Writes
<1>7. \A q \in Readers : req[q].conn # d /\ req'[q] = req[q] /\ q # r /\ req[q].conn \in Conns
  <2> SUFFICES ASSUME NEW q \in Readers
               PROVE  req[q].conn # d /\ req'[q] = req[q] /\ q # r /\ req[q].conn \in Conns
    OBVIOUS
  <2>1. req[q].tok \in 1..newest[req[q].conn] BY DEF CarryInv
  <2>2. req[q].conn # d BY <1>1, <2>1
  <2> QED BY <1>2, <1>4, <2>2 DEF Addressed, Readers
<1>8. ASSUME NEW c \in Conns, c # d, Untouched(c) PROVE Untouched(c)'
  BY <1>1, <1>4, <1>7, <1>8 DEF Untouched, TypeOK
<1>9. ASSUME NEW c \in Conns PROVE token'[c] \in 0..newest'[c]
  <2>1. newest[c] \in Nat /\ token[c] \in 0..newest[c]
    BY ZeroAndOne DEF TypeOK, CarryInv
  <2>2. CASE c = d BY <1>1, <1>3, <2>1, <2>2
  <2>3. CASE c # d BY <1>1, <2>1, <2>3 DEF TypeOK
  <2> QED BY <2>2, <2>3
<1>10. \A q \in Readers' : req'[q].tok \in 1..newest'[req'[q].conn]
  BY <1>1, <1>4, <1>7 DEF CarryInv, TypeOK
<1>11. token[d] = 0
  <2>1. token[d] \in 0..newest[d] BY DEF CarryInv
  <2> QED BY <1>1, <2>1
<1>12. \A q \in Carriers' : (req[q].tok = newest[req[q].conn] /\ Untouched(req[q].conn))'
  <2> SUFFICES ASSUME NEW q \in Carriers'
               PROVE  (req[q].tok = newest[req[q].conn] /\ Untouched(req[q].conn))'
    OBVIOUS
  <2>1. CASE q = r
    BY <1>1, <1>2, <1>3, <1>4, <1>7, <1>11, <2>1 DEF Untouched
  <2>2. CASE q # r
    <3> DEFINE c == req[q].conn
    <3>1. q \in Carriers /\ c \in Conns /\ c # d /\ c' = c /\ req'[q] = req[q]
      BY <1>2, <1>4, <1>6, <2>2 DEF Carriers
    <3>2. req[q].tok = newest[c] /\ Untouched(c) BY <3>1 DEF CarryInv
    <3>3. newest'[c] = newest[c] BY <1>1, <3>1 DEF TypeOK
    <3>4. newest'[c] # 0 /\ token'[c] # newest'[c]
      BY <1>1, <3>2, <3>3 DEF Untouched
    <3>5. \A s \in Readers' : req'[s].conn = c => req'[s].tok # newest'[c]
      BY <1>4, <1>7, <3>2, <3>3 DEF Untouched
    <3> QED BY <3>1, <3>2, <3>3, <3>4, <3>5 DEF Untouched
  <2> QED BY <2>1, <2>2
<1>13. \A w \in LateStores' : w.tok = newest'[w.conn] /\ Untouched(w.conn)'
  BY <1>1, <1>4, <1>6, <1>8 DEF CarryInv, TypeOK
<1>14. \A s, q \in Carriers' : req'[s].conn = req'[q].conn => s = q
  <2>1. \A q \in Carriers : q # r /\ req'[q] = req[q] /\ req[q].conn # d
    BY <1>2, <1>4, <1>6 DEF Carriers
  <2> QED BY <1>2, <1>4, <2>1 DEF CarryInv
<1>15. \A w, v \in LateStores' : w.conn = v.conn => w = v BY <1>4 DEF CarryInv
<1>16. \A q \in Carriers', w \in LateStores' : req'[q].conn # w.conn
  <2>1. \A q \in Carriers : q # r /\ req'[q] = req[q]
    BY <1>2, <1>4 DEF Carriers
  <2> QED BY <1>2, <1>4, <1>6, <2>1 DEF CarryInv
<1> QED BY <1>9, <1>10, <1>12, <1>13, <1>14, <1>15, <1>16 DEF CarryInv

LEMMA CarryInit == Init => CarryInv
BY DEF Init, CarryInv, Carriers, Readers, LateStores, IdleReq

(* A process dies: its requests lose what they hold or leave it to a write. *)
LEMMA CrashLapse ==
  ASSUME NEW p \in Procs, TypeOK, Crash(p)
  PROVE  Lapse
<1>1. \A q \in Reqs : req'[q] = IF req[q].proc = p THEN IdleReq ELSE req[q]
  BY DEF Crash
<1>2. IdleReq.at = "idle" BY DEF IdleReq
<1>3. ASSUME NEW w \in late', w.op = "store"
      PROVE  w \in late \/ \E q \in Carriers : w = WriteOf(q) /\ req'[q].at = "idle"
  <2>1. CASE w \in late BY <2>1
  <2>2. CASE w \notin late
    <3>1. PICK q \in Reqs : w = WriteOf(q) /\ req[q].proc = p /\ req[q].at \in WritingSteps
      BY <2>2 DEF Crash
    <3>2. q \in Carriers BY <1>3, <3>1 DEF WriteOf, WritingSteps, Carriers
    <3> QED BY <1>1, <1>2, <3>1, <3>2
  <2> QED BY <2>1, <2>2
<1>4. newest' = newest /\ token' = token BY DEF Crash, bank
<1> QED BY <1>1, <1>2, <1>3, <1>4 DEF Lapse

LEMMA CarryStep == TypeOK /\ Addressed /\ CarryInv /\ [Next]_vars => CarryInv'
<1> SUFFICES ASSUME TypeOK, Addressed, CarryInv, [Next]_vars PROVE CarryInv'
  OBVIOUS
<1>1. ASSUME NEW r \in Reqs, Step(r) PROVE CarryInv'
  BY <1>1, IdleStepLapse, LapseCarry, DepositCarry, ReadCarry, RotateCarry
     DEF Step, IdleStep, Deposits, Rotates
<1>2. ASSUME NEW r \in Reqs, Arrive(r) PROVE CarryInv'
  <2>1. PICK p \in Procs, c \in Conns :
          CallbackExchange(r, p, c) \/ SyncBegin(r, p, c) \/ RevokeBegin(r, p, c)
    BY <1>2 DEF Arrive
  <2>2. CASE CallbackExchange(r, p, c) BY <2>2, IssueCarry
  <2>3. CASE SyncBegin(r, p, c)
    <3>1. Lapse BY <2>3 DEF SyncBegin, Begin, Lapse, IdleReq, TypeOK, db, bank
    <3> QED BY <3>1, LapseCarry
  <2>4. CASE RevokeBegin(r, p, c)
    <3>1. Lapse BY <2>4 DEF RevokeBegin, Begin, Lapse, IdleReq, TypeOK, db, bank
    <3> QED BY <3>1, LapseCarry
  <2> QED BY <2>1, <2>2, <2>3, <2>4
<1>3. ASSUME NEW r \in Reqs, GoWrong(r) PROVE CarryInv'
  <2>1. CASE CallbackInsertUnanswered(r)
    <3>1. Lapse BY <2>1, AnswerLapse DEF CallbackInsertUnanswered, bank
    <3> QED BY <3>1, LapseCarry
  <2>2. CASE SyncRefreshUnanswered(r) BY <2>2, RotateCarry DEF Rotates
  <2>3. CASE WriteUnanswered(r)
    <3>1. r \in Carriers \/ WriteOf(r).op # "store"
      BY <2>3 DEF WriteUnanswered, WritingSteps, WriteOf, Carriers
    <3>2. Lapse BY <2>3, <3>1, AnswerLapse DEF WriteUnanswered, bank
    <3> QED BY <3>2, LapseCarry
  <2> QED BY <1>3, <2>1, <2>2, <2>3 DEF GoWrong
<1>4. ASSUME NEW w \in late, LateWrite(w) PROVE CarryInv'
  <2>1. CASE w.op = "store" BY <1>4, <2>1, LateStoreCarry DEF LateStores
  <2>2. CASE w.op # "store"
    <3>1. w.op \in {"drop", "close"} BY <2>2 DEF TypeOK, Writes
    <3>2. \A c \in Conns : token'[c] \in {token[c], 0}
      BY <1>4, <3>1 DEF LateWrite, TypeOK
    <3>3. Lapse BY <1>4, <3>2 DEF LateWrite, Lapse, bank
    <3> QED BY <3>3, LapseCarry
  <2> QED BY <2>1, <2>2
<1>5. ASSUME NEW p \in Procs, Crash(p) PROVE CarryInv'
  BY <1>5, CrashLapse, LapseCarry
<1>6. ASSUME NEW c \in Conns, GrantEnds(c) PROVE CarryInv'
  <2>1. Lapse BY <1>6 DEF GrantEnds, Lapse, db
  <2> QED BY <2>1, LapseCarry
<1>7. CASE AcceptConsent
  <2>1. \A q \in Reqs : /\ req'[q].at = req[q].at
                        /\ req'[q].conn = req[q].conn
                        /\ req'[q].tok = req[q].tok
    BY <1>7 DEF AcceptConsent, TypeOK, Requests
  <2>2. Lapse BY <1>7, <2>1 DEF AcceptConsent, Lapse, db, bank
  <2> QED BY <2>2, LapseCarry
<1>8. CASE WithdrawConsent
  <2>1. Lapse BY <1>8 DEF WithdrawConsent, Lapse, db, bank
  <2> QED BY <2>1, LapseCarry
<1>9. CASE UNCHANGED vars
  <2>1. Lapse BY <1>9 DEF vars, Lapse
  <2> QED BY <2>1, LapseCarry
<1> QED BY <1>1, <1>2, <1>3, <1>4, <1>5, <1>6, <1>7, <1>8, <1>9 DEF Next

LEMMA CarryCorrect == Spec => [](TypeOK /\ Control /\ CarryInv)
<1>1. Init => TypeOK /\ Control /\ CarryInv BY TypeInit, ControlInit, CarryInit
<1>2. TypeOK /\ Control /\ CarryInv /\ [Next]_vars => (TypeOK /\ Control /\ CarryInv)'
  BY TypeStep, ControlStep, CarryStep DEF Control
<1> QED BY <1>1, <1>2, PTL DEF Spec

(* Nothing but the newest token of a grant is ever on its way to the       *)
(* database: not with any number of processes, crashes and late writes.    *)
THEOREM NewestCorrect == Spec => []OnlyNewestIsStored
<1>1. CarryInv => OnlyNewestIsStored
  BY DEF CarryInv, Carriers, LateStores, OnlyNewestIsStored
<1> QED BY <1>1, CarryCorrect, PTL

----------------------------------------------------------------------------
(* With one process and nothing unanswered, what is stored is what the     *)
(* bank honours, except while a sync is about to replace it.               *)
StoredIsHonoured ==
  \A c \in Conns : \/ token[c] \in {0, newest[c]}
                  \/ \E r \in Reqs : req[r].at = "store" /\ req[r].conn = c
ReadIsHonoured == \A r \in Readers : req[r].tok = newest[req[r].conn]
DropIsDeserved ==
  \A r \in Reqs : req[r].at = "drop" /\ HoldsLock(r)
                  => ~live[req[r].conn] /\ newest[req[r].conn] # 0
HonourInv == StoredIsHonoured /\ ReadIsHonoured /\ DropIsDeserved
CalmInv == faults = 0 => late = {} /\ (OneProcess => HonourInv)

LEMMA CalmInit == Init => CalmInv
BY DEF Init, CalmInv, HonourInv, StoredIsHonoured, ReadIsHonoured, DropIsDeserved,
       Readers, IdleReq

(* A step that leaves the fault count at 0 is not one in which something   *)
(* goes wrong.                                                             *)
LEMMA CalmNext ==
  ASSUME TypeOK, [Next]_vars, faults' = 0
  PROVE  /\ faults = 0
         /\ \A r \in Reqs : ~GoWrong(r)
         /\ \A p \in Procs : ~Crash(p)
<1>1. faults \in Nat BY DEF TypeOK
<1>2. ASSUME NEW k, Fault(k) PROVE FALSE BY <1>1, <1>2 DEF Fault
<1>3. \A r \in Reqs : ~GoWrong(r)
  BY <1>2 DEF GoWrong, CallbackInsertUnanswered, SyncRefreshUnanswered, WriteUnanswered
<1>4. \A p \in Procs : ~Crash(p) BY <1>2 DEF Crash
<1>5. ASSUME NEW r \in Reqs, Step(r) PROVE faults' = faults
  BY <1>5 DEF Step, CallbackInsert, CallbackRefused, CallbackSeed, SyncReadConsent,
     SyncLookup, SyncLock, SyncReadToken, SyncRefresh, SyncRefused, SyncFails,
     SyncStore, SyncPull, DropToken, CloseConnection
<1>6. ASSUME NEW r \in Reqs, Arrive(r) PROVE faults' = faults
  BY <1>6 DEF Arrive, CallbackExchange, SyncBegin, RevokeBegin
<1>7. ASSUME NEW w \in late, LateWrite(w) PROVE faults' = faults
  BY <1>7 DEF LateWrite
<1>8. faults' = faults
  BY <1>3, <1>4, <1>5, <1>6, <1>7 DEF Next, vars, GrantEnds, AcceptConsent, WithdrawConsent
<1> QED BY <1>3, <1>4, <1>8

(* The steps that leave honour as it is: they hand out no token and let go *)
(* of none that is about to be stored.                                     *)
Quiet ==
  /\ newest' = newest
  /\ \A c \in Conns : token'[c] \in {token[c], 0} /\ (live'[c] => live[c])
  /\ \A q \in Reqs : req'[q].at = "refresh" =>
       req[q].at = "refresh" /\ req'[q].conn = req[q].conn /\ req'[q].tok = req[q].tok
  /\ \A q \in Reqs : req[q].at = "store" =>
       req'[q].at = "store" /\ req'[q].conn = req[q].conn
  /\ \A q \in Reqs : req'[q].at = "drop" /\ HoldsLock(q)' =>
       req[q].at = "drop" /\ HoldsLock(q) /\ req'[q].conn = req[q].conn

LEMMA QuietHonour ==
  ASSUME Addressed, HonourInv, Quiet
  PROVE  HonourInv'
<1>1. StoredIsHonoured' BY DEF Quiet, HonourInv, StoredIsHonoured
<1>2. ReadIsHonoured' BY DEF Quiet, HonourInv, ReadIsHonoured, Readers
<1>3. DropIsDeserved'
  <2> SUFFICES ASSUME NEW q \in Reqs, (req[q].at = "drop" /\ HoldsLock(q))'
               PROVE  (~live[req[q].conn] /\ newest[req[q].conn] # 0)'
    BY DEF DropIsDeserved
  <2>1. req[q].at = "drop" /\ HoldsLock(q) /\ req'[q].conn = req[q].conn
    BY DEF Quiet
  <2>2. req[q].conn \in Conns BY <2>1 DEF Addressed
  <2> QED BY <2>1, <2>2 DEF Quiet, HonourInv, DropIsDeserved
<1> QED BY <1>1, <1>2, <1>3 DEF HonourInv

LEMMA AnswerQuiet ==
  ASSUME NEW r \in Reqs, TypeOK, Answer(r), newest' = newest, live' = live,
         \A c \in Conns : token'[c] \in {token[c], 0}, req[r].at # "store"
  PROVE  Quiet
<1>1. /\ \A q \in Reqs : q # r => req'[q] = req[q]
      /\ req'[r].at = "idle"
  BY DEF Answer, IdleReq, TypeOK
<1>2. \A q \in Reqs : HoldsLock(q)' => HoldsLock(q)
  <2>1. None \notin Reqs BY ConstantsAssumption
  <2> QED BY <2>1 DEF HoldsLock, Answer, ReleasedBy
<1> QED BY <1>1, <1>2 DEF Quiet

LEMMA GotoQuiet ==
  ASSUME NEW r \in Reqs, NEW step, TypeOK, Goto(r, step), newest' = newest, live' = live,
         \A c \in Conns : token'[c] \in {token[c], 0},
         \A q \in Reqs : q # r /\ HoldsLock(q)' => HoldsLock(q),
         req[r].at # "store", step \notin {"refresh", "drop"}
  PROVE  Quiet
<1>1. /\ \A q \in Reqs : q # r => req'[q] = req[q]
      /\ req'[r].at = step
  BY DEF Goto, TypeOK, Requests
<1> QED BY <1>1 DEF Quiet

LEMMA IdleHoldsNoLock ==
  ASSUME LockInv, NEW r \in Reqs, req[r].at \notin Critical \cup {"drop", "close"}
  PROVE  ~HoldsLock(r)
BY DEF LockInv, HoldsLock

LEMMA StepHonour ==
  ASSUME NEW r \in Reqs, TypeOK, Control, CarryInv, HonourInv, OneProcess, Step(r)
  PROVE  HonourInv'
<1> USE DEF db, bank
<1>1. CASE CallbackInsert(r)
  <2>1. Quiet BY <1>1, GotoQuiet DEF CallbackInsert, HoldsLock
  <2> QED BY <2>1, QuietHonour DEF Control
<1>2. CASE CallbackRefused(r)
  <2>1. Quiet BY <1>2, AnswerQuiet DEF CallbackRefused
  <2> QED BY <2>1, QuietHonour DEF Control
<1>3. CASE CallbackSeed(r)
  <2> DEFINE d == req[r].conn
  <2>1. req[r].tok = newest[d] /\ d \in Conns
    BY <1>3 DEF CallbackSeed, CarryInv, Carriers, Control, Addressed
  <2>2. /\ \A q \in Reqs : q # r => req'[q] = req[q]
        /\ req'[r].at = "idle" /\ req[r].at = "seed" /\ newest' = newest /\ live' = live
        /\ token' = [token EXCEPT ![d] = newest[d]]
    BY <1>3, <2>1 DEF CallbackSeed, Answer, IdleReq, TypeOK
  <2>3. \A q \in Reqs : HoldsLock(q)' => HoldsLock(q)
    BY <1>3, ConstantsAssumption DEF CallbackSeed, HoldsLock, Answer, ReleasedBy
  <2>4. StoredIsHonoured' BY <2>1, <2>2 DEF HonourInv, StoredIsHonoured, TypeOK
  <2>5. ReadIsHonoured' BY <2>2 DEF HonourInv, ReadIsHonoured, Readers
  <2>6. DropIsDeserved' BY <2>2, <2>3 DEF HonourInv, DropIsDeserved
  <2> QED BY <2>4, <2>5, <2>6 DEF HonourInv
<1>4. CASE SyncReadConsent(r)
  <2>1. CASE Answer(r)
    <3>1. Quiet BY <1>4, <2>1, AnswerQuiet DEF SyncReadConsent
    <3> QED BY <3>1, QuietHonour DEF Control
  <2>2. CASE Goto(r, "lookup") /\ UNCHANGED lock
    <3>1. Quiet BY <1>4, <2>2, GotoQuiet DEF SyncReadConsent, HoldsLock
    <3> QED BY <3>1, QuietHonour DEF Control
  <2> QED BY <1>4, <2>1, <2>2 DEF SyncReadConsent
<1>5. CASE SyncLookup(r)
  <2>1. CASE Answer(r)
    <3>1. Quiet BY <1>5, <2>1, AnswerQuiet DEF SyncLookup
    <3> QED BY <3>1, QuietHonour DEF Control
  <2>2. CASE /\ req' = [req EXCEPT ![r].at = "lock", ![r].seen = status[req[r].conn]]
             /\ UNCHANGED lock
    <3>1. /\ \A q \in Reqs : q # r => req'[q] = req[q]
          /\ req'[r].at = "lock"
      BY <2>2 DEF TypeOK, Requests
    <3>2. Quiet BY <1>5, <2>2, <3>1 DEF SyncLookup, Quiet, HoldsLock
    <3> QED BY <3>2, QuietHonour DEF Control
  <2> QED BY <1>5, <2>1, <2>2 DEF SyncLookup
<1>6. CASE SyncLock(r)
  <2>1. \A q \in Reqs : q # r /\ HoldsLock(q)' => HoldsLock(q)
    BY <1>6 DEF SyncLock, HoldsLock, TypeOK
  <2>2. Quiet BY <1>6, <2>1, GotoQuiet DEF SyncLock
  <2> QED BY <2>2, QuietHonour DEF Control
<1>7. CASE SyncReadToken(r)
  <2> DEFINE d == req[r].conn
  <2>1. CASE Answer(r)
    <3>1. Quiet BY <1>7, <2>1, AnswerQuiet DEF SyncReadToken
    <3> QED BY <3>1, QuietHonour DEF Control
  <2>2. CASE /\ req' = [req EXCEPT ![r].at = "refresh", ![r].tok = token[d]]
             /\ UNCHANGED lock /\ token[d] # 0
    <3>1. /\ \A q \in Reqs : q # r => req'[q] = req[q]
          /\ req'[r].at = "refresh" /\ req'[r].conn = d /\ req'[r].tok = token[d]
          /\ newest' = newest /\ live' = live /\ token' = token /\ lock' = lock
      BY <1>7, <2>2 DEF SyncReadToken, TypeOK, Requests
    <3>2. req[r].at = "read" /\ d \in Conns /\ req[r].proc \in Procs
      BY <1>7 DEF SyncReadToken, Control, Addressed
    <3>3. ~ \E q \in Reqs : req[q].at = "store" /\ req[q].conn = d
      <4> SUFFICES ASSUME NEW q \in Reqs, req[q].at = "store", req[q].conn = d PROVE FALSE
        OBVIOUS
      <4>1. req[q].proc = req[r].proc BY <3>2 DEF OneProcess, Control, Addressed
      <4>2. lock[<<req[r].proc, d>>] = r /\ lock[<<req[q].proc, d>>] = q
        BY <3>2 DEF Control, LockInv, Critical
      <4> QED BY <3>2, <4>1, <4>2
    <3>4. token[d] = newest[d] BY <2>2, <3>2, <3>3 DEF HonourInv, StoredIsHonoured
    <3>5. StoredIsHonoured' BY <3>1, <3>2 DEF HonourInv, StoredIsHonoured
    <3>6. ReadIsHonoured' BY <3>1, <3>4 DEF HonourInv, ReadIsHonoured, Readers
    <3>7. DropIsDeserved' BY <3>1 DEF HonourInv, DropIsDeserved, HoldsLock
    <3> QED BY <3>5, <3>6, <3>7 DEF HonourInv
  <2> QED BY <1>7, <2>1, <2>2 DEF SyncReadToken
<1>8. CASE SyncRefresh(r)
  <2> DEFINE d == req[r].conn
             n == newest[d] + 1
  <2>1. /\ \A q \in Reqs : q # r => req'[q] = req[q]
        /\ req'[r].at = "store" /\ req'[r].conn = d
        /\ newest' = [newest EXCEPT ![d] = n]
        /\ live' = live /\ token' = token /\ lock' = lock
    BY <1>8 DEF SyncRefresh, TypeOK, Requests
  <2>2. req[r].at = "refresh" /\ d \in Conns /\ req[r].proc \in Procs
    BY <1>8 DEF SyncRefresh, Control, Addressed
  <2>3. ASSUME NEW q \in Reqs, q # r, req[q].at \in Critical PROVE req[q].conn # d
    <3>1. req[q].proc = req[r].proc BY <2>2, <2>3 DEF OneProcess, Control, Addressed, Critical
    <3>2. /\ lock[<<req[r].proc, d>>] = r
          /\ lock[<<req[q].proc, req[q].conn>>] = q
      BY <2>2, <2>3 DEF Control, LockInv, Critical
    <3> QED BY <2>3, <3>1, <3>2
  <2>4. StoredIsHonoured'
    <3> SUFFICES ASSUME NEW c \in Conns
                 PROVE  \/ token'[c] \in {0, newest'[c]}
                        \/ \E q \in Reqs : req'[q].at = "store" /\ req'[q].conn = c
      BY DEF StoredIsHonoured
    <3>1. CASE c = d BY <2>1, <3>1
    <3>2. CASE c # d BY <2>1, <2>2, <3>2 DEF HonourInv, StoredIsHonoured, TypeOK
    <3> QED BY <3>1, <3>2
  <2>5. ReadIsHonoured'
    <3> SUFFICES ASSUME NEW q \in Reqs, req'[q].at = "refresh"
                 PROVE  req'[q].tok = newest'[req'[q].conn]
      BY DEF ReadIsHonoured, Readers
    <3>1. q # r /\ req'[q] = req[q] BY <2>1
    <3>2. req[q].conn # d /\ req[q].conn \in Conns
      BY <2>3, <3>1 DEF Critical, Control, Addressed
    <3> QED BY <2>1, <3>1, <3>2 DEF HonourInv, ReadIsHonoured, Readers, TypeOK
  <2>6. DropIsDeserved'
    <3> SUFFICES ASSUME NEW q \in Reqs, (req[q].at = "drop" /\ HoldsLock(q))'
                 PROVE  (~live[req[q].conn] /\ newest[req[q].conn] # 0)'
      BY DEF DropIsDeserved
    <3>1. req'[q] = req[q] /\ req[q].at = "drop" /\ HoldsLock(q) BY <2>1 DEF HoldsLock
    <3>2. ~live[req[q].conn] /\ newest[req[q].conn] # 0 /\ req[q].conn \in Conns
      BY <3>1 DEF HonourInv, DropIsDeserved, Control, Addressed
    <3>3. req[q].conn # d BY <1>8, <3>2 DEF SyncRefresh, Honoured
    <3> QED BY <2>1, <3>1, <3>2, <3>3 DEF TypeOK
  <2> QED BY <2>4, <2>5, <2>6 DEF HonourInv
<1>9. CASE SyncRefused(r)
  <2> DEFINE d == req[r].conn
  <2>1. /\ \A q \in Reqs : q # r => req'[q] = req[q]
        /\ req'[r].at = "drop" /\ req'[r].conn = d /\ req[r].at = "refresh"
        /\ newest' = newest /\ live' = live /\ token' = token /\ lock' = lock
    BY <1>9 DEF SyncRefused, Goto, TypeOK, Requests
  <2>2. d \in Conns /\ newest[d] \in Nat
    BY <2>1, ZeroAndOne DEF Control, Addressed, TypeOK
  <2>3. req[r].tok = newest[d] /\ req[r].tok \in 1..newest[d]
    BY <2>1 DEF HonourInv, ReadIsHonoured, CarryInv, Readers
  <2>4. ~live[d] BY <1>9, <2>3 DEF SyncRefused, Honoured
  <2>5. newest[d] # 0 BY <2>2, <2>3
  <2>6. StoredIsHonoured' BY <2>1 DEF HonourInv, StoredIsHonoured
  <2>7. ReadIsHonoured' BY <2>1 DEF HonourInv, ReadIsHonoured, Readers
  <2>8. DropIsDeserved' BY <2>1, <2>4, <2>5 DEF HonourInv, DropIsDeserved, HoldsLock
  <2> QED BY <2>6, <2>7, <2>8 DEF HonourInv
<1>10. CASE SyncFails(r)
  <2>1. Quiet BY <1>10, AnswerQuiet DEF SyncFails
  <2> QED BY <2>1, QuietHonour DEF Control
<1>11. CASE SyncStore(r)
  <2> DEFINE d == req[r].conn
  <2>1. req[r].tok = newest[d] /\ d \in Conns
    BY <1>11 DEF SyncStore, CarryInv, Carriers, Control, Addressed
  <2>2. /\ \A q \in Reqs : q # r => req'[q] = req[q]
        /\ req'[r].at = "pull" /\ newest' = newest /\ live' = live
        /\ token' = [token EXCEPT ![d] = newest[d]]
    BY <1>11, <2>1 DEF SyncStore, Goto, TypeOK, Requests
  <2>3. \A q \in Reqs : HoldsLock(q)' => HoldsLock(q)
    BY <1>11, ConstantsAssumption DEF SyncStore, HoldsLock, ReleasedBy
  <2>4. StoredIsHonoured'
    <3> SUFFICES ASSUME NEW c \in Conns
                 PROVE  \/ token'[c] \in {0, newest'[c]}
                        \/ \E q \in Reqs : req'[q].at = "store" /\ req'[q].conn = c
      BY DEF StoredIsHonoured
    <3>1. CASE c = d BY <2>1, <2>2, <3>1 DEF TypeOK
    <3>2. CASE c # d
      <4>1. token'[c] = token[c] /\ newest'[c] = newest[c] BY <2>2, <3>2 DEF TypeOK
      <4>2. \A q \in Reqs : req[q].conn = c => req'[q] = req[q] BY <2>2, <3>2
      <4> QED BY <4>1, <4>2 DEF HonourInv, StoredIsHonoured
    <3> QED BY <3>1, <3>2
  <2>5. ReadIsHonoured' BY <2>2 DEF HonourInv, ReadIsHonoured, Readers
  <2>6. DropIsDeserved' BY <2>2, <2>3 DEF HonourInv, DropIsDeserved
  <2> QED BY <2>4, <2>5, <2>6 DEF HonourInv
<1>12. CASE SyncPull(r)
  <2>1. Quiet BY <1>12, AnswerQuiet DEF SyncPull
  <2> QED BY <2>1, QuietHonour DEF Control
<1>13. CASE DropToken(r)
  <2>1. \A c \in Conns : token'[c] \in {token[c], 0} BY <1>13 DEF DropToken, TypeOK
  <2>2. Quiet BY <1>13, <2>1, GotoQuiet DEF DropToken, HoldsLock
  <2> QED BY <2>2, QuietHonour DEF Control
<1>14. CASE CloseConnection(r)
  <2>1. Quiet BY <1>14, AnswerQuiet DEF CloseConnection
  <2> QED BY <2>1, QuietHonour DEF Control
<1> QED BY <1>1, <1>2, <1>3, <1>4, <1>5, <1>6, <1>7, <1>8, <1>9, <1>10, <1>11,
           <1>12, <1>13, <1>14 DEF Step

LEMMA ArriveHonour ==
  ASSUME NEW r \in Reqs, TypeOK, Control, CarryInv, HonourInv, Arrive(r)
  PROVE  HonourInv'
<1> USE DEF db, bank
<1>1. PICK p \in Procs, d \in Conns :
        CallbackExchange(r, p, d) \/ SyncBegin(r, p, d) \/ RevokeBegin(r, p, d)
  BY DEF Arrive
<1>2. req[r].at = "idle"
  BY <1>1 DEF CallbackExchange, SyncBegin, RevokeBegin, Begin
<1>3. ~HoldsLock(r) BY <1>2, IdleHoldsNoLock DEF Control, Critical
<1>4. CASE SyncBegin(r, p, d)
  <2>1. Quiet BY <1>4, <1>2 DEF SyncBegin, Begin, Quiet, HoldsLock, IdleReq, TypeOK
  <2> QED BY <2>1, QuietHonour DEF Control
<1>5. CASE RevokeBegin(r, p, d)
  <2>1. /\ \A q \in Reqs : q # r => req'[q] = req[q]
        /\ req'[r].at = "drop"
    BY <1>5 DEF RevokeBegin, Begin, IdleReq, TypeOK
  <2>2. Quiet BY <1>2, <1>3, <1>5, <2>1 DEF RevokeBegin, Quiet, HoldsLock
  <2> QED BY <2>2, QuietHonour DEF Control
<1>6. CASE CallbackExchange(r, p, d)
  <2>1. /\ \A q \in Reqs : q # r => req'[q] = req[q]
        /\ req'[r].at = "insert" /\ newest[d] = 0
        /\ newest' = [newest EXCEPT ![d] = 1] /\ live' = [live EXCEPT ![d] = TRUE]
        /\ token' = token /\ lock' = lock
    BY <1>6 DEF CallbackExchange, IdleReq, TypeOK
  <2>2. token[d] = 0
    <3>1. token[d] \in 0..newest[d] BY DEF CarryInv
    <3> QED BY <2>1, <3>1
  <2>3. StoredIsHonoured'
    <3> SUFFICES ASSUME NEW c \in Conns
                 PROVE  \/ token'[c] \in {0, newest'[c]}
                        \/ \E q \in Reqs : req'[q].at = "store" /\ req'[q].conn = c
      BY DEF StoredIsHonoured
    <3>1. CASE c = d BY <2>1, <2>2, <3>1
    <3>2. CASE c # d
      <4>1. token'[c] = token[c] /\ newest'[c] = newest[c] BY <2>1, <3>2 DEF TypeOK
      <4>2. \A q \in Reqs : req[q].at = "store" => req'[q] = req[q] BY <1>2, <2>1
      <4> QED BY <4>1, <4>2 DEF HonourInv, StoredIsHonoured
    <3> QED BY <3>1, <3>2
  <2>4. ReadIsHonoured'
    <3> SUFFICES ASSUME NEW q \in Reqs, req'[q].at = "refresh"
                 PROVE  req'[q].tok = newest'[req'[q].conn]
      BY DEF ReadIsHonoured, Readers
    <3>1. q \in Readers /\ req'[q] = req[q] BY <2>1 DEF Readers
    <3>2. req[q].tok \in 1..newest[req[q].conn] /\ req[q].tok = newest[req[q].conn]
      BY <3>1 DEF CarryInv, HonourInv, ReadIsHonoured
    <3>3. req[q].conn # d BY <2>1, <3>2
    <3>4. req[q].conn \in Conns BY <3>1 DEF Readers, Control, Addressed
    <3> QED BY <2>1, <3>1, <3>2, <3>3, <3>4 DEF TypeOK
  <2>5. DropIsDeserved'
    <3> SUFFICES ASSUME NEW q \in Reqs, (req[q].at = "drop" /\ HoldsLock(q))'
                 PROVE  (~live[req[q].conn] /\ newest[req[q].conn] # 0)'
      BY DEF DropIsDeserved
    <3>1. req'[q] = req[q] /\ req[q].at = "drop" /\ HoldsLock(q) BY <2>1 DEF HoldsLock
    <3>2. ~live[req[q].conn] /\ newest[req[q].conn] # 0 /\ req[q].conn \in Conns
      BY <3>1 DEF HonourInv, DropIsDeserved, Control, Addressed
    <3>3. req[q].conn # d BY <2>1, <3>2
    <3> QED BY <2>1, <3>1, <3>2, <3>3 DEF TypeOK
  <2> QED BY <2>3, <2>4, <2>5 DEF HonourInv
<1> QED BY <1>1, <1>4, <1>5, <1>6

LEMMA CalmStep == TypeOK /\ Control /\ CarryInv /\ CalmInv /\ [Next]_vars => CalmInv'
<1> SUFFICES ASSUME TypeOK, Control, CarryInv, CalmInv, [Next]_vars, faults' = 0
             PROVE  late' = {} /\ (OneProcess => HonourInv')
  BY DEF CalmInv, OneProcess
<1> USE DEF db, bank
<1>1. /\ faults = 0
      /\ \A r \in Reqs : ~GoWrong(r)
      /\ \A p \in Procs : ~Crash(p)
  BY CalmNext
<1>2. late = {} /\ (OneProcess => HonourInv) BY <1>1 DEF CalmInv
<1>3. ASSUME NEW r \in Reqs, Step(r) PROVE late' = {} /\ (OneProcess => HonourInv')
  <2>1. late' = late
    BY <1>3 DEF Step, CallbackInsert, CallbackRefused, CallbackSeed, SyncReadConsent,
       SyncLookup, SyncLock, SyncReadToken, SyncRefresh, SyncRefused, SyncFails,
       SyncStore, SyncPull, DropToken, CloseConnection
  <2> QED BY <1>2, <1>3, <2>1, StepHonour
<1>4. ASSUME NEW r \in Reqs, Arrive(r) PROVE late' = {} /\ (OneProcess => HonourInv')
  <2>1. late' = late
    BY <1>4 DEF Arrive, CallbackExchange, SyncBegin, RevokeBegin
  <2> QED BY <1>2, <1>4, <2>1, ArriveHonour
<1>5. ASSUME NEW c \in Conns, GrantEnds(c) PROVE late' = {} /\ (OneProcess => HonourInv')
  <2>1. Quiet BY <1>5 DEF GrantEnds, Quiet, HoldsLock, TypeOK
  <2> QED BY <1>2, <1>5, <2>1, QuietHonour DEF GrantEnds, Control
<1>6. CASE AcceptConsent
  <2>1. \A q \in Reqs : /\ req'[q].at = req[q].at
                        /\ req'[q].conn = req[q].conn
                        /\ req'[q].tok = req[q].tok
    BY <1>6 DEF AcceptConsent, TypeOK, Requests
  <2>2. Quiet BY <1>6, <2>1 DEF AcceptConsent, Quiet, HoldsLock
  <2> QED BY <1>2, <1>6, <2>2, QuietHonour DEF AcceptConsent, Control
<1>7. CASE WithdrawConsent
  <2>1. Quiet BY <1>7 DEF WithdrawConsent, Quiet, HoldsLock
  <2> QED BY <1>2, <1>7, <2>1, QuietHonour DEF WithdrawConsent, Control
<1>8. CASE UNCHANGED vars
  <2>1. Quiet BY <1>8 DEF vars, Quiet, HoldsLock
  <2> QED BY <1>2, <1>8, <2>1, QuietHonour DEF vars, Control
<1> QED BY <1>1, <1>2, <1>3, <1>4, <1>5, <1>6, <1>7, <1>8 DEF Next

LEMMA CalmCorrect == Spec => [](TypeOK /\ Control /\ CarryInv /\ CalmInv)
<1>1. Init => TypeOK /\ Control /\ CarryInv /\ CalmInv
  BY TypeInit, ControlInit, CarryInit, CalmInit
<1>2. TypeOK /\ Control /\ CarryInv /\ CalmInv /\ [Next]_vars
        => (TypeOK /\ Control /\ CarryInv /\ CalmInv)'
  BY TypeStep, ControlStep, CarryStep, CalmStep DEF Control
<1> QED BY <1>1, <1>2, PTL DEF Spec

(* One process that gets an answer to every call revokes a connection on   *)
(* its own account only when the household's grant has ended at the bank:  *)
(* the lock really keeps overlapping syncs from spending a token twice.    *)
THEOREM RefusalCorrect == Spec => []RefusedOnlyWhenGrantEnded
<1>1. CalmInv => RefusedOnlyWhenGrantEnded
  BY DEF CalmInv, HonourInv, DropIsDeserved, RefusedOnlyWhenGrantEnded
<1> QED BY <1>1, CalmCorrect, PTL

----------------------------------------------------------------------------
(* The steps that neither open a connection nor take its token away, and   *)
(* let no request out of create_connection or revoke.                      *)
Steady ==
  /\ \A c \in Conns : status'[c] = "active" /\ token'[c] = 0
                       => status[c] = "active" /\ token[c] = 0
  /\ \A q \in Reqs : req[q].at \in {"seed", "close"} =>
       req'[q].at = req[q].at /\ req'[q].conn = req[q].conn

LEMMA SteadyToken ==
  ASSUME ActiveHasToken, Steady, faults = 0
  PROVE  ActiveHasToken'
BY DEF ActiveHasToken, Steady, Busy

(* Requests other than r stay where they are, and r was not in one of the  *)
(* two steps an active connection without a token waits for.               *)
LEMMA OneMovesSteady ==
  ASSUME NEW r \in Reqs, TypeOK, status' = status, token' = token,
         \A q \in Reqs : q # r => req'[q] = req[q],
         req[r].at \notin {"seed", "close"}
  PROVE  Steady
BY DEF Steady

LEMMA OthersStay ==
  ASSUME NEW r \in Reqs, TypeOK, Answer(r) \/ \E s \in Steps : Goto(r, s)
  PROVE  \A q \in Reqs : q # r => req'[q] = req[q]
BY DEF Answer, Goto, TypeOK

LEMMA StepToken ==
  ASSUME NEW r \in Reqs, TypeOK, Control, CarryInv, ActiveHasToken, faults = 0, Step(r)
  PROVE  ActiveHasToken'
<1> USE DEF db, bank
<1>1. \A q \in Reqs : q # r => req'[q] = req[q]
  BY DEF Step, CallbackInsert, CallbackRefused, CallbackSeed, SyncReadConsent,
     SyncLookup, SyncLock, SyncReadToken, SyncRefresh, SyncRefused, SyncFails,
     SyncStore, SyncPull, DropToken, CloseConnection, Answer, Goto, TypeOK
<1>2. CASE CallbackInsert(r)
  <2>1. /\ req[r].at = "insert" /\ req'[r].at = "seed" /\ req'[r].conn = req[r].conn
        /\ status' = [status EXCEPT ![req[r].conn] = "active"] /\ token' = token
    BY <1>2 DEF CallbackInsert, Goto, TypeOK, Requests
  <2> QED BY <1>1, <2>1 DEF ActiveHasToken, Busy, TypeOK
<1>3. CASE CallbackSeed(r) \/ SyncStore(r)
  <2>1. /\ req[r].tok # 0 /\ status' = status
        /\ token' = [token EXCEPT ![req[r].conn] = req[r].tok]
        /\ req[r].at \in {"seed", "store"}
    BY <1>3 DEF CallbackSeed, SyncStore, CarryInv, Carriers, Untouched
  <2>2. ASSUME NEW c \in Conns, status'[c] = "active", token'[c] = 0
        PROVE  \E q \in Reqs : req'[q].conn = c /\ req'[q].at \in {"seed", "close"}
    <3>1. c # req[r].conn /\ token[c] = 0 /\ status[c] = "active"
      BY <2>1, <2>2 DEF TypeOK
    <3>2. PICK q \in Reqs : req[q].conn = c /\ req[q].at \in {"seed", "close"}
      BY <3>1 DEF ActiveHasToken, Busy
    <3> QED BY <1>1, <3>1, <3>2
  <2> QED BY <2>2 DEF ActiveHasToken, Busy
<1>4. CASE DropToken(r)
  <2>1. /\ req[r].at = "drop" /\ req'[r].at = "close" /\ req'[r].conn = req[r].conn
        /\ token' = [token EXCEPT ![req[r].conn] = 0] /\ status' = status
    BY <1>4 DEF DropToken, Goto, TypeOK, Requests
  <2> QED BY <1>1, <2>1 DEF ActiveHasToken, Busy, TypeOK
<1>5. CASE CloseConnection(r)
  <2>1. /\ status' = [status EXCEPT ![req[r].conn] = Closed(@)] /\ token' = token
        /\ req[r].conn \in Conns
    BY <1>5 DEF CloseConnection, Control, Addressed
  <2>2. status'[req[r].conn] # "active" BY <2>1 DEF Closed, TypeOK
  <2>3. ASSUME NEW c \in Conns, status'[c] = "active", token'[c] = 0
        PROVE  \E q \in Reqs : req'[q].conn = c /\ req'[q].at \in {"seed", "close"}
    <3>1. c # req[r].conn /\ token[c] = 0 /\ status[c] = "active"
      BY <2>1, <2>2, <2>3 DEF TypeOK
    <3>2. PICK q \in Reqs : req[q].conn = c /\ req[q].at \in {"seed", "close"}
      BY <3>1 DEF ActiveHasToken, Busy
    <3> QED BY <1>1, <3>1, <3>2
  <2> QED BY <2>3 DEF ActiveHasToken, Busy
<1>6. CASE \/ CallbackRefused(r) \/ SyncReadConsent(r) \/ SyncLookup(r) \/ SyncLock(r)
           \/ SyncReadToken(r) \/ SyncRefresh(r) \/ SyncRefused(r) \/ SyncFails(r)
           \/ SyncPull(r)
  <2>1. status' = status /\ token' = token /\ req[r].at \notin {"seed", "close"}
    BY <1>6 DEF CallbackRefused, SyncReadConsent, SyncLookup, SyncLock, SyncReadToken,
       SyncRefresh, SyncRefused, SyncFails, SyncPull
  <2>2. Steady BY <1>1, <2>1, OneMovesSteady
  <2> QED BY <2>2, SteadyToken
<1> QED BY <1>2, <1>3, <1>4, <1>5, <1>6 DEF Step

LEMMA TokenStep ==
  TypeOK /\ Control /\ CarryInv /\ CalmInv /\ ActiveHasToken /\ [Next]_vars
    => ActiveHasToken'
<1> SUFFICES ASSUME TypeOK, Control, CarryInv, CalmInv, ActiveHasToken, [Next]_vars,
                    faults' = 0
             PROVE  ActiveHasToken'
  BY DEF ActiveHasToken
<1> USE DEF db, bank
<1>1. /\ faults = 0
      /\ \A r \in Reqs : ~GoWrong(r)
      /\ \A p \in Procs : ~Crash(p)
  BY CalmNext
<1>2. late = {} BY <1>1 DEF CalmInv
<1>3. ASSUME NEW r \in Reqs, Step(r) PROVE ActiveHasToken'
  BY <1>1, <1>3, StepToken
<1>4. ASSUME NEW r \in Reqs, Arrive(r) PROVE ActiveHasToken'
  <2>1. /\ status' = status /\ token' = token /\ req[r].at = "idle"
        /\ \A q \in Reqs : q # r => req'[q] = req[q]
    BY <1>4 DEF Arrive, CallbackExchange, SyncBegin, RevokeBegin, Begin, TypeOK
  <2>2. Steady BY <2>1, OneMovesSteady
  <2> QED BY <1>1, <2>2, SteadyToken
<1>5. ASSUME NEW c \in Conns, GrantEnds(c) PROVE ActiveHasToken'
  BY <1>1, <1>5, SteadyToken DEF GrantEnds, Steady
<1>6. CASE AcceptConsent
  <2>1. \A q \in Reqs : req'[q].at = req[q].at /\ req'[q].conn = req[q].conn
    BY <1>6 DEF AcceptConsent, TypeOK, Requests
  <2> QED BY <1>1, <1>6, <2>1, SteadyToken DEF AcceptConsent, Steady
<1>7. CASE WithdrawConsent
  BY <1>1, <1>7, SteadyToken DEF WithdrawConsent, Steady
<1>8. CASE UNCHANGED vars
  BY <1>1, <1>8, SteadyToken DEF vars, Steady
<1> QED BY <1>1, <1>2, <1>3, <1>4, <1>5, <1>6, <1>7, <1>8 DEF Next

(* Overlapping requests alone never strand a connection: an active one has *)
(* its token whenever no request is about to give it one or to close it.   *)
THEOREM TokenCorrect == Spec => []ActiveHasToken
<1>1. Init => TypeOK /\ Control /\ CarryInv /\ CalmInv /\ ActiveHasToken
  <2>1. Init => ActiveHasToken BY DEF Init, ActiveHasToken
  <2> QED BY <2>1, TypeInit, ControlInit, CarryInit, CalmInit
<1>2. TypeOK /\ Control /\ CarryInv /\ CalmInv /\ ActiveHasToken /\ [Next]_vars
        => (TypeOK /\ Control /\ CarryInv /\ CalmInv /\ ActiveHasToken)'
  BY TypeStep, ControlStep, CarryStep, CalmStep, TokenStep DEF Control
<1> QED BY <1>1, <1>2, PTL DEF Spec

----------------------------------------------------------------------------
(* Consent. A request that has yet to read it reads what the row says, and *)
(* the row says "active" only if consent was in force since it began; past *)
(* the gate the request keeps what it saw.                                 *)
PastGate == {"lookup", "lock", "read", "refresh", "store", "pull"}
ConsentInv ==
  \A r \in Reqs :
    \/ req[r].at = "consent" /\ consent = "active"
    \/ req[r].at \in PastGate
    => req[r].agreed

(* What a step without consent's two routes does: a request stays in the   *)
(* part of its sync it was in, or ends, or is in no sync.                  *)
GateKept ==
  /\ consent' = consent
  /\ \A r \in Reqs : req'[r].at \in PastGate =>
       req[r].at \in PastGate /\ req'[r].agreed = req[r].agreed
  /\ \A r \in Reqs : req'[r].at = "consent" =>
       \/ req[r].at = "consent" /\ req'[r].agreed = req[r].agreed
       \/ req'[r].agreed = (consent = "active")

LEMMA GateKeptConsent ==
  ASSUME ConsentInv, GateKept PROVE ConsentInv'
BY DEF ConsentInv, GateKept

LEMMA AnswerGate ==
  ASSUME NEW r \in Reqs, TypeOK, Answer(r), consent' = consent PROVE GateKept
BY DEF Answer, IdleReq, GateKept, PastGate, TypeOK

LEMMA GotoGate ==
  ASSUME NEW r \in Reqs, NEW step, TypeOK, Goto(r, step), consent' = consent,
         step # "consent", step \in PastGate => req[r].at \in PastGate
  PROVE  GateKept
<1>1. /\ \A q \in Reqs : q # r => req'[q] = req[q]
      /\ req'[r].at = step /\ req'[r].agreed = req[r].agreed
  BY DEF Goto, TypeOK, Requests
<1> QED BY <1>1 DEF GateKept

LEMMA StepConsent ==
  ASSUME NEW r \in Reqs, TypeOK, ConsentInv, Step(r) PROVE ConsentInv'
<1> USE DEF PastGate
<1>1. CASE SyncReadConsent(r)
  <2>1. CASE consent = "active"
    <3>1. /\ \A q \in Reqs : q # r => req'[q] = req[q]
          /\ req'[r].at = "lookup" /\ req'[r].agreed = req[r].agreed
          /\ consent' = consent /\ req[r].at = "consent"
      BY <1>1, <2>1 DEF SyncReadConsent, Goto, TypeOK, Requests
    <3> QED BY <2>1, <3>1 DEF ConsentInv
  <2>2. CASE consent # "active"
    BY <1>1, <2>2, AnswerGate, GateKeptConsent DEF SyncReadConsent
  <2> QED BY <2>1, <2>2
<1>2. CASE SyncLookup(r)
  <2>1. CASE Answer(r) BY <1>2, <2>1, AnswerGate, GateKeptConsent DEF SyncLookup
  <2>2. CASE req' = [req EXCEPT ![r].at = "lock", ![r].seen = status[req[r].conn]]
    <3>1. /\ \A q \in Reqs : q # r => req'[q] = req[q]
          /\ req'[r].at = "lock" /\ req'[r].agreed = req[r].agreed
      BY <2>2 DEF TypeOK, Requests
    <3>2. GateKept BY <1>2, <3>1 DEF SyncLookup, GateKept
    <3> QED BY <3>2, GateKeptConsent
  <2> QED BY <1>2, <2>1, <2>2 DEF SyncLookup
<1>3. CASE SyncReadToken(r)
  <2>1. CASE Answer(r) BY <1>3, <2>1, AnswerGate, GateKeptConsent DEF SyncReadToken
  <2>2. CASE req' = [req EXCEPT ![r].at = "refresh", ![r].tok = token[req[r].conn]]
    <3>1. /\ \A q \in Reqs : q # r => req'[q] = req[q]
          /\ req'[r].at = "refresh" /\ req'[r].agreed = req[r].agreed
      BY <2>2 DEF TypeOK, Requests
    <3>2. GateKept BY <1>3, <3>1 DEF SyncReadToken, GateKept
    <3> QED BY <3>2, GateKeptConsent
  <2> QED BY <1>3, <2>1, <2>2 DEF SyncReadToken
<1>4. CASE SyncRefresh(r)
  <2>1. /\ \A q \in Reqs : q # r => req'[q] = req[q]
        /\ req'[r].at = "store" /\ req'[r].agreed = req[r].agreed
    BY <1>4 DEF SyncRefresh, TypeOK, Requests
  <2>2. GateKept BY <1>4, <2>1 DEF SyncRefresh, GateKept
  <2> QED BY <2>2, GateKeptConsent
<1>5. CASE \/ CallbackRefused(r) \/ CallbackSeed(r) \/ SyncFails(r) \/ SyncPull(r)
           \/ CloseConnection(r)
  BY <1>5, AnswerGate, GateKeptConsent
     DEF CallbackRefused, CallbackSeed, SyncFails, SyncPull, CloseConnection
<1>6. CASE \/ CallbackInsert(r) \/ SyncLock(r) \/ SyncRefused(r) \/ SyncStore(r)
           \/ DropToken(r)
  BY <1>6, GotoGate, GateKeptConsent
     DEF CallbackInsert, SyncLock, SyncRefused, SyncStore, DropToken
<1> QED BY <1>1, <1>2, <1>3, <1>4, <1>5, <1>6 DEF Step

LEMMA ConsentStep == TypeOK /\ ConsentInv /\ [Next]_vars => ConsentInv'
<1> SUFFICES ASSUME TypeOK, ConsentInv, [Next]_vars PROVE ConsentInv'
  OBVIOUS
<1> USE DEF PastGate
<1>1. ASSUME NEW r \in Reqs, Step(r) PROVE ConsentInv' BY <1>1, StepConsent
<1>2. ASSUME NEW r \in Reqs, Arrive(r) PROVE ConsentInv'
  <2>1. PICK p \in Procs, c \in Conns :
          CallbackExchange(r, p, c) \/ SyncBegin(r, p, c) \/ RevokeBegin(r, p, c)
    BY <1>2 DEF Arrive
  <2>2. /\ \A q \in Reqs : q # r => req'[q] = req[q]
        /\ req'[r].at \in {"insert", "consent", "drop"}
        /\ req'[r].agreed = (consent = "active")
    <3>1. CASE CallbackExchange(r, p, c)
      BY <3>1 DEF CallbackExchange, IdleReq, TypeOK
    <3>2. CASE SyncBegin(r, p, c) BY <3>2 DEF SyncBegin, Begin, IdleReq, TypeOK
    <3>3. CASE RevokeBegin(r, p, c) BY <3>3 DEF RevokeBegin, Begin, IdleReq, TypeOK
    <3> QED BY <2>1, <3>1, <3>2, <3>3
  <2>3. consent' = consent BY <2>1 DEF CallbackExchange, SyncBegin, RevokeBegin
  <2>4. GateKept BY <2>2, <2>3 DEF GateKept
  <2> QED BY <2>4, GateKeptConsent
<1>3. ASSUME NEW r \in Reqs, GoWrong(r) PROVE ConsentInv'
  BY <1>3, AnswerGate, GateKeptConsent
     DEF GoWrong, CallbackInsertUnanswered, SyncRefreshUnanswered, WriteUnanswered
<1>4. ASSUME NEW w \in late, LateWrite(w) PROVE ConsentInv'
  BY <1>4, GateKeptConsent DEF LateWrite, GateKept
<1>5. ASSUME NEW p \in Procs, Crash(p) PROVE ConsentInv'
  <2>1. GateKept BY <1>5 DEF Crash, IdleReq, GateKept
  <2> QED BY <2>1, GateKeptConsent
<1>6. ASSUME NEW c \in Conns, GrantEnds(c) PROVE ConsentInv'
  BY <1>6, GateKeptConsent DEF GrantEnds, GateKept
<1>7. CASE AcceptConsent
  <2>1. \A q \in Reqs : /\ req'[q].at = req[q].at
                        /\ req[q].at # "idle" => req'[q].agreed
    BY <1>7 DEF AcceptConsent, TypeOK, Requests
  <2> QED BY <2>1 DEF ConsentInv
<1>8. CASE WithdrawConsent BY <1>8 DEF WithdrawConsent, ConsentInv
<1>9. CASE UNCHANGED vars BY <1>9 DEF vars, ConsentInv
<1> QED BY <1>1, <1>2, <1>3, <1>4, <1>5, <1>6, <1>7, <1>8, <1>9 DEF Next

(* The bank is called for a sync only if consent was in force at some      *)
(* moment of it, whatever is accepted and withdrawn while requests, late   *)
(* writes and crashes interleave.                                          *)
THEOREM ConsentCorrect == Spec => []SyncedUnderConsent
<1>1. Init => ConsentInv BY DEF Init, ConsentInv, PastGate, IdleReq
<1>2. TypeOK /\ ConsentInv /\ [Next]_vars => ConsentInv' BY ConsentStep
<1>3. ConsentInv => SyncedUnderConsent BY DEF ConsentInv, PastGate, SyncedUnderConsent
<1> QED BY <1>1, <1>2, <1>3, TypeCorrect, PTL DEF Spec

----------------------------------------------------------------------------
(* The routes of OpenBanking implement TokenCustody: every step of a       *)
(* route, a fault or the bank is a step of the custody of one connection,  *)
(* or changes no custody at all.                                           *)
(* Where the database is with a connection follows from where its requests *)
(* are: no row before the insert, and a row from then on.                  *)
Found == {"lock", "read", "refresh", "store", "pull", "seed"}
OpenedInv ==
  /\ \A r \in Reqs : req[r].at = "insert" => status[req[r].conn] = "absent"
  /\ \A r \in Reqs : req[r].at \in Found => status[req[r].conn] # "absent"
  /\ \A w \in LateStores : status[w.conn] # "absent"

(* A step after which the same rows are there, and by which no request     *)
(* comes to know of one.                                                   *)
RowsKept ==
  /\ \A c \in Conns : status'[c] = "absent" <=> status[c] = "absent"
  /\ \A q \in Reqs : req'[q].at = "insert" =>
       req[q].at = "insert" /\ req'[q].conn = req[q].conn
  /\ \A q \in Reqs : req'[q].at \in Found =>
       req[q].at \in Found /\ req'[q].conn = req[q].conn
  /\ \A w \in LateStores' : \/ w \in LateStores
                            \/ \E q \in Reqs : /\ req[q].at \in {"seed", "store"}
                                               /\ w.conn = req[q].conn

LEMMA RowsKeptOpened ==
  ASSUME TypeOK, Addressed, OpenedInv, RowsKept PROVE OpenedInv'
<1>1. \A q \in Reqs : req[q].at # "idle" => req[q].conn \in Conns BY DEF Addressed
<1>2. \A w \in LateStores : w.conn \in Conns BY DEF LateStores, TypeOK, Writes
<1>3. \A q \in Reqs : req'[q].at = "insert" => status'[req'[q].conn] = "absent"
  BY <1>1 DEF OpenedInv, RowsKept
<1>4. \A q \in Reqs : req'[q].at \in Found => status'[req'[q].conn] # "absent"
  BY <1>1 DEF OpenedInv, RowsKept, Found
<1>5. \A w \in LateStores' : status'[w.conn] # "absent"
  BY <1>1, <1>2 DEF OpenedInv, RowsKept, Found
<1> QED BY <1>3, <1>4, <1>5 DEF OpenedInv

LEMMA AnswerRows ==
  ASSUME NEW r \in Reqs, TypeOK, Answer(r), late' = late,
         \A c \in Conns : status'[c] = "absent" <=> status[c] = "absent"
  PROVE  RowsKept
BY DEF Answer, IdleReq, RowsKept, LateStores, TypeOK, Found

LEMMA GotoRows ==
  ASSUME NEW r \in Reqs, NEW step, TypeOK, Goto(r, step), late' = late, status' = status,
         step # "insert", step \in Found => req[r].at \in Found
  PROVE  RowsKept
<1>1. /\ \A q \in Reqs : q # r => req'[q] = req[q]
      /\ req'[r].at = step /\ req'[r].conn = req[r].conn
  BY DEF Goto, TypeOK, Requests
<1> QED BY <1>1 DEF RowsKept, LateStores

(* The insert makes a row, and no other request waits to insert it.        *)
LEMMA InsertOpened ==
  ASSUME NEW r \in Reqs, TypeOK, Addressed, CarryInv, OpenedInv,
         CallbackInsert(r) \/ CallbackInsertUnanswered(r)
  PROVE  OpenedInv'
<1> DEFINE d == req[r].conn
<1>1. d \in Conns /\ r \in Carriers /\ req[r].at = "insert"
  BY DEF CallbackInsert, CallbackInsertUnanswered, Addressed, Carriers
<1>2. /\ status' = [status EXCEPT ![d] = "active"] /\ LateStores' = LateStores
      /\ \A q \in Reqs : q # r => req'[q] = req[q]
      /\ \/ req'[r].at = "idle"
         \/ req'[r].at = "seed" /\ req'[r].conn = d
  <2>1. CASE CallbackInsert(r)
    BY <2>1 DEF CallbackInsert, Goto, LateStores, TypeOK, Requests
  <2>2. CASE CallbackInsertUnanswered(r)
    BY <2>2 DEF CallbackInsertUnanswered, Answer, IdleReq, LateStores, TypeOK
  <2> QED BY <2>1, <2>2
<1>3. ASSUME NEW q \in Reqs, req'[q].at = "insert" PROVE status'[req'[q].conn] = "absent"
  <2>1. q # r /\ req'[q] = req[q] /\ q \in Carriers BY <1>2, <1>3 DEF Carriers
  <2>2. req[q].conn # d /\ req[q].conn \in Conns
    BY <1>1, <1>3, <2>1 DEF CarryInv, Addressed
  <2> QED BY <1>2, <1>3, <2>1, <2>2 DEF OpenedInv, TypeOK
<1>4. ASSUME NEW q \in Reqs, req'[q].at \in Found PROVE status'[req'[q].conn] # "absent"
  <2>1. CASE q = r BY <1>1, <1>2, <1>4, <2>1 DEF TypeOK, Found
  <2>2. CASE q # r
    <3>1. req'[q] = req[q] /\ req[q].conn \in Conns
      BY <1>2, <1>4, <2>2 DEF Addressed, Found
    <3> QED BY <1>1, <1>2, <1>4, <3>1 DEF OpenedInv, TypeOK
  <2> QED BY <2>1, <2>2
<1>5. \A w \in LateStores' : status'[w.conn] # "absent"
  <2>1. \A w \in LateStores : w.conn \in Conns BY DEF LateStores, TypeOK, Writes
  <2> QED BY <1>1, <1>2, <2>1 DEF OpenedInv, TypeOK
<1> QED BY <1>3, <1>4, <1>5 DEF OpenedInv

LEMMA StepOpened ==
  ASSUME NEW r \in Reqs, TypeOK, Addressed, CarryInv, OpenedInv, Step(r)
  PROVE  OpenedInv'
<1> USE DEF db, bank
<1>1. CASE CallbackInsert(r) BY <1>1, InsertOpened
<1>2. CASE SyncLookup(r)
  <2>1. CASE status[req[r].conn] = "absent"
    BY <1>2, <2>1, AnswerRows, RowsKeptOpened DEF SyncLookup
  <2>2. CASE status[req[r].conn] # "absent"
    <3>1. /\ \A q \in Reqs : q # r => req'[q] = req[q]
          /\ req'[r].at = "lock" /\ req'[r].conn = req[r].conn
          /\ status' = status /\ LateStores' = LateStores
      BY <1>2, <2>2 DEF SyncLookup, LateStores, TypeOK, Requests
    <3> QED BY <2>2, <3>1 DEF OpenedInv, Found
  <2> QED BY <2>1, <2>2
<1>3. CASE SyncReadToken(r)
  <2>1. CASE token[req[r].conn] = 0
    BY <1>3, <2>1, AnswerRows, RowsKeptOpened DEF SyncReadToken
  <2>2. CASE token[req[r].conn] # 0
    <3>1. /\ \A q \in Reqs : q # r => req'[q] = req[q]
          /\ req'[r].at = "refresh" /\ req'[r].conn = req[r].conn
          /\ status' = status /\ LateStores' = LateStores /\ req[r].at = "read"
      BY <1>3, <2>2 DEF SyncReadToken, LateStores, TypeOK, Requests
    <3>2. RowsKept BY <3>1 DEF RowsKept, Found
    <3> QED BY <3>2, RowsKeptOpened
  <2> QED BY <2>1, <2>2
<1>4. CASE SyncRefresh(r)
  <2>1. /\ \A q \in Reqs : q # r => req'[q] = req[q]
        /\ req'[r].at = "store" /\ req'[r].conn = req[r].conn
        /\ status' = status /\ LateStores' = LateStores /\ req[r].at = "refresh"
    BY <1>4 DEF SyncRefresh, LateStores, TypeOK, Requests
  <2>2. RowsKept BY <2>1 DEF RowsKept, Found
  <2> QED BY <2>2, RowsKeptOpened
<1>5. CASE CallbackRefused(r) \/ CallbackSeed(r) \/ SyncFails(r) \/ SyncPull(r)
  BY <1>5, AnswerRows, RowsKeptOpened DEF CallbackRefused, CallbackSeed, SyncFails, SyncPull
<1>6. CASE CloseConnection(r)
  <2>1. \A c \in Conns : status'[c] = "absent" <=> status[c] = "absent"
    BY <1>6 DEF CloseConnection, Closed, TypeOK
  <2> QED BY <1>6, <2>1, AnswerRows, RowsKeptOpened DEF CloseConnection
<1>7. CASE SyncReadConsent(r)
  BY <1>7, AnswerRows, GotoRows, RowsKeptOpened DEF SyncReadConsent, Found
<1>8. CASE SyncLock(r) \/ SyncRefused(r) \/ SyncStore(r) \/ DropToken(r)
  BY <1>8, GotoRows, RowsKeptOpened DEF SyncLock, SyncRefused, SyncStore, DropToken, Found
<1> QED BY <1>1, <1>2, <1>3, <1>4, <1>5, <1>6, <1>7, <1>8 DEF Step

LEMMA OpenedStep ==
  TypeOK /\ Addressed /\ CarryInv /\ OpenedInv /\ [Next]_vars => OpenedInv'
<1> SUFFICES ASSUME TypeOK, Addressed, CarryInv, OpenedInv, [Next]_vars
             PROVE  OpenedInv'
  OBVIOUS
<1> USE DEF db, bank
<1>1. ASSUME NEW r \in Reqs, Step(r) PROVE OpenedInv' BY <1>1, StepOpened
<1>2. ASSUME NEW r \in Reqs, Arrive(r) PROVE OpenedInv'
  <2>1. PICK p \in Procs, c \in Conns :
          CallbackExchange(r, p, c) \/ SyncBegin(r, p, c) \/ RevokeBegin(r, p, c)
    BY <1>2 DEF Arrive
  <2>2. CASE CallbackExchange(r, p, c)
    <3>1. /\ \A q \in Reqs : q # r => req'[q] = req[q]
          /\ req'[r].at = "insert" /\ req'[r].conn = c
          /\ status' = status /\ LateStores' = LateStores /\ status[c] = "absent"
      BY <2>2 DEF CallbackExchange, IdleReq, LateStores, TypeOK
    <3> QED BY <3>1 DEF OpenedInv, Found
  <2>3. CASE SyncBegin(r, p, c) \/ RevokeBegin(r, p, c)
    <3>1. /\ \A q \in Reqs : q # r => req'[q] = req[q]
          /\ req'[r].at \in {"consent", "drop"}
          /\ status' = status /\ LateStores' = LateStores
      BY <2>3 DEF SyncBegin, RevokeBegin, Begin, IdleReq, LateStores, TypeOK
    <3>2. RowsKept BY <3>1 DEF RowsKept, Found
    <3> QED BY <3>2, RowsKeptOpened
  <2> QED BY <2>1, <2>2, <2>3
<1>3. ASSUME NEW r \in Reqs, GoWrong(r) PROVE OpenedInv'
  <2>1. CASE CallbackInsertUnanswered(r) BY <2>1, InsertOpened
  <2>2. CASE SyncRefreshUnanswered(r)
    BY <2>2, AnswerRows, RowsKeptOpened DEF SyncRefreshUnanswered
  <2>3. CASE WriteUnanswered(r)
    <3>1. /\ \A q \in Reqs : q # r => req'[q] = req[q]
          /\ req'[r].at = "idle" /\ status' = status
          /\ late' = late \cup {WriteOf(r)}
      BY <2>3 DEF WriteUnanswered, Answer, IdleReq, TypeOK
    <3>2. WriteOf(r).op = "store" =>
            req[r].at \in {"seed", "store"} /\ WriteOf(r).conn = req[r].conn
      BY <2>3 DEF WriteUnanswered, WriteOf, WritingSteps
    <3>3. RowsKept BY <3>1, <3>2 DEF RowsKept, LateStores, Found
    <3> QED BY <3>3, RowsKeptOpened
  <2> QED BY <1>3, <2>1, <2>2, <2>3 DEF GoWrong
<1>4. ASSUME NEW w \in late, LateWrite(w) PROVE OpenedInv'
  <2>1. \A c \in Conns : status'[c] = "absent" <=> status[c] = "absent"
    BY <1>4 DEF LateWrite, Closed, TypeOK, Writes
  <2>2. RowsKept BY <1>4, <2>1 DEF LateWrite, RowsKept, LateStores
  <2> QED BY <2>2, RowsKeptOpened
<1>5. ASSUME NEW p \in Procs, Crash(p) PROVE OpenedInv'
  <2>1. /\ \A q \in Reqs : req'[q] = IF req[q].proc = p THEN IdleReq ELSE req[q]
        /\ status' = status /\ IdleReq.at = "idle"
    BY <1>5 DEF Crash, IdleReq
  <2>2. ASSUME NEW w \in LateStores', w \notin LateStores
        PROVE  \E q \in Reqs : req[q].at \in {"seed", "store"} /\ w.conn = req[q].conn
    <3>1. PICK q \in Reqs : w = WriteOf(q) /\ req[q].at \in WritingSteps
      BY <1>5, <2>2 DEF Crash, LateStores
    <3> QED BY <2>2, <3>1 DEF WriteOf, WritingSteps, LateStores
  <2>3. RowsKept BY <2>1, <2>2 DEF RowsKept, Found
  <2> QED BY <2>3, RowsKeptOpened
<1>6. ASSUME NEW c \in Conns, GrantEnds(c) PROVE OpenedInv'
  <2>1. RowsKept BY <1>6 DEF GrantEnds, RowsKept, LateStores
  <2> QED BY <2>1, RowsKeptOpened
<1>7. CASE AcceptConsent
  <2>1. \A q \in Reqs : req'[q].at = req[q].at /\ req'[q].conn = req[q].conn
    BY <1>7 DEF AcceptConsent, TypeOK, Requests
  <2>2. RowsKept BY <1>7, <2>1 DEF AcceptConsent, RowsKept, LateStores
  <2> QED BY <2>2, RowsKeptOpened
<1>8. CASE WithdrawConsent
  <2>1. RowsKept BY <1>8 DEF WithdrawConsent, RowsKept, LateStores
  <2> QED BY <2>1, RowsKeptOpened
<1>9. CASE UNCHANGED vars
  <2>1. RowsKept BY <1>9 DEF vars, RowsKept, LateStores
  <2> QED BY <2>1, RowsKeptOpened
<1> QED BY <1>1, <1>2, <1>3, <1>4, <1>5, <1>6, <1>7, <1>8, <1>9 DEF Next

----------------------------------------------------------------------------
(* The refinement mapping.                                                 *)
Places == {"nowhere", "held", "stored", "lost"}

LEMMA WhereValue ==
  /\ \A c \in Conns : Where[c] = IF newest[c] = 0 THEN "nowhere"
                                 ELSE IF token[c] = newest[c] THEN "stored"
                                 ELSE IF Held(c) THEN "held" ELSE "lost"
  /\ \A c \in Conns : Where'[c] = IF newest'[c] = 0 THEN "nowhere"
                                  ELSE IF token'[c] = newest'[c] THEN "stored"
                                  ELSE IF Held(c)' THEN "held" ELSE "lost"
  /\ Where = [c \in Conns |-> Where[c]] /\ Where' = [c \in Conns |-> Where'[c]]
BY DEF Where

LEMMA WhereIsPlace == Where' \in [Conns -> Places]
<1> DEFINE w == [c \in Conns |-> Where'[c]]
<1>1. \A c \in Conns : Where'[c] \in Places BY WhereValue DEF Places
<1>2. w \in [Conns -> Places] BY <1>1
<1>3. Where' = w BY WhereValue
<1> QED BY <1>2, <1>3

(* When the place of one token changes, the mapping changes at that place. *)
LEMMA WhereExcept ==
  ASSUME NEW d \in Conns, \A c \in Conns : c # d => Where'[c] = Where[c]
  PROVE  Where' = [Where EXCEPT ![d] = Where'[d]]
<1> DEFINE now == [c \in Conns |-> Where[c]]
           then == [c \in Conns |-> Where'[c]]
<1>1. Where = now /\ Where' = then BY WhereValue
<1>2. then = [now EXCEPT ![d] = Where'[d]] OBVIOUS
<1> HIDE DEF now, then
<1> QED BY <1>1, <1>2

(* Requests give up tokens and nothing else happens.                       *)
LEMMA Forgotten ==
  ASSUME status' = status, newest' = newest, token' = token,
         \A c \in Conns : Held(c)' => Held(c)
  PROVE  Custody!Next
<1>1. \A c \in Conns : Where'[c] = Where[c] \/ (Where[c] = "held" /\ Where'[c] = "lost")
  BY WhereValue
<1>2. Custody!Forget BY <1>1, WhereIsPlace DEF Custody!Forget, Places
<1> QED BY <1>2 DEF Custody!Next

LEMMA LapseHeld ==
  ASSUME TypeOK, Lapse, NEW c \in Conns PROVE Held(c)' => Held(c)
<1> SUFFICES ASSUME Held(c)' PROVE Held(c)
  OBVIOUS
<1>1. newest' = newest BY DEF Lapse
<1>2. CASE \E r \in Busy(c)' : /\ req'[r].at \in {"insert", "seed", "refresh", "store"}
                               /\ req'[r].tok = newest'[c]
  BY <1>1, <1>2 DEF Held, Busy, Lapse
<1>3. CASE \E w \in late' : w.op = "store" /\ w.conn = c /\ w.tok = newest'[c]
  <2>1. PICK w \in late' : w.op = "store" /\ w.conn = c /\ w.tok = newest'[c]
    BY <1>3
  <2>2. CASE w \in late BY <1>1, <2>1, <2>2 DEF Held
  <2>3. CASE \E q \in Carriers : w = WriteOf(q) /\ req'[q].at = "idle"
    <3>1. PICK q \in Carriers : w = WriteOf(q) BY <2>3
    <3>2. q \in Reqs /\ req[q].conn = c /\ req[q].tok = newest[c]
          /\ req[q].at \in {"insert", "seed", "store"}
      BY <1>1, <2>1, <3>1, CarrierWrite DEF Carriers
    <3> QED BY <3>2 DEF Held, Busy
  <2> QED BY <2>1, <2>2, <2>3 DEF Lapse
<1> QED BY <1>2, <1>3 DEF Held

LEMMA LapseCustody ==
  ASSUME TypeOK, Lapse, status' = status, token' = token PROVE Custody!Next
BY LapseHeld, Forgotten DEF Lapse

(* What happens to the token of one grant leaves that of the others where  *)
(* it is.                                                                  *)
About(d) ==
  /\ \A c \in Conns : c # d => newest'[c] = newest[c] /\ token'[c] = token[c]
  /\ \A q \in Reqs : \/ req'[q] = req[q]
                     \/ /\ req'[q].at = "idle" \/ req'[q].conn = d
                        /\ req[q].at = "idle" \/ req[q].conn = d
  /\ \A w : w.op = "store" /\ w.conn # d => (w \in late' <=> w \in late)

LEMMA AboutOne ==
  ASSUME NEW d \in Conns, About(d)
  PROVE  Where' = [Where EXCEPT ![d] = Where'[d]]
<1>1. ASSUME NEW c \in Conns, c # d PROVE Where'[c] = Where[c]
  <2>1. newest'[c] = newest[c] /\ token'[c] = token[c] BY <1>1 DEF About
  <2>2. \A q \in Reqs : q \in Busy(c)' /\ req'[q].at # "idle"
                          <=> q \in Busy(c) /\ req[q].at # "idle"
    BY <1>1 DEF About, Busy
  <2>3. \A q \in Busy(c) : req[q].at # "idle" => req'[q] = req[q]
    BY <1>1 DEF About, Busy
  <2>4. Held(c)' <=> Held(c)
    <3>1. (\E q \in Busy(c)' : /\ req'[q].at \in {"insert", "seed", "refresh", "store"}
                               /\ req'[q].tok = newest'[c])
          <=> \E q \in Busy(c) : /\ req[q].at \in {"insert", "seed", "refresh", "store"}
                                 /\ req[q].tok = newest[c]
      BY <2>1, <2>2, <2>3 DEF Busy
    <3>2. (\E w \in late' : w.op = "store" /\ w.conn = c /\ w.tok = newest'[c])
          <=> \E w \in late : w.op = "store" /\ w.conn = c /\ w.tok = newest[c]
      BY <1>1, <2>1 DEF About
    <3> QED BY <3>1, <3>2 DEF Held
  <2> QED BY <2>1, <2>4, WhereValue
<1> QED BY <1>1, WhereExcept

LEMMA CloseLapse ==
  ASSUME NEW d \in Conns, TypeOK, Lapse, token' = token,
         status' = [status EXCEPT ![d] = Closed(@)], Where' = Where
  PROVE  Custody!Next
<1>1. CASE status[d] = "active"
  <2>1. status' = [status EXCEPT ![d] = "revoked"] BY <1>1 DEF Closed
  <2>2. Custody!Close(d) BY <1>1, <2>1 DEF Custody!Close, Lapse
  <2> QED BY <2>2 DEF Custody!Next
<1>2. CASE status[d] # "active"
  <2>1. status' = status BY <1>2 DEF Closed, TypeOK, Statuses
  <2> QED BY <2>1, LapseCustody
<1> QED BY <1>1, <1>2

(* The bank's first token goes to the request that exchanged the code.     *)
LEMMA IssueCustody ==
  ASSUME NEW r \in Reqs, NEW p \in Procs, NEW c \in Conns, TypeOK, CarryInv,
         CallbackExchange(r, p, c)
  PROVE  Custody!Next
<1>1. /\ newest[c] = 0 /\ newest' = [newest EXCEPT ![c] = 1] /\ newest'[c] = 1
      /\ token' = token /\ status' = status /\ late' = late
      /\ \A q \in Reqs : q # r => req'[q] = req[q]
      /\ req[r].at = "idle" /\ req'[r].at = "insert" /\ req'[r].conn = c /\ req'[r].tok = 1
  BY DEF CallbackExchange, db, IdleReq, TypeOK
<1>2. About(c) BY <1>1 DEF About, TypeOK
<1>3. token'[c] # newest'[c] BY <1>1 DEF CarryInv
<1>4. Held(c)' BY <1>1 DEF Held, Busy
<1>5. Where[c] = "nowhere" /\ Where'[c] = "held" BY <1>1, <1>3, <1>4, WhereValue
<1>6. Custody!Issue(c) BY <1>1, <1>2, <1>5, AboutOne DEF Custody!Issue
<1> QED BY <1>6 DEF Custody!Next

(* The insert opens the connection; when its answer is lost the token is.  *)
LEMMA OpenCustody ==
  ASSUME NEW r \in Reqs, TypeOK, Addressed, CarryInv, OpenedInv,
         CallbackInsert(r) \/ CallbackInsertUnanswered(r)
  PROVE  Custody!Next
<1> DEFINE d == req[r].conn
<1>1. d \in Conns /\ r \in Carriers /\ req[r].at = "insert"
  BY DEF CallbackInsert, CallbackInsertUnanswered, Addressed, Carriers
<1>2. /\ status' = [status EXCEPT ![d] = "active"]
      /\ newest' = newest /\ token' = token /\ late' = late
      /\ \A q \in Reqs : q # r => req'[q] = req[q]
      /\ req'[r].at = "idle" \/ req'[r].conn = d
  <2>1. CASE CallbackInsert(r) BY <2>1 DEF CallbackInsert, bank, Goto, TypeOK, Requests
  <2>2. CASE CallbackInsertUnanswered(r)
    BY <2>2 DEF CallbackInsertUnanswered, bank, Answer, IdleReq, TypeOK
  <2> QED BY <2>1, <2>2
<1>3. About(d) BY <1>1, <1>2 DEF About
<1>4. newest[d] # 0 /\ token[d] # newest[d] BY <1>1 DEF CarryInv, Untouched
<1>5. status[d] = "absent" BY <1>1 DEF OpenedInv
<1>6. Held(d) BY <1>1 DEF Held, Busy, CarryInv
<1>7. Where[d] = "held" /\ Where'[d] \in {"held", "lost"}
  BY <1>1, <1>2, <1>4, <1>6, WhereValue
<1>8. Custody!Open(d) BY <1>1, <1>2, <1>3, <1>4, <1>5, <1>7, AboutOne DEF Custody!Open
<1> QED BY <1>1, <1>8 DEF Custody!Next

(* A carrier, or a write it has left behind, brings the newest token in.   *)
LEMMA DepositCustody ==
  ASSUME NEW d \in Conns, TypeOK, About(d), status' = status, newest' = newest,
         newest[d] # 0, token[d] # newest[d], Held(d), status[d] # "absent",
         token' = [token EXCEPT ![d] = newest[d]]
  PROVE  Custody!Next
<1>1. token'[d] = newest'[d] BY DEF TypeOK
<1>2. Where[d] = "held" /\ Where'[d] = "stored" BY <1>1, WhereValue
<1>3. Custody!Deposit(d) BY <1>2, AboutOne DEF Custody!Deposit
<1> QED BY <1>3 DEF Custody!Next

LEMMA StoreCustody ==
  ASSUME NEW r \in Reqs, TypeOK, Addressed, CarryInv, OpenedInv, Deposits(r)
  PROVE  Custody!Next
<1> DEFINE d == req[r].conn
<1>1. r \in Carriers /\ d \in Conns /\ req[r].at \in {"seed", "store"}
  BY DEF Deposits, CallbackSeed, SyncStore, Carriers, Addressed
<1>2. /\ newest' = newest /\ late' = late /\ status' = status
      /\ token' = [token EXCEPT ![d] = req[r].tok]
  BY DEF Deposits, CallbackSeed, SyncStore, bank
<1>3. /\ \A q \in Reqs : q # r => req'[q] = req[q]
      /\ req'[r].at = "idle" \/ req'[r].conn = d
  BY DEF Deposits, CallbackSeed, SyncStore, Answer, Goto, IdleReq, TypeOK, Requests
<1>4. About(d) BY <1>1, <1>2, <1>3 DEF About, TypeOK
<1>5. req[r].tok = newest[d] /\ newest[d] # 0 /\ token[d] # newest[d]
  BY <1>1 DEF CarryInv, Untouched
<1>6. Held(d) BY <1>1, <1>5 DEF Held, Busy
<1>7. status[d] # "absent" BY <1>1 DEF OpenedInv, Found
<1> QED BY <1>1, <1>2, <1>4, <1>5, <1>6, <1>7, DepositCustody

LEMMA LateStoreCustody ==
  ASSUME NEW w \in LateStores, TypeOK, CarryInv, OpenedInv, LateWrite(w)
  PROVE  Custody!Next
<1> DEFINE d == w.conn
<1>1. w \in late /\ w.op = "store" /\ d \in Conns BY DEF LateStores, TypeOK, Writes
<1>2. /\ newest' = newest /\ req' = req /\ late' = late \ {w} /\ status' = status
      /\ token' = [token EXCEPT ![d] = w.tok]
  BY <1>1 DEF LateWrite, bank
<1>3. About(d) BY <1>2 DEF About, TypeOK
<1>4. w.tok = newest[d] /\ newest[d] # 0 /\ token[d] # newest[d]
  BY DEF CarryInv, Untouched
<1>5. Held(d) BY <1>1, <1>4 DEF Held
<1>6. status[d] # "absent" BY DEF OpenedInv
<1> QED BY <1>1, <1>2, <1>3, <1>4, <1>5, <1>6, DepositCustody

(* The bank rotates a token that is stored or only held.                   *)
LEMMA RotateCustody ==
  ASSUME NEW r \in Reqs, TypeOK, Addressed, CarryInv, Rotates(r)
  PROVE  Custody!Next
<1> DEFINE d == req[r].conn
           n == newest[d] + 1
<1>1. /\ d \in Conns /\ r \in Readers /\ req[r].tok = newest[d] /\ n \in Tokens
      /\ token' = token /\ late' = late /\ newest' = [newest EXCEPT ![d] = n]
      /\ status' = status
  BY DEF Rotates, SyncRefresh, SyncRefreshUnanswered, Honoured, Addressed, Readers, db
<1>2. /\ \A q \in Reqs : q # r => req'[q] = req[q]
      /\ req'[r].at = "idle" \/ req'[r].conn = d
  <2>1. CASE SyncRefresh(r) BY <2>1 DEF SyncRefresh, TypeOK, Requests
  <2>2. CASE SyncRefreshUnanswered(r)
    BY <2>2 DEF SyncRefreshUnanswered, Answer, IdleReq, TypeOK
  <2> QED BY <2>1, <2>2 DEF Rotates
<1>3. newest[d] \in Nat /\ newest'[d] = n
  <2>1. newest[d] \in Nat BY <1>1, ZeroAndOne DEF TypeOK
  <2> QED BY <1>1, <2>1 DEF TypeOK
<1>4. newest[d] < MaxToken /\ newest[d] # 0
  <2>1. n \in 0..MaxToken BY <1>1 DEF Tokens
  <2>2. newest[d] \in 1..newest[d] BY <1>1 DEF CarryInv
  <2> QED BY <1>3, <2>1, <2>2, ConstantsAssumption
<1>5. token[d] \in 0..newest[d] BY <1>1 DEF CarryInv
<1>6. token'[d] # newest'[d] /\ newest'[d] # 0 BY <1>1, <1>3, <1>5
<1>7. About(d) BY <1>1, <1>2 DEF About, TypeOK
<1>8. Held(d) BY <1>1 DEF Held, Busy, Readers
<1>9. Where[d] \in {"held", "stored"} BY <1>1, <1>4, <1>8, WhereValue
<1>10. Where'[d] \in {"held", "lost"} BY <1>1, <1>6, WhereValue
<1>11. Custody!Rotate(d)
  <2>1. newest' = [newest EXCEPT ![d] = @ + 1] BY <1>1
  <2> QED BY <1>1, <1>4, <1>7, <1>9, <1>10, <2>1, AboutOne DEF Custody!Rotate
<1> QED BY <1>1, <1>11 DEF Custody!Next

(* The row of a token is deleted, by a request or by a late write.         *)
LEMMA RemoveCustody ==
  ASSUME NEW d \in Conns, TypeOK, About(d), Lapse, status' = status,
         token' = [token EXCEPT ![d] = 0]
  PROVE  Custody!Next
<1>1. newest' = newest BY DEF Lapse
<1>2. CASE Where[d] = "stored"
  <2>1. newest[d] # 0 BY <1>2, WhereValue
  <2>2. token'[d] # newest'[d] BY <1>1, <2>1 DEF TypeOK
  <2>3. Where'[d] \in {"held", "lost"} BY <1>1, <2>1, <2>2, WhereValue
  <2>4. Custody!Remove(d) BY <1>1, <1>2, <2>3, AboutOne DEF Custody!Remove
  <2> QED BY <2>4 DEF Custody!Next
<1>3. CASE Where[d] # "stored"
  <2>1. Held(d)' => Held(d) BY LapseHeld
  <2>2. newest[d] # 0 => token'[d] # newest'[d] BY <1>1 DEF TypeOK
  <2>3. newest[d] = 0 \/ token[d] # newest[d] BY <1>3, WhereValue
  <2>4. Where'[d] = Where[d] \/ (Where[d] = "held" /\ Where'[d] = "lost")
    BY <1>1, <2>1, <2>2, <2>3, WhereValue
  <2>5. \A c \in Conns : Where'[c] = Where[c] \/ (Where[c] = "held" /\ Where'[c] = "lost")
    <3>1. ASSUME NEW c \in Conns, c # d
          PROVE  Where'[c] = Where[c] \/ (Where[c] = "held" /\ Where'[c] = "lost")
      <4>1. token'[c] = token[c] BY <3>1 DEF TypeOK
      <4>2. Held(c)' => Held(c) BY LapseHeld
      <4> QED BY <1>1, <4>1, <4>2, WhereValue
    <3> QED BY <2>4, <3>1
  <2>6. Custody!Forget BY <1>1, <2>5, WhereIsPlace DEF Custody!Forget, Places
  <2> QED BY <2>6 DEF Custody!Next
<1> QED BY <1>2, <1>3

LEMMA DropCustody ==
  ASSUME NEW r \in Reqs, TypeOK, Addressed, DropToken(r)
  PROVE  Custody!Next
<1> DEFINE d == req[r].conn
<1>1. /\ d \in Conns /\ status' = status /\ newest' = newest /\ late' = late
      /\ token' = [token EXCEPT ![d] = 0]
  BY DEF DropToken, Addressed, bank
<1>2. \A q \in Reqs : q # r => req'[q] = req[q]
  BY DEF DropToken, Goto, TypeOK
<1>3. req'[r].conn = d BY DEF DropToken, Goto, TypeOK, Requests
<1>4. About(d) BY <1>1, <1>2, <1>3 DEF About, TypeOK
<1>5. Lapse BY IdleStepLapse DEF IdleStep
<1> QED BY <1>1, <1>4, <1>5, RemoveCustody

LEMMA CloseCustody ==
  ASSUME NEW r \in Reqs, TypeOK, Addressed, CloseConnection(r)
  PROVE  Custody!Next
<1> DEFINE d == req[r].conn
<1>1. /\ d \in Conns /\ req[r].at = "close"
      /\ status' = [status EXCEPT ![d] = Closed(@)]
      /\ newest' = newest /\ token' = token /\ late' = late
  BY DEF CloseConnection, Addressed, bank
<1>2. /\ \A q \in Reqs : q # r => req'[q] = req[q]
      /\ req'[r].at = "idle"
  BY DEF CloseConnection, Answer, IdleReq, TypeOK
<1>3. ASSUME NEW c \in Conns PROVE Held(c)' <=> Held(c)
  BY <1>1, <1>2 DEF Held, Busy
<1>4. Where' = Where
  <2>1. \A c \in Conns : Where'[c] = Where[c] BY <1>1, <1>3, WhereValue
  <2> QED BY <2>1, WhereValue
<1>5. Lapse BY IdleStepLapse DEF IdleStep
<1> QED BY <1>1, <1>4, <1>5, CloseLapse

(* A copy of a stored token makes no difference to where the token is.     *)
LEMMA ReadCustody ==
  ASSUME NEW r \in Reqs, TypeOK, Addressed, CarryInv, SyncReadToken(r)
  PROVE  Custody!Next
<1> DEFINE d == req[r].conn
<1>1. /\ d \in Conns /\ req[r].at = "read" /\ status' = status
      /\ newest' = newest /\ token' = token /\ late' = late
  BY DEF SyncReadToken, Addressed, db, bank
<1>2. CASE token[d] = 0
  <2>1. Answer(r) BY <1>2 DEF SyncReadToken
  <2>2. Lapse BY <1>1, <2>1, AnswerLapse
  <2> QED BY <1>1, <2>2, LapseCustody
<1>3. CASE token[d] # 0
  <2>1. /\ \A q \in Reqs : q # r => req'[q] = req[q]
        /\ req'[r].at = "refresh" /\ req'[r].conn = d /\ req'[r].tok = token[d]
    BY <1>3 DEF SyncReadToken, TypeOK, Requests
  <2>2. ASSUME NEW c \in Conns, token[c] # newest[c] PROVE Held(c)' => Held(c)
    BY <1>1, <2>1, <2>2 DEF Held, Busy
  <2>3. \A c \in Conns : Where'[c] = Where[c] \/ (Where[c] = "held" /\ Where'[c] = "lost")
    BY <1>1, <2>2, WhereValue
  <2>4. Custody!Forget BY <1>1, <2>3, WhereIsPlace DEF Custody!Forget, Places
  <2> QED BY <2>4 DEF Custody!Next
<1> QED BY <1>2, <1>3

LEMMA LateWriteCustody ==
  ASSUME NEW w \in late, TypeOK, Addressed, CarryInv, OpenedInv, LateWrite(w)
  PROVE  Custody!Next
<1> DEFINE d == w.conn
<1>1. w.op \in {"store", "drop", "close"} /\ d \in Conns BY DEF TypeOK, Writes
<1>2. newest' = newest /\ req' = req /\ late' = late \ {w} BY DEF LateWrite, bank
<1>3. CASE w.op = "store" BY <1>3, LateStoreCustody DEF LateStores
<1>4. CASE w.op = "drop"
  <2>1. status' = status /\ token' = [token EXCEPT ![d] = 0]
    BY <1>4 DEF LateWrite
  <2>2. About(d) BY <1>2, <1>4, <2>1 DEF About, TypeOK
  <2>3. Lapse BY <1>2, <2>1 DEF Lapse, TypeOK
  <2> QED BY <1>1, <2>1, <2>2, <2>3, RemoveCustody
<1>5. CASE w.op = "close"
  <2>1. token' = token /\ status' = [status EXCEPT ![d] = Closed(@)]
    BY <1>5 DEF LateWrite
  <2>2. Lapse BY <1>2, <2>1 DEF Lapse
  <2>3. ASSUME NEW c \in Conns PROVE Held(c)' <=> Held(c)
    BY <1>2, <1>5 DEF Held, Busy
  <2>4. Where' = Where
    <3>1. \A c \in Conns : Where'[c] = Where[c] BY <1>2, <2>1, <2>3, WhereValue
    <3> QED BY <3>1, WhereValue
  <2> QED BY <1>1, <2>1, <2>2, <2>4, CloseLapse
<1> QED BY <1>1, <1>3, <1>4, <1>5

(* Every step is one of the abstract steps.                                *)
LEMMA CustodyStep ==
  TypeOK /\ Addressed /\ CarryInv /\ OpenedInv /\ [Next]_vars => Custody!Next
<1> SUFFICES ASSUME TypeOK, Addressed, CarryInv, OpenedInv, [Next]_vars
             PROVE  Custody!Next
  OBVIOUS
<1> USE DEF db, bank
<1>1. ASSUME NEW r \in Reqs, Step(r) PROVE Custody!Next
  <2>1. CASE \/ CallbackRefused(r) \/ SyncReadConsent(r) \/ SyncLookup(r) \/ SyncLock(r)
             \/ SyncRefused(r) \/ SyncFails(r) \/ SyncPull(r)
    <3>1. Lapse BY <2>1, IdleStepLapse DEF IdleStep
    <3>2. status' = status /\ token' = token
      BY <2>1 DEF CallbackRefused, SyncReadConsent, SyncLookup, SyncLock, SyncRefused,
         SyncFails, SyncPull
    <3> QED BY <3>1, <3>2, LapseCustody
  <2>2. CASE CallbackInsert(r) BY <2>2, OpenCustody
  <2>3. CASE Deposits(r) BY <2>3, StoreCustody
  <2>4. CASE SyncReadToken(r) BY <2>4, ReadCustody
  <2>5. CASE SyncRefresh(r) BY <2>5, RotateCustody DEF Rotates
  <2>6. CASE DropToken(r) BY <2>6, DropCustody
  <2>7. CASE CloseConnection(r) BY <2>7, CloseCustody
  <2> QED BY <1>1, <2>1, <2>2, <2>3, <2>4, <2>5, <2>6, <2>7 DEF Step, Deposits
<1>2. ASSUME NEW r \in Reqs, Arrive(r) PROVE Custody!Next
  <2>1. PICK p \in Procs, c \in Conns :
          CallbackExchange(r, p, c) \/ SyncBegin(r, p, c) \/ RevokeBegin(r, p, c)
    BY <1>2 DEF Arrive
  <2>2. CASE CallbackExchange(r, p, c) BY <2>2, IssueCustody
  <2>3. CASE SyncBegin(r, p, c) \/ RevokeBegin(r, p, c)
    <3>1. Lapse
      <4>1. /\ \A q \in Reqs : q # r => req'[q] = req[q]
            /\ req'[r].at \in {"consent", "drop"}
        BY <2>3 DEF SyncBegin, RevokeBegin, Begin, IdleReq, TypeOK
      <4>2. newest' = newest /\ token' = token /\ late' = late
        BY <2>3 DEF SyncBegin, RevokeBegin
      <4> QED BY <4>1, <4>2 DEF Lapse
    <3>2. status' = status /\ token' = token BY <2>3 DEF SyncBegin, RevokeBegin
    <3> QED BY <3>1, <3>2, LapseCustody
  <2> QED BY <2>1, <2>2, <2>3
<1>3. ASSUME NEW r \in Reqs, GoWrong(r) PROVE Custody!Next
  <2>1. CASE CallbackInsertUnanswered(r) BY <2>1, OpenCustody
  <2>2. CASE SyncRefreshUnanswered(r) BY <2>2, RotateCustody DEF Rotates
  <2>3. CASE WriteUnanswered(r)
    <3>1. r \in Carriers \/ WriteOf(r).op # "store"
      BY <2>3 DEF WriteUnanswered, WritingSteps, WriteOf, Carriers
    <3>2. Lapse BY <2>3, <3>1, AnswerLapse DEF WriteUnanswered
    <3>3. status' = status /\ token' = token BY <2>3 DEF WriteUnanswered
    <3> QED BY <3>2, <3>3, LapseCustody
  <2> QED BY <1>3, <2>1, <2>2, <2>3 DEF GoWrong
<1>4. ASSUME NEW w \in late, LateWrite(w) PROVE Custody!Next
  BY <1>4, LateWriteCustody
<1>5. ASSUME NEW p \in Procs, Crash(p) PROVE Custody!Next
  <2>1. Lapse BY <1>5, CrashLapse
  <2> QED BY <1>5, <2>1, LapseCustody DEF Crash
<1>6. ASSUME NEW c \in Conns, GrantEnds(c) PROVE Custody!Next
  <2>1. Lapse BY <1>6 DEF GrantEnds, Lapse
  <2> QED BY <1>6, <2>1, LapseCustody DEF GrantEnds
<1>7. CASE AcceptConsent
  <2>1. \A q \in Reqs : /\ req'[q].at = req[q].at
                        /\ req'[q].conn = req[q].conn
                        /\ req'[q].tok = req[q].tok
    BY <1>7 DEF AcceptConsent, TypeOK, Requests
  <2>2. Lapse BY <1>7, <2>1 DEF AcceptConsent, Lapse
  <2> QED BY <1>7, <2>2, LapseCustody DEF AcceptConsent
<1>8. CASE WithdrawConsent
  <2>1. Lapse BY <1>8 DEF WithdrawConsent, Lapse
  <2> QED BY <1>8, <2>1, LapseCustody DEF WithdrawConsent
<1>9. CASE UNCHANGED vars
  <2>1. Lapse BY <1>9 DEF vars, Lapse
  <2> QED BY <1>9, <2>1, LapseCustody DEF vars
<1> QED BY <1>1, <1>2, <1>3, <1>4, <1>5, <1>6, <1>7, <1>8, <1>9 DEF Next

LEMMA CustodyInit == Init => Custody!Init
<1> SUFFICES ASSUME Init PROVE Custody!Init
  OBVIOUS
<1>1. \A c \in Conns : Where[c] = "nowhere" BY WhereValue DEF Init
<1>2. Where = [c \in Conns |-> "nowhere"] BY <1>1, WhereValue
<1> QED BY <1>2 DEF Init, Custody!Init

(* The routes keep the promise of TokenCustody, whatever the interleaving  *)
(* and whatever is lost: a token is issued once, rotated only by the bank, *)
(* stored only by whoever holds the newest one, and one that is lost never *)
(* comes back; a connection opens once and closes for good.                *)
THEOREM CustodyCorrect == Spec => CustodyKept
<1>1. Init => TypeOK /\ Control /\ CarryInv /\ OpenedInv
  <2>1. Init => OpenedInv BY DEF Init, OpenedInv, Found, IdleReq, LateStores
  <2> QED BY <2>1, TypeInit, ControlInit, CarryInit
<1>2. TypeOK /\ Control /\ CarryInv /\ OpenedInv /\ [Next]_vars
        => (TypeOK /\ Control /\ CarryInv /\ OpenedInv)'
  BY TypeStep, ControlStep, CarryStep, OpenedStep DEF Control
<1>3. TypeOK /\ Control /\ CarryInv /\ OpenedInv /\ [Next]_vars
        => [Custody!Next]_(Custody!vars)
  BY CustodyStep DEF Control
<1> QED BY <1>1, <1>2, <1>3, CustodyInit, PTL DEF Spec, CustodyKept, Custody!Spec
=============================================================================
