---------------------------- MODULE OpenBanking ----------------------------
(***************************************************************************)
(* The server side of a household's bank connections                       *)
(* (server/open_banking_routes.py, open_banking_store.py,                  *)
(* open_banking_flow.py): requests of one user, served by one or more      *)
(* server processes, against one database and one bank.                    *)
(*                                                                         *)
(* A request is a sequence of threadpool calls with an await between any   *)
(* two of them, so every call is a step of its own.  The bank's refresh    *)
(* tokens are single use: a token is the number of times its grant has     *)
(* been rotated, and only the newest one is honoured.  An unauthenticated  *)
(* request (401) ends before it touches anything and is left out.          *)
(***************************************************************************)
EXTENDS Naturals, FiniteSets

CONSTANTS
  Conns,       \* connection ids the database may hand out
  Reqs,        \* request slots: at most this many requests are under way
  Procs,       \* server processes, each with its own _sync_locks
  None,        \* no connection, no process, no lock holder
  FaultKinds,  \* which of "bank", "db" and "crash" can go wrong
  MaxFaults,   \* bound: how often something goes wrong
  MaxToken     \* bound: rotations of one grant

ASSUME ConstantsAssumption ==
  /\ None \notin Conns \cup Reqs \cup Procs
  /\ FaultKinds \subseteq {"bank", "db", "crash"}
  /\ MaxFaults \in Nat
  /\ MaxToken \in Nat \ {0}

VARIABLES
  status,   \* open_banking_connections: "absent" | "active" | "revoked"
  token,    \* open_banking_tokens: the stored token, 0 when there is no row
  consent,  \* consent_acceptances, purpose open_banking
  newest,   \* bank: the newest token of each grant, 0 before the exchange
  live,     \* bank: whether the household's grant still stands
  lock,     \* _sync_locks of each process
  req,      \* the requests under way
  late,     \* writes whose answer was lost and that may still be applied
  faults    \* how often something has gone wrong

vars == <<status, token, consent, newest, live, lock, req, late, faults>>
db   == <<status, token, late>>
bank == <<newest, live>>

----------------------------------------------------------------------------
Tokens   == 0..MaxToken
Statuses == {"absent", "active", "revoked"}
SyncSteps == {"consent", "lookup", "lock", "read", "refresh", "store", "pull"}
Steps == SyncSteps \cup {"idle", "insert", "seed", "drop", "close"}

(* What a request has in its local variables; `seen` is the status in the  *)
(* list_connections row, `agreed` records (for a property only) whether    *)
(* consent was in force at some moment since the request began.            *)
Requests == [at : Steps, conn : Conns \cup {None}, proc : Procs \cup {None},
             tok : Tokens, seen : Statuses, agreed : BOOLEAN]
IdleReq  == [at |-> "idle", conn |-> None, proc |-> None,
             tok |-> 0, seen |-> "absent", agreed |-> FALSE]
Writes   == [op : {"store", "drop", "close"}, conn : Conns, tok : Tokens]

Begin(r, p, c, step) ==
  /\ req[r].at = "idle"
  /\ req' = [req EXCEPT ![r] = [IdleReq EXCEPT !.at = step, !.conn = c,
                                  !.proc = p, !.agreed = consent = "active"]]

Goto(r, step) == req' = [req EXCEPT ![r].at = step]

(* Bug: an early return that keeps the lock.                               *)
BugReleasedBy(R) == lock

(* Leaving the `async with` block by any exit gives the lock back.         *)
ReleasedBy(R) == [k \in Procs \X Conns |-> IF lock[k] \in R THEN None ELSE lock[k]]

Answer(r) ==
  /\ req' = [req EXCEPT ![r] = IdleReq]
  /\ lock' = ReleasedBy({r})

Fault(kind) ==
  /\ kind \in FaultKinds
  /\ faults < MaxFaults
  /\ faults' = faults + 1

(* The write the request has issued and not yet had an answer to.          *)
WriteOf(r) ==
  [op   |-> IF req[r].at \in {"store", "seed"} THEN "store" ELSE req[r].at,
   conn |-> req[r].conn,
   tok  |-> IF req[r].at \in {"store", "seed"} THEN req[r].tok ELSE 0]

WritingSteps == {"store", "seed", "drop", "close"}

Init ==
  /\ status = [c \in Conns |-> "absent"]
  /\ token = [c \in Conns |-> 0]
  /\ consent = "none"
  /\ newest = [c \in Conns |-> 0]
  /\ live = [c \in Conns |-> FALSE]
  /\ lock = [k \in Procs \X Conns |-> None]
  /\ req = [r \in Reqs |-> IdleReq]
  /\ late = {}
  /\ faults = 0

----------------------------------------------------------------------------
(* PUT and DELETE /api/consents/open-banking.  The row is upserted, and    *)
(* withdrawing does nothing when there is no row.                          *)
AcceptConsent ==
  /\ consent' = "active"
  /\ req' = [r \in Reqs |->
               [req[r] EXCEPT !.agreed = @ \/ req[r].at # "idle"]]
  /\ UNCHANGED <<db, bank, lock, faults>>

WithdrawConsent ==
  /\ consent = "active"
  /\ consent' = "withdrawn"
  /\ UNCHANGED <<db, bank, lock, req, faults>>

----------------------------------------------------------------------------
(* GET /api/open-banking/callback: the code is exchanged, and the bank's   *)
(* grant created, before the session is checked and the row inserted.      *)
CallbackExchange(r, p, c) ==
  /\ newest[c] = 0
  /\ status[c] = "absent"
  /\ req[r].at = "idle"
  /\ req' = [req EXCEPT ![r] = [IdleReq EXCEPT !.at = "insert", !.conn = c,
                                  !.proc = p, !.tok = 1,
                                  !.agreed = consent = "active"]]
  /\ newest' = [newest EXCEPT ![c] = 1]
  /\ live' = [live EXCEPT ![c] = TRUE]
  /\ UNCHANGED <<db, consent, lock, faults>>

(* The session has expired, or the insert fails and leaves nothing.        *)
CallbackRefused(r) ==
  /\ req[r].at = "insert"
  /\ Answer(r)
  /\ UNCHANGED <<db, consent, bank, faults>>

(* The insert is applied but its answer is lost: create_connection raises. *)
CallbackInsertUnanswered(r) ==
  /\ req[r].at = "insert"
  /\ Fault("db")
  /\ status' = [status EXCEPT ![req[r].conn] = "active"]
  /\ Answer(r)
  /\ UNCHANGED <<token, late, consent, bank>>

CallbackInsert(r) ==
  /\ req[r].at = "insert"
  /\ status' = [status EXCEPT ![req[r].conn] = "active"]
  /\ Goto(r, "seed")
  /\ UNCHANGED <<token, late, consent, bank, lock, faults>>

CallbackSeed(r) ==
  /\ req[r].at = "seed"
  /\ token' = [token EXCEPT ![req[r].conn] = req[r].tok]
  /\ Answer(r)
  /\ UNCHANGED <<status, late, consent, bank, faults>>

----------------------------------------------------------------------------
(* POST /api/open-banking/sync/{connection_id}                             *)
SyncBegin(r, p, c) ==
  /\ Begin(r, p, c, "consent")
  /\ UNCHANGED <<db, consent, bank, lock, faults>>

(* Bug: a consent row passes the gate even when it has been withdrawn.     *)
BugSyncReadConsent(r) ==
  /\ req[r].at = "consent"
  /\ IF consent # "none" THEN Goto(r, "lookup") /\ UNCHANGED lock ELSE Answer(r)
  /\ UNCHANGED <<db, consent, bank, faults>>

SyncReadConsent(r) ==
  /\ req[r].at = "consent"
  /\ IF consent = "active" THEN Goto(r, "lookup") /\ UNCHANGED lock ELSE Answer(r)
  /\ UNCHANGED <<db, consent, bank, faults>>

(* list_connections; the status of the row found is not looked at.         *)
SyncLookup(r) ==
  /\ req[r].at = "lookup"
  /\ IF status[req[r].conn] = "absent"
       THEN Answer(r)
       ELSE /\ req' = [req EXCEPT ![r].at = "lock", ![r].seen = status[req[r].conn]]
            /\ UNCHANGED lock
  /\ UNCHANGED <<db, consent, bank, faults>>

(* Bug: the lock is taken without waiting for its holder.                  *)
BugSyncLock(r) ==
  /\ req[r].at = "lock"
  /\ lock' = [lock EXCEPT ![<<req[r].proc, req[r].conn>>] = r]
  /\ Goto(r, "read")
  /\ UNCHANGED <<db, consent, bank, faults>>

SyncLock(r) ==
  LET k == <<req[r].proc, req[r].conn>> IN
  /\ req[r].at = "lock"
  /\ lock[k] = None
  /\ lock' = [lock EXCEPT ![k] = r]
  /\ Goto(r, "read")
  /\ UNCHANGED <<db, consent, bank, faults>>

SyncReadToken(r) ==
  LET stored == token[req[r].conn] IN
  /\ req[r].at = "read"
  /\ IF stored = 0
       THEN Answer(r)
       ELSE /\ req' = [req EXCEPT ![r].at = "refresh", ![r].tok = stored]
            /\ UNCHANGED lock
  /\ UNCHANGED <<db, consent, bank, faults>>

(* A read that fails, a missing configuration, a bank that cannot be       *)
(* reached or answers anything but 200 and invalid_grant: 502 or 503.      *)
SyncFails(r) ==
  /\ req[r].at \in {"consent", "lookup", "read", "refresh"}
  /\ Answer(r)
  /\ UNCHANGED <<db, consent, bank, faults>>

(* The bank honours the newest token of a grant that stands, and rotates.  *)
Honoured(r) == live[req[r].conn] /\ req[r].tok = newest[req[r].conn]

(* Bug: the lock covers the refresh but not the replacement.               *)
BugSyncRefreshUnlocks(r) ==
  LET next == newest[req[r].conn] + 1 IN
  /\ req[r].at = "refresh"
  /\ Honoured(r)
  /\ next \in Tokens
  /\ newest' = [newest EXCEPT ![req[r].conn] = next]
  /\ req' = [req EXCEPT ![r].at = "store", ![r].tok = next]
  /\ lock' = ReleasedBy({r})
  /\ UNCHANGED <<db, consent, live, faults>>

(* Bug: the token that was spent is stored instead of the one it bought.   *)
BugSyncRefreshKeepsToken(r) ==
  LET next == newest[req[r].conn] + 1 IN
  /\ req[r].at = "refresh"
  /\ Honoured(r)
  /\ next \in Tokens
  /\ newest' = [newest EXCEPT ![req[r].conn] = next]
  /\ Goto(r, "store")
  /\ UNCHANGED <<db, consent, live, lock, faults>>

SyncRefresh(r) ==
  LET next == newest[req[r].conn] + 1 IN
  /\ req[r].at = "refresh"
  /\ Honoured(r)
  /\ next \in Tokens
  /\ newest' = [newest EXCEPT ![req[r].conn] = next]
  /\ req' = [req EXCEPT ![r].at = "store", ![r].tok = next]
  /\ UNCHANGED <<db, consent, live, lock, faults>>

(* The bank rotates but its answer is lost (8 s timeout, broken body):     *)
(* refresh_tokens returns None.                                            *)
SyncRefreshUnanswered(r) ==
  LET next == newest[req[r].conn] + 1 IN
  /\ req[r].at = "refresh"
  /\ Honoured(r)
  /\ next \in Tokens
  /\ Fault("bank")
  /\ newest' = [newest EXCEPT ![req[r].conn] = next]
  /\ Answer(r)
  /\ UNCHANGED <<db, consent, live>>

(* 400 invalid_grant: the sync goes on to revoke the connection.           *)
SyncRefused(r) ==
  /\ req[r].at = "refresh"
  /\ ~Honoured(r)
  /\ Goto(r, "drop")
  /\ UNCHANGED <<db, consent, bank, lock, faults>>

SyncStore(r) ==
  /\ req[r].at = "store"
  /\ token' = [token EXCEPT ![req[r].conn] = req[r].tok]
  /\ Goto(r, "pull")
  /\ lock' = ReleasedBy({r})
  /\ UNCHANGED <<status, late, consent, bank, faults>>

SyncPull(r) ==
  /\ req[r].at = "pull"
  /\ Answer(r)
  /\ UNCHANGED <<db, consent, bank, faults>>

----------------------------------------------------------------------------
(* OpenBankingRepository.revoke, for DELETE .../connections/{id} (which    *)
(* takes no lock) and for a refused sync (which holds it).                 *)
RevokeBegin(r, p, c) ==
  /\ Begin(r, p, c, "drop")
  /\ UNCHANGED <<db, consent, bank, lock, faults>>

(* Bug: revoke ends once the token is gone.                                *)
BugDropToken(r) ==
  /\ req[r].at = "drop"
  /\ token' = [token EXCEPT ![req[r].conn] = 0]
  /\ Answer(r)
  /\ UNCHANGED <<status, late, consent, bank, faults>>

DropToken(r) ==
  /\ req[r].at = "drop"
  /\ token' = [token EXCEPT ![req[r].conn] = 0]
  /\ Goto(r, "close")
  /\ UNCHANGED <<status, late, consent, bank, lock, faults>>

(* Bugs: a status the table does not know; an upsert in place of a PATCH.  *)
BugClosedWord(s) == IF s = "absent" THEN "absent" ELSE "closed"
BugClosedUpsert(s) == "revoked"

Closed(s) == IF s = "absent" THEN "absent" ELSE "revoked"

CloseConnection(r) ==
  /\ req[r].at = "close"
  /\ status' = [status EXCEPT ![req[r].conn] = Closed(@)]
  /\ Answer(r)
  /\ UNCHANGED <<token, late, consent, bank, faults>>

----------------------------------------------------------------------------
(* A write without an answer raises SupabaseDataError: the request ends    *)
(* there, and the write is applied later or never.                         *)
WriteUnanswered(r) ==
  /\ req[r].at \in WritingSteps
  /\ Fault("db")
  /\ late' = late \cup {WriteOf(r)}
  /\ Answer(r)
  /\ UNCHANGED <<status, token, consent, bank>>

LateWrite(w) ==
  /\ late' = late \ {w}
  /\ CASE w.op = "store" -> /\ token' = [token EXCEPT ![w.conn] = w.tok]
                            /\ UNCHANGED status
       [] w.op = "drop"  -> /\ token' = [token EXCEPT ![w.conn] = 0]
                            /\ UNCHANGED status
       [] w.op = "close" -> /\ status' = [status EXCEPT ![w.conn] = Closed(@)]
                            /\ UNCHANGED token
  /\ UNCHANGED <<consent, bank, lock, req, faults>>

(* A process dies with its requests and its locks.                         *)
Crash(p) ==
  LET dead == {r \in Reqs : req[r].proc = p} IN
  /\ dead # {}
  /\ Fault("crash")
  /\ req' = [r \in Reqs |-> IF r \in dead THEN IdleReq ELSE req[r]]
  /\ lock' = ReleasedBy(dead)
  /\ late' = late \cup {WriteOf(r) : r \in {q \in dead : req[q].at \in WritingSteps}}
  /\ UNCHANGED <<status, token, consent, bank>>

(* The grant expires, or the household ends it at the bank.                *)
GrantEnds(c) ==
  /\ live[c]
  /\ live' = [live EXCEPT ![c] = FALSE]
  /\ UNCHANGED <<db, consent, newest, lock, req, faults>>

----------------------------------------------------------------------------
(* The steps a request takes once it has begun and nothing goes wrong.     *)
Step(r) ==
  \/ CallbackInsert(r) \/ CallbackRefused(r) \/ CallbackSeed(r)
  \/ SyncReadConsent(r) \/ SyncLookup(r) \/ SyncLock(r) \/ SyncReadToken(r)
  \/ SyncRefresh(r) \/ SyncRefused(r) \/ SyncFails(r) \/ SyncStore(r) \/ SyncPull(r)
  \/ DropToken(r) \/ CloseConnection(r)

Arrive(r) == \E p \in Procs, c \in Conns :
  CallbackExchange(r, p, c) \/ SyncBegin(r, p, c) \/ RevokeBegin(r, p, c)

GoWrong(r) == CallbackInsertUnanswered(r) \/ SyncRefreshUnanswered(r) \/ WriteUnanswered(r)

Next ==
  \/ \E r \in Reqs : Step(r) \/ Arrive(r) \/ GoWrong(r)
  \/ \E w \in late : LateWrite(w)
  \/ \E p \in Procs : Crash(p)
  \/ \E c \in Conns : GrantEnds(c)
  \/ AcceptConsent
  \/ WithdrawConsent

Spec == Init /\ [][Next]_vars

(* Every call has a timeout, and asyncio.Lock wakes its waiters first in,  *)
(* first out.                                                              *)
Fairness == \A r \in Reqs : WF_vars(Step(r)) /\ SF_vars(SyncLock(r))
FairSpec == Spec /\ Fairness

----------------------------------------------------------------------------
TypeOK ==
  /\ status \in [Conns -> Statuses]
  /\ token \in [Conns -> Tokens]
  /\ consent \in {"none", "active", "withdrawn"}
  /\ newest \in [Conns -> Tokens]
  /\ live \in [Conns -> BOOLEAN]
  /\ lock \in [Procs \X Conns -> Reqs \cup {None}]
  /\ req \in [Reqs -> Requests]
  /\ late \subseteq Writes
  /\ faults \in Nat

Busy(c) == {r \in Reqs : req[r].conn = c}
HoldsLock(r) == \E k \in Procs \X Conns : lock[k] = r   \* r is a sync
OneProcess == \A p, q \in Procs : p = q

(* The lock of sync (open_banking_routes.py:197-202): one process never    *)
(* has two syncs of one connection between reading its token and storing   *)
(* the rotated one, whatever exits the others took.                        *)
OneRefreshPerProcess ==
  \A r, q \in Reqs :
    /\ {req[r].at, req[q].at} \subseteq {"read", "refresh", "store"}
    /\ req[r].conn = req[q].conn
    /\ req[r].proc = req[q].proc
    => r = q

(* What that lock is for: as long as no call has gone unanswered and no    *)
(* process has died, a single process is refused by the bank only when the *)
(* household's grant has really ended; a sync never spends a token another *)
(* one has already spent and so revokes a connection that works.           *)
RefusedOnlyWhenGrantEnded ==
  OneProcess /\ faults = 0 =>
    \A r \in Reqs : req[r].at = "drop" /\ HoldsLock(r) => ~live[req[r].conn]

(* No interleaving of requests alone strands a connection: an active one   *)
(* has its token, unless the request that is about to give it one or to    *)
(* close it is still under way (create_connection, revoke).                *)
ActiveHasToken ==
  faults = 0 => \A c \in Conns : status[c] = "active" /\ token[c] = 0
                  => \E r \in Busy(c) : req[r].at \in {"seed", "close"}

(* No process, crash or late write ever stores a token the bank has        *)
(* already replaced: whatever is on its way to open_banking_tokens is the  *)
(* newest token of its grant.                                              *)
OnlyNewestIsStored ==
  /\ \A r \in Reqs : req[r].at \in {"insert", "seed", "store"}
                       => req[r].tok = newest[req[r].conn]
  /\ \A w \in late : w.op = "store" => w.tok = newest[w.conn]

(* The consent gate of sync (open_banking_routes.py:173-180): the bank is  *)
(* called only if consent was in force at some moment of that sync.        *)
SyncedUnderConsent ==
  \A r \in Reqs : req[r].at \in {"refresh", "store", "pull"} => req[r].agreed

Held(c) ==
  \/ \E r \in Busy(c) : req[r].at \in {"insert", "seed", "refresh", "store"}
                          /\ req[r].tok = newest[c]
  \/ \E w \in late : w.op = "store" /\ w.conn = c /\ w.tok = newest[c]

Where == [c \in Conns |-> IF newest[c] = 0 THEN "nowhere"
                           ELSE IF token[c] = newest[c] THEN "stored"
                           ELSE IF Held(c) THEN "held" ELSE "lost"]

Custody == INSTANCE TokenCustody WITH where <- Where

(* The routes keep the promise of TokenCustody.                            *)
CustodyKept == Custody!Spec

(* Every request is answered: nobody waits for a lock that is not released.*)
EveryRequestAnswered ==
  \A r \in Reqs : req[r].at # "idle" ~> req[r].at = "idle"

----------------------------------------------------------------------------
(* open_banking_routes.py:215-217: after a refresh without an answer "the  *)
(* connection stays active so the next sync can simply retry". This does   *)
(* not hold: the bank may have spent the token before the answer was lost. *)
TransientFailureIsRetryable ==
  OneProcess =>
    \A r \in Reqs : req[r].at = "drop" /\ HoldsLock(r) => ~live[req[r].conn]

(* open_banking_routes.py:209-211: a refused sync revokes "immediately     *)
(* rather than leaving a connection that looks active but can never sync   *)
(* again".  Here: once it has deleted the token it does not end without    *)
(* the connection being revoked. This does not hold: the second write may  *)
(* fail after the first.                                                   *)
RefusedSyncRevokes ==
  [][\A r \in Reqs :
       req[r].at = "close" /\ HoldsLock(r) /\ req'[r].at = "idle"
       => status'[req[r].conn] = "revoked"]_vars

(* docs/superpowers/specs/2026-10-07-open-banking-integration-design.md:   *)
(* 107-108: "revoking the connection stops future syncs".                  *)
RevokedNeverSyncs ==
  \A r \in Reqs : req[r].at \in {"store", "pull"} => req[r].seen = "active"
=============================================================================
