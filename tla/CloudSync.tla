----------------------------- MODULE CloudSync -----------------------------
(***************************************************************************)
(* The optional cloud copy of a household: one page of the browser         *)
(* (fe/src/app.ts, cloud-sync.ts, consent-sync.ts, consent.ts), the        *)
(* snapshot and consent routes (server/app.py) and the two rows they keep. *)
(*                                                                         *)
(* The page never waits for one call before it starts another, a call may  *)
(* overtake another on its way, and a call the page has given up (after    *)
(* ten seconds, or because it was reloaded) is still served.               *)
(***************************************************************************)
CONSTANTS
  Calls,      \* call slots: at most this many calls are under way
  Contents,   \* what a household's state can be
  Empty,      \* the state of a new device
  NoRows,     \* contents without a transaction; they may have goals, budgets
  WithNulls,  \* contents with a row without balance or a goal without date
  NoCopy,     \* no snapshot
  Faulty      \* whether calls may be refused and database answers lost

ASSUME ContentsAssumption ==
  /\ Empty \in NoRows /\ NoRows \subseteq Contents
  /\ WithNulls \subseteq Contents
  /\ NoCopy \notin Contents
  /\ Faulty \in BOOLEAN

VARIABLES
  local,    \* S, as saved in localStorage
  agreed,   \* the consent record in localStorage
  session,  \* the session cookie is there and valid
  signedIn, \* what the page knows of it
  booting,  \* the page has been loaded and does not know of the session yet
  shown,    \* the cloud-sync section was visible when it was last rendered
  copy,     \* cloudReconciliationPayload
  conflict, \* cloudReconciliationOutcome = 'conflict'
  row,      \* app_snapshots
  consent,  \* consent_acceptances, purpose cloud_sync
  call      \* the calls under way

household == <<local, agreed>>
page   == <<signedIn, booting, shown, copy, conflict>>
server == <<row, consent>>
vars   == <<household, session, page, server, call>>

----------------------------------------------------------------------------
Copies == Contents \cup {NoCopy}
Ops    == {"push", "delete", "restore", "check", "accept", "withdraw"}
Stages == {"sent", "passed", "ok", "failed"}

(* `body` is what a push carries and what a read answers; `auth` is whether*)
(* the session cookie went with it; `waits` is whether the page still      *)
(* waits, which it never does for a consent call; `gated` records (for a   *)
(* property only) whether consent was in force on the server at some       *)
(* moment of a push.                                                       *)
Call == [op : Ops, at : Stages, body : Copies, auth : BOOLEAN, waits : BOOLEAN,
         gated : BOOLEAN]
Free == [op |-> "none"]
Busy == {k \in Calls : call[k] # Free}

Active == signedIn /\ agreed

Send(k, op, body) ==
  /\ call[k] = Free
  /\ call' = [call EXCEPT ![k] =
       [op |-> op, at |-> "sent", body |-> body, auth |-> session,
        waits |-> op \notin {"accept", "withdraw"},
        gated |-> op = "push" /\ consent = "active"]]

Init ==
  /\ local = Empty
  /\ agreed = FALSE
  /\ session \in BOOLEAN
  /\ signedIn = FALSE /\ booting = TRUE
  /\ shown = FALSE
  /\ copy = NoCopy /\ conflict = FALSE
  /\ row = NoCopy
  /\ consent = "none"
  /\ call = [k \in Calls |-> Free]

----------------------------------------------------------------------------
(* The household, outside the cloud section: edits, consent, the drawer.   *)
Edit(c) ==
  /\ local' = c
  /\ c # local
  /\ UNCHANGED <<agreed, session, page, server, call>>

(* WriteThroughConsentRepository: the local record first, then, only when  *)
(* signed in, a remote call nobody waits for.  The card is rendered again, *)
(* the cloud section is not.                                               *)
Accept(k) ==
  /\ ~agreed
  /\ agreed' = TRUE
  /\ IF signedIn THEN Send(k, "accept", NoCopy) ELSE UNCHANGED call
  /\ UNCHANGED <<local, session, page, server>>

Withdraw(k) ==
  /\ agreed
  /\ agreed' = FALSE
  /\ IF signedIn THEN Send(k, "withdraw", NoCopy) ELSE UNCHANGED call
  /\ UNCHANGED <<local, session, page, server>>

OpenDrawer ==
  /\ shown' = Active
  /\ UNCHANGED <<household, session, signedIn, booting, copy, conflict,
                 server, call>>

----------------------------------------------------------------------------
(* The buttons of the cloud section; delete and restore are armed first.   *)
Push(k) ==
  /\ shown
  /\ Send(k, "push", local)
  /\ UNCHANGED <<household, session, signedIn, booting, shown, copy, conflict,
                 server>>

Delete(k) ==
  /\ shown
  /\ Send(k, "delete", NoCopy)
  /\ UNCHANGED <<household, session, page, server>>

Restore(k) ==
  /\ shown
  /\ Send(k, "restore", NoCopy)
  /\ UNCHANGED <<household, session, page, server>>

UseCloud ==
  /\ shown /\ conflict
  /\ copy # NoCopy
  /\ local' = copy
  /\ conflict' = FALSE
  /\ shown' = Active
  /\ UNCHANGED <<agreed, session, signedIn, booting, copy, server,
                 call>>

SignOut ==
  /\ signedIn
  /\ session' = FALSE
  /\ signedIn' = FALSE
  /\ UNCHANGED <<household, booting, shown, copy, conflict, server,
                 call>>

SessionEnds ==
  /\ session
  /\ session' = FALSE
  /\ UNCHANGED <<household, page, server, call>>

(* The page is loaded again, perhaps by the redirect that ends a sign-in:  *)
(* what was in memory is gone, the calls under way are no longer awaited.  *)
Boot(s) ==
  /\ session' = s
  /\ signedIn' = FALSE /\ booting' = TRUE
  /\ shown' = FALSE
  /\ copy' = NoCopy /\ conflict' = FALSE
  /\ call' = [k \in Calls |-> IF call[k] = Free THEN Free
                              ELSE [call[k] EXCEPT !.waits = FALSE]]
  /\ UNCHANGED <<household, server>>

(* loadSignInState, then checkCloudReconciliation.                         *)
Booted(k, known) ==
  /\ booting
  /\ known => session
  /\ booting' = FALSE
  /\ signedIn' = known
  /\ IF known /\ agreed THEN Send(k, "check", NoCopy) ELSE UNCHANGED call
  /\ UNCHANGED <<household, session, shown, copy, conflict, server>>

----------------------------------------------------------------------------
(* The routes.  An answer without effect: 401, 403, 413, 429, 502.         *)
At(k, op, stage) ==
  call[k] # Free /\ call[k].op = op /\ call[k].at = stage
Reply(k, result) == call' = [call EXCEPT ![k].at = result]

(* A write whose answer from the database is lost is reported as failed.   *)
Reports == IF Faulty THEN {"ok", "failed"} ELSE {"ok"}

Unauthorised(k) ==
  /\ call[k] # Free
  /\ call[k].at = "sent" /\ ~call[k].auth
  /\ Reply(k, "failed")
  /\ UNCHANGED <<household, session, page, server>>

Refuse(k) ==
  /\ call[k] # Free
  /\ call[k].at \in {"sent", "passed"} /\ call[k].auth
  /\ Faulty
  /\ Reply(k, "failed")
  /\ UNCHANGED <<household, session, page, server>>

(* Bug: a consent row passes the gate even when it has been withdrawn.     *)
BugPutGate(k) ==
  /\ At(k, "push", "sent") /\ call[k].auth
  /\ Reply(k, IF consent # "none" THEN "passed" ELSE "failed")
  /\ UNCHANGED <<household, session, page, server>>

PutGate(k) ==
  /\ At(k, "push", "sent") /\ call[k].auth
  /\ Reply(k, IF consent = "active" THEN "passed" ELSE "failed")
  /\ UNCHANGED <<household, session, page, server>>

PutSave(k) ==
  /\ At(k, "push", "passed")
  /\ row' = call[k].body
  /\ \E report \in Reports : Reply(k, report)
  /\ UNCHANGED <<household, session, page, consent>>

DeleteRow(k) ==
  /\ At(k, "delete", "sent") /\ call[k].auth
  /\ row' = NoCopy
  /\ \E report \in Reports : Reply(k, report)
  /\ UNCHANGED <<household, session, page, consent>>

ReadRow(k) ==
  /\ At(k, "restore", "sent") \/ At(k, "check", "sent")
  /\ call[k].auth
  /\ call' = [call EXCEPT ![k].at = "ok", ![k].body = row]
  /\ UNCHANGED <<household, session, page, server>>

(* The grants of the table are taken to allow the write, as the migration  *)
(* of 2026-08-26 means them to.                                            *)
RecordAcceptance(k) ==
  /\ At(k, "accept", "sent") /\ call[k].auth
  /\ consent' = "active"
  /\ \E report \in Reports : call' = [j \in Calls |->
       CASE call[j] = Free -> Free
         [] j = k -> [call[j] EXCEPT !.at = report]
         [] OTHER -> [call[j] EXCEPT !.gated = call[j].op = "push"]]
  /\ UNCHANGED <<household, session, page, row>>

(* Bug: a word the table does not have.                                    *)
BugWithdrawalWord(k) ==
  /\ At(k, "withdraw", "sent") /\ call[k].auth
  /\ consent' = "declined"
  /\ Reply(k, "ok")
  /\ UNCHANGED <<household, session, page, row>>

(* Nothing is recorded when there is no row to withdraw.                   *)
RecordWithdrawal(k) ==
  /\ At(k, "withdraw", "sent") /\ call[k].auth
  /\ consent' = IF consent = "none" THEN "none" ELSE "withdrawn"
  /\ \E report \in Reports : Reply(k, report)
  /\ UNCHANGED <<household, session, page, row>>

----------------------------------------------------------------------------
(* The answers, back in the page.  The server stores a payload without its *)
(* nulls, and the page refuses a payload in which `bal` or `due` is        *)
(* missing: such a copy can be written and never be read.                  *)
Readable(c) == c \notin WithNulls

(* reconcileCloudSnapshot compares JSON texts; the column is jsonb, which  *)
(* keeps keys in an order of its own, so a copy reads back as another text.*)
Text(c, order) == <<c, order>>

(* Bug: whatever differs, the cloud's copy wins.                           *)
BugOutcome(mine, cloud) == IF cloud = NoCopy THEN "none" ELSE "adopt-cloud"

Outcome(mine, cloud) ==
  CASE cloud = NoCopy -> "none"
    [] cloud # NoCopy /\ mine \in NoRows -> "adopt-cloud"
    [] OTHER -> IF Text(mine, "written") = Text(cloud, "jsonb") THEN "none" ELSE "conflict"

Answered(k, op) == At(k, op, "ok") /\ call[k].waits
Done(k) == call' = [call EXCEPT ![k] = Free]

PushDone(k) ==
  /\ Answered(k, "push")
  /\ IF Readable(call[k].body)
       THEN conflict' = FALSE /\ shown' = Active
       ELSE UNCHANGED <<conflict, shown>>
  /\ Done(k)
  /\ UNCHANGED <<household, session, signedIn, booting, copy, server>>

DeleteDone(k) ==
  /\ Answered(k, "delete")
  /\ conflict' = FALSE /\ shown' = Active
  /\ Done(k)
  /\ UNCHANGED <<household, session, signedIn, booting, copy, server>>

RestoreDone(k) ==
  LET cloud == call[k].body IN
  /\ Answered(k, "restore")
  /\ IF cloud # NoCopy /\ Readable(cloud)
       THEN local' = cloud /\ conflict' = FALSE /\ shown' = Active
       ELSE UNCHANGED <<local, conflict, shown>>
  /\ Done(k)
  /\ UNCHANGED <<agreed, session, signedIn, booting, copy, server>>

CheckDone(k) ==
  LET cloud == call[k].body IN
  /\ Answered(k, "check")
  /\ shown' = Active
  /\ IF Readable(cloud)
       THEN /\ copy' = cloud
            /\ local' = IF Outcome(local, cloud) = "adopt-cloud" THEN cloud ELSE local
            /\ conflict' = (Outcome(local, cloud) = "conflict")
       ELSE UNCHANGED <<copy, local, conflict>>
  /\ Done(k)
  /\ UNCHANGED <<agreed, session, signedIn, booting, server>>

(* The page is told, or gives up after its timeout, or was left: a toast   *)
(* at most; a check renders the section whatever came of it.               *)
Failed(k) ==
  /\ call[k] # Free
  /\ call[k].at = "failed" /\ call[k].waits
  /\ shown' = IF call[k].op = "check" THEN Active ELSE shown
  /\ Done(k)
  /\ UNCHANGED <<household, session, signedIn, booting, copy, conflict,
                 server>>

GiveUp(k) ==
  /\ call[k] # Free
  /\ call[k].waits
  /\ shown' = IF call[k].op = "check" THEN Active ELSE shown
  /\ call' = [call EXCEPT ![k].waits = FALSE]
  /\ UNCHANGED <<household, session, signedIn, booting, copy, conflict,
                 server>>

Unheard(k) ==
  /\ call[k] # Free
  /\ call[k].at \in {"ok", "failed"} /\ ~call[k].waits
  /\ Done(k)
  /\ UNCHANGED <<household, session, page, server>>

----------------------------------------------------------------------------
User(k) ==
  \/ Accept(k) \/ Withdraw(k) \/ Push(k) \/ Delete(k) \/ Restore(k)
  \/ \E known \in BOOLEAN : Booted(k, known)

Serve(k) ==
  \/ Unauthorised(k) \/ PutGate(k) \/ PutSave(k) \/ DeleteRow(k) \/ ReadRow(k)
  \/ RecordAcceptance(k) \/ RecordWithdrawal(k)

Hear(k) ==
  \/ PushDone(k) \/ DeleteDone(k) \/ RestoreDone(k) \/ CheckDone(k)
  \/ Failed(k) \/ Unheard(k)

Next ==
  \/ \E k \in Calls : User(k) \/ Serve(k) \/ Hear(k) \/ Refuse(k) \/ GiveUp(k)
  \/ \E c \in Contents : Edit(c)
  \/ \E s \in BOOLEAN : Boot(s)
  \/ OpenDrawer \/ UseCloud \/ SignOut \/ SessionEnds

Spec == Init /\ [][Next]_vars

----------------------------------------------------------------------------
TypeOK ==
  /\ {local} \subseteq Contents /\ {copy, row} \subseteq Copies
  /\ {agreed, session, signedIn, booting, shown, conflict} \subseteq BOOLEAN
  /\ consent \in {"none", "active", "withdrawn"}
  /\ call \in [Calls -> Call \cup {Free}]

(* The gate of PUT /api/snapshots (app.py:292-294) across its two database *)
(* calls: no snapshot is stored by a call during which consent was never   *)
(* in force on the server, however calls overtake each other.              *)
StoredUnderConsent ==
  \A k \in Busy : call[k].op = "push" /\ call[k].at \in {"passed", "ok"} => call[k].gated

(* checkCloudReconciliation (app.ts:1938-1952): rows that are there when   *)
(* the cloud's answer arrives, even if they were entered while it was on   *)
(* its way, are not replaced by it.                                        *)
CheckKeepsRows ==
  [][\A k \in Calls : At(k, "check", "ok") /\ call'[k] = Free /\ local \notin NoRows
       => local' = local]_vars

(* resources/en.json:166: "The cloud backup was deleted".                  *)
DeletedIsDeleted == [][\A k \in Calls : DeleteDone(k) => row = NoCopy]_vars

(* resources/en.json:130: the copy is stored "for backup and recovery".    *)
(* This does not hold: a row whose balance is null is stored without it.   *)
CopyCanBeRecovered == row # NoCopy => Readable(row)

(* app.ts:1933-1935: "neither this device nor the cloud is silently        *)
(* overwritten without the household saying which copy to keep"; only an   *)
(* "empty device has nothing to lose" (cloud-sync-reconciliation.ts:5).    *)
(* This does not hold: a device without transactions counts as empty,      *)
(* whatever goals, budgets and rules it has.                               *)
DeviceKeptUnlessNew ==
  [][\A k \in Calls : At(k, "check", "ok") /\ call'[k] = Free /\ local # Empty
       => local' = local]_vars
=============================================================================
