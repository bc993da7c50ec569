--------------------------- MODULE CloudSyncProofs ---------------------------
(***************************************************************************)
(* The safety properties of CloudSync for any number of calls under way    *)
(* and any household contents, proved with TLAPS.                          *)
(***************************************************************************)
EXTENDS CloudSync, TLAPS

(* What a push at the gate has seen: if consent is in force now, it was in *)
(* force at a moment of this call.  Without it PutGate could not be shown  *)
(* to establish StoredUnderConsent.                                        *)
SeesConsent ==
  \A k \in Busy : call[k].op = "push" /\ call[k].at = "sent" /\ consent = "active"
    => call[k].gated

IInv == TypeOK /\ SeesConsent /\ StoredUnderConsent

----------------------------------------------------------------------------
(* A call under way has the fields of Call, and it is not a free slot.     *)
LEMMA CallTyped ==
  ASSUME TypeOK, NEW k \in Calls, call[k] # Free
  PROVE  call[k] \in Call
BY DEF TypeOK

(* A new call is typed, and it is gated if it is a push under consent.     *)
LEMMA SendKeeps ==
  ASSUME IInv, NEW k \in Calls, NEW op \in Ops, NEW body \in Copies,
         Send(k, op, body), consent' = consent
  PROVE  /\ call' \in [Calls -> Call \cup {Free}]
         /\ SeesConsent' /\ StoredUnderConsent'
<1> DEFINE new == [op |-> op, at |-> "sent", body |-> body, auth |-> session,
                   waits |-> op \notin {"accept", "withdraw"},
                   gated |-> op = "push" /\ consent = "active"]
<1>1. new \in Call
  BY DEF IInv, TypeOK, Call, Stages
<1>2. call' = [call EXCEPT ![k] = new]
  BY DEF Send
<1>3. call' \in [Calls -> Call \cup {Free}]
  BY <1>1, <1>2 DEF IInv, TypeOK
<1> HIDE DEF new
<1>4. new.at = "sent" /\ new.op = op /\ new.gated = (op = "push" /\ consent = "active")
  BY DEF new
<1>5. SeesConsent'
  BY <1>2, <1>4 DEF IInv, TypeOK, SeesConsent, Busy
<1>6. StoredUnderConsent'
  BY <1>2, <1>4 DEF IInv, TypeOK, StoredUnderConsent, Busy
<1> QED BY <1>3, <1>5, <1>6

(* A call that goes on: an answer, a read's body, a page that waits no     *)
(* longer.                                                                 *)
LEMMA StageKeeps ==
  ASSUME IInv, NEW k \in Calls, call[k] # Free, NEW new \in Call,
         call' = [call EXCEPT ![k] = new],
         new.op = call[k].op, new.gated = call[k].gated,
         new.at = call[k].at \/ new.at = "failed"
           \/ (new.at \in {"passed", "ok"} /\ (new.op = "push" => new.gated)),
         consent' = consent \/ consent' # "active"
  PROVE  /\ call' \in [Calls -> Call \cup {Free}]
         /\ SeesConsent' /\ StoredUnderConsent'
<1>1. call' \in [Calls -> Call \cup {Free}]
  BY DEF IInv, TypeOK
<1>2. SeesConsent'
  BY DEF IInv, TypeOK, SeesConsent, Busy
<1>3. StoredUnderConsent'
  BY DEF IInv, TypeOK, StoredUnderConsent, Busy
<1> QED BY <1>1, <1>2, <1>3

LEMMA ReplyKeeps ==
  ASSUME IInv, NEW k \in Calls, call[k] # Free, NEW result \in {"passed", "ok", "failed"},
         Reply(k, result), consent' = consent \/ consent' # "active",
         call[k].op = "push" /\ result # "failed" => call[k].gated
  PROVE  /\ call' \in [Calls -> Call \cup {Free}]
         /\ SeesConsent' /\ StoredUnderConsent'
<1> DEFINE new == [call[k] EXCEPT !.at = result]
<1>1. call[k] \in Call
  BY CallTyped DEF IInv
<1>2. new \in Call
  BY <1>1 DEF Call, Stages
<1>3. new.at = result /\ new.op = call[k].op /\ new.gated = call[k].gated
  BY <1>1 DEF Call
<1>4. call' = [call EXCEPT ![k] = new]
  BY DEF Reply
<1> HIDE DEF new
<1> QED BY <1>2, <1>3, <1>4, StageKeeps

(* A call that ends leaves the others as they are.                         *)
LEMMA DoneKeeps ==
  ASSUME IInv, NEW k \in Calls, Done(k), consent' = consent
  PROVE  /\ call' \in [Calls -> Call \cup {Free}]
         /\ SeesConsent' /\ StoredUnderConsent'
<1>1. call' = [call EXCEPT ![k] = Free]
  BY DEF Done
<1> QED BY <1>1 DEF IInv, TypeOK, SeesConsent, StoredUnderConsent, Busy

(* So does a step that changes neither a call nor the consent row.         *)
LEMMA SameCallsKeep ==
  ASSUME IInv, call' = call, consent' = consent
  PROVE  /\ call' \in [Calls -> Call \cup {Free}]
         /\ SeesConsent' /\ StoredUnderConsent'
BY DEF IInv, TypeOK, SeesConsent, StoredUnderConsent, Busy

----------------------------------------------------------------------------
LEMMA InvInit == Init => IInv
BY ContentsAssumption
   DEF Init, IInv, TypeOK, SeesConsent, StoredUnderConsent, Busy, Copies

(* The household's steps.  Those that start no call change no call.        *)
LEMMA UserStep ==
  ASSUME IInv, NEW k \in Calls, User(k)
  PROVE  IInv'
<1>1. NoCopy \in Copies /\ local \in Copies
  BY DEF IInv, TypeOK, Copies
<1>2. CASE Accept(k)
  <2>1. Send(k, "accept", NoCopy) \/ call' = call
    BY <1>2 DEF Accept
  <2> QED BY <1>1, <1>2, <2>1, SendKeeps, SameCallsKeep
      DEF Accept, IInv, TypeOK, page, server, Ops
<1>3. CASE Withdraw(k)
  <2>1. Send(k, "withdraw", NoCopy) \/ call' = call
    BY <1>3 DEF Withdraw
  <2> QED BY <1>1, <1>3, <2>1, SendKeeps, SameCallsKeep
      DEF Withdraw, IInv, TypeOK, page, server, Ops
<1>4. CASE Push(k)
  BY <1>1, <1>4, SendKeeps DEF Push, IInv, TypeOK, household, server, Ops
<1>5. CASE Delete(k)
  BY <1>1, <1>5, SendKeeps DEF Delete, IInv, TypeOK, household, page, server, Ops
<1>6. CASE Restore(k)
  BY <1>1, <1>6, SendKeeps DEF Restore, IInv, TypeOK, household, page, server, Ops
<1>7. ASSUME NEW known \in BOOLEAN, Booted(k, known) PROVE IInv'
  <2>1. Send(k, "check", NoCopy) \/ call' = call
    BY <1>7 DEF Booted
  <2> QED BY <1>1, <1>7, <2>1, SendKeeps, SameCallsKeep
      DEF Booted, IInv, TypeOK, household, server, Ops
<1> QED BY <1>2, <1>3, <1>4, <1>5, <1>6, <1>7 DEF User

(* The server's steps: the gate looks at consent, and the two steps that   *)
(* write it keep what the pushes at the gate have seen true.               *)
LEMMA ServeStep ==
  ASSUME IInv, NEW k \in Calls, Serve(k) \/ Refuse(k)
  PROVE  IInv'
<1>1. Reports \subseteq {"ok", "failed"}
  BY DEF Reports
<1>2. CASE Unauthorised(k)
  BY <1>2, ReplyKeeps DEF Unauthorised, IInv, TypeOK, household, page, server
<1>3. CASE PutGate(k)
  <2>1. consent = "active" => call[k].gated
    BY <1>3 DEF PutGate, At, IInv, SeesConsent, Busy
  <2> QED BY <1>3, <2>1, ReplyKeeps
      DEF PutGate, At, IInv, TypeOK, household, page, server
<1>4. CASE PutSave(k)
  <2>1. call[k].gated /\ call[k] \in Call
    BY <1>4, CallTyped DEF PutSave, At, IInv, StoredUnderConsent, Busy
  <2>2. call[k].body \in Copies
    BY <2>1 DEF Call
  <2> QED BY <1>1, <1>4, <2>1, <2>2, ReplyKeeps
      DEF PutSave, At, IInv, TypeOK, household, page
<1>5. CASE DeleteRow(k)
  BY <1>1, <1>5, ReplyKeeps DEF DeleteRow, At, IInv, TypeOK, Copies, household, page
<1>6. CASE ReadRow(k)
  <2> DEFINE new == [call[k] EXCEPT !.at = "ok", !.body = row]
  <2>1. call[k] \in Call /\ call[k] # Free
    BY <1>6, CallTyped DEF ReadRow, At, IInv
  <2>2. row \in Copies
    BY DEF IInv, TypeOK
  <2>3. new \in Call
    BY <2>1, <2>2 DEF Call, Stages
  <2>4. new.at = "ok" /\ new.op = call[k].op /\ new.gated = call[k].gated
    BY <2>1 DEF Call
  <2>5. call' = [call EXCEPT ![k] = new] /\ call[k].op # "push"
    BY <1>6 DEF ReadRow, At
  <2> HIDE DEF new
  <2>6. call' \in [Calls -> Call \cup {Free}] /\ SeesConsent' /\ StoredUnderConsent'
    BY <1>6, <2>1, <2>3, <2>4, <2>5, StageKeeps DEF ReadRow, server
  <2> QED BY <1>6, <2>6 DEF ReadRow, IInv, TypeOK, household, page, server
<1>7. CASE RecordAcceptance(k)
  <2>1. PICK report \in Reports : call' = [j \in Calls |->
          CASE call[j] = Free -> Free
            [] j = k -> [call[j] EXCEPT !.at = report]
            [] OTHER -> [call[j] EXCEPT !.gated = call[j].op = "push"]]
    BY <1>7 DEF RecordAcceptance
  <2>2. call[k].op = "accept" /\ call[k] # Free
    BY <1>7 DEF RecordAcceptance, At
  <2>3. ASSUME NEW j \in Calls
        PROVE  /\ call'[j] \in Call \cup {Free}
               /\ call'[j] # Free /\ call'[j].op = "push" => call'[j].gated
    <3>1. CASE call[j] = Free
      <4>1. call'[j] = Free
        BY <2>1, <2>2, <3>1
      <4> QED BY <4>1
    <3>2. CASE call[j] # Free /\ j = k
      <4>1. call[j] \in Call
        BY <3>2, CallTyped DEF IInv
      <4>2. call'[j] = [call[j] EXCEPT !.at = report]
        BY <2>1, <3>2
      <4>3. call'[j] \in Call /\ call'[j].op = "accept"
        BY <1>1, <2>2, <3>2, <4>1, <4>2 DEF Call, Stages
      <4> QED BY <4>3
    <3>3. CASE call[j] # Free /\ j # k
      <4>1. call[j] \in Call
        BY <3>3, CallTyped DEF IInv
      <4>2. call'[j] = [call[j] EXCEPT !.gated = (call[j].op = "push")]
        BY <2>1, <3>3
      <4>3. call'[j] \in Call /\ call'[j].op = call[j].op
            /\ call'[j].gated = (call[j].op = "push")
        BY <4>1, <4>2 DEF Call
      <4> QED BY <4>3
    <3> QED BY <3>1, <3>2, <3>3
  <2>4. call' \in [Calls -> Call \cup {Free}]
    BY <2>1, <2>3
  <2>5. SeesConsent' /\ StoredUnderConsent'
    BY <2>3 DEF SeesConsent, StoredUnderConsent, Busy
  <2> QED BY <1>7, <2>4, <2>5 DEF RecordAcceptance, IInv, TypeOK, household, page
<1>8. CASE RecordWithdrawal(k)
  <2>1. consent' \in {"none", "withdrawn"} /\ call[k] # Free /\ call[k].op # "push"
    BY <1>8 DEF RecordWithdrawal, At
  <2> QED BY <1>1, <1>8, <2>1, ReplyKeeps
      DEF RecordWithdrawal, IInv, TypeOK, household, page
<1>9. CASE Refuse(k)
  BY <1>9, ReplyKeeps DEF Refuse, IInv, TypeOK, household, page, server
<1> QED BY <1>2, <1>3, <1>4, <1>5, <1>6, <1>7, <1>8, <1>9 DEF Serve

(* What the page hears changes the page and ends the call.                 *)
LEMMA HearStep ==
  ASSUME IInv, NEW k \in Calls, Hear(k)
  PROVE  IInv'
<1>1. Active \in BOOLEAN
  BY DEF Active, IInv, TypeOK
<1>2. CASE PushDone(k)
  BY <1>1, <1>2, DoneKeeps DEF PushDone, IInv, TypeOK, household, server
<1>3. CASE DeleteDone(k)
  BY <1>1, <1>3, DoneKeeps DEF DeleteDone, IInv, TypeOK, household, server
<1>4. CASE RestoreDone(k)
  <2>1. call[k].body \in Copies
    BY <1>4, CallTyped DEF RestoreDone, Answered, At, IInv, Call
  <2> QED BY <1>1, <1>4, <2>1, DoneKeeps DEF RestoreDone, IInv, TypeOK, Copies, server
<1>5. CASE CheckDone(k)
  <2>1. call[k].body \in Copies
    BY <1>5, CallTyped DEF CheckDone, Answered, At, IInv, Call
  <2>2. Outcome(local, call[k].body) = "adopt-cloud" => call[k].body # NoCopy
    BY DEF Outcome
  <2> QED BY <1>1, <1>5, <2>1, <2>2, DoneKeeps DEF CheckDone, IInv, TypeOK, Copies, server
<1>6. CASE Failed(k)
  BY <1>1, <1>6, DoneKeeps DEF Failed, IInv, TypeOK, household, server
<1>7. CASE Unheard(k)
  BY <1>7, DoneKeeps DEF Unheard, IInv, TypeOK, household, page, server
<1> QED BY <1>2, <1>3, <1>4, <1>5, <1>6, <1>7 DEF Hear

LEMMA GiveUpStep ==
  ASSUME IInv, NEW k \in Calls, GiveUp(k)
  PROVE  IInv'
<1> DEFINE new == [call[k] EXCEPT !.waits = FALSE]
<1>1. call[k] \in Call /\ call[k] # Free /\ Active \in BOOLEAN
  BY CallTyped DEF GiveUp, IInv, Active, TypeOK
<1>2. new \in Call /\ new.at = call[k].at /\ new.op = call[k].op
      /\ new.gated = call[k].gated
  BY <1>1 DEF Call
<1>3. call' = [call EXCEPT ![k] = new] /\ consent' = consent
  BY DEF GiveUp, server
<1> HIDE DEF new
<1>4. call' \in [Calls -> Call \cup {Free}] /\ SeesConsent' /\ StoredUnderConsent'
  BY <1>1, <1>2, <1>3, StageKeeps
<1> QED BY <1>1, <1>4 DEF GiveUp, IInv, TypeOK, household, server

(* A reload gives up every call at once.                                   *)
LEMMA BootStep ==
  ASSUME IInv, NEW s \in BOOLEAN, Boot(s)
  PROVE  IInv'
<1>1. ASSUME NEW j \in Calls
      PROVE  /\ call'[j] \in Call \cup {Free}
             /\ call'[j] # Free => /\ call[j] # Free /\ call'[j].op = call[j].op
                                  /\ call'[j].at = call[j].at
                                  /\ call'[j].gated = call[j].gated
  <2>1. CASE call[j] = Free
    BY <2>1 DEF Boot
  <2>2. CASE call[j] # Free
    <3>1. call[j] \in Call
      BY <2>2, CallTyped DEF IInv
    <3>2. call'[j] = [call[j] EXCEPT !.waits = FALSE]
      BY <2>2 DEF Boot
    <3> QED BY <2>2, <3>1, <3>2 DEF Call
  <2> QED BY <2>1, <2>2
<1>2. call' \in [Calls -> Call \cup {Free}]
  BY <1>1 DEF Boot
<1>3. SeesConsent' /\ StoredUnderConsent'
  BY <1>1 DEF Boot, IInv, SeesConsent, StoredUnderConsent, Busy, server
<1> QED BY <1>2, <1>3 DEF Boot, IInv, TypeOK, Copies, household, server

LEMMA InvNext == IInv /\ [Next]_vars => IInv'
<1> SUFFICES ASSUME IInv, [Next]_vars PROVE IInv'
  OBVIOUS
<1>1. ASSUME NEW k \in Calls, User(k) \/ Serve(k) \/ Hear(k) \/ Refuse(k) \/ GiveUp(k)
      PROVE  IInv'
  BY <1>1, UserStep, ServeStep, HearStep, GiveUpStep
<1>2. ASSUME NEW c \in Contents, Edit(c) PROVE IInv'
  BY <1>2, SameCallsKeep DEF Edit, IInv, TypeOK, page, server
<1>3. ASSUME NEW s \in BOOLEAN, Boot(s) PROVE IInv'
  BY <1>3, BootStep
<1>4. CASE OpenDrawer
  BY <1>4, SameCallsKeep DEF OpenDrawer, Active, IInv, TypeOK, household, server
<1>5. CASE UseCloud
  BY <1>5, SameCallsKeep DEF UseCloud, Active, IInv, TypeOK, Copies, server
<1>6. CASE SignOut
  BY <1>6, SameCallsKeep DEF SignOut, IInv, TypeOK, household, server
<1>7. CASE SessionEnds
  BY <1>7, SameCallsKeep DEF SessionEnds, IInv, TypeOK, household, page, server
<1>8. CASE UNCHANGED vars
  BY <1>8, SameCallsKeep DEF vars, IInv, TypeOK, household, page, server
<1> QED BY <1>1, <1>2, <1>3, <1>4, <1>5, <1>6, <1>7, <1>8 DEF Next

LEMMA Invariant == Spec => []IInv
BY InvInit, InvNext, PTL DEF Spec

(* Every variable of the page, the server and the calls keeps its type,    *)
(* whatever overtakes what.                                                *)
THEOREM TypeCorrect == Spec => []TypeOK
BY Invariant, PTL DEF IInv

(* The two database calls of PUT /api/snapshots (app.py:292-295) are not   *)
(* one transaction; still no push is let through that consent never        *)
(* covered, for any number of calls.                                       *)
THEOREM ConsentCorrect == Spec => []StoredUnderConsent
BY Invariant, PTL DEF IInv

----------------------------------------------------------------------------
(* Only the answer to a check can end a check, and it adopts the cloud's   *)
(* copy only on a device without rows.                                     *)
LEMMA CheckStep ==
  ASSUME IInv, Next, NEW k \in Calls, At(k, "check", "ok"), call'[k] = Free,
         local \notin NoRows
  PROVE  local' = local
<1>1. call[k] \in Call /\ call[k] # Free /\ call[k].op = "check"
  BY CallTyped DEF At, IInv
<1>2. ASSUME NEW j \in Calls, RestoreDone(j) PROVE j # k
  BY <1>1, <1>2 DEF RestoreDone, Answered, At
<1>3. ASSUME NEW j \in Calls, Done(j), j # k PROVE FALSE
  BY <1>1, <1>3 DEF Done, IInv, TypeOK
<1>4. ASSUME NEW j \in Calls, CheckDone(j) PROVE local' = local
  <2>1. Outcome(local, call[j].body) # "adopt-cloud"
    BY DEF Outcome
  <2> QED BY <1>4, <2>1 DEF CheckDone
<1>5. ASSUME NEW j \in Calls, User(j) PROVE local' = local
  BY <1>5 DEF User, Accept, Withdraw, Push, Delete, Restore, Booted, household
<1>6. ASSUME NEW j \in Calls, Serve(j) \/ Refuse(j) \/ GiveUp(j) PROVE local' = local
  BY <1>6 DEF Serve, Unauthorised, PutGate, PutSave, DeleteRow, ReadRow,
              RecordAcceptance, RecordWithdrawal, Refuse, GiveUp, household
<1>7. ASSUME NEW j \in Calls, Hear(j) PROVE local' = local
  <2>1. CASE RestoreDone(j)
    BY <1>2, <1>3, <2>1 DEF RestoreDone
  <2>2. CASE ~RestoreDone(j) /\ ~CheckDone(j)
    BY <1>7, <2>2 DEF Hear, PushDone, DeleteDone, Failed, Unheard, household
  <2> QED BY <1>4, <2>1, <2>2
<1>8. CASE call' = call
  BY <1>1, <1>8
<1>9. ASSUME NEW s \in BOOLEAN, Boot(s) PROVE local' = local
  BY <1>9 DEF Boot, household
<1>10. CASE (\E c \in Contents : Edit(c)) \/ OpenDrawer \/ UseCloud \/ SignOut \/ SessionEnds
  BY <1>8, <1>10 DEF Edit, OpenDrawer, UseCloud, SignOut, SessionEnds, page, household
<1> QED BY <1>5, <1>6, <1>7, <1>9, <1>10 DEF Next

(* Rows entered while the cloud's answer was on its way are kept: the      *)
(* page compares when the answer arrives, not when it asked (app.ts:1944). *)
THEOREM RowsKept == Spec => CheckKeepsRows
<1>1. IInv /\ [Next]_vars => [\A k \in Calls : At(k, "check", "ok") /\ call'[k] = Free
                                 /\ local \notin NoRows => local' = local]_vars
  BY CheckStep
<1> QED BY <1>1, Invariant, PTL DEF Spec, CheckKeepsRows
=============================================================================
