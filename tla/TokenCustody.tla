---------------------------- MODULE TokenCustody ----------------------------
(***************************************************************************)
(* What the server promises about the one refresh token of each bank       *)
(* connection, whatever goes wrong around it: a connection opens once and  *)
(* closes for good, and the newest token of its grant is in the database,  *)
(* or in the hands of a request, or lost.  A lost token never comes back,  *)
(* and nothing but the newest token is ever put into the database.         *)
(***************************************************************************)
EXTENDS Naturals

CONSTANTS Conns,    \* connection ids
          MaxToken  \* bound: rotations of one grant

VARIABLES status,   \* "absent" | "active" | "revoked"
          newest,   \* the newest token of the grant, 0 before there is one
          where     \* where the newest token is

vars == <<status, newest, where>>

Init ==
  /\ status = [c \in Conns |-> "absent"]
  /\ newest = [c \in Conns |-> 0]
  /\ where = [c \in Conns |-> "nowhere"]

(* The bank issues the first token of a grant to the request that asked.   *)
Issue(c) ==
  /\ where[c] = "nowhere"
  /\ newest' = [newest EXCEPT ![c] = 1]
  /\ where' = [where EXCEPT ![c] = "held"]
  /\ UNCHANGED status

(* The bank replaces a token it was shown, and the answer may be lost.     *)
Rotate(c) ==
  /\ where[c] \in {"held", "stored"}
  /\ newest[c] < MaxToken
  /\ newest' = [newest EXCEPT ![c] = @ + 1]
  /\ \E w \in {"held", "lost"} : where' = [where EXCEPT ![c] = w]
  /\ UNCHANGED status

Deposit(c) ==
  /\ where[c] = "held"
  /\ status[c] # "absent"
  /\ where' = [where EXCEPT ![c] = "stored"]
  /\ UNCHANGED <<status, newest>>

(* The row is deleted; a request that read it earlier may still hold it.   *)
Remove(c) ==
  /\ where[c] = "stored"
  /\ \E w \in {"held", "lost"} : where' = [where EXCEPT ![c] = w]
  /\ UNCHANGED <<status, newest>>

Open(c) ==
  /\ status[c] = "absent"
  /\ newest[c] # 0
  /\ status' = [status EXCEPT ![c] = "active"]
  /\ \E w \in {where[c], "lost"} : where' = [where EXCEPT ![c] = w]
  /\ UNCHANGED newest

Close(c) ==
  /\ status[c] = "active"
  /\ status' = [status EXCEPT ![c] = "revoked"]
  /\ UNCHANGED <<newest, where>>

(* Requests end or die with the tokens they hold.                          *)
Forget ==
  /\ where' \in [Conns -> {"nowhere", "held", "stored", "lost"}]
  /\ \A c \in Conns : where'[c] = where[c] \/ (where[c] = "held" /\ where'[c] = "lost")
  /\ UNCHANGED <<status, newest>>

Next == Forget \/ \E c \in Conns :
  Issue(c) \/ Rotate(c) \/ Deposit(c) \/ Remove(c) \/ Open(c) \/ Close(c)

Spec == Init /\ [][Next]_vars
=============================================================================
