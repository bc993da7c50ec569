---------------------------- MODULE MCHousehold ----------------------------
(* Instance of Household for the model checker: two charges, one of which  *)
(* can carry a reference.                                                  *)
EXTENDS Household

CONSTANTS c1, c2, r1

MCCharges == {c1, c2}
MCRefs    == {NoRef, r1}

Row(c, ref, side, by, bal) ==
  [charge |-> c, ref |-> ref, side |-> side, by |-> by, bal |-> bal,
   id |-> TxId(c, ref, side)]
Synced(c, side, id) ==
  [charge |-> c, ref |-> NoRef, side |-> side, by |-> "bank", bal |-> "absent",
   id |-> id]
Line(was, row) == [was |-> was, row |-> row]

(* A statement without balances; a card report that was read as one; one   *)
(* with a credit column, two lines of which are one now; one with a        *)
(* purchase discounted to nothing and a line whose reference is not what   *)
(* it was; a file that cannot be read.                                     *)
MCFiles == {
  <<Line(NoId, Row(c1, r1, "in", "statement", "null")),
    Line(NoId, Row(c1, NoRef, "in", "statement", "null"))>>,
  <<Line(TxId(c1, r1, "in"), Row(c1, r1, "out", "card", "null"))>>,
  <<Line(TxId(c1, r1, "in"), Row(c1, r1, "in", "card", "null")),
    Line(TxId(c1, NoRef, "in"), Row(c1, r1, "in", "card", "null"))>>,
  <<Line(TxId(c1, r1, "in"), Nothing),
    Line(NoId, Row(c1, NoRef, "out", "card", "null"))>>,
  <<>>}

MCHands == {Row(c1, NoRef, "in", "hand", "null"), Row(c1, NoRef, "out", "hand", "null")}

(* A transaction booked, one booked and pending, one without an id.        *)
MCBatches == {
  <<Synced(c1, "in", BankId(c1)), Synced(c1, "in", BankId(c1))>>,
  <<Synced(c1, "in", BankId(c1))>>,
  <<Synced(c1, "out", NoId)>>}

MCBackups == {
  [tx |-> Kept(Synced(c1, "in", BankId(c1))) :> 1, overrides |-> {BankId(c1)}]}
=============================================================================
