------------------------------ MODULE MCAdvice ------------------------------
(* Instance of Advice for the model checker: three months, the second of   *)
(* them shorter, with a salary that carries a balance, a rent that rises,  *)
(* a shop that may be a subscription, become dearer or charge twice, in a  *)
(* text of other letters once, and fees that are a subscription too.       *)
EXTENDS Advice

MCLengths == <<3, 2, 3, 3, 3>>

Bill(id, t, payee, out, cat, fee) ==
  [id |-> id, t |-> t, payee |-> payee, norm |-> payee, out |-> out, in |-> 0, bal |-> None,
   cat |-> cat, fee |-> fee, duty |-> payee = "rent"]
Pay(id, t, payee, in, bal) ==
  [id |-> id, t |-> t, payee |-> payee, norm |-> payee, out |-> 0, in |-> in, bal |-> bal,
   cat |-> "income", fee |-> FALSE, duty |-> FALSE]
Shouted(bill) == [bill EXCEPT !.norm = "SHOP"]

MCMovements ==
  {Pay(1, 1, "job", 30, 40), Pay(2, 3, "job", 30, 40), Pay(3, 6, "job", 30, 5),
   Pay(4, 7, "side", 20, None),
   Bill(5, 2, "rent", 20, "home", FALSE), Bill(6, 5, "rent", 20, "home", FALSE),
   Bill(7, 8, "rent", 26, "home", FALSE),
   Bill(8, 2, "shop", 10, "food", FALSE), Bill(9, 4, "shop", 11, "food", FALSE),
   Bill(10, 6, "shop", 10, "food", FALSE), Shouted(Bill(11, 8, "shop", 14, "food", FALSE)),
   Bill(12, 1, "bank", 70, "food", TRUE), Bill(13, 4, "bank", 70, "food", TRUE),
   Bill(14, 8, "bank", 80, "food", FALSE)}
=============================================================================
