------------------------------ MODULE MCMoney -------------------------------
(* Instance of Money for the model checker: two cards with a report each,  *)
(* charges and refunds on the first day of a month and on its last, and    *)
(* settlements in the same month, in the next, and after the window.       *)
EXTENDS Money

As(cat, fixed) == [cat |-> cat, fixed |-> fixed]

(* A settlement and an income are read otherwise after a reload, and the   *)
(* charges of the first day are no longer known to recur.                  *)
Synced(what, day, out, in, cat, fixed, again) ==
  Row(<<what, day, out>>, day, out, in, "bank", "open-banking", "", cat, fixed, FALSE, again)
MCLines ==
  {Synced("settled", d, o, 0, "credit", FALSE,
          As(IF d = 4 /\ o = 2 THEN "food" ELSE "credit", FALSE)) : d \in {1, 4}, o \in {1, 2}}
  \cup {Synced("saving", 1, 1, 0, "savings", FALSE, As("savings", FALSE)),
        Synced("salary", 1, 0, 2, "income", TRUE, As("income", TRUE)),
        Synced("taken back", 3, 1, 0, "income", FALSE, As("savings", FALSE))}

Charge(card, day, out, in) ==
  Row(<<card, day, out>>, day, out, in, "card", card, card, "food", day = 0, FALSE,
      As("food", FALSE))
MCCharges ==
  {Charge("visa", 0, 1, 0), Charge("visa", 2, 1, 0), Charge("visa", 2, 0, 1),
   Charge("isracard", 0, 1, 0), Charge("isracard", 2, 1, 0)}
=============================================================================
