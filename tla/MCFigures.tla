------------------------------ MODULE MCFigures -----------------------------
(***************************************************************************)
(* What is computed from the transactions at every render: the figures and *)
(* the advice. They share no variable here, so one part moves in a         *)
(* behaviour, whichever, and the other stays as it began.                  *)
(***************************************************************************)
EXTENDS MCMoney, MCAdvice

VARIABLE part  \* the one that moves

Init == part \in {"money", "advice"} /\ MoneyInit /\ AdviceInit

MoneyMove  == part = "money" /\ MoneyNext /\ UNCHANGED <<history, part>>
AdviceMove == part = "advice" /\ AdviceNext /\ UNCHANGED <<tx, part>>

Next == MoneyMove \/ AdviceMove

Spec == Init /\ [][Next]_<<tx, history, part>>
=============================================================================
