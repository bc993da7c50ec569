----------------------------- MODULE MCSettings -----------------------------
(* Instance of Settings for the model checker: one default rule, two       *)
(* default categories, a backup that has neither the rule nor "food".      *)
EXTENDS Settings

MCRules   == <<Rule("r0", "a", "food")>>
MCCats    == <<"food", "other">>
MCBackups == {[rules |-> <<>>, cats |-> <<"other">>, chosen |-> None,
               budgets |-> {}, goals |-> 0]}
=============================================================================
