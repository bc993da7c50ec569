------------------------------- MODULE MCPage -------------------------------
(***************************************************************************)
(* The parts of a page that share no variable: its screens, its settings   *)
(* and its log. A property of one of them says nothing of the others, so   *)
(* one part moves in a behaviour, whichever, and the others stay as they   *)
(* began: every state of every part is seen, and their numbers add up      *)
(* instead of multiplying.                                                 *)
(***************************************************************************)
EXTENDS Screens, MCSettings, BrowserLog

VARIABLE part  \* the one that moves

pageVars == <<screensVars, settingsVars, logVars, part>>

Init ==
  /\ part \in {"screens", "settings", "log"}
  /\ ScreensInit /\ SettingsInit /\ LogInit
  /\ part # "screens" => hash = "none" /\ rows = {}

ScreensMove  == part = "screens" /\ ScreensNext /\ UNCHANGED <<settingsVars, logVars, part>>
SettingsMove == part = "settings" /\ SettingsNext /\ UNCHANGED <<screensVars, logVars, part>>
LogMove      == part = "log" /\ LogNext /\ UNCHANGED <<screensVars, settingsVars, part>>

Next == ScreensMove \/ SettingsMove \/ LogMove

Spec == Init /\ [][Next]_pageVars

(* Every variable of the page has its type.                                *)
TypeOK == ScreensTypeOK /\ SettingsTypeOK /\ LogTypeOK
=============================================================================
