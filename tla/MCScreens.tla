----------------------------- MODULE MCScreens -----------------------------
(* A bounded instance of Screens: one loaded app with one block, a stack of  *)
(* four screens, an alarm at one minute of a day of three.                   *)
EXTENDS Screens
=============================================================================
