-------------------------- MODULE MCStatefulSession --------------------------
(* StatefulSession for TLC; nothing needs to be redefined.                   *)
EXTENDS StatefulSession
=============================================================================
