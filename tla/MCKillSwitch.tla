----------------------------- MODULE MCKillSwitch -----------------------------
(* A small process: the guard the jobs share with Telegram, the guard of the *)
(* web app, one command thread on each.                                      *)
EXTENDS KillSwitch, TLC

CONSTANTS stateGuard, webGuard, telegram, web

MCGuards == {stateGuard, webGuard}
MCCommands == {telegram, web}
MCGuardOf ==
    [t \in Jobs \cup MCCommands |-> IF t = web THEN webGuard ELSE stateGuard]
=============================================================================
