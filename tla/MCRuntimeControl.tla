-------------------------- MODULE MCRuntimeControl --------------------------
(* What the client sends in each run: how many frames of each method.      *)
EXTENDS RuntimeControl

Sends(initialized, heartbeats, starts, cancels, steers, shutdowns) ==
  [method \in ControlMethods \cup {"initialized", "turn/start", "shutdown"} |->
     CASE method = "initialized" -> initialized
       [] method = "runtime/heartbeat" -> heartbeats
       [] method = "turn/start" -> starts
       [] method = "turn/cancel" -> cancels
       [] method = "turn/steer" -> steers
       [] method = "shutdown" -> shutdowns]

(* Two Turns, controls that arrive too early, late or twice, a shutdown.   *)
AnyOrder == Sends(1, 1, 2, 1, 2, 1)
(* One Turn and one of each control.                                       *)
OneTurn == Sends(1, 1, 1, 1, 1, 0)
=============================================================================
