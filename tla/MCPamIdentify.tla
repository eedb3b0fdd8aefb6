--------------------------- MODULE MCPamIdentify ---------------------------
(* PamIdentify on small instances for TLC.                                 *)
EXTENDS PamIdentify

(* Every call the configuration allows, for runs with one attempt.         *)
AllCalls == Options

Call(workaround, service, idleAbort) ==
  [workaround |-> workaround, skip |-> TRUE, screensaver |-> service = "screensaver",
   askAuthTok |-> TRUE, idleAbort |-> idleAbort]

(* Calls of lock screens and of sudo, which share the user's marker.       *)
SharedMarkerCalls ==
  {Call("off", "screensaver", TRUE), Call("native", "screensaver", FALSE), Call("off", "sudo", FALSE)}
=============================================================================
