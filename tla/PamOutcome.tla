----------------------------- MODULE PamOutcome -----------------------------
(***************************************************************************)
(* What one call of identify() promises to the PAM stack, without threads, *)
(* signals or processes.  The face and the password may both report, in    *)
(* any order.  The first report that is taken up decides; a matching face  *)
(* that came first is PAM_SUCCESS, a password that came first, or one that *)
(* was awaited after a face that did not match, is handed on with          *)
(* PAM_IGNORE, and everything else is an error.  PamIdentify implements    *)
(* this specification.                                                     *)
(***************************************************************************)
CONSTANT Attempts

VARIABLES
  stage,  \* "idle", "open" or "done"
  first,  \* the report that was taken up first
  face,   \* what the face attempt reported
  token,  \* what the password prompt reported
  result  \* the PAM code returned

vars == <<stage, first, face, token, result>>

Refusals == {"PAM_AUTHINFO_UNAVAIL", "PAM_AUTH_ERR", "PAM_SYSTEM_ERR"}

Init ==
  /\ stage = [a \in Attempts |-> "idle"]
  /\ first = [a \in Attempts |-> "Unset"]
  /\ face = [a \in Attempts |-> "none"]
  /\ token = [a \in Attempts |-> "none"]
  /\ result = [a \in Attempts |-> "none"]

Move(a, from, to) == stage[a] = from /\ stage' = [stage EXCEPT ![a] = to]

(* The call is refused before the face is looked at. *)
Refuse(a, code) ==
  /\ Move(a, "idle", "done")
  /\ result' = [result EXCEPT ![a] = code]
  /\ UNCHANGED <<first, face, token>>

Open(a) ==
  /\ Move(a, "idle", "open")
  /\ UNCHANGED <<first, face, token, result>>

FaceReports(a, verdict) ==
  /\ stage[a] = "open"
  /\ face[a] = "none"
  /\ face' = [face EXCEPT ![a] = verdict]
  /\ UNCHANGED <<stage, first, token, result>>

PromptReports(a, outcome) ==
  /\ stage[a] = "open"
  /\ token[a] = "none"
  /\ token' = [token EXCEPT ![a] = outcome]
  /\ UNCHANGED <<stage, first, face, result>>

Decide(a, winner) ==
  /\ stage[a] = "open"
  /\ first[a] = "Unset"
  /\ IF winner = "Pam" THEN token[a] # "none" ELSE face[a] # "none"
  /\ first' = [first EXCEPT ![a] = winner]
  /\ UNCHANGED <<stage, face, token, result>>

(* The code a call may return, given the reports. *)
Allowed(a, code) ==
  \/ /\ code = "PAM_SUCCESS"
     /\ first[a] = "Ubuntu_Hello" /\ face[a] = "success"
  \/ /\ code = "PAM_IGNORE"
     /\ token[a] = "ok"
     /\ (first[a] = "Pam" \/ face[a] \in {"failure", "abort"})
  \/ /\ code = "PAM_CONV_ERR"
     /\ first[a] = "Pam" /\ token[a] = "error"
  \/ /\ code = "PAM_AUTH_ERR"
     /\ first[a] = "Ubuntu_Hello" /\ face[a] # "success"

Close(a, code) ==
  /\ first[a] # "Unset"
  /\ Allowed(a, code)
  /\ Move(a, "open", "done")
  /\ result' = [result EXCEPT ![a] = code]
  /\ UNCHANGED <<first, face, token>>

(* The program that called PAM is gone. *)
Abandon(a) ==
  /\ Move(a, "open", "done")
  /\ UNCHANGED <<first, face, token, result>>

Next ==
  \E a \in Attempts :
     \/ \E code \in Refusals : Refuse(a, code)
     \/ Open(a)
     \/ \E verdict \in {"success", "failure", "abort", "killed"} : FaceReports(a, verdict)
     \/ \E outcome \in {"ok", "error"} : PromptReports(a, outcome)
     \/ \E winner \in {"Ubuntu_Hello", "Pam"} : Decide(a, winner)
     \/ \E code \in {"PAM_SUCCESS", "PAM_IGNORE", "PAM_CONV_ERR", "PAM_AUTH_ERR"} :
           Close(a, code)
     \/ Abandon(a)

Spec == Init /\ [][Next]_vars
=============================================================================
