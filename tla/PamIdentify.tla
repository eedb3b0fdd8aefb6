---------------------------- MODULE PamIdentify ----------------------------
(***************************************************************************)
(* identify() of the PAM module (ubuntu-hello/src/pam/main.cc), the code   *)
(* behind pam_sm_authenticate and pam_sm_open_session.                     *)
(*                                                                         *)
(* One attempt is one call of identify(): a main thread, the child_task    *)
(* thread that waits for the compare process, the pass_task thread that    *)
(* sits in pam_get_authtok, and the compare process itself.  The first of  *)
(* the two threads to take the mutex decides the confirmation type; the    *)
(* main thread then tears the loser down.  Attempts of one user, one after *)
(* the other or at the same time in different programs, share the          *)
(* face-skip marker under /run/ubuntu-hello/face-skip.                     *)
(***************************************************************************)
EXTENDS Naturals

CONSTANTS
  Attempts,       \* calls of identify() for one user
  Calls,          \* the option records a call may run with
  MaxRetries,     \* MAX_RETRIES: Enter presses after the first one
  WaitInterrupts  \* may a signal handler of the host interrupt waitpid?

Workarounds == {"off", "input", "native"}

(* What a call depends on: the workaround, core.skip_face_after_failure,   *)
(* whether the PAM service is a screensaver, ask_auth_tok (TRUE from       *)
(* pam_sm_authenticate, FALSE from pam_sm_open_session), and               *)
(* core.abort_on_session_idle.                                             *)
Options == [workaround : Workarounds, skip : BOOLEAN, screensaver : BOOLEAN,
            askAuthTok : BOOLEAN, idleAbort : BOOLEAN]

ASSUME CallsAssumption == Calls \subseteq Options /\ Calls # {}
ASSUME RetriesAssumption == MaxRetries \in Nat
ASSUME InterruptAssumption == WaitInterrupts \in BOOLEAN

VARIABLES
  opt,           \* the options each call runs with
  pc,            \* where the main thread of each call is
  confirmation,  \* confirmation_type, guarded by the mutex
  compare,       \* life of the compare process
  exit,          \* the wait status compare has decided on or ended with
  term,          \* SIGTERM pending on the compare process group
  waiter,        \* the child_task thread
  status,        \* the status child_task's waitpid left behind
  pass,          \* the pass_task thread
  passResult,    \* what pam_get_authtok returned
  cancel,        \* pthread_cancel requested on pass_task
  presses,       \* Enter presses sent through uinput
  authtok,       \* the PAM_AUTHTOK item of the transaction
  result,        \* the PAM code the call returned
  skipMarker     \* the user's face-skip marker: "absent", "set", or "stuck",
                 \* still there because removing it failed

mainVars    == <<opt, pc, result>>
compareVars == <<compare, exit, term>>
waiterVars  == <<waiter, status>>
passVars    == <<pass, passResult, cancel, presses, authtok>>
vars == <<mainVars, confirmation, compareVars, waiterVars, passVars, skipMarker>>

AskPass(a) == opt[a].askAuthTok /\ opt[a].workaround # "off"

(* Gates that refuse a call before anything is spawned. *)
Refusals == {"PAM_AUTHINFO_UNAVAIL", "PAM_AUTH_ERR", "PAM_SYSTEM_ERR"}

Results == Refusals \cup {"PAM_SUCCESS", "PAM_IGNORE", "PAM_CONV_ERR"}

Goto(a, from, to) == pc[a] = from /\ pc' = [pc EXCEPT ![a] = to]

Return(a, from, code) ==
  /\ Goto(a, from, "returned")
  /\ result' = [result EXCEPT ![a] = code]
  /\ UNCHANGED opt

Alive(a) == compare[a] \in {"booting", "loading", "scanning", "cleaning"}

-----------------------------------------------------------------------------
(* The main thread: identify_preflight and the launch.                     *)

FaceSkipped(a) == opt[a].skip /\ opt[a].screensaver /\ skipMarker # "absent"

(* A broken config file, an ignored service, an unknown or malformed user, *)
(* face authentication disabled, SSH, a closed lid, or no face model.      *)
Refuse(a) ==
  /\ \E code \in Refusals : Return(a, "idle", code)
  /\ UNCHANGED <<confirmation, compareVars, waiterVars, passVars, skipMarker>>

(* Skip-after-failure: the last face attempt on a lock screen failed.      *)
SkipFace(a) ==
  /\ FaceSkipped(a)
  /\ Return(a, "idle", "PAM_AUTHINFO_UNAVAIL")
  /\ UNCHANGED <<confirmation, compareVars, waiterVars, passVars, skipMarker>>

Admit(a) ==
  /\ Goto(a, "idle", "admitted")
  /\ ~FaceSkipped(a)
  /\ UNCHANGED <<opt, result, confirmation, compareVars, waiterVars, passVars,
                 skipMarker>>

(* No conversation, or posix_spawn fails. *)
SpawnFails(a) ==
  /\ Return(a, "admitted", "PAM_SYSTEM_ERR")
  /\ UNCHANGED <<confirmation, compareVars, waiterVars, passVars, skipMarker>>

(* posix_spawn in a new process group, child_task.activate(), and          *)
(* pass_task.activate() when a password is asked for as well.              *)
Launch(a) ==
  /\ Goto(a, "admitted", "waiting")
  /\ compare' = [compare EXCEPT ![a] = "booting"]
  /\ waiter' = [waiter EXCEPT ![a] = "waitpid"]
  /\ pass' = [pass EXCEPT ![a] = IF AskPass(a) THEN "prompting" ELSE "none"]
  /\ UNCHANGED <<opt, result, confirmation, exit, term, status, passResult,
                 cancel, presses, authtok, skipMarker>>

-----------------------------------------------------------------------------
(* The compare process, as the PAM module sees it.                         *)

SetCompare(a, from, to, code) ==
  /\ compare[a] = from
  /\ compare' = [compare EXCEPT ![a] = to]
  /\ exit' = [exit EXCEPT ![a] = code]

(* Imports done and PR_SET_PDEATHSIG set; or the interpreter gives up.     *)
CompareBoots(a) ==
  /\ \/ SetCompare(a, "booting", "loading", "none")
     \/ SetCompare(a, "booting", "zombie", "failure")
  /\ UNCHANGED <<mainVars, confirmation, term, waiterVars, passVars, skipMarker>>

(* The model is loaded and the SIGTERM handler installed; or exit(10).     *)
CompareLoads(a) ==
  /\ \/ SetCompare(a, "loading", "scanning", "none")
     \/ SetCompare(a, "loading", "zombie", "failure")
  /\ UNCHANGED <<mainVars, confirmation, term, waiterVars, passVars, skipMarker>>

(* The scan ends and cleanup() begins, so that _cleaned_up is set; or      *)
(* compare leaves through sys.exit without it (CompareLife, FaceScan).     *)
CompareDecides(a) ==
  /\ \E code \in {"success", "failure"} :
        \/ SetCompare(a, "scanning", "cleaning", code)
        \/ SetCompare(a, "scanning", "zombie", code)
  /\ UNCHANGED <<mainVars, confirmation, term, waiterVars, passVars, skipMarker>>

CompareExits(a) ==
  /\ SetCompare(a, "cleaning", "zombie", exit[a])
  /\ UNCHANGED <<mainVars, confirmation, term, waiterVars, passVars, skipMarker>>

(* SIGTERM acts: the default action before _signal_exit is installed, then *)
(* _signal_exit, which returns at once when cleanup() has already run.     *)
CompareTerminated(a) ==
  /\ term[a]
  /\ term' = [term EXCEPT ![a] = FALSE]
  /\ \/ SetCompare(a, "booting", "zombie", "killed")
     \/ SetCompare(a, "loading", "zombie", "killed")
     \/ SetCompare(a, "scanning", "cleaning", "abort")
     \/ SetCompare(a, "cleaning", "cleaning", exit[a])
  /\ UNCHANGED <<mainVars, confirmation, waiterVars, passVars, skipMarker>>

(* The session goes idle: compare's watcher sends SIGTERM to compare.      *)
CompareCancelled(a) ==
  /\ opt[a].idleAbort
  /\ compare[a] \in {"loading", "scanning"}
  /\ term' = [term EXCEPT ![a] = TRUE]
  /\ UNCHANGED <<mainVars, confirmation, compare, exit, waiterVars, passVars,
                 skipMarker>>

(* A crash of compare or of one of its libraries, or the OOM killer.       *)
CompareCrashes(a) ==
  /\ Alive(a)
  /\ SetCompare(a, compare[a], "zombie", "killed")
  /\ UNCHANGED <<mainVars, confirmation, term, waiterVars, passVars, skipMarker>>

-----------------------------------------------------------------------------
(* child_task: waitpid, then confirmation under the mutex.                 *)

Reap(a) ==
  /\ waiter[a] = "waitpid"
  /\ compare[a] = "zombie"
  /\ waiter' = [waiter EXCEPT ![a] = "reaped"]
  /\ status' = [status EXCEPT ![a] = exit[a]]
  /\ compare' = [compare EXCEPT ![a] = "gone"]
  /\ UNCHANGED <<mainVars, confirmation, exit, term, passVars, skipMarker>>

(* waitpid fails with EINTR; status still has its initial value 0, which   *)
(* reads as an exit with code 0.                                           *)
WaitInterrupted(a) ==
  /\ WaitInterrupts
  /\ waiter[a] = "waitpid"
  /\ waiter' = [waiter EXCEPT ![a] = "reaped"]
  /\ status' = [status EXCEPT ![a] = "success"]
  /\ UNCHANGED <<mainVars, confirmation, compareVars, passVars, skipMarker>>

Confirm(a, kind) ==
  confirmation' = [confirmation EXCEPT ![a] = IF @ = "Unset" THEN kind ELSE @]

ChildConfirms(a) ==
  /\ waiter[a] = "reaped"
  /\ waiter' = [waiter EXCEPT ![a] = "done"]
  /\ Confirm(a, "Ubuntu_Hello")
  /\ UNCHANGED <<mainVars, compareVars, status, passVars, skipMarker>>

-----------------------------------------------------------------------------
(* pass_task: pam_get_authtok, then confirmation under the mutex.          *)

PromptReturns(a, code, token) ==
  /\ pass[a] = "prompting"
  /\ pass' = [pass EXCEPT ![a] = "returned"]
  /\ passResult' = [passResult EXCEPT ![a] = code]
  /\ authtok' = [authtok EXCEPT ![a] = token]

UserSubmits(a) ==
  /\ PromptReturns(a, "ok", "typed")
  /\ UNCHANGED <<mainVars, confirmation, compareVars, waiterVars, cancel,
                 presses, skipMarker>>

(* The conversation fails, for instance because the dialog was closed.     *)
PromptFails(a) ==
  /\ PromptReturns(a, "error", authtok[a])
  /\ UNCHANGED <<mainVars, confirmation, compareVars, waiterVars, cancel,
                 presses, skipMarker>>

(* pthread_cancel takes effect at a cancellation point of the prompt.      *)
PromptCancelled(a) ==
  /\ pass[a] = "prompting"
  /\ cancel[a]
  /\ pass' = [pass EXCEPT ![a] = "cancelled"]
  /\ UNCHANGED <<mainVars, confirmation, compareVars, waiterVars, passResult,
                 cancel, presses, authtok, skipMarker>>

PassConfirms(a) ==
  /\ pass[a] = "returned"
  /\ pass' = [pass EXCEPT ![a] = "done"]
  /\ Confirm(a, "Pam")
  /\ UNCHANGED <<mainVars, compareVars, waiterVars, passResult, cancel,
                 presses, authtok, skipMarker>>

-----------------------------------------------------------------------------
(* The main thread after the condition variable: the password won.         *)

PassEnded(a) == pass[a] \in {"none", "done", "cancelled"}

(* kill(-child_pid, SIGTERM) *)
WakeForPassword(a) ==
  /\ Goto(a, "waiting", "grace")
  /\ confirmation[a] = "Pam"
  /\ term' = [term EXCEPT ![a] = Alive(a)]
  /\ UNCHANGED <<opt, result, confirmation, compare, exit, waiterVars, passVars,
                 skipMarker>>

(* Mutant: no SIGKILL. *)
GraceWithoutKill(a) ==
  /\ Goto(a, "grace", "joinChild")
  /\ waiter[a] # "done"
  /\ UNCHANGED <<opt, result, confirmation, compareVars, waiterVars, passVars, skipMarker>>

(* CHILD_TERM_TIMEOUT has passed: kill(-child_pid, SIGKILL). *)
GraceExpires(a) ==
  /\ Goto(a, "grace", "joinChild")
  /\ waiter[a] # "done"
  /\ compare' = [compare EXCEPT ![a] = IF Alive(a) THEN "zombie" ELSE @]
  /\ exit' = [exit EXCEPT ![a] = IF Alive(a) THEN "killed" ELSE @]
  /\ UNCHANGED <<opt, result, confirmation, term, waiterVars, passVars, skipMarker>>

(* child_task.stop(false), pass_task.stop(false), then the token's result. *)
ReturnPassword(a) ==
  /\ waiter[a] = "done"
  /\ PassEnded(a)
  /\ \E here \in {"grace", "joinChild"} :
        Return(a, here, IF passResult[a] = "ok" THEN "PAM_IGNORE" ELSE "PAM_CONV_ERR")
  /\ UNCHANGED <<confirmation, compareVars, waiterVars, passVars, skipMarker>>

-----------------------------------------------------------------------------
(* The main thread after the condition variable: compare ended first.      *)

FailedByCode(a) == status[a] \in {"failure", "abort"}

(* Mutant: a failed face dismisses the prompt as well. *)
WakeAndDismiss(a) ==
  /\ confirmation[a] = "Ubuntu_Hello"
  /\ waiter[a] = "done"
  /\ Goto(a, "waiting", "dismiss")
  /\ UNCHANGED <<opt, result, confirmation, compareVars, waiterVars, passVars,
                 skipMarker>>

(* child_task.stop(false) and get(): the status chooses the branch. *)
WakeForFace(a) ==
  /\ confirmation[a] = "Ubuntu_Hello"
  /\ waiter[a] = "done"
  /\ Goto(a, "waiting",
          IF FailedByCode(a) /\ AskPass(a) THEN "failed" ELSE "dismiss")
  /\ UNCHANGED <<opt, result, confirmation, compareVars, waiterVars, passVars,
                 skipMarker>>

(* face_skip_clear: the marker is unlinked, or stays because that fails,   *)
(* which nobody looks at.                                                  *)
SkipClear ==
  \/ skipMarker' = "absent"
  \/ skipMarker # "absent" /\ skipMarker' = "stuck"

(* Mutants: a killed compare counts as a failure; success clears the       *)
(* marker only on the service that set it.                                 *)
SkipWithoutExit(a) ==
  \/ status[a] = "success" /\ SkipClear
  \/ status[a] # "success" /\ opt[a].skip /\ opt[a].screensaver /\ skipMarker' = "set"
  \/ status[a] # "success" /\ UNCHANGED skipMarker

SkipClearedHereOnly(a) ==
  \/ status[a] = "success" /\ opt[a].screensaver /\ SkipClear
  \/ status[a] = "success" /\ ~opt[a].screensaver /\ UNCHANGED skipMarker
  \/ FailedByCode(a) /\ opt[a].skip /\ opt[a].screensaver /\ skipMarker' = "set"
  \/ status[a] # "success" /\ UNCHANGED skipMarker

(* update_face_skip_from_status: success clears the marker, an exit code   *)
(* sets it on a screensaver service.  A killed compare leaves it alone, as *)
(* does a face_skip_set that cannot create the file.  The code 12 of a     *)
(* cancelled compare is an exit code like any other.                       *)
UpdateFaceSkip(a) ==
  \/ status[a] = "success" /\ SkipClear
  \/ FailedByCode(a) /\ opt[a].skip /\ opt[a].screensaver /\ skipMarker' = "set"
  \/ status[a] # "success" /\ UNCHANGED skipMarker

RecordFailure(a) ==
  /\ Goto(a, "failed", "awaitPassword")
  /\ UpdateFaceSkip(a)
  /\ UNCHANGED <<opt, result, confirmation, compareVars, waiterVars, passVars>>

(* Mutant: the awaited password is taken for a login. *)
ReturnAccepted(a) ==
  /\ PassEnded(a)
  /\ Return(a, "awaitPassword",
            IF passResult[a] = "ok" THEN "PAM_SUCCESS" ELSE "PAM_AUTH_ERR")
  /\ UNCHANGED <<confirmation, compareVars, waiterVars, passVars, skipMarker>>

ReturnAwaited(a) ==
  /\ PassEnded(a)
  /\ Return(a, "awaitPassword",
            IF passResult[a] = "ok" THEN "PAM_IGNORE" ELSE "PAM_AUTH_ERR")
  /\ UNCHANGED <<confirmation, compareVars, waiterVars, passVars, skipMarker>>

(* dismiss_authtok_prompt: nothing to do, pthread_cancel, or Enter presses *)
(* through a uinput device, if one can be had.                             *)
DismissOff(a) ==
  /\ Goto(a, "dismiss", "record")
  /\ opt[a].workaround = "off"
  /\ UNCHANGED <<opt, result, confirmation, compareVars, waiterVars, passVars,
                 skipMarker>>

(* Mutant: stop(false) instead of stop(true). *)
DismissWithoutCancel(a) ==
  /\ Goto(a, "dismiss", "joinPass")
  /\ opt[a].workaround = "native"
  /\ UNCHANGED <<opt, result, confirmation, compareVars, waiterVars, passVars,
                 skipMarker>>

DismissNative(a) ==
  /\ Goto(a, "dismiss", "joinPass")
  /\ opt[a].workaround = "native"
  /\ cancel' = [cancel EXCEPT ![a] = pass[a] # "none"]
  /\ UNCHANGED <<opt, result, confirmation, compareVars, waiterVars, pass,
                 passResult, presses, authtok, skipMarker>>

DismissWithoutDevice(a) ==
  /\ Goto(a, "dismiss", "joinPass")
  /\ opt[a].workaround = "input"
  /\ UNCHANGED <<opt, result, confirmation, compareVars, waiterVars, passVars,
                 skipMarker>>

(* Mutant: the presses left are counted down from 0. *)
SendEnterDown(a) ==
  /\ presses' = [presses EXCEPT ![a] = @ - 1]
  /\ UNCHANGED <<opt, result, confirmation, compareVars, waiterVars, pass, passResult,
                 cancel, authtok, skipMarker>>

(* The press reaches the prompt, which submits whatever it holds, or it    *)
(* goes to another window.                                                 *)
SendEnter(a) ==
  /\ presses' = [presses EXCEPT ![a] = @ + 1]
  /\ \/ PromptReturns(a, "ok", "partial")
     \/ UNCHANGED <<pass, passResult, authtok>>
  /\ UNCHANGED <<opt, result, confirmation, compareVars, waiterVars, cancel,
                 skipMarker>>

FirstEnter(a) ==
  /\ Goto(a, "dismiss", "pressing")
  /\ opt[a].workaround = "input"
  /\ SendEnter(a)

(* pass_task.wait(100 ms) times out and another retry is left.             *)
RetryEnter(a) ==
  /\ Goto(a, "pressing", "pressing")
  /\ pass[a] # "done"
  /\ presses[a] <= MaxRetries
  /\ SendEnter(a)

(* The task is done, the retries are used up, or writing to the device     *)
(* fails.                                                                  *)
StopPressing(a) ==
  /\ Goto(a, "pressing", "joinPass")
  /\ UNCHANGED <<opt, result, confirmation, compareVars, waiterVars, passVars,
                 skipMarker>>

JoinPass(a) ==
  /\ Goto(a, "joinPass", "record")
  /\ PassEnded(a)
  /\ UNCHANGED <<opt, result, confirmation, compareVars, waiterVars, passVars,
                 skipMarker>>

RecordOutcome(a) ==
  /\ Goto(a, "record", "conclude")
  /\ UpdateFaceSkip(a)
  /\ UNCHANGED <<opt, result, confirmation, compareVars, waiterVars, passVars>>

(* Mutant: WEXITSTATUS without WIFEXITED, which is 0 for a killed compare. *)
SuccessWithoutExit(a) ==
  /\ status[a] \in {"success", "killed"}
  /\ Return(a, "conclude", "PAM_SUCCESS")
  /\ \E token \in {authtok[a], "sealed"} : authtok' = [authtok EXCEPT ![a] = token]
  /\ UNCHANGED <<confirmation, compareVars, waiterVars, pass, passResult, cancel,
                 presses, skipMarker>>

(* try_set_keyring_authtok, which may find nothing to unseal, and the      *)
(* result of ubuntu_hello_status.                                          *)
ReturnSuccess(a) ==
  /\ status[a] = "success"
  /\ Return(a, "conclude", "PAM_SUCCESS")
  /\ \E token \in {authtok[a], "sealed"} : authtok' = [authtok EXCEPT ![a] = token]
  /\ UNCHANGED <<confirmation, compareVars, waiterVars, pass, passResult, cancel,
                 presses, skipMarker>>

ReturnFailure(a) ==
  /\ status[a] # "success"
  /\ Return(a, "conclude", "PAM_AUTH_ERR")
  /\ UNCHANGED <<confirmation, compareVars, waiterVars, passVars, skipMarker>>

-----------------------------------------------------------------------------
(* The program that called PAM.                                            *)

(* The stack succeeded, through this module or a later one, and the        *)
(* program calls pam_setcred.  What pam_sm_setcred does to the keyring     *)
(* credential is in KeyringSeal.                                           *)
Setcred(a) ==
  /\ Goto(a, "returned", "closed")
  /\ SkipClear
  /\ UNCHANGED <<opt, result, confirmation, compareVars, waiterVars, passVars>>

GiveUp(a) ==
  /\ Goto(a, "returned", "closed")
  /\ UNCHANGED <<opt, result, confirmation, compareVars, waiterVars, passVars,
                 skipMarker>>

Launched(a) == pc[a] \notin {"idle", "admitted", "returned", "closed", "dead"}

(* Mutant: compare has not asked for the parent-death signal. *)
ProgramKilledUnnoticed(a) ==
  /\ Launched(a)
  /\ pc' = [pc EXCEPT ![a] = "dead"]
  /\ waiter' = [waiter EXCEPT ![a] = "none"]
  /\ pass' = [pass EXCEPT ![a] = "none"]
  /\ UNCHANGED <<opt, result, confirmation, compareVars, status, passResult,
                 cancel, presses, authtok, skipMarker>>

(* Esc or a session switch kills the program in mid-call: its threads die  *)
(* with it, and compare gets SIGTERM if it has asked for that.             *)
ProgramKilled(a) ==
  /\ Launched(a)
  /\ pc' = [pc EXCEPT ![a] = "dead"]
  /\ term' = [term EXCEPT ![a] = @ \/ compare[a] \in {"loading", "scanning", "cleaning"}]
  /\ waiter' = [waiter EXCEPT ![a] = "none"]
  /\ pass' = [pass EXCEPT ![a] = "none"]
  /\ UNCHANGED <<opt, result, confirmation, compare, exit, status, passResult,
                 cancel, presses, authtok, skipMarker>>

(* init reaps the orphan. *)
OrphanReaped(a) ==
  /\ pc[a] = "dead"
  /\ SetCompare(a, "zombie", "gone", exit[a])
  /\ UNCHANGED <<mainVars, confirmation, term, waiterVars, passVars, skipMarker>>

-----------------------------------------------------------------------------
Init ==
  /\ opt \in [Attempts -> Calls]
  /\ pc = [a \in Attempts |-> "idle"]
  /\ confirmation = [a \in Attempts |-> "Unset"]
  /\ compare = [a \in Attempts |-> "none"]
  /\ exit = [a \in Attempts |-> "none"]
  /\ term = [a \in Attempts |-> FALSE]
  /\ waiter = [a \in Attempts |-> "none"]
  /\ status = [a \in Attempts |-> "none"]
  /\ pass = [a \in Attempts |-> "none"]
  /\ passResult = [a \in Attempts |-> "none"]
  /\ cancel = [a \in Attempts |-> FALSE]
  /\ presses = [a \in Attempts |-> 0]
  /\ authtok = [a \in Attempts |-> "none"]
  /\ result = [a \in Attempts |-> "none"]
  /\ skipMarker = "absent"

Main(a) ==
  \/ Refuse(a) \/ SkipFace(a) \/ Admit(a) \/ SpawnFails(a) \/ Launch(a)
  \/ WakeForPassword(a) \/ GraceExpires(a) \/ ReturnPassword(a)
  \/ WakeForFace(a) \/ RecordFailure(a) \/ ReturnAwaited(a)
  \/ DismissOff(a) \/ DismissNative(a) \/ DismissWithoutDevice(a)
  \/ FirstEnter(a) \/ RetryEnter(a) \/ StopPressing(a) \/ JoinPass(a)
  \/ RecordOutcome(a) \/ ReturnSuccess(a) \/ ReturnFailure(a)

Waiter(a) == Reap(a) \/ ChildConfirms(a)

Prompt(a) == PromptCancelled(a) \/ PassConfirms(a)

Compare(a) ==
  \/ CompareBoots(a) \/ CompareLoads(a) \/ CompareDecides(a)
  \/ CompareExits(a) \/ CompareTerminated(a)

User(a) == UserSubmits(a) \/ PromptFails(a)

Program(a) == Setcred(a) \/ GiveUp(a) \/ ProgramKilled(a)

System(a) ==
  WaitInterrupted(a) \/ CompareCancelled(a) \/ CompareCrashes(a) \/ OrphanReaped(a)

Next ==
  \E a \in Attempts :
     \/ Main(a) \/ Waiter(a) \/ Prompt(a) \/ Compare(a)
     \/ User(a) \/ Program(a) \/ System(a)

Spec == Init /\ [][Next]_vars

(* The threads of the call run and init reaps orphans; nothing is assumed  *)
(* of the user, of the calling program or of compare.                      *)
ThreadFairness ==
  \A a \in Attempts :
     /\ WF_vars(Main(a)) /\ WF_vars(Waiter(a)) /\ WF_vars(Prompt(a))
     /\ WF_vars(OrphanReaped(a))

(* compare comes to an end by its own timeouts: ScanEnds in FaceScan       *)
(* has one exception, a handler blocked on its own thread's lock.  Only    *)
(* FaceEndsCall rests on it.                                               *)
CompareFairness == \A a \in Attempts : WF_vars(Compare(a))

(* A pending SIGTERM is delivered and a cleanup that has begun comes to    *)
(* its end, with the same exception; the scan itself may go on for ever.   *)
SignalFairness ==
  \A a \in Attempts : WF_vars(CompareTerminated(a)) /\ WF_vars(CompareExits(a))

ThreadSpec == Spec /\ ThreadFairness

-----------------------------------------------------------------------------
(* Type correctness of every variable. *)
TypeOK ==
  /\ opt \in [Attempts -> Options]
  /\ pc \in [Attempts -> {"idle", "admitted", "waiting", "grace", "joinChild",
                          "failed", "awaitPassword", "dismiss", "pressing",
                          "joinPass", "record", "conclude", "returned", "closed",
                          "dead"}]
  /\ confirmation \in [Attempts -> {"Unset", "Ubuntu_Hello", "Pam"}]
  /\ compare \in [Attempts -> {"none", "booting", "loading", "scanning",
                               "cleaning", "zombie", "gone"}]
  /\ exit \in [Attempts -> {"none", "success", "failure", "abort", "killed"}]
  /\ term \in [Attempts -> BOOLEAN]
  /\ waiter \in [Attempts -> {"none", "waitpid", "reaped", "done"}]
  /\ status \in [Attempts -> {"none", "success", "failure", "abort", "killed"}]
  /\ pass \in [Attempts -> {"none", "prompting", "returned", "done", "cancelled"}]
  /\ passResult \in [Attempts -> {"none", "ok", "error"}]
  /\ cancel \in [Attempts -> BOOLEAN]
  /\ presses \in [Attempts -> Nat]
  /\ authtok \in [Attempts -> {"none", "typed", "partial", "sealed"}]
  /\ result \in [Attempts -> Results \cup {"none"}]
  /\ skipMarker \in {"absent", "set", "stuck"}

Over(a) == pc[a] \in {"returned", "closed"}

(* identify() returns PAM_SUCCESS, which ends the stack, only when compare *)
(* ended first and its process really exited with code 0: no interleaving  *)
(* of a signal, a crash, a timeout or a password turns into a login.       *)
SuccessOnlyByFace ==
  \A a \in Attempts :
     result[a] = "PAM_SUCCESS" =>
        confirmation[a] = "Ubuntu_Hello" /\ exit[a] = "success"

(* PAM_IGNORE hands the transaction to the next module, which reads        *)
(* PAM_AUTHTOK: it then holds what the user submitted, never a token the   *)
(* keyring put there nor one an injected Enter cut short.                  *)
IgnoreCarriesPassword ==
  \A a \in Attempts : result[a] = "PAM_IGNORE" => authtok[a] = "typed"

(* When a call that started compare returns, compare has been reaped, so   *)
(* the camera is free and no zombie stays behind, and both threads are     *)
(* finished: nothing can touch the stack frame or the PAM handle any more. *)
NothingLeftRunning ==
  \A a \in Attempts :
     Over(a) /\ compare[a] # "none" =>
        compare[a] = "gone" /\ waiter[a] = "done" /\ PassEnded(a)

(* A face attempt that fails by itself leaves the password prompt alone:   *)
(* no Enter is injected and the prompt is not cancelled, as the user might *)
(* still be typing.                                                        *)
PromptKept ==
  \A a \in Attempts :
     FailedByCode(a) /\ AskPass(a) => presses[a] = 0 /\ ~cancel[a]

(* A call leaves the user's prompt and the host's process as they should be*)
CallLeavesClean == NothingLeftRunning /\ PromptKept

(* The face-skip marker, which makes lock screens refuse the face, stands  *)
(* only after a call on a screensaver service whose compare gave up on the *)
(* face by itself, whatever other calls of the user, teardowns, crashes    *)
(* and dying programs did meanwhile.  main.cc's "Do not set skip on        *)
(* SIGTERM/cancel" is true of all of these, but not of one cancel: that of *)
(* compare's own session watcher, where core.abort_on_session_idle is on.  *)
MarkerHasCause ==
  skipMarker # "absent" =>
     \E a \in Attempts :
        /\ opt[a].skip /\ opt[a].screensaver
        /\ status[a] = "failure" \/ (status[a] = "abort" /\ opt[a].idleAbort)

Alone(a) == \A b \in Attempts \ {a} : Over(b) \/ pc[b] = "dead"

(* A login by face forgives earlier failures: when no other call was under *)
(* way since it began, every marker was taken away before the answer; one  *)
(* that is still there is one the file system would not remove.            *)
SuccessForgives ==
  \A a \in Attempts :
     [](Alone(a) /\ pc[a] = "idle" =>
          [](result[a] = "PAM_SUCCESS" => skipMarker # "set"))

(* Once the password has won, the call returns, even if compare hangs and  *)
(* ignores SIGTERM: no fairness of compare is assumed.                     *)
PasswordEndsCall ==
  \A a \in Attempts :
     confirmation[a] = "Pam" ~> Over(a) \/ pc[a] = "dead"

NeedsUser(a) ==
  AskPass(a) /\ ~(opt[a].workaround = "native" /\ exit[a] \in {"success", "killed"})

(* A call that asks for no password returns without the user, and so does  *)
(* one whose face matched under the native workaround, if compare ends.    *)
FaceEndsCall ==
  CompareFairness =>
    \A a \in Attempts :
       Launched(a) ~> Over(a) \/ pc[a] = "dead" \/ NeedsUser(a)

(* When the program dies in mid-call after compare has asked for the       *)
(* parent-death signal, the camera is released although nothing obliges    *)
(* the scan to end by itself.  A program that dies while compare is still  *)
(* importing leaves a compare nobody signals.                              *)
OrphanStops ==
  SignalFairness =>
    \A a \in Attempts :
       [](compare[a] \in {"loading", "scanning"} /\ pc[a] # "dead" =>
            [](pc[a] = "dead" => <>(compare[a] = "gone")))

-----------------------------------------------------------------------------
(* The refinement mapping: waitpid's status is the face's report and       *)
(* pam_get_authtok's result is the prompt's.                               *)
StageOf(where) ==
  CASE where \in {"idle", "admitted"} -> "idle"
    [] where \in {"returned", "closed", "dead"} -> "done"
    [] OTHER -> "open"

Stage == [a \in Attempts |-> StageOf(pc[a])]

Outcome == INSTANCE PamOutcome WITH
  stage <- Stage,
  first <- confirmation,
  face  <- status,
  token <- passResult

(* Every call of identify() behaves, towards the PAM stack, like the       *)
(* decision rule of PamOutcome, whatever its threads, the signals and the  *)
(* compare process do.                                                     *)
ImplementsOutcome == Outcome!Spec

-----------------------------------------------------------------------------
(* The inductive invariant behind the proofs in PamIdentifyProofs, one     *)
(* conjunct per idea.                                                      *)

(* Before the launch nothing exists. *)
InvBefore(a) ==
  pc[a] \in {"idle", "admitted"} \/ compare[a] = "none" =>
     /\ compare[a] = "none" /\ waiter[a] = "none" /\ pass[a] = "none"
     /\ exit[a] = "none" /\ status[a] = "none" /\ passResult[a] = "none"
     /\ confirmation[a] = "Unset" /\ authtok[a] = "none"
     /\ presses[a] = 0 /\ ~cancel[a]
     /\ pc[a] \in {"idle", "admitted", "returned", "closed"}

InvRefused(a) ==
  /\ pc[a] \in {"idle", "admitted"} => result[a] = "none"
  /\ compare[a] = "none" => result[a] \in Refusals \cup {"none"}
  /\ result[a] # "none" => Over(a)

(* What each thread has reported is what its position says. *)
InvThreads(a) ==
  /\ pc[a] # "dead" => /\ status[a] # "none" <=> waiter[a] \in {"reaped", "done"}
                       /\ passResult[a] # "none" <=> pass[a] \in {"returned", "done"}
  /\ Launched(a) => waiter[a] # "none"
  /\ Launched(a) /\ ~AskPass(a) => pass[a] = "none"
  /\ Over(a) /\ compare[a] # "none" => waiter[a] = "done" /\ PassEnded(a)
  /\ pc[a] = "dead" => waiter[a] = "none" /\ pass[a] = "none"

(* The confirmation names a thread that has finished. *)
InvConfirmed(a) ==
  pc[a] # "dead" =>
     /\ confirmation[a] = "Pam" => pass[a] = "done"
     /\ confirmation[a] = "Ubuntu_Hello" => waiter[a] = "done"

(* The main thread is on the branch the confirmation and the status chose. *)
InvBranch(a) ==
  /\ pc[a] \in {"grace", "joinChild"} => confirmation[a] = "Pam"
  /\ pc[a] \in {"failed", "awaitPassword"} =>
        confirmation[a] = "Ubuntu_Hello" /\ FailedByCode(a)
  /\ pc[a] \in {"dismiss", "pressing", "joinPass", "record", "conclude"} =>
        confirmation[a] = "Ubuntu_Hello" /\ ~(FailedByCode(a) /\ AskPass(a))
  /\ pc[a] \in {"record", "conclude"} => PassEnded(a)

(* Until the face has won nobody touches the prompt but the user. *)
InvPrompt(a) ==
  /\ pc[a] \in {"waiting", "grace", "joinChild", "failed", "awaitPassword", "dismiss"} =>
        /\ presses[a] = 0 /\ ~cancel[a]
        /\ passResult[a] = "ok" => authtok[a] = "typed"
  /\ presses[a] > 0 \/ cancel[a] => ~(FailedByCode(a) /\ AskPass(a))
  /\ presses[a] > 0 \/ cancel[a] => status[a] # "none"
  /\ presses[a] <= MaxRetries + 1
  /\ result[a] = "PAM_IGNORE" => authtok[a] = "typed"

(* compare ends with a status. *)
InvExit(a) == compare[a] \in {"cleaning", "zombie", "gone"} => exit[a] # "none"

(* A wait that is not interrupted leaves the status compare ended with. *)
InvReaped(a) ==
  ~WaitInterrupts /\ pc[a] # "dead" /\ waiter[a] \in {"reaped", "done"} =>
     compare[a] = "gone" /\ status[a] = exit[a]

(* Unless its watcher may, only a password that has won, or the death of   *)
(* the program, has compare signalled.                                     *)
InvCancel(a) ==
  ~opt[a].idleAbort =>
     /\ term[a] \/ exit[a] = "abort" => pc[a] = "dead" \/ confirmation[a] = "Pam"
     /\ status[a] = "abort" => confirmation[a] = "Pam"

InvSuccess(a) ==
  result[a] = "PAM_SUCCESS" => status[a] = "success" /\ confirmation[a] = "Ubuntu_Hello"

CallInv(a) ==
  /\ InvBefore(a) /\ InvRefused(a) /\ InvThreads(a) /\ InvConfirmed(a)
  /\ InvBranch(a) /\ InvPrompt(a) /\ InvExit(a) /\ InvReaped(a) /\ InvCancel(a)
  /\ InvSuccess(a)

(* The strengthening of the safety invariants that every step preserves.   *)
IInv == \A a \in Attempts : CallInv(a)
=============================================================================
