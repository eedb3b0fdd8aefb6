------------------------- MODULE PamIdentifyProofs -------------------------
(***************************************************************************)
(* Theorems about PamIdentify for any set of attempts, any set of options, *)
(* any number of retries, with and without interrupted waits.  *)
(***************************************************************************)
EXTENDS PamIdentify, TLAPS

(* One step of the call a or of its surroundings. *)
Step(a) ==
  \/ Main(a) \/ Waiter(a) \/ Prompt(a) \/ Compare(a)
  \/ User(a) \/ Program(a) \/ System(a)

-----------------------------------------------------------------------------
(* Type correctness.                                                       *)

(* Every step keeps the types.                                         *)
LEMMA TypeStep ==
  ASSUME TypeOK, NEW a \in Attempts, Step(a)
  PROVE  TypeOK'
<1> USE DEF TypeOK, mainVars, compareVars, waiterVars, passVars
<1>1. CASE Refuse(a)
  BY <1>1 DEF Refuse, Return, Goto, Results
<1>2. CASE SkipFace(a)
  BY <1>2 DEF SkipFace, Return, Goto, Results, Refusals
<1>3. CASE Admit(a)
  BY <1>3 DEF Admit, Goto
<1>4. CASE SpawnFails(a)
  BY <1>4 DEF SpawnFails, Return, Goto, Results, Refusals
<1>5. CASE Launch(a)
  BY <1>5 DEF Launch, Goto
<1>6. CASE WakeForPassword(a)
  BY <1>6 DEF WakeForPassword, Goto, Alive
<1>7. CASE GraceExpires(a)
  BY <1>7 DEF GraceExpires, Goto
<1>8. CASE ReturnPassword(a)
  BY <1>8 DEF ReturnPassword, Return, Goto, Results
<1>9. CASE WakeForFace(a)
  BY <1>9 DEF WakeForFace, Goto
<1>10. CASE RecordFailure(a)
  BY <1>10 DEF RecordFailure, Goto, UpdateFaceSkip, SkipClear
<1>11. CASE ReturnAwaited(a)
  BY <1>11 DEF ReturnAwaited, Return, Goto, Results, Refusals
<1>12. CASE DismissOff(a)
  BY <1>12 DEF DismissOff, Goto
<1>13. CASE DismissNative(a)
  BY <1>13 DEF DismissNative, Goto
<1>14. CASE DismissWithoutDevice(a)
  BY <1>14 DEF DismissWithoutDevice, Goto
<1>15. CASE FirstEnter(a)
  BY <1>15 DEF FirstEnter, Goto, SendEnter, PromptReturns
<1>16. CASE RetryEnter(a)
  BY <1>16 DEF RetryEnter, Goto, SendEnter, PromptReturns
<1>17. CASE StopPressing(a)
  BY <1>17 DEF StopPressing, Goto
<1>18. CASE JoinPass(a)
  BY <1>18 DEF JoinPass, Goto
<1>19. CASE RecordOutcome(a)
  BY <1>19 DEF RecordOutcome, Goto, UpdateFaceSkip, SkipClear
<1>20. CASE ReturnSuccess(a)
  BY <1>20 DEF ReturnSuccess, Return, Goto, Results
<1>21. CASE ReturnFailure(a)
  BY <1>21 DEF ReturnFailure, Return, Goto, Results, Refusals
<1>22. CASE Reap(a)
  BY <1>22 DEF Reap
<1>23. CASE ChildConfirms(a)
  BY <1>23 DEF ChildConfirms, Confirm
<1>24. CASE PromptCancelled(a)
  BY <1>24 DEF PromptCancelled
<1>25. CASE PassConfirms(a)
  BY <1>25 DEF PassConfirms, Confirm
<1>26. CASE CompareBoots(a)
  BY <1>26 DEF CompareBoots, SetCompare
<1>27. CASE CompareLoads(a)
  BY <1>27 DEF CompareLoads, SetCompare
<1>28. CASE CompareDecides(a)
  BY <1>28 DEF CompareDecides, SetCompare
<1>29. CASE CompareExits(a)
  BY <1>29 DEF CompareExits, SetCompare
<1>30. CASE CompareTerminated(a)
  BY <1>30 DEF CompareTerminated, SetCompare
<1>31. CASE UserSubmits(a)
  BY <1>31 DEF UserSubmits, PromptReturns
<1>32. CASE PromptFails(a)
  BY <1>32 DEF PromptFails, PromptReturns
<1>33. CASE Setcred(a)
  BY <1>33 DEF Setcred, Goto, SkipClear
<1>34. CASE GiveUp(a)
  BY <1>34 DEF GiveUp, Goto
<1>35. CASE ProgramKilled(a)
  BY <1>35 DEF ProgramKilled
<1>36. CASE WaitInterrupted(a)
  BY <1>36 DEF WaitInterrupted
<1>37. CASE CompareCancelled(a)
  BY <1>37 DEF CompareCancelled
<1>38. CASE CompareCrashes(a)
  BY <1>38 DEF CompareCrashes, SetCompare
<1>39. CASE OrphanReaped(a)
  BY <1>39 DEF OrphanReaped, SetCompare
<1> HIDE DEF TypeOK, mainVars, compareVars, waiterVars, passVars
<1> QED
  BY <1>1, <1>2, <1>3, <1>4, <1>5, <1>6, <1>7, <1>8, <1>9, <1>10,
     <1>11, <1>12, <1>13, <1>14, <1>15, <1>16, <1>17, <1>18, <1>19, <1>20,
     <1>21, <1>22, <1>23, <1>24, <1>25, <1>26, <1>27, <1>28, <1>29, <1>30,
     <1>31, <1>32, <1>33, <1>34, <1>35, <1>36, <1>37, <1>38, <1>39
     DEF Step, Main, Waiter, Prompt, Compare, User, Program, System

(* Every variable of every call keeps its type.                            *)
THEOREM TypeCorrect == Spec => []TypeOK
<1>1. Init => TypeOK
  <2> SUFFICES ASSUME Init PROVE TypeOK
    OBVIOUS
  <2>1. opt \in [Attempts -> Options]
    BY CallsAssumption DEF Init
  <2> QED BY <2>1 DEF Init, TypeOK
<1>2. TypeOK /\ [Next]_vars => TypeOK'
  <2> SUFFICES ASSUME TypeOK, [Next]_vars PROVE TypeOK'
    OBVIOUS
  <2>1. CASE Next
    BY <2>1, TypeStep DEF Next, Step
  <2>2. CASE UNCHANGED vars
    BY <2>2 DEF TypeOK, vars, mainVars, compareVars, waiterVars, passVars
  <2> QED BY <2>1, <2>2
<1> QED BY <1>1, <1>2, PTL DEF Spec

-----------------------------------------------------------------------------
(* The inductive invariant.                                                *)

(* A step of a call keeps the call's part of the invariant.                *)
LEMMA CallInvStep ==
  ASSUME TypeOK, NEW a \in Attempts, Step(a), CallInv(a)
  PROVE  CallInv(a)'
<1> USE DEF TypeOK, mainVars, compareVars, waiterVars, passVars, CallInv, InvBefore,
            InvRefused, InvThreads, InvConfirmed, InvBranch, InvPrompt, InvExit,
            InvReaped, InvCancel, InvSuccess, Refusals, Launched, FailedByCode, PassEnded, Over, AskPass, Options
<1>1. CASE Refuse(a)
  BY <1>1 DEF Refuse, Return, Goto
<1>2. CASE SkipFace(a)
  BY <1>2 DEF SkipFace, Return, Goto, Refusals
<1>3. CASE Admit(a)
  BY <1>3 DEF Admit, Goto
<1>4. CASE SpawnFails(a)
  BY <1>4 DEF SpawnFails, Return, Goto, Refusals
<1>5. CASE Launch(a)
  BY <1>5 DEF Launch, Goto
<1>6. CASE WakeForPassword(a)
  BY <1>6 DEF WakeForPassword, Goto, Alive
<1>7. CASE GraceExpires(a)
  BY <1>7 DEF GraceExpires, Goto, Alive
<1>8. CASE ReturnPassword(a)
  BY <1>8 DEF ReturnPassword, Return, Goto
<1>9. CASE WakeForFace(a)
  BY <1>9 DEF WakeForFace, Goto
<1>10. CASE RecordFailure(a)
  BY <1>10 DEF RecordFailure, Goto, UpdateFaceSkip, SkipClear
<1>11. CASE ReturnAwaited(a)
  BY <1>11 DEF ReturnAwaited, Return, Goto, Refusals
<1>12. CASE DismissOff(a)
  BY <1>12 DEF DismissOff, Goto
<1>13. CASE DismissNative(a)
  BY <1>13 DEF DismissNative, Goto
<1>14. CASE DismissWithoutDevice(a)
  BY <1>14 DEF DismissWithoutDevice, Goto
<1>15. CASE FirstEnter(a)
  BY <1>15, RetriesAssumption DEF FirstEnter, Goto, SendEnter, PromptReturns
<1>16. CASE RetryEnter(a)
  BY <1>16, RetriesAssumption DEF RetryEnter, Goto, SendEnter, PromptReturns
<1>17. CASE StopPressing(a)
  BY <1>17 DEF StopPressing, Goto
<1>18. CASE JoinPass(a)
  BY <1>18 DEF JoinPass, Goto
<1>19. CASE RecordOutcome(a)
  BY <1>19 DEF RecordOutcome, Goto, UpdateFaceSkip, SkipClear
<1>20. CASE ReturnSuccess(a)
  BY <1>20 DEF ReturnSuccess, Return, Goto
<1>21. CASE ReturnFailure(a)
  BY <1>21 DEF ReturnFailure, Return, Goto, Refusals
<1>22. CASE Reap(a)
  BY <1>22 DEF Reap
<1>23. CASE ChildConfirms(a)
  BY <1>23 DEF ChildConfirms, Confirm
<1>24. CASE PromptCancelled(a)
  BY <1>24 DEF PromptCancelled
<1>25. CASE PassConfirms(a)
  BY <1>25 DEF PassConfirms, Confirm
<1>26. CASE CompareBoots(a)
  BY <1>26 DEF CompareBoots, SetCompare
<1>27. CASE CompareLoads(a)
  BY <1>27 DEF CompareLoads, SetCompare
<1>28. CASE CompareDecides(a)
  BY <1>28 DEF CompareDecides, SetCompare
<1>29. CASE CompareExits(a)
  BY <1>29 DEF CompareExits, SetCompare
<1>30. CASE CompareTerminated(a)
  BY <1>30 DEF CompareTerminated, SetCompare
<1>31. CASE UserSubmits(a)
  BY <1>31 DEF UserSubmits, PromptReturns
<1>32. CASE PromptFails(a)
  BY <1>32 DEF PromptFails, PromptReturns
<1>33. CASE Setcred(a)
  BY <1>33 DEF Setcred, Goto, SkipClear
<1>34. CASE GiveUp(a)
  BY <1>34 DEF GiveUp, Goto
<1>35. CASE ProgramKilled(a)
  BY <1>35 DEF ProgramKilled, Alive
<1>36. CASE WaitInterrupted(a)
  BY <1>36 DEF WaitInterrupted
<1>37. CASE CompareCancelled(a)
  BY <1>37 DEF CompareCancelled
<1>38. CASE CompareCrashes(a)
  BY <1>38 DEF CompareCrashes, SetCompare, Alive
<1>39. CASE OrphanReaped(a)
  BY <1>39 DEF OrphanReaped, SetCompare
<1> HIDE DEF TypeOK, mainVars, compareVars, waiterVars, passVars, CallInv
<1> QED
  BY <1>1, <1>2, <1>3, <1>4, <1>5, <1>6, <1>7, <1>8, <1>9, <1>10,
     <1>11, <1>12, <1>13, <1>14, <1>15, <1>16, <1>17, <1>18, <1>19, <1>20,
     <1>21, <1>22, <1>23, <1>24, <1>25, <1>26, <1>27, <1>28, <1>29, <1>30,
     <1>31, <1>32, <1>33, <1>34, <1>35, <1>36, <1>37, <1>38, <1>39
     DEF Step, Main, Waiter, Prompt, Compare, User, Program, System

(* A step of one call changes nothing of another. *)
LEMMA OtherCalls ==
  ASSUME TypeOK, NEW a \in Attempts, Step(a), NEW b \in Attempts, a # b, CallInv(b)
  PROVE  CallInv(b)'
<1> DEFINE Same(f) == f'[b] = f[b]
<1>1. /\ Same(opt) /\ Same(pc) /\ Same(confirmation) /\ Same(compare) /\ Same(exit)
      /\ Same(term) /\ Same(waiter) /\ Same(status) /\ Same(pass) /\ Same(passResult)
      /\ Same(cancel) /\ Same(presses) /\ Same(authtok) /\ Same(result)
  <2> USE DEF TypeOK, mainVars, compareVars, waiterVars, passVars, Goto, Return, SetCompare,
              PromptReturns, Confirm, SendEnter
  <2>1. CASE Main(a)
    BY <2>1 DEF Main, Refuse, SkipFace, Admit, SpawnFails, Launch, WakeForPassword,
       GraceExpires, ReturnPassword, WakeForFace, RecordFailure, ReturnAwaited,
       DismissOff, DismissNative, DismissWithoutDevice, FirstEnter, RetryEnter,
       StopPressing, JoinPass, RecordOutcome, ReturnSuccess, ReturnFailure
  <2>2. CASE Waiter(a) \/ Prompt(a) \/ User(a)
    BY <2>2 DEF Waiter, Reap, ChildConfirms, Prompt, PromptCancelled, PassConfirms,
       User, UserSubmits, PromptFails
  <2>3. CASE Compare(a)
    BY <2>3 DEF Compare, CompareBoots, CompareLoads, CompareDecides, CompareExits,
       CompareTerminated
  <2>4. CASE Program(a) \/ System(a)
    BY <2>4 DEF Program, Setcred, GiveUp, ProgramKilled, System, WaitInterrupted,
       CompareCancelled, CompareCrashes, OrphanReaped
  <2> QED BY <2>1, <2>2, <2>3, <2>4 DEF Step
<1> QED
  BY <1>1 DEF CallInv, InvBefore, InvRefused, InvThreads, InvConfirmed, InvBranch,
     InvPrompt, InvExit, InvReaped, InvCancel, InvSuccess, Launched, FailedByCode, PassEnded, Over,
     AskPass

(* Every step of the system keeps the strengthening. *)
LEMMA IInvStep ==
  ASSUME TypeOK, IInv, [Next]_vars
  PROVE  IInv'
<1>1. CASE Next
  <2> SUFFICES ASSUME NEW b \in Attempts PROVE CallInv(b)'
    BY DEF IInv
  <2>1. PICK a \in Attempts : Step(a)
    BY <1>1 DEF Next, Step
  <2>2. CallInv(a) /\ CallInv(b)
    BY DEF IInv
  <2>3. CASE a = b
    BY <2>1, <2>2, <2>3, CallInvStep
  <2>4. CASE a # b
    BY <2>1, <2>2, <2>4, OtherCalls
  <2> QED BY <2>3, <2>4
<1>2. CASE UNCHANGED vars
  BY <1>2 DEF IInv, CallInv, InvBefore, InvRefused, InvThreads, InvConfirmed, InvBranch,
     InvPrompt, InvExit, InvReaped, InvCancel, InvSuccess, Launched, FailedByCode, PassEnded, Over,
     AskPass, vars, mainVars, compareVars, waiterVars, passVars
<1> QED BY <1>1, <1>2

(* It holds before any call. *)
LEMMA IInvInit == Init => IInv
<1> SUFFICES ASSUME Init, NEW a \in Attempts PROVE CallInv(a)
  BY DEF IInv
<1>1. /\ pc[a] = "idle" /\ confirmation[a] = "Unset" /\ compare[a] = "none"
      /\ exit[a] = "none" /\ waiter[a] = "none" /\ status[a] = "none"
      /\ term[a] = FALSE /\ pass[a] = "none" /\ passResult[a] = "none" /\ cancel[a] = FALSE
      /\ presses[a] = 0 /\ authtok[a] = "none" /\ result[a] = "none"
  BY DEF Init
<1> QED
  BY <1>1, RetriesAssumption
     DEF CallInv, InvBefore, InvRefused, InvThreads, InvConfirmed, InvBranch, InvPrompt,
         InvExit, InvReaped, InvCancel, InvSuccess, Launched, FailedByCode, PassEnded, Over

(* The strengthening holds in every reachable state. *)
THEOREM Invariance == Spec => []IInv
BY TypeCorrect, IInvInit, IInvStep, PTL DEF Spec

-----------------------------------------------------------------------------
(* The safety properties.                                                  *)

(* PAM_IGNORE leaves a token the user submitted, interrupted waits or not. *)
THEOREM IgnoreSafe == Spec => []IgnoreCarriesPassword
<1>1. IInv => IgnoreCarriesPassword
  BY DEF IInv, CallInv, InvPrompt, IgnoreCarriesPassword
<1> QED BY <1>1, Invariance, PTL

(* A failed face leaves the prompt alone, interrupted waits or not.        *)
THEOREM PromptSafe == Spec => []PromptKept
<1>1. TypeOK /\ IInv => PromptKept
  BY DEF TypeOK, IInv, CallInv, InvPrompt, PromptKept
<1> QED BY <1>1, TypeCorrect, Invariance, PTL

(* Without interrupted waits a login by face rests on compare's exit 0.    *)
THEOREM SuccessSafe ==
  ASSUME ~WaitInterrupts
  PROVE  Spec => []SuccessOnlyByFace
<1>1. IInv => SuccessOnlyByFace
  BY DEF IInv, CallInv, InvRefused, InvThreads, InvReaped, InvSuccess, Over,
     SuccessOnlyByFace
<1> QED BY <1>1, Invariance, PTL

(* Without interrupted waits a call that returns leaves no process, zombie *)
(* or thread behind.                                                       *)
THEOREM TeardownSafe ==
  ASSUME ~WaitInterrupts
  PROVE  Spec => []NothingLeftRunning
<1>1. IInv => NothingLeftRunning
  BY DEF IInv, CallInv, InvThreads, InvReaped, Over, NothingLeftRunning
<1> QED BY <1>1, Invariance, PTL

(* Both together: what a call leaves behind.                               *)
THEOREM LeavesCleanSafe ==
  ASSUME ~WaitInterrupts
  PROVE  Spec => []CallLeavesClean
BY PromptSafe, TeardownSafe, PTL DEF CallLeavesClean

(* What a call's compare has reported stays, and so do the options.        *)
LEMMA ReportStands ==
  ASSUME TypeOK, IInv, [Next]_vars, NEW b \in Attempts, status[b] # "none"
  PROVE  status'[b] = status[b] /\ opt' = opt
<1> USE DEF mainVars, waiterVars
<1>1. CASE Next
  <2>1. PICK a \in Attempts : Step(a)
    BY <1>1 DEF Next, Step
  <2>2. CASE Main(a)
    BY <2>2 DEF Main, Refuse, SkipFace, Admit, SpawnFails, Launch, WakeForPassword,
       GraceExpires, ReturnPassword, WakeForFace, RecordFailure, ReturnAwaited,
       DismissOff, DismissNative, DismissWithoutDevice, FirstEnter, RetryEnter,
       StopPressing, JoinPass, RecordOutcome, ReturnSuccess, ReturnFailure, Return,
       SendEnter
  <2>3. CASE Reap(a) \/ WaitInterrupted(a)
    <3>1. status[a] = "none" /\ opt' = opt
      BY <2>3 DEF Reap, WaitInterrupted, TypeOK, IInv, CallInv, InvBefore, InvThreads, Over
    <3>2. status'[b] = status[b]
      BY <2>3, <3>1 DEF Reap, WaitInterrupted, TypeOK
    <3> QED BY <3>1, <3>2
  <2>4. CASE ChildConfirms(a) \/ Prompt(a) \/ User(a) \/ Compare(a) \/ Program(a)
             \/ CompareCancelled(a) \/ CompareCrashes(a) \/ OrphanReaped(a)
    BY <2>4 DEF ChildConfirms, Prompt, PromptCancelled, PassConfirms, User, UserSubmits,
       PromptFails, Compare, CompareBoots, CompareLoads, CompareDecides, CompareExits,
       CompareTerminated, Program, Setcred, GiveUp, ProgramKilled, CompareCancelled,
       CompareCrashes, OrphanReaped
  <2> QED BY <2>1, <2>2, <2>3, <2>4 DEF Step, Waiter, System
<1>2. CASE UNCHANGED vars
  BY <1>2 DEF vars
<1> QED BY <1>1, <1>2

(* A failed face of a lock screen's call.                                  *)
Failed(a) ==
  /\ opt[a].skip /\ opt[a].screensaver
  /\ status[a] = "failure" \/ (status[a] = "abort" /\ opt[a].idleAbort)

(* Only a call that saw compare fail sets the marker, and unless its       *)
(* watcher may cancel it, compare failed by itself.                        *)
LEMMA MarkerSet ==
  ASSUME TypeOK, IInv, Next, skipMarker = "absent", skipMarker' # "absent"
  PROVE  \E a \in Attempts : Failed(a)
<1>1. PICK a \in Attempts : Step(a)
  BY DEF Next, Step
<1>2. CASE RecordFailure(a) \/ RecordOutcome(a)
  <2>1. confirmation[a] = "Ubuntu_Hello"
    BY <1>2 DEF RecordFailure, RecordOutcome, Goto, IInv, CallInv, InvBranch
  <2>2. status[a] = "abort" => opt[a].idleAbort
    BY <2>1 DEF IInv, CallInv, InvCancel
  <2> QED
    BY <1>2, <2>2 DEF RecordFailure, RecordOutcome, UpdateFaceSkip, SkipClear, FailedByCode, Failed
<1>3. CASE ~(RecordFailure(a) \/ RecordOutcome(a))
  <2>1. ~Main(a)
    BY <1>3 DEF Main, Refuse, SkipFace, Admit, SpawnFails, Launch, WakeForPassword,
       GraceExpires, ReturnPassword, WakeForFace, RecordFailure, ReturnAwaited,
       DismissOff, DismissNative, DismissWithoutDevice, FirstEnter, RetryEnter,
       StopPressing, JoinPass, RecordOutcome, ReturnSuccess, ReturnFailure, SendEnter
  <2>2. ~(Waiter(a) \/ Prompt(a) \/ User(a) \/ Compare(a) \/ Program(a) \/ System(a))
    BY DEF Waiter, Reap, ChildConfirms, Prompt, PromptCancelled, PassConfirms, User,
       UserSubmits, PromptFails, Compare, CompareBoots, CompareLoads, CompareDecides,
       CompareExits, CompareTerminated, Program, Setcred, SkipClear, GiveUp, ProgramKilled, System,
       WaitInterrupted, CompareCancelled, CompareCrashes, OrphanReaped
  <2> QED BY <1>1, <2>1, <2>2 DEF Step
<1> QED BY <1>2, <1>3

(* The marker never stands without a lock screen's compare behind it that  *)
(* failed by itself, or that its own session watcher could cancel, however *)
(* many calls of the user overlap, and with interrupted waits as well.     *)
THEOREM MarkerSafe == Spec => []MarkerHasCause
<1>1. Init => MarkerHasCause
  BY DEF Init, MarkerHasCause
<1>2. ASSUME TypeOK, IInv, MarkerHasCause, [Next]_vars
      PROVE  MarkerHasCause'
  <2> SUFFICES ASSUME skipMarker' # "absent"
               PROVE  \E a \in Attempts : Failed(a)'
    BY DEF MarkerHasCause, Failed
  <2>1. PICK a \in Attempts : Failed(a)
    BY <1>2, MarkerSet DEF MarkerHasCause, Failed, vars
  <2>2. status[a] # "none" /\ status'[a] = status[a] /\ opt' = opt
    BY <1>2, <2>1, ReportStands DEF Failed
  <2> QED BY <2>1, <2>2 DEF Failed
<1> QED BY <1>1, <1>2, TypeCorrect, Invariance, PTL DEF Spec

(* What a call that runs alone keeps from its beginning on: it is about to *)
(* answer success, or has answered it, only with every marker taken away.  *)
Forgiving(a) ==
  /\ Alone(a)
  /\ pc[a] = "conclude" /\ status[a] = "success" => skipMarker # "set"
  /\ result[a] = "PAM_SUCCESS" => skipMarker # "set"

(* The calls that are over only clear the marker, and stay over.           *)
LEMMA OthersForgive ==
  ASSUME TypeOK, IInv, NEW a \in Attempts, NEW b \in Attempts, b # a, Step(b),
         Forgiving(a)
  PROVE  Forgiving(a)'
<1> USE DEF mainVars, waiterVars
<1>1. pc[b] \in {"returned", "closed", "dead"}
  BY DEF Forgiving, Alone, Over
<1>2. waiter[b] # "waitpid"
  BY <1>1 DEF IInv, CallInv, InvBefore, InvThreads, Over
<1>3. ~Main(b)
  BY <1>1 DEF Main, Refuse, SkipFace, Admit, SpawnFails, Launch, WakeForPassword,
     GraceExpires, ReturnPassword, WakeForFace, RecordFailure, ReturnAwaited,
     DismissOff, DismissNative, DismissWithoutDevice, FirstEnter, RetryEnter,
     StopPressing, JoinPass, RecordOutcome, ReturnSuccess, ReturnFailure, Return, Goto
<1>4. /\ pc'[b] \in {"returned", "closed", "dead"}
      /\ \A c \in Attempts \ {b} : pc'[c] = pc[c]
      /\ result' = result /\ status' = status
      /\ skipMarker' = "set" => skipMarker = "set"
  BY <1>1, <1>2, <1>3 DEF Step, Waiter, Reap, ChildConfirms, Prompt, PromptCancelled,
     PassConfirms, User, UserSubmits, PromptFails, Compare, CompareBoots, CompareLoads,
     CompareDecides, CompareExits, CompareTerminated, Program, Setcred, SkipClear, GiveUp,
     ProgramKilled, Launched, Goto, System, WaitInterrupted, CompareCancelled,
     CompareCrashes, OrphanReaped, TypeOK
<1> QED BY <1>4 DEF Forgiving, Alone, Over

(* The call's own way to success leads through UpdateFaceSkip.             *)
LEMMA CallForgives ==
  ASSUME TypeOK, NEW a \in Attempts, CallInv(a), Step(a), Forgiving(a)
  PROVE  Forgiving(a)'
<1> USE DEF mainVars, waiterVars
<1>1. \A c \in Attempts \ {a} : pc'[c] = pc[c]
  BY DEF TypeOK, Step, Main, Refuse, SkipFace, Admit, SpawnFails, Launch,
     WakeForPassword, GraceExpires, ReturnPassword, WakeForFace, RecordFailure,
     ReturnAwaited, DismissOff, DismissNative, DismissWithoutDevice, FirstEnter,
     RetryEnter, StopPressing, JoinPass, RecordOutcome, ReturnSuccess, ReturnFailure,
     Return, Goto, Waiter, Reap, ChildConfirms, Prompt, PromptCancelled, PassConfirms,
     User, UserSubmits, PromptFails, Compare, CompareBoots, CompareLoads,
     CompareDecides, CompareExits, CompareTerminated, Program, Setcred, GiveUp,
     ProgramKilled, System, WaitInterrupted, CompareCancelled, CompareCrashes,
     OrphanReaped
<1>2. Alone(a)'
  BY <1>1 DEF Forgiving, Alone, Over
<1>3. CASE RecordFailure(a) \/ RecordOutcome(a)
  BY <1>2, <1>3 DEF RecordFailure, RecordOutcome, UpdateFaceSkip, SkipClear, Goto, FailedByCode,
     CallInv, InvRefused, InvBranch, Over, TypeOK, Forgiving
<1>4. CASE ReturnSuccess(a)
  BY <1>2, <1>4 DEF ReturnSuccess, Return, Goto, TypeOK, Forgiving
<1>5. CASE Refuse(a) \/ SkipFace(a) \/ SpawnFails(a) \/ ReturnPassword(a)
           \/ ReturnAwaited(a) \/ ReturnFailure(a)
  <2>1. pc'[a] = "returned" /\ result'[a] # "PAM_SUCCESS"
    BY <1>5 DEF Refuse, SkipFace, SpawnFails, ReturnPassword, ReturnAwaited,
       ReturnFailure, Return, Goto, TypeOK, Refusals
  <2> QED BY <1>2, <2>1 DEF Forgiving
<1>6. CASE Admit(a) \/ Launch(a) \/ WakeForPassword(a) \/ GraceExpires(a)
           \/ WakeForFace(a) \/ DismissOff(a) \/ DismissNative(a)
           \/ DismissWithoutDevice(a) \/ FirstEnter(a) \/ RetryEnter(a)
           \/ StopPressing(a) \/ JoinPass(a) \/ GiveUp(a) \/ ProgramKilled(a)
  <2>1. pc'[a] # "conclude" /\ result' = result /\ skipMarker' = skipMarker
    BY <1>6 DEF Admit, Launch, WakeForPassword, GraceExpires, WakeForFace, DismissOff,
       DismissNative, DismissWithoutDevice, FirstEnter, RetryEnter, StopPressing,
       JoinPass, GiveUp, ProgramKilled, SendEnter, Goto, TypeOK
  <2> QED BY <1>2, <2>1 DEF Forgiving
<1>7. CASE Setcred(a)
  BY <1>2, <1>7 DEF Setcred, SkipClear, Forgiving
<1>8. CASE Reap(a) \/ WaitInterrupted(a)
  <2>1. pc[a] # "conclude"
    BY <1>8 DEF Reap, WaitInterrupted, CallInv, InvConfirmed, InvBranch
  <2> QED BY <1>2, <1>8, <2>1 DEF Reap, WaitInterrupted, Forgiving
<1>9. CASE ChildConfirms(a) \/ Prompt(a) \/ User(a) \/ Compare(a)
           \/ CompareCancelled(a) \/ CompareCrashes(a) \/ OrphanReaped(a)
  BY <1>2, <1>9 DEF ChildConfirms, Prompt, PromptCancelled, PassConfirms, User,
     UserSubmits, PromptFails, Compare, CompareBoots, CompareLoads, CompareDecides,
     CompareExits, CompareTerminated, CompareCancelled, CompareCrashes, OrphanReaped,
     Forgiving
<1> QED
  BY <1>3, <1>4, <1>5, <1>6, <1>7, <1>8, <1>9
     DEF Step, Main, Waiter, Program, System

(* From the beginning of a call that has the user's account to itself, a   *)
(* success by face has taken every marker away that the file system would  *)
(* let go, for the rest of the behaviour.                                  *)
THEOREM ForgivenForGood == Spec => SuccessForgives
<1> SUFFICES ASSUME NEW a \in Attempts
             PROVE  Spec => [](Alone(a) /\ pc[a] = "idle"
                                 => [](result[a] = "PAM_SUCCESS" => skipMarker # "set"))
  BY DEF SuccessForgives
<1>1. TypeOK /\ IInv /\ Alone(a) /\ pc[a] = "idle" => Forgiving(a)
  BY DEF IInv, CallInv, InvRefused, Forgiving
<1>2. TypeOK /\ IInv /\ Forgiving(a) /\ [Next]_vars => Forgiving(a)'
  <2> SUFFICES ASSUME TypeOK, IInv, Forgiving(a), [Next]_vars
               PROVE  Forgiving(a)'
    OBVIOUS
  <2>1. CASE Next
    <3>1. PICK b \in Attempts : Step(b)
      BY <2>1 DEF Next, Step
    <3> QED BY <3>1, OthersForgive, CallForgives DEF IInv
  <2>2. CASE UNCHANGED vars
    BY <2>2 DEF vars, mainVars, waiterVars, Forgiving, Alone, Over
  <2> QED BY <2>1, <2>2
<1>3. Forgiving(a) => (result[a] = "PAM_SUCCESS" => skipMarker # "set")
  BY DEF Forgiving
<1> QED BY <1>1, <1>2, <1>3, TypeCorrect, Invariance, PTL DEF Spec

-----------------------------------------------------------------------------
(* Refinement of PamOutcome.                                               *)

(* How a move of the main thread shows in the stage.                       *)
LEMMA StageMoves ==
  ASSUME TypeOK, NEW a \in Attempts, NEW from, NEW to, Goto(a, from, to)
  PROVE  /\ Stage[a] = StageOf(from)
         /\ Stage' = [Stage EXCEPT ![a] = StageOf(to)]
         /\ StageOf(from) = StageOf(to) => Stage' = Stage
<1>1. Stage[a] = StageOf(from)
  BY DEF Goto, Stage
<1>2. Stage' = [Stage EXCEPT ![a] = StageOf(to)]
  <2>1. \A b \in Attempts : pc'[b] = IF b = a THEN to ELSE pc[b]
    BY DEF TypeOK, Goto
  <2> QED BY <2>1 DEF Stage
<1>3. [Stage EXCEPT ![a] = Stage[a]] = Stage
  BY DEF Stage
<1> QED BY <1>1, <1>2, <1>3

(* A call whose threads are there is open.                                 *)
LEMMA StageOpen ==
  ASSUME TypeOK, NEW a \in Attempts, CallInv(a), waiter[a] \in {"waitpid", "reaped"} \/
         pass[a] \in {"prompting", "returned"}
  PROVE  Stage[a] = "open" /\ pc[a] # "dead"
BY DEF TypeOK, CallInv, InvBefore, InvThreads, Over, PassEnded, Stage, StageOf

(* The launch gates: a refusal, the opening, or nothing.                   *)
LEMMA OutcomeLaunch ==
  ASSUME TypeOK, NEW a \in Attempts, CallInv(a),
         Refuse(a) \/ SkipFace(a) \/ Admit(a) \/ SpawnFails(a) \/ Launch(a)
  PROVE  [Outcome!Next]_(Outcome!vars)
<1>1. ASSUME NEW code \in Refusals, NEW from \in {"idle", "admitted"},
             Return(a, from, code),
             UNCHANGED <<confirmation, status, passResult>>
      PROVE  Outcome!Next
  <2>1. Goto(a, from, "returned")
    BY <1>1 DEF Return
  <2>2. Outcome!Refuse(a, code)
    BY <1>1, <2>1, StageMoves DEF Outcome!Refuse, Outcome!Move, Return, StageOf
  <2> QED BY <2>2 DEF Outcome!Next, Outcome!Refusals, Refusals
<1>2. CASE Refuse(a)
  BY <1>1, <1>2 DEF Refuse, waiterVars, passVars
<1>3. CASE SkipFace(a)
  BY <1>1, <1>3 DEF SkipFace, Refusals, waiterVars, passVars
<1>4. CASE SpawnFails(a)
  BY <1>1, <1>4 DEF SpawnFails, Refusals, waiterVars, passVars
<1>5. CASE Admit(a)
  <2>1. Goto(a, "idle", "admitted")
    BY <1>5 DEF Admit
  <2>2. UNCHANGED Stage
    BY <2>1, StageMoves DEF StageOf
  <2> QED BY <1>5, <2>2 DEF Admit, Outcome!vars, waiterVars, passVars
<1>6. CASE Launch(a)
  <2>1. Goto(a, "admitted", "waiting")
    BY <1>6 DEF Launch
  <2>2. Outcome!Open(a)
    BY <1>6, <2>1, StageMoves DEF Launch, Outcome!Open, Outcome!Move, StageOf
  <2> QED BY <2>2 DEF Outcome!Next
<1> QED BY <1>2, <1>3, <1>4, <1>5, <1>6

(* The threads: a report, a decision, or a decision that came too late.    *)
LEMMA OutcomeThreads ==
  ASSUME TypeOK, NEW a \in Attempts, CallInv(a),
         Waiter(a) \/ Prompt(a) \/ User(a) \/ WaitInterrupted(a)
  PROVE  [Outcome!Next]_(Outcome!vars)
<1> USE DEF mainVars, compareVars, waiterVars, passVars
<1>1. CASE Reap(a)
  <2>1. Stage[a] = "open" /\ status[a] = "none" /\ Stage' = Stage
    BY <1>1, StageOpen DEF Reap, CallInv, InvThreads, Stage
  <2>2. exit[a] \in {"success", "failure", "abort", "killed"}
    BY <1>1 DEF Reap, TypeOK, CallInv, InvExit
  <2>3. Outcome!FaceReports(a, exit[a])
    BY <1>1, <2>1 DEF Reap, Outcome!FaceReports
  <2> QED BY <2>2, <2>3 DEF Outcome!Next
<1>2. CASE WaitInterrupted(a)
  <2>1. Stage[a] = "open" /\ status[a] = "none" /\ Stage' = Stage
    BY <1>2, StageOpen DEF WaitInterrupted, CallInv, InvThreads, Stage
  <2>2. Outcome!FaceReports(a, "success")
    BY <1>2, <2>1 DEF WaitInterrupted, Outcome!FaceReports
  <2> QED BY <2>2 DEF Outcome!Next
<1>3. CASE ChildConfirms(a)
  <2>1. Stage[a] = "open" /\ status[a] # "none" /\ Stage' = Stage
    BY <1>3, StageOpen DEF ChildConfirms, CallInv, InvThreads, Stage
  <2>2. CASE confirmation[a] = "Unset"
    <3>1. Outcome!Decide(a, "Ubuntu_Hello")
      BY <1>3, <2>1, <2>2 DEF ChildConfirms, Confirm, Outcome!Decide
    <3> QED BY <3>1 DEF Outcome!Next
  <2>3. CASE confirmation[a] # "Unset"
    BY <1>3, <2>1, <2>3 DEF ChildConfirms, Confirm, TypeOK, Outcome!vars
  <2> QED BY <2>2, <2>3
<1>4. CASE PassConfirms(a)
  <2>1. Stage[a] = "open" /\ passResult[a] # "none" /\ Stage' = Stage
    BY <1>4, StageOpen DEF PassConfirms, CallInv, InvThreads, Stage
  <2>2. CASE confirmation[a] = "Unset"
    <3>1. Outcome!Decide(a, "Pam")
      BY <1>4, <2>1, <2>2 DEF PassConfirms, Confirm, Outcome!Decide
    <3> QED BY <3>1 DEF Outcome!Next
  <2>3. CASE confirmation[a] # "Unset"
    BY <1>4, <2>1, <2>3 DEF PassConfirms, Confirm, TypeOK, Outcome!vars
  <2> QED BY <2>2, <2>3
<1>5. CASE PromptCancelled(a)
  BY <1>5 DEF PromptCancelled, Outcome!vars, Stage
<1>6. ASSUME NEW code \in {"ok", "error"}, NEW token, PromptReturns(a, code, token),
             UNCHANGED <<pc, confirmation, status, result>>
      PROVE  Outcome!Next
  <2>1. Stage[a] = "open" /\ passResult[a] = "none" /\ Stage' = Stage
    BY <1>6, StageOpen DEF PromptReturns, CallInv, InvThreads, Stage
  <2>2. Outcome!PromptReports(a, code)
    BY <1>6, <2>1 DEF PromptReturns, Outcome!PromptReports
  <2> QED BY <2>2 DEF Outcome!Next
<1>7. CASE User(a)
  BY <1>6, <1>7 DEF User, UserSubmits, PromptFails
<1> QED
  BY <1>1, <1>2, <1>3, <1>4, <1>5, <1>7 DEF Waiter, Prompt

(* The main thread: an Enter that makes the prompt report, a return, or    *)
(* something the stack does not see.                                       *)
LEMMA OutcomeMain ==
  ASSUME TypeOK, NEW a \in Attempts, CallInv(a), Main(a),
         ~(Refuse(a) \/ SkipFace(a) \/ Admit(a) \/ SpawnFails(a) \/ Launch(a))
  PROVE  [Outcome!Next]_(Outcome!vars)
<1> USE DEF waiterVars, passVars
<1>1. ASSUME NEW from, NEW to, Goto(a, from, to), StageOf(from) = StageOf(to),
             UNCHANGED <<confirmation, status, passResult, result>>
      PROVE  UNCHANGED Outcome!vars
  BY <1>1, StageMoves DEF Outcome!vars
<1>2. ASSUME NEW from, NEW to, Goto(a, from, to), SendEnter(a),
             StageOf(from) = "open", StageOf(to) = "open"
      PROVE  [Outcome!Next]_(Outcome!vars)
  <2>1. Stage[a] = "open" /\ Stage' = Stage
    BY <1>2, StageMoves
  <2>2. CASE PromptReturns(a, "ok", "partial")
    <3>1. passResult[a] = "none"
      BY <2>2, StageOpen DEF PromptReturns, CallInv, InvThreads
    <3>2. Outcome!PromptReports(a, "ok")
      BY <1>2, <2>1, <2>2, <3>1 DEF PromptReturns, SendEnter, Outcome!PromptReports
    <3> QED BY <3>2 DEF Outcome!Next
  <2>3. CASE UNCHANGED passResult
    BY <1>2, <2>1, <2>3 DEF SendEnter, Outcome!vars
  <2> QED BY <1>2, <2>2, <2>3 DEF SendEnter
<1>3. ASSUME NEW from, StageOf(from) = "open",
             NEW code \in {"PAM_SUCCESS", "PAM_IGNORE", "PAM_CONV_ERR", "PAM_AUTH_ERR"},
             Return(a, from, code), confirmation[a] # "Unset", Outcome!Allowed(a, code),
             UNCHANGED <<confirmation, status, passResult>>
      PROVE  Outcome!Next
  <2>1. Goto(a, from, "returned")
    BY <1>3 DEF Return
  <2>2. Outcome!Close(a, code)
    BY <1>3, <2>1, StageMoves DEF Outcome!Close, Outcome!Move, Return, StageOf
  <2> QED BY <2>2 DEF Outcome!Next
<1>4. CASE WakeForPassword(a)
  BY <1>1, <1>4 DEF WakeForPassword, StageOf
<1>5. CASE GraceExpires(a)
  BY <1>1, <1>5 DEF GraceExpires, StageOf
<1>6. CASE WakeForFace(a)
  BY <1>1, <1>6 DEF WakeForFace, StageOf
<1>7. CASE RecordFailure(a)
  BY <1>1, <1>7 DEF RecordFailure, StageOf
<1>8. CASE DismissOff(a) \/ DismissNative(a) \/ DismissWithoutDevice(a)
  BY <1>1, <1>8 DEF DismissOff, DismissNative, DismissWithoutDevice, StageOf
<1>9. CASE FirstEnter(a) \/ RetryEnter(a)
  BY <1>2, <1>9 DEF FirstEnter, RetryEnter, StageOf
<1>10. CASE StopPressing(a) \/ JoinPass(a)
  BY <1>1, <1>10 DEF StopPressing, JoinPass, StageOf
<1>11. CASE RecordOutcome(a)
  BY <1>1, <1>11 DEF RecordOutcome, StageOf
<1>12. CASE ReturnPassword(a)
  <2>1. PICK here \in {"grace", "joinChild"} :
          Return(a, here, IF passResult[a] = "ok" THEN "PAM_IGNORE" ELSE "PAM_CONV_ERR")
    BY <1>12 DEF ReturnPassword
  <2>2. confirmation[a] = "Pam" /\ passResult[a] \in {"ok", "error"}
    BY <2>1 DEF Return, Goto, TypeOK, CallInv, InvBranch, InvConfirmed, InvThreads
  <2> QED
    BY <1>3, <1>12, <2>1, <2>2 DEF ReturnPassword, Outcome!Allowed, StageOf
<1>13. CASE ReturnAwaited(a)
  <2>1. confirmation[a] = "Ubuntu_Hello" /\ status[a] \in {"failure", "abort"}
    BY <1>13 DEF ReturnAwaited, Return, Goto, CallInv, InvBranch, FailedByCode
  <2> QED
    BY <1>3, <1>13, <2>1 DEF ReturnAwaited, Outcome!Allowed, StageOf
<1>14. CASE ReturnSuccess(a) \/ ReturnFailure(a)
  <2>1. confirmation[a] = "Ubuntu_Hello"
    BY <1>14 DEF ReturnSuccess, ReturnFailure, Return, Goto, CallInv, InvBranch
  <2> QED
    BY <1>3, <1>14, <2>1 DEF ReturnSuccess, ReturnFailure, Outcome!Allowed, StageOf
<1> QED
  BY <1>4, <1>5, <1>6, <1>7, <1>8, <1>9, <1>10, <1>11, <1>12, <1>13, <1>14 DEF Main

(* compare, the calling program and init: an abandoned call, or nothing.   *)
LEMMA OutcomeRest ==
  ASSUME TypeOK, NEW a \in Attempts, CallInv(a), Compare(a) \/ Program(a) \/ System(a),
         ~WaitInterrupted(a)
  PROVE  [Outcome!Next]_(Outcome!vars)
<1> USE DEF mainVars, waiterVars, passVars
<1>1. CASE Compare(a)
  BY <1>1 DEF Compare, CompareBoots, CompareLoads, CompareDecides, CompareExits,
     CompareTerminated, Outcome!vars, Stage
<1>2. CASE CompareCancelled(a) \/ CompareCrashes(a) \/ OrphanReaped(a)
  BY <1>2 DEF CompareCancelled, CompareCrashes, OrphanReaped, Outcome!vars, Stage
<1>3. CASE Setcred(a) \/ GiveUp(a)
  <2>1. Goto(a, "returned", "closed")
    BY <1>3 DEF Setcred, GiveUp
  <2>2. UNCHANGED Stage
    BY <2>1, StageMoves DEF StageOf
  <2> QED BY <1>3, <2>2 DEF Setcred, GiveUp, Outcome!vars
<1>4. CASE ProgramKilled(a)
  <2>1. Goto(a, pc[a], "dead") /\ StageOf(pc[a]) = "open"
    BY <1>4 DEF ProgramKilled, Goto, Launched, StageOf
  <2>2. Outcome!Abandon(a)
    BY <1>4, <2>1, StageMoves DEF ProgramKilled, Outcome!Abandon, Outcome!Move, StageOf
  <2> QED BY <2>2 DEF Outcome!Next
<1> QED BY <1>1, <1>2, <1>3, <1>4 DEF Program, System

(* identify(), with its threads, signals and processes, implements the     *)
(* decision rule the PAM stack relies on, interrupted waits or not.        *)
THEOREM Refinement == Spec => ImplementsOutcome
<1>1. Init => Outcome!Init
  BY DEF Init, Outcome!Init, Stage, StageOf
<1>2. ASSUME TypeOK, IInv, [Next]_vars
      PROVE  [Outcome!Next]_(Outcome!vars)
  <2>1. CASE Next
    <3>1. PICK a \in Attempts : Step(a)
      BY <2>1 DEF Next, Step
    <3>2. CallInv(a)
      BY <1>2 DEF IInv
    <3> QED
      BY <1>2, <3>1, <3>2, OutcomeLaunch, OutcomeThreads, OutcomeMain, OutcomeRest
         DEF Step, System
  <2>2. CASE UNCHANGED vars
    BY <2>2 DEF vars, mainVars, waiterVars, passVars, Outcome!vars, Stage
  <2> QED BY <1>2, <2>1, <2>2
<1> QED
  BY <1>1, <1>2, TypeCorrect, Invariance, PTL DEF Spec, ImplementsOutcome, Outcome!Spec
=============================================================================
