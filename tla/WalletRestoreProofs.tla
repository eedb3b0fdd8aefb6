------------------------ MODULE WalletRestoreProofs ------------------------
(***************************************************************************)
(* Proofs about WalletRestore, for any users, homes, passwords and budget: *)
(* the types, whom a sweep leaves out, and that a success is only reported *)
(* for a password that opened a wallet.                                    *)
(***************************************************************************)
EXTENDS WalletRestore, WellFoundedInduction, TLAPS

USE DEF vars, setting, sweepVars, brokenOff, Nothing, NoPlace, None

(* A set of natural numbers that is not empty has a least member.          *)
LEMMA LeastMember ==
  ASSUME NEW T \in SUBSET Nat, T # {}
  PROVE  \E i \in T : \A k \in T : i <= k
PROOF
<1>. DEFINE Below == {p \in Nat \X Nat : p[1] < p[2]}
<1>1. OpToRel(<, Nat) = Below
  BY Zenon DEF OpToRel
<1>2. IsWellFoundedOn(Below, Nat)
  BY Zenon, <1>1, NatLessThanWellFounded
<1>3. PICK i \in T : \A k \in T : ~(<<k, i>> \in Below)
  <2>. HIDE DEF Below
  <2>. QED BY <1>2, WFMin
<1>4. ASSUME NEW k \in T PROVE i <= k
  <2>1. <<k, i>> \in Nat \X Nat /\ (<<k, i>>)[1] = k /\ (<<k, i>>)[2] = i
    OBVIOUS
  <2>2. ~((<<k, i>>)[1] < (<<k, i>>)[2])
    BY <1>3, <2>1 DEF Below
  <2>. HIDE DEF Below
  <2>3. ~(k < i)
    BY <2>1, <2>2
  <2>. QED BY <2>3
<1>. QED
  BY <1>4

(* The user who is dealt with is one of those still to be done.            *)
LEMMA FirstIsTodo ==
  ASSUME todo \subseteq DOMAIN Names, todo # {}
  PROVE  /\ First \in todo /\ \A k \in todo : First <= k
         /\ Current = Names[First] /\ Current \in Users
PROOF
<1>1. \E i \in todo : \A k \in todo : i <= k
  BY LeastMember, NamesAssumption
<1>2. First \in todo /\ \A k \in todo : First <= k
  BY <1>1 DEF First
<1>. QED
  BY <1>2 DEF Current, Users

(* Where a call is, and the record of its timeouts.                        *)
LEMMA LimitIsNat == \A call \in Calls : Limit[call] \in Nat
BY DEF Calls, Limit

LEMMA CallNames ==
  Calls = {"alias", "session", "change", "wallets6", "pam6", "wallets5", "pam5"}
BY DEF Calls, Limit

LEMMA ServiceNames ==
  /\ DOMAIN Service = {"wallets6", "pam6", "wallets5", "pam5"}
  /\ \A call \in DOMAIN Service : Service[call] \in KwalletServices
BY DEF Service, KwalletServices

(* What a call that is over leaves alone, and what it may spend.           *)
LEMMA TookTypes ==
  ASSUME TypeOK, NEW call \in Calls, Took(call)
  PROVE  /\ spent' \in 0 .. Budget
         /\ UNCHANGED <<remover, kde, command, stage, home, cut, raised, changes>>
BY LimitIsNat, BudgetAssumption DEF TypeOK, Took

(* A user who is done with: his result is known, the others' places and    *)
(* results stay.                                                           *)
LEMMA FinishTypes ==
  ASSUME TypeOK, todo # {}, NEW how \in {"ok", "failed"}, Finish(how)
  PROVE  /\ todo' \subseteq DOMAIN Names
         /\ at' = "next" /\ secret' = Nothing
         /\ result' \in [Users -> {"none", "ok", "failed"}]
BY FirstIsTodo DEF TypeOK, Finish

LEMMA FinishTries ==
  ASSUME TypeOK, todo # {}, NEW how \in {"ok", "failed"}, Finish(how),
         UNCHANGED home, \A i \in DOMAIN Names \ todo : ~Untried(i)
  PROVE  (\A i \in DOMAIN Names \ todo : ~Untried(i))'
PROOF
<1>1. SUFFICES ASSUME NEW i \in DOMAIN Names, i \notin todo', IsSealed(Names[i]),
                      result'[Names[i]] = "none"
               PROVE  FALSE
  BY DEF Untried, IsSealed
<1>2. Current \in Users /\ Current = Names[First] /\ Names[i] \in Users
  BY FirstIsTodo DEF TypeOK, Users
<1>3. Names[i] # Current /\ result[Names[i]] = "none"
  BY <1>1, <1>2 DEF Finish, TypeOK
<1>4. i # First /\ i \notin todo
  BY <1>1, <1>2, <1>3 DEF Finish
<1>. QED
  BY <1>1, <1>3, <1>4 DEF Untried

-----------------------------------------------------------------------------
(* What the steps of the sweep have in common: each works for one user,    *)
(* who keeps what he has, and either is done with him or stays with him.   *)
(* An exception is a step of its own, see RaiseStep.                       *)
SweepStep ==
  /\ stage = "sweep" /\ todo # {}
  /\ UNCHANGED <<remover, kde, command, stage, home, cut, raised, changes>>
  /\ spent' \in 0 .. Budget
  /\ at' \in {"next", "tpm", "stuck", "ready"} \union Calls
  /\ secret' \in Passwords \union {Nothing}
  /\ \/ \E how \in {"ok", "failed"} : Finish(how)
     \/ UNCHANGED <<todo, result>>
  /\ contexts' => at' \in {"tpm", "stuck"} /\ todo' = todo
  /\ contexts' \in BOOLEAN

LEMMA TpmStep ==
  ASSUME TypeOK, InvContexts, StartTpm \/ TpmHangs \/ Unseal
  PROVE  SweepStep
PROOF
<1>1. CASE StartTpm
  BY <1>1 DEF StartTpm, At, Quick, TypeOK, SweepStep
<1>2. CASE TpmHangs
  BY <1>2 DEF TpmHangs, Go, At, Quick, TypeOK, SweepStep
<1>3. CASE Unseal
  <2>1. /\ stage = "sweep" /\ todo # {} /\ ~contexts'
        /\ contexts' \in BOOLEAN
        /\ UNCHANGED <<remover, kde, command, stage, home, cut, raised, changes, spent>>
    BY <1>3 DEF Unseal, At, Quick
  <2>2. Unsealed(Current) \subseteq Passwords \union {Nothing}
    <3>1. home[Current] \in HomeType
      BY <2>1, FirstIsTodo DEF TypeOK
    <3>. QED
      BY <3>1 DEF Unsealed, HomeType, Seal
  <2>3. PICK p \in Unsealed(Current) :
            IF p = Nothing
            THEN Finish("failed")
            ELSE secret' = p /\ at' = "ready" /\ UNCHANGED <<todo, result>>
    BY <1>3 DEF Unseal
  <2>4. CASE p = Nothing
    BY <2>1, <2>3, <2>4, FinishTypes DEF SweepStep, TypeOK
  <2>5. CASE p # Nothing
    BY <2>1, <2>2, <2>3, <2>5 DEF SweepStep, TypeOK
  <2>. QED
    BY <2>4, <2>5
<1>. QED
  BY <1>1, <1>2, <1>3

LEMMA ChoiceStep ==
  ASSUME TypeOK, InvContexts,
         NoSessionBus \/ ChooseGnome \/ ChooseKwallet \/ NoSalt
  PROVE  SweepStep
PROOF
<1>1. /\ stage = "sweep" /\ todo # {} /\ ~contexts /\ ~contexts'
      /\ UNCHANGED <<remover, kde, command, stage, home, cut, raised, changes, spent,
                  contexts>>
  BY DEF NoSessionBus, ChooseGnome, ChooseKwallet, NoSalt, At, Quick, Go, InvContexts
<1>2. CASE NoSessionBus \/ NoSalt
  BY <1>1, <1>2, FinishTypes DEF NoSessionBus, NoSalt, SweepStep, TypeOK
<1>3. CASE ChooseGnome \/ ChooseKwallet
  BY <1>1, <1>3, CallNames DEF ChooseGnome, ChooseKwallet, Go, SweepStep, TypeOK
<1>. QED
  BY <1>2, <1>3

(* A bus call: it has taken its time and leads to the next or to the end.  *)
LEMMA CallStep ==
  ASSUME TypeOK, InvContexts, NEW call \in Calls, At(call), Took(call),
         \/ \E next \in Calls : Go(next)
         \/ \E how \in {"ok", "failed"} : Finish(how) /\ UNCHANGED contexts
  PROVE  SweepStep
PROOF
<1>1. stage = "sweep" /\ todo # {} /\ at = call /\ ~contexts
  BY CallNames DEF At, InvContexts
<1>2. CASE \E next \in Calls : Go(next)
  BY <1>1, <1>2, TookTypes DEF Go, SweepStep, TypeOK
<1>3. CASE \E how \in {"ok", "failed"} : Finish(how) /\ UNCHANGED contexts
  BY <1>1, <1>3, TookTypes, FinishTypes DEF SweepStep, TypeOK
<1>. QED
  BY <1>2, <1>3

LEMMA GnomeStep ==
  ASSUME TypeOK, InvContexts,
         ReadAlias \/ OpenSession \/ ChangeWithMasterPassword \/ GnomeCallFails
  PROVE  SweepStep
PROOF
<1>1. CASE ReadAlias
  BY <1>1, CallStep, CallNames DEF ReadAlias
<1>2. CASE OpenSession
  BY <1>2, CallStep, CallNames DEF OpenSession
<1>3. CASE ChangeWithMasterPassword
  BY <1>3, CallStep, CallNames DEF ChangeWithMasterPassword
<1>4. CASE GnomeCallFails
  BY <1>4, CallStep, CallNames DEF GnomeCallFails, GnomeCalls
<1>. QED
  BY <1>1, <1>2, <1>3, <1>4

LEMMA KwalletStep ==
  ASSUME TypeOK, InvContexts, ListWallets \/ PamOpens \/ KwalletCallFails
  PROVE  SweepStep
PROOF
<1>1. CASE ListWallets
  BY <1>1, CallStep, CallNames DEF ListWallets
<1>2. CASE PamOpens
  BY <1>2, CallStep, CallNames DEF PamOpens
<1>3. CASE KwalletCallFails
  BY <1>3, CallStep, CallNames, ServiceNames DEF KwalletCallFails
<1>. QED
  BY <1>1, <1>2, <1>3

LEMMA SweepIsSweepStep ==
  ASSUME TypeOK, InvContexts, Sweep, ~UnsealRaises
  PROVE  SweepStep
BY TpmStep, ChoiceStep, GnomeStep, KwalletStep DEF Sweep

(* The exception of a blob ends the sweep at its user, the first of those  *)
(* still to be done.                                                       *)
LEMMA RaiseStep ==
  ASSUME TypeOK, UnsealRaises
  PROVE  /\ stage = "sweep" /\ stage' \in {"swept", "over"} /\ ~contexts'
         /\ raised' \in todo /\ \A k \in todo : raised' <= k
         /\ home[Names[raised']].soft # None
         /\ at' = "next" /\ contexts' \in BOOLEAN
         /\ UNCHANGED <<setting, todo, secret, result, home, spent, cut, changes>>
PROOF
<1>1. stage = "sweep" /\ todo # {}
  BY DEF UnsealRaises, At
<1>2. First \in todo /\ (\A k \in todo : First <= k) /\ Current = Names[First]
  BY <1>1, FirstIsTodo DEF TypeOK
<1>. QED
  BY <1>1, <1>2 DEF UnsealRaises

-----------------------------------------------------------------------------
(* The types.                                                              *)

LEMMA SweepTypes ==
  ASSUME TypeOK, SweepStep
  PROVE  TypeOK'
BY FinishTypes DEF SweepStep, TypeOK

LEMMA RaiseTypes ==
  ASSUME TypeOK, UnsealRaises
  PROVE  TypeOK'
BY RaiseStep DEF TypeOK

LEMMA RemovalTypes ==
  ASSUME TypeOK, Removal
  PROVE  TypeOK'
PROOF
<1>1. CASE Start
  BY <1>1 DEF Start, BeginSweep, TypeOK
<1>2. CASE RemoveCommand
  BY <1>2 DEF RemoveCommand, TypeOK
<1>3. CASE NoCommand \/ SweepDone \/ RemoveSeals
  BY <1>3 DEF NoCommand, SweepDone, RemoveSeals, TypeOK
<1>4. CASE CutOff
  BY <1>4 DEF CutOff, TypeOK
<1>. QED
  BY <1>1, <1>2, <1>3, <1>4 DEF Removal

(* What the users do changes nobody's seals.                               *)
LEMMA ChangeTypes ==
  ASSUME TypeOK, LogInOrOut \/ ChangePassword
  PROVE  /\ TypeOK' /\ stage = "sweep"
         /\ UNCHANGED <<setting, stage, sweepVars, brokenOff>>
         /\ \A u \in Users : IsSealed(u)' = IsSealed(u)
         /\ \A u \in Users : home'[u].soft = home[u].soft
PROOF
<1>1. PICK u \in Users :
         \E h : /\ Change(u, h) /\ h \in HomeType
                /\ h.tpm = home[u].tpm /\ h.soft = home[u].soft
  <2>1. \A v \in Users : home[v] \in HomeType
    BY DEF TypeOK
  <2>2. CASE LogInOrOut
    <3>1. PICK v \in Users : Change(v, [home[v] EXCEPT !.bus = ~@])
      BY <2>2 DEF LogInOrOut
    <3>. DEFINE h == [home[v] EXCEPT !.bus = ~@]
    <3>2. h \in HomeType /\ h.tpm = home[v].tpm /\ h.soft = home[v].soft
      BY <2>1 DEF HomeType
    <3>3. Change(v, h)
      BY <3>1
    <3>. HIDE DEF h
    <3>. QED
      BY <3>2, <3>3
  <2>3. CASE ChangePassword
    <3>1. PICK v \in Users, p \in Passwords :
             \/ Change(v, [home[v] EXCEPT !.ring = p])
             \/ \E s \in KwalletServices : Change(v, [home[v] EXCEPT !.wallet[s] = p])
      BY <2>3 DEF ChangePassword
    <3>2. CASE Change(v, [home[v] EXCEPT !.ring = p])
      <4>. DEFINE h == [home[v] EXCEPT !.ring = p]
      <4>1. h \in HomeType /\ h.tpm = home[v].tpm /\ h.soft = home[v].soft
        BY <2>1 DEF HomeType
      <4>2. Change(v, h)
        BY <3>2
      <4>. HIDE DEF h
      <4>. QED
        BY <4>1, <4>2
    <3>3. ASSUME NEW s \in KwalletServices,
                 Change(v, [home[v] EXCEPT !.wallet[s] = p])
          PROVE  \E h : /\ Change(v, h) /\ h \in HomeType
                        /\ h.tpm = home[v].tpm /\ h.soft = home[v].soft
      <4>. DEFINE h == [home[v] EXCEPT !.wallet[s] = p]
      <4>1. h \in HomeType /\ h.tpm = home[v].tpm /\ h.soft = home[v].soft
        BY <2>1 DEF HomeType
      <4>2. Change(v, h)
        BY <3>3
      <4>. HIDE DEF h
      <4>. QED
        BY <4>1, <4>2
    <3>. QED
      BY <3>1, <3>2, <3>3
  <2>. QED
    BY <2>2, <2>3
<1>2. PICK h \in HomeType :
         Change(u, h) /\ h.tpm = home[u].tpm /\ h.soft = home[u].soft
  BY <1>1
<1>3. home' = [home EXCEPT ![u] = h] /\ home' \in [Users -> HomeType]
  BY <1>2 DEF Change, TypeOK
<1>4. changes' \in 0 .. MaxChanges
  BY <1>2, BudgetAssumption DEF Change, TypeOK
<1>5. \A v \in Users : home'[v].tpm = home[v].tpm /\ home'[v].soft = home[v].soft
  BY <1>2, <1>3 DEF TypeOK
<1>. QED
  BY <1>2, <1>3, <1>4, <1>5 DEF Change, TypeOK, IsSealed

-----------------------------------------------------------------------------
(* Who is left out.                                                        *)

LEMMA InitHolds ==
  ASSUME Init
  PROVE  TypeOK /\ SweepIndInv
PROOF
<1>1. home \in [Users -> HomeType]
  BY HomesAssumption DEF Init
<1>2. TypeOK
  <2>1. result \in [Users -> {"none", "ok", "failed"}]
    BY DEF Init
  <2>2. spent \in 0 .. Budget /\ changes \in 0 .. MaxChanges
    BY BudgetAssumption DEF Init
  <2>. QED
    BY <1>1, <2>1, <2>2 DEF Init, TypeOK
<1>3. SweepIndInv
  BY DEF Init, SweepIndInv, InvCut, InvTried, InvRaised, InvContexts
<1>. QED
  BY <1>2, <1>3

(* Who has no seal in the list made at its start has none at all.          *)
LEMMA StartTries ==
  ASSUME TypeOK, Start
  PROVE  (\A i \in DOMAIN Names \ todo : ~Untried(i))'
BY DEF Start, BeginSweep, Untried, IsSealed

LEMMA SweepKeepsInv ==
  ASSUME TypeOK, SweepIndInv, SweepStep
  PROVE  SweepIndInv'
PROOF
<1>1. InvCut' /\ InvContexts' /\ InvRaised'
  BY DEF SweepIndInv, InvCut, InvContexts, InvRaised, SweepStep
<1>2. \A i \in DOMAIN Names \ todo : ~Untried(i)
  BY DEF SweepIndInv, InvTried, SweepStep
<1>3. (\A i \in DOMAIN Names \ todo : ~Untried(i))'
  <2>1. CASE \E how \in {"ok", "failed"} : Finish(how)
    BY <1>2, <2>1, FinishTries DEF SweepStep
  <2>2. CASE UNCHANGED <<todo, result>>
    BY <1>2, <2>2 DEF SweepStep, Untried, IsSealed
  <2>. QED
    BY <2>1, <2>2 DEF SweepStep
<1>4. InvTried'
  BY <1>3 DEF InvTried, SweepStep
<1>. QED
  BY <1>1, <1>4 DEF SweepIndInv

(* Who was left out is still to be done, so not before the exception.      *)
LEMMA RaiseKeepsInv ==
  ASSUME TypeOK, SweepIndInv, UnsealRaises
  PROVE  SweepIndInv'
PROOF
<1>1. InvCut' /\ InvContexts'
  BY RaiseStep DEF SweepIndInv, InvCut, InvContexts
<1>2. InvRaised'
  BY RaiseStep DEF InvRaised
<1>3. \A i \in DOMAIN Names : Untried(i)' => raised' # NoPlace /\ raised' <= i
  <2>1. SUFFICES ASSUME NEW i \in DOMAIN Names, Untried(i)'
                 PROVE  raised' # NoPlace /\ raised' <= i
    OBVIOUS
  <2>2. Untried(i)
    BY <2>1, RaiseStep DEF Untried, IsSealed
  <2>3. i \in todo
    BY <2>2, RaiseStep DEF SweepIndInv, InvTried
  <2>4. raised' \in DOMAIN Names
    BY RaiseStep DEF TypeOK
  <2>. QED
    BY <2>3, <2>4, RaiseStep, NamesAssumption
<1>4. InvTried'
  BY <1>3, RaiseStep DEF InvTried
<1>. QED
  BY <1>1, <1>2, <1>4 DEF SweepIndInv

LEMMA RemovalKeepsInv ==
  ASSUME TypeOK, SweepIndInv, Removal
  PROVE  SweepIndInv'
PROOF
<1>. USE DEF SweepIndInv, InvCut, InvRaised, InvContexts
<1>1. CASE Start
  <2>1. (\A i \in DOMAIN Names \ todo : ~Untried(i))'
    BY <1>1, StartTries
  <2>. QED
    BY <1>1, <2>1 DEF Start, BeginSweep, InvTried
<1>2. CASE RemoveCommand \/ NoCommand
  BY <1>2 DEF RemoveCommand, NoCommand, InvTried
<1>3. CASE SweepDone
  <2>1. \A i \in DOMAIN Names : ~Untried(i)
    BY <1>3 DEF SweepDone, InvTried
  <2>2. (\A i \in DOMAIN Names : ~Untried(i))'
    BY <1>3, <2>1 DEF SweepDone, Untried, IsSealed
  <2>. QED
    BY <1>3, <2>2 DEF SweepDone, InvTried
<1>4. CASE CutOff
  BY <1>4 DEF CutOff, InvTried
<1>5. CASE RemoveSeals
  BY <1>5 DEF RemoveSeals, InvTried, Untried, IsSealed
<1>. QED
  BY <1>1, <1>2, <1>3, <1>4, <1>5 DEF Removal

LEMMA ChangeKeepsInv ==
  ASSUME TypeOK, SweepIndInv, LogInOrOut \/ ChangePassword
  PROVE  SweepIndInv'
PROOF
<1>1. \A i \in DOMAIN Names : Names[i] \in Users
  BY DEF Users
<1>. QED
  BY <1>1, ChangeTypes
  DEF SweepIndInv, InvCut, InvTried, InvRaised, InvContexts, Untried

LEMMA StutterKeepsInv ==
  ASSUME TypeOK, SweepIndInv, UNCHANGED vars
  PROVE  TypeOK' /\ SweepIndInv'
BY DEF TypeOK, SweepIndInv, InvCut, InvTried, InvRaised, InvContexts, Untried,
       IsSealed

(* The inductive invariant: the types; for the sealed users that the sweep *)
(* has each of them still before it or behind it, or that the exception of *)
(* a software blob ended it before them; and the TPM's context files only  *)
(* while it works for one or was cut off doing so.                         *)
THEOREM SweepInductive == Spec => [](TypeOK /\ SweepIndInv)
PROOF
<1>1. Init => TypeOK /\ SweepIndInv
  BY InitHolds
<1>2. TypeOK /\ SweepIndInv /\ [Next]_vars => TypeOK' /\ SweepIndInv'
  <2>1. ASSUME TypeOK, SweepIndInv, Sweep PROVE TypeOK' /\ SweepIndInv'
    <3>1. CASE UnsealRaises
      BY <2>1, <3>1, RaiseTypes, RaiseKeepsInv
    <3>2. CASE ~UnsealRaises
      BY <2>1, <3>2, SweepIsSweepStep, SweepTypes, SweepKeepsInv DEF SweepIndInv
    <3>. QED
      BY <3>1, <3>2
  <2>2. ASSUME TypeOK, SweepIndInv, Removal PROVE TypeOK' /\ SweepIndInv'
    BY <2>2, RemovalTypes, RemovalKeepsInv
  <2>3. ASSUME TypeOK, SweepIndInv, LogInOrOut \/ ChangePassword
        PROVE  TypeOK' /\ SweepIndInv'
    BY <2>3, ChangeTypes, ChangeKeepsInv
  <2>. HIDE DEF vars
  <2>. QED
    BY <2>1, <2>2, <2>3, StutterKeepsInv DEF Next
<1>. QED
  BY <1>1, <1>2, PTL DEF Spec

(* For any users and homes: a package's removal deletes the seal of a user *)
(* who was not tried only when timeout(1) cut the sweep off, or when the   *)
(* software blob of that user or of one before him ended it with an        *)
(* exception; and a removal that came to its end leaves no context file.   *)
THEOREM SealsGoneAreTried == Spec => []SweepInv
PROOF
<1>1. TypeOK /\ SweepIndInv => SweepInv
  <2>1. ASSUME TypeOK, SweepIndInv PROVE SealGoneTried
    BY <2>1 DEF SweepIndInv, InvTried, InvRaised, InvContexts, SealsGone, SealGoneTried
  <2>. QED
    BY <2>1 DEF SweepInv
<1>. QED
  BY <1>1, SweepInductive, PTL

-----------------------------------------------------------------------------
(* A success means an open wallet.                                         *)

LEMMA FailureIsNoSuccess ==
  ASSUME TypeOK, NEW u \in Users, result[u] # "ok",
         \/ todo # {} /\ Finish("failed")
         \/ UNCHANGED result
  PROVE  result'[u] # "ok"
BY DEF Finish, TypeOK

LEMMA SuccessIsCurrent ==
  ASSUME TypeOK, NEW u \in Users, result[u] # "ok", result'[u] = "ok", Finish("ok")
  PROVE  u = Current
BY DEF Finish, TypeOK

(* restore_login_wallet_password says "ok" of a user only for a password   *)
(* that opened, at that moment, his login keyring or one of his wallets.   *)
THEOREM OkOnlyForOpened == Spec => OkMeansOpened
PROOF
<1>. DEFINE Opened(u) == \/ home[u].ring = secret
                         \/ \E s \in KwalletServices : home[u].wallet[s] = secret
<1>1. ASSUME TypeOK, NEW u \in Users, result[u] # "ok", result'[u] = "ok", [Next]_vars
      PROVE  Opened(u)
  <2>1. CASE ChangeWithMasterPassword
    <3>1. u = Current
      BY <1>1, <2>1, SuccessIsCurrent DEF ChangeWithMasterPassword
    <3>. QED
      BY <2>1, <3>1 DEF ChangeWithMasterPassword
  <2>2. CASE PamOpens
    <3>1. PICK call \in {"pam6", "pam5"} :
             home[Current].wallet[Service[call]] = secret /\ Finish("ok")
      BY <2>2 DEF PamOpens
    <3>2. u = Current
      BY <1>1, <3>1, SuccessIsCurrent
    <3>. QED
      BY <3>1, <3>2, ServiceNames
  <2>3. CASE StartTpm \/ TpmHangs \/ Unseal \/ UnsealRaises \/ NoSessionBus
             \/ ChooseGnome \/ ChooseKwallet \/ NoSalt \/ ReadAlias \/ OpenSession
             \/ GnomeCallFails \/ ListWallets \/ KwalletCallFails
    <3>1. \/ todo # {} /\ Finish("failed")
          \/ UNCHANGED result
      BY <2>3 DEF StartTpm, TpmHangs, Unseal, UnsealRaises, NoSessionBus, ChooseGnome,
           ChooseKwallet, NoSalt, ReadAlias, OpenSession, GnomeCallFails,
           ListWallets, KwalletCallFails, At, Go
    <3>. QED
      BY <1>1, <3>1, FailureIsNoSuccess
  <2>4. CASE Removal \/ LogInOrOut \/ ChangePassword \/ UNCHANGED vars
    BY <1>1, <2>4 DEF Removal, Start, BeginSweep, RemoveCommand, NoCommand,
         SweepDone, CutOff, RemoveSeals, LogInOrOut, ChangePassword, Change
  <2>. QED
    BY <1>1, <2>1, <2>2, <2>3, <2>4 DEF Next, Sweep
<1>2. TypeOK /\ [Next]_vars =>
        [\A u \in Users : result[u] # "ok" /\ result'[u] = "ok" => Opened(u)]_vars
  BY <1>1
<1>. QED
  BY <1>2, SweepInductive, PTL DEF Spec, OkMeansOpened
=============================================================================
