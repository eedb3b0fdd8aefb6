---------------------------- MODULE WalletRestore ----------------------------
(***************************************************************************)
(* The sweep that gives the users their wallet password back before the    *)
(* package goes: keyring_restore.py, run by package-prerm.sh and by        *)
(* uninstall.sh ("ubuntu-hello keyring restore --all", then rm -rf of the  *)
(* seals), or by hand.                                                     *)
(*                                                                         *)
(* The sweep unseals each user's login password and asserts it, over the   *)
(* user's session bus, to GNOME Keyring or to KWallet.  A bus call answers,*)
(* fails, or runs into its timeout; the tpm2 tools have none.  The sweep   *)
(* under prerm is cut off by timeout(1).  Time is counted in units of five *)
(* seconds, and only calls that use up their whole timeout take any.       *)
(* Meanwhile the users log in and out and change their passwords.          *)
(*                                                                         *)
(* The daemons are external: GNOME Keyring changes a master password only  *)
(* for one who knows it, pamOpen returns a handle only for the wallet's    *)
(* password and -1 otherwise.                                              *)
(***************************************************************************)
EXTENDS Integers, Sequences

CONSTANTS
  Names,      \* the users of the machine, in sorted order
  Homes,      \* what the users may have at the start, see HomeType
  Passwords,
  Removers,   \* what may run the sweep: "prerm", "script", "hand"
  Budget,     \* timeout(1)'s, in units
  MaxChanges  \* bound on what the users do meanwhile

ASSUME NamesAssumption == Len(Names) \in Nat /\ DOMAIN Names = 1 .. Len(Names)
ASSUME BudgetAssumption == Budget \in Nat /\ MaxChanges \in Nat
ASSUME RemoversAssumption == Removers \subseteq {"prerm", "script", "hand"}

VARIABLES
  remover,  \* what runs the sweep
  kde,      \* its own environment is that of a KDE session
  command,  \* the ubuntu-hello command is installed
  stage,    \* "start", "sweep", "swept", "gone" when the seals are, "over"
  todo,     \* the sealed users still to be done, by their places in Names
  at,       \* where the sweep is with the first of them
  secret,   \* his unsealed password
  result,   \* how it went for each user
  contexts, \* the TPM context files of _unseal_tpm are there
  home,     \* what each user has
  spent,    \* units of the budget used up
  cut,      \* timeout(1) has ended the sweep
  raised,   \* whose software blob ended it with an exception, by his place
  changes   \* what the users have done so far

sweepVars == <<todo, at, secret, result, contexts>>
setting == <<remover, kde, command>>
brokenOff == <<cut, raised>>
vars == <<setting, stage, sweepVars, home, spent, brokenOff, changes>>

Users == {Names[i] : i \in DOMAIN Names}

Nobody == "nobody"

Nothing == 0

NoPlace == 0

ASSUME PasswordsAssumption == Passwords \subseteq Nat \ {Nothing}

KwalletServices == {"kwalletd6", "kwalletd5"}

(* tpm, soft: the password a seal holds, Nothing when it cannot be read,   *)
(* -1 when there is none.  ring, wallet: what opens the login keyring and  *)
(* the KWallet of each service; Nothing when no daemon has one.            *)
None == -1

Seal == Passwords \union {Nothing, None}

HomeType ==
  [tpm : Seal, soft : Seal, bus : BOOLEAN, ring : Passwords \union {Nothing},
   wallet : [KwalletServices -> Passwords \union {Nothing}]]

ASSUME HomesAssumption == Homes \subseteq HomeType

(* The calls, with their timeouts in units.                                *)
Limit ==
  [alias |-> 2, session |-> 2, change |-> 6,
   wallets6 |-> 2, pam6 |-> 3, wallets5 |-> 2, pam5 |-> 3]

Calls == DOMAIN Limit

-----------------------------------------------------------------------------
(* The removal around the sweep.                                           *)

(* list_sealed_users.                                                      *)
IsSealed(u) == home[u].tpm # None \/ home[u].soft # None

BeginSweep ==
  /\ stage' = "sweep"
  /\ todo' = {i \in DOMAIN Names : IsSealed(Names[i])}
  /\ UNCHANGED <<at, secret, result, contexts>>

(* uh_package_prerm, and the command run by hand.                          *)
Start ==
  /\ stage = "start"
  /\ remover \in {"prerm", "hand"}
  /\ BeginSweep
  /\ UNCHANGED <<setting, home, spent, brokenOff, changes>>

(* uninstall.sh removes /usr/bin/ubuntu-hello and its modules first...     *)
RemoveCommand ==
  /\ stage = "start"
  /\ remover = "script"
  /\ command
  /\ command' = FALSE
  /\ UNCHANGED <<remover, kde, stage, sweepVars, home, spent, brokenOff, changes>>

(* ... so that its `command -v ubuntu-hello` finds none.                   *)
NoCommand ==
  /\ stage = "start"
  /\ remover = "script"
  /\ ~command
  /\ stage' = "swept"
  /\ UNCHANGED <<setting, sweepVars, home, spent, brokenOff, changes>>

SweepDone ==
  /\ stage = "sweep"
  /\ todo = {}
  /\ stage' = IF remover = "hand" THEN "over" ELSE "swept"
  /\ UNCHANGED <<setting, sweepVars, home, spent, brokenOff, changes>>

(* rm -rf /etc/ubuntu-hello.                                               *)
RemoveSeals ==
  /\ stage = "swept"
  /\ stage' = "gone"
  /\ contexts' = FALSE
  /\ UNCHANGED <<setting, todo, at, secret, result, home, spent, brokenOff, changes>>

(* Mutant: only the bus calls are timed.                                   *)
CutOffCalls ==
  /\ stage = "sweep"
  /\ remover = "prerm"
  /\ at \in Calls /\ spent + Limit[at] > Budget
  /\ stage' = "swept"
  /\ cut' = TRUE
  /\ at' = "next"
  /\ UNCHANGED <<setting, todo, secret, result, contexts, home, spent, raised, changes>>

(* timeout 120, when the sweep waits for longer than is left.              *)
CutOff ==
  /\ stage = "sweep"
  /\ remover = "prerm"
  /\ \/ at = "stuck"
     \/ at \in Calls /\ spent + Limit[at] > Budget
  /\ stage' = "swept"
  /\ cut' = TRUE
  /\ at' = "next"
  /\ UNCHANGED <<setting, todo, secret, result, contexts, home, spent, raised, changes>>

-----------------------------------------------------------------------------
(* One user.                                                               *)

First == CHOOSE i \in todo : \A k \in todo : i <= k

Current == IF todo = {} THEN Nobody ELSE Names[First]

At(place) == stage = "sweep" /\ todo # {} /\ at = place

Quick ==
  UNCHANGED <<setting, stage, home, spent, brokenOff, changes>>

(* A bus call that is over: at once or at the end of its timeout, which    *)
(* only prerm counts.                                                      *)
Took(call) ==
  /\ \/ spent' = spent
     \/ remover = "prerm" /\ spent' = spent + Limit[call] /\ spent' <= Budget
  /\ UNCHANGED <<setting, stage, home, brokenOff, changes>>

Finish(how) ==
  /\ result' = [result EXCEPT ![Current] = how]
  /\ todo' = todo \ {First}
  /\ at' = "next"
  /\ secret' = Nothing

Go(place) == at' = place /\ UNCHANGED <<todo, secret, result, contexts>>

(* unseal_password: the TPM pair first.  Its tools may fail, whatever they *)
(* hold; then, or with an empty answer, the software blob is read.         *)
Unsealed(u) ==
  LET soft == IF home[u].soft = None THEN Nothing ELSE home[u].soft
  IN IF home[u].tpm \in Passwords THEN {home[u].tpm, soft} ELSE {soft}

StartTpm ==
  /\ At("next")
  /\ home[Current].tpm # None
  /\ contexts' = TRUE
  /\ at' = "tpm"
  /\ UNCHANGED <<todo, secret, result>>
  /\ Quick

TpmHangs ==
  /\ At("tpm")
  /\ Go("stuck")
  /\ Quick

Unseal ==
  /\ \/ At("tpm")
     \/ At("next") /\ home[Current].tpm = None
  /\ contexts' = FALSE
  /\ \E p \in Unsealed(Current) :
        IF p = Nothing
        THEN Finish("failed")
        ELSE secret' = p /\ at' = "ready" /\ UNCHANGED <<todo, result>>
  /\ Quick

(* Only an unreadable file and what decrypt_password refuses count as "no  *)
(* password".  A blob that is not UTF-8, or a master key that can neither  *)
(* be read nor written (a leftover of its temporary file is enough), ends  *)
(* the whole sweep: restore_all_users catches nothing, prerm's `|| true`   *)
(* goes on.                                                                *)
UnsealRaises ==
  /\ \/ At("tpm")
     \/ At("next") /\ home[Current].tpm = None
  /\ home[Current].soft # None
  /\ raised' = First
  /\ stage' = IF remover = "hand" THEN "over" ELSE "swept"
  /\ at' = "next"
  /\ contexts' = FALSE
  /\ UNCHANGED <<setting, todo, secret, result, home, spent, cut, changes>>

(* session_bus_env finds no bus.                                           *)
NoSessionBus ==
  /\ At("ready")
  /\ ~home[Current].bus
  /\ Finish("failed")
  /\ UNCHANGED contexts
  /\ Quick

(* detect_wallet_backend reads the desktop from the sweep's environment,   *)
(* which is not the user's.                                                *)
ChooseGnome ==
  /\ At("ready")
  /\ home[Current].bus
  /\ ~kde
  /\ Go("alias")
  /\ Quick

ChooseKwallet ==
  /\ At("ready")
  /\ home[Current].bus
  /\ kde
  /\ Go("wallets6")
  /\ Quick

(* The KWallet salt cannot be read or has another size.                    *)
NoSalt ==
  /\ At("ready")
  /\ home[Current].bus
  /\ kde
  /\ Finish("failed")
  /\ UNCHANGED contexts
  /\ Quick

(* _restore_gnome_keyring.                                                 *)
ReadAlias ==
  /\ At("alias")
  /\ home[Current].bus /\ home[Current].ring # Nothing
  /\ Go("session")
  /\ Took("alias")

OpenSession ==
  /\ At("session")
  /\ home[Current].bus /\ home[Current].ring # Nothing
  /\ Go("change")
  /\ Took("session")

ChangeWithMasterPassword ==
  /\ At("change")
  /\ home[Current].bus /\ home[Current].ring = secret
  /\ Finish("ok")
  /\ UNCHANGED contexts
  /\ Took("change")

GnomeCalls == {"alias", "session", "change"}

(* Mutant: an error of a bus call ends the sweep.                          *)
GnomeCallRaises ==
  \E call \in GnomeCalls :
     /\ At(call)
     /\ result' = [result EXCEPT ![Current] = "failed"]
     /\ todo' = {}
     /\ at' = "next"
     /\ secret' = Nothing
     /\ UNCHANGED contexts
     /\ Took(call)

(* Any of them may fail: no daemon, a wrong password, a "/" for an alias   *)
(* that is not there, no answer in time, no one on the bus any more.       *)
GnomeCallFails ==
  \E call \in GnomeCalls :
     /\ At(call)
     /\ Finish("failed")
     /\ UNCHANGED contexts
     /\ Took(call)

(* _restore_kwallet, for its two services.                                 *)
Service == [wallets6 |-> "kwalletd6", pam6 |-> "kwalletd6",
            wallets5 |-> "kwalletd5", pam5 |-> "kwalletd5"]

Holds(call) == home[Current].bus /\ home[Current].wallet[Service[call]] # Nothing

ListWallets ==
  \E call \in {"wallets6", "wallets5"} :
     /\ At(call)
     /\ Holds(call)
     /\ Go(IF call = "wallets6" THEN "pam6" ELSE "pam5")
     /\ Took(call)

(* Mutant: any handle is good.                                             *)
PamOpensAnyHandle ==
  \E call \in {"pam6", "pam5"} :
     /\ At(call)
     /\ Holds(call)
     /\ Finish("ok")
     /\ UNCHANGED contexts
     /\ Took(call)

PamOpens ==
  \E call \in {"pam6", "pam5"} :
     /\ At(call)
     /\ Holds(call) /\ home[Current].wallet[Service[call]] = secret
     /\ Finish("ok")
     /\ UNCHANGED contexts
     /\ Took(call)

(* An error or a negative handle: the other service is tried, if any.      *)
KwalletCallFails ==
  \E call \in DOMAIN Service :
     /\ At(call)
     /\ IF Service[call] = "kwalletd6"
        THEN Go("wallets5")
        ELSE Finish("failed") /\ UNCHANGED contexts
     /\ Took(call)

-----------------------------------------------------------------------------
(* The users, while the sweep runs.                                        *)

Change(u, h) ==
  /\ stage = "sweep"
  /\ changes < MaxChanges
  /\ changes' = changes + 1
  /\ home' = [home EXCEPT ![u] = h]
  /\ UNCHANGED <<setting, stage, sweepVars, spent, brokenOff>>

LogInOrOut == \E u \in Users : Change(u, [home[u] EXCEPT !.bus = ~@])

ChangePassword ==
  \E u \in Users, p \in Passwords :
     \/ /\ home[u].ring # Nothing
        /\ Change(u, [home[u] EXCEPT !.ring = p])
     \/ \E s \in KwalletServices :
           /\ home[u].wallet[s] # Nothing
           /\ Change(u, [home[u] EXCEPT !.wallet[s] = p])

-----------------------------------------------------------------------------
Init ==
  /\ remover \in Removers
  /\ kde \in BOOLEAN
  /\ command = TRUE
  /\ stage = "start"
  /\ todo = {}
  /\ at = "next"
  /\ secret = Nothing
  /\ result = [u \in Users |-> "none"]
  /\ contexts = FALSE
  /\ home \in [Users -> Homes]
  /\ spent = 0
  /\ cut = FALSE
  /\ raised = NoPlace
  /\ changes = 0

Sweep ==
  \/ StartTpm \/ TpmHangs \/ Unseal \/ UnsealRaises
  \/ NoSessionBus \/ ChooseGnome \/ ChooseKwallet \/ NoSalt
  \/ ReadAlias \/ OpenSession \/ ChangeWithMasterPassword \/ GnomeCallFails
  \/ ListWallets \/ PamOpens \/ KwalletCallFails

Removal == Start \/ RemoveCommand \/ NoCommand \/ SweepDone \/ CutOff \/ RemoveSeals

Next == Sweep \/ Removal \/ LogInOrOut \/ ChangePassword

Spec == Init /\ [][Next]_vars

(* Calls end by their timeouts, tools that hang end by timeout(1) alone.   *)
FairSpec == Spec /\ WF_vars(Sweep \/ Removal)

-----------------------------------------------------------------------------
TypeOK ==
  /\ remover \in Removers /\ kde \in BOOLEAN /\ command \in BOOLEAN
  /\ stage \in {"start", "sweep", "swept", "gone", "over"}
  /\ todo \subseteq DOMAIN Names
  /\ at \in {"next", "tpm", "stuck", "ready"} \union Calls
  /\ secret \in Passwords \union {Nothing}
  /\ result \in [Users -> {"none", "ok", "failed"}]
  /\ contexts \in BOOLEAN
  /\ home \in [Users -> HomeType]
  /\ spent \in 0 .. Budget /\ cut \in BOOLEAN
  /\ raised \in {NoPlace} \union DOMAIN Names /\ changes \in 0 .. MaxChanges

(* A sealed user, by his place, with whom nothing has been tried.          *)
Untried(i) == IsSealed(Names[i]) /\ result[Names[i]] = "none"

SealsGone == stage = "gone" /\ remover = "prerm" /\ ~cut

(* package-prerm.sh deletes the seals only after the sweep tried to give   *)
(* their users the password back, unless timeout(1) cut it off or one      *)
(* user's software blob ended it with an exception: it left out that user  *)
(* and those after him, and nobody before.  Once the sweep is over no TPM  *)
(* context is left behind either.                                          *)
SealGoneTried ==
  /\ SealsGone =>
        \A i \in DOMAIN Names :
           Untried(i) => /\ raised # NoPlace /\ raised <= i
                         /\ home[Names[raised]].soft # None
  /\ stage \in {"over", "gone"} => ~contexts

SweepInv == TypeOK /\ SealGoneTried

(* restore_login_wallet_password reports a success only for a password     *)
(* that opened a wallet of the user's at that moment.                      *)
OkMeansOpened ==
  [][\A u \in Users : result[u] # "ok" /\ result'[u] = "ok" =>
        \/ home[u].ring = secret
        \/ \E s \in KwalletServices : home[u].wallet[s] = secret]_vars

(* "Never fail removal": whatever the buses and the TPM do, a package or   *)
(* script that removes comes to its end.                                   *)
RemovalEnds == remover # "hand" ~> stage = "gone"

-----------------------------------------------------------------------------
(* The inductive invariant behind WalletRestoreProofs.                     *)

(* timeout(1) cuts off the sweep of a package's removal.                   *)
InvCut == cut => remover = "prerm" /\ stage \in {"swept", "gone"}

(* From the start of a sweep on nobody is forgotten: who has a seal is     *)
(* still to be done or has been tried.  An exception leaves those out who  *)
(* were still to be done, of whom its user was the first.                  *)
InvTried ==
  /\ stage = "sweep" => \A i \in DOMAIN Names \ todo : ~Untried(i)
  /\ remover # "script" /\ ~cut /\ stage \in {"swept", "gone", "over"} =>
        \A i \in DOMAIN Names : Untried(i) => raised # NoPlace /\ raised <= i

(* An exception ends the sweep and comes from a software blob.             *)
InvRaised ==
  raised # NoPlace =>
    /\ stage \in {"swept", "gone", "over"}
    /\ home[Names[raised]].soft # None

(* The context files belong to the user the TPM works for.                 *)
InvContexts ==
  contexts =>
    \/ stage = "sweep" /\ todo # {} /\ at \in {"tpm", "stuck"}
    \/ stage = "swept" /\ cut

SweepIndInv == InvCut /\ InvTried /\ InvRaised /\ InvContexts
=============================================================================
