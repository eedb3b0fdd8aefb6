---------------------------- MODULE KeyringSeal ----------------------------
(***************************************************************************)
(* The sealed login password of one user: the files under /etc/ubuntu-hello*)
(* that cli/keyring.py and keyring_crypto.py write, for the CLI and for    *)
(* pam_sm_setcred, and that try_set_keyring_authtok and keyring_restore.py *)
(* read.                                                                   *)
(*                                                                         *)
(* A job is one run of "ubuntu-hello keyring enable", "repair" or          *)
(* "disable", or the helper pam_sm_setcred starts.  It touches one file at *)
(* a time, may fail or be killed between any two of its steps, and no lock *)
(* keeps two jobs apart.  A file that a job wrote whole is named by the    *)
(* job: its password and master key are the job's.                         *)
(***************************************************************************)
EXTENDS Naturals

CONSTANTS
  Jobs,       \* runs of the keyring command for one user
  Passwords,  \* the passwords a job may be handed
  Overlap     \* may a job start while another one runs?

Nothing == 0

ASSUME JobsAssumption == Jobs \cap {"none", "torn", "legacy"} = {}
ASSUME PasswordsAssumption == Passwords \subseteq Nat \ {Nothing}
ASSUME OverlapAssumption == Overlap \in BOOLEAN

VARIABLES
  device,   \* /dev/tpmrm0 or /dev/tpm0 is there
  tools,    \* all of the tpm2-tools used are there
  blob,     \* keyring-keys/<user>
  pub,      \* tpm-keys/<user>.pub
  priv,     \* tpm-keys/<user>.priv
  master,   \* keyring-master.key: none, or the job that made it
  tmpKey,   \* keyring-master.key.tmp
  pending,  \* keyring-caching-pending/<user> is there; nothing here makes it
  ring,     \* the login keyring: "old", or "aside" once it has been renamed
  at,       \* where a job is
  kind,     \* what it was started for
  pw,       \* the password it was handed
  key,      \* the master key it encrypted with
  alive     \* FALSE when it was killed while tpm2_create goes on

keyVars == <<master, tmpKey, key>>
tpmFiles == <<pub, priv>>
flags == <<device, tools, pending, ring>>
jobVars == <<kind, pw, alive>>
sealVars == <<flags, blob, tpmFiles, keyVars, at, jobVars>>

Sealing == {"enable", "repair", "setcred"}

Ended == {"idle", "done", "failed", "killed"}

Quiet == \A w \in Jobs : at[w] \in Ended

Step(w, from, to) ==
  /\ at[w] = from
  /\ alive[w]
  /\ at' = [at EXCEPT ![w] = to]

-----------------------------------------------------------------------------
(* What the readers make of the files.                                     *)

TpmReads == IF tools /\ pub = priv /\ pub \in Jobs THEN pw[pub] ELSE Nothing

SoftReads ==
  IF blob \in Jobs /\ master \in Jobs /\ key[blob] = master THEN pw[blob] ELSE Nothing

(* try_set_keyring_authtok: no fallback when the TPM files are both there. *)
PamReads == IF pub # "none" /\ priv # "none" THEN TpmReads ELSE SoftReads

(* unseal_password of keyring_restore. *)
RestoreReads == IF TpmReads # Nothing THEN TpmReads ELSE SoftReads

(* pam_sm_setcred seals again what was sealed or asked for before. *)
Remembered == pending \/ pub # "none" \/ blob # "none"

-----------------------------------------------------------------------------
(* Starting a job.                                                         *)

Begin(w, what, first) ==
  /\ at[w] = "idle"
  /\ Overlap \/ Quiet
  /\ at' = [at EXCEPT ![w] = first]
  /\ kind' = [kind EXCEPT ![w] = what]
  /\ UNCHANGED <<flags, blob, tpmFiles, keyVars, alive>>

StartSeal(w) ==
  \E what \in Sealing, p \in Passwords :
     /\ what = "setcred" => Remembered
     /\ Begin(w, what, "tpm")
     /\ pw' = [pw EXCEPT ![w] = p]

StartDisable(w) ==
  /\ Begin(w, "disable", "delBlob")
  /\ UNCHANGED pw

(* _tpm_usable, which installs the tools when only they are missing; that  *)
(* fails, for instance, while another apt-get runs.                        *)
ChooseTpm(w) ==
  /\ Step(w, "tpm", "primary")
  /\ device
  /\ tools' = TRUE
  /\ UNCHANGED <<device, pending, ring, blob, tpmFiles, keyVars, jobVars>>

ChooseSoftware(w) ==
  /\ Step(w, "tpm", "key")
  /\ ~(device /\ tools)
  /\ UNCHANGED <<flags, blob, tpmFiles, keyVars, jobVars>>

-----------------------------------------------------------------------------
(* _seal_with_tpm.                                                         *)

(* Mutant: the software key is dropped before the TPM seal exists. *)
DropBlobFirst(w) ==
  /\ Step(w, "primary", "pub")
  /\ blob' = "none"
  /\ UNCHANGED <<flags, tpmFiles, keyVars, jobVars>>

CreatePrimary(w) ==
  /\ Step(w, "primary", "pub")
  /\ UNCHANGED <<flags, blob, tpmFiles, keyVars, jobVars>>

(* tpm2_create writes its two files one after the other, and goes on when  *)
(* the command that started it is killed.                                  *)
WritePub(w) ==
  /\ at[w] = "pub"
  /\ at' = [at EXCEPT ![w] = "priv"]
  /\ pub' = w
  /\ UNCHANGED <<flags, blob, priv, keyVars, jobVars>>

WritePriv(w) ==
  /\ at[w] = "priv"
  /\ at' = [at EXCEPT ![w] = IF alive[w] THEN "dropBlob" ELSE "killed"]
  /\ priv' = w
  /\ UNCHANGED <<flags, blob, pub, keyVars, jobVars>>

(* tpm2_create fails or is killed, and leaves the file it was writing as   *)
(* it was or empty.                                                        *)
CreateStops(w) ==
  /\ at[w] \in {"pub", "priv"}
  /\ at' = [at EXCEPT ![w] = IF alive[w] THEN "failed" ELSE "killed"]
  /\ pub' \in IF at[w] = "pub" THEN {pub, "torn"} ELSE {pub}
  /\ priv' \in IF at[w] = "priv" THEN {priv, "torn"} ELSE {priv}
  /\ UNCHANGED <<flags, blob, keyVars, jobVars>>

DropBlob(w) ==
  /\ Step(w, "dropBlob", "sealed")
  /\ blob' = "none"
  /\ UNCHANGED <<flags, tpmFiles, keyVars, jobVars>>

-----------------------------------------------------------------------------
(* _seal_with_software and ensure_master_key.                              *)

UseKey(w) ==
  /\ Step(w, "key", "open")
  /\ master # "none"
  /\ key' = [key EXCEPT ![w] = master]
  /\ UNCHANGED <<flags, blob, tpmFiles, master, tmpKey, jobVars>>

MissKey(w) ==
  /\ Step(w, "key", "makeKey")
  /\ master = "none"
  /\ UNCHANGED <<flags, blob, tpmFiles, keyVars, jobVars>>

(* Mutant: the key file itself is opened and written. *)
MakeKeyInPlace(w) ==
  /\ Step(w, "makeKey", "renameKey")
  /\ tmpKey = "none"
  /\ master' = "torn"
  /\ UNCHANGED <<flags, blob, tpmFiles, tmpKey, key, jobVars>>

(* O_EXCL: a temporary file that is in the way makes the job fail (Fail).  *)
MakeKey(w) ==
  /\ Step(w, "makeKey", "renameKey")
  /\ tmpKey = "none"
  /\ tmpKey' = w
  /\ UNCHANGED <<flags, blob, tpmFiles, master, key, jobVars>>

RenameKey(w) ==
  /\ Step(w, "renameKey", "open")
  /\ master' = w
  /\ tmpKey' = "none"
  /\ key' = [key EXCEPT ![w] = w]
  /\ UNCHANGED <<flags, blob, tpmFiles, jobVars>>

(* open(key_file, "w") truncates the file. *)
OpenBlob(w) ==
  /\ Step(w, "open", "write")
  /\ blob' = "torn"
  /\ UNCHANGED <<flags, tpmFiles, keyVars, jobVars>>

WriteBlob(w) ==
  /\ Step(w, "write", "dropPub")
  /\ blob' = w
  /\ UNCHANGED <<flags, tpmFiles, keyVars, jobVars>>

(* Mutant: a software seal leaves the TPM files as they are. *)
TpmFilesStay(w) ==
  /\ Step(w, "dropPub", "sealed")
  /\ UNCHANGED <<flags, blob, tpmFiles, keyVars, jobVars>>

DropPub(w) ==
  /\ Step(w, "dropPub", "dropPriv")
  /\ pub' = "none"
  /\ UNCHANGED <<flags, blob, priv, keyVars, jobVars>>

DropPriv(w) ==
  /\ Step(w, "dropPriv", "sealed")
  /\ priv' = "none"
  /\ UNCHANGED <<flags, blob, pub, keyVars, jobVars>>

-----------------------------------------------------------------------------
(* The end of a job.                                                       *)

SetAside(w) == ring' = IF kind[w] = "repair" THEN "aside" ELSE ring

(* Exit 0: pam_sm_setcred drops the pending marker, repair renames the     *)
(* login keyring.                                                          *)
Finish(w) ==
  /\ Step(w, "sealed", "done")
  /\ pending' = (pending /\ kind[w] # "setcred")
  /\ SetAside(w)
  /\ UNCHANGED <<device, tools, blob, tpmFiles, keyVars, jobVars>>

(* Mutant: the exit status of the seal is ignored. *)
FailUnnoticed(w) ==
  /\ at[w] \notin Ended \cup {"tpm", "pub", "priv"}
  /\ at[w] = "sealed" => kind[w] = "repair"
  /\ Step(w, at[w], "failed")
  /\ pending' = (pending /\ kind[w] # "setcred")
  /\ SetAside(w)
  /\ UNCHANGED <<device, tools, blob, tpmFiles, keyVars, jobVars>>

(* Exit 1 from any step that can raise. *)
Fail(w) ==
  /\ at[w] \notin Ended \cup {"tpm", "pub", "priv"}
  /\ at[w] = "sealed" => kind[w] = "repair"
  /\ Step(w, at[w], "failed")
  /\ UNCHANGED <<flags, blob, tpmFiles, keyVars, jobVars>>

(* The deadline of the PAM helper, which kills tpm2_create as well, the one *)
(* of the settings window, which does not, a signal or a loss of power.    *)
Kill(w) ==
  /\ at[w] \notin Ended
  /\ alive[w]
  /\ alive' = [alive EXCEPT ![w] = FALSE]
  /\ at' = [at EXCEPT ![w] = IF at[w] \in {"pub", "priv"} THEN @ ELSE "killed"]
  /\ UNCHANGED <<flags, blob, tpmFiles, keyVars, kind, pw>>

(* _keyring_disable, in the order of its paths. *)
DeleteBlob(w) ==
  /\ Step(w, "delBlob", "delPub")
  /\ blob' = "none"
  /\ UNCHANGED <<flags, tpmFiles, keyVars, jobVars>>

DeletePub(w) ==
  /\ Step(w, "delPub", "delPriv")
  /\ pub' = "none"
  /\ UNCHANGED <<flags, blob, priv, keyVars, jobVars>>

DeletePriv(w) ==
  /\ Step(w, "delPriv", "delPending")
  /\ priv' = "none"
  /\ UNCHANGED <<flags, blob, pub, keyVars, jobVars>>

DeletePending(w) ==
  /\ Step(w, "delPending", "done")
  /\ pending' = FALSE
  /\ UNCHANGED <<device, tools, ring, blob, tpmFiles, keyVars, jobVars>>

(* tpm2-tools is removed. *)
ToolsRemoved ==
  /\ Quiet
  /\ tools' = FALSE
  /\ UNCHANGED <<device, pending, ring, blob, tpmFiles, keyVars, at, jobVars>>

-----------------------------------------------------------------------------
SealInit ==
  /\ device \in BOOLEAN
  /\ tools \in BOOLEAN
  /\ pending \in BOOLEAN
  /\ ring = "old"
  /\ blob \in {"none", "legacy"}
  /\ pub = "none"
  /\ priv = "none"
  /\ master = "none"
  /\ tmpKey = "none"
  /\ key = [w \in Jobs |-> "none"]
  /\ at = [w \in Jobs |-> "idle"]
  /\ kind = [w \in Jobs |-> "none"]
  /\ pw = [w \in Jobs |-> Nothing]
  /\ alive = [w \in Jobs |-> TRUE]

SealSteps(w) ==
  \/ StartSeal(w) \/ ChooseTpm(w) \/ ChooseSoftware(w)
  \/ CreatePrimary(w) \/ WritePub(w) \/ WritePriv(w) \/ CreateStops(w) \/ DropBlob(w)
  \/ UseKey(w) \/ MissKey(w) \/ MakeKey(w) \/ RenameKey(w)
  \/ OpenBlob(w) \/ WriteBlob(w) \/ DropPub(w) \/ DropPriv(w)
  \/ Finish(w)

DisableSteps(w) ==
  \/ StartDisable(w)
  \/ DeleteBlob(w) \/ DeletePub(w) \/ DeletePriv(w) \/ DeletePending(w)

SealNext ==
  \/ \E w \in Jobs : SealSteps(w) \/ DisableSteps(w) \/ Fail(w) \/ Kill(w)
  \/ ToolsRemoved

SealSpec == SealInit /\ [][SealNext]_sealVars

-----------------------------------------------------------------------------
(* Properties.                                                             *)

Steps == {"idle", "tpm", "primary", "pub", "priv", "dropBlob", "key", "makeKey", "renameKey",
          "open", "write", "dropPub", "dropPriv", "sealed",
          "delBlob", "delPub", "delPriv", "delPending", "done", "failed", "killed"}

(* Every variable keeps its type; a key or a file that was written whole   *)
(* names a job.                                                            *)
SealTypeOK ==
  /\ device \in BOOLEAN /\ tools \in BOOLEAN /\ pending \in BOOLEAN
  /\ ring \in {"old", "aside"}
  /\ blob \in Jobs \cup {"none", "torn", "legacy"}
  /\ pub \in Jobs \cup {"none", "torn"}
  /\ priv \in Jobs \cup {"none", "torn"}
  /\ master \in Jobs \cup {"none"}
  /\ tmpKey \in Jobs \cup {"none"}
  /\ key \in [Jobs -> Jobs \cup {"none"}]
  /\ at \in [Jobs -> Steps]
  /\ kind \in [Jobs -> Sealing \cup {"disable", "none"}]
  /\ pw \in [Jobs -> Passwords \cup {Nothing}]
  /\ alive \in [Jobs -> BOOLEAN]

(* Whatever earlier jobs left behind, a seal that reports success is the   *)
(* password the next face login and a restore both get.                    *)
SealTakesEffect ==
  [][\A w \in Jobs :
       at[w] = "sealed" /\ at'[w] = "done" => PamReads' = pw[w] /\ RestoreReads' = pw[w]]_sealVars

(* A login loses the sealed password only where it is disabled or loses    *)
(* its tools, where the software blob is truncated under no TPM pair, and   *)
(* in three moments of tpm2_create: it writes over a pair that was read;    *)
(* its public file completes a pair with a private file that an earlier     *)
(* stop has left; or it is stopped having emptied its private file, beside  *)
(* which the software blob, still whole, is not looked for: keyring.py says *)
(* of the last two that a failure "must leave the previous credential       *)
(* usable".                                                                 *)
LostOnlyInPlace ==
  [][PamReads # Nothing /\ PamReads' = Nothing =>
       \/ tools /\ ~tools'
       \/ \E w \in Jobs :
            \/ kind[w] = "disable" /\ at'[w] # at[w]
            \/ /\ at[w] \in {"pub", "priv"} /\ at'[w] # at[w]
               /\ TpmReads # Nothing \/ (at[w] = "pub" /\ priv # "none") \/ priv' = "torn"
            \/ at[w] = "open" /\ at'[w] = "write" /\ (pub = "none" \/ priv = "none")]_sealVars

(* A repair moves the login keyring only once the next login can read a    *)
(* password to lock the new one with.                                      *)
RingMovedAfterSeal == [][ring' # ring => PamReads # Nothing]_sealVars

(* A request to seal at the next login stays until a login can read a      *)
(* password, or the user disables the feature.                             *)
RequestKept ==
  [][pending /\ ~pending' =>
       PamReads' # Nothing \/ \E w \in Jobs : kind[w] = "disable" /\ at'[w] # at[w]]_sealVars

(* A disable that reports success leaves nothing a reader can use and      *)
(* nothing that makes pam_sm_setcred seal again.                           *)
DisableForgets ==
  [][\A w \in Jobs :
       kind[w] = "disable" /\ at[w] # "done" /\ at'[w] = "done" =>
         ~Remembered' /\ priv' = "none" /\ RestoreReads' = Nothing]_sealVars

(* ensure_master_key returns the key that is there: it is never replaced,  *)
(* as that would make every blob of every user unreadable.                 *)
MasterKeyStands == [][master # "none" => master' = master]_sealVars

(* A success of either kind of job is what it reports.                     *)
ReportsHold == SealTakesEffect /\ DisableForgets

(* A password or the request for one is lost only where a job must do so.  *)
LossesHaveCause == LostOnlyInPlace /\ RequestKept

(* What cannot be made again, the keys and the login keyring, is replaced  *)
(* by nothing worse.                                                       *)
KeysStand == MasterKeyStands /\ RingMovedAfterSeal

-----------------------------------------------------------------------------
(* The inductive invariant behind KeyringSealProofs, for jobs that do not  *)
(* overlap.                                                                *)

OneAtATime == \A v, w \in Jobs : at[v] \notin Ended /\ at[w] \notin Ended => v = w

SoftSteps == {"key", "makeKey", "renameKey", "open", "write", "dropPub", "dropPriv"}

TpmSteps == {"primary", "pub", "priv", "dropBlob"}

(* A job that seals has a password. *)
InvPassword(w) ==
  at[w] \in SoftSteps \cup TpmSteps \cup {"tpm", "sealed"} => pw[w] \in Passwords

(* What is there on the way to a TPM seal. *)
InvTpm(w) ==
  /\ at[w] \in TpmSteps => tools
  /\ at[w] \in {"priv", "dropBlob"} => pub = w
  /\ at[w] = "dropBlob" => priv = w

(* A key is made only when there is none, and is used as it is. *)
InvSoft(w) ==
  /\ at[w] \in {"makeKey", "renameKey"} => master = "none"
  /\ at[w] \in {"open", "write", "dropPub", "dropPriv"} => master # "none" /\ key[w] = master
  /\ at[w] \in {"dropPub", "dropPriv"} => blob = w
  /\ at[w] = "dropPriv" => pub = "none"

InvSealed(w) ==
  at[w] = "sealed" =>
     \/ tools /\ pub = w /\ priv = w
     \/ /\ blob = w /\ master # "none" /\ key[w] = master
        /\ pub = "none" /\ priv = "none"

(* A job takes the steps of what it was started for; disabling has removed *)
(* what comes before its next step.                                        *)
InvKind(w) ==
  /\ at[w] \in SoftSteps \cup TpmSteps \cup {"tpm", "sealed"} => kind[w] \in Sealing
  /\ at[w] \in {"delBlob", "delPub", "delPriv", "delPending"} => kind[w] = "disable"

InvDisable(w) ==
  /\ at[w] \in {"delPub", "delPriv", "delPending"} => blob = "none"
  /\ at[w] \in {"delPriv", "delPending"} => pub = "none"
  /\ at[w] = "delPending" => priv = "none"

JobInv(w) ==
  InvPassword(w) /\ InvTpm(w) /\ InvSoft(w) /\ InvSealed(w) /\ InvKind(w) /\ InvDisable(w)

(* Between its first and its last step a job finds what it has written.    *)
SealInv == ~Overlap => OneAtATime /\ \A w \in Jobs : JobInv(w)
=============================================================================
