---------------------------- MODULE ModelStore ----------------------------
(***************************************************************************)
(* The face models of one user: the one JSON file that the add, remove and *)
(* clear commands write and that list and compare read, the guided capture *)
(* of a new model, and the Settings page that starts the same commands.    *)
(*                                                                         *)
(* A job is one run of a command.  It reads the file once, when it starts, *)
(* and writes what it read, edited, when it ends: for an add about a       *)
(* minute later.  There is no lock, and the file is written in place.      *)
(***************************************************************************)
EXTENDS Naturals, Sequences, SequencesExt

CONSTANTS
  Jobs,          \* runs of a command for this user
  MaxFrames,     \* frames an add looks at for a face (60 in the code)
  Steps,         \* number of guide steps (6)
  StepSamples,   \* samples kept of one step (2)
  MaxSamples     \* samples kept of one model (13)

ASSUME CaptureAssumption ==
  MaxFrames \in Nat \ {0} /\ Steps \in Nat \ {0}
    /\ StepSamples \in Nat \ {0} /\ MaxSamples \in Nat \ {0}

VARIABLES
  file,    \* the models file
  stored,  \* the models of the last file that was whole
  rows,    \* the models the Settings page lists
  at,      \* where a job is
  kind,    \* its command
  seen,    \* the models it has read
  target,  \* the id it removes
  scan,    \* its camera session
  fd       \* what became of the file it has open for writing

jobVars == <<kind, seen, target>>
vars == <<file, stored, rows, at, kind, seen, target, scan, fd>>

(* A model is known by the job that captured it; the id is what users see. *)
Model == [id : Nat, by : Jobs]

NoFile == [state |-> "none", models |-> <<>>]
TornFile == [state |-> "torn", models |-> <<>>]
Whole(models) == [state |-> "whole", models |-> models]

Editing == {"ask", "look", "guide", "edit", "write"}

NoScan == [frames |-> 0, light |-> "black", step |-> 0, got |-> 0, samples |-> 0]

Move(j, from, to) ==
  /\ at[j] = from
  /\ at' = [at EXCEPT ![j] = to]

-----------------------------------------------------------------------------
(* Reading.                                                                *)

(* Mutant: counted from the first model instead of the last. *)
NextIdAfterFirst(models) == IF models = <<>> THEN 0 ELSE Head(models).id + 1

(* Some ids can be skipped, but the last one is always the largest.        *)
NextId(models) == IF models = <<>> THEN 0 ELSE Last(models).id + 1

(* json.load raises for a file that was cut off, and nothing catches it.   *)
Parses == file.state # "torn"

Start(j, what, first) ==
  /\ Move(j, "idle", first)
  /\ kind' = [kind EXCEPT ![j] = what]
  /\ seen' = [seen EXCEPT ![j] = file.models]
  /\ UNCHANGED <<stored, rows, scan, fd>>

(* Mutant: the file is opened for writing when it is read. *)
StartAddOpen(j) ==
  /\ Parses
  /\ Start(j, "add", "ask")
  /\ file' = TornFile
  /\ UNCHANGED target

StartAdd(j) ==
  /\ Parses
  /\ Start(j, "add", "ask")
  /\ UNCHANGED <<file, target>>

(* Both the terminal and the Settings page name a model by the id they     *)
(* were shown some time ago.                                               *)
StartRemove(j) ==
  \E m \in ToSet(rows) \union ToSet(stored) :
     /\ Parses
     /\ \E i \in 1..Len(file.models) : file.models[i].id = m.id
     /\ Start(j, "remove", "ask")
     /\ target' = [target EXCEPT ![j] = m.id]
     /\ UNCHANGED file

StartClear(j) ==
  /\ file.state # "none"
  /\ Start(j, "clear", "ask")
  /\ UNCHANGED <<file, target>>

(* Nothing to remove or to clear, or a file that does not parse.           *)
StartFails(j) ==
  \E what \in {"add", "remove", "clear"} :
     /\ IF file.state = "none" THEN what # "add" ELSE ~Parses /\ what # "clear"
     /\ Start(j, what, "failed")
     /\ UNCHANGED <<file, target>>

(* `ubuntu-hello list` fails without a file it can parse.                  *)
Listed == IF file.state = "whole" THEN file.models ELSE <<>>

(* load_model_list: the rows of the page, or none when the command fails.  *)
ListModels ==
  /\ rows' = Listed
  /\ UNCHANGED <<file, stored, at, jobVars, scan, fd>>

-----------------------------------------------------------------------------
(* The user: a label for add, yes or no for remove and clear.              *)

Answer(j) ==
  /\ Move(j, "ask", IF kind[j] = "add" THEN "look" ELSE "edit")
  /\ UNCHANGED <<file, stored, rows, jobVars, scan, fd>>

Decline(j) ==
  /\ kind[j] # "add"
  /\ Move(j, "ask", "failed")
  /\ UNCHANGED <<file, stored, rows, jobVars, scan, fd>>

-----------------------------------------------------------------------------
(* The capture of add: a face in the first MaxFrames frames, then the      *)
(* guide steps, each with a deadline of its own.                           *)

Brighter(light, frame) ==
  CASE frame = "black" -> light
    [] frame = "dark"  -> IF light = "black" THEN "dark" ELSE light
    [] OTHER           -> "lit"

LookAt(j, frame) ==
  LET s == [scan[j] EXCEPT !.frames = @ + 1, !.light = Brighter(@, frame)]
      found == frame \in {"one", "many"}
      over == s.frames = MaxFrames
  IN /\ scan[j].frames < MaxFrames
     /\ Move(j, "look", CASE frame = "one" -> "guide"
                          [] frame = "many" -> "failed"
                          [] ~found /\ over -> "failed"
                          [] OTHER -> "look")
     /\ scan' = [scan EXCEPT ![j] = CASE frame = "one" -> [NoScan EXCEPT !.samples = 1]
                                            [] ~found /\ ~over -> s
                                            [] OTHER -> NoScan]
     /\ UNCHANGED <<file, stored, rows, jobVars, fd>>

Look(j) == \E frame \in {"black", "dark", "empty", "one", "many"} : LookAt(j, frame)

StepFull(s) == s.got = StepSamples \/ s.samples >= MaxSamples

(* One face whose descriptor is not a duplicate; every other frame of a    *)
(* step leaves things as they are.                                         *)
KeepSample(j) ==
  /\ at[j] = "guide"
  /\ ~StepFull(scan[j])
  /\ scan' = [scan EXCEPT ![j].got = @ + 1, ![j].samples = @ + 1]
  /\ UNCHANGED <<file, stored, rows, at, jobVars, fd>>

(* Mutant: a step ends when it has its samples, however long that takes. *)
EndStepWhenFull(j) ==
  /\ StepFull(scan[j])
  /\ at[j] = "guide"
  /\ LET s == [scan[j] EXCEPT !.step = @ + 1, !.got = 0]
     IN /\ scan' = [scan EXCEPT ![j] = s]
        /\ at' = [at EXCEPT ![j] = IF s.step = Steps THEN "edit" ELSE "guide"]
  /\ UNCHANGED <<file, stored, rows, jobVars, fd>>

(* The step has its samples, or its time is over.  After the last one the  *)
(* card says that the model is saved, and nothing is written yet.          *)
EndStep(j) ==
  /\ at[j] = "guide"
  /\ LET s == [scan[j] EXCEPT !.step = @ + 1, !.got = 0]
         over == s.step = Steps \/ s.samples >= MaxSamples
     IN /\ scan' = [scan EXCEPT ![j] = IF over THEN NoScan ELSE s]
        /\ at' = [at EXCEPT ![j] = IF over THEN "edit" ELSE "guide"]
  /\ UNCHANGED <<file, stored, rows, jobVars, fd>>

-----------------------------------------------------------------------------
(* Writing.                                                                *)

(* The loop of remove: what it keeps of the first n models.                *)
Without(models, id) ==
  LET kept[n \in 0 .. Len(models)] ==
        IF n = 0 THEN <<>>
        ELSE IF models[n].id = id THEN kept[n - 1]
        ELSE Append(kept[n - 1], models[n])
  IN kept[Len(models)]

(* Mutant: the models after the removed one go with it. *)
EditedShort(j) ==
  IF kind[j] = "add"
  THEN Append(seen[j], [id |-> NextId(seen[j]), by |-> j])
  ELSE SelectSeq(seen[j], LAMBDA m : m.id < target[j])

Edited(j) ==
  IF kind[j] = "add"
  THEN Append(seen[j], [id |-> NextId(seen[j]), by |-> j])
  ELSE Without(seen[j], target[j])

(* clear, and remove when it has read one model only, delete the file.     *)
Deletes(j) == kind[j] = "clear" \/ (kind[j] = "remove" /\ Len(seen[j]) = 1)

(* Another process touched the same open file, or took it away.            *)
Disturbed(j, how) ==
  [k \in Jobs |-> IF k # j /\ at[k] = "write" /\ fd[k] # "gone" THEN how ELSE fd[k]]

Delete(j) ==
  /\ Deletes(j)
  /\ Move(j, "edit", IF file.state = "none" THEN "failed" ELSE "done")
  /\ file' = NoFile
  /\ stored' = <<>>
  /\ fd' = Disturbed(j, "gone")
  /\ UNCHANGED <<rows, jobVars, scan>>

(* open(enc_file, "w") *)
Truncate(j) ==
  /\ ~Deletes(j)
  /\ Move(j, "edit", "write")
  /\ file' = TornFile
  /\ fd' = [Disturbed(j, "shared") EXCEPT ![j] =
              IF \E k \in Jobs \ {j} : at[k] = "write" /\ fd[k] # "gone" THEN "shared" ELSE "own"]
  /\ UNCHANGED <<stored, rows, jobVars, scan>>

(* json.dump and close.  Two writers of one file may leave a mixture;      *)
(* chmod fails when the file has been deleted.                             *)
Dump(j) ==
  /\ Move(j, "write", IF kind[j] = "add" /\ file.state = "none" THEN "failed" ELSE "done")
  /\ IF fd[j] = "gone"
     THEN UNCHANGED <<file, stored, fd>>
     ELSE /\ fd' = Disturbed(j, "shared")
          /\ \/ file' = Whole(Edited(j)) /\ stored' = Edited(j)
             \/ fd[j] = "shared" /\ file' = TornFile /\ stored' = stored
  /\ UNCHANGED <<rows, jobVars, scan>>

(* Ctrl+C, a kill, an error in the camera or the encoder, a full disk.     *)
Stop(j) ==
  /\ at[j] \in Editing
  /\ at' = [at EXCEPT ![j] = "stopped"]
  /\ scan' = [scan EXCEPT ![j] = NoScan]
  /\ UNCHANGED <<file, stored, rows, jobVars, fd>>

-----------------------------------------------------------------------------
Init ==
  /\ file = NoFile
  /\ stored = <<>>
  /\ rows = <<>>
  /\ at = [j \in Jobs |-> "idle"]
  /\ kind = [j \in Jobs |-> "add"]
  /\ seen = [j \in Jobs |-> <<>>]
  /\ target = [j \in Jobs |-> 0]
  /\ scan = [j \in Jobs |-> NoScan]
  /\ fd = [j \in Jobs |-> "none"]

Begin(j) == StartAdd(j) \/ StartRemove(j) \/ StartClear(j) \/ StartFails(j)

Capture(j) == Look(j) \/ KeepSample(j) \/ EndStep(j)

Save(j) == Delete(j) \/ Truncate(j) \/ Dump(j)

Next ==
  \/ ListModels
  \/ \E j \in Jobs : Begin(j) \/ Answer(j) \/ Decline(j) \/ Capture(j) \/ Save(j) \/ Stop(j)

Spec == Init /\ [][Next]_vars

(* The camera returns frames, the clock of a step runs, the disk answers;  *)
(* nothing is assumed of the user.                                         *)
Fairness ==
  \A j \in Jobs : WF_vars(Look(j)) /\ WF_vars(EndStep(j)) /\ WF_vars(Save(j))

FairSpec == Spec /\ Fairness

-----------------------------------------------------------------------------
Scan ==
  [frames : 0..MaxFrames, light : {"black", "dark", "lit"}, step : 0..Steps,
   got : 0..StepSamples, samples : 0..MaxSamples]

TypeOK ==
  /\ file \in [state : {"none", "torn", "whole"}, models : Seq(Model)]
  /\ stored \in Seq(Model)
  /\ rows \in Seq(Model)
  /\ at \in [Jobs -> {"idle", "done", "failed", "stopped"} \union Editing]
  /\ kind \in [Jobs -> {"add", "remove", "clear"}]
  /\ seen \in [Jobs -> Seq(Model)]
  /\ target \in [Jobs -> Nat]
  /\ scan \in [Jobs -> Scan]
  /\ fd \in [Jobs -> {"none", "own", "shared", "gone"}]

(* Whatever jobs overlap, the ids of a whole file grow, so an id names one *)
(* model and the last one is the largest (the comment add.py relies on),   *)
(* and a file without models is never left behind.                         *)
IdsGrow ==
  file.state = "whole" =>
    /\ file.models # <<>>
    /\ \A i, k \in 1..Len(file.models) : i < k => file.models[i].id < file.models[k].id

StoreInv == TypeOK /\ IdsGrow

(* A stored model is lost only to a command that was asked to take it away *)
(* or to one that has not read it: an add or remove that overlapped.       *)
LostOnlyToStale ==
  [][\A m \in ToSet(stored) \ ToSet(stored') : \E j \in Jobs :
       /\ at[j] # at'[j] /\ at'[j] = "done"
       /\ \/ kind[j] = "clear"
          \/ kind[j] = "remove" /\ target[j] = m.id
          \/ m \notin ToSet(seen[j])]_vars

(* The file stays cut off only after a command that was stopped while it   *)
(* wrote it, or after two that wrote it at once.                           *)
TornHasCause ==
  file.state = "torn" =>
    \/ \E j \in Jobs : at[j] = "write" /\ fd[j] # "gone"
    \/ \E j \in Jobs : at[j] = "stopped" /\ fd[j] # "none"
    \/ \E j \in Jobs : fd[j] = "shared"

Resting == \A j \in Jobs : at[j] \in Editing => kind[j] = "clear"

(* A file that is cut off, with nobody left who has read it before, stays  *)
(* so until it is cleared: no further add or remove repairs it.            *)
TornStays ==
  [][file.state = "torn" /\ Resting =>
       \/ file'.state = "torn" /\ Resting'
       \/ \E j \in Jobs : kind[j] = "clear" /\ at'[j] = "done"]_vars

(* Every model that is lost, and every repair of a file that was cut off,  *)
(* has one of these two explanations.                                      *)
LossesExplained == LostOnlyToStale /\ TornStays

(* An enrolment that has begun to look for a face ends, with or without a  *)
(* face in front of the camera, when it is not stopped.                    *)
EnrolmentEnds ==
  \A j \in Jobs : at[j] = "look" ~> at[j] \in {"done", "failed", "stopped"}

-----------------------------------------------------------------------------
(* The inductive invariant behind ModelStoreProofs.                        *)

Growing(models) ==
  \A i, k \in 1..Len(models) : i < k => models[i].id < models[k].id

(* Whatever is read or written, whoever else writes, has ids that grow.    *)
InvOrder ==
  /\ file.state # "whole" => file.models = <<>>
  /\ file.state = "whole" => file.models # <<>>
  /\ file.state = "none" => stored = <<>>
  /\ Growing(file.models)
  /\ \A j \in Jobs : Growing(seen[j])

(* A remove goes on only with an id that it has read; who writes has the   *)
(* file open, and never to delete it.                                      *)
InvJobs(j) ==
  /\ kind[j] = "remove" /\ at[j] \in Editing =>
        \E i \in 1..Len(seen[j]) : seen[j][i].id = target[j]
  /\ at[j] = "write" => fd[j] # "none" /\ ~Deletes(j)
  /\ at[j] = "guide" => scan[j].step < Steps

StoreIndInv == InvOrder /\ (\A j \in Jobs : InvJobs(j)) /\ TornHasCause
=============================================================================
