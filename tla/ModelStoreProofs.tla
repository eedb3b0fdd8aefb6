-------------------------- MODULE ModelStoreProofs --------------------------
(***************************************************************************)
(* Proofs about ModelStore, for any number of commands that overlap and    *)
(* any bounds of the capture: the ids of a whole file grow, a file that is *)
(* cut off has a cause, and every loss has an explanation.                 *)
(***************************************************************************)
EXTENDS ModelStore, WellFoundedInduction, TLAPS

USE DEF vars, jobVars

-----------------------------------------------------------------------------
(* The loop of remove.                                                     *)

(* A set of natural numbers that is not empty has a least member.          *)
LEMMA LeastMember ==
  ASSUME NEW T \in SUBSET Nat, T # {}
  PROVE  \E i \in T : \A k \in T : i <= k
PROOF
<1>. DEFINE Below == {p \in Nat \X Nat : p[1] < p[2]}
<1>1. OpToRel(<, Nat) = Below
  BY Zenon DEF OpToRel
<1>2. IsWellFoundedOn(Below, Nat)
  BY Zenon, <1>1, NatLessThanWellFounded
<1>3. PICK i \in T : \A k \in T : ~(<<k, i>> \in Below)
  <2>. HIDE DEF Below
  <2>. QED BY <1>2, WFMin
<1>4. ASSUME NEW k \in T PROVE i <= k
  <2>1. <<k, i>> \in Nat \X Nat /\ (<<k, i>>)[1] = k /\ (<<k, i>>)[2] = i
    OBVIOUS
  <2>2. ~((<<k, i>>)[1] < (<<k, i>>)[2])
    BY <1>3, <2>1 DEF Below
  <2>. HIDE DEF Below
  <2>3. ~(k < i)
    BY <2>1, <2>2
  <2>. QED BY <2>3
<1>. QED
  BY <1>4

(* What the first n rounds of the loop leave, given what the rounds before *)
(* the last of them left.                                                  *)
Round(models, id, f, n) ==
  IF n = 0 THEN <<>>
  ELSE IF models[n].id = id THEN f[n - 1]
  ELSE Append(f[n - 1], models[n])

(* The loop has a result after any number of rounds.                       *)
LEMMA RoundsExist ==
  ASSUME NEW models, NEW id, NEW N \in Nat
  PROVE  \E f : f = [n \in 0 .. N |-> Round(models, id, f, n)]
PROOF
<1>. DEFINE Exists(n) == \E f : f = [k \in 0 .. n |-> Round(models, id, f, k)]
            Bad == {n \in Nat : ~Exists(n)}
<1>1. Exists(0)
  <2>. DEFINE f == [k \in 0 .. 0 |-> <<>>]
  <2>1. f = [k \in 0 .. 0 |-> Round(models, id, f, k)]
    BY DEF Round
  <2>. QED
    BY <2>1
<1>2. ASSUME NEW m \in Nat \ {0}, Exists(m - 1) PROVE Exists(m)
  <2>1. PICK f : f = [k \in 0 .. m - 1 |-> Round(models, id, f, k)]
    BY <1>2
  <2>. DEFINE g == [k \in 0 .. m |-> IF k < m THEN f[k] ELSE Round(models, id, f, m)]
  <2>2. \A k \in 0 .. m - 1 : f[k] = Round(models, id, f, k) /\ g[k] = f[k]
    BY <2>1
  <2>3. \A k \in 0 .. m : g[k] = Round(models, id, g, k)
    <3>1. ASSUME NEW k \in 0 .. m PROVE g[k] = Round(models, id, f, k)
      <4>1. CASE k < m
        <5>1. k \in 0 .. m - 1
          BY <4>1
        <5>. QED
          BY <2>2, <5>1
      <4>2. CASE k = m
        BY <4>2
      <4>. QED
        BY <4>1, <4>2
    <3>2. ASSUME NEW k \in 0 .. m PROVE Round(models, id, f, k) = Round(models, id, g, k)
      BY <2>2 DEF Round
    <3>. QED
      BY <3>1, <3>2
  <2>4. g = [k \in 0 .. m |-> Round(models, id, g, k)]
    BY <2>3
  <2>. QED
    BY <2>4
<1>3. Bad = {}
  <2>1. SUFFICES ASSUME Bad # {} PROVE FALSE
    OBVIOUS
  <2>2. PICK m \in Bad : \A k \in Bad : m <= k
    BY <2>1, LeastMember
  <2>. HIDE DEF Exists
  <2>3. m # 0 /\ m - 1 \in Nat /\ m - 1 \notin Bad
    BY <1>1, <2>2
  <2>. QED
    BY <1>2, <2>2, <2>3
<1>. QED
  BY <1>3

(* What the loop keeps, and in which order.                                *)
LEMMA RoundsKeep ==
  ASSUME NEW models \in Seq(Model), NEW id \in Nat, NEW f,
         \A n \in 0 .. Len(models) : f[n] = Round(models, id, f, n),
         Growing(models)
  PROVE  \A n \in 0 .. Len(models) :
           /\ f[n] \in Seq(Model)
           /\ \A k \in 1 .. Len(f[n]) :
                 \E i \in 1 .. n : f[n][k] = models[i] /\ models[i].id # id
           /\ \A i \in 1 .. n : models[i].id # id =>
                 \E k \in 1 .. Len(f[n]) : f[n][k] = models[i]
           /\ Growing(f[n])
PROOF
<1>. DEFINE Typed(n) == f[n] \in Seq(Model)
            Taken(n) == \A k \in 1 .. Len(f[n]) :
                          \E i \in 1 .. n : f[n][k] = models[i] /\ models[i].id # id
            Left(n) == \A i \in 1 .. n : models[i].id # id =>
                          \E k \in 1 .. Len(f[n]) : f[n][k] = models[i]
            Holds(n) == Typed(n) /\ Taken(n) /\ Left(n) /\ Growing(f[n])
            Bad == {n \in 0 .. Len(models) : ~Holds(n)}
<1>1. Len(models) \in Nat /\ \A i \in 1 .. Len(models) : models[i] \in Model
  OBVIOUS
<1>3. Holds(0)
  <2>1. f[0] = <<>>
    BY <1>1 DEF Round
  <2>. QED
    BY <2>1 DEF Growing
<1>4. ASSUME NEW m \in 1 .. Len(models), Holds(m - 1) PROVE Holds(m)
  <2>1. m \in 0 .. Len(models) /\ m # 0 /\ m - 1 \in 0 .. Len(models)
    BY <1>1
  <2>2. CASE models[m].id = id
    <3>1. f[m] = f[m - 1]
      BY <2>1, <2>2 DEF Round
    <3>2. Taken(m)
      <4>1. \A i \in 1 .. m - 1 : i \in 1 .. m
        BY <2>1
      <4>2. Taken(m - 1)
        BY <1>4
      <4>. QED
        BY <3>1, <4>1, <4>2
    <3>3. Left(m)
      <4>1. \A i \in 1 .. m : i \in 1 .. m - 1 \/ i = m
        BY <2>1
      <4>2. Left(m - 1)
        BY <1>4
      <4>. QED
        BY <2>2, <3>1, <4>1, <4>2
    <3>. QED
      BY <1>4, <3>1, <3>2, <3>3
  <2>3. CASE models[m].id # id
    <3>. DEFINE old == f[m - 1]
    <3>1. f[m] = Append(old, models[m])
      BY <2>1, <2>3 DEF Round
    <3>2. old \in Seq(Model) /\ Taken(m - 1) /\ Left(m - 1) /\ Growing(old)
      BY <1>4
    <3>3. models[m] \in Model
      BY <1>1
    <3>4. \A k \in 1 .. Len(old) :
            \E i \in 1 .. m - 1 : old[k] = models[i] /\ models[i].id # id
      BY <3>2
    <3>5. \A i \in 1 .. m - 1 : models[i].id # id =>
            \E k \in 1 .. Len(old) : old[k] = models[i]
      BY <3>2
    <3>. HIDE DEF old, Holds, Taken, Left
    <3>6. /\ f[m] \in Seq(Model) /\ Len(f[m]) = Len(old) + 1 /\ Len(old) \in Nat
          /\ \A k \in 1 .. Len(old) : f[m][k] = old[k]
          /\ f[m][Len(old) + 1] = models[m]
      BY <3>1, <3>2, <3>3
    <3>7. Taken(m)
      <4>1. SUFFICES ASSUME NEW k \in 1 .. Len(f[m])
                     PROVE  \E i \in 1 .. m : f[m][k] = models[i] /\ models[i].id # id
        BY DEF Taken
      <4>2. CASE k \in 1 .. Len(old)
        <5>1. PICK i \in 1 .. m - 1 : old[k] = models[i] /\ models[i].id # id
          BY <3>4, <4>2
        <5>. QED
          BY <3>6, <4>2, <5>1
      <4>3. CASE k = Len(old) + 1
        BY <2>3, <3>6, <4>3
      <4>. QED
        BY <3>6, <4>2, <4>3
    <3>8. Left(m)
      BY <1>1, <3>5, <3>6 DEF Left
    <3>9. Growing(f[m])
      <4>1. SUFFICES ASSUME NEW i \in 1 .. Len(f[m]), NEW k \in 1 .. Len(f[m]), i < k
                     PROVE  f[m][i].id < f[m][k].id
        BY DEF Growing
      <4>2. CASE k <= Len(old)
        BY <3>2, <3>6, <4>1, <4>2 DEF Growing
      <4>3. CASE k = Len(old) + 1
        <5>1. PICK h \in 1 .. m - 1 : f[m][i] = models[h]
          BY <3>4, <3>6, <4>1, <4>3
        <5>2. h < m /\ h \in 1 .. Len(models)
          BY <1>1
        <5>. QED
          BY <3>6, <4>3, <5>1, <5>2 DEF Growing
      <4>. QED
        BY <3>6, <4>2, <4>3
    <3>. QED
      BY <3>6, <3>7, <3>8, <3>9 DEF Holds
  <2>. QED
    BY <2>2, <2>3
<1>5. Bad = {}
  <2>1. SUFFICES ASSUME Bad # {} PROVE FALSE
    OBVIOUS
  <2>2. PICK m \in Bad : \A k \in Bad : m <= k
    <3>1. Bad \in SUBSET Nat
      BY <1>1
    <3>. HIDE DEF Bad
    <3>. QED
      BY <2>1, <3>1, LeastMember
  <2>. HIDE DEF Holds
  <2>3. m # 0 /\ m \in 1 .. Len(models) /\ m - 1 \in 0 .. Len(models) /\ m - 1 \notin Bad
    BY <1>1, <1>3, <2>2
  <2>. QED
    BY <1>4, <2>2, <2>3
<1>. QED
  BY <1>5

(* What a remove keeps of models whose ids grow: the others, in order.     *)
LEMMA WithoutKeeps ==
  ASSUME NEW models \in Seq(Model), NEW id \in Nat, Growing(models)
  PROVE  /\ Without(models, id) \in Seq(Model)
         /\ Growing(Without(models, id))
         /\ ToSet(Without(models, id)) = {m \in ToSet(models) : m.id # id}
PROOF
<1>1. Len(models) \in Nat
  OBVIOUS
<1>. DEFINE Loop(f) == f = [n \in 0 .. Len(models) |-> Round(models, id, f, n)]
            f == CHOOSE f : Loop(f)
<1>2. Loop(f)
  BY <1>1, RoundsExist
<1>3. Without(models, id) = f[Len(models)]
  BY DEF Without, Round
<1>4. \A n \in 0 .. Len(models) : f[n] = Round(models, id, f, n)
  BY <1>2
<1>. HIDE DEF f
<1>. DEFINE kept == f[Len(models)]
<1>5. /\ kept \in Seq(Model) /\ Growing(kept)
      /\ \A k \in 1 .. Len(kept) :
            \E i \in 1 .. Len(models) : kept[k] = models[i] /\ models[i].id # id
      /\ \A i \in 1 .. Len(models) : models[i].id # id =>
            \E k \in 1 .. Len(kept) : kept[k] = models[i]
  BY <1>1, <1>4, RoundsKeep
<1>. HIDE DEF kept
<1>6. DOMAIN models = 1 .. Len(models) /\ DOMAIN kept = 1 .. Len(kept)
  BY <1>5
<1>7. ToSet(kept) \subseteq {m \in ToSet(models) : m.id # id}
  <2>1. SUFFICES ASSUME NEW k \in 1 .. Len(kept)
                 PROVE  kept[k] \in ToSet(models) /\ kept[k].id # id
    BY <1>6 DEF ToSet
  <2>2. PICK i \in 1 .. Len(models) : kept[k] = models[i] /\ models[i].id # id
    BY <1>5
  <2>. QED
    BY <1>6, <2>2 DEF ToSet
<1>8. ASSUME NEW m \in ToSet(models), m.id # id PROVE m \in ToSet(kept)
  <2>1. PICK i \in 1 .. Len(models) : m = models[i]
    BY <1>6 DEF ToSet
  <2>. QED
    BY <1>5, <1>6, <1>8, <2>1 DEF ToSet
<1>9. Without(models, id) = kept
  BY <1>3 DEF kept
<1>. QED
  BY <1>5, <1>7, <1>8, <1>9

-----------------------------------------------------------------------------
(* The other edits.                                                        *)

(* What add appends is newer than all the others.                          *)
LEMMA AppendKeeps ==
  ASSUME NEW models \in Seq(Model), NEW j \in Jobs, Growing(models)
  PROVE  LET added == Append(models, [id |-> NextId(models), by |-> j])
         IN /\ added \in Seq(Model) /\ Growing(added) /\ added # <<>>
            /\ ToSet(models) \subseteq ToSet(added)
PROOF
<1>. DEFINE new == [id |-> NextId(models), by |-> j]
            added == Append(models, new)
<1>1. /\ Len(models) \in Nat /\ \A i \in 1 .. Len(models) : models[i] \in Model
      /\ models # <<>> => Len(models) \in 1 .. Len(models)
  OBVIOUS
<1>2. \A m \in Model : m.id \in Nat
  BY DEF Model
<1>3. NextId(models) \in Nat /\ \A i \in 1 .. Len(models) : models[i].id < NextId(models)
  <2>1. CASE models = <<>>
    BY <2>1 DEF NextId
  <2>2. CASE models # <<>>
    <3>1. NextId(models) = models[Len(models)].id + 1
      BY <2>2 DEF NextId, Last
    <3>2. models[Len(models)].id \in Nat
      BY <1>1, <1>2, <2>2
    <3>3. ASSUME NEW i \in 1 .. Len(models)
          PROVE  models[i].id \in Nat /\ models[i].id <= models[Len(models)].id
      BY <1>1, <1>2, <2>2, <3>2 DEF Growing
    <3>. QED
      BY <3>1, <3>2, <3>3
  <2>. QED
    BY <2>1, <2>2
<1>4. new \in Model /\ new.id = NextId(models)
  BY <1>3 DEF Model
<1>. HIDE DEF new
<1>5. /\ added \in Seq(Model) /\ Len(added) = Len(models) + 1
      /\ \A i \in 1 .. Len(models) : added[i] = models[i]
      /\ added[Len(models) + 1] = new
  BY <1>1, <1>4
<1>. HIDE DEF added
<1>6. Growing(added) /\ added # <<>>
  BY <1>1, <1>3, <1>4, <1>5 DEF Growing
<1>7. ToSet(models) \subseteq ToSet(added)
  <2>1. DOMAIN models = 1 .. Len(models) /\ DOMAIN added = 1 .. Len(added)
    BY <1>5
  <2>. QED
    BY <1>1, <1>5, <2>1 DEF ToSet
<1>. QED
  BY <1>5, <1>6, <1>7 DEF added, new

(* What a command writes, and what is then missing of what it had read.    *)
LEMMA EditedKeeps ==
  ASSUME TypeOK, InvOrder, NEW j \in Jobs, kind[j] # "clear"
  PROVE  /\ Edited(j) \in Seq(Model) /\ Growing(Edited(j))
         /\ \A m \in ToSet(seen[j]) \ ToSet(Edited(j)) :
               kind[j] = "remove" /\ m.id = target[j]
PROOF
<1>1. /\ seen[j] \in Seq(Model) /\ Growing(seen[j]) /\ target[j] \in Nat
      /\ kind[j] \in {"add", "remove"}
  BY DEF TypeOK, InvOrder
<1>2. CASE kind[j] = "add"
  BY <1>1, <1>2, AppendKeeps DEF Edited
<1>3. CASE kind[j] = "remove"
  BY <1>1, <1>3, WithoutKeeps DEF Edited
<1>. QED
  BY <1>1, <1>2, <1>3

(* A command that does not delete the file leaves a model in it.           *)
LEMMA EditedIsSome ==
  ASSUME TypeOK, InvOrder, NEW j \in Jobs, InvJobs(j), at[j] \in Editing, ~Deletes(j)
  PROVE  Edited(j) # <<>>
PROOF
<1>1. /\ seen[j] \in Seq(Model) /\ Growing(seen[j]) /\ target[j] \in Nat
      /\ kind[j] \in {"add", "remove"}
  BY DEF TypeOK, InvOrder, Deletes
<1>2. CASE kind[j] = "add"
  BY <1>1, <1>2, AppendKeeps DEF Edited
<1>3. CASE kind[j] = "remove"
  <2>1. PICK i \in 1 .. Len(seen[j]) : seen[j][i].id = target[j]
    BY <1>3 DEF InvJobs
  <2>2. Len(seen[j]) \in Nat /\ Len(seen[j]) # 1
    BY <1>1, <1>3 DEF Deletes
  <2>3. PICK h \in 1 .. Len(seen[j]) : h # i
    <3>1. ASSUME NEW n \in Nat, NEW k \in 1 .. n, n # 1
          PROVE  1 \in 1 .. n /\ 2 \in 1 .. n
      BY <3>1
    <3>2. 1 \in 1 .. Len(seen[j]) /\ 2 \in 1 .. Len(seen[j])
      BY <2>1, <2>2, <3>1
    <3>. QED
      BY <3>2
  <2>4. seen[j][h] \in Model /\ seen[j][i] \in Model /\ \A m \in Model : m.id \in Nat
    <3>1. \A m \in Model : m.id \in Nat
      BY DEF Model
    <3>2. \A g \in 1 .. Len(seen[j]) : seen[j][g] \in Model
      BY <1>1
    <3>. QED
      BY <2>1, <3>1, <3>2
  <2>5. seen[j][h].id # target[j]
    BY <1>1, <2>1, <2>3, <2>4 DEF Growing
  <2>6. seen[j][h] \in ToSet(seen[j])
    BY <1>1 DEF ToSet
  <2>7. seen[j][h] \in ToSet(Without(seen[j], target[j]))
    BY <1>1, <2>5, <2>6, WithoutKeeps
  <2>. QED
    BY <1>3, <2>7 DEF Edited, ToSet
<1>. QED
  BY <1>1, <1>2, <1>3

-----------------------------------------------------------------------------
(* The types.                                                              *)

LEMMA StartTypes ==
  ASSUME TypeOK, NEW j \in Jobs, Begin(j)
  PROVE  TypeOK'
PROOF
<1>1. file.models \in Seq(Model)
  BY DEF TypeOK
<1>2. ASSUME NEW what \in {"add", "remove", "clear"}, NEW first \in {"ask", "failed"},
             Start(j, what, first), UNCHANGED file, target' \in [Jobs -> Nat]
      PROVE  TypeOK'
  <2>1. at' \in [Jobs -> {"idle", "done", "failed", "stopped"} \union Editing]
    BY <1>2 DEF Start, Move, Editing, TypeOK
  <2>2. /\ kind' \in [Jobs -> {"add", "remove", "clear"}]
        /\ seen' \in [Jobs -> Seq(Model)]
    BY <1>1, <1>2 DEF Start, TypeOK
  <2>. QED
    BY <1>2, <2>1, <2>2 DEF Start, TypeOK
<1>3. CASE StartAdd(j)
  BY <1>2, <1>3 DEF StartAdd, TypeOK
<1>4. CASE StartRemove(j)
  <2>1. PICK m \in ToSet(rows) \union ToSet(stored) :
           /\ Start(j, "remove", "ask") /\ UNCHANGED file
           /\ target' = [target EXCEPT ![j] = m.id]
    BY <1>4 DEF StartRemove
  <2>2. m.id \in Nat
    <3>1. m \in Model
      BY DEF TypeOK, ToSet
    <3>. QED
      BY <3>1 DEF Model
  <2>3. target' \in [Jobs -> Nat]
    BY <2>1, <2>2 DEF TypeOK
  <2>. QED
    BY <1>2, <2>1, <2>3
<1>5. CASE StartClear(j)
  BY <1>2, <1>5 DEF StartClear, TypeOK
<1>6. CASE StartFails(j)
  BY <1>2, <1>6 DEF StartFails, TypeOK
<1>. QED
  BY <1>3, <1>4, <1>5, <1>6 DEF Begin

LEMMA AnswerTypes ==
  ASSUME TypeOK, NEW j \in Jobs, Answer(j) \/ Decline(j)
  PROVE  TypeOK'
BY DEF Answer, Decline, Move, Editing, TypeOK

LEMMA ListTypes ==
  ASSUME TypeOK, ListModels
  PROVE  TypeOK'
PROOF
<1>1. Listed \in Seq(Model)
  BY DEF Listed, TypeOK
<1>. QED
  BY <1>1 DEF ListModels, TypeOK

(* The camera session of a job, one field at a time.                       *)
LEMMA ScanFields ==
  ASSUME NEW s \in Scan
  PROVE  /\ \A n \in 0 .. MaxFrames, l \in {"black", "dark", "lit"} :
              [s EXCEPT !.frames = n, !.light = l] \in Scan
         /\ \A n \in 0 .. Steps : [s EXCEPT !.step = n, !.got = 0] \in Scan
         /\ \A n \in 0 .. StepSamples, m \in 0 .. MaxSamples :
              [s EXCEPT !.got = n, !.samples = m] \in Scan
PROOF
<1>. USE CaptureAssumption DEF Scan
<1>1. ASSUME NEW n \in 0 .. MaxFrames, NEW l \in {"black", "dark", "lit"}
      PROVE  [s EXCEPT !.frames = n, !.light = l] \in Scan
  OBVIOUS
<1>2. ASSUME NEW n \in 0 .. Steps
      PROVE  [s EXCEPT !.step = n, !.got = 0] \in Scan
  <2>. DEFINE t == [s EXCEPT !.step = n]
  <2>1. t \in Scan
    OBVIOUS
  <2>2. 0 \in 0 .. StepSamples
    OBVIOUS
  <2>. HIDE DEF t
  <2>3. [t EXCEPT !.got = 0] \in Scan
    BY <2>1, <2>2
  <2>4. [s EXCEPT !.step = n, !.got = 0] = [t EXCEPT !.got = 0]
    BY DEF t
  <2>. QED
    BY <2>3, <2>4
<1>3. ASSUME NEW n \in 0 .. StepSamples, NEW m \in 0 .. MaxSamples
      PROVE  [s EXCEPT !.got = n, !.samples = m] \in Scan
  <2>. DEFINE t == [s EXCEPT !.got = n]
  <2>1. t \in Scan
    OBVIOUS
  <2>. HIDE DEF t
  <2>2. [t EXCEPT !.samples = m] \in Scan
    BY <2>1
  <2>3. [s EXCEPT !.got = n, !.samples = m] = [t EXCEPT !.samples = m]
    BY DEF t
  <2>. QED
    BY <2>2, <2>3
<1>. QED
  BY <1>1, <1>2, <1>3

LEMMA NoScanTypes ==
  /\ NoScan \in Scan /\ NoScan.step = 0
  /\ [NoScan EXCEPT !.samples = 1] \in Scan /\ [NoScan EXCEPT !.samples = 1].step = 0
BY CaptureAssumption DEF NoScan, Scan

LEMMA LookTypes ==
  ASSUME TypeOK, NEW j \in Jobs, Look(j)
  PROVE  /\ TypeOK' /\ \A k \in Jobs \ {j} : at'[k] = at[k] /\ scan'[k] = scan[k]
         /\ at[j] = "look" /\ at'[j] \in {"look", "guide", "failed"}
         /\ at'[j] = "guide" => scan'[j].step < Steps
         /\ UNCHANGED <<file, stored, rows, jobVars, fd>>
PROOF
<1>. DEFINE next(frame) ==
       [scan[j] EXCEPT !.frames = @ + 1, !.light = Brighter(@, frame)]
<1>1. PICK frame \in {"black", "dark", "empty", "one", "many"} : LookAt(j, frame)
  BY DEF Look
<1>2. scan[j] \in Scan /\ next(frame) \in Scan
  <2>1. scan[j] \in Scan /\ scan[j].frames < MaxFrames
    BY <1>1 DEF TypeOK, LookAt
  <2>2. scan[j].frames + 1 \in 0 .. MaxFrames
    BY <2>1, CaptureAssumption DEF Scan
  <2>3. Brighter(scan[j].light, frame) \in {"black", "dark", "lit"}
    BY <2>1 DEF Brighter, Scan
  <2>. QED
    BY <2>1, <2>2, <2>3, ScanFields
<1>3. /\ Move(j, "look", at'[j]) /\ at'[j] \in {"look", "guide", "failed"}
      /\ UNCHANGED <<file, stored, rows, jobVars, fd>>
  BY <1>1 DEF LookAt, Move, TypeOK
<1>4. \E s \in Scan : scan' = [scan EXCEPT ![j] = s] /\ (at'[j] = "guide" => s.step = 0)
  <2>1. CASE frame = "one"
    BY <1>1, <2>1, NoScanTypes DEF LookAt
  <2>2. CASE frame # "one"
    <3>1. at'[j] # "guide"
      BY <1>1, <2>2 DEF LookAt, Move, TypeOK
    <3>2. \/ scan' = [scan EXCEPT ![j] = next(frame)]
          \/ scan' = [scan EXCEPT ![j] = NoScan]
      BY <1>1, <2>2 DEF LookAt
    <3>. HIDE DEF next
    <3>. QED
      BY <1>2, <3>1, <3>2, NoScanTypes
  <2>. QED
    BY <2>1, <2>2
<1>5. PICK s \in Scan : scan' = [scan EXCEPT ![j] = s] /\ (at'[j] = "guide" => s.step = 0)
  BY <1>4
<1>6. scan' \in [Jobs -> Scan] /\ scan'[j] = s
      /\ \A k \in Jobs \ {j} : at'[k] = at[k] /\ scan'[k] = scan[k]
  BY <1>3, <1>5 DEF TypeOK, Move
<1>7. at' \in [Jobs -> {"idle", "done", "failed", "stopped"} \union Editing]
  BY <1>3 DEF TypeOK, Move, Editing
<1>. QED
  BY <1>3, <1>5, <1>6, <1>7, CaptureAssumption DEF TypeOK, Move

LEMMA GuideTypes ==
  ASSUME TypeOK, NEW j \in Jobs, InvJobs(j), KeepSample(j) \/ EndStep(j)
  PROVE  /\ TypeOK' /\ \A k \in Jobs \ {j} : at'[k] = at[k] /\ scan'[k] = scan[k]
         /\ at[j] = "guide" /\ at'[j] \in {"guide", "edit"}
         /\ at'[j] = "guide" => scan'[j].step < Steps
         /\ UNCHANGED <<file, stored, rows, jobVars, fd>>
PROOF
<1>1. /\ scan[j] \in Scan /\ at[j] = "guide" /\ scan[j].step < Steps
      /\ UNCHANGED <<file, stored, rows, jobVars, fd>>
  BY DEF TypeOK, KeepSample, EndStep, InvJobs
<1>2. \E s \in Scan, place \in {"guide", "edit"} :
         /\ scan' = [scan EXCEPT ![j] = s] /\ at' = [at EXCEPT ![j] = place]
         /\ place = "guide" => s.step < Steps
  <2>1. CASE KeepSample(j)
    <3>. DEFINE s == [scan[j] EXCEPT !.got = @ + 1, !.samples = @ + 1]
    <3>1. scan[j].got + 1 \in 0 .. StepSamples /\ scan[j].samples + 1 \in 0 .. MaxSamples
      BY <1>1, <2>1, CaptureAssumption DEF KeepSample, StepFull, Scan
    <3>2. s \in Scan /\ s.step = scan[j].step
      BY <1>1, <3>1, ScanFields DEF Scan
    <3>3. scan' = [scan EXCEPT ![j] = s]
      BY <2>1 DEF KeepSample
    <3>4. at' = [at EXCEPT ![j] = "guide"]
      BY <1>1, <2>1 DEF KeepSample, TypeOK
    <3>. HIDE DEF s
    <3>. QED
      BY <1>1, <3>2, <3>3, <3>4
  <2>2. CASE EndStep(j)
    <3>. DEFINE s == [scan[j] EXCEPT !.step = @ + 1, !.got = 0]
                over == s.step = Steps \/ s.samples >= MaxSamples
    <3>1. scan[j].step + 1 \in 0 .. Steps /\ scan[j].step \in Nat
      BY <1>1, CaptureAssumption DEF Scan
    <3>2. s \in Scan /\ s.step = scan[j].step + 1
      BY <1>1, <3>1, ScanFields DEF Scan
    <3>3. /\ scan' = [scan EXCEPT ![j] = IF over THEN NoScan ELSE s]
          /\ at' = [at EXCEPT ![j] = IF over THEN "edit" ELSE "guide"]
      BY <2>2 DEF EndStep
    <3>. HIDE DEF s
    <3>4. ~over => s.step < Steps
      BY <3>1, <3>2, CaptureAssumption
    <3>5. CASE over
      BY <3>3, <3>5, NoScanTypes
    <3>6. CASE ~over
      BY <3>2, <3>3, <3>4, <3>6
    <3>. QED
      BY <3>5, <3>6
  <2>. QED
    BY <2>1, <2>2
<1>3. PICK s \in Scan, place \in {"guide", "edit"} :
         /\ scan' = [scan EXCEPT ![j] = s] /\ at' = [at EXCEPT ![j] = place]
         /\ place = "guide" => s.step < Steps
  BY <1>2
<1>4. /\ scan' \in [Jobs -> Scan] /\ scan'[j] = s /\ at'[j] = place
      /\ \A k \in Jobs \ {j} : at'[k] = at[k] /\ scan'[k] = scan[k]
      /\ at' \in [Jobs -> {"idle", "done", "failed", "stopped"} \union Editing]
  BY <1>3 DEF TypeOK, Editing
<1>. QED
  BY <1>1, <1>3, <1>4 DEF TypeOK

LEMMA DisturbedTypes ==
  ASSUME TypeOK, NEW j \in Jobs, NEW how \in {"shared", "gone"}
  PROVE  Disturbed(j, how) \in [Jobs -> {"none", "own", "shared", "gone"}]
BY DEF Disturbed, TypeOK

LEMMA SaveTypes ==
  ASSUME TypeOK, StoreIndInv, NEW j \in Jobs, Save(j)
  PROVE  TypeOK'
PROOF
<1>1. /\ at' \in [Jobs -> {"idle", "done", "failed", "stopped"} \union Editing]
      /\ UNCHANGED <<rows, jobVars, scan>>
  BY DEF Save, Delete, Truncate, Dump, Move, TypeOK, Editing
<1>2. NoFile \in [state : {"none", "torn", "whole"}, models : Seq(Model)]
  BY DEF NoFile
<1>3. TornFile \in [state : {"none", "torn", "whole"}, models : Seq(Model)]
  BY DEF TornFile
<1>4. CASE Delete(j)
  <2>1. <<>> \in Seq(Model)
    OBVIOUS
  <2>2. fd' \in [Jobs -> {"none", "own", "shared", "gone"}]
    BY <1>4, DisturbedTypes DEF Delete
  <2>. QED
    BY <1>1, <1>2, <1>4, <2>1, <2>2 DEF Delete, TypeOK
<1>5. CASE Truncate(j)
  <2>1. PICK how \in {"shared", "own"} :
           fd' = [Disturbed(j, "shared") EXCEPT ![j] = how]
    BY <1>5 DEF Truncate
  <2>2. fd' \in [Jobs -> {"none", "own", "shared", "gone"}]
    BY <2>1, DisturbedTypes
  <2>. QED
    BY <1>1, <1>3, <1>5, <2>2 DEF Truncate, TypeOK
<1>6. CASE Dump(j)
  <2>1. kind[j] # "clear"
    BY <1>6 DEF Dump, Move, StoreIndInv, InvJobs, Deletes
  <2>2. Edited(j) \in Seq(Model)
    BY <2>1, EditedKeeps DEF StoreIndInv
  <2>3. Whole(Edited(j)) \in [state : {"none", "torn", "whole"}, models : Seq(Model)]
    BY <2>2 DEF Whole
  <2>4. fd' \in [Jobs -> {"none", "own", "shared", "gone"}]
    BY <1>6, DisturbedTypes DEF Dump, TypeOK
  <2>. QED
    BY <1>1, <1>3, <1>6, <2>2, <2>3, <2>4 DEF Dump, TypeOK
<1>. QED
  BY <1>4, <1>5, <1>6 DEF Save

LEMMA StopTypes ==
  ASSUME TypeOK, NEW j \in Jobs, Stop(j)
  PROVE  TypeOK'
PROOF
<1>1. scan' \in [Jobs -> Scan]
  BY NoScanTypes DEF Stop, TypeOK
<1>. QED
  BY <1>1 DEF Stop, TypeOK

-----------------------------------------------------------------------------
(* The invariant.                                                          *)

(* A step of a job that neither writes nor stops leaves the store alone.   *)
LEMMA QuietKeeps ==
  ASSUME TypeOK, StoreIndInv, NEW j \in Jobs,
         UNCHANGED <<file, stored, fd>>,
         \A k \in Jobs \ {j} : /\ at'[k] = at[k] /\ scan'[k] = scan[k]
                               /\ kind'[k] = kind[k] /\ seen'[k] = seen[k]
                               /\ target'[k] = target[k],
         at[j] \notin {"write", "stopped"}, Growing(seen'[j]), InvJobs(j)'
  PROVE  StoreIndInv'
PROOF
<1>1. InvOrder'
  BY DEF StoreIndInv, InvOrder, Growing
<1>2. ASSUME NEW k \in Jobs PROVE InvJobs(k)'
  <2>1. CASE k = j
    BY <2>1
  <2>2. CASE k # j
    BY <2>2 DEF StoreIndInv, InvJobs, Deletes
  <2>. QED
    BY <2>1, <2>2
<1>3. TornHasCause'
  BY DEF StoreIndInv, TornHasCause
<1>. QED
  BY <1>1, <1>2, <1>3 DEF StoreIndInv

LEMMA BeginKeeps ==
  ASSUME TypeOK, StoreIndInv, NEW j \in Jobs, Begin(j)
  PROVE  StoreIndInv'
PROOF
<1>1. PICK what \in {"add", "remove", "clear"}, first \in {"ask", "failed"} :
         /\ Start(j, what, first) /\ UNCHANGED file
         /\ \A k \in Jobs \ {j} : target'[k] = target[k]
         /\ what = "remove" /\ first = "ask" =>
               \E i \in 1 .. Len(file.models) : file.models[i].id = target'[j]
  <2>1. CASE StartAdd(j)
    BY <2>1 DEF Begin, StartAdd
  <2>2. CASE StartRemove(j)
    BY <2>2 DEF Begin, StartRemove, TypeOK
  <2>3. CASE StartClear(j)
    BY <2>3 DEF Begin, StartClear
  <2>4. CASE StartFails(j)
    BY <2>4 DEF Begin, StartFails
  <2>. QED
    BY <2>1, <2>2, <2>3, <2>4 DEF Begin
<1>2. /\ at[j] = "idle" /\ at'[j] = first /\ kind'[j] = what /\ seen'[j] = file.models
      /\ \A k \in Jobs \ {j} : /\ at'[k] = at[k] /\ scan'[k] = scan[k]
                               /\ kind'[k] = kind[k] /\ seen'[k] = seen[k]
      /\ UNCHANGED <<stored, fd>>
  BY <1>1 DEF Start, Move, TypeOK
<1>3. Growing(seen'[j])
  BY <1>2 DEF StoreIndInv, InvOrder
<1>4. InvJobs(j)'
  BY <1>1, <1>2 DEF InvJobs, Editing
<1>. QED
  BY <1>1, <1>2, <1>3, <1>4, QuietKeeps

LEMMA AnswerKeeps ==
  ASSUME TypeOK, StoreIndInv, NEW j \in Jobs, Answer(j) \/ Decline(j)
  PROVE  StoreIndInv'
PROOF
<1>1. /\ at[j] = "ask" /\ at'[j] \in {"look", "edit", "failed"}
      /\ UNCHANGED <<file, stored, fd, jobVars, scan>>
      /\ \A k \in Jobs \ {j} : at'[k] = at[k]
  BY DEF Answer, Decline, Move, TypeOK
<1>2. InvJobs(j)' /\ Growing(seen'[j])
  BY <1>1 DEF StoreIndInv, InvOrder, InvJobs, Editing
<1>. QED
  BY <1>1, <1>2, QuietKeeps

LEMMA CaptureKeeps ==
  ASSUME TypeOK, StoreIndInv, NEW j \in Jobs, Capture(j)
  PROVE  StoreIndInv'
PROOF
<1>1. /\ \A k \in Jobs \ {j} : at'[k] = at[k] /\ scan'[k] = scan[k]
      /\ at[j] \in {"look", "guide"} /\ at'[j] \in {"look", "guide", "failed", "edit"}
      /\ at'[j] = "guide" => scan'[j].step < Steps
      /\ UNCHANGED <<file, stored, rows, jobVars, fd>>
  BY LookTypes, GuideTypes DEF Capture, StoreIndInv
<1>2. InvJobs(j)' /\ Growing(seen'[j])
  BY <1>1 DEF StoreIndInv, InvOrder, InvJobs, Editing
<1>. QED
  BY <1>1, <1>2, QuietKeeps

(* The other jobs, when one touches the file: who writes keeps it open,    *)
(* or finds it gone.                                                       *)
LEMMA SaveKeepsJobs ==
  ASSUME TypeOK, StoreIndInv, NEW j \in Jobs, Save(j)
  PROVE  /\ UNCHANGED <<jobVars, scan>>
         /\ \A k \in Jobs \ {j} : at'[k] = at[k] /\ fd'[k] \in {fd[k], "shared", "gone"}
         /\ \A k \in Jobs : InvJobs(k)'
PROOF
<1>1. /\ UNCHANGED <<jobVars, scan>>
      /\ \A k \in Jobs \ {j} : at'[k] = at[k]
      /\ at[j] \in Editing
  BY DEF Save, Delete, Truncate, Dump, Move, TypeOK, Editing
<1>2. ASSUME NEW k \in Jobs \ {j} PROVE fd'[k] \in {fd[k], "shared", "gone"}
  <2>1. Disturbed(j, "gone")[k] \in {fd[k], "gone"}
    BY DEF Disturbed
  <2>2. Disturbed(j, "shared")[k] \in {fd[k], "shared"}
    BY DEF Disturbed
  <2>3. CASE Truncate(j)
    <3>1. fd'[k] = Disturbed(j, "shared")[k]
      BY <2>3 DEF Truncate, Disturbed
    <3>. QED
      BY <2>2, <3>1
  <2>4. CASE Delete(j) \/ Dump(j)
    BY <2>1, <2>2, <2>4 DEF Delete, Dump
  <2>. QED
    BY <2>3, <2>4 DEF Save
<1>3. ASSUME NEW k \in Jobs \ {j} PROVE InvJobs(k)'
  BY <1>1, <1>2 DEF StoreIndInv, InvJobs, Deletes
<1>4. InvJobs(j)'
  <2>1. CASE Delete(j) \/ Dump(j)
    <3>1. at'[j] \in {"done", "failed"}
      BY <2>1 DEF Delete, Dump, Move, TypeOK
    <3>. QED
      BY <3>1 DEF InvJobs, Editing
  <2>2. CASE Truncate(j)
    <3>1. at'[j] = "write" /\ ~Deletes(j) /\ fd'[j] \in {"shared", "own"}
      BY <2>2, DisturbedTypes DEF Truncate, Move, TypeOK
    <3>2. kind[j] = "remove" => \E i \in 1 .. Len(seen[j]) : seen[j][i].id = target[j]
      BY <1>1 DEF StoreIndInv, InvJobs
    <3>. QED
      BY <1>1, <3>1, <3>2 DEF InvJobs, Deletes
  <2>. QED
    BY <2>1, <2>2 DEF Save
<1>. QED
  BY <1>1, <1>2, <1>3, <1>4

LEMMA SaveKeeps ==
  ASSUME TypeOK, StoreIndInv, NEW j \in Jobs, Save(j)
  PROVE  StoreIndInv'
PROOF
<1>1. /\ UNCHANGED <<jobVars, scan>> /\ \A k \in Jobs : InvJobs(k)'
      /\ \A k \in Jobs \ {j} : at'[k] = at[k] /\ fd'[k] \in {fd[k], "shared", "gone"}
  BY SaveKeepsJobs
<1>2. CASE Delete(j)
  <2>1. file' = NoFile /\ stored' = <<>>
    BY <1>2 DEF Delete
  <2>. QED
    BY <1>1, <2>1 DEF NoFile, StoreIndInv, InvOrder, TornHasCause, Growing
<1>3. CASE Truncate(j)
  <2>1. file' = TornFile
    BY <1>3 DEF Truncate
  <2>2. at'[j] = "write" /\ fd'[j] # "gone"
    BY <1>3, DisturbedTypes DEF Truncate, Move, TypeOK
  <2>. QED
    BY <1>1, <2>1, <2>2 DEF TornFile, StoreIndInv, InvOrder, TornHasCause, Growing
<1>4. CASE Dump(j)
  <2>1. at[j] = "write" /\ kind[j] # "clear" /\ ~Deletes(j) /\ at[j] \in Editing
    BY <1>4 DEF Dump, Move, StoreIndInv, InvJobs, Deletes, Editing
  <2>2. CASE fd[j] = "gone"
    <3>1. UNCHANGED <<file, stored, fd>>
      BY <1>4, <2>2 DEF Dump
    <3>2. InvOrder'
      BY <1>1, <3>1 DEF StoreIndInv, InvOrder, Growing
    <3>3. TornHasCause'
      BY <1>1, <2>1, <2>2, <3>1 DEF StoreIndInv, TornHasCause
    <3>. QED
      BY <1>1, <3>2, <3>3 DEF StoreIndInv
  <2>3. CASE file' = Whole(Edited(j)) /\ stored' = Edited(j)
    <3>1. Growing(Edited(j)) /\ Edited(j) # <<>>
      BY <2>1, EditedKeeps, EditedIsSome DEF StoreIndInv
    <3>2. /\ file'.state = "whole" /\ file'.models = Edited(j)
      BY <2>3 DEF Whole
    <3>3. InvOrder'
      BY <1>1, <3>1, <3>2 DEF StoreIndInv, InvOrder, Growing
    <3>. QED
      BY <1>1, <3>2, <3>3 DEF StoreIndInv, TornHasCause
  <2>4. CASE fd[j] = "shared" /\ file' = TornFile /\ stored' = stored
    <3>1. fd'[j] = "shared"
      BY <1>4, <2>4 DEF Dump, Disturbed
    <3>. QED
      BY <1>1, <2>4, <3>1 DEF TornFile, StoreIndInv, InvOrder, TornHasCause, Growing
  <2>. QED
    BY <1>4, <2>2, <2>3, <2>4 DEF Dump
<1>. QED
  BY <1>2, <1>3, <1>4 DEF Save

(* Who is stopped while it writes is the cause from then on.               *)
LEMMA StopKeeps ==
  ASSUME TypeOK, StoreIndInv, NEW j \in Jobs, Stop(j)
  PROVE  StoreIndInv'
PROOF
<1>1. /\ UNCHANGED <<file, stored, fd, jobVars>> /\ at'[j] = "stopped"
      /\ \A k \in Jobs \ {j} : at'[k] = at[k] /\ scan'[k] = scan[k]
  BY DEF Stop, TypeOK
<1>2. InvOrder'
  BY <1>1 DEF StoreIndInv, InvOrder, Growing
<1>3. ASSUME NEW k \in Jobs PROVE InvJobs(k)'
  <2>1. CASE k = j
    BY <1>1, <2>1 DEF InvJobs, Editing
  <2>2. CASE k # j
    BY <1>1, <2>2 DEF StoreIndInv, InvJobs, Deletes
  <2>. QED
    BY <2>1, <2>2
<1>4. TornHasCause'
  BY <1>1 DEF StoreIndInv, InvJobs, TornHasCause
<1>. QED
  BY <1>2, <1>3, <1>4 DEF StoreIndInv

LEMMA StoreStutter ==
  ASSUME StoreIndInv, UNCHANGED <<file, stored, at, kind, seen, target, scan, fd>>
  PROVE  StoreIndInv'
BY DEF StoreIndInv, InvOrder, InvJobs, Deletes, TornHasCause, Growing

LEMMA InitHolds ==
  ASSUME Init
  PROVE  TypeOK /\ StoreIndInv
PROOF
<1>1. <<>> \in Seq(Model) /\ Len(<<>>) = 0
  OBVIOUS
<1>2. file \in [state : {"none", "torn", "whole"}, models : Seq(Model)]
  BY <1>1 DEF Init, NoFile
<1>3. TypeOK
  BY <1>1, <1>2, NoScanTypes DEF Init, TypeOK
<1>4. StoreIndInv
  BY <1>1 DEF Init, NoFile, StoreIndInv, InvOrder, InvJobs, TornHasCause, Growing, Editing
<1>. QED
  BY <1>3, <1>4

-----------------------------------------------------------------------------
(* The types and the inductive invariant, for every reachable state: what  *)
(* is stored, and what any job has read and may still write, has ids that  *)
(* grow, whatever the jobs do to each other.                               *)
THEOREM StoreInductive == Spec => [](TypeOK /\ StoreIndInv)
PROOF
<1>1. Init => TypeOK /\ StoreIndInv
  BY InitHolds
<1>2. TypeOK /\ StoreIndInv /\ [Next]_vars => TypeOK' /\ StoreIndInv'
  <2>1. ASSUME TypeOK, StoreIndInv, NEW j \in Jobs,
               Begin(j) \/ Answer(j) \/ Decline(j) \/ Capture(j) \/ Save(j) \/ Stop(j)
        PROVE  TypeOK' /\ StoreIndInv'
    <3>1. TypeOK'
      BY <2>1, StartTypes, AnswerTypes, LookTypes, GuideTypes, SaveTypes, StopTypes
      DEF Capture, StoreIndInv
    <3>2. StoreIndInv'
      BY <2>1, BeginKeeps, AnswerKeeps, CaptureKeeps, SaveKeeps, StopKeeps
    <3>. QED
      BY <3>1, <3>2
  <2>2. ASSUME TypeOK, StoreIndInv, ListModels PROVE TypeOK' /\ StoreIndInv'
    BY <2>2, ListTypes, StoreStutter DEF ListModels
  <2>3. ASSUME TypeOK, StoreIndInv, UNCHANGED vars PROVE TypeOK' /\ StoreIndInv'
    BY <2>3, StoreStutter DEF TypeOK
  <2>. HIDE DEF vars
  <2>. QED
    BY <2>1, <2>2, <2>3 DEF Next
<1>. QED
  BY <1>1, <1>2, PTL DEF Spec

(* For any number of overlapping commands, a whole models file is never    *)
(* empty and its ids grow, so that an id names one model.                  *)
THEOREM IdsAlwaysGrow == Spec => []StoreInv
PROOF
<1>1. TypeOK /\ StoreIndInv => StoreInv
  BY DEF StoreIndInv, InvOrder, Growing, StoreInv, IdsGrow
<1>. QED
  BY <1>1, StoreInductive, PTL

(* A models file is only found cut off while it is written, after a        *)
(* command was stopped in the middle, or after two wrote it at once.       *)
THEOREM TornFilesHaveCause == Spec => []TornHasCause
PROOF
<1>1. TypeOK /\ StoreIndInv => TornHasCause
  BY DEF StoreIndInv
<1>. QED
  BY <1>1, StoreInductive, PTL

-----------------------------------------------------------------------------
(* Losses.                                                                 *)

(* Only a command that saves changes what is stored.                       *)
LEMMA OnlySaveLoses ==
  ASSUME TypeOK, StoreIndInv, [Next]_vars, stored' # stored
  PROVE  \E j \in Jobs : Save(j)
PROOF
<1>1. ASSUME NEW j \in Jobs,
             Begin(j) \/ Answer(j) \/ Decline(j) \/ Capture(j) \/ Stop(j)
      PROVE  stored' = stored
  BY <1>1, LookTypes, GuideTypes
  DEF Begin, StartAdd, StartRemove, StartClear, StartFails, Start, Answer, Decline,
      Capture, Stop, StoreIndInv
<1>2. ListModels \/ UNCHANGED vars => stored' = stored
  BY DEF ListModels
<1>. QED
  BY <1>1, <1>2 DEF Next

LEMMA SaveExplainsLoss ==
  ASSUME TypeOK, StoreIndInv, NEW j \in Jobs, Save(j),
         NEW m \in ToSet(stored) \ ToSet(stored')
  PROVE  /\ at[j] # at'[j] /\ at'[j] = "done"
         /\ \/ kind[j] = "clear"
            \/ kind[j] = "remove" /\ target[j] = m.id
            \/ m \notin ToSet(seen[j])
PROOF
<1>1. stored # <<>> /\ file.state # "none"
  BY DEF StoreIndInv, InvOrder, ToSet
<1>2. seen[j] \in Seq(Model) /\ kind[j] \in {"add", "remove", "clear"}
  BY DEF TypeOK
<1>3. CASE Delete(j)
  <2>1. at[j] = "edit" /\ at'[j] = "done" /\ Deletes(j)
    BY <1>1, <1>3 DEF Delete, Move, TypeOK
  <2>2. CASE kind[j] = "remove"
    <3>1. Len(seen[j]) = 1
      BY <2>1, <2>2 DEF Deletes
    <3>2. PICK i \in 1 .. Len(seen[j]) : seen[j][i].id = target[j]
      BY <2>1, <2>2 DEF StoreIndInv, InvJobs, Editing
    <3>3. ToSet(seen[j]) = {seen[j][1]} /\ i = 1
      BY <1>2, <3>1, <3>2 DEF ToSet
    <3>. QED
      BY <2>1, <2>2, <3>2, <3>3
  <2>. QED
    BY <2>1, <2>2 DEF Deletes
<1>4. CASE Truncate(j)
  BY <1>4 DEF Truncate
<1>5. CASE Dump(j)
  <2>1. at[j] = "write" /\ at'[j] = "done" /\ kind[j] # "clear"
    BY <1>1, <1>5 DEF Dump, Move, TypeOK, StoreIndInv, InvJobs, Deletes
  <2>2. stored' = Edited(j)
    BY <1>5 DEF Dump
  <2>3. m \in ToSet(seen[j]) => kind[j] = "remove" /\ m.id = target[j]
    BY <2>1, <2>2, EditedKeeps DEF StoreIndInv
  <2>. QED
    BY <2>1, <2>3
<1>. QED
  BY <1>3, <1>4, <1>5 DEF Save

(* A file that is cut off, with only clears under way.                     *)
LEMMA TornStep ==
  ASSUME TypeOK, StoreIndInv, file.state = "torn", Resting, [Next]_vars
  PROVE  \/ file'.state = "torn" /\ Resting'
         \/ \E j \in Jobs : kind[j] = "clear" /\ at'[j] = "done"
PROOF
<1>1. ASSUME NEW j \in Jobs, Begin(j) PROVE file'.state = "torn" /\ Resting'
  <2>1. ~Parses
    BY DEF Parses
  <2>2. PICK what \in {"add", "remove", "clear"}, first \in {"ask", "failed"} :
           /\ Start(j, what, first) /\ UNCHANGED file
           /\ what # "clear" => first = "failed"
    BY <1>1, <2>1 DEF Begin, StartAdd, StartRemove, StartClear, StartFails
  <2>3. /\ at'[j] = first /\ kind'[j] = what
        /\ \A k \in Jobs \ {j} : at'[k] = at[k] /\ kind'[k] = kind[k]
    BY <2>2 DEF Start, Move, TypeOK
  <2>. QED
    BY <2>2, <2>3 DEF Resting, Editing
<1>2. ASSUME NEW j \in Jobs, Answer(j) \/ Decline(j) \/ Capture(j) \/ Stop(j)
      PROVE  file'.state = "torn" /\ Resting'
  <2>1. /\ UNCHANGED <<file, kind>> /\ at[j] \in Editing
        /\ \A k \in Jobs \ {j} : at'[k] = at[k]
    BY <1>2, LookTypes, GuideTypes
    DEF Answer, Decline, Capture, Stop, Move, TypeOK, StoreIndInv, Editing
  <2>. QED
    BY <2>1 DEF Resting
<1>3. ASSUME NEW j \in Jobs, Save(j)
      PROVE  kind[j] = "clear" /\ at'[j] = "done"
  <2>1. at[j] \in Editing /\ kind[j] = "clear"
    BY <1>3 DEF Save, Delete, Truncate, Dump, Move, Editing, Resting
  <2>2. Delete(j)
    BY <1>3, <2>1 DEF Save, Truncate, Dump, Move, Deletes, StoreIndInv, InvJobs
  <2>. QED
    BY <2>1, <2>2 DEF Delete, Move, TypeOK
<1>4. ListModels \/ UNCHANGED vars => file'.state = "torn" /\ Resting'
  BY DEF ListModels, Resting
<1>. QED
  BY <1>1, <1>2, <1>3, <1>4 DEF Next

(* A stored model is lost only to a command that was asked to take it away *)
(* or that had not read it; and nothing but a clear repairs a file that    *)
(* was cut off once nobody is left who has read it before.                 *)
THEOREM LossesAreExplained == Spec => LossesExplained
PROOF
<1>1. ASSUME TypeOK, StoreIndInv, [Next]_vars, NEW m \in ToSet(stored) \ ToSet(stored')
      PROVE  \E j \in Jobs :
               /\ at[j] # at'[j] /\ at'[j] = "done"
               /\ \/ kind[j] = "clear"
                  \/ kind[j] = "remove" /\ target[j] = m.id
                  \/ m \notin ToSet(seen[j])
  <2>1. PICK j \in Jobs : Save(j)
    BY <1>1, OnlySaveLoses
  <2>. QED
    BY <1>1, <2>1, SaveExplainsLoss
<1>2. Spec => LostOnlyToStale
  <2>1. TypeOK /\ StoreIndInv /\ [Next]_vars =>
          [\A m \in ToSet(stored) \ ToSet(stored') : \E j \in Jobs :
             /\ at[j] # at'[j] /\ at'[j] = "done"
             /\ \/ kind[j] = "clear"
                \/ kind[j] = "remove" /\ target[j] = m.id
                \/ m \notin ToSet(seen[j])]_vars
    BY <1>1
  <2>. QED
    BY <2>1, StoreInductive, PTL DEF Spec, LostOnlyToStale
<1>3. Spec => TornStays
  <2>1. TypeOK /\ StoreIndInv /\ [Next]_vars =>
          [file.state = "torn" /\ Resting =>
             \/ file'.state = "torn" /\ Resting'
             \/ \E j \in Jobs : kind[j] = "clear" /\ at'[j] = "done"]_vars
    BY TornStep
  <2>. QED
    BY <2>1, StoreInductive, PTL DEF Spec, TornStays
<1>. QED
  BY <1>2, <1>3 DEF LossesExplained
=============================================================================
