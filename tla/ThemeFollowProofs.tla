-------------------------- MODULE ThemeFollowProofs --------------------------
(***************************************************************************)
(* Proofs about ThemeFollow, for any settings, desktops and themes and any *)
(* number of changes, lines, timers and probes at once: when the app shows *)
(* something else than the desktop, that has a cause.                      *)
(***************************************************************************)
EXTENDS ThemeFollow, TLAPS

USE DEF vars, feed, scheduling, probing

(* What a setting may be.                                                  *)
LEMMA DomainValues ==
  /\ \A k \in Key : Domain[k] \subseteq Values
  /\ Nothing \in Values
PROOF
<1>1. \A k \in Key : Domain[k] \subseteq Values
  BY DEF Values
<1>. DEFINE Some == UNION {Domain[k] : k \in Key}
<1>2. Values = {Nothing} \union Some
  BY DEF Values
<1>. HIDE DEF Some
<1>. QED
  BY <1>1, <1>2

LEMMA AnswerValues ==
  ASSUME TypeOK, NEW k \in Key
  PROVE  desktop[k] \in Values /\ FailedAnswers(k) \subseteq Values
PROOF
<1>1. Domain[k] \subseteq Values /\ Nothing \in Values
  BY DomainValues
<1>2. desktop[k] \in Values
  BY DEF TypeOK
<1>. QED
  BY <1>1, <1>2 DEF FailedAnswers

(* A probe that has one answer more.                                       *)
LEMMA OneMoreAnswer ==
  ASSUME NEW p \in ProbeType, NEW k \in Key, NEW value \in Values
  PROVE  LET q == [p EXCEPT !.got[k] = value]
         IN /\ q \in ProbeType /\ q.gen = p.gen /\ q.got[k] = value
            /\ \A h \in Key \ {k} : q.got[h] = p.got[h]
BY DEF ProbeType

(* What a probe that reads does, whether its tool works or fails.          *)
Reading(p, q, k) ==
  /\ q \in ProbeType /\ q.gen = p.gen
  /\ \A h \in Key \ {k} : q.got[h] = p.got[h]
  /\ probes' = (probes \ {p}) \union {q}
  /\ \/ q.got[k] = desktop[k] /\ doubt' = IF Newest(p) THEN doubt \ {k} ELSE doubt
     \/ doubt' = IF Newest(p) THEN doubt \union {k} ELSE doubt
  /\ stage # "closed"
  /\ Running /\ UNCHANGED <<shown, generation>>

LEMMA ReadIsReading ==
  ASSUME TypeOK, NEW p \in probes, ReadSetting(p) \/ ReadFails(p)
  PROVE  \E k \in Key : \E q : Reading(p, q, k)
PROOF
<1>1. p \in ProbeType
  BY DEF TypeOK
<1>2. CASE ReadSetting(p)
  <2>1. PICK k \in Key :
           /\ stage # "closed" /\ Answered(p, k, desktop[k])
           /\ doubt' = IF Newest(p) THEN doubt \ {k} ELSE doubt
           /\ Running /\ UNCHANGED <<shown, generation>>
    BY <1>2 DEF ReadSetting
  <2>. DEFINE q == [p EXCEPT !.got[k] = desktop[k]]
  <2>2. /\ q \in ProbeType /\ q.gen = p.gen /\ q.got[k] = desktop[k]
        /\ \A h \in Key \ {k} : q.got[h] = p.got[h]
    BY <1>1, AnswerValues, OneMoreAnswer
  <2>3. probes' = (probes \ {p}) \union {q}
    BY <2>1 DEF Answered
  <2>. HIDE DEF q
  <2>4. Reading(p, q, k)
    BY <2>1, <2>2, <2>3 DEF Reading
  <2>. QED
    BY <2>4
<1>3. CASE ReadFails(p)
  <2>1. PICK k \in Key :
           /\ stage # "closed"
           /\ \E value \in FailedAnswers(k) : Answered(p, k, value)
           /\ doubt' = IF Newest(p) THEN doubt \union {k} ELSE doubt
           /\ Running /\ UNCHANGED <<shown, generation>>
    BY <1>3 DEF ReadFails
  <2>2. PICK value \in FailedAnswers(k) : Answered(p, k, value)
    BY <2>1
  <2>. DEFINE q == [p EXCEPT !.got[k] = value]
  <2>3. /\ q \in ProbeType /\ q.gen = p.gen
        /\ \A h \in Key \ {k} : q.got[h] = p.got[h]
    BY <1>1, AnswerValues, OneMoreAnswer
  <2>4. probes' = (probes \ {p}) \union {q}
    BY <2>2 DEF Answered
  <2>. HIDE DEF q
  <2>5. Reading(p, q, k)
    BY <2>1, <2>3, <2>4 DEF Reading
  <2>. QED
    BY <2>5
<1>. QED
  BY <1>2, <1>3

(* What Gtk.Settings can have after _apply_theme_settings.                 *)
LEMMA SetTypes ==
  ASSUME TypeOK, NEW values \in [Key -> Values], Set(values)
  PROVE  /\ shown' \in [Key -> Values]
         /\ \A k \in Key : Settable(k, values[k]) => shown'[k] = values[k]
BY DEF TypeOK, Set

LEMMA CompleteAnswers ==
  ASSUME NEW p \in ProbeType, Complete(p)
  PROVE  p.got \in [Key -> Values]
BY DEF ProbeType, Complete

-----------------------------------------------------------------------------
(* The types.                                                              *)

LEMMA ProbeTypes ==
  ASSUME TypeOK, NEW p \in probes,
         ReadSetting(p) \/ ReadFails(p) \/ ProbeRaises(p) \/ Apply(p) \/ FirstApply(p)
  PROVE  TypeOK'
PROOF
<1>1. p \in ProbeType
  BY DEF TypeOK
<1>2. CASE ReadSetting(p) \/ ReadFails(p)
  <2>1. PICK k \in Key : \E q : Reading(p, q, k)
    BY <1>2, ReadIsReading
  <2>2. PICK q : Reading(p, q, k)
    BY <2>1
  <2>. QED
    BY <2>2 DEF Reading, Running, TypeOK
<1>3. CASE ProbeRaises(p)
  BY <1>3 DEF ProbeRaises, Running, TypeOK
<1>4. CASE Apply(p) \/ FirstApply(p)
  <2>1. shown' \in [Key -> Values]
    BY <1>1, <1>4, SetTypes, CompleteAnswers DEF Apply, FirstApply, TypeOK
  <2>. QED
    BY <1>4, <2>1 DEF Apply, FirstApply, Running, TypeOK
<1>. QED
  BY <1>2, <1>3, <1>4

LEMMA WatchTypes ==
  ASSUME TypeOK, Watch
  PROVE  TypeOK'
PROOF
<1>1. CASE ReadLine
  BY <1>1 DEF ReadLine, TypeOK
<1>3. CASE CheckPending \/ SetPending
  BY <1>3 DEF CheckPending, SetPending, TypeOK
<1>4. CASE AddTimer
  BY <1>4 DEF AddTimer, TypeOK
<1>5. CASE FileChanged
  <2>1. pending' \in BOOLEAN
    BY Zenon, <1>5 DEF FileChanged, TypeOK
  <2>3. timers' \in Nat
    BY <1>5 DEF FileChanged, TypeOK
  <2>2. notes' \in Nat
    BY <1>5 DEF FileChanged, TypeOK
  <2>. QED
    BY <1>5, <2>1, <2>2, <2>3 DEF FileChanged, TypeOK
<1>2. CASE Fire
  <2>1. NewProbe(generation + 1) \in ProbeType
    BY DEF NewProbe, ProbeType, TypeOK
  <2>2. timers' \in Nat /\ generation' \in Nat
    BY <1>2 DEF Fire, TypeOK
  <2>3. pending' \in BOOLEAN
    BY <1>2 DEF Fire
  <2>4. \A p \in probes' : p \in ProbeType
    BY <1>2, <2>1 DEF Fire, TypeOK
  <2>. QED
    BY <1>2, <2>2, <2>3, <2>4 DEF Fire, TypeOK
<1>. QED
  BY <1>1, <1>2, <1>3, <1>4, <1>5 DEF Watch

LEMMA OwnTypes ==
  ASSUME TypeOK, FollowOwn \/ SettingsChanged
  PROVE  TypeOK'
PROOF
<1>1. OwnValues \in [Key -> Values]
  BY AnswerValues, DomainValues DEF OwnValues
<1>2. shown' \in [Key -> Values]
  BY <1>1, SetTypes DEF FollowOwn, SettingsChanged
<1>. QED
  BY <1>2 DEF FollowOwn, SettingsChanged, TypeOK

LEMMA SetupTypes ==
  ASSUME TypeOK, StartWatcher \/ SetupFails \/ Stop
  PROVE  TypeOK'
BY DEF StartWatcher, SetupFails, Stop, TypeOK

LEMMA EnvironmentTypes ==
  ASSUME TypeOK, Environment
  PROVE  TypeOK'
PROOF
<1>1. ASSUME NEW k \in Key, Change(k) PROVE TypeOK'
  <2>1. PICK value \in Domain[k] :
           /\ changes < MaxChanges /\ changes' = changes + 1
           /\ desktop' = [desktop EXCEPT ![k] = value]
    BY <1>1 DEF Change
  <2>2. /\ desktop' \in [Key -> Values]
        /\ \A h \in Key : desktop'[h] \in Domain[h]
    BY <2>1, DomainValues DEF TypeOK
  <2>3. changes' \in 0 .. MaxChanges
    BY <2>1, ChangesAssumption DEF TypeOK
  <2>4. lines' \in Nat /\ notes' \in Nat /\ doubt' \subseteq Key
    BY <1>1 DEF Change, TypeOK
  <2>. QED
    BY <1>1, <2>2, <2>3, <2>4 DEF Change, TypeOK
<1>2. CASE OtherWrite
  BY <1>2, ChangesAssumption DEF OtherWrite, TypeOK
<1>3. CASE MonitorSubscribes \/ MonitorEnds
  BY <1>3 DEF MonitorSubscribes, MonitorEnds, TypeOK
<1>. QED
  BY <1>1, <1>2, <1>3 DEF Environment

LEMMA InitTypes ==
  ASSUME Init
  PROVE  TypeOK
PROOF
<1>1. /\ desktop \in [Key -> Values] /\ shown \in [Key -> Values]
      /\ \A k \in Key : desktop[k] \in Domain[k]
  BY DomainValues DEF Init
<1>2. NewProbe(0) \in ProbeType
  BY DEF NewProbe, ProbeType
<1>3. changes \in 0 .. MaxChanges
  BY ChangesAssumption DEF Init
<1>. QED
  BY <1>1, <1>2, <1>3 DEF Init, TypeOK

LEMMA NextTypes ==
  ASSUME TypeOK, [Next]_vars
  PROVE  TypeOK'
PROOF
<1>1. CASE Next
  BY <1>1, ProbeTypes, WatchTypes, OwnTypes, SetupTypes, EnvironmentTypes
  DEF Next, App, Probe
<1>2. CASE UNCHANGED vars
  BY <1>2 DEF TypeOK
<1>. QED
  BY <1>1, <1>2

-----------------------------------------------------------------------------
(* The invariant, through the steps of a probe.                            *)

(* A probe that reads leaves the others alone and stays in its generation. *)
LEMMA ReadKeeps ==
  ASSUME TypeOK, FollowInv, NEW p \in probes, ReadSetting(p) \/ ReadFails(p)
  PROVE  FollowInv'
PROOF
<1>1. PICK k \in Key : \E q : Reading(p, q, k)
  BY ReadIsReading
<1>2. PICK q : Reading(p, q, k)
  BY <1>1
<1>3. /\ UNCHANGED <<session, stage, desktop, shown, feed, scheduling, generation>>
      /\ probes' = (probes \ {p}) \union {q} /\ q.gen = p.gen
  BY <1>2 DEF Reading, Running
<1>4. InvTimer'
  BY <1>3 DEF FollowInv, InvTimer
<1>5. InvProbes'
  <2>1. /\ \A r \in probes' : r.gen <= generation
        /\ \A r, s \in probes' : r.gen = s.gen => r = s
    BY <1>3 DEF FollowInv, InvProbes
  <2>2. session = "own" => FALSE
    BY DEF FollowInv, InvProbes
  <2>. QED
    BY <1>3, <2>1, <2>2 DEF FollowInv, InvProbes
<1>6. InvShown'
  <2>1. SUFFICES ASSUME Tracked, NEW h \in Key, h \notin doubt', ~UnderWay
                 PROVE  Settles(h)'
    BY <1>3 DEF InvShown, Tracked, Settles, UnderWay
  <2>2. h \notin doubt => Settles(h)
    BY <2>1 DEF FollowInv, InvShown
  <2>3. CASE Newest(p)
    <3>1. q \in probes' /\ Newest(q)'
      BY <1>3, <2>3 DEF Newest
    <3>2. CASE h = k
      <4>1. q.got[k] = desktop[k]
        BY <1>2, <2>1, <2>3, <3>2 DEF Reading
      <4>. QED
        BY <1>3, <3>1, <3>2, <4>1 DEF Settles
    <3>3. CASE h # k
      <4>1. h \notin doubt /\ q.got[h] = p.got[h]
        BY <1>2, <2>1, <2>3, <3>3 DEF Reading
      <4>2. p.got[h] \in {Unread, desktop[h]}
        BY <2>1, <2>2, <2>3, <4>1 DEF Settles, FollowInv, InvProbes, Newest
      <4>. QED
        BY <1>3, <3>1, <4>1, <4>2 DEF Settles
    <3>. QED
      BY <3>2, <3>3
  <2>4. CASE ~Newest(p)
    <3>1. h \notin doubt /\ ~Newest(q)'
      BY <1>2, <1>3, <2>1, <2>4 DEF Reading, Newest
    <3>2. CASE \E r \in probes : Newest(r) /\ r.got[h] \in {Unread, desktop[h]}
      BY <1>3, <2>4, <3>2 DEF Settles, Newest
    <3>3. CASE \A r \in probes : ~Newest(r)
      BY <1>3, <2>1, <2>2, <3>1, <3>3 DEF Settles, Newest, UnderWay
    <3>. QED
      BY <2>1, <2>2, <3>1, <3>2, <3>3 DEF Settles
  <2>. QED
    BY <2>3, <2>4
<1>. QED
  BY <1>4, <1>5, <1>6 DEF FollowInv

(* When a probe goes, the newest one has been applied, or all is in doubt. *)
LEMMA GoneKeeps ==
  ASSUME TypeOK, FollowInv, NEW p \in probes,
         ProbeRaises(p) \/ Apply(p) \/ FirstApply(p)
  PROVE  FollowInv'
PROOF
<1>1. /\ UNCHANGED <<session, desktop, feed, scheduling, generation>>
      /\ probes' = probes \ {p}
      /\ stage' \in {"watch", "following"} /\ Tracked
  BY DEF ProbeRaises, Apply, FirstApply, Running, Tracked, FollowInv, InvProbes
<1>2. p \in ProbeType
  BY DEF TypeOK
<1>3. InvTimer'
  BY <1>1 DEF FollowInv, InvTimer
<1>4. InvProbes'
  BY <1>1 DEF FollowInv, InvProbes
<1>5. InvShown'
  <2>1. SUFFICES ASSUME NEW h \in Key, h \notin doubt', ~UnderWay
                 PROVE  Settles(h)'
    BY <1>1 DEF InvShown, Tracked, Settles, UnderWay
  <2>2. h \notin doubt => Settles(h)
    BY <1>1 DEF FollowInv, InvShown
  <2>3. CASE Newest(p)
    <3>1. ~ProbeRaises(p) /\ doubt' = doubt
      BY <2>1, <2>3 DEF ProbeRaises, Apply, FirstApply
    <3>2. Complete(p) /\ Set(p.got)
      BY <2>3, <3>1 DEF Apply, FirstApply
    <3>3. p.got[h] = desktop[h]
      BY <2>1, <2>2, <2>3, <3>1, <3>2 DEF Settles, FollowInv, InvProbes, Newest, Complete
    <3>4. Settable(h, desktop[h]) => shown'[h] = desktop[h]
      BY <1>2, <3>2, <3>3, SetTypes, CompleteAnswers
    <3>5. \A r \in probes' : ~Newest(r)'
      BY <1>1, <2>3 DEF Newest, FollowInv, InvProbes
    <3>. QED
      BY <1>1, <3>4, <3>5 DEF Settles, Settable
  <2>4. CASE ~Newest(p)
    <3>1. ~FirstApply(p)
      BY <1>2, <2>4 DEF FirstApply, Newest, FollowInv, InvProbes, ProbeType
    <3>2. h \notin doubt /\ shown' = shown
      BY <2>1, <2>4, <3>1 DEF ProbeRaises, Apply
    <3>. QED
      BY <1>1, <2>1, <2>2, <2>4, <3>2 DEF Settles, UnderWay, Newest, Settable
  <2>. QED
    BY <2>3, <2>4
<1>. QED
  BY <1>3, <1>4, <1>5 DEF FollowInv

(* The timer and the thread that sets it: from a line or a file change on, *)
(* until a refresh has its probe, something is under way.                  *)
LEMMA WatchKeeps ==
  ASSUME TypeOK, FollowInv, Watch
  PROVE  FollowInv'
PROOF
<1>1. session # "own" /\ stage = "following" /\ UNCHANGED <<session, stage, desktop, shown>>
  BY DEF Watch, ReadLine, CheckPending, SetPending, AddTimer, FileChanged, Fire, Scheduling
<1>2. CASE ReadLine \/ CheckPending \/ SetPending \/ AddTimer \/ FileChanged
  <2>1. UNCHANGED <<generation, probes, doubt>>
    BY <1>2 DEF ReadLine, CheckPending, SetPending, AddTimer, FileChanged
  <2>2. InvTimer' /\ UnderWay'
    <3>1. CASE ReadLine \/ CheckPending
      BY <1>2, <3>1 DEF ReadLine, CheckPending, InvTimer, FollowInv, UnderWay, TypeOK
    <3>2. CASE SetPending
      BY <3>2 DEF SetPending, InvTimer, UnderWay
    <3>3. CASE AddTimer
      BY <3>3 DEF AddTimer, InvTimer, UnderWay, TypeOK
    <3>4. CASE FileChanged
      BY <3>4 DEF FileChanged, InvTimer, FollowInv, UnderWay, TypeOK
    <3>. QED
      BY <1>2, <3>1, <3>2, <3>3, <3>4
  <2>3. InvProbes'
    BY <1>1, <2>1 DEF InvProbes, FollowInv
  <2>. QED
    BY <2>2, <2>3 DEF FollowInv, InvShown, Settles
<1>3. CASE Fire
  <2>. DEFINE new == NewProbe(generation + 1)
  <2>1. /\ new.gen = generation + 1
        /\ \A k \in Key : new.got[k] = Unread
    BY DEF NewProbe
  <2>2. /\ probes' = probes \union {new} /\ generation' = generation + 1
        /\ pending' = FALSE /\ doubt' = doubt
    BY <1>3 DEF Fire
  <2>. HIDE DEF new
  <2>3. \A p \in probes : p.gen <= generation /\ p.gen \in Nat /\ generation \in Nat
    BY DEF FollowInv, InvProbes, TypeOK, ProbeType
  <2>4. InvProbes'
    <3>1. /\ \A p \in probes' : p.gen <= generation'
          /\ \A p, q \in probes' : p.gen = q.gen => p = q
      <4>1. generation \in Nat
        BY DEF TypeOK
      <4>. QED
        BY <2>1, <2>2, <2>3, <4>1 DEF FollowInv, InvProbes
    <3>. QED
      BY <1>1, <2>2, <3>1 DEF InvProbes
  <2>5. InvShown'
    BY <1>1, <2>1, <2>2 DEF InvShown, Settles, Newest
  <2>. QED
    BY <2>2, <2>4, <2>5 DEF FollowInv, InvTimer
<1>. QED
  BY <1>2, <1>3 DEF Watch

(* The app as the user: what it sets is what the user has, icons excepted. *)
LEMMA OwnKeeps ==
  ASSUME TypeOK, FollowInv, FollowOwn \/ SettingsChanged
  PROVE  FollowInv'
PROOF
<1>1. /\ session = "own" /\ stage' = "following" /\ Set(OwnValues)
      /\ UNCHANGED <<session, desktop, scheduling, generation, probes>>
      /\ probes = {} /\ Key \intersect {"icon"} \subseteq doubt'
  BY DEF FollowOwn, SettingsChanged, FollowInv, InvProbes
<1>2. InvTimer' /\ InvProbes'
  BY <1>1 DEF FollowInv, InvTimer, InvProbes
<1>3. ASSUME NEW k \in Key, k \notin doubt' PROVE Settles(k)'
  <2>1. OwnValues \in [Key -> Values] /\ OwnValues[k] = desktop[k]
    BY <1>1, <1>3, AnswerValues, DomainValues DEF OwnValues
  <2>2. Settable(k, desktop[k]) => shown'[k] = desktop[k]
    BY <1>1, <2>1, SetTypes
  <2>. QED
    BY <1>1, <2>2 DEF Settles, Settable
<1>. QED
  BY <1>2, <1>3 DEF FollowInv, InvShown

LEMMA SetupKeeps ==
  ASSUME TypeOK, FollowInv, StartWatcher \/ SetupFails \/ Stop
  PROVE  FollowInv'
PROOF
<1>1. CASE StartWatcher
  <2>1. session # "own" \/ Key \intersect {"icon"} \subseteq doubt
    BY <1>1 DEF StartWatcher, FollowInv, InvProbes
  <2>. QED
    BY <1>1, <2>1 DEF StartWatcher, FollowInv, InvTimer, InvProbes, InvShown, Tracked,
       Settles, UnderWay, Newest, Settable
<1>2. CASE SetupFails \/ Stop
  BY <1>2 DEF SetupFails, Stop, FollowInv, InvTimer, InvProbes, InvShown, Tracked
<1>. QED
  BY <1>1, <1>2

(* A change that is announced puts something under way; one that is not    *)
(* is in doubt.                                                            *)
LEMMA EnvironmentKeeps ==
  ASSUME TypeOK, FollowInv, Environment
  PROVE  FollowInv'
PROOF
<1>1. ASSUME NEW k \in Key, Change(k) PROVE FollowInv'
  <2>1. /\ UNCHANGED <<session, stage, shown, monitor, scheduling, generation, probes>>
        /\ \A h \in Key \ {k} : desktop'[h] = desktop[h]
    BY <1>1 DEF Change, TypeOK
  <2>2. lines \in Nat /\ notes \in Nat
    BY DEF TypeOK
  <2>3. \/ lines' = lines + 1 /\ notes' = notes
        \/ notes' = notes + 1 /\ lines' = lines
        \/ k \in doubt' /\ UNCHANGED <<lines, notes>>
    BY <1>1 DEF Change
  <2>4. \A h \in Key \ {k} : h \in doubt <=> h \in doubt'
    BY <1>1 DEF Change
  <2>5. UnderWay' \/ (k \in doubt' /\ UnderWay' = UnderWay)
    BY <2>1, <2>2, <2>3 DEF UnderWay
  <2>6. InvTimer'
    BY <2>1 DEF FollowInv, InvTimer
  <2>7. InvProbes'
    <3>1. session = "own" => k # "icon" \/ k \in doubt'
      BY <1>1 DEF Change, Channel
    <3>. QED
      BY <2>1, <2>4, <3>1 DEF FollowInv, InvProbes
  <2>8. InvShown'
    <3>1. SUFFICES ASSUME Tracked, NEW h \in Key \ {k}, h \notin doubt, ~UnderWay',
                          UnderWay' = UnderWay
                   PROVE  Settles(h)'
      BY <2>1, <2>4, <2>5 DEF InvShown, Settles, Tracked
    <3>2. Settles(h)
      BY <3>1 DEF FollowInv, InvShown
    <3>. QED
      BY <2>1, <3>1, <3>2 DEF Settles, Newest, Settable
  <2>. QED
    BY <2>6, <2>7, <2>8 DEF FollowInv
<1>2. CASE OtherWrite
  <2>1. UnderWay'
    BY <1>2 DEF OtherWrite, UnderWay, TypeOK
  <2>2. InvTimer' /\ InvProbes'
    BY <1>2 DEF OtherWrite, FollowInv, InvTimer, InvProbes
  <2>. QED
    BY <2>1, <2>2 DEF FollowInv, InvShown, Settles
<1>3. CASE MonitorSubscribes \/ MonitorEnds
  BY <1>3 DEF MonitorSubscribes, MonitorEnds, FollowInv, InvTimer, InvProbes,
     InvShown, Tracked, Settles, UnderWay, Newest, Settable
<1>. QED
  BY <1>1, <1>2, <1>3 DEF Environment

LEMMA InitKeeps ==
  ASSUME Init
  PROVE  FollowInv
PROOF
<1>1. NewProbe(0).gen = 0 /\ \A k \in Key : NewProbe(0).got[k] = Unread
  BY DEF NewProbe
<1>. QED
  BY <1>1 DEF Init, FollowInv, InvTimer, InvProbes, InvShown, Tracked, Settles, Newest

LEMMA StutterKeeps ==
  ASSUME FollowInv, UNCHANGED vars
  PROVE  FollowInv'
BY DEF FollowInv, InvTimer, InvProbes, InvShown, Tracked, Settles, UnderWay, Newest,
   Settable

-----------------------------------------------------------------------------
(* The types and the inductive invariant, for every reachable state: one   *)
(* probe to a generation, no refresh asked for without a timer, and what   *)
(* the newest probe has read of an announced setting is what the user has. *)
THEOREM FollowInductive == Spec => [](TypeOK /\ FollowInv)
PROOF
<1>1. Init => TypeOK /\ FollowInv
  BY InitTypes, InitKeeps
<1>2. TypeOK /\ FollowInv /\ [Next]_vars => TypeOK' /\ FollowInv'
  <2>1. ASSUME TypeOK, FollowInv, Next PROVE FollowInv'
    BY <2>1, ReadKeeps, GoneKeeps, WatchKeeps, OwnKeeps, SetupKeeps, EnvironmentKeeps
    DEF Next, App, Probe
  <2>. HIDE DEF vars
  <2>. QED
    BY <2>1, NextTypes, StutterKeeps
<1>. QED
  BY <1>1, <1>2, PTL DEF Spec

(* However refreshes, probes and bursts of changes overlap, an app that    *)
(* shows something else than the desktop has a refresh on its way or a     *)
(* newest probe that will put it right, unless nobody told it or a tool of *)
(* that probe failed.                                                      *)
THEOREM StaleThemeHasCause == Spec => []ThemeInv
PROOF
<1>1. TypeOK /\ FollowInv => ThemeInv
  <2>1. ASSUME FollowInv PROVE StaleHasCause
    BY <2>1 DEF FollowInv, InvShown, Tracked, Settles, StaleHasCause
  <2>. QED
    BY <2>1 DEF ThemeInv
<1>. QED
  BY <1>1, FollowInductive, PTL
=============================================================================
