-------------------------- MODULE AppCamerasProofs --------------------------
(***************************************************************************)
(* Proofs about AppCameras, for any cameras, visits and threads: captures  *)
(* are handed over once, `add` finds its camera free, and Settings shows   *)
(* the camera that is selected.                                            *)
(***************************************************************************)
EXTENDS AppCameras, TLAPS

USE DEF buttonVars, wizardVars, previewVars, settingsVars, ghosts

-----------------------------------------------------------------------------
(* The holders are different from each other.                              *)
LEMMA HoldersDiffer ==
  /\ \A p \in Previews : p \in Holders /\ p \notin Probes /\ p \notin Openers
                         /\ p \notin {Emitter, Adder, Window, Closing}
  /\ \A o \in Openers : o \in Holders /\ o \notin Probes /\ o \notin Previews
                        /\ o \notin {Emitter, Adder, Window, Closing}
  /\ \A x \in Probes : x \in Holders /\ x \notin {Emitter, Adder, Window, Closing}
  /\ {Emitter, Adder, Window, Closing} \subseteq Holders
BY HoldersAssumption DEF Holders

LEMMA SinglesDiffer ==
  /\ Emitter # Adder /\ Emitter # Window /\ Emitter # Closing
  /\ Adder # Window /\ Adder # Closing /\ Window # Closing
BY DEF Emitter, Adder, Window, Closing

LEMMA PairIsProbe ==
  ASSUME NEW v \in Visits, NEW c \in Cameras
  PROVE  /\ <<v, c>> \in Probes /\ <<v, c>> \in Holders
         /\ \A w \in Visits, d \in Cameras : <<w, d>> = <<v, c>> => w = v /\ d = c
BY HoldersDiffer DEF Probes

LEMMA NoneIsNoCamera == None \notin Cameras /\ None \notin Previews
BY NoneAssumption

-----------------------------------------------------------------------------
(* The threads of the wizard's camera page.                                *)

(* How a step may change the captures of the others.                       *)
LEMMA ReleaseTypes ==
  ASSUME TypeOK, NEW h \in Holders
  PROVE  /\ Release(h) \in [Holders -> Cameras \union {None}]
         /\ Release(h)[h] = None
         /\ \A g \in Holders \ {h} : Release(h)[g] = cap[g]
BY DEF TypeOK, Release

LEMMA OpensTypes ==
  ASSUME TypeOK, NEW h \in Holders, NEW c \in Cameras, Opens(h, c)
  PROVE  /\ cap' \in [Holders -> Cameras \union {None}]
         /\ cap'[h] \in {c, cap[h]}
         /\ \A g \in Holders \ {h} : cap'[g] = cap[g]
BY DEF TypeOK, Opens

(* What a scan thread or the worker of a probe leaves alone.               *)
ScanStep(v) ==
  /\ UNCHANGED <<page, main, listed, sel, face, asked, buttonVars, previewVars, add, settingsVars>>
  /\ UNCHANGED <<stuck, skipped, away, inFlight, crossed>>
  /\ late' \in {late, late + 1} /\ late' \in 0 .. MaxLate
  /\ visit' \in [Visits -> VisitType] /\ probe' \in [Probes -> ProbeType]
  /\ visit'[v].wanted => visit[v].wanted
  /\ \A w \in Visits \ {v} : visit'[w] = visit[w]
  /\ \A w \in Visits \ {v}, c \in Cameras : probe'[<<w, c>>] = probe[<<w, c>>]
  /\ cap' \in [Holders -> Cameras \union {None}]
  /\ \A h \in Holders : (\A c \in Cameras : h # <<v, c>>) => cap'[h] = cap[h]

LEMMA StartProbeStep ==
  ASSUME TypeOK, NEW v \in Visits, NEW c \in Cameras, StartProbe(v, c)
  PROVE  /\ ScanStep(v) /\ UNCHANGED cap /\ late' = late
         /\ visit[v].at = "next" /\ visit'[v].at = "wait" /\ visit'[v].dev = c
         /\ probe'[<<v, c>>] = [worker |-> "open", status |-> "pending", ok |-> FALSE]
         /\ \A d \in Cameras \ {c} : probe'[<<v, d>>] = probe[<<v, d>>]
PROOF
<1>1. /\ visit \in [Visits -> VisitType] /\ probe \in [Probes -> ProbeType]
      /\ cap \in [Holders -> Cameras \union {None}] /\ late \in 0 .. MaxLate
  BY DEF TypeOK
<1>2. /\ visit' \in [Visits -> VisitType]
      /\ visit'[v].at = "wait" /\ visit'[v].dev = c /\ visit'[v].wanted = visit[v].wanted
      /\ \A w \in Visits \ {v} : visit'[w] = visit[w]
  BY <1>1 DEF StartProbe, VisitType
<1>4. [worker |-> "open", status |-> "pending", ok |-> FALSE] \in ProbeType
  BY DEF ProbeType
<1>5. /\ probe' \in [Probes -> ProbeType]
      /\ probe'[<<v, c>>] = [worker |-> "open", status |-> "pending", ok |-> FALSE]
      /\ \A y \in Probes : y # <<v, c>> => probe'[y] = probe[y]
  BY <1>1, <1>4, PairIsProbe DEF StartProbe
<1>6. /\ \A w \in Visits \ {v}, d \in Cameras : probe'[<<w, d>>] = probe[<<w, d>>]
      /\ \A d \in Cameras \ {c} : probe'[<<v, d>>] = probe[<<v, d>>]
  BY <1>5, PairIsProbe
<1>. QED
  BY <1>1, <1>2, <1>5, <1>6 DEF StartProbe, ScanStep

(* A step of the worker of a probe: to its next place.                     *)
WorkerStep(v, c) ==
  /\ ScanStep(v) /\ UNCHANGED visit /\ late' = late
  /\ \A d \in Cameras \ {c} : probe'[<<v, d>>] = probe[<<v, d>>]
  /\ \A d \in Cameras \ {c} : cap'[<<v, d>>] = cap[<<v, d>>]

LEMMA WorkerOpensStep ==
  ASSUME TypeOK, NEW v \in Visits, NEW c \in Cameras, WorkerOpens(v, c)
  PROVE  /\ WorkerStep(v, c)
         /\ probe[<<v, c>>].worker = "open" /\ probe'[<<v, c>>].worker = "read"
         /\ probe'[<<v, c>>].status = probe[<<v, c>>].status
         /\ probe'[<<v, c>>].ok = probe[<<v, c>>].ok
         /\ cap'[<<v, c>>] \in {c, cap[<<v, c>>]}
PROOF
<1>1. /\ visit \in [Visits -> VisitType] /\ probe \in [Probes -> ProbeType]
      /\ cap \in [Holders -> Cameras \union {None}] /\ late \in 0 .. MaxLate
  BY DEF TypeOK
<1>2. /\ probe' \in [Probes -> ProbeType]
      /\ probe[<<v, c>>].worker = "open" /\ probe'[<<v, c>>].worker = "read"
      /\ probe'[<<v, c>>].status = probe[<<v, c>>].status
      /\ probe'[<<v, c>>].ok = probe[<<v, c>>].ok
      /\ \A y \in Probes : y # <<v, c>> => probe'[y] = probe[y]
  BY <1>1, PairIsProbe DEF WorkerOpens, ProbeType
<1>3. /\ cap' \in [Holders -> Cameras \union {None}]
      /\ cap'[<<v, c>>] \in {c, cap[<<v, c>>]}
      /\ \A g \in Holders \ {<<v, c>>} : cap'[g] = cap[g]
  BY PairIsProbe, OpensTypes DEF WorkerOpens
<1>4. /\ \A d \in Cameras \ {c} : probe'[<<v, d>>] = probe[<<v, d>>]
      /\ \A d \in Cameras \ {c} : cap'[<<v, d>>] = cap[<<v, d>>]
      /\ \A w \in Visits \ {v}, d \in Cameras : probe'[<<w, d>>] = probe[<<w, d>>]
  BY <1>2, <1>3, PairIsProbe
<1>. QED
  BY <1>1, <1>2, <1>3, <1>4 DEF WorkerOpens, WorkerStep, ScanStep

LEMMA WorkerReadsStep ==
  ASSUME TypeOK, NEW v \in Visits, NEW c \in Cameras, WorkerReads(v, c)
  PROVE  /\ WorkerStep(v, c) /\ UNCHANGED cap
         /\ probe[<<v, c>>].worker = "read" /\ probe'[<<v, c>>].worker = "settle"
         /\ probe'[<<v, c>>].status = probe[<<v, c>>].status
         /\ probe'[<<v, c>>].ok => cap[<<v, c>>] = c
PROOF
<1>1. /\ visit \in [Visits -> VisitType] /\ probe \in [Probes -> ProbeType]
      /\ cap \in [Holders -> Cameras \union {None}] /\ late \in 0 .. MaxLate
  BY DEF TypeOK
<1>2. PICK ok \in {FALSE, cap[<<v, c>>] = c} :
         probe' = [probe EXCEPT ![<<v, c>>].worker = "settle", ![<<v, c>>].ok = ok]
  BY DEF WorkerReads
<1>3. ok \in BOOLEAN
  OBVIOUS
<1>4. /\ probe' \in [Probes -> ProbeType] /\ probe'[<<v, c>>].worker = "settle"
      /\ probe'[<<v, c>>].status = probe[<<v, c>>].status
      /\ probe'[<<v, c>>].ok = ok
      /\ \A y \in Probes : y # <<v, c>> => probe'[y] = probe[y]
  BY <1>1, <1>2, <1>3, PairIsProbe DEF ProbeType
<1>5. /\ \A d \in Cameras \ {c} : probe'[<<v, d>>] = probe[<<v, d>>]
      /\ \A w \in Visits \ {v}, d \in Cameras : probe'[<<w, d>>] = probe[<<w, d>>]
  BY <1>4, PairIsProbe
<1>6. UNCHANGED cap /\ ScanStep(v)
  BY <1>1, <1>4, <1>5 DEF WorkerReads, ScanStep
<1>. QED
  BY <1>2, <1>4, <1>5, <1>6 DEF WorkerReads, WorkerStep

LEMMA WorkerSettlesStep ==
  ASSUME TypeOK, NEW v \in Visits, NEW c \in Cameras, WorkerSettles(v, c)
  PROVE  /\ WorkerStep(v, c)
         /\ probe[<<v, c>>].worker = "settle"
         /\ probe'[<<v, c>>].worker = "end" /\ probe'[<<v, c>>].status = "done"
         /\ IF probe[<<v, c>>].status = "pending"
            THEN /\ probe'[<<v, c>>].ok = probe[<<v, c>>].ok
                 /\ cap'[<<v, c>>] = IF probe[<<v, c>>].ok THEN cap[<<v, c>>] ELSE None
            ELSE ~probe'[<<v, c>>].ok /\ cap'[<<v, c>>] = None
PROOF
<1>1. /\ visit \in [Visits -> VisitType] /\ probe \in [Probes -> ProbeType]
      /\ cap \in [Holders -> Cameras \union {None}] /\ late \in 0 .. MaxLate
  BY DEF TypeOK
<1>2. /\ probe' \in [Probes -> ProbeType] /\ probe[<<v, c>>].worker = "settle"
      /\ probe'[<<v, c>>].worker = "end"
      /\ probe'[<<v, c>>].status = "done"
      /\ probe'[<<v, c>>].ok = IF probe[<<v, c>>].status = "pending" THEN probe[<<v, c>>].ok ELSE FALSE
      /\ \A y \in Probes : y # <<v, c>> => probe'[y] = probe[y]
  <2>1. CASE probe[<<v, c>>].status = "pending"
    BY <1>1, <2>1, PairIsProbe DEF WorkerSettles, ProbeType
  <2>2. CASE probe[<<v, c>>].status # "pending"
    <3>1. /\ probe' = [probe EXCEPT ![<<v, c>>] = NoProbe]
          /\ probe[<<v, c>>].worker = "settle"
      BY <2>2 DEF WorkerSettles
    <3>. QED
      BY <1>1, <2>2, <3>1, PairIsProbe DEF NoProbe, ProbeType
  <2>. QED
    BY <2>1, <2>2
<1>3. /\ cap' \in [Holders -> Cameras \union {None}]
      /\ cap'[<<v, c>>] = IF probe[<<v, c>>].status = "pending" /\ probe[<<v, c>>].ok
                          THEN cap[<<v, c>>] ELSE None
      /\ \A g \in Holders \ {<<v, c>>} : cap'[g] = cap[g]
  BY <1>1, PairIsProbe, ReleaseTypes DEF WorkerSettles
<1>4. /\ \A d \in Cameras \ {c} : probe'[<<v, d>>] = probe[<<v, d>>]
      /\ \A d \in Cameras \ {c} : cap'[<<v, d>>] = cap[<<v, d>>]
      /\ \A w \in Visits \ {v}, d \in Cameras : probe'[<<w, d>>] = probe[<<w, d>>]
  BY <1>2, <1>3, PairIsProbe
<1>5. ScanStep(v)
  BY <1>1, <1>2, <1>3, <1>4 DEF WorkerSettles, ScanStep
<1>. QED
  BY <1>2, <1>3, <1>4, <1>5 DEF WorkerSettles, WorkerStep

(* The caller, for the camera it waits for.                                *)
LEMMA CallerChecksStep ==
  ASSUME TypeOK, NEW v \in Visits, visit[v].dev \in Cameras, CallerChecks(v)
  PROVE  LET c == visit[v].dev IN
         /\ ScanStep(v) /\ UNCHANGED cap /\ visit[v].at = "wait"
         /\ \A d \in Cameras \ {c} : probe'[<<v, d>>] = probe[<<v, d>>]
         /\ probe'[<<v, c>>].worker = probe[<<v, c>>].worker
         /\ IF probe[<<v, c>>].status = "pending"
            THEN /\ probe'[<<v, c>>].status = "abandoned" /\ visit'[v].at = "next"
                 /\ probe'[<<v, c>>].ok = probe[<<v, c>>].ok
                 /\ late' = late + 1
            ELSE /\ probe'[<<v, c>>].status = probe[<<v, c>>].status
                 /\ ~probe'[<<v, c>>].ok /\ late' = late
                 /\ IF probe[<<v, c>>].ok
                    THEN visit'[v].at = "use" /\ visit'[v].dev = c
                    ELSE visit'[v].at = "next"
PROOF
<1>. DEFINE c == visit[v].dev
<1>1. /\ visit \in [Visits -> VisitType] /\ probe \in [Probes -> ProbeType]
      /\ cap \in [Holders -> Cameras \union {None}] /\ late \in 0 .. MaxLate
      /\ <<v, c>> \in Probes /\ visit[v].at = "wait"
  BY PairIsProbe DEF TypeOK, CallerChecks
<1>2. /\ visit' \in [Visits -> VisitType] /\ probe' \in [Probes -> ProbeType]
      /\ \A w \in Visits \ {v} : visit'[w] = visit[w]
      /\ visit'[v].wanted = visit[v].wanted
      /\ \A y \in Probes : y # <<v, c>> => probe'[y] = probe[y]
      /\ probe'[<<v, c>>].worker = probe[<<v, c>>].worker
      /\ IF probe[<<v, c>>].status = "pending"
         THEN /\ probe'[<<v, c>>].status = "abandoned" /\ visit'[v].at = "next"
              /\ probe'[<<v, c>>].ok = probe[<<v, c>>].ok
              /\ late' = late + 1 /\ late < MaxLate
         ELSE /\ probe'[<<v, c>>].status = probe[<<v, c>>].status
              /\ ~probe'[<<v, c>>].ok /\ late' = late
              /\ IF probe[<<v, c>>].ok
                 THEN visit'[v].at = "use" /\ visit'[v].dev = c
                 ELSE visit'[v].at = "next"
  <2>1. CASE probe[<<v, c>>].status = "pending"
    BY <1>1, <2>1 DEF CallerChecks, ProbeType, VisitType
  <2>2. CASE probe[<<v, c>>].status # "pending"
    <3>1. /\ probe' = [probe EXCEPT ![<<v, c>>].ok = FALSE] /\ late' = late
          /\ visit' = IF probe[<<v, c>>].ok
                      THEN [visit EXCEPT ![v].at = "use"]
                      ELSE [visit EXCEPT ![v].at = "next", ![v].dev = None]
      BY <2>2 DEF CallerChecks
    <3>2. /\ probe' \in [Probes -> ProbeType]
          /\ \A y \in Probes : y # <<v, c>> => probe'[y] = probe[y]
          /\ probe'[<<v, c>>].worker = probe[<<v, c>>].worker
          /\ probe'[<<v, c>>].status = probe[<<v, c>>].status
          /\ probe'[<<v, c>>].ok = FALSE
      BY <1>1, <3>1 DEF ProbeType
    <3>3. CASE probe[<<v, c>>].ok
      <4>1. visit' = [visit EXCEPT ![v].at = "use"]
        BY <3>1, <3>3
      <4>2. /\ visit' \in [Visits -> VisitType]
            /\ \A w \in Visits \ {v} : visit'[w] = visit[w]
            /\ visit'[v].wanted = visit[v].wanted
            /\ visit'[v].at = "use" /\ visit'[v].dev = c
        BY <1>1, <4>1 DEF VisitType
      <4>. QED
        BY <2>2, <3>1, <3>2, <3>3, <4>2
    <3>4. CASE ~probe[<<v, c>>].ok
      <4>1. visit' = [visit EXCEPT ![v].at = "next", ![v].dev = None]
        BY <3>1, <3>4
      <4>2. /\ visit' \in [Visits -> VisitType]
            /\ \A w \in Visits \ {v} : visit'[w] = visit[w]
            /\ visit'[v].wanted = visit[v].wanted
            /\ visit'[v].at = "next"
        BY <1>1, <4>1 DEF VisitType
      <4>. QED
        BY <2>2, <3>1, <3>2, <3>4, <4>2
    <3>. QED
      BY <3>3, <3>4
  <2>. QED
    BY <2>1, <2>2
<1>. HIDE DEF c
<1>3. /\ \A d \in Cameras \ {c} : probe'[<<v, d>>] = probe[<<v, d>>]
      /\ \A w \in Visits \ {v}, d \in Cameras : probe'[<<w, d>>] = probe[<<w, d>>]
  BY <1>2, PairIsProbe DEF c
<1>4. late' \in {late, late + 1} /\ late' \in 0 .. MaxLate
  BY <1>1, <1>2, LateAssumption
<1>5. ScanStep(v) /\ UNCHANGED cap
  BY <1>1, <1>2, <1>3, <1>4 DEF CallerChecks, ScanStep
<1>. QED
  BY <1>1, <1>2, <1>3, <1>5 DEF c

LEMMA CallerReleasesStep ==
  ASSUME TypeOK, NEW v \in Visits, visit[v].dev \in Cameras, CallerReleases(v)
  PROVE  LET c == visit[v].dev IN
         /\ ScanStep(v) /\ UNCHANGED probe /\ late' = late
         /\ visit[v].at = "use" /\ visit'[v].at = "next"
         /\ cap'[<<v, c>>] = None
         /\ \A d \in Cameras \ {c} : cap'[<<v, d>>] = cap[<<v, d>>]
PROOF
<1>. DEFINE c == visit[v].dev
<1>1. /\ visit \in [Visits -> VisitType] /\ probe \in [Probes -> ProbeType]
      /\ late \in 0 .. MaxLate /\ <<v, c>> \in Holders
  BY PairIsProbe DEF TypeOK
<1>2. /\ visit' \in [Visits -> VisitType] /\ visit[v].at = "use" /\ visit'[v].at = "next"
      /\ \A w \in Visits \ {v} : visit'[w] = visit[w]
      /\ visit'[v].wanted = visit[v].wanted
  BY <1>1, NoneIsNoCamera DEF CallerReleases, VisitType
<1>3. /\ cap' \in [Holders -> Cameras \union {None}] /\ cap'[<<v, c>>] = None
      /\ \A g \in Holders \ {<<v, c>>} : cap'[g] = cap[g]
  BY <1>1, ReleaseTypes DEF CallerReleases
<1>. HIDE DEF c
<1>4. \A d \in Cameras \ {c} : cap'[<<v, d>>] = cap[<<v, d>>]
  BY <1>3, PairIsProbe DEF c
<1>5. \A h \in Holders : (\A d \in Cameras : h # <<v, d>>) => cap'[h] = cap[h]
  BY <1>3 DEF c
<1>. QED
  BY <1>1, <1>2, <1>3, <1>4, <1>5 DEF CallerReleases, ScanStep, c

LEMMA ScanThreadEndsStep ==
  ASSUME TypeOK, NEW v \in Visits, ScanThreadEnds(v)
  PROVE  /\ ScanStep(v) /\ UNCHANGED <<cap, probe>> /\ late' = late
         /\ visit[v].at = "next" /\ visit'[v].at \in {"posted", "end"}
PROOF
<1>1. /\ visit \in [Visits -> VisitType] /\ probe \in [Probes -> ProbeType]
      /\ cap \in [Holders -> Cameras \union {None}] /\ late \in 0 .. MaxLate
  BY DEF TypeOK
<1>2. Over \in VisitType /\ Over.at = "end" /\ ~Over.wanted
  BY DEF Over, VisitType
<1>3. /\ visit' \in [Visits -> VisitType] /\ visit'[v].at \in {"posted", "end"}
      /\ visit'[v].wanted => visit[v].wanted
      /\ \A w \in Visits \ {v} : visit'[w] = visit[w]
  <2>1. CASE visit[v].wanted
    BY <1>1, <2>1 DEF ScanThreadEnds, VisitType
  <2>2. CASE ~visit[v].wanted
    BY <1>1, <1>2, <2>2 DEF ScanThreadEnds
  <2>. QED
    BY <2>1, <2>2
<1>. QED
  BY <1>1, <1>3 DEF ScanThreadEnds, ScanStep

-----------------------------------------------------------------------------
(* Captures are claimed once.                                              *)

(* CaptureClaimedOnce for one probe: while its worker runs nobody else has *)
(* its camera; after that, who has it open is the one it was handed to.    *)
Claimed(v, c) ==
  /\ HandedOver(v, c) => cap[<<v, c>>] = c /\ probe[<<v, c>>].worker = "end"
  /\ cap[<<v, c>>] # None /\ ~HandedOver(v, c) => probe[<<v, c>>].worker # "end"

LEMMA ClaimedIsClaimedOnce ==
  CaptureClaimedOnce <=> \A v \in Visits, c \in Cameras : Claimed(v, c)
PROOF
<1>1. ASSUME NEW v \in Visits, NEW c \in Cameras
      PROVE  Claimed(v, c) <=>
               /\ cap[<<v, c>>] # None => ((probe[<<v, c>>].worker # "end") # HandedOver(v, c))
               /\ HandedOver(v, c) => cap[<<v, c>>] = c
  <2>1. c # None
    BY NoneIsNoCamera
  <2>2. HandedOver(v, c) \in BOOLEAN /\ (probe[<<v, c>>].worker # "end") \in BOOLEAN
    BY DEF HandedOver
  <2>3. CASE HandedOver(v, c)
    BY <2>1, <2>2, <2>3 DEF Claimed
  <2>4. CASE ~HandedOver(v, c)
    BY <2>1, <2>2, <2>4 DEF Claimed
  <2>. QED
    BY <2>3, <2>4
<1>. QED
  BY <1>1 DEF CaptureClaimedOnce

LEMMA ClaimedPrimed ==
  ASSUME \A v \in Visits, c \in Cameras : Claimed(v, c)'
  PROVE  CaptureClaimedOnce'
PROOF
<1>1. ASSUME NEW v \in Visits, NEW c \in Cameras
      PROVE  /\ cap'[<<v, c>>] # None =>
                   ((probe'[<<v, c>>].worker # "end") # HandedOver(v, c)')
             /\ HandedOver(v, c)' => cap'[<<v, c>>] = c
  <2>1. c # None
    BY NoneIsNoCamera
  <2>2. HandedOver(v, c)' \in BOOLEAN /\ (probe'[<<v, c>>].worker # "end") \in BOOLEAN
    BY DEF HandedOver
  <2>3. Claimed(v, c)'
    OBVIOUS
  <2>4. CASE HandedOver(v, c)'
    BY <2>1, <2>2, <2>3, <2>4 DEF Claimed
  <2>5. CASE ~HandedOver(v, c)'
    BY <2>1, <2>2, <2>3, <2>5 DEF Claimed
  <2>. QED
    BY <2>4, <2>5
<1>. QED
  BY <1>1 DEF CaptureClaimedOnce

(* What InvProbes says of one probe.                                       *)
ProbeHolds(v, c) == Claimed(v, c) /\ InvProbe(v, c)

LEMMA ProbeHoldsAll ==
  ASSUME InvProbes
  PROVE  /\ \A v \in Visits, c \in Cameras : ProbeHolds(v, c)
         /\ \A v \in Visits : visit[v].at \in {"wait", "use"} => visit[v].dev \in Cameras
BY ClaimedIsClaimedOnce DEF InvProbes, ProbeHolds

(* A step of the scan thread or of a worker of v disturbs no other visit.  *)
LEMMA ScanKeepsProbes ==
  ASSUME TypeOK, InvProbes, NEW v \in Visits, ScanStep(v),
         visit'[v].at \in {"wait", "use"} => visit'[v].dev \in Cameras,
         \A c \in Cameras : ProbeHolds(v, c)'
  PROVE  InvProbes'
PROOF
<1>1. ASSUME NEW w \in Visits \ {v}, NEW c \in Cameras PROVE ProbeHolds(w, c)'
  <2>1. ProbeHolds(w, c)
    BY ProbeHoldsAll
  <2>2. /\ visit'[w] = visit[w] /\ probe'[<<w, c>>] = probe[<<w, c>>]
        /\ late > 0 => late' > 0
    BY DEF ScanStep, TypeOK
  <2>3. cap'[<<w, c>>] = cap[<<w, c>>]
    BY PairIsProbe DEF ScanStep
  <2>. QED
    BY <2>1, <2>2, <2>3 DEF ProbeHolds, Claimed, HandedOver, InvProbe
<1>2. \A w \in Visits, c \in Cameras : ProbeHolds(w, c)'
  BY <1>1
<1>3. \A w \in Visits : visit'[w].at \in {"wait", "use"} => visit'[w].dev \in Cameras
  BY DEF InvProbes, ScanStep
<1>. QED
  BY <1>2, <1>3, ClaimedPrimed DEF InvProbes, ProbeHolds

LEMMA StartProbeKeeps ==
  ASSUME TypeOK, InvProbes, NEW v \in Visits, NEW c \in Cameras, StartProbe(v, c)
  PROVE  InvProbes'
PROOF
<1>1. ASSUME NEW d \in Cameras PROVE ProbeHolds(v, d)'
  <2>1. ProbeHolds(v, d) /\ ProbeHolds(v, c)
    BY ProbeHoldsAll
  <2>2. CASE d = c
    BY <2>1, <2>2, StartProbeStep DEF ProbeHolds, Claimed, HandedOver, InvProbe
  <2>3. CASE d # c
    BY <2>1, <2>3, StartProbeStep DEF ProbeHolds, Claimed, HandedOver, InvProbe
  <2>. QED
    BY <2>2, <2>3
<1>. QED
  BY <1>1, StartProbeStep, ScanKeepsProbes

(* A worker settles only its own probe.                                    *)
LEMMA WorkerKeepsProbes ==
  ASSUME TypeOK, InvProbes, NEW v \in Visits, NEW c \in Cameras, WorkerStep(v, c),
         ProbeHolds(v, c)'
  PROVE  InvProbes'
PROOF
<1>1. ASSUME NEW d \in Cameras \ {c} PROVE ProbeHolds(v, d)'
  BY ProbeHoldsAll DEF WorkerStep, ProbeHolds, Claimed, HandedOver, InvProbe
<1>2. \A d \in Cameras : ProbeHolds(v, d)'
  BY <1>1
<1>3. visit'[v].at \in {"wait", "use"} => visit'[v].dev \in Cameras
  BY ProbeHoldsAll DEF WorkerStep
<1>. QED
  BY <1>2, <1>3, ScanKeepsProbes DEF WorkerStep

LEMMA WorkerKeeps ==
  ASSUME TypeOK, InvProbes, NEW v \in Visits, NEW c \in Cameras, Worker(v, c)
  PROVE  InvProbes' /\ ScanStep(v)
PROOF
<1>0. ProbeHolds(v, c)
  BY ProbeHoldsAll
<1>1. CASE WorkerOpens(v, c)
  <2>1. ProbeHolds(v, c)'
    BY <1>0, <1>1, WorkerOpensStep DEF WorkerStep, ProbeHolds, Claimed, HandedOver, InvProbe
  <2>. QED
    BY <1>1, <2>1, WorkerOpensStep, WorkerKeepsProbes DEF WorkerStep
<1>2. CASE WorkerReads(v, c)
  <2>1. ProbeHolds(v, c)'
    BY <1>0, <1>2, WorkerReadsStep DEF WorkerStep, ProbeHolds, Claimed, HandedOver, InvProbe
  <2>. QED
    BY <1>2, <2>1, WorkerReadsStep, WorkerKeepsProbes DEF WorkerStep
<1>3. CASE WorkerSettles(v, c)
  <2>1. ProbeHolds(v, c)'
    BY <1>0, <1>3, WorkerSettlesStep DEF WorkerStep, ProbeHolds, Claimed, HandedOver, InvProbe
  <2>. QED
    BY <1>3, <2>1, WorkerSettlesStep, WorkerKeepsProbes DEF WorkerStep
<1>. QED
  BY <1>1, <1>2, <1>3 DEF Worker

LEMMA CallerKeeps ==
  ASSUME TypeOK, InvProbes, NEW v \in Visits, Caller(v)
  PROVE  InvProbes' /\ ScanStep(v)
PROOF
<1>1. ASSUME NEW c \in Cameras, StartProbe(v, c) PROVE InvProbes' /\ ScanStep(v)
  BY <1>1, StartProbeKeeps, StartProbeStep
<1>2. CASE CallerChecks(v)
  <2>0. PICK c \in Cameras : visit[v].dev = c
    BY <1>2, ProbeHoldsAll DEF CallerChecks
  <2>1. c \in Cameras /\ ProbeHolds(v, c) /\ visit[v].dev = c
    BY <2>0, ProbeHoldsAll
  <2>2. ScanStep(v)
    BY <1>2, <2>1, CallerChecksStep
  <2>3. late \in Nat
    BY LateAssumption DEF TypeOK
  <2>a. /\ UNCHANGED cap /\ visit[v].at = "wait" /\ late \in Nat
        /\ probe'[<<v, c>>].worker = probe[<<v, c>>].worker
        /\ IF probe[<<v, c>>].status = "pending"
           THEN /\ probe'[<<v, c>>].status = "abandoned" /\ visit'[v].at = "next"
                /\ probe'[<<v, c>>].ok = probe[<<v, c>>].ok
                /\ late' = late + 1
           ELSE /\ probe'[<<v, c>>].status = probe[<<v, c>>].status
                /\ ~probe'[<<v, c>>].ok /\ late' = late
                /\ IF probe[<<v, c>>].ok
                   THEN visit'[v].at = "use" /\ visit'[v].dev = c
                   ELSE visit'[v].at = "next"
    BY <1>2, <2>1, <2>3, CallerChecksStep
  <2>b. probe[<<v, c>>].status \in {"pending", "done", "abandoned"}
    BY <2>1, PairIsProbe DEF TypeOK, ProbeType
  <2>4. ProbeHolds(v, c)'
    <3>1. CASE probe[<<v, c>>].status = "pending"
      BY <2>1, <2>a, <3>1 DEF ProbeHolds, Claimed, HandedOver, InvProbe
    <3>2. CASE probe[<<v, c>>].status # "pending"
      <4>1. probe[<<v, c>>].status = "done"
        BY <2>1, <2>a, <2>b, <3>2 DEF ProbeHolds, InvProbe
      <4>2. CASE probe[<<v, c>>].ok
        BY <2>1, <2>a, <4>1, <4>2 DEF ProbeHolds, Claimed, HandedOver, InvProbe
      <4>3. CASE ~probe[<<v, c>>].ok
        BY <2>1, <2>a, <4>1, <4>3 DEF ProbeHolds, Claimed, HandedOver, InvProbe
      <4>. QED
        BY <4>2, <4>3
    <3>. QED
      BY <3>1, <3>2
  <2>5. ASSUME NEW d \in Cameras \ {c} PROVE ProbeHolds(v, d)'
    BY <1>2, <2>1, <2>3, ProbeHoldsAll, CallerChecksStep
       DEF ScanStep, ProbeHolds, Claimed, HandedOver, InvProbe
  <2>6. \A d \in Cameras : ProbeHolds(v, d)'
    BY <2>4, <2>5
  <2>7. visit'[v].at \in {"wait", "use"} => visit'[v].dev \in Cameras
    BY <2>1, <2>a
  <2>. QED
    BY <2>2, <2>6, <2>7, ScanKeepsProbes
<1>3. CASE CallerReleases(v)
  <2>0. PICK c \in Cameras : visit[v].dev = c
    BY <1>3, ProbeHoldsAll DEF CallerReleases
  <2>1. c \in Cameras /\ ProbeHolds(v, c) /\ visit[v].dev = c
    BY <2>0, ProbeHoldsAll
  <2>2. ScanStep(v)
    BY <1>3, <2>1, CallerReleasesStep
  <2>a. /\ UNCHANGED probe /\ late' = late /\ visit[v].at = "use" /\ visit'[v].at = "next"
        /\ cap'[<<v, c>>] = None /\ visit[v].dev = c
        /\ \A d \in Cameras \ {c} : cap'[<<v, d>>] = cap[<<v, d>>]
    BY <1>3, <2>1, CallerReleasesStep
  <2>b. c # None
    BY <2>1, NoneIsNoCamera
  <2>3. ProbeHolds(v, c)'
    BY <2>1, <2>a, <2>b DEF ProbeHolds, Claimed, HandedOver, InvProbe
  <2>4. ASSUME NEW d \in Cameras \ {c} PROVE ProbeHolds(v, d)'
    BY <2>a, ProbeHoldsAll DEF ProbeHolds, Claimed, HandedOver, InvProbe
  <2>5. \A d \in Cameras : ProbeHolds(v, d)'
    BY <2>3, <2>4
  <2>6. visit'[v].at \notin {"wait", "use"}
    BY <2>a
  <2>. QED
    BY <2>2, <2>5, <2>6, ScanKeepsProbes
<1>4. CASE ScanThreadEnds(v)
  <2>1. \A d \in Cameras : ProbeHolds(v, d)'
    BY <1>4, ProbeHoldsAll, ScanThreadEndsStep DEF ProbeHolds, Claimed, HandedOver, InvProbe
  <2>. QED
    BY <1>4, <2>1, ScanThreadEndsStep, ScanKeepsProbes
<1>. QED
  BY <1>1, <1>2, <1>3, <1>4 DEF Caller

(* What is left of a scan: its visits, and captures that are its own.      *)
LEMMA ScanKeepsRest ==
  ASSUME TypeOK, CamerasInv, NEW v \in Visits, ScanStep(v)
  PROVE  TypeOK' /\ InvPreviews' /\ InvPages' /\ InvHolders' /\ InvOpeners'
PROOF
<1>1. /\ \A h \in Holders : h \notin Probes => cap'[h] = cap[h]
      /\ cap'[Emitter] = cap[Emitter] /\ cap'[Adder] = cap[Adder]
      /\ cap'[Window] = cap[Window] /\ cap'[Closing] = cap[Closing]
      /\ \A p \in Previews : cap'[p] = cap[p]
      /\ \A o \in Openers : cap'[o] = cap[o]
  <2>1. \A h \in Holders : h \notin Probes => cap'[h] = cap[h]
    BY PairIsProbe DEF ScanStep
  <2>. QED
    BY <2>1, HoldersDiffer
<1>2. late \in Nat /\ (late' = 0 => late = 0)
  BY LateAssumption DEF TypeOK, ScanStep
<1>3. \A w \in Visits : visit'[w].wanted => visit[w].wanted
  BY DEF ScanStep
<1>4. TypeOK'
  BY DEF TypeOK, ScanStep
<1>5. InvPreviews'
  BY <1>1, <1>2 DEF CamerasInv, InvPreviews, ScanStep
<1>6. InvPages'
  BY <1>2, <1>3 DEF CamerasInv, InvPages, InWizard, ScanStep
<1>7. InvHolders'
  BY <1>1 DEF CamerasInv, InvHolders, ScanStep
<1>8. InvOpeners'
  BY <1>1 DEF CamerasInv, InvOpeners, WindowShowsChosen, ScanStep
<1>. QED
  BY <1>4, <1>5, <1>6, <1>7, <1>8

LEMMA ScanKeeps ==
  ASSUME TypeOK, CamerasInv, NEW v \in Visits, Caller(v) \/ \E c \in Cameras : Worker(v, c)
  PROVE  TypeOK' /\ CamerasInv'
BY CallerKeeps, WorkerKeeps, ScanKeepsRest DEF CamerasInv

(* No other step touches a probe, or a visit whose thread waits for one.   *)
LEMMA OtherStepsKeepProbes ==
  ASSUME TypeOK, InvProbes, UNCHANGED probe, late' \in Nat, late' >= late,
         \A x \in Probes : cap'[x] = cap[x],
         \A w \in Visits : \/ visit'[w].at = visit[w].at /\ visit'[w].dev = visit[w].dev
                           \/ visit[w].at \notin {"wait", "use"} /\ visit'[w].at \notin {"wait", "use"}
  PROVE  InvProbes'
PROOF
<1>1. ASSUME NEW w \in Visits, NEW c \in Cameras PROVE ProbeHolds(w, c)'
  <2>1. ProbeHolds(w, c) /\ cap'[<<w, c>>] = cap[<<w, c>>]
    BY ProbeHoldsAll, PairIsProbe
  <2>2. late > 0 => late' > 0
    BY LateAssumption DEF TypeOK
  <2>. QED
    BY <2>1, <2>2 DEF ProbeHolds, Claimed, HandedOver, InvProbe
<1>2. \A w \in Visits, c \in Cameras : ProbeHolds(w, c)'
  BY <1>1
<1>3. \A w \in Visits : visit'[w].at \in {"wait", "use"} => visit'[w].dev \in Cameras
  BY DEF InvProbes
<1>. QED
  BY <1>2, <1>3, ClaimedPrimed DEF InvProbes, ProbeHolds

-----------------------------------------------------------------------------
(* The previews.                                                           *)

(* One preview thread goes on; it cannot come back to life by itself.      *)
PreviewStep(p) ==
  /\ UNCHANGED <<page, main, wizardVars, current, thread, add, settingsVars>>
  /\ UNCHANGED <<late, skipped, away, inFlight, crossed>>
  /\ stuck' \in SUBSET Previews
  /\ stuck \ {p} \subseteq stuck' /\ (pv'[p].at # "idle" => stuck' = stuck)
  /\ cap' \in [Holders -> Cameras \union {None}]
  /\ \A h \in Holders \ {p} : cap'[h] = cap[h]
  /\ pv' \in [Previews -> [at : {"idle", "open", "loop", "read"}, dev : Cameras \union {None}]]
  /\ \A q \in Previews \ {p} : pv'[q] = pv[q]
  /\ pv[p].at = "idle" => pv'[p].at = "idle"
  /\ cap'[p] # None => pv'[p].at \in {"loop", "read"}

LEMMA PreviewSteps ==
  ASSUME TypeOK, InvPreviews, NEW p \in Previews, Preview(p)
  PROVE  PreviewStep(p)
PROOF
<1>0. stuck \in SUBSET Previews
  BY DEF TypeOK
<1>1. /\ pv \in [Previews -> [at : {"idle", "open", "loop", "read"}, dev : Cameras \union {None}]]
      /\ cap \in [Holders -> Cameras \union {None}] /\ p \in Holders
      /\ cap[p] # None => pv[p].at \in {"loop", "read"}
      /\ NoThread \in [at : {"idle", "open", "loop", "read"}, dev : Cameras \union {None}]
      /\ NoThread.at = "idle"
  BY HoldersDiffer DEF TypeOK, InvPreviews, NoThread
<1>2. CASE PreviewOpens(p)
  <2>1. CASE pv' = [pv EXCEPT ![p] = NoThread] /\ stuck' = stuck \ {p} /\ UNCHANGED cap
    <3>1. pv[p].at = "open"
      BY <1>2 DEF PreviewOpens
    <3>. QED
      BY <1>0, <1>1, <1>2, <2>1, <3>1 DEF PreviewOpens, PreviewStep
  <2>2. CASE /\ cap' = [cap EXCEPT ![p] = pv[p].dev]
             /\ pv' = [pv EXCEPT ![p].at = "loop"]
             /\ UNCHANGED stuck
    <3>1. pv[p].at = "open"
      BY <1>2 DEF PreviewOpens
    <3>. QED
      BY <1>0, <1>1, <1>2, <2>2, <3>1 DEF PreviewOpens, PreviewStep
  <2>. QED
    BY <1>2, <2>1, <2>2 DEF PreviewOpens
<1>3. CASE PreviewReads(p)
  BY <1>0, <1>1, <1>3 DEF PreviewReads, PreviewStep
<1>4. CASE PreviewFrame(p)
  BY <1>0, <1>1, <1>4 DEF PreviewFrame, PreviewStep
<1>5. CASE PreviewEnds(p)
  BY <1>0, <1>1, <1>5, ReleaseTypes DEF PreviewEnds, PreviewStep
<1>. QED
  BY <1>2, <1>3, <1>4, <1>5 DEF Preview

LEMMA PreviewKeeps ==
  ASSUME TypeOK, CamerasInv, NEW p \in Previews, Preview(p)
  PROVE  TypeOK' /\ CamerasInv'
PROOF
<1>1. PreviewStep(p)
  BY PreviewSteps DEF CamerasInv
<1>2. /\ cap'[Emitter] = cap[Emitter] /\ cap'[Adder] = cap[Adder]
      /\ cap'[Window] = cap[Window] /\ cap'[Closing] = cap[Closing]
      /\ \A q \in Previews \ {p} : cap'[q] = cap[q]
      /\ \A o \in Openers : cap'[o] = cap[o]
      /\ \A x \in Probes : cap'[x] = cap[x]
  BY <1>1, HoldersDiffer DEF PreviewStep
<1>3. TypeOK'
  BY <1>1 DEF TypeOK, PreviewStep
<1>4. InvProbes'
  <2>1. late' = late /\ late \in Nat
    BY <1>1, LateAssumption DEF PreviewStep, TypeOK
  <2>. QED
    BY <1>1, <1>2, <2>1, OtherStepsKeepProbes DEF PreviewStep, CamerasInv
<1>5. InvPreviews'
  BY <1>1, <1>2 DEF PreviewStep, CamerasInv, InvPreviews
<1>6. InvPages'
  BY <1>1 DEF PreviewStep, CamerasInv, InvPages, InWizard
<1>7. InvHolders'
  BY <1>1, <1>2 DEF PreviewStep, CamerasInv, InvHolders
<1>8. InvOpeners'
  BY <1>1, <1>2 DEF PreviewStep, CamerasInv, InvOpeners, WindowShowsChosen
<1>. QED
  BY <1>3, <1>4, <1>5, <1>6, <1>7, <1>8 DEF CamerasInv

-----------------------------------------------------------------------------
(* What the pages' actions are made of.                                    *)

(* Only this holder's capture may change.                                  *)
OnlyCapture(h) ==
  /\ cap' \in [Holders -> Cameras \union {None}]
  /\ \A g \in Holders \ {h} : cap'[g] = cap[g]

LEMMA UnchangedCapture ==
  ASSUME TypeOK, UNCHANGED cap, NEW h
  PROVE  OnlyCapture(h)
BY DEF TypeOK, OnlyCapture

LEMMA SingleCapture ==
  ASSUME NEW h \in {Emitter, Adder, Window, Closing}, OnlyCapture(h)
  PROVE  /\ \A g \in {Emitter, Adder, Window, Closing} \ {h} : cap'[g] = cap[g]
         /\ \A p \in Previews : cap'[p] = cap[p]
         /\ \A o \in Openers : cap'[o] = cap[o]
         /\ \A x \in Probes : cap'[x] = cap[x]
BY HoldersDiffer DEF OnlyCapture

(* A visit is not touched while its thread waits for a probe.              *)
VisitsGoOn ==
  /\ visit' \in [Visits -> VisitType]
  /\ \A w \in Visits : \/ visit'[w].at = visit[w].at /\ visit'[w].dev = visit[w].dev
                       \/ visit[w].at \notin {"wait", "use"} /\ visit'[w].at \notin {"wait", "use"}

LEMMA UnwantedVisits ==
  ASSUME TypeOK
  PROVE  /\ Unwanted \in [Visits -> VisitType]
         /\ \A w \in Visits : /\ ~Unwanted[w].wanted
                             /\ Unwanted[w].at = visit[w].at /\ Unwanted[w].dev = visit[w].dev
PROOF
<1>1. ASSUME NEW w \in Visits
      PROVE  /\ Unwanted[w] = [visit[w] EXCEPT !.wanted = FALSE, !.left = {}]
             /\ Unwanted[w] \in VisitType /\ ~Unwanted[w].wanted
             /\ Unwanted[w].at = visit[w].at /\ Unwanted[w].dev = visit[w].dev
  <2>1. visit[w] \in VisitType
    BY DEF TypeOK
  <2>2. Unwanted[w] = [visit[w] EXCEPT !.wanted = FALSE, !.left = {}]
    BY DEF Unwanted
  <2>3. /\ [visit[w] EXCEPT !.wanted = FALSE, !.left = {}] \in VisitType
        /\ [visit[w] EXCEPT !.wanted = FALSE, !.left = {}].wanted = FALSE
        /\ [visit[w] EXCEPT !.wanted = FALSE, !.left = {}].at = visit[w].at
        /\ [visit[w] EXCEPT !.wanted = FALSE, !.left = {}].dev = visit[w].dev
    BY <2>1 DEF VisitType
  <2>. QED
    BY <2>2, <2>3
<1>2. Unwanted = [w \in Visits |-> Unwanted[w]]
  BY DEF Unwanted
<1>. QED
  BY <1>1, <1>2

LEMMA ScanVisits ==
  ASSUME TypeOK, StartScan
  PROVE  VisitsGoOn
PROOF
<1>1. PICK v \in Visits :
        /\ visit[v].at = "unused"
        /\ visit' = [Unwanted EXCEPT ![v] = [at |-> "next", wanted |-> TRUE, dev |-> None, left |-> Cameras]]
  BY DEF StartScan
<1>2. [at |-> "next", wanted |-> TRUE, dev |-> None, left |-> Cameras] \in VisitType
  BY DEF VisitType
<1>3. /\ visit' \in [Visits -> VisitType] /\ visit'[v].at = "next"
      /\ \A w \in Visits \ {v} : visit'[w] = Unwanted[w]
  BY <1>1, <1>2, UnwantedVisits
<1>. QED
  BY <1>1, <1>3, UnwantedVisits DEF VisitsGoOn

LEMMA UnchangedVisits ==
  ASSUME TypeOK, UNCHANGED visit
  PROVE  VisitsGoOn
BY DEF TypeOK, VisitsGoOn

(* InvProbes, for the steps of everyone but the scan threads.              *)
LEMMA PagesKeepProbes ==
  ASSUME TypeOK, CamerasInv, UNCHANGED probe, VisitsGoOn, late' \in {late, late + 1},
         \A x \in Probes : cap'[x] = cap[x]
  PROVE  InvProbes'
PROOF
<1>1. late' \in Nat /\ late' >= late
  BY LateAssumption DEF TypeOK
<1>. QED
  BY <1>1, OtherStepsKeepProbes DEF CamerasInv, VisitsGoOn

-----------------------------------------------------------------------------
(* The main loop goes on when the preview has been joined.                 *)

LEMMA JoinedThreads ==
  ASSUME TypeOK, CamerasInv, Joined
  PROVE  /\ late' \in {late, late + 1} /\ late' \in 0 .. MaxLate
         /\ stuck' \in SUBSET Previews
         /\ \A p \in Previews : pv[p].at # "idle" => p \in stuck'
PROOF
<1>1. late \in 0 .. MaxLate /\ MaxLate \in Nat /\ stuck \in SUBSET Previews
  BY LateAssumption DEF TypeOK
<1>2. CASE UNCHANGED <<late, stuck>> /\ (thread \in Previews => pv[thread].at = "idle")
  BY <1>1, <1>2 DEF CamerasInv, InvPreviews
<1>3. CASE thread \in Previews /\ late < MaxLate /\ late' = late + 1 /\ stuck' = stuck \union {thread}
  BY <1>1, <1>3 DEF CamerasInv, InvPreviews
<1>. QED
  BY <1>2, <1>3 DEF Joined

LEMMA StartedPreview ==
  ASSUME TypeOK, NEW c \in Cameras \union {None}, StartPreview(c)
  PROVE  /\ current' = c /\ thread' \in Previews
         /\ pv' \in [Previews -> [at : {"idle", "open", "loop", "read"}, dev : Cameras \union {None}]]
         /\ pv[thread'].at = "idle"
         /\ \A p \in Previews \ {thread'} : pv'[p] = pv[p]
PROOF
<1>1. PICK p \in Previews :
        /\ pv[p].at = "idle"
        /\ pv' = [pv EXCEPT ![p] = [at |-> "open", dev |-> c]]
        /\ thread' = p
  BY DEF StartPreview
<1>2. pv \in [Previews -> [at : {"idle", "open", "loop", "read"}, dev : Cameras \union {None}]]
  BY DEF TypeOK
<1>. QED
  BY <1>1, <1>2 DEF StartPreview

(* The previews and the main loop after a join, whichever branch it takes. *)
LEMMA JoinKeepsPreviews ==
  ASSUME TypeOK, CamerasInv, Joined, \A p \in Previews : cap'[p] = cap[p],
         NoPreview \/ StartPreview(main.dev)
  PROVE  /\ InvPreviews'
         /\ pv' \in [Previews -> [at : {"idle", "open", "loop", "read"}, dev : Cameras \union {None}]]
         /\ current' \in Cameras \union {None} /\ thread' \in Previews \union {None}
PROOF
<1>1. CASE NoPreview
  BY <1>1, JoinedThreads DEF NoPreview, CamerasInv, InvPreviews, TypeOK
<1>2. CASE StartPreview(main.dev)
  <2>1. main.dev \in Cameras \union {None}
    BY DEF TypeOK
  <2>2. /\ current' = main.dev /\ thread' \in Previews
        /\ pv' \in [Previews -> [at : {"idle", "open", "loop", "read"}, dev : Cameras \union {None}]]
        /\ pv[thread'].at = "idle"
        /\ \A p \in Previews \ {thread'} : pv'[p] = pv[p]
    BY <1>2, <2>1, StartedPreview
  <2>3. InvPreviews'
    BY <2>2, JoinedThreads DEF CamerasInv, InvPreviews
  <2>. QED
    BY <2>1, <2>2, <2>3
<1>. QED
  BY <1>1, <1>2

LEMMA JoinEndsKeeps ==
  ASSUME TypeOK, CamerasInv, JoinEnds
  PROVE  TypeOK' /\ CamerasInv'
PROOF
<1>1. /\ Joined /\ main.then # "free"
      /\ main' = [then |-> "free", dev |-> None]
      /\ UNCHANGED <<probe, sel, face, asked, answers, advance, download, enrolled, settingsVars>>
      /\ UNCHANGED <<skipped, inFlight, crossed>>
      /\ InWizard
  BY DEF JoinEnds, Idle, CamerasInv, InvPages
<1>2. /\ late' \in {late, late + 1} /\ late' \in 0 .. MaxLate
      /\ stuck' \in SUBSET Previews
      /\ \A p \in Previews : pv[p].at # "idle" => p \in stuck'
  BY <1>1, JoinedThreads
<1>3. main' \in [then : {"free", "rest", "preview", "scan", "emitter", "add"}, dev : Cameras \union {None}]
  BY <1>1
<1>4. ASSUME main.then \in {"rest", "preview"}, NoPreview \/ StartPreview(main.dev),
             UNCHANGED <<page, cap, visit, listed, nextOn, add, away>>
      PROVE  TypeOK' /\ CamerasInv'
  <2>1. /\ InvPreviews'
        /\ pv' \in [Previews -> [at : {"idle", "open", "loop", "read"}, dev : Cameras \union {None}]]
        /\ current' \in Cameras \union {None} /\ thread' \in Previews \union {None}
    BY <1>1, <1>4, JoinKeepsPreviews
  <2>2. TypeOK'
    BY <1>1, <1>2, <1>3, <1>4, <2>1 DEF TypeOK
  <2>3. InvProbes'
    BY <1>1, <1>2, <1>4, UnchangedVisits, PagesKeepProbes
  <2>4. InvPages'
    BY <1>1, <1>4, <1>2 DEF CamerasInv, InvPages, InWizard
  <2>5. InvHolders'
    BY <1>1, <1>4 DEF CamerasInv, InvHolders
  <2>6. InvOpeners'
    BY <1>1, <1>4 DEF CamerasInv, InvOpeners, WindowShowsChosen
  <2>. QED
    BY <2>1, <2>2, <2>3, <2>4, <2>5, <2>6 DEF CamerasInv
<1>5. ASSUME main.then = "scan", StartScan, NoPreview, UNCHANGED <<page, cap, add, away>>
      PROVE  TypeOK' /\ CamerasInv'
  <2>1. /\ InvPreviews'
        /\ pv' \in [Previews -> [at : {"idle", "open", "loop", "read"}, dev : Cameras \union {None}]]
        /\ current' \in Cameras \union {None} /\ thread' \in Previews \union {None}
    BY <1>1, <1>5, JoinKeepsPreviews
  <2>2. VisitsGoOn /\ visit' \in [Visits -> VisitType]
    BY <1>5, ScanVisits DEF VisitsGoOn
  <2>a. listed' \in BOOLEAN /\ nextOn' \in BOOLEAN
    BY <1>5, Zenon DEF StartScan
  <2>3. TypeOK'
    BY <1>1, <1>2, <1>3, <1>5, <2>1, <2>2, <2>a DEF TypeOK
  <2>4. InvProbes'
    BY <1>1, <1>2, <1>5, <2>2, PagesKeepProbes
  <2>5. InvPages'
    BY <1>1, <1>2, <1>5 DEF CamerasInv, InvPages, InWizard
  <2>6. InvHolders'
    BY <1>1, <1>5 DEF CamerasInv, InvHolders
  <2>7. InvOpeners'
    BY <1>1, <1>5 DEF CamerasInv, InvOpeners, WindowShowsChosen
  <2>. QED
    BY <2>1, <2>3, <2>4, <2>5, <2>6, <2>7 DEF CamerasInv
<1>6. ASSUME main.then = "emitter", Opens(Emitter, main.dev),
             page' = IF cap'[Emitter] = None THEN "gone" ELSE page,
             NoPreview, UNCHANGED <<visit, listed, nextOn, add, away>>
      PROVE  TypeOK' /\ CamerasInv'
  <2>0. page = "emitter" /\ page' \in {"emitter", "gone"} /\ (cap'[Emitter] # None => page' = "emitter")
    BY <1>6 DEF CamerasInv, InvPages
  <2>a. OnlyCapture(Emitter)
    <3>1. CASE UNCHANGED cap
      BY <3>1, UnchangedCapture
    <3>2. CASE cap' = [cap EXCEPT ![Emitter] = main.dev]
      BY <3>2, HoldersDiffer DEF OnlyCapture, TypeOK
    <3>. QED
      BY <1>6, <3>1, <3>2 DEF Opens
  <2>b. /\ cap' \in [Holders -> Cameras \union {None}]
        /\ cap'[Adder] = cap[Adder] /\ cap'[Window] = cap[Window] /\ cap'[Closing] = cap[Closing]
        /\ \A p \in Previews : cap'[p] = cap[p]
        /\ \A o \in Openers : cap'[o] = cap[o]
        /\ \A x \in Probes : cap'[x] = cap[x]
    BY <2>a, SingleCapture, SinglesDiffer DEF OnlyCapture
  <2>1. /\ InvPreviews'
        /\ pv' \in [Previews -> [at : {"idle", "open", "loop", "read"}, dev : Cameras \union {None}]]
        /\ current' \in Cameras \union {None} /\ thread' \in Previews \union {None}
    BY <1>1, <1>6, <2>b, JoinKeepsPreviews
  <2>2. TypeOK'
    BY <1>1, <1>2, <1>3, <1>6, <2>0, <2>b, <2>1 DEF TypeOK
  <2>3. InvProbes'
    BY <1>1, <1>2, <1>6, <2>b, UnchangedVisits, PagesKeepProbes
  <2>4. InvPages'
    BY <1>1, <1>2, <1>6, <2>0 DEF CamerasInv, InvPages, InWizard
  <2>5. InvHolders'
    BY <1>1, <1>6, <2>0, <2>b DEF CamerasInv, InvHolders
  <2>6. InvOpeners'
    BY <1>1, <1>6, <2>0, <2>b DEF CamerasInv, InvOpeners, WindowShowsChosen
  <2>. QED
    BY <2>1, <2>2, <2>3, <2>4, <2>5, <2>6 DEF CamerasInv
<1>7. ASSUME main.then = "add", add' = "starting", away' = FALSE, NoPreview,
             UNCHANGED <<page, cap, visit, listed, nextOn>>
      PROVE  TypeOK' /\ CamerasInv'
  <2>0. page = "scan" /\ add = "idle"
    BY <1>7 DEF CamerasInv, InvPages
  <2>1. /\ InvPreviews'
        /\ pv' \in [Previews -> [at : {"idle", "open", "loop", "read"}, dev : Cameras \union {None}]]
        /\ current' \in Cameras \union {None} /\ thread' \in Previews \union {None}
    BY <1>1, <1>7, JoinKeepsPreviews
  <2>a. away' \in BOOLEAN
    BY <1>7, Zenon
  <2>2. TypeOK'
    BY <1>1, <1>2, <1>3, <1>7, <2>1, <2>a DEF TypeOK
  <2>3. InvProbes'
    BY <1>1, <1>2, <1>7, UnchangedVisits, PagesKeepProbes
  <2>4. InvPages'
    BY <1>1, <1>2, <1>7, <2>0 DEF CamerasInv, InvPages, InWizard, NoPreview
  <2>5. InvHolders'
    BY <1>1, <1>7, <2>0 DEF CamerasInv, InvHolders
  <2>6. InvOpeners'
    BY <1>1, <1>7 DEF CamerasInv, InvOpeners, WindowShowsChosen
  <2>. QED
    BY <2>1, <2>2, <2>3, <2>4, <2>5, <2>6 DEF CamerasInv
<1>. QED
  BY <1>4, <1>5, <1>6, <1>7 DEF JoinEnds

-----------------------------------------------------------------------------
(* The wizard's pages.                                                     *)

LEMMA StoppedPreview ==
  ASSUME TypeOK, NEW then \in {"rest", "preview", "scan", "emitter", "add"},
         NEW c \in Cameras \union {None}, StopPreview(then, c)
  PROVE  /\ main'.then = then /\ current' \in Cameras \union {None} /\ UNCHANGED <<pv, thread>>
         /\ main' \in [then : {"free", "rest", "preview", "scan", "emitter", "add"},
                       dev : Cameras \union {None}]
BY DEF StopPreview

(* An action of a page touches no probe, no preview thread and no capture  *)
(* but the infrared question's or the command's.                           *)
WizardStep(h) ==
  /\ TypeOK' /\ OnlyCapture(h) /\ VisitsGoOn
  /\ UNCHANGED <<probe, pv, thread, settingsVars, late, stuck, inFlight, crossed>>

LEMMA WizardKeeps ==
  ASSUME TypeOK, CamerasInv, NEW h \in {Emitter, Adder}, WizardStep(h), InvPages', InWizard,
         page' \notin {"video", "other"},
         cap'[Emitter] # None => page' \in {"emitter", "gone"} \/ skipped',
         cap'[Adder] # None => add' = "running"
  PROVE  TypeOK' /\ CamerasInv'
PROOF
<1>1. /\ cap'[Window] = cap[Window] /\ cap'[Closing] = cap[Closing]
      /\ \A p \in Previews : cap'[p] = cap[p]
      /\ \A o \in Openers : cap'[o] = cap[o]
      /\ \A x \in Probes : cap'[x] = cap[x]
  BY SingleCapture, SinglesDiffer DEF WizardStep
<1>2. InvProbes'
  BY <1>1, PagesKeepProbes DEF WizardStep
<1>3. InvPreviews'
  BY <1>1 DEF WizardStep, CamerasInv, InvPreviews
<1>4. InvHolders'
  BY <1>1 DEF WizardStep, CamerasInv, InvHolders, InWizard
<1>5. InvOpeners'
  BY <1>1 DEF WizardStep, CamerasInv, InvOpeners, WindowShowsChosen, InWizard
<1>. QED
  BY <1>2, <1>3, <1>4, <1>5 DEF WizardStep, CamerasInv

(* Who turns the page leaves `add` behind.                                 *)
LEMMA PageTurned ==
  ASSUME TypeOK, CamerasInv, InWizard, WizardStep(Emitter), UNCHANGED add, add # "idle" => away',
         page' \notin {"video", "other"},
         \/ main'.then = "free"
         \/ main'.then \in {"rest", "preview"} /\ page' # "gone"
         \/ main'.then = "scan" /\ page' = "cameras"
         \/ main'.then = "emitter" /\ page' = "emitter",
         page' \notin {"cameras", "gone"} => \A v \in Visits : ~visit'[v].wanted,
         cap'[Emitter] # None => page' \in {"emitter", "gone"} \/ skipped'
  PROVE  TypeOK' /\ CamerasInv'
PROOF
<1>1. page' \in {"cameras", "emitter", "scan", "later", "gone"}
  BY DEF WizardStep, TypeOK
<1>2. InvPages'
  BY <1>1 DEF InvPages, InWizard
<1>3. cap'[Adder] = cap[Adder] /\ (cap[Adder] # None => add = "running")
  BY SingleCapture, SinglesDiffer DEF WizardStep, CamerasInv, InvHolders
<1>. QED
  BY <1>2, <1>3, WizardKeeps

(* The previews are stopped on the way to the face scan page.              *)
LEMMA EnteredScan ==
  ASSUME TypeOK, EnterScan
  PROVE  /\ page' = "scan" /\ face' \in Cameras /\ main'.then = "preview"
         /\ current' \in Cameras \union {None} /\ UNCHANGED <<pv, thread>>
         /\ main' \in [then : {"free", "rest", "preview", "scan", "emitter", "add"},
                       dev : Cameras \union {None}]
BY DEF EnterScan, StopPreview, TypeOK

LEMMA UpdateCameraListGuiKeeps ==
  ASSUME TypeOK, CamerasInv, NEW v \in Visits, UpdateCameraListGui(v)
  PROVE  TypeOK' /\ CamerasInv'
PROOF
<1>1. /\ visit \in [Visits -> VisitType] /\ visit[v].at = "posted" /\ Idle /\ InWizard
      /\ visit' = [visit EXCEPT ![v] = Over]
      /\ UNCHANGED <<page, cap, probe, face, asked, answers, advance, download, enrolled, add,
                     settingsVars, ghosts>>
  BY DEF TypeOK, UpdateCameraListGui
<1>2. /\ visit' \in [Visits -> VisitType] /\ visit'[v].at = "end" /\ ~visit'[v].wanted
      /\ \A w \in Visits \ {v} : visit'[w] = visit[w]
  BY <1>1 DEF Over, VisitType
<1>3. VisitsGoOn
  BY <1>1, <1>2 DEF VisitsGoOn
<1>4. /\ UNCHANGED <<pv, thread>> /\ listed' \in BOOLEAN /\ nextOn' \in BOOLEAN /\ sel' \in Cameras
      /\ current' \in Cameras \union {None}
      /\ main' \in [then : {"free", "rest", "preview", "scan", "emitter", "add"},
                    dev : Cameras \union {None}]
      /\ main'.then # "free" => main'.then = "preview" /\ page = "cameras"
  <2>1. CASE visit[v].wanted
    <3>1. /\ listed' = TRUE /\ nextOn' = TRUE /\ sel' \in Cameras /\ StopPreview("preview", sel')
      BY <2>1 DEF UpdateCameraListGui
    <3>2. page = "cameras"
      BY <1>1, <2>1 DEF CamerasInv, InvPages, InWizard
    <3>3. listed' \in BOOLEAN /\ nextOn' \in BOOLEAN
      BY <3>1, Zenon
    <3>. QED
      BY <3>1, <3>2, <3>3 DEF StopPreview
  <2>2. CASE ~visit[v].wanted
    <3>1. UNCHANGED <<listed, nextOn, sel, main, previewVars>>
      BY <2>2 DEF UpdateCameraListGui
    <3>. QED
      BY <1>1, <3>1 DEF TypeOK, Idle
  <2>. QED
    BY <2>1, <2>2
<1>5. TypeOK'
  BY <1>1, <1>2, <1>4 DEF TypeOK
<1>6. InvProbes'
  BY <1>1, <1>3, PagesKeepProbes
<1>7. InvPreviews'
  BY <1>1, <1>4 DEF CamerasInv, InvPreviews
<1>8. InvPages'
  BY <1>1, <1>2, <1>4 DEF CamerasInv, InvPages, InWizard, Idle
<1>9. InvHolders' /\ InvOpeners'
  BY <1>1 DEF CamerasInv, InvHolders, InvOpeners, WindowShowsChosen
<1>. QED
  BY <1>5, <1>6, <1>7, <1>8, <1>9 DEF CamerasInv

LEMMA OnCameraSelectionChangedKeeps ==
  ASSUME TypeOK, CamerasInv, NEW c \in Cameras, OnCameraSelectionChanged(c)
  PROVE  TypeOK' /\ CamerasInv'
PROOF
<1>1. /\ Idle /\ page = "cameras" /\ sel' = c
      /\ UNCHANGED <<page, cap, visit, probe, listed, face, asked, buttonVars, add, settingsVars, ghosts>>
      /\ StopPreview("preview", c)
  BY DEF OnCameraSelectionChanged
<1>2. WizardStep(Emitter)
  BY <1>1, StoppedPreview, UnchangedCapture, UnchangedVisits DEF WizardStep, TypeOK
<1>3. InvPages'
  BY <1>1, StoppedPreview DEF CamerasInv, InvPages, InWizard, Idle
<1>. QED
  BY <1>1, <1>2, <1>3, WizardKeeps DEF InWizard, CamerasInv, InvHolders

LEMMA UpdateDownloadGuiKeeps ==
  ASSUME TypeOK, CamerasInv, UpdateDownloadGui
  PROVE  TypeOK' /\ CamerasInv'
PROOF
<1>1. /\ Idle /\ InWizard /\ download' = FALSE
      /\ UNCHANGED <<main, cap, visit, probe, listed, sel, face, asked, answers, advance, enrolled,
                     previewVars, add, settingsVars, late, stuck, skipped, inFlight, crossed>>
      /\ cap[Emitter] # None => page = "emitter" \/ skipped
      /\ cap[Adder] # None => add = "running"
  BY DEF UpdateDownloadGui, CamerasInv, InvHolders, InWizard
<1>2. download' \in BOOLEAN
  BY <1>1, Zenon
<1>3. CASE nextOn' = TRUE /\ UNCHANGED <<page, away>>
  <2>1. nextOn' \in BOOLEAN
    BY <1>3, Zenon
  <2>2. WizardStep(Emitter)
    BY <1>1, <1>2, <1>3, <2>1, UnchangedCapture, UnchangedVisits DEF WizardStep, TypeOK
  <2>3. InvPages'
    BY <1>1, <1>3 DEF CamerasInv, InvPages, InWizard
  <2>. QED
    BY <1>1, <1>3, <2>2, <2>3, WizardKeeps DEF InWizard
<1>4. CASE page' = "gone" /\ LeavePage /\ UNCHANGED nextOn
  <2>1. away' \in BOOLEAN
    BY <1>4, Zenon DEF LeavePage
  <2>2. WizardStep(Emitter)
    BY <1>1, <1>2, <1>4, <2>1, UnchangedCapture, UnchangedVisits DEF WizardStep, TypeOK
  <2>3. add # "idle" => away'
    BY <1>1, <1>4 DEF LeavePage, CamerasInv, InvPages
  <2>. QED
    BY <1>1, <1>4, <2>2, <2>3, PageTurned DEF Idle
<1>. QED
  BY <1>3, <1>4 DEF UpdateDownloadGui

LEMMA GoNextKeeps ==
  ASSUME TypeOK, CamerasInv, GoNext
  PROVE  TypeOK' /\ CamerasInv'
PROOF
<1>1. /\ Idle /\ InWizard /\ LeavePage /\ nextOn' = (page \in {"scan", "later"})
      /\ UNCHANGED <<cap, probe, listed, sel, answers, download, enrolled, add, settingsVars, late, stuck,
                     inFlight, crossed>>
      /\ cap[Emitter] # None => page = "emitter" \/ skipped
      /\ add # "idle" => away'
  BY DEF GoNext, LeavePage, CamerasInv, InvPages, InvHolders, InWizard
<1>2. nextOn' \in BOOLEAN /\ away' \in BOOLEAN
  <2>1. away' \in BOOLEAN
    BY <1>1, Zenon DEF LeavePage
  <2>2. (page \in {"scan", "later"}) \in BOOLEAN
    OBVIOUS
  <2>. QED
    BY <1>1, <2>1, <2>2
<1>3. advance' \in BOOLEAN
  <2>1. advance' = FALSE => advance' \in BOOLEAN
    BY Zenon
  <2>. QED
    BY <2>1 DEF GoNext, TypeOK
<1>4. ASSUME page' \in {"scan", "later", "emitter", "gone"} \/ page' = page, UNCHANGED <<pv, thread>>,
             VisitsGoOn, page' \notin {"cameras", "gone"} => \A v \in Visits : ~visit'[v].wanted,
             \/ main'.then = "free"
             \/ main'.then \in {"rest", "preview"} /\ page' # "gone"
             \/ main'.then = "emitter" /\ page' = "emitter",
             main' \in [then : {"free", "rest", "preview", "scan", "emitter", "add"},
                        dev : Cameras \union {None}],
             current' \in Cameras \union {None}, face' \in Cameras, asked' \in BOOLEAN,
             skipped' \in BOOLEAN, cap[Emitter] # None => page' \in {"emitter", "gone"} \/ skipped'
      PROVE  TypeOK' /\ CamerasInv'
  <2>1. WizardStep(Emitter)
    BY <1>1, <1>2, <1>3, <1>4, UnchangedCapture DEF WizardStep, TypeOK, VisitsGoOn
  <2>. QED
    BY <1>1, <1>4, <2>1, PageTurned DEF InWizard
<1>5. CASE LeaveCameras
  <2>1. VisitsGoOn /\ (\A v \in Visits : ~visit'[v].wanted) /\ page = "cameras" /\ skipped' = skipped
    BY <1>5, UnwantedVisits DEF LeaveCameras, VisitsGoOn
  <2>2. CASE page' = "gone" /\ UNCHANGED <<main, face, asked, previewVars>>
    BY <1>1, <1>4, <2>1, <2>2 DEF TypeOK, Idle
  <2>3. CASE asked' = FALSE /\ EnterScan
    <3>1. asked' \in BOOLEAN
      BY <2>3, Zenon
    <3>. QED
      BY <1>1, <1>4, <2>1, <2>3, <3>1, EnteredScan DEF TypeOK
  <2>4. CASE asked' = TRUE /\ page' = "emitter" /\ StopPreview("emitter", sel) /\ UNCHANGED face
    <3>1. asked' \in BOOLEAN
      BY <2>4, Zenon
    <3>2. /\ main'.then = "emitter" /\ current' = None /\ UNCHANGED <<pv, thread>>
          /\ main' \in [then : {"free", "rest", "preview", "scan", "emitter", "add"},
                        dev : Cameras \union {None}]
      BY <2>4 DEF StopPreview, TypeOK
    <3>. QED
      BY <1>1, <1>4, <2>1, <2>4, <3>1, <3>2 DEF TypeOK
  <2>. QED
    BY <1>5, <2>2, <2>3, <2>4 DEF LeaveCameras
<1>6. CASE LeaveEmitter
  <2>1. VisitsGoOn /\ \A v \in Visits : ~visit'[v].wanted
    BY <1>6, UnchangedVisits DEF LeaveEmitter, CamerasInv, InvPages
  <2>2. skipped' \in BOOLEAN
    BY <1>6, Zenon DEF LeaveEmitter
  <2>. QED
    BY <1>1, <1>4, <1>6, <2>1, <2>2, EnteredScan DEF LeaveEmitter, TypeOK
<1>7. CASE LeaveScan
  <2>1. VisitsGoOn /\ \A v \in Visits : ~visit'[v].wanted
    BY <1>7, UnchangedVisits DEF LeaveScan, CamerasInv, InvPages
  <2>2. /\ main'.then = "rest" /\ current' = None /\ UNCHANGED <<pv, thread>>
        /\ main' \in [then : {"free", "rest", "preview", "scan", "emitter", "add"},
                      dev : Cameras \union {None}]
    BY <1>7 DEF LeaveScan, StopPreview
  <2>. QED
    BY <1>1, <1>4, <1>7, <2>1, <2>2 DEF LeaveScan, TypeOK
<1>8. CASE LeaveLater
  <2>1. VisitsGoOn /\ \A v \in Visits : ~visit'[v].wanted
    BY <1>8, UnchangedVisits DEF LeaveLater, CamerasInv, InvPages
  <2>. QED
    BY <1>1, <1>4, <1>8, <2>1 DEF LeaveLater, TypeOK, Idle
<1>. QED
  BY <1>5, <1>6, <1>7, <1>8 DEF GoNext

(* Both answers give the camera of the question back.                      *)
LEMMA Slide3Keeps ==
  ASSUME TypeOK, CamerasInv, Slide3ButtonYes \/ Slide3ButtonNo
  PROVE  TypeOK' /\ CamerasInv'
PROOF
<1>1. /\ Idle /\ InWizard /\ page = "emitter" /\ cap' = Release(Emitter) /\ skipped' = FALSE
      /\ UNCHANGED <<visit, probe, listed, sel, asked, advance, download, enrolled, add, settingsVars,
                     late, stuck, away, inFlight, crossed>>
      /\ add # "idle" => away'
  BY DEF Slide3ButtonYes, Slide3ButtonNo, InWizard, CamerasInv, InvPages
<1>2. OnlyCapture(Emitter) /\ cap'[Emitter] = None
  BY <1>1, HoldersDiffer, ReleaseTypes DEF OnlyCapture
<1>3. skipped' \in BOOLEAN
  BY <1>1, Zenon
<1>4. VisitsGoOn /\ \A v \in Visits : ~visit'[v].wanted
  BY <1>1, UnchangedVisits DEF CamerasInv, InvPages
<1>5. CASE Slide3ButtonYes
  <2>1. nextOn' \in BOOLEAN /\ UNCHANGED answers
    BY <1>5, Zenon DEF Slide3ButtonYes
  <2>2. EnterScan
    BY <1>5 DEF Slide3ButtonYes
  <2>3. WizardStep(Emitter)
    BY <1>1, <1>2, <1>3, <1>4, <2>1, <2>2, EnteredScan DEF WizardStep, OnlyCapture, TypeOK
  <2>. QED
    BY <1>1, <1>2, <1>4, <2>2, <2>3, EnteredScan, PageTurned
<1>6. CASE Slide3ButtonNo
  <2>1. answers' \in BOOLEAN
    BY <1>6, Zenon DEF Slide3ButtonNo
  <2>2. UNCHANGED <<page, main, face, nextOn, previewVars>>
    BY <1>6 DEF Slide3ButtonNo
  <2>3. WizardStep(Emitter)
    BY <1>1, <1>2, <1>3, <1>4, <2>1, <2>2 DEF WizardStep, OnlyCapture, TypeOK
  <2>. QED
    BY <1>1, <1>2, <1>4, <2>2, <2>3, PageTurned DEF Idle
<1>. QED
  BY <1>5, <1>6

LEMMA OnScanButtonClickKeeps ==
  ASSUME TypeOK, CamerasInv, OnScanButtonClick
  PROVE  TypeOK' /\ CamerasInv'
PROOF
<1>1. /\ Idle /\ page = "scan" /\ add = "idle" /\ StopPreview("add", None)
      /\ UNCHANGED <<page, cap, wizardVars, add, settingsVars, ghosts>>
  BY DEF OnScanButtonClick
<1>2. WizardStep(Emitter)
  BY <1>1, StoppedPreview, UnchangedCapture, UnchangedVisits DEF WizardStep, TypeOK
<1>3. InvPages'
  BY <1>1, StoppedPreview DEF CamerasInv, InvPages, InWizard
<1>. QED
  BY <1>1, <1>2, <1>3, WizardKeeps DEF InWizard, CamerasInv, InvHolders

(* The command runs on, on whatever page the user is by now.               *)
LEMMA AddKeeps ==
  ASSUME TypeOK, CamerasInv, OnlyCapture(Adder), add # "idle", add' \in {"running", "ended"},
         cap'[Adder] # None => add' = "running",
         UNCHANGED <<page, main, wizardVars, previewVars, settingsVars, ghosts>>
  PROVE  TypeOK' /\ CamerasInv'
PROOF
<1>1. /\ cap'[Emitter] = cap[Emitter] /\ cap'[Window] = cap[Window] /\ cap'[Closing] = cap[Closing]
      /\ \A p \in Previews : cap'[p] = cap[p]
      /\ \A o \in Openers : cap'[o] = cap[o]
      /\ \A x \in Probes : cap'[x] = cap[x]
  BY SingleCapture, SinglesDiffer
<1>2. TypeOK'
  BY DEF TypeOK, OnlyCapture
<1>3. InvProbes'
  BY <1>1, UnchangedVisits, PagesKeepProbes
<1>4. InvPreviews' /\ InvPages'
  BY <1>1 DEF CamerasInv, InvPreviews, InvPages, InWizard
<1>5. InvHolders' /\ InvOpeners'
  BY <1>1 DEF CamerasInv, InvHolders, InvOpeners, WindowShowsChosen
<1>. QED
  BY <1>2, <1>3, <1>4, <1>5 DEF CamerasInv

LEMMA AddOpensKeeps ==
  ASSUME TypeOK, CamerasInv, AddOpens
  PROVE  TypeOK' /\ CamerasInv'
PROOF
<1>1. /\ add = "starting" /\ Adder \in Holders /\ cap \in [Holders -> Cameras \union {None}]
      /\ face \in Cameras /\ (cap[Adder] # None => add = "running")
      /\ UNCHANGED <<page, main, wizardVars, previewVars, settingsVars, ghosts>>
  BY HoldersDiffer DEF AddOpens, TypeOK, CamerasInv, InvHolders
<1>2. CASE cap' = [cap EXCEPT ![Adder] = face] /\ add' = "running"
  <2>1. OnlyCapture(Adder)
    BY <1>1, <1>2 DEF OnlyCapture
  <2>. QED
    BY <1>1, <1>2, <2>1, AddKeeps
<1>3. CASE add' = "ended" /\ UNCHANGED cap
  BY <1>1, <1>3, UnchangedCapture, AddKeeps
<1>. QED
  BY <1>2, <1>3 DEF AddOpens

LEMMA AddEndsKeeps ==
  ASSUME TypeOK, CamerasInv, AddEnds
  PROVE  TypeOK' /\ CamerasInv'
PROOF
<1>1. /\ add = "running" /\ add' = "ended" /\ cap' = Release(Adder) /\ Adder \in Holders
      /\ UNCHANGED <<page, main, wizardVars, previewVars, settingsVars, ghosts>>
  BY HoldersDiffer DEF AddEnds
<1>2. OnlyCapture(Adder) /\ cap'[Adder] = None
  BY <1>1, ReleaseTypes DEF OnlyCapture
<1>. QED
  BY <1>1, <1>2, AddKeeps

LEMMA OnSkipSecondButtonClickKeeps ==
  ASSUME TypeOK, CamerasInv, OnSkipSecondButtonClick
  PROVE  TypeOK' /\ CamerasInv'
PROOF
<1>1. /\ Idle /\ InWizard /\ page = "scan" /\ advance' = TRUE /\ StopPreview("rest", None)
      /\ add # "idle" => away
      /\ cap[Emitter] # None => skipped
      /\ UNCHANGED <<page, cap, visit, probe, listed, sel, face, asked, nextOn, answers, download, enrolled,
                     add, settingsVars, ghosts>>
  BY DEF OnSkipSecondButtonClick, InWizard, CamerasInv, InvHolders
<1>2. advance' \in BOOLEAN
  BY <1>1, Zenon
<1>3. VisitsGoOn /\ \A v \in Visits : ~visit'[v].wanted
  BY <1>1, UnchangedVisits DEF CamerasInv, InvPages
<1>4. WizardStep(Emitter)
  BY <1>1, <1>2, <1>3, StoppedPreview, UnchangedCapture DEF WizardStep, TypeOK
<1>. QED
  BY <1>1, <1>3, <1>4, StoppedPreview, PageTurned

LEMMA OnAddFinishedKeeps ==
  ASSUME TypeOK, CamerasInv, OnAddFinished
  PROVE  TypeOK' /\ CamerasInv'
PROOF
<1>1. /\ Idle /\ InWizard /\ add = "ended" /\ add' = "idle"
      /\ UNCHANGED <<cap, visit, probe, listed, sel, face, asked, nextOn, answers, download, settingsVars>>
      /\ UNCHANGED <<late, stuck, skipped, inFlight, crossed>> /\ away' = FALSE
      /\ cap[Emitter] # None => page = "emitter" \/ skipped
      /\ cap[Adder] = None
  BY DEF OnAddFinished, CamerasInv, InvHolders, InWizard
<1>2. /\ UNCHANGED <<pv, thread>> /\ current' \in Cameras \union {None}
      /\ main' \in [then : {"free", "rest", "preview", "scan", "emitter", "add"},
                    dev : Cameras \union {None}]
      /\ main'.then \in {"free", "preview"}
      /\ advance' \in BOOLEAN /\ enrolled' \in BOOLEAN
      /\ page' = page \/ (page' = "gone" /\ main'.then = "free")
  <2>1. CASE enrolled' = TRUE /\ StopPreview("preview", face) /\ UNCHANGED <<page, advance>>
    <3>1. enrolled' \in BOOLEAN
      BY <2>1, Zenon
    <3>. QED
      BY <2>1, <3>1 DEF StopPreview, TypeOK
  <2>2. CASE page' = "gone" /\ UNCHANGED <<main, advance, enrolled, previewVars>>
    BY <1>1, <2>2 DEF TypeOK, Idle
  <2>3. CASE advance' = TRUE /\ UNCHANGED <<page, main, enrolled, previewVars>>
    <3>1. advance' \in BOOLEAN
      BY <2>3, Zenon
    <3>. QED
      BY <1>1, <2>3, <3>1 DEF TypeOK, Idle
  <2>. QED
    BY <2>1, <2>2, <2>3 DEF OnAddFinished
<1>3. WizardStep(Emitter)
  <2>1. away' \in BOOLEAN
    BY <1>1, Zenon
  <2>. QED
    BY <1>1, <1>2, <2>1, UnchangedCapture, UnchangedVisits DEF WizardStep, TypeOK
<1>4. InvPages'
  BY <1>1, <1>2 DEF CamerasInv, InvPages, InWizard
<1>. QED
  BY <1>1, <1>2, <1>3, <1>4, WizardKeeps DEF InWizard

LEMMA GoPrevKeeps ==
  ASSUME TypeOK, CamerasInv, GoPrev
  PROVE  TypeOK' /\ CamerasInv'
PROOF
<1>1. /\ Idle /\ InWizard /\ LeavePage
      /\ UNCHANGED <<probe, sel, asked, answers, advance, download, enrolled, add, settingsVars, late, stuck,
                     inFlight, crossed>>
      /\ cap[Emitter] # None => page = "emitter" \/ skipped
      /\ add # "idle" => away'
  BY DEF GoPrev, LeavePage, CamerasInv, InvPages, InvHolders, InWizard
<1>2. away' \in BOOLEAN
  BY <1>1, Zenon DEF LeavePage
<1>3. ASSUME page # "emitter", page' \in {"scan", "emitter", "cameras"}, nextOn' = TRUE,
             UNCHANGED <<cap, listed, skipped, pv, thread>>, face' \in Cameras,
             \/ main'.then \in {"rest", "preview"}
             \/ main'.then = "scan" /\ page' = "cameras",
             main' \in [then : {"free", "rest", "preview", "scan", "emitter", "add"},
                        dev : Cameras \union {None}],
             current' \in Cameras \union {None}, VisitsGoOn,
             \A v \in Visits : ~visit'[v].wanted
      PROVE  TypeOK' /\ CamerasInv'
  <2>1. nextOn' \in BOOLEAN
    BY <1>3, Zenon
  <2>2. WizardStep(Emitter)
    BY <1>1, <1>2, <1>3, <2>1, UnchangedCapture DEF WizardStep, TypeOK, VisitsGoOn
  <2>. QED
    BY <1>1, <1>3, <2>2, PageTurned
<1>4. CASE page \in {"scan", "later"}
  <2>1. VisitsGoOn /\ \A v \in Visits : ~visit'[v].wanted
    BY <1>4, UnchangedVisits DEF GoPrev, CamerasInv, InvPages
  <2>2. CASE page = "later" /\ nextOn' = TRUE /\ EnterScan /\ UNCHANGED <<cap, visit, listed, skipped>>
    BY <1>3, <2>1, <2>2, EnteredScan
  <2>3. CASE /\ page = "scan" /\ nextOn' = TRUE /\ UNCHANGED <<cap, visit, listed, face, skipped>>
             /\ \/ page' = "emitter" /\ StopPreview("rest", None)
                \/ page' = "cameras" /\ StopPreview("scan", None)
    BY <1>3, <2>1, <2>3, StoppedPreview DEF TypeOK
  <2>. QED
    BY <1>4, <2>2, <2>3 DEF GoPrev
<1>5. CASE page = "cameras"
  <2>1. /\ page' = "cameras" /\ visit' = Unwanted /\ StopPreview("scan", None) /\ nextOn' = TRUE
        /\ UNCHANGED <<cap, listed, face, skipped>>
    BY <1>5 DEF GoPrev
  <2>2. VisitsGoOn /\ \A v \in Visits : ~visit'[v].wanted
    BY <2>1, UnwantedVisits DEF VisitsGoOn
  <2>. QED
    BY <1>3, <1>5, <2>1, <2>2, StoppedPreview DEF TypeOK
<1>6. CASE page = "emitter"
  <2>0. /\ page' = "cameras" /\ cap' = Release(Emitter) /\ skipped' = FALSE /\ StartScan
        /\ UNCHANGED <<main, face, previewVars>>
    BY <1>6 DEF GoPrev
  <2>1. OnlyCapture(Emitter) /\ cap'[Emitter] = None
    BY <2>0, HoldersDiffer, ReleaseTypes DEF OnlyCapture
  <2>2. VisitsGoOn
    BY <2>0, ScanVisits
  <2>3. listed' \in BOOLEAN /\ nextOn' \in BOOLEAN /\ skipped' \in BOOLEAN
    BY <2>0, Zenon DEF StartScan
  <2>4. WizardStep(Emitter)
    BY <1>1, <1>2, <2>0, <2>1, <2>2, <2>3 DEF WizardStep, TypeOK, VisitsGoOn, OnlyCapture
  <2>. QED
    BY <1>1, <2>0, <2>1, <2>4, PageTurned DEF Idle
<1>. QED
  BY <1>1, <1>4, <1>5, <1>6 DEF InWizard

LEMMA OpenSettingsKeeps ==
  ASSUME TypeOK, CamerasInv, OpenSettings
  PROVE  TypeOK' /\ CamerasInv'
PROOF
<1>1. /\ Idle /\ page = "later" /\ page' = "other" /\ chosen' = face /\ sel' = face
      /\ \A h \in Holders : cap[h] = None
      /\ \A p \in Previews : pv[p].at = "idle"
      /\ visit' = [v \in Visits |-> Over] /\ probe' = [x \in Probes |-> NoProbe]
      /\ listed' = FALSE /\ asked' = FALSE /\ current' = None /\ thread' = None
      /\ nextOn' = FALSE /\ answers' = TRUE /\ advance' = FALSE /\ download' = FALSE /\ enrolled' = TRUE
      /\ late' = 0 /\ stuck' = {} /\ skipped' = FALSE /\ away' = FALSE /\ add = "idle"
      /\ UNCHANGED <<main, cap, face, pv, add, opener, active, rebuild, inFlight, crossed>>
  BY DEF OpenSettings
<1>2. /\ Over \in VisitType /\ Over.at = "end" /\ ~Over.wanted
      /\ NoProbe \in ProbeType /\ NoProbe.worker = "end" /\ NoProbe.status = "done" /\ ~NoProbe.ok
  BY DEF Over, VisitType, NoProbe, ProbeType
<1>3. TypeOK'
  <2>1. visit' \in [Visits -> VisitType]
    BY <1>1, <1>2
  <2>2. probe' \in [Probes -> ProbeType]
    BY <1>1, <1>2
  <2>3. late' \in 0 .. MaxLate /\ away' \in BOOLEAN
    <3>1. late' = 0 /\ away' = FALSE
      BY <1>1
    <3>2. late' \in 0 .. MaxLate
      BY <3>1, LateAssumption
    <3>3. away' \in BOOLEAN
      BY <3>1, Zenon
    <3>. QED
      BY <3>2, <3>3
  <2>4. /\ nextOn' \in BOOLEAN /\ answers' \in BOOLEAN /\ advance' \in BOOLEAN /\ download' \in BOOLEAN
        /\ enrolled' \in BOOLEAN /\ skipped' \in BOOLEAN /\ listed' \in BOOLEAN /\ asked' \in BOOLEAN
    BY <1>1, Zenon
  <2>. QED
    BY <1>1, <2>1, <2>2, <2>3, <2>4 DEF TypeOK
<1>4. InvProbes'
  <2>1. ASSUME NEW v \in Visits, NEW c \in Cameras PROVE ProbeHolds(v, c)'
    <3>1. /\ visit'[v] = Over /\ probe'[<<v, c>>] = NoProbe /\ cap'[<<v, c>>] = None
      BY <1>1, PairIsProbe
    <3>. QED
      BY <1>2, <3>1 DEF ProbeHolds, Claimed, HandedOver, InvProbe
  <2>2. \A v \in Visits, c \in Cameras : ProbeHolds(v, c)'
    BY <2>1
  <2>3. \A v \in Visits : visit'[v].at \notin {"wait", "use"}
    BY <1>1, <1>2
  <2>. QED
    BY <2>2, <2>3, ClaimedPrimed DEF InvProbes, ProbeHolds
<1>5. InvPreviews'
  BY <1>1, HoldersDiffer DEF InvPreviews
<1>6. InvPages'
  BY <1>1, <1>2 DEF InvPages, InWizard, Idle
<1>7. InvHolders'
  BY <1>1, HoldersDiffer DEF InvHolders
<1>8. InvOpeners'
  BY <1>1, HoldersDiffer DEF CamerasInv, InvHolders, InvOpeners, WindowShowsChosen
<1>. QED
  BY <1>3, <1>4, <1>5, <1>6, <1>7, <1>8 DEF CamerasInv

-----------------------------------------------------------------------------
(* The Video page of Settings.                                             *)

OpenerType == [at : {"idle", "open", "check", "assign"}, dev : Cameras \union {None}]

(* An action of Settings leaves the wizard alone.                          *)
SettingsStep ==
  /\ UNCHANGED <<main, wizardVars, previewVars, add, late, stuck, skipped, away>>
  /\ page \in {"video", "other"} /\ page' \in {"video", "other"}
  /\ cap' \in [Holders -> Cameras \union {None}]
  /\ \A h \in Probes \union Previews \union {Emitter, Adder} : cap'[h] = cap[h]
  /\ opener' \in [Openers -> OpenerType] /\ chosen' \in Cameras
  /\ \A o \in Openers : cap'[o] # None => opener'[o].at \in {"check", "assign"}

LEMMA SettingsKeeps ==
  ASSUME TypeOK, CamerasInv, SettingsStep, InvOpeners',
         active' \in BOOLEAN, rebuild' \in BOOLEAN, inFlight' \in BOOLEAN, crossed' \in BOOLEAN
  PROVE  TypeOK' /\ CamerasInv'
PROOF
<1>1. TypeOK'
  BY DEF TypeOK, SettingsStep, OpenerType
<1>2. InvProbes'
  BY UnchangedVisits, PagesKeepProbes DEF SettingsStep
<1>3. InvPreviews' /\ InvPages'
  BY DEF SettingsStep, CamerasInv, InvPreviews, InvPages, InWizard
<1>4. InvHolders'
  BY DEF SettingsStep, CamerasInv, InvHolders
<1>. QED
  BY <1>1, <1>2, <1>3, <1>4 DEF CamerasInv

(* Where a capture of Settings changes hands.                              *)
LEMMA SettingsCaptures ==
  ASSUME TypeOK, NEW h \in Openers \union {Window, Closing}, OnlyCapture(h)
  PROVE  /\ cap' \in [Holders -> Cameras \union {None}]
         /\ \A g \in Probes \union Previews \union {Emitter, Adder} : cap'[g] = cap[g]
BY HoldersDiffer, SinglesDiffer DEF OnlyCapture

LEMMA StartedOpener ==
  ASSUME TypeOK, NEW c \in Cameras, StartOpener(c)
  PROVE  /\ opener' \in [Openers -> OpenerType] /\ crossed' \in BOOLEAN
         /\ crossed => crossed'
         /\ ~crossed' => \A q \in Openers : opener[q].at = "idle"
         /\ \E o \in Openers :
              /\ opener[o].at = "idle"
              /\ opener'[o].at = "open" /\ opener'[o].dev = c
              /\ \A q \in Openers \ {o} : opener'[q] = opener[q]
PROOF
<1>1. PICK o \in Openers :
        /\ opener[o].at = "idle"
        /\ opener' = [opener EXCEPT ![o] = [at |-> "open", dev |-> c]]
  BY DEF StartOpener
<1>2. opener \in [Openers -> OpenerType] /\ [at |-> "open", dev |-> c] \in OpenerType
  BY DEF TypeOK, OpenerType
<1>3. /\ opener' \in [Openers -> OpenerType]
      /\ opener'[o].at = "open" /\ opener'[o].dev = c
      /\ \A q \in Openers \ {o} : opener'[q] = opener[q]
  BY <1>1, <1>2
<1>4. crossed' = (crossed \/ \E q \in Openers : opener[q].at # "idle")
  BY DEF StartOpener
<1>5. crossed' \in BOOLEAN
  BY <1>4, Zenon
<1>6. crossed => crossed'
  BY <1>4
<1>7. ~crossed' => \A q \in Openers : opener[q].at = "idle"
  BY <1>4
<1>. QED
  BY <1>1, <1>3, <1>5, <1>6, <1>7

LEMMA OnPageSwitchKeeps ==
  ASSUME TypeOK, CamerasInv, OnPageSwitch
  PROVE  TypeOK' /\ CamerasInv'
PROOF
<1>1. /\ page = "other" /\ page' = "video" /\ ~active /\ active' = TRUE /\ StartOpener(chosen)
      /\ chosen \in Cameras /\ UNCHANGED <<main, cap, wizardVars, previewVars, add, chosen, rebuild, late, stuck, skipped, away, inFlight>>
  BY DEF OnPageSwitch, StartVideoPreview, CamerasInv, InvOpeners, TypeOK
<1>2. /\ opener' \in [Openers -> OpenerType] /\ crossed' \in BOOLEAN
      /\ crossed => crossed'
      /\ ~crossed' => \A q \in Openers : opener[q].at = "idle"
  BY <1>1, StartedOpener
<1>3. PICK o \in Openers :
        /\ opener[o].at = "idle"
        /\ opener'[o].at = "open" /\ opener'[o].dev = chosen
        /\ \A q \in Openers \ {o} : opener'[q] = opener[q]
  BY <1>1, StartedOpener
<1>4. SettingsStep
  BY <1>1, <1>2, <1>3 DEF SettingsStep, TypeOK, CamerasInv, InvHolders
<1>5. InvOpeners'
  BY <1>1, <1>2, <1>3 DEF CamerasInv, InvOpeners, WindowShowsChosen
<1>6. active' \in BOOLEAN /\ rebuild' \in BOOLEAN /\ inFlight' \in BOOLEAN
  BY <1>1, Zenon DEF TypeOK
<1>. QED
  BY <1>2, <1>4, <1>5, <1>6, SettingsKeeps

LEMMA StopVideoPreviewKeeps ==
  ASSUME TypeOK, CamerasInv, StopVideoPreview
  PROVE  TypeOK' /\ CamerasInv'
PROOF
<1>1. /\ page = "video" /\ page' = "other" /\ active' = FALSE
      /\ cap' = [cap EXCEPT ![Closing] = cap[Window], ![Window] = None]
      /\ UNCHANGED <<main, wizardVars, previewVars, add, opener, chosen, rebuild, late, stuck, skipped, away, crossed>>
  BY DEF StopVideoPreview
<1>2. inFlight' = (inFlight \/ \E o \in Openers : opener[o].at = "assign")
  BY DEF StopVideoPreview
<1>3. /\ cap' \in [Holders -> Cameras \union {None}] /\ cap'[Window] = None
      /\ \A h \in Holders \ {Window, Closing} : cap'[h] = cap[h]
  BY <1>1, HoldersDiffer, SinglesDiffer DEF TypeOK
<1>4. /\ \A h \in Probes \union Previews \union {Emitter, Adder} : cap'[h] = cap[h]
      /\ \A o \in Openers : cap'[o] = cap[o]
  BY <1>3, HoldersDiffer, SinglesDiffer
<1>5. SettingsStep
  BY <1>1, <1>3, <1>4 DEF SettingsStep, TypeOK, OpenerType, CamerasInv, InvHolders
<1>6. InvOpeners'
  BY <1>1, <1>2, <1>3 DEF CamerasInv, InvOpeners, WindowShowsChosen
<1>7. active' \in BOOLEAN /\ rebuild' \in BOOLEAN /\ inFlight' \in BOOLEAN /\ crossed' \in BOOLEAN
  BY <1>1, <1>2, Zenon DEF TypeOK
<1>. QED
  BY <1>5, <1>6, <1>7, SettingsKeeps

LEMMA ClosedKeeps ==
  ASSUME TypeOK, CamerasInv, Closed
  PROVE  TypeOK' /\ CamerasInv'
PROOF
<1>1. /\ page \in {"video", "other"} /\ cap' = Release(Closing)
      /\ UNCHANGED <<page, main, wizardVars, previewVars, add, settingsVars, ghosts>>
  BY DEF Closed, CamerasInv, InvHolders
<1>2. OnlyCapture(Closing)
  BY <1>1, HoldersDiffer, ReleaseTypes DEF OnlyCapture
<1>3. cap'[Window] = cap[Window] /\ \A o \in Openers : cap'[o] = cap[o]
  BY <1>2, SingleCapture, SinglesDiffer
<1>4. SettingsStep
  BY <1>1, <1>2, <1>3, SettingsCaptures DEF SettingsStep, TypeOK, OpenerType, CamerasInv, InvHolders
<1>5. InvOpeners'
  BY <1>1, <1>3 DEF CamerasInv, InvOpeners, WindowShowsChosen
<1>6. active' \in BOOLEAN /\ rebuild' \in BOOLEAN /\ inFlight' \in BOOLEAN /\ crossed' \in BOOLEAN
  BY <1>1, Zenon DEF TypeOK
<1>. QED
  BY <1>4, <1>5, <1>6, SettingsKeeps

(* One opener goes on: it opens, looks whether the page is still active,   *)
(* and hands its capture to the window.                                    *)
OpenerStep(o) ==
  /\ UNCHANGED <<page, main, wizardVars, previewVars, add, active, chosen, rebuild, ghosts>>
  /\ opener[o].at # "idle"
  /\ opener' \in [Openers -> OpenerType]
  /\ \A q \in Openers \ {o} : opener'[q] = opener[q]
  /\ opener'[o].at # "idle" => opener'[o].dev = opener[o].dev
  /\ opener'[o].at = "assign" => active
  /\ cap' \in [Holders -> Cameras \union {None}]
  /\ \A h \in Holders \ {o, Window} : cap'[h] = cap[h]
  /\ cap'[o] # None => opener'[o].at \in {"check", "assign"}
  /\ cap'[Window] # cap[Window] => cap'[Window] = opener[o].dev /\ opener[o].at = "assign"

LEMMA OpenerSteps ==
  ASSUME TypeOK, InvHolders, NEW o \in Openers, Opener(o)
  PROVE  OpenerStep(o)
PROOF
<1>1. /\ opener \in [Openers -> OpenerType] /\ o \in Holders /\ Window \in Holders /\ o # Window
      /\ cap \in [Holders -> Cameras \union {None}]
      /\ cap[o] # None => opener[o].at \in {"check", "assign"}
      /\ NoThread \in OpenerType /\ NoThread.at = "idle"
  BY HoldersDiffer DEF TypeOK, InvHolders, OpenerType, NoThread
<1>2. CASE OpenerOpens(o)
  <2>1. /\ opener[o].at = "open" /\ Opens(o, opener[o].dev)
        /\ opener' = IF cap'[o] = None THEN [opener EXCEPT ![o] = NoThread]
                                       ELSE [opener EXCEPT ![o].at = "check"]
        /\ UNCHANGED <<page, main, wizardVars, previewVars, add, active, chosen, rebuild, ghosts>>
    BY <1>2 DEF OpenerOpens
  <2>2. /\ cap' \in [Holders -> Cameras \union {None}]
        /\ \A h \in Holders \ {o} : cap'[h] = cap[h]
    <3>1. CASE UNCHANGED cap
      BY <1>1, <3>1
    <3>2. CASE cap' = [cap EXCEPT ![o] = opener[o].dev]
      BY <1>1, <3>2 DEF OpenerType
    <3>. QED
      BY <2>1, <3>1, <3>2 DEF Opens
  <2>3. CASE cap'[o] = None
    <3>1. opener' = [opener EXCEPT ![o] = NoThread]
      BY <2>1, <2>3
    <3>. QED
      BY <1>1, <2>1, <2>2, <2>3, <3>1 DEF OpenerStep
  <2>4. CASE cap'[o] # None
    <3>1. opener' = [opener EXCEPT ![o].at = "check"]
      BY <2>1, <2>4
    <3>2. /\ opener' \in [Openers -> OpenerType] /\ opener'[o].at = "check"
          /\ opener'[o].dev = opener[o].dev
          /\ \A q \in Openers \ {o} : opener'[q] = opener[q]
      BY <1>1, <3>1 DEF OpenerType
    <3>. QED
      BY <1>1, <2>1, <2>2, <3>2 DEF OpenerStep
  <2>. QED
    BY <2>3, <2>4
<1>3. CASE OpenerChecks(o)
  <2>1. /\ opener[o].at = "check"
        /\ UNCHANGED <<page, main, wizardVars, previewVars, add, active, chosen, rebuild, ghosts>>
    BY <1>3 DEF OpenerChecks
  <2>2. CASE active
    <3>1. opener' = [opener EXCEPT ![o].at = "assign"] /\ UNCHANGED cap
      BY <1>3, <2>2 DEF OpenerChecks
    <3>2. /\ opener' \in [Openers -> OpenerType] /\ opener'[o].at = "assign"
          /\ opener'[o].dev = opener[o].dev
          /\ \A q \in Openers \ {o} : opener'[q] = opener[q]
      BY <1>1, <3>1 DEF OpenerType
    <3>. QED
      BY <1>1, <2>1, <2>2, <3>1, <3>2 DEF OpenerStep
  <2>3. CASE ~active
    <3>1. opener' = [opener EXCEPT ![o] = NoThread] /\ cap' = Release(o)
      BY <1>3, <2>3 DEF OpenerChecks
    <3>. QED
      BY <1>1, <2>1, <3>1, ReleaseTypes DEF OpenerStep
  <2>. QED
    BY <2>2, <2>3
<1>4. CASE OpenerAssigns(o)
  <2>1. /\ opener[o].at = "assign" /\ opener' = [opener EXCEPT ![o] = NoThread]
        /\ cap' = [cap EXCEPT ![Window] = opener[o].dev, ![o] = None]
        /\ UNCHANGED <<page, main, wizardVars, previewVars, add, active, chosen, rebuild, ghosts>>
    BY <1>4 DEF OpenerAssigns
  <2>2. opener[o].dev \in Cameras \union {None}
    BY <1>1 DEF OpenerType
  <2>3. /\ cap' \in [Holders -> Cameras \union {None}]
        /\ cap'[Window] = opener[o].dev /\ cap'[o] = None
        /\ \A h \in Holders \ {o, Window} : cap'[h] = cap[h]
    BY <1>1, <2>1, <2>2
  <2>. QED
    BY <1>1, <2>1, <2>3 DEF OpenerStep
<1>. QED
  BY <1>2, <1>3, <1>4 DEF Opener

LEMMA OpenerKeepsCameras ==
  ASSUME TypeOK, CamerasInv, NEW o \in Openers, Opener(o)
  PROVE  TypeOK' /\ CamerasInv'
PROOF
<1>1. OpenerStep(o)
  BY OpenerSteps DEF CamerasInv
<1>2. /\ \A h \in Probes \union Previews \union {Emitter, Adder} : cap'[h] = cap[h]
      /\ \A q \in Openers \ {o} : cap'[q] = cap[q]
  BY <1>1, HoldersDiffer, SinglesDiffer DEF OpenerStep
<1>3. page \in {"video", "other"}
  BY <1>1 DEF OpenerStep, CamerasInv, InvHolders
<1>4. SettingsStep
  BY <1>1, <1>2, <1>3 DEF OpenerStep, SettingsStep, TypeOK, CamerasInv, InvHolders
<1>5. InvOpeners'
  BY <1>1 DEF OpenerStep, CamerasInv, InvOpeners, WindowShowsChosen
<1>6. active' \in BOOLEAN /\ rebuild' \in BOOLEAN /\ inFlight' \in BOOLEAN /\ crossed' \in BOOLEAN
  BY <1>1, Zenon DEF OpenerStep, TypeOK
<1>. QED
  BY <1>4, <1>5, <1>6, SettingsKeeps

LEMMA OnCameraChangeKeeps ==
  ASSUME TypeOK, CamerasInv, NEW c \in Cameras, OnCameraChange(c)
  PROVE  TypeOK' /\ CamerasInv'
PROOF
<1>1. /\ page = "video" /\ cap' = Release(Window) /\ chosen' = c /\ StartOpener(c)
      /\ UNCHANGED <<page, main, wizardVars, previewVars, add, active, rebuild, late, stuck, skipped, away, inFlight>>
  BY DEF OnCameraChange
<1>2. OnlyCapture(Window) /\ cap'[Window] = None
  BY <1>1, HoldersDiffer, ReleaseTypes DEF OnlyCapture
<1>3. \A o \in Openers : cap'[o] = cap[o]
  BY <1>2, SingleCapture
<1>4. /\ opener' \in [Openers -> OpenerType] /\ crossed' \in BOOLEAN
      /\ crossed => crossed'
      /\ ~crossed' => \A q \in Openers : opener[q].at = "idle"
  BY <1>1, StartedOpener
<1>5. PICK o \in Openers :
        /\ opener[o].at = "idle"
        /\ opener'[o].at = "open" /\ opener'[o].dev = c
        /\ \A q \in Openers \ {o} : opener'[q] = opener[q]
  BY <1>1, StartedOpener
<1>6. SettingsStep
  BY <1>1, <1>2, <1>3, <1>4, <1>5, SettingsCaptures DEF SettingsStep, CamerasInv, InvHolders
<1>7. InvOpeners'
  BY <1>1, <1>2, <1>4, <1>5 DEF CamerasInv, InvOpeners, WindowShowsChosen
<1>8. active' \in BOOLEAN /\ rebuild' \in BOOLEAN /\ inFlight' \in BOOLEAN
  BY <1>1, Zenon DEF TypeOK
<1>. QED
  BY <1>4, <1>6, <1>7, <1>8, SettingsKeeps

LEMMA OnLanguageChangedKeeps ==
  ASSUME TypeOK, CamerasInv, OnLanguageChanged
  PROVE  TypeOK' /\ CamerasInv'
PROOF
<1>1. /\ page = "other" /\ rebuild' = TRUE
      /\ UNCHANGED <<page, main, cap, wizardVars, previewVars, add, opener, active, chosen, ghosts>>
  BY DEF OnLanguageChanged
<1>2. SettingsStep
  BY <1>1 DEF SettingsStep, TypeOK, OpenerType, CamerasInv, InvHolders
<1>3. InvOpeners'
  BY <1>1 DEF CamerasInv, InvOpeners, WindowShowsChosen
<1>4. active' \in BOOLEAN /\ rebuild' \in BOOLEAN /\ inFlight' \in BOOLEAN /\ crossed' \in BOOLEAN
  BY <1>1, Zenon DEF TypeOK
<1>. QED
  BY <1>2, <1>3, <1>4, SettingsKeeps

(* The page that is rebuilt is active already, if it is the Video page.    *)
LEMMA ApplyLanguageRebuildKeeps ==
  ASSUME TypeOK, CamerasInv, ApplyLanguageRebuild
  PROVE  TypeOK' /\ CamerasInv'
PROOF
<1>1. /\ rebuild' = FALSE /\ cap' = Release(Window) /\ page \in {"video", "other"}
      /\ UNCHANGED <<page, main, wizardVars, previewVars, add, chosen, late, stuck, skipped, away, inFlight>>
  BY DEF ApplyLanguageRebuild, CamerasInv, InvHolders
<1>2. UNCHANGED <<active, opener, crossed>>
  BY DEF ApplyLanguageRebuild, StartVideoPreview, CamerasInv, InvOpeners
<1>3. OnlyCapture(Window) /\ cap'[Window] = None
  BY <1>1, HoldersDiffer, ReleaseTypes DEF OnlyCapture
<1>4. \A o \in Openers : cap'[o] = cap[o]
  BY <1>3, SingleCapture
<1>5. SettingsStep
  BY <1>1, <1>2, <1>3, <1>4, SettingsCaptures
     DEF SettingsStep, TypeOK, OpenerType, CamerasInv, InvHolders
<1>6. InvOpeners'
  BY <1>1, <1>2, <1>3 DEF CamerasInv, InvOpeners, WindowShowsChosen
<1>7. active' \in BOOLEAN /\ rebuild' \in BOOLEAN /\ inFlight' \in BOOLEAN /\ crossed' \in BOOLEAN
  BY <1>1, <1>2, Zenon DEF TypeOK
<1>. QED
  BY <1>5, <1>6, <1>7, SettingsKeeps

-----------------------------------------------------------------------------
(* The theorems.                                                           *)

LEMMA CamerasInit ==
  ASSUME Init
  PROVE  TypeOK /\ CamerasInv
PROOF
<1>1. /\ cap = [h \in Holders |-> None]
      /\ visit = [v \in Visits |-> [at |-> "unused", wanted |-> FALSE, dev |-> None, left |-> {}]]
      /\ probe = [x \in Probes |-> NoProbe]
      /\ pv = [p \in Previews |-> NoThread] /\ opener = [o \in Openers |-> NoThread]
      /\ \/ page = "cameras" /\ main = [then |-> "scan", dev |-> None]
         \/ page = "other" /\ main = [then |-> "free", dev |-> None]
      /\ active = FALSE /\ add = "idle" /\ rebuild = FALSE /\ late = 0
      /\ away = FALSE /\ inFlight = FALSE /\ crossed = FALSE /\ listed = FALSE /\ asked = FALSE
      /\ nextOn = FALSE /\ answers = TRUE /\ advance = FALSE /\ stuck = {} /\ skipped = FALSE
      /\ sel \in Cameras /\ face = sel /\ chosen = sel /\ current = None /\ thread = None
  BY DEF Init
<1>2. /\ [at |-> "unused", wanted |-> FALSE, dev |-> None, left |-> {}] \in VisitType
      /\ NoProbe \in ProbeType /\ NoProbe.worker = "end" /\ NoProbe.status = "done"
      /\ NoThread \in OpenerType /\ NoThread.at = "idle"
  BY DEF VisitType, NoProbe, ProbeType, NoThread, OpenerType
<1>3. TypeOK
  <2>1. listed \in BOOLEAN /\ asked \in BOOLEAN /\ active \in BOOLEAN /\ rebuild \in BOOLEAN
        /\ away \in BOOLEAN /\ inFlight \in BOOLEAN /\ crossed \in BOOLEAN
        /\ nextOn \in BOOLEAN /\ answers \in BOOLEAN /\ advance \in BOOLEAN /\ skipped \in BOOLEAN
    BY <1>1, Zenon
  <2>a. download \in BOOLEAN /\ enrolled \in BOOLEAN
    BY Zenon DEF Init
  <2>2. late \in 0 .. MaxLate
    BY <1>1, LateAssumption
  <2>3. /\ visit \in [Visits -> VisitType] /\ probe \in [Probes -> ProbeType]
        /\ cap \in [Holders -> Cameras \union {None}] /\ opener \in [Openers -> OpenerType]
        /\ pv \in [Previews -> [at : {"idle", "open", "loop", "read"}, dev : Cameras \union {None}]]
    BY <1>1, <1>2 DEF NoThread
  <2>4. /\ page \in {"cameras", "emitter", "scan", "later", "gone", "video", "other"}
        /\ main \in [then : {"free", "rest", "preview", "scan", "emitter", "add"}, dev : Cameras \union {None}]
        /\ current \in Cameras \union {None} /\ thread \in Previews \union {None}
        /\ add \in {"idle", "starting", "running", "ended"}
        /\ sel \in Cameras /\ face \in Cameras /\ chosen \in Cameras
    BY <1>1
  <2>. QED
    BY <1>1, <2>1, <2>a, <2>2, <2>3, <2>4 DEF TypeOK, OpenerType
<1>4. InvProbes
  <2>1. ASSUME NEW v \in Visits, NEW c \in Cameras PROVE Claimed(v, c) /\ InvProbe(v, c)
    <3>1. /\ visit[v].at = "unused" /\ probe[<<v, c>>] = NoProbe /\ cap[<<v, c>>] = None
      BY <1>1, PairIsProbe
    <3>. QED
      BY <1>2, <3>1 DEF Claimed, HandedOver, InvProbe
  <2>2. \A v \in Visits : visit[v].at \notin {"wait", "use"}
    BY <1>1
  <2>. QED
    BY <2>1, <2>2, ClaimedIsClaimedOnce DEF InvProbes
<1>5. InvPreviews
  BY <1>1, <1>2, HoldersDiffer DEF InvPreviews
<1>6. InvPages
  BY <1>1, <1>2 DEF InvPages, InWizard
<1>7. InvHolders
  BY <1>1, <1>2, HoldersDiffer DEF InvHolders
<1>8. InvOpeners
  BY <1>1, <1>2, HoldersDiffer DEF InvOpeners, WindowShowsChosen
<1>. QED
  BY <1>3, <1>4, <1>5, <1>6, <1>7, <1>8 DEF CamerasInv

LEMMA CamerasStep ==
  ASSUME TypeOK, CamerasInv, [Next]_vars
  PROVE  TypeOK' /\ CamerasInv'
PROOF
<1>1. CASE User
  <2>1. ASSUME NEW c \in Cameras, OnCameraSelectionChanged(c) \/ OnCameraChange(c)
        PROVE  TypeOK' /\ CamerasInv'
    BY <2>1, OnCameraSelectionChangedKeeps, OnCameraChangeKeeps
  <2>. QED
    BY <1>1, <2>1, GoNextKeeps, GoPrevKeeps, Slide3Keeps, OnScanButtonClickKeeps,
       OnSkipSecondButtonClickKeeps, OpenSettingsKeeps, OnPageSwitchKeeps, StopVideoPreviewKeeps, OnLanguageChangedKeeps DEF User
<1>2. CASE JoinEnds \/ UpdateDownloadGui
  BY <1>2, JoinEndsKeeps, UpdateDownloadGuiKeeps
<1>3. ASSUME NEW v \in Visits,
             Caller(v) \/ UpdateCameraListGui(v) \/ \E c \in Cameras : Worker(v, c)
      PROVE  TypeOK' /\ CamerasInv'
  BY <1>3, ScanKeeps, UpdateCameraListGuiKeeps
<1>4. ASSUME NEW p \in Previews, Preview(p) PROVE TypeOK' /\ CamerasInv'
  BY <1>4, PreviewKeeps
<1>5. CASE AddOpens \/ AddEnds \/ OnAddFinished
  BY <1>5, AddOpensKeeps, AddEndsKeeps, OnAddFinishedKeeps
<1>6. ASSUME NEW o \in Openers, Opener(o) PROVE TypeOK' /\ CamerasInv'
  BY <1>6, OpenerKeepsCameras
<1>7. CASE Closed \/ ApplyLanguageRebuild
  BY <1>7, ClosedKeeps, ApplyLanguageRebuildKeeps
<1>8. CASE UNCHANGED vars
  <2>1. UNCHANGED <<page, main, cap, add>> /\ UNCHANGED wizardVars /\ UNCHANGED previewVars
        /\ UNCHANGED settingsVars /\ UNCHANGED ghosts
    BY <1>8 DEF vars
  <2>2. TypeOK'
    BY <2>1 DEF TypeOK
  <2>3. InvProbes'
    BY <2>1, UnchangedVisits, PagesKeepProbes
  <2>4. InvPreviews' /\ InvPages' /\ InvHolders' /\ InvOpeners'
    BY <2>1 DEF CamerasInv, InvPreviews, InvPages, InvHolders, InvOpeners, WindowShowsChosen, InWizard
  <2>. QED
    BY <2>2, <2>3, <2>4 DEF CamerasInv
<1>. QED
  BY <1>1, <1>2, <1>3, <1>4, <1>5, <1>6, <1>7, <1>8 DEF Next

(* The invariant that says which thread holds a camera, and for whom, in   *)
(* every step of the wizard and of Settings.                               *)
THEOREM CamerasInductive == Spec => [](TypeOK /\ CamerasInv)
PROOF
<1>1. Init => TypeOK /\ CamerasInv
  BY CamerasInit
<1>2. TypeOK /\ CamerasInv /\ [Next]_vars => (TypeOK /\ CamerasInv)'
  BY CamerasStep
<1>. QED
  BY <1>1, <1>2, PTL DEF Spec

(* A capture a probe has opened always has exactly one owner, the worker   *)
(* or the scan thread, whoever of them comes late (_probe_camera).         *)
THEOREM CapturesHaveOneOwner == Spec => []HandOverInv
PROOF
<1>1. TypeOK /\ CamerasInv => HandOverInv
  BY DEF CamerasInv, InvProbes, HandOverInv
<1>. QED
  BY <1>1, CamerasInductive, PTL

(* Who can have the camera that `add` is about to open, if its page was    *)
(* not left: the holder is there by one of three accounts.                 *)
LEMMA HolderHasAccount ==
  ASSUME TypeOK, CamerasInv, add = "starting", ~away, NEW h \in Holders, cap[h] = face
  PROVE  \/ h \in stuck
         \/ \E v \in Visits, c \in Cameras : h = <<v, c>> /\ (probe[h].status = "abandoned" \/ CutShort(v, c))
         \/ h = Emitter /\ skipped
PROOF
<1>1. /\ page = "scan" /\ (\A p \in Previews : pv[p].at # "idle" => p \in stuck)
      /\ \A v \in Visits : ~visit[v].wanted
  BY DEF CamerasInv, InvPages
<1>2. face \in Cameras /\ face # None
  BY NoneIsNoCamera DEF TypeOK
<1>3. CASE h \in Previews
  BY <1>1, <1>2, <1>3 DEF CamerasInv, InvPreviews
<1>4. CASE h \in Openers \union {Adder, Window, Closing}
  BY <1>1, <1>2, <1>4 DEF CamerasInv, InvHolders
<1>5. CASE h = Emitter
  BY <1>1, <1>2, <1>5 DEF CamerasInv, InvHolders
<1>6. CASE h \in Probes
  <2>1. PICK v \in Visits, c \in Cameras : h = <<v, c>>
    BY <1>6 DEF Probes
  <2>2. ProbeHolds(v, c) /\ probe[<<v, c>>].status \in {"pending", "done", "abandoned"}
    BY ProbeHoldsAll, PairIsProbe DEF CamerasInv, TypeOK, ProbeType
  <2>3. CASE probe[<<v, c>>].worker = "end"
    <3>1. HandedOver(v, c) /\ cap[<<v, c>>] = c
      BY <1>2, <2>1, <2>2, <2>3 DEF ProbeHolds, Claimed
    <3>. QED
      BY <1>1, <2>1, <3>1 DEF HandedOver, CutShort
  <2>4. CASE probe[<<v, c>>].worker # "end"
    <3>2. probe[<<v, c>>].status = "pending" => visit[v].at = "wait" /\ visit[v].dev = c
      BY <2>2 DEF ProbeHolds, InvProbe
    <3>3. probe[<<v, c>>].status # "done"
      BY <2>2, <2>4 DEF ProbeHolds, InvProbe
    <3>. QED
      BY <1>1, <2>1, <2>2, <3>2, <3>3 DEF CutShort
  <2>. QED
    BY <2>3, <2>4
<1>. QED
  BY <1>3, <1>4, <1>5, <1>6 DEF Holders

(* The `add` command finds its camera free unless one of three threads or  *)
(* pages is accountable for it: a preview that outlived its join, a probe  *)
(* given up or cut short, a question left unanswered (on_scanbutton_click, *)
(* stop_preview, go_next_slide).                                           *)
THEOREM AddFindsItFree == Spec => []AddFindsCameraFree
PROOF
<1>1. TypeOK /\ CamerasInv => AddFindsCameraFree
  BY HolderHasAccount DEF AddFindsCameraFree
<1>. QED
  BY <1>1, CamerasInductive, PTL

(* Settings holds no camera but the selected one, and none off the Video   *)
(* page, unless openers crossed or the page was left under one             *)
(* (start_video_preview, open_camera_background).                          *)
THEOREM SettingsShowsChosen == Spec => []WindowShowsChosen
PROOF
<1>1. CamerasInv => WindowShowsChosen
  BY DEF CamerasInv, InvOpeners
<1>. QED
  BY <1>1, CamerasInductive, PTL
=============================================================================
