---------------------------- MODULE MedallionProofs ----------------------------
(***************************************************************************)
(* Theorems about Medallion for any calendar of splits, any timeframes and *)
(* any number of days, revisions, failures and interruptions.              *)
(***************************************************************************)
EXTENDS Medallion, FiniteSetTheorems, WellFoundedInduction, TLAPS

-----------------------------------------------------------------------------
(* The first of what is left.                                              *)

\* A set of natural numbers has a least element.
LEMMA LeastNatural ==
  ASSUME NEW T, T \subseteq Nat, T # {}
  PROVE  \E m \in T : \A k \in T : m <= k
<1> DEFINE R == {ss \in Nat \X Nat : ss[1] < ss[2]}
<1>1. IsWellFoundedOn(R, Nat)
  BY NatLessThanWellFounded DEF OpToRel
<1> HIDE DEF R
<1>2. PICK m \in T : \A k \in T : ~(<<k, m>> \in R)
  BY <1>1, WFMin
<1>3. ASSUME NEW k \in T PROVE m <= k
  <2>1. m \in Nat /\ k \in Nat
    OBVIOUS
  <2>2. ~(k < m)
    BY <1>2, <2>1 DEF R
  <2>3. QED
    BY <2>1, <2>2
<1>4. QED
  BY <1>2, <1>3

\* The least of some numbers is one of them.
LEMMA MinBelongs ==
  ASSUME NEW T, T \subseteq Nat, T # {}
  PROVE  Min(T) \in T
BY LeastNatural DEF Min

-----------------------------------------------------------------------------
(* The inductive invariants.                                               *)

Working == {"build", "publish", "rename"}
Works(w) == job[w].at \in Working
Places(w) == DOMAIN Outputs(job[w].layer, job[w].day)

\* Types, with what a working operation has left to write.
Typed ==
  /\ TypeOK
  /\ phase = "idle" => job["refresh"].at = "idle"
  /\ \A w \in Workers : Works(w) => job[w].left \subseteq Places(w)

\* No operation works on a frozen day, and no manifest that was read has one.
FrozenApart ==
  /\ FrozenSplitsUntouched
  /\ \A w \in Workers :
       /\ Works(w) => Class[job[w].day] \notin Frozen
       /\ \A n \in Name : Class[n[2]] \in Frozen => job[w].copy[n] = 0

\* While a refresh runs the operator waits.
Alone == phase = "running" => \A w \in Workers : w # "refresh" => job[w].at = "idle"

\* An operation knows the manifests as they are, what of its outputs is there and
\* what its input is.
Knows(w) ==
  /\ \A n \in Name : job[w].copy[n] = entries[n]
  /\ \A i \in Places(w) : files[Outputs(job[w].layer, job[w].day)[i]] = 0 <=> i \in job[w].left
  /\ job[w].layer # "bronze" =>
       job[w].content = files[Input(job[w].layer, job[w].day)] /\ job[w].content # 0

\* Between building a file and renaming it, its content is in the .part and, once
\* published, in the manifest.
Carries(w) ==
  /\ job[w].at \in {"publish", "rename"} =>
       job[w].content # 0 /\ parts[Output(w)] = job[w].content
  /\ job[w].at = "rename" => entries[Output(w)] = job[w].content

Proceeds(w) ==
  /\ Works(w) => Knows(w) /\ Carries(w)
  /\ job[w].at = "done" => Complete(job[w].layer, job[w].day)

LayersInv ==
  /\ Typed /\ Alone
  /\ \A d \in Day : source[d] > 0
  /\ FilesMatchManifest /\ LineageHolds /\ CompletedMeansDone
  /\ \A s \in completed : Complete(s[1], s[2])
  /\ \A w \in Workers : Proceeds(w)

-----------------------------------------------------------------------------
(* Names, steps and jobs.                                                  *)

\* The outputs of a layer for a day are names of that layer and day, each once.
LEMMA Outputting ==
  ASSUME NEW layer \in Layer, NEW d \in Day
  PROVE  /\ DOMAIN Outputs(layer, d) \subseteq Nat
         /\ \A i \in DOMAIN Outputs(layer, d) :
              /\ Outputs(layer, d)[i] \in Name
              /\ Outputs(layer, d)[i][2] = d
              /\ LayerOf(Outputs(layer, d)[i]) = layer
         /\ \A i, j \in DOMAIN Outputs(layer, d) :
              Outputs(layer, d)[i] = Outputs(layer, d)[j] => i = j
<1>1. /\ Timeframes \in Seq(STRING \ {"bronze", "silver"})
      /\ \A i, j \in DOMAIN Timeframes : Timeframes[i] = Timeframes[j] => i = j
  BY MedallionAssumption DEF MedallionAssumption
<1>2. /\ DOMAIN Timeframes \subseteq Nat
      /\ \A i \in DOMAIN Timeframes : Timeframes[i] \in Timeframe
      /\ "bronze" \notin Timeframe /\ "silver" \notin Timeframe
  BY <1>1 DEF Timeframe, ToSet
<1>3. CASE layer = "candles"
  <2>1. Outputs(layer, d) = [i \in DOMAIN Timeframes |-> <<Timeframes[i], d>>]
    BY <1>3 DEF Outputs
  <2>2. \A i \in DOMAIN Timeframes :
          /\ <<Timeframes[i], d>> \in Name /\ <<Timeframes[i], d>>[2] = d
          /\ LayerOf(<<Timeframes[i], d>>) = layer
    BY <1>2, <1>3 DEF Name, LayerOf
  <2>3. QED
    BY <1>1, <1>2, <2>1, <2>2
<1>4. CASE layer # "candles"
  <2>1. Outputs(layer, d) = << <<layer, d>> >>
    BY <1>4 DEF Outputs
  <2>2. layer \in {"bronze", "silver"}
    BY <1>4 DEF Layer
  <2>3. /\ <<layer, d>> \in Name /\ <<layer, d>>[2] = d
        /\ LayerOf(<<layer, d>>) = layer
    BY <1>2, <2>2 DEF Name, LayerOf
  <2>4. DOMAIN Outputs(layer, d) = {1} /\ Outputs(layer, d)[1] = <<layer, d>>
    BY <2>1
  <2>5. QED
    BY <2>3, <2>4
<1>5. QED
  BY <1>3, <1>4

\* The input of a derived layer is of the same day and of another layer.
LEMMA Inputting ==
  ASSUME NEW layer \in Layer, NEW d \in Day
  PROVE  /\ Input(layer, d) \in Name /\ Input(layer, d)[2] = d
         /\ layer # "bronze" => LayerOf(Input(layer, d)) # layer
<1>1. "bronze" \notin Timeframe /\ "silver" \notin Timeframe
  BY MedallionAssumption DEF MedallionAssumption, Timeframe, ToSet
<1>2. QED
  BY <1>1 DEF Input, Name, LayerOf, Layer

\* The next step is one of those that are left.
LEMMA NextStepBelongs ==
  ASSUME plan \subseteq Layer \X Day, plan # {}
  PROVE  NextStep \in plan /\ NextStep[1] \in Layer /\ NextStep[2] \in Day
<1>1. \A s \in plan : Rank(s) \in Nat /\ s[1] \in Layer /\ s[2] \in Day
  <2>1. ASSUME NEW s \in plan PROVE Rank(s) \in Nat
    <3>1. s[1] \in Layer /\ s[2] \in Nat
      BY DEF Day
    <3>2. LayerOrder[s[1]] \in Nat
      BY <3>1 DEF LayerOrder, Layer
    <3>3. QED
      BY <3>1, <3>2 DEF Rank
  <2>2. QED
    BY <2>1
<1> DEFINE ranks == {Rank(s) : s \in plan}
<1>2. ranks \subseteq Nat /\ ranks # {}
  BY <1>1
<1> HIDE DEF ranks
<1>3. PICK m \in ranks : \A k \in ranks : m <= k
  BY <1>2, LeastNatural
<1>4. \E s \in plan : \A other \in plan : Rank(s) <= Rank(other)
  BY <1>3 DEF ranks
<1>5. NextStep \in plan
  BY <1>4 DEF NextStep
<1>6. QED
  BY <1>1, <1>5

\* The file a working operation writes.
LEMMA Writing ==
  ASSUME Typed, NEW w \in Workers, Works(w)
  PROVE  /\ job[w] \in Job /\ job[w].layer \in Layer /\ job[w].day \in Day
         /\ job[w].left # {} /\ job[w].left \subseteq Places(w)
         /\ Min(job[w].left) \in job[w].left
         /\ Output(w) \in Name /\ Output(w)[2] = job[w].day
         /\ LayerOf(Output(w)) = job[w].layer
<1>1. /\ job[w] \in Job /\ job[w].layer \in Layer /\ job[w].day \in Day
      /\ job[w].left \subseteq Nat
  BY DEF Typed, TypeOK, Job
<1>2. job[w].left # {} /\ job[w].left \subseteq Places(w)
  BY DEF Typed, TypeOK, Works, Working
<1>3. Min(job[w].left) \in job[w].left
  BY <1>1, <1>2, MinBelongs
<1>4. Min(job[w].left) \in DOMAIN Outputs(job[w].layer, job[w].day)
  BY <1>2, <1>3 DEF Places
<1>5. QED
  BY <1>1, <1>2, <1>3, <1>4, Outputting DEF Output

\* A step of a working operation keeps the types if it keeps those of what it writes.
LEMMA OperationTyped ==
  ASSUME Typed, NEW w \in Workers, Works(w), NEW j \in Job,
         job' = [job EXCEPT ![w] = j],
         j.at # "idle", j.layer = job[w].layer, j.day = job[w].day,
         j.at \in Working => j.left # {} /\ j.left \subseteq job[w].left,
         files' \in [Name -> Version], parts' \in [Name -> Version],
         entries' \in [Name -> Version],
         failures' \in 0..MaxFailures, interrupts' \in 0..MaxInterrupts,
         UNCHANGED <<target, source, phase, goal, plan, completed, executed, status>>
  PROVE  Typed'
<1>1. /\ job \in [Workers -> Job] /\ job' \in [Workers -> Job] /\ job'[w] = j
      /\ \A u \in Workers : u # w => job'[u] = job[u]
      /\ "refresh" \in Workers
  BY MedallionAssumption DEF Typed, TypeOK, MedallionAssumption
<1>2. TypeOK'
  <2>1. \A u \in Workers : job'[u].at \in Working => job'[u].left # {}
    BY <1>1 DEF Typed, TypeOK, Working
  <2>2. NextStep' = NextStep
    BY DEF NextStep, Rank, LayerOrder
  <2>3. job'["refresh"].at # "idle" =>
          /\ job["refresh"].at # "idle"
          /\ job'["refresh"].layer = job["refresh"].layer
          /\ job'["refresh"].day = job["refresh"].day
    BY <1>1 DEF Works, Working
  <2>4. QED
    BY <1>1, <2>1, <2>2, <2>3 DEF Typed, TypeOK, Working
<1>3. (phase = "idle" => job["refresh"].at = "idle")'
  BY <1>1 DEF Typed, Works, Working
<1>4. ASSUME NEW u \in Workers, Works(u)' PROVE job'[u].left \subseteq Places(u)'
  <2>1. CASE u = w
    <3>1. job'[u].left \subseteq job[w].left /\ job[w].left \subseteq Places(w)
      BY <1>1, <1>4, <2>1 DEF Typed, Works
    <3>2. Places(u)' = Places(w)
      BY <1>1, <2>1 DEF Places, Outputs
    <3>3. QED
      BY <3>1, <3>2
  <2>2. CASE u # w
    BY <1>1, <1>4, <2>2 DEF Typed, Works, Places, Outputs
  <2>3. QED
    BY <2>1, <2>2
<1>5. QED
  BY <1>2, <1>3, <1>4 DEF Typed

\* What an operation starts with.
LEMMA Beginning ==
  ASSUME Typed, NEW w \in Workers, NEW layer \in Layer, NEW d \in Day, Begin(w, layer, d)
  PROVE  /\ job' \in [Workers -> Job]
         /\ \A u \in Workers : u # w => job'[u] = job[u]
         /\ job'[w].layer = layer /\ job'[w].day = d
         /\ job'[w].left = Pending(layer, d) /\ job'[w].copy = entries
         /\ job'[w].at = Outcome(w, layer, d)
         /\ layer # "bronze" => job'[w].content = files[Input(layer, d)]
         /\ job'[w].at \in {"failed", "done", "build"}
         /\ job'[w].at = "build" =>
              /\ Allowed(w, d) /\ InputSound(layer, d)
              /\ job'[w].left # {} /\ job'[w].left \subseteq DOMAIN Outputs(layer, d)
         /\ job'[w].at = "done" => Pending(layer, d) = {}
<1> DEFINE j == [at |-> Outcome(w, layer, d), layer |-> layer, day |-> d,
                 left |-> Pending(layer, d), copy |-> entries,
                 content |-> IF layer = "bronze" THEN 0 ELSE files[Input(layer, d)]]
<1>1. /\ job' = [job EXCEPT ![w] = j] /\ job \in [Workers -> Job]
      /\ files \in [Name -> Version] /\ entries \in [Name -> Version]
      /\ MaxRevisions \in Nat
  BY MedallionAssumption DEF Begin, Typed, TypeOK, MedallionAssumption
<1>2. Outcome(w, layer, d) \in {"failed", "done", "build"}
  BY DEF Outcome
<1>3. Pending(layer, d) \subseteq DOMAIN Outputs(layer, d)
  BY DEF Pending
<1>4. Pending(layer, d) \in SUBSET Nat
  BY <1>3, Outputting
<1>5. (IF layer = "bronze" THEN 0 ELSE files[Input(layer, d)]) \in Version
  BY <1>1, Inputting DEF Version
<1>6. j \in Job
  BY <1>1, <1>2, <1>4, <1>5 DEF Job
<1>7. /\ job' \in [Workers -> Job] /\ job'[w] = j
      /\ \A u \in Workers : u # w => job'[u] = job[u]
  BY <1>1, <1>6
<1>8. /\ Outcome(w, layer, d) = "build" =>
           Allowed(w, d) /\ InputSound(layer, d) /\ Pending(layer, d) # {}
      /\ Outcome(w, layer, d) = "done" => Pending(layer, d) = {}
  BY DEF Outcome
<1>9. QED
  BY <1>2, <1>3, <1>7, <1>8

\* A worker that begins a build has a typed job.
LEMMA BeginTyped ==
  ASSUME Typed, NEW w \in Workers, NEW layer \in Layer, NEW d \in Day, Begin(w, layer, d),
         w = "refresh" => phase = "running" /\ plan # {} /\ NextStep = <<layer, d>>,
         UNCHANGED <<target, source, disk, run, status, bounds>>
  PROVE  Typed'
<1>1. /\ job' \in [Workers -> Job] /\ \A u \in Workers : u # w => job'[u] = job[u]
      /\ job'[w].layer = layer /\ job'[w].day = d
      /\ job'[w].at \in {"failed", "done", "build"}
      /\ job'[w].at = "build" =>
           job'[w].left # {} /\ job'[w].left \subseteq DOMAIN Outputs(layer, d)
  BY Beginning
<1>2. UNCHANGED <<target, source, files, parts, entries, phase, goal, plan, completed,
                  executed, status, failures, interrupts>>
  BY DEF disk, run, bounds
<1>3. NextStep' = NextStep
  BY <1>2 DEF NextStep, Rank, LayerOrder
<1>4. TypeOK'
  <2>1. \A u \in Workers :
          job'[u].at \in {"build", "publish", "rename"} => job'[u].left # {}
    BY <1>1 DEF Typed, TypeOK
  <2>2. "refresh" \in Workers
    BY MedallionAssumption DEF MedallionAssumption
  <2>3. job'["refresh"].at # "idle" =>
          plan # {} /\ NextStep = <<job'["refresh"].layer, job'["refresh"].day>>
    BY <1>1, <2>2 DEF Typed, TypeOK
  <2>4. QED
    BY <1>1, <1>2, <1>3, <2>1, <2>3 DEF Typed, TypeOK
<1>5. phase' = "idle" => job'["refresh"].at = "idle"
  <2>1. "refresh" \in Workers
    BY MedallionAssumption DEF MedallionAssumption
  <2>2. QED
    BY <1>1, <1>2, <2>1 DEF Typed
<1>6. ASSUME NEW u \in Workers, Works(u)' PROVE job'[u].left \subseteq Places(u)'
  <2>1. CASE u = w
    BY <1>1, <1>6, <2>1 DEF Works, Working, Places, Outputs
  <2>2. CASE u # w
    BY <1>1, <1>6, <2>2 DEF Typed, Works, Places, Outputs
  <2>3. QED
    BY <2>1, <2>2
<1>7. QED
  BY <1>4, <1>5, <1>6 DEF Typed

\* An operation that ends leaves its worker idle.
LEMMA IdleIsJob == Idle \in Job /\ Idle.at = "idle"
<1>1. 0 \in Version /\ 1 \in Day
  BY MedallionAssumption DEF MedallionAssumption, Version, Day
<1>2. NoCopy \in [Name -> Version]
  BY <1>1 DEF NoCopy
<1>3. QED
  BY <1>1, <1>2 DEF Idle, Job, Layer

\* Build: the .part gets the content the operation then carries.
LEMMA BuildTyped ==
  ASSUME Typed, NEW w \in Workers, Build(w)
  PROVE  /\ Works(w) /\ Typed'
         /\ \E v \in Version :
              /\ v = (IF job[w].layer = "bronze" THEN source[job[w].day] ELSE job[w].content)
              /\ job' = [job EXCEPT ![w] = [job[w] EXCEPT !.at = "publish", !.content = v]]
              /\ parts' = [parts EXCEPT ![Output(w)] = v]
<1> DEFINE u == IF job[w].layer = "bronze" THEN source[job[w].day] ELSE job[w].content
<1>1. Works(w)
  BY DEF Build, Works, Working
<1>2. job[w] \in Job /\ job[w].left # {} /\ Output(w) \in Name /\ job[w].day \in Day
  BY <1>1, Writing
<1>3. u \in Version
  BY <1>2 DEF Typed, TypeOK, Job
<1>4. PICK v \in Version : v = u
  BY <1>3
<1> HIDE DEF u
<1>5. PICK j : j = [job[w] EXCEPT !.at = "publish", !.content = v]
  OBVIOUS
<1>6. /\ j \in Job /\ j.at = "publish" /\ j.layer = job[w].layer /\ j.day = job[w].day
      /\ j.left = job[w].left
  BY <1>2, <1>5 DEF Job
<1>7. /\ job' = [job EXCEPT ![w] = j] /\ parts' = [parts EXCEPT ![Output(w)] = v]
  BY <1>4, <1>5 DEF Build, u, Typed, TypeOK
<1>8. parts' \in [Name -> Version]
  BY <1>2, <1>7 DEF Typed, TypeOK
<1>9. Typed'
  <2>1. UNCHANGED <<target, source, files, entries, phase, goal, plan, completed,
                    executed, status, failures, interrupts>>
    BY DEF Build, run, bounds
  <2>2. /\ files \in [Name -> Version] /\ entries \in [Name -> Version]
        /\ failures \in 0..MaxFailures /\ interrupts \in 0..MaxInterrupts
    BY DEF Typed, TypeOK
  <2>3. QED
    BY <1>1, <1>2, <1>6, <1>7, <1>8, <2>1, <2>2, OperationTyped
<1>10. QED
  BY <1>1, <1>4, <1>5, <1>7, <1>9 DEF u

\* Publish: the layer's manifest gets the new entry.
LEMMA PublishTyped ==
  ASSUME Typed, NEW w \in Workers, Publish(w)
  PROVE  /\ Works(w) /\ Typed'
         /\ Manifest(w) = [job[w].copy EXCEPT ![Output(w)] = job[w].content]
         /\ job' = [job EXCEPT ![w] = [job[w] EXCEPT !.at = "rename", !.copy = Manifest(w)]]
         /\ entries' = [n \in Name |->
                IF LayerOf(n) = job[w].layer THEN Manifest(w)[n] ELSE entries[n]]
<1>1. Works(w)
  BY DEF Publish, Works, Working
<1>2. job[w] \in Job /\ job[w].left # {} /\ Output(w) \in Name
  BY <1>1, Writing
<1>3. Manifest(w) = [job[w].copy EXCEPT ![Output(w)] = job[w].content]
  BY DEF Manifest
<1>4. PICK f : f = Manifest(w)
  OBVIOUS
<1>5. f \in [Name -> Version]
  BY <1>2, <1>3, <1>4 DEF Job
<1>6. PICK j : j = [job[w] EXCEPT !.at = "rename", !.copy = f]
  OBVIOUS
<1>7. /\ j \in Job /\ j.at = "rename" /\ j.layer = job[w].layer /\ j.day = job[w].day
      /\ j.left = job[w].left
  BY <1>2, <1>5, <1>6 DEF Job
<1>8. /\ job' = [job EXCEPT ![w] = j]
      /\ entries' = [n \in Name |-> IF LayerOf(n) = job[w].layer THEN f[n] ELSE entries[n]]
  BY <1>4, <1>6 DEF Publish, Typed, TypeOK
<1>9. entries' \in [Name -> Version]
  BY <1>5, <1>8 DEF Typed, TypeOK
<1>10. Typed'
  <2>1. UNCHANGED <<target, source, files, parts, phase, goal, plan, completed,
                    executed, status, failures, interrupts>>
    BY DEF Publish, run, bounds
  <2>2. /\ files \in [Name -> Version] /\ parts \in [Name -> Version]
        /\ failures \in 0..MaxFailures /\ interrupts \in 0..MaxInterrupts
    BY DEF Typed, TypeOK
  <2>3. QED
    BY <1>1, <1>2, <1>7, <1>8, <1>9, <2>1, <2>2, OperationTyped
<1>11. QED
  BY <1>1, <1>3, <1>4, <1>6, <1>8, <1>10

\* Rename: the .part becomes the file, or the operation fails for want of it.
LEMMA RenameTyped ==
  ASSUME Typed, NEW w \in Workers, Rename(w)
  PROVE  /\ Works(w) /\ Typed'
         /\ \/ /\ parts[Output(w)] = 0 /\ files' = files /\ parts' = parts
               /\ job' = [job EXCEPT ![w] = [job[w] EXCEPT !.at = "failed"]]
            \/ /\ parts[Output(w)] # 0
               /\ files' = [files EXCEPT ![Output(w)] = parts[Output(w)]]
               /\ parts' = [parts EXCEPT ![Output(w)] = 0]
               /\ job' = [job EXCEPT ![w] = [job[w] EXCEPT !.left = Rest(w),
                            !.at = IF Rest(w) = {} THEN "done" ELSE "build"]]
<1>1. Works(w)
  BY DEF Rename, Works, Working
<1>2. job[w] \in Job /\ job[w].left # {} /\ Output(w) \in Name
  BY <1>1, Writing
<1>3. /\ files \in [Name -> Version] /\ parts \in [Name -> Version]
      /\ entries \in [Name -> Version] /\ job \in [Workers -> Job]
      /\ failures \in 0..MaxFailures /\ interrupts \in 0..MaxInterrupts /\ 0 \in Version
  BY MedallionAssumption, SMTT(40) DEF Typed, TypeOK, Version, MedallionAssumption
<1>4. UNCHANGED <<target, source, entries, phase, goal, plan, completed,
                  executed, status, failures, interrupts>>
  BY DEF Rename, run, bounds
<1>5. CASE parts[Output(w)] = 0
  <2>1. PICK j : j = [job[w] EXCEPT !.at = "failed"]
    OBVIOUS
  <2>2. /\ j \in Job /\ j.at = "failed" /\ j.layer = job[w].layer /\ j.day = job[w].day
        /\ j.left = job[w].left
    BY <1>2, <2>1 DEF Job
  <2>3. job' = [job EXCEPT ![w] = j] /\ files' = files /\ parts' = parts
    BY <1>3, <1>5, <2>1 DEF Rename
  <2>4. Typed'
    BY <1>1, <1>3, <1>4, <2>2, <2>3, OperationTyped DEF Working
  <2>5. QED
    BY <1>1, <1>5, <2>1, <2>3, <2>4
<1>6. CASE parts[Output(w)] # 0
  <2>1. PICK rest : rest = Rest(w)
    OBVIOUS
  <2>2. PICK j : j = [job[w] EXCEPT !.left = rest,
                                    !.at = IF rest = {} THEN "done" ELSE "build"]
    OBVIOUS
  <2>3. rest \subseteq job[w].left /\ rest \in SUBSET Nat
    BY <1>2, <2>1 DEF Rest, Job
  <2>4. /\ j \in Job /\ j.at # "idle" /\ j.layer = job[w].layer /\ j.day = job[w].day
        /\ j.left = rest /\ (j.at \in Working => rest # {})
    BY <1>2, <2>2, <2>3 DEF Job, Working
  <2>5. /\ job' = [job EXCEPT ![w] = j]
        /\ files' = [files EXCEPT ![Output(w)] = parts[Output(w)]]
        /\ parts' = [parts EXCEPT ![Output(w)] = 0]
    BY <1>3, <1>6, <2>1, <2>2 DEF Rename
  <2>6. files' \in [Name -> Version] /\ parts' \in [Name -> Version]
    BY <1>2, <1>3, <2>5
  <2>7. Typed'
    BY <1>1, <1>3, <1>4, <2>3, <2>4, <2>5, <2>6, OperationTyped
  <2>8. QED
    BY <1>1, <1>6, <2>1, <2>2, <2>5, <2>7
<1>7. QED
  BY <1>5, <1>6

\* A failure in the middle of an operation touches at most its .part.
LEMMA FailureTyped ==
  ASSUME Typed, NEW w \in Workers, DownloadFails(w) \/ WriteFails(w)
  PROVE  /\ Works(w) /\ Typed'
         /\ job' = [job EXCEPT ![w] = [job[w] EXCEPT !.at = "failed"]]
         /\ parts' = parts \/ parts' = [parts EXCEPT ![Output(w)] = 0]
         /\ UNCHANGED <<source, files, entries, phase, completed, status>>
<1>1. Works(w)
  BY DEF DownloadFails, WriteFails, Works, Working
<1>2. job[w] \in Job /\ job[w].left # {} /\ Output(w) \in Name
  BY <1>1, Writing
<1>3. /\ files \in [Name -> Version] /\ parts \in [Name -> Version]
      /\ entries \in [Name -> Version] /\ job \in [Workers -> Job]
      /\ failures \in 0..MaxFailures /\ interrupts \in 0..MaxInterrupts /\ 0 \in Version
      /\ MaxFailures \in Nat /\ MaxInterrupts \in Nat
  BY MedallionAssumption, SMTT(40) DEF Typed, TypeOK, Version, MedallionAssumption
<1>4. UNCHANGED <<target, source, files, entries, phase, goal, plan, completed,
                  executed, status>>
  BY DEF DownloadFails, WriteFails, run, disk
<1>5. PICK j : j = [job[w] EXCEPT !.at = "failed"]
  OBVIOUS
<1>6. /\ j \in Job /\ j.at = "failed" /\ j.layer = job[w].layer /\ j.day = job[w].day
      /\ j.left = job[w].left
  BY <1>2, <1>5 DEF Job
<1>7. /\ job' = [job EXCEPT ![w] = j]
      /\ parts' = parts \/ parts' = [parts EXCEPT ![Output(w)] = 0]
  BY <1>3, <1>5 DEF DownloadFails, WriteFails, disk
<1>8. failures' \in 0..MaxFailures /\ interrupts' \in 0..MaxInterrupts
  BY <1>3 DEF DownloadFails, WriteFails
<1>9. parts' \in [Name -> Version] /\ files' \in [Name -> Version]
      /\ entries' \in [Name -> Version]
  BY <1>2, <1>3, <1>4, <1>7
<1>10. Typed'
  BY <1>1, <1>4, <1>6, <1>7, <1>8, <1>9, OperationTyped DEF Working
<1>11. QED
  BY <1>1, <1>4, <1>5, <1>7, <1>10

-----------------------------------------------------------------------------
(* Steps outside an operation: the environment, the refresh and the        *)
(* operator.                                                               *)

\* Days pass, files are revised, refreshes are refused: nothing that runs changes.
Quiet ==
  \/ NextDay \/ (\E d \in Day : Revise(d)) \/ RefreshBlocked \/ CapacityGuardFails

\* The refresh starts or ends between two operations.
Turns == StartRefresh \/ RefreshEnds

\* An operation is over, or was interrupted.
Leaves(w) ==
  \/ w = "refresh" /\ (StepDone \/ StepFailed \/ RefreshKilled)
  \/ w = "cli" /\ CliEnds

\* The steps in which no build moves change no file and no record of one.
LEMMA QuietTyped ==
  ASSUME Typed, Quiet
  PROVE  /\ Typed' /\ UNCHANGED <<files, parts, entries, job, phase, completed>>
         /\ status'.completed = status.completed
         /\ (\A d \in Day : source[d] > 0) => (\A d \in Day : source'[d] > 0)
<1>1. /\ target \in Day /\ source \in [Day -> Version]
      /\ status \in [result : Results, completed : SUBSET (Layer \X Day),
                     target : 0..LastDay]
      /\ failures \in 0..MaxFailures /\ interrupts \in 0..MaxInterrupts
      /\ LastDay \in Nat /\ MaxFailures \in Nat /\ MaxRevisions \in Nat
  BY MedallionAssumption DEF Typed, TypeOK, MedallionAssumption
<1>2. UNCHANGED <<files, parts, entries, job, phase, goal, plan, completed, executed, interrupts>>
  BY DEF Quiet, NextDay, Revise, RefreshBlocked, CapacityGuardFails, disk, run, bounds
<1>3. target' \in Day /\ failures' \in 0..MaxFailures
  BY <1>1 DEF Quiet, NextDay, Revise, RefreshBlocked, CapacityGuardFails, bounds, Day
<1>4. source' \in [Day -> Version] /\ ((\A d \in Day : source[d] > 0) => \A d \in Day : source'[d] > 0)
  <2>1. CASE \E d \in Day : Revise(d)
    <3>1. PICK d \in Day : /\ source[d] <= MaxRevisions
                           /\ source' = [source EXCEPT ![d] = source[d] + 1]
      BY <1>1, <2>1 DEF Revise
    <3>2. source[d] \in Nat /\ source[d] + 1 \in Version
      BY <1>1, <3>1 DEF Version
    <3>3. QED
      BY <1>1, <3>1, <3>2 DEF Version
  <2>2. CASE ~\E d \in Day : Revise(d)
    <3>1. source' = source
      BY <2>2 DEF Quiet, NextDay, RefreshBlocked, CapacityGuardFails
    <3>2. QED
      BY <1>1, <3>1
  <2>3. QED
    BY <2>1, <2>2
<1>5. /\ status' \in [result : Results, completed : SUBSET (Layer \X Day),
                      target : 0..LastDay]
      /\ status'.completed = status.completed
  <2>1. target \in 0..LastDay
    BY <1>1 DEF Day
  <2>2. \/ status' = status
        \/ \E r \in Results : status' = [result |-> r, completed |-> status.completed,
                                         target |-> target]
    BY DEF Quiet, NextDay, Revise, RefreshBlocked, CapacityGuardFails, StatusOf, Results
  <2>3. QED
    BY <1>1, <2>1, <2>2
<1>6. NextStep' = NextStep
  BY <1>2 DEF NextStep, Rank, LayerOrder
<1>7. Typed'
  BY <1>1, <1>2, <1>3, <1>4, <1>5, <1>6 DEF Typed, TypeOK, Works, Places, Outputs
<1>8. QED
  BY <1>2, <1>4, <1>5, <1>7

\* The steps that start, end or interrupt a refresh change no file.
LEMMA TurnsTyped ==
  ASSUME Typed, Turns
  PROVE  /\ Typed' /\ UNCHANGED <<source, files, parts, entries, job>>
         /\ status'.completed \in {status.completed, completed}
         /\ completed' \in {status.completed, {}}
<1>1. /\ target \in Day /\ plan \subseteq Layer \X Day /\ completed \subseteq Layer \X Day
      /\ status \in [result : Results, completed : SUBSET (Layer \X Day),
                     target : 0..LastDay]
      /\ status.completed \subseteq Layer \X Day
      /\ executed \in BOOLEAN /\ goal \in 0..LastDay
      /\ LastDay \in Nat /\ StartDay \in Day /\ "refresh" \in Workers
  BY MedallionAssumption DEF Typed, TypeOK, MedallionAssumption
<1>2. UNCHANGED <<target, source, files, parts, entries, job, failures, interrupts>>
  BY DEF Turns, StartRefresh, RefreshEnds, disk, bounds
<1>3. job["refresh"].at = "idle"
  BY DEF Turns, StartRefresh, RefreshEnds, Typed, TypeOK
<1>4. CASE StartRefresh
  <2>1. /\ phase' = "running" /\ goal' = target /\ plan' = PlannedSteps
        /\ completed' = status.completed /\ executed' = FALSE /\ status' = status
    BY <1>4 DEF StartRefresh
  <2>2. RefreshDays \subseteq Day
    BY <1>1 DEF RefreshDays, Day
  <2>3. PlannedSteps \subseteq Layer \X Day
    BY <2>2 DEF PlannedSteps
  <2>4. target \in 0..LastDay
    BY <1>1 DEF Day
  <2>5. Typed'
    BY <1>1, <1>2, <1>3, <2>1, <2>3, <2>4 DEF Typed, TypeOK, Works, Places, Outputs
  <2>6. QED
    BY <1>2, <2>1, <2>5
<1>5. CASE RefreshEnds
  <2>1. /\ phase' = "idle" /\ goal' = 0 /\ plan' = {} /\ completed' = {} /\ executed' = FALSE
        /\ \E r \in Results : status' = [result |-> r, completed |-> completed, target |-> goal]
    BY <1>5 DEF RefreshEnds, EndRun, StatusOf, Results
  <2>2. status' \in [result : Results, completed : SUBSET (Layer \X Day),
                     target : 0..LastDay] /\ status'.completed = completed
    BY <1>1, <2>1
  <2>3. 0 \in 0..LastDay
    BY <1>1
  <2>4. Typed'
    BY <1>1, <1>2, <1>3, <2>1, <2>2, <2>3 DEF Typed, TypeOK, Works, Places, Outputs
  <2>5. QED
    BY <1>2, <2>1, <2>2, <2>4
<1>6. QED
  BY <1>4, <1>5 DEF Turns

\* A job that ends leaves the files, and completes at most its own step.
LEMMA LeavesTyped ==
  ASSUME Typed, NEW w \in Workers, Leaves(w)
  PROVE  /\ Typed' /\ job' = [job EXCEPT ![w] = Idle]
         /\ UNCHANGED <<source, files, parts, entries>>
         /\ status'.completed \in {status.completed, completed'} \cup {completed}
         /\ completed' = completed \/ completed' = {}
              \/ (w = "refresh" /\ job[w].at = "done" /\ completed' =
                    completed \cup {<<job[w].layer, job[w].day>>})
<1>1. /\ plan \subseteq Layer \X Day /\ completed \subseteq Layer \X Day
      /\ status \in [result : Results, completed : SUBSET (Layer \X Day),
                     target : 0..LastDay]
      /\ executed \in BOOLEAN /\ goal \in 0..LastDay /\ job \in [Workers -> Job]
      /\ interrupts \in 0..MaxInterrupts /\ MaxInterrupts \in Nat
      /\ LastDay \in Nat /\ "refresh" \in Workers
  BY MedallionAssumption DEF Typed, TypeOK, MedallionAssumption
<1>2. /\ job' = [job EXCEPT ![w] = Idle]
      /\ UNCHANGED <<target, source, files, parts, entries, failures>>
  BY DEF Leaves, StepDone, StepFailed, RefreshKilled, CliEnds, disk, bounds
<1>3. /\ job' \in [Workers -> Job] /\ job'[w] = Idle /\ Idle.at = "idle"
      /\ \A u \in Workers : u # w => job'[u] = job[u]
  BY <1>1, <1>2, IdleIsJob
<1>4. /\ \A u \in Workers :
           job'[u].at \in {"build", "publish", "rename"} => job'[u].left # {}
      /\ \A u \in Workers : Works(u)' => job'[u].left \subseteq Places(u)'
  BY <1>3 DEF Typed, TypeOK, Works, Working, Places, Outputs
<1>5. CASE w = "cli"
  <2>1. CliEnds
    BY <1>5 DEF Leaves
  <2>2. UNCHANGED <<phase, goal, plan, completed, executed, status, interrupts>>
    BY <2>1 DEF CliEnds, run, bounds
  <2>3. NextStep' = NextStep
    BY <2>2 DEF NextStep, Rank, LayerOrder
  <2>4. job'["refresh"] = job["refresh"]
    BY <1>1, <1>3, <1>5
  <2>5. Typed'
    BY <1>1, <1>2, <1>3, <1>4, <2>2, <2>3, <2>4 DEF Typed, TypeOK
  <2>6. QED
    BY <1>2, <2>2, <2>5
<1>6. CASE w = "refresh"
  <2>1. StepDone \/ StepFailed \/ RefreshKilled
    BY <1>6 DEF Leaves
  <2>2. job'["refresh"].at = "idle" /\ interrupts' \in 0..MaxInterrupts
    BY <1>1, <1>3, <1>6, <2>1 DEF StepDone, StepFailed, RefreshKilled, bounds
  <2>3. CASE StepDone
    <3>1. plan # {} /\ NextStep = <<job["refresh"].layer, job["refresh"].day>>
      BY <2>3 DEF StepDone, Typed, TypeOK
    <3>2. NextStep \in plan
      BY <1>1, <3>1, NextStepBelongs
    <3>3. /\ plan' = plan \ {NextStep} /\ completed' = completed \cup {NextStep}
          /\ executed' = TRUE /\ phase' = phase /\ goal' = goal
          /\ job["refresh"].at = "done"
          /\ status' = [result |-> "RUNNING", completed |-> completed \cup {NextStep},
                        target |-> goal]
      BY <2>3 DEF StepDone, StatusOf
    <3>4. /\ plan' \subseteq Layer \X Day /\ completed' \subseteq Layer \X Day
          /\ status' \in [result : Results, completed : SUBSET (Layer \X Day),
                          target : 0..LastDay]
          /\ status'.completed = completed'
      BY <1>1, <3>2, <3>3 DEF Results
    <3>5. Typed'
      BY <1>1, <1>2, <1>3, <1>4, <2>2, <3>3, <3>4 DEF Typed, TypeOK
    <3>6. QED
      BY <1>2, <1>6, <3>1, <3>3, <3>4, <3>5
  <2>4. CASE StepFailed \/ RefreshKilled
    <3>1. /\ phase' = "idle" /\ goal' = 0 /\ plan' = {} /\ completed' = {} /\ executed' = FALSE
          /\ \/ status' = status
             \/ status' = [result |-> "FAILED_PARTIAL", completed |-> completed,
                           target |-> goal]
      BY <2>4 DEF StepFailed, RefreshKilled, EndRun, StatusOf, Recorded
    <3>2. /\ status' \in [result : Results, completed : SUBSET (Layer \X Day),
                          target : 0..LastDay]
          /\ status'.completed \in {status.completed, completed}
      BY <1>1, <3>1 DEF Results
    <3>3. 0 \in 0..LastDay
      BY <1>1
    <3>4. Typed'
      BY <1>1, <1>2, <1>3, <1>4, <2>2, <3>1, <3>2, <3>3 DEF Typed, TypeOK
    <3>5. QED
      BY <1>2, <3>1, <3>2, <3>4
  <2>5. QED
    BY <2>1, <2>3, <2>4
<1>7. QED
  BY <1>5, <1>6 DEF Leaves

\* The refresh begins its next step, the operator any of a day that has passed.
Begins(w, layer, d) ==
  \/ w = "refresh" /\ RunStep /\ NextStep = <<layer, d>>
  \/ w = "cli" /\ CliStarts(layer, d)

\* A job that begins leaves everything else.
LEMMA BeginsTyped ==
  ASSUME Typed, NEW w \in Workers, NEW layer \in Layer, NEW d \in Day, Begins(w, layer, d)
  PROVE  /\ Begin(w, layer, d) /\ Typed'
         /\ UNCHANGED <<target, source, disk, run, status, bounds>>
<1>1. Begin(w, layer, d) /\ UNCHANGED <<target, source, disk, run, status, bounds>>
  <2>1. CASE w = "refresh" /\ RunStep /\ NextStep = <<layer, d>>
    <3>1. NextStep[1] = layer /\ NextStep[2] = d
      BY <2>1
    <3>2. QED
      BY <2>1, <3>1 DEF RunStep
  <2>2. CASE w = "cli" /\ CliStarts(layer, d)
    BY <2>2 DEF CliStarts
  <2>3. QED
    BY <2>1, <2>2 DEF Begins
<1>2. w = "refresh" => phase = "running" /\ plan # {} /\ NextStep = <<layer, d>>
  BY DEF Begins, RunStep
<1>3. QED
  BY <1>1, <1>2, BeginTyped

\* Every step is one of these.
LEMMA Steps ==
  ASSUME Typed, Next
  PROVE  \/ Quiet \/ Turns
         \/ \E w \in Workers :
              \/ Leaves(w) \/ \E layer \in Layer, d \in Day : Begins(w, layer, d)
              \/ Build(w) \/ Publish(w) \/ Rename(w) \/ DownloadFails(w) \/ WriteFails(w)
<1>1. "refresh" \in Workers
  BY MedallionAssumption DEF MedallionAssumption
<1>2. CASE NextDay \/ (\E d \in Day : Revise(d)) \/ CapacityGuardFails
  BY <1>2 DEF Quiet
<1>3. CASE RefreshStep
  <2>1. ASSUME RunStep
        PROVE  \E layer \in Layer, d \in Day : Begins("refresh", layer, d)
    <3>1. plan \subseteq Layer \X Day /\ plan # {}
      BY <2>1 DEF RunStep, Typed, TypeOK
    <3>2. NextStep \in Layer \X Day
      BY <3>1, NextStepBelongs
    <3>3. PICK layer \in Layer, d \in Day : NextStep = <<layer, d>>
      BY <3>2
    <3>4. QED
      BY <2>1, <3>3 DEF Begins
  <2>2. QED
    BY <1>1, <1>3, <2>1 DEF RefreshStep, Quiet, Turns, Leaves, Operation
<1>4. CASE RefreshKilled
  BY <1>1, <1>4 DEF Leaves
<1>5. CASE Cli
  <2>1. CASE \E layer \in Layer, d \in Day : CliStarts(layer, d)
    <3>1. PICK layer \in Layer, d \in Day : CliStarts(layer, d)
      BY <2>1
    <3>2. "cli" \in Workers /\ Begins("cli", layer, d)
      BY <3>1 DEF CliStarts, Begins
    <3>3. QED
      BY <3>2
  <2>2. CASE CliEnds
    <3>1. "cli" \in Workers /\ Leaves("cli")
      BY <2>2 DEF CliEnds, Leaves
    <3>2. QED
      BY <3>1
  <2>3. CASE "cli" \in Workers /\ Operation("cli")
    BY <2>3 DEF Operation
  <2>4. QED
    BY <1>5, <2>1, <2>2, <2>3 DEF Cli
<1>6. CASE \E w \in Workers : DownloadFails(w) \/ WriteFails(w)
  BY <1>6
<1>7. QED
  BY <1>2, <1>3, <1>4, <1>5, <1>6 DEF Next

-----------------------------------------------------------------------------
(* Types, for any calendar and any behaviour of the operator.              *)

\* The root starts empty, apart from the frozen days.
LEMMA TypedInit ==
  ASSUME Init
  PROVE  Typed /\ FrozenApart
<1>1. /\ LastDay \in Nat /\ MaxRevisions \in Nat /\ MaxFailures \in Nat
      /\ MaxInterrupts \in Nat /\ StartDay \in Day
  BY MedallionAssumption DEF MedallionAssumption
<1>2. Idle \in Job /\ Idle.at = "idle" /\ Idle.copy = NoCopy
  BY IdleIsJob DEF Idle
<1>3. 0 \in Version /\ 1 \in Version /\ 0 \in 0..LastDay
  BY <1>1 DEF Version
<1>4. NoCopy \in [Name -> Version] /\ \A n \in Name : NoCopy[n] = 0
  BY <1>3 DEF NoCopy
<1>5. \A w \in Workers : job[w] = Idle
  BY DEF Init
<1>6. "refresh" \in Workers
  BY MedallionAssumption DEF MedallionAssumption
<1>7. Typed
  <2>1. /\ target \in Day /\ source \in [Day -> Version]
        /\ files \in [Name -> Version] /\ parts \in [Name -> Version]
        /\ entries \in [Name -> Version] /\ job \in [Workers -> Job]
    BY <1>1, <1>2, <1>3, <1>4 DEF Init
  <2>2. /\ phase = "idle" /\ goal \in 0..LastDay /\ executed \in BOOLEAN
        /\ plan = {} /\ completed = {}
        /\ failures \in 0..MaxFailures /\ interrupts \in 0..MaxInterrupts
    <3>1. /\ phase = "idle" /\ goal = 0 /\ executed = FALSE /\ plan = {} /\ completed = {}
          /\ failures = 0 /\ interrupts = 0
      BY DEF Init
    <3>2. 0 \in 0..MaxFailures /\ 0 \in 0..MaxInterrupts
      BY <1>1
    <3>3. QED
      BY <1>3, <3>1, <3>2
  <2>3. status \in [result : Results, completed : SUBSET (Layer \X Day),
                    target : 0..LastDay]
    BY <1>3 DEF Init, Results
  <2>4. job["refresh"].at = "idle" /\ \A w \in Workers : job[w].at = "idle"
    BY <1>2, <1>5, <1>6
  <2>5. QED
    BY <2>1, <2>2, <2>3, <2>4 DEF Typed, TypeOK, Works, Working
<1>8. FrozenApart
  <2>1. files = NoCopy /\ parts = NoCopy /\ entries = NoCopy
    BY DEF Init
  <2>2. \A w \in Workers : job[w].at = "idle" /\ job[w].copy = NoCopy
    BY <1>2, <1>5
  <2>3. QED
    BY <1>4, <2>1, <2>2 DEF FrozenApart, FrozenSplitsUntouched, Works, Working
<1>9. QED
  BY <1>7, <1>8

\* The types are inductive.
LEMMA TypedNext ==
  ASSUME Typed, [Next]_vars
  PROVE  Typed'
<1>1. CASE Next
  BY <1>1, Steps, QuietTyped, TurnsTyped, LeavesTyped, BeginsTyped, BuildTyped,
     PublishTyped, RenameTyped, FailureTyped
<1>2. CASE UNCHANGED vars
  <2>1. UNCHANGED <<target, source, files, parts, entries, job, phase, goal, plan,
                    completed, executed, status, failures, interrupts>>
    BY <1>2 DEF vars, disk, run, bounds
  <2>2. NextStep' = NextStep
    BY <2>1 DEF NextStep, Rank, LayerOrder
  <2>3. QED
    BY <2>1, <2>2 DEF Typed, TypeOK, Works, Places, Outputs
<1>3. QED
  BY SMTT(40), <1>1, <1>2

-----------------------------------------------------------------------------
(* The frozen splits.                                                      *)

\* An operation that works keeps away from the frozen days if what it writes is
\* at its output, and what it knows of the manifests is of other days.
LEMMA FrozenByOperation ==
  ASSUME Typed, FrozenApart, NEW w \in Workers, Works(w),
         \A u \in Workers : u # w => job'[u] = job[u],
         job'[w].day = job[w].day,
         \A n \in Name : n # Output(w) => files'[n] = files[n] /\ parts'[n] = parts[n],
         \A n \in Name : Class[n[2]] \in Frozen => entries'[n] = 0 /\ job'[w].copy[n] = 0
  PROVE  FrozenApart'
<1>1. Output(w) \in Name /\ Output(w)[2] = job[w].day /\ Class[job[w].day] \notin Frozen
  BY Writing DEF FrozenApart
<1>2. \A n \in Name : Class[n[2]] \in Frozen => n # Output(w)
  BY <1>1
<1>3. FrozenSplitsUntouched'
  BY <1>2 DEF FrozenApart, FrozenSplitsUntouched
<1>4. ASSUME NEW u \in Workers
      PROVE  /\ Works(u)' => Class[job'[u].day] \notin Frozen
             /\ \A n \in Name : Class[n[2]] \in Frozen => job'[u].copy[n] = 0
  BY <1>1 DEF FrozenApart, Works
<1>5. QED
  BY <1>3, <1>4 DEF FrozenApart

\* No step writes a file of a frozen day.
LEMMA FrozenNext ==
  ASSUME Typed, FrozenApart, [Next]_vars
  PROVE  FrozenApart'
<1>1. job \in [Workers -> Job]
  BY DEF Typed, TypeOK
<1>2. ASSUME NEW w \in Workers, Works(w)
      PROVE  job[w] \in Job /\ Output(w) \in Name /\ Class[Output(w)[2]] \notin Frozen
  BY <1>2, Writing DEF FrozenApart
<1>3. ASSUME UNCHANGED <<files, parts, entries, job>>
      PROVE  FrozenApart'
  BY <1>3 DEF FrozenApart, FrozenSplitsUntouched, Works
<1>4. CASE Quiet \/ Turns
  BY <1>3, <1>4, QuietTyped, TurnsTyped
<1>5. ASSUME NEW w \in Workers, Leaves(w)
      PROVE  FrozenApart'
  <2>1. job'[w] = Idle /\ (\A u \in Workers : u # w => job'[u] = job[u])
        /\ UNCHANGED <<files, parts, entries>>
    BY <1>1, <1>5, LeavesTyped
  <2>2. Idle.at = "idle" /\ \A n \in Name : Idle.copy[n] = 0
    BY DEF Idle, NoCopy
  <2>3. QED
    BY <2>1, <2>2 DEF FrozenApart, FrozenSplitsUntouched, Works, Working
<1>6. ASSUME NEW w \in Workers, NEW layer \in Layer, NEW d \in Day, Begins(w, layer, d)
      PROVE  FrozenApart'
  <2>1. Begin(w, layer, d) /\ UNCHANGED <<files, parts, entries>>
    BY <1>6, BeginsTyped DEF disk
  <2>2. /\ \A u \in Workers : u # w => job'[u] = job[u]
        /\ job'[w].day = d /\ job'[w].copy = entries
        /\ job'[w].at \in {"failed", "done", "build"}
        /\ job'[w].at = "build" => Allowed(w, d)
    BY <2>1, Beginning
  <2>3. Allowed(w, d) => Class[d] \notin Frozen
    BY DEF Allowed, Frozen
  <2>4. QED
    BY <2>1, <2>2, <2>3 DEF FrozenApart, FrozenSplitsUntouched, Works, Working
<1>7. ASSUME NEW w \in Workers, Build(w)
      PROVE  FrozenApart'
  <2>1. /\ Works(w) /\ UNCHANGED <<files, entries>>
        /\ \E v \in Version :
             /\ job' = [job EXCEPT ![w] = [job[w] EXCEPT !.at = "publish", !.content = v]]
             /\ parts' = [parts EXCEPT ![Output(w)] = v]
    BY <1>7, BuildTyped DEF Build
  <2>2. job[w] \in Job /\ parts \in [Name -> Version]
    BY <1>1 DEF Typed, TypeOK
  <2>3. /\ \A u \in Workers : u # w => job'[u] = job[u]
        /\ job'[w].day = job[w].day /\ job'[w].copy = job[w].copy
        /\ \A n \in Name : n # Output(w) => parts'[n] = parts[n]
    BY <1>1, <2>1, <2>2 DEF Job
  <2>4. QED
    BY <2>1, <2>3, FrozenByOperation DEF FrozenApart, FrozenSplitsUntouched
<1>8. ASSUME NEW w \in Workers, Publish(w)
      PROVE  FrozenApart'
  <2>1. /\ Works(w) /\ UNCHANGED <<files, parts>>
        /\ Manifest(w) = [job[w].copy EXCEPT ![Output(w)] = job[w].content]
        /\ job' = [job EXCEPT ![w] = [job[w] EXCEPT !.at = "rename", !.copy = Manifest(w)]]
        /\ entries' = [n \in Name |->
               IF LayerOf(n) = job[w].layer THEN Manifest(w)[n] ELSE entries[n]]
    BY <1>8, PublishTyped DEF Publish
  <2>2. job[w] \in Job /\ Class[Output(w)[2]] \notin Frozen
    BY <1>2, <2>1
  <2>3. /\ \A u \in Workers : u # w => job'[u] = job[u]
        /\ job'[w].day = job[w].day /\ job'[w].copy = Manifest(w)
    BY <1>1, <2>1, <2>2 DEF Job
  <2>4. \A n \in Name : Class[n[2]] \in Frozen => Manifest(w)[n] = 0 /\ entries[n] = 0
    BY <2>1, <2>2 DEF FrozenApart, FrozenSplitsUntouched, Job
  <2>5. \A n \in Name : Class[n[2]] \in Frozen => entries'[n] = 0 /\ job'[w].copy[n] = 0
    BY <2>1, <2>3, <2>4
  <2>6. QED
    BY <2>1, <2>3, <2>5, FrozenByOperation
<1>9. ASSUME NEW w \in Workers, Rename(w) \/ DownloadFails(w) \/ WriteFails(w)
      PROVE  FrozenApart'
  <2>1. Works(w) /\ entries' = entries
    BY <1>9, RenameTyped DEF Rename, DownloadFails, WriteFails, disk, Works, Working
  <2>2. /\ job[w] \in Job /\ files \in [Name -> Version] /\ parts \in [Name -> Version]
        /\ Output(w) \in Name
    BY <1>2, <2>1 DEF Typed, TypeOK
  <2>3. /\ \A u \in Workers : u # w => job'[u] = job[u]
        /\ job'[w].day = job[w].day /\ job'[w].copy = job[w].copy
    <3>1. \/ job' = [job EXCEPT ![w] = [job[w] EXCEPT !.at = "failed"]]
          \/ job' = [job EXCEPT ![w] = [job[w] EXCEPT !.left = Rest(w),
                            !.at = IF Rest(w) = {} THEN "done" ELSE "build"]]
      BY <1>9, RenameTyped, FailureTyped
    <3>2. PICK j : job' = [job EXCEPT ![w] = j] /\ j.day = job[w].day /\ j.copy = job[w].copy
      BY <2>2, <3>1 DEF Job
    <3>3. QED
      BY <1>1, <3>2
  <2>4. \A n \in Name : n # Output(w) => files'[n] = files[n] /\ parts'[n] = parts[n]
    <3>1. /\ files' = files \/ files' = [files EXCEPT ![Output(w)] = parts[Output(w)]]
          /\ parts' = parts \/ parts' = [parts EXCEPT ![Output(w)] = 0]
      BY <1>9, RenameTyped, FailureTyped
    <3>2. QED
      BY <2>2, <3>1
  <2>5. QED
    BY <2>1, <2>3, <2>4, FrozenByOperation, SMTT(40) DEF FrozenApart, FrozenSplitsUntouched
<1>10. CASE UNCHANGED vars
  BY <1>3, <1>10 DEF vars, disk
<1>11. QED
  BY <1>4, <1>5, <1>6, <1>7, <1>8, <1>9, <1>10, Steps

\* Whatever the operator does and however the refresh is interrupted, no file, no
\* .part and no manifest entry of a walk-forward or holdout day is ever made.
THEOREM FrozenUntouched == Spec => []FrozenSplitsUntouched
<1>1. Init => Typed /\ FrozenApart
  BY TypedInit
<1>2. Typed /\ FrozenApart /\ [Next]_vars => (Typed /\ FrozenApart)'
  BY TypedNext, FrozenNext
<1>3. FrozenApart => FrozenSplitsUntouched
  BY DEF FrozenApart
<1>4. QED
  BY <1>1, <1>2, <1>3, PTL DEF Spec

-----------------------------------------------------------------------------
(* Files, manifests, lineage and status, with an operator who waits.       *)

\* What an operation knows and carries, said of the next state.
LEMMA ProceedsAnew ==
  ASSUME NEW w, NEW layer, NEW d, job'[w].layer = layer, job'[w].day = d,
         job'[w].at \in Working =>
           /\ \A n \in Name : job'[w].copy[n] = entries'[n]
           /\ \A i \in DOMAIN Outputs(layer, d) :
                files'[Outputs(layer, d)[i]] = 0 <=> i \in job'[w].left
           /\ layer # "bronze" =>
                job'[w].content = files'[Input(layer, d)] /\ job'[w].content # 0,
         job'[w].at \in {"publish", "rename"} =>
           /\ job'[w].content # 0
           /\ parts'[Outputs(layer, d)[Min(job'[w].left)]] = job'[w].content,
         job'[w].at = "rename" =>
           entries'[Outputs(layer, d)[Min(job'[w].left)]] = job'[w].content,
         job'[w].at = "done" =>
           \A i \in DOMAIN Outputs(layer, d) : files'[Outputs(layer, d)[i]] # 0
  PROVE  Proceeds(w)'
<1>1. Output(w)' = Outputs(layer, d)[Min(job'[w].left)]
  BY DEF Output, Outputs, Min
<1>2. Places(w)' = DOMAIN Outputs(layer, d)
  BY DEF Places, Outputs
<1>3. Works(w)' => Knows(w)'
  <2>1. /\ (Outputs(job[w].layer, job[w].day))' = Outputs(layer, d)
        /\ (Input(job[w].layer, job[w].day))' = Input(layer, d)
    BY DEF Outputs, Input
  <2>2. QED
    BY <1>2, <2>1 DEF Works, Knows
<1>4. Carries(w)'
  BY <1>1 DEF Carries
<1>5. job'[w].at = "done" => Complete(job[w].layer, job[w].day)'
  BY DEF Complete, Outputs
<1>6. QED
  BY <1>3, <1>4, <1>5 DEF Proceeds

\* An idle worker and one that is left alone proceed.
LEMMA ProceedsKept ==
  ASSUME NEW w
  PROVE  /\ job'[w].at \in {"idle", "failed"} => Proceeds(w)'
         /\ Proceeds(w) /\ job'[w] = job[w] /\ files' = files /\ parts' = parts
              /\ entries' = entries => Proceeds(w)'
<1>1. ASSUME job'[w].at \in {"idle", "failed"} PROVE Proceeds(w)'
  BY <1>1 DEF Proceeds, Works, Working, Carries
<1>2. ASSUME Proceeds(w), job'[w] = job[w], files' = files, parts' = parts, entries' = entries
      PROVE  Proceeds(w)'
  <2>1. Output(w)' = Output(w) /\ Places(w)' = Places(w)
    BY <1>2 DEF Output, Places, Outputs, Min
  <2>2. /\ (Outputs(job[w].layer, job[w].day))' = Outputs(job[w].layer, job[w].day)
        /\ (Input(job[w].layer, job[w].day))' = Input(job[w].layer, job[w].day)
    BY <1>2 DEF Outputs, Input
  <2>3. Works(w)' => Knows(w)'
    BY <1>2, <2>1, <2>2 DEF Proceeds, Works, Knows
  <2>4. Works(w)' => Carries(w)'
    BY <1>2, <2>1 DEF Proceeds, Works, Carries
  <2>5. job'[w].at = "done" => Complete(job[w].layer, job[w].day)'
    BY <1>2, <2>2 DEF Proceeds, Complete
  <2>6. QED
    BY <2>3, <2>4, <2>5 DEF Proceeds
<1>3. QED
  BY <1>1, <1>2

\* What is complete remains so as long as no file goes.
LEMMA CompleteKept ==
  ASSUME NEW layer \in Layer, NEW d \in Day, Complete(layer, d),
         \A n \in Name : files[n] # 0 => files'[n] # 0
  PROVE  Complete(layer, d)'
<1>1. \A i \in DOMAIN Outputs(layer, d) : Outputs(layer, d)[i] \in Name
  BY Outputting
<1>2. \A i \in DOMAIN Outputs(layer, d) : files'[Outputs(layer, d)[i]] # 0
  BY <1>1 DEF Complete
<1>3. QED
  BY <1>2 DEF Complete, Outputs

\* The parts of the invariant that speak of files, entries and completed steps.
LEMMA RecordsKept ==
  ASSUME LayersInv, Typed', files' = files, entries' = entries,
         \A d \in Day : source'[d] > 0,
         \A s \in status'.completed \cup completed' :
           s \in status.completed \cup completed \/ Complete(s[1], s[2])
  PROVE  /\ (\A d \in Day : source[d] > 0)'
         /\ FilesMatchManifest' /\ LineageHolds' /\ CompletedMeansDone'
         /\ (\A s \in completed : Complete(s[1], s[2]))'
<1>1. FilesMatchManifest' /\ LineageHolds'
  BY DEF LayersInv, FilesMatchManifest, LineageHolds, Sound
<1>2. ASSUME NEW s \in status'.completed \cup completed'
      PROVE  Complete(s[1], s[2])'
  <2>1. s[1] \in Layer /\ s[2] \in Day
    BY DEF Typed, TypeOK
  <2>2. Complete(s[1], s[2])
    BY DEF LayersInv, CompletedMeansDone
  <2>3. QED
    BY <2>1, <2>2, CompleteKept
<1>3. \A s \in status'.completed \cup completed' : Complete(s[1], s[2])'
  BY <1>2
<1>4. CompletedMeansDone'
  BY <1>3 DEF CompletedMeansDone, Complete, Outputs
<1>5. (\A s \in completed : Complete(s[1], s[2]))'
  BY <1>3 DEF Complete, Outputs
<1>6. QED
  BY <1>1, <1>4, <1>5

\* Only one worker is ever inside an operation.
LEMMA OneWorks ==
  ASSUME LayersInv, NEW w \in Workers, job[w].at # "idle",
         NEW u \in Workers, u # w
  PROVE  job[u].at = "idle"
<1>1. Workers \in {{"refresh"}, {"refresh", "cli"}}
  BY MedallionAssumption DEF MedallionAssumption
<1>2. phase \in {"idle", "running"} /\ (phase = "idle" => job["refresh"].at = "idle")
  BY DEF LayersInv, Typed, TypeOK
<1>3. CASE w = "refresh"
  BY <1>2, <1>3 DEF LayersInv, Alone
<1>4. CASE w # "refresh"
  BY <1>1, <1>2, <1>4 DEF LayersInv, Alone
<1>5. QED
  BY <1>3, <1>4

\* The root's layers agree at the start.
LEMMA LayersInit ==
  ASSUME Init
  PROVE  LayersInv
<1>1. Typed
  BY TypedInit
<1>2. \A w \in Workers : job[w].at = "idle"
  BY IdleIsJob DEF Init
<1>3. \A n \in Name : files[n] = 0
  BY DEF Init, NoCopy
<1>4. (\A d \in Day : source[d] > 0) /\ status.completed = {} /\ completed = {}
  BY DEF Init
<1>5. QED
  BY <1>1, <1>2, <1>3, <1>4 DEF LayersInv, Alone, FilesMatchManifest, LineageHolds,
    CompletedMeansDone, Proceeds, Works, Working, Carries

\* Steps that touch no file.
LEMMA LayersOutside ==
  ASSUME OneAtATime, LayersInv, Quiet \/ Turns \/ UNCHANGED vars
  PROVE  LayersInv'
<1>1. Typed
  BY DEF LayersInv
<1>2. UNCHANGED <<files, parts, entries, job>> /\ Typed'
  <2>1. CASE Quiet
    BY <1>1, <2>1, QuietTyped
  <2>2. CASE Turns
    BY <1>1, <2>2, TurnsTyped
  <2>3. CASE UNCHANGED vars
    BY <1>1, <2>3, TypedNext DEF vars, disk
  <2>4. QED
    BY <2>1, <2>2, <2>3
<1>3. /\ \A d \in Day : source'[d] > 0
      /\ status'.completed \cup completed' \subseteq status.completed \cup completed
  <2>1. CASE Quiet
    BY <1>1, <2>1, QuietTyped DEF LayersInv
  <2>2. CASE Turns
    BY <1>1, <2>2, TurnsTyped DEF LayersInv
  <2>3. CASE UNCHANGED vars
    BY <2>3 DEF vars, run, LayersInv
  <2>4. QED
    BY <2>1, <2>2, <2>3
<1>4. Alone'
  <2>1. CASE StartRefresh
    BY <1>2, <2>1 DEF StartRefresh, Alone
  <2>2. CASE ~StartRefresh
    <3>1. phase' \in {phase, "idle"}
      BY <1>1, <2>2, QuietTyped DEF Turns, RefreshEnds, EndRun, vars, run
    <3>2. QED
      BY <1>2, <3>1 DEF LayersInv, Alone
  <2>3. QED
    BY <2>1, <2>2
<1>5. \A w \in Workers : Proceeds(w)'
  BY <1>2, ProceedsKept DEF LayersInv
<1>6. QED
  BY <1>2, <1>3, <1>4, <1>5, RecordsKept DEF LayersInv

\* A job that ends.
LEMMA LayersLeave ==
  ASSUME LayersInv, NEW w \in Workers, Leaves(w)
  PROVE  LayersInv'
<1>1. Typed /\ job \in [Workers -> Job]
  BY DEF LayersInv, Typed, TypeOK
<1>2. /\ Typed' /\ job'[w].at = "idle" /\ (\A u \in Workers : u # w => job'[u] = job[u])
      /\ UNCHANGED <<source, files, parts, entries>>
  BY <1>1, LeavesTyped, IdleIsJob
<1>3. /\ status'.completed \in {status.completed, completed'} \cup {completed}
      /\ \/ completed' = completed \/ completed' = {}
         \/ job[w].at = "done" /\ completed' = completed \cup {<<job[w].layer, job[w].day>>}
  BY <1>1, LeavesTyped
<1>4. job[w].at = "done" => Complete(job[w].layer, job[w].day)
  BY DEF LayersInv, Proceeds
<1>5. \A s \in status'.completed \cup completed' :
        s \in status.completed \cup completed \/ Complete(s[1], s[2])
  BY <1>3, <1>4
<1>6. Alone'
  <2>1. phase' \in {phase, "idle"}
    BY DEF Leaves, StepDone, StepFailed, RefreshKilled, CliEnds, EndRun, run
  <2>2. QED
    BY <1>2, <2>1 DEF LayersInv, Alone
<1>7. ASSUME NEW u \in Workers PROVE Proceeds(u)'
  BY <1>2, ProceedsKept DEF LayersInv
<1>8. QED
  BY <1>2, <1>5, <1>6, <1>7, RecordsKept DEF LayersInv

\* A job that begins: no other one of the same worker is running.
LEMMA LayersBegin ==
  ASSUME OneAtATime, LayersInv, NEW w \in Workers, NEW layer \in Layer, NEW d \in Day,
         Begins(w, layer, d)
  PROVE  LayersInv'
<1>1. Typed
  BY DEF LayersInv
<1>2. /\ Typed' /\ Begin(w, layer, d)
      /\ UNCHANGED <<source, files, parts, entries, phase, completed, status>>
  BY <1>1, BeginsTyped DEF disk, run
<1>3. /\ \A u \in Workers : u # w => job'[u] = job[u]
      /\ job'[w].layer = layer /\ job'[w].day = d
      /\ job'[w].left = Pending(layer, d) /\ job'[w].copy = entries
      /\ layer # "bronze" => job'[w].content = files[Input(layer, d)]
      /\ job'[w].at \in {"failed", "done", "build"}
      /\ job'[w].at = "build" => InputSound(layer, d)
      /\ job'[w].at = "done" => Pending(layer, d) = {}
  BY <1>1, <1>2, Beginning
<1>4. Alone'
  <2>1. w # "refresh" => phase = "idle"
    BY DEF Begins, CliStarts
  <2>2. QED
    BY <1>2, <1>3, <2>1 DEF LayersInv, Alone
<1>5. Proceeds(w)'
  <2>1. \A i \in DOMAIN Outputs(layer, d) :
          files[Outputs(layer, d)[i]] = 0 <=> i \in Pending(layer, d)
    BY DEF Pending
  <2>2. job'[w].at = "build" => (layer # "bronze" => files[Input(layer, d)] # 0)
    BY <1>3 DEF InputSound, Sound
  <2>3. job'[w].at \notin {"publish", "rename"} /\ (job'[w].at \in Working => job'[w].at = "build")
    BY <1>3 DEF Working
  <2>4. job'[w].at = "done" => \A i \in DOMAIN Outputs(layer, d) : files'[Outputs(layer, d)[i]] # 0
    BY <1>2, <1>3, <2>1
  <2>5. job'[w].at \in Working =>
          /\ \A n \in Name : job'[w].copy[n] = entries'[n]
          /\ \A i \in DOMAIN Outputs(layer, d) :
               files'[Outputs(layer, d)[i]] = 0 <=> i \in job'[w].left
          /\ layer # "bronze" =>
               job'[w].content = files'[Input(layer, d)] /\ job'[w].content # 0
    BY <1>2, <1>3, <2>1, <2>2, <2>3
  <2>6. QED
    BY <1>3, <2>3, <2>4, <2>5, ProceedsAnew
<1>6. ASSUME NEW u \in Workers PROVE Proceeds(u)'
  BY <1>2, <1>3, <1>5, ProceedsKept DEF LayersInv
<1>7. QED
  BY <1>2, <1>4, <1>6, RecordsKept DEF LayersInv

\* What is known of a working operation, in one place.
LEMMA AtWork ==
  ASSUME LayersInv, NEW w \in Workers, Works(w)
  PROVE  /\ Typed /\ Knows(w) /\ Carries(w)
         /\ job[w] \in Job /\ job \in [Workers -> Job] /\ files \in [Name -> Version]
         /\ parts \in [Name -> Version] /\ entries \in [Name -> Version]
         /\ Output(w) \in Name /\ Output(w)[2] = job[w].day
         /\ Min(job[w].left) \in job[w].left /\ job[w].left \subseteq Places(w)
         /\ files[Output(w)] = 0
         /\ \A u \in Workers : u # w => job[u].at = "idle"
<1>1. Typed /\ Knows(w) /\ Carries(w)
  BY DEF LayersInv, Proceeds
<1>2. /\ job[w] \in Job /\ Output(w) \in Name /\ Output(w)[2] = job[w].day
      /\ Min(job[w].left) \in job[w].left /\ job[w].left \subseteq Places(w)
  BY <1>1, Writing
<1>3. files[Output(w)] = 0
  BY <1>1, <1>2 DEF Knows, Output
<1>4. \A u \in Workers : u # w => job[u].at = "idle"
  BY OneWorks DEF Works, Working
<1>5. QED
  BY <1>1, <1>2, <1>3, <1>4 DEF Typed, TypeOK

\* A step of the one operation that works keeps the invariant if its worker
\* proceeds and the files remain sound and of one origin.
LEMMA OthersIdle ==
  ASSUME LayersInv, NEW w \in Workers, Works(w), Typed', Proceeds(w)',
         \A u \in Workers : u # w => job'[u] = job[u],
         UNCHANGED <<source, phase, completed, status>>,
         \A n \in Name : files[n] # 0 => files'[n] # 0,
         FilesMatchManifest', LineageHolds'
  PROVE  LayersInv'
<1>1. \A u \in Workers : u # w => job'[u].at = "idle"
  BY AtWork
<1>2. ASSUME NEW u \in Workers PROVE Proceeds(u)'
  BY <1>1, ProceedsKept
<1>3. Alone'
  <2>1. CASE w = "refresh"
    BY <1>1, <2>1 DEF Alone
  <2>2. CASE w # "refresh"
    BY <2>2 DEF LayersInv, Alone, Works, Working
  <2>3. QED
    BY <2>1, <2>2
<1>4. ASSUME NEW s \in status'.completed \cup completed'
      PROVE  Complete(s[1], s[2])'
  <2>1. s[1] \in Layer /\ s[2] \in Day
    BY DEF Typed, TypeOK
  <2>2. Complete(s[1], s[2])
    BY DEF LayersInv, CompletedMeansDone
  <2>3. QED
    BY <2>1, <2>2, CompleteKept
<1>5. CompletedMeansDone' /\ (\A s \in completed : Complete(s[1], s[2]))'
  BY <1>4 DEF CompletedMeansDone, Complete, Outputs
<1>6. (\A d \in Day : source[d] > 0)'
  BY DEF LayersInv
<1>7. QED
  BY <1>2, <1>3, <1>5, <1>6 DEF LayersInv

\* A part that is built is of the inputs the job read.
LEMMA LayersBuild ==
  ASSUME LayersInv, NEW w \in Workers, Build(w)
  PROVE  LayersInv'
<1>1. /\ Works(w) /\ Typed'
      /\ \E v \in Version :
           /\ v = (IF job[w].layer = "bronze" THEN source[job[w].day] ELSE job[w].content)
           /\ job' = [job EXCEPT ![w] = [job[w] EXCEPT !.at = "publish", !.content = v]]
           /\ parts' = [parts EXCEPT ![Output(w)] = v]
  BY BuildTyped DEF LayersInv
<1>2. /\ Knows(w) /\ job[w] \in Job /\ job \in [Workers -> Job]
      /\ parts \in [Name -> Version] /\ Output(w) \in Name
  BY <1>1, AtWork
<1>3. UNCHANGED <<source, files, entries, phase, completed, status>>
  BY DEF Build, run
<1>4. PICK v \in Version :
        /\ v = (IF job[w].layer = "bronze" THEN source[job[w].day] ELSE job[w].content)
        /\ job' = [job EXCEPT ![w] = [job[w] EXCEPT !.at = "publish", !.content = v]]
        /\ parts' = [parts EXCEPT ![Output(w)] = v]
  BY <1>1
<1>5. v # 0
  <2>1. source[job[w].day] > 0
    BY <1>2 DEF LayersInv, Job
  <2>2. source[job[w].day] # 0
    BY <2>1
  <2>3. QED
    BY <1>2, <1>4, <2>2 DEF Knows
<1>6. PICK layer, d, left : layer = job[w].layer /\ d = job[w].day /\ left = job[w].left
  OBVIOUS
<1>7. /\ job'[w].layer = layer /\ job'[w].day = d /\ job'[w].at = "publish"
      /\ job'[w].left = left /\ job'[w].copy = job[w].copy /\ job'[w].content = v
      /\ \A u \in Workers : u # w => job'[u] = job[u]
  BY <1>2, <1>4, <1>6 DEF Job
<1>8. Outputs(layer, d)[Min(left)] = Output(w)
  BY <1>6 DEF Output
<1>9. Proceeds(w)'
  <2>1. parts'[Outputs(layer, d)[Min(left)]] = v
    BY <1>2, <1>4, <1>8
  <2>2. /\ \A n \in Name : job'[w].copy[n] = entries'[n]
        /\ \A i \in DOMAIN Outputs(layer, d) :
             files'[Outputs(layer, d)[i]] = 0 <=> i \in left
        /\ layer # "bronze" => v = files'[Input(layer, d)]
    BY <1>2, <1>3, <1>4, <1>6, <1>7 DEF Knows, Places
  <2>3. QED
    BY <1>5, <1>7, <2>1, <2>2, ProceedsAnew
<1>10. FilesMatchManifest' /\ LineageHolds'
  BY <1>3 DEF LayersInv, FilesMatchManifest, LineageHolds, Sound
<1>11. QED
  BY <1>1, <1>3, <1>7, <1>9, <1>10, OthersIdle

\* A file that is renamed into place comes with its manifest entry.
LEMMA LayersPublish ==
  ASSUME LayersInv, NEW w \in Workers, Publish(w)
  PROVE  LayersInv'
<1>1. /\ Works(w) /\ Typed'
      /\ Manifest(w) = [job[w].copy EXCEPT ![Output(w)] = job[w].content]
      /\ job' = [job EXCEPT ![w] = [job[w] EXCEPT !.at = "rename", !.copy = Manifest(w)]]
      /\ entries' = [n \in Name |->
             IF LayerOf(n) = job[w].layer THEN Manifest(w)[n] ELSE entries[n]]
  BY PublishTyped DEF LayersInv
<1>2. /\ Typed /\ Knows(w) /\ Carries(w) /\ job[w] \in Job /\ job \in [Workers -> Job]
      /\ Output(w) \in Name /\ entries \in [Name -> Version] /\ files[Output(w)] = 0
  BY <1>1, AtWork
<1>3. UNCHANGED <<source, files, parts, phase, completed, status>>
  BY DEF Publish, run
<1>4. LayerOf(Output(w)) = job[w].layer
  BY <1>1, <1>2, Writing
<1>5. PICK layer, d, left, content :
        layer = job[w].layer /\ d = job[w].day /\ left = job[w].left /\ content = job[w].content
  OBVIOUS
<1>6. PICK f : f = Manifest(w)
  OBVIOUS
<1>7. \A n \in Name : f[n] = IF n = Output(w) THEN content ELSE entries[n]
  BY <1>1, <1>2, <1>5, <1>6 DEF Knows, Job
<1>8. \A n \in Name : entries'[n] = f[n]
  BY <1>1, <1>2, <1>4, <1>6, <1>7
<1>9. /\ job'[w].layer = layer /\ job'[w].day = d /\ job'[w].at = "rename"
      /\ job'[w].left = left /\ job'[w].copy = f /\ job'[w].content = content
      /\ \A u \in Workers : u # w => job'[u] = job[u]
  BY <1>1, <1>2, <1>5, <1>6 DEF Job
<1>10. Outputs(layer, d)[Min(left)] = Output(w)
  BY <1>5 DEF Output
<1>11. Proceeds(w)'
  <2>1. content # 0 /\ parts'[Outputs(layer, d)[Min(left)]] = content
    BY <1>2, <1>3, <1>5, <1>10 DEF Publish, Carries
  <2>2. entries'[Outputs(layer, d)[Min(left)]] = content
    BY <1>2, <1>7, <1>8, <1>10
  <2>3. /\ \A n \in Name : job'[w].copy[n] = entries'[n]
        /\ \A i \in DOMAIN Outputs(layer, d) :
             files'[Outputs(layer, d)[i]] = 0 <=> i \in left
        /\ layer # "bronze" => content = files'[Input(layer, d)]
    BY <1>2, <1>3, <1>5, <1>8, <1>9 DEF Knows, Places
  <2>4. QED
    BY <1>9, <2>1, <2>2, <2>3, ProceedsAnew
<1>12. FilesMatchManifest' /\ LineageHolds'
  BY <1>2, <1>3, <1>7, <1>8 DEF LayersInv, FilesMatchManifest, LineageHolds, Sound
<1>13. QED
  BY <1>1, <1>3, <1>9, <1>11, <1>12, OthersIdle

\* The file gets its name: what it holds is what its manifest says and what the
\* Bronze file of the day holds, for no derived file can be there before that one.
LEMMA LayersRename ==
  ASSUME LayersInv, NEW w \in Workers, Rename(w)
  PROVE  LayersInv'
<1>1. Works(w) /\ Typed' /\ job[w].at = "rename"
  BY RenameTyped DEF LayersInv, Rename
<1>2. /\ Typed /\ Knows(w) /\ Carries(w) /\ job[w] \in Job /\ job \in [Workers -> Job]
      /\ files \in [Name -> Version] /\ parts \in [Name -> Version]
      /\ Output(w) \in Name /\ Output(w)[2] = job[w].day /\ files[Output(w)] = 0
      /\ Min(job[w].left) \in job[w].left /\ job[w].left \subseteq Places(w)
  BY <1>1, AtWork
<1>3. PICK layer, d, left, content :
        layer = job[w].layer /\ d = job[w].day /\ left = job[w].left /\ content = job[w].content
  OBVIOUS
<1>4. PICK rest : rest = Rest(w)
  OBVIOUS
<1>5. layer \in Layer /\ d \in Day /\ LayerOf(Output(w)) = layer
  BY <1>1, <1>2, <1>3, Writing
<1>6. content # 0 /\ parts[Output(w)] = content /\ entries[Output(w)] = content
  BY <1>1, <1>2, <1>3 DEF Carries
<1>7. /\ files' = [files EXCEPT ![Output(w)] = content]
      /\ job' = [job EXCEPT ![w] = [job[w] EXCEPT !.left = rest,
                   !.at = IF rest = {} THEN "done" ELSE "build"]]
  BY <1>2, <1>4, <1>6, RenameTyped
<1>8. UNCHANGED <<source, entries, phase, completed, status>>
  BY DEF Rename, run
<1>9. \A n \in Name : files'[n] = IF n = Output(w) THEN content ELSE files[n]
  BY <1>2, <1>7
<1>10. /\ job'[w].layer = layer /\ job'[w].day = d
       /\ job'[w].at = (IF rest = {} THEN "done" ELSE "build")
       /\ job'[w].left = rest /\ job'[w].copy = job[w].copy /\ job'[w].content = content
       /\ \A u \in Workers : u # w => job'[u] = job[u]
  BY <1>2, <1>3, <1>7 DEF Job
<1>11. \A i \in DOMAIN Outputs(layer, d) :
         /\ Outputs(layer, d)[i] \in Name
         /\ files'[Outputs(layer, d)[i]] = 0 <=> i \in rest
  <2>1. PICK m : m = Min(left)
    OBVIOUS
  <2>2. /\ Output(w) = Outputs(layer, d)[m] /\ m \in DOMAIN Outputs(layer, d)
        /\ rest = left \ {m}
    BY <1>2, <1>3, <1>4, <2>1 DEF Output, Places, Rest
  <2>3. /\ \A i \in DOMAIN Outputs(layer, d) : Outputs(layer, d)[i] \in Name
        /\ \A i, j \in DOMAIN Outputs(layer, d) :
             Outputs(layer, d)[i] = Outputs(layer, d)[j] => i = j
    BY <1>5, Outputting
  <2>4. \A i \in DOMAIN Outputs(layer, d) : files[Outputs(layer, d)[i]] = 0 <=> i \in left
    BY <1>2, <1>3 DEF Knows, Places
  <2>5. ASSUME NEW i \in DOMAIN Outputs(layer, d)
        PROVE  files'[Outputs(layer, d)[i]] = 0 <=> i \in rest
    <3>1. CASE i = m
      BY <1>6, <1>9, <2>2, <2>3, <3>1
    <3>2. CASE i # m
      BY <1>9, <2>2, <2>3, <2>4, <3>2
    <3>3. QED
      BY <3>1, <3>2
  <2>6. QED
    BY <2>3, <2>5
<1>12. layer # "bronze" => /\ Input(layer, d) \in Name /\ Input(layer, d) # Output(w)
                           /\ Input(layer, d)[2] = d
                           /\ files'[Input(layer, d)] = content
  <2>1. Input(layer, d) \in Name /\ Input(layer, d)[2] = d
        /\ (layer # "bronze" => LayerOf(Input(layer, d)) # layer)
    BY <1>5, Inputting
  <2>2. layer # "bronze" => files[Input(layer, d)] = content
    BY <1>2, <1>3 DEF Knows
  <2>3. QED
    BY <1>5, <1>9, <2>1, <2>2
<1>13. Proceeds(w)'
  <2>1. job'[w].at = "done" => \A i \in DOMAIN Outputs(layer, d) : files'[Outputs(layer, d)[i]] # 0
    BY <1>10, <1>11
  <2>2. \A n \in Name : job'[w].copy[n] = entries'[n]
    BY <1>2, <1>8, <1>10 DEF Knows
  <2>3. job'[w].at \notin {"publish", "rename"}
    BY <1>10
  <2>4. QED
    BY <1>6, <1>10, <1>11, <1>12, <2>1, <2>2, <2>3, ProceedsAnew
<1>14. FilesMatchManifest'
  BY <1>6, <1>8, <1>9 DEF LayersInv, FilesMatchManifest, Sound
<1>15. LineageHolds'
  <2>1. \A n \in Name : files[n] # 0 => files[n] = files[<<"bronze", n[2]>>]
    BY DEF LayersInv, LineageHolds
  <2>2. PICK b : b = <<"bronze", d>>
    OBVIOUS
  <2>3. b \in Name /\ LayerOf(b) = "bronze"
    <3>1. "bronze" \notin Timeframe
      BY MedallionAssumption DEF MedallionAssumption, Timeframe, ToSet
    <3>2. QED
      BY <1>5, <2>2, <3>1 DEF Name, LayerOf
  <2>4. \A n \in Name : n[2] # d => <<"bronze", n[2]>> # Output(w) /\ <<"bronze", n[2]>> \in Name
    BY <1>2, <1>3 DEF Name
  <2>5. files'[b] = content /\ \A n \in Name : n[2] = d /\ files[n] # 0 => files[n] = content
    <3>1. CASE layer = "bronze"
      <4>1. Output(w) = b
        <5>1. Outputs(layer, d) = <<b>>
          BY <2>2, <3>1 DEF Outputs
        <5>2. \A i \in DOMAIN Outputs(layer, d) : Outputs(layer, d)[i] = b
          BY <5>1
        <5>3. QED
          BY <1>2, <1>3, <5>2 DEF Output, Places
      <4>2. QED
        BY <1>2, <1>9, <2>1, <2>2, <2>3, <4>1
    <3>2. CASE layer # "bronze"
      <4>1. b # Output(w)
        BY <1>5, <2>3, <3>2
      <4>2. files[Input(layer, d)] = content
        BY <1>9, <1>12, <3>2
      <4>3. files[b] = content
        BY <1>6, <1>12, <2>1, <2>2, <3>2, <4>2
      <4>4. QED
        BY <1>9, <2>1, <2>2, <2>3, <4>1, <4>3
    <3>3. QED
      BY <3>1, <3>2
  <2>6. ASSUME NEW n \in Name, files'[n] # 0
        PROVE  files'[n] = files'[<<"bronze", n[2]>>]
    <3>1. CASE n[2] = d
      BY <1>9, <2>2, <2>5, <2>6, <3>1
    <3>2. CASE n[2] # d
      BY <1>2, <1>3, <1>9, <2>1, <2>4, <2>6, <3>2
    <3>3. QED
      BY <3>1, <3>2
  <2>7. QED
    BY <2>6 DEF LineageHolds
<1>16. QED
  BY SMTT(40), <1>1, <1>6, <1>8, <1>9, <1>10, <1>13, <1>14, <1>15, OthersIdle

\* A download or a write that fails leaves the published files.
LEMMA LayersFailure ==
  ASSUME LayersInv, NEW w \in Workers, DownloadFails(w) \/ WriteFails(w)
  PROVE  LayersInv'
<1>1. /\ Works(w) /\ Typed'
      /\ job' = [job EXCEPT ![w] = [job[w] EXCEPT !.at = "failed"]]
      /\ UNCHANGED <<source, files, entries, phase, completed, status>>
  BY FailureTyped DEF LayersInv
<1>2. job[w] \in Job /\ job \in [Workers -> Job]
  BY <1>1, AtWork
<1>3. job'[w].at = "failed" /\ \A u \in Workers : u # w => job'[u] = job[u]
  BY <1>1, <1>2 DEF Job
<1>4. Proceeds(w)'
  BY <1>3, ProceedsKept
<1>5. FilesMatchManifest' /\ LineageHolds'
  BY <1>1 DEF LayersInv, FilesMatchManifest, LineageHolds, Sound
<1>6. QED
  BY <1>1, <1>3, <1>4, <1>5, OthersIdle

\* Every step keeps the layers agreeing.
LEMMA LayersNext ==
  ASSUME OneAtATime, LayersInv, [Next]_vars
  PROVE  LayersInv'
<1>1. Typed
  BY DEF LayersInv
<1>2. QED
  BY <1>1, Steps, LayersOutside, LayersLeave, LayersBegin, LayersBuild, LayersPublish,
     LayersRename, LayersFailure

\* As long as the operator waits for the refresh and it for the operator, every
\* file is the one its manifest records and comes from the Bronze file on disk, and
\* no completed step lacks a file, whatever is killed, fails or is revised.
THEOREM LayersStayTrue == OneAtATime => (Spec => []LayersAgree)
<1> SUFFICES ASSUME OneAtATime PROVE Spec => []LayersAgree
  OBVIOUS
<1>1. Init => LayersInv
  BY LayersInit
<1>2. LayersInv /\ [Next]_vars => LayersInv'
  BY LayersNext
<1>3. LayersInv => LayersAgree
  BY DEF LayersInv, LayersAgree, Typed
<1>4. QED
  BY <1>1, <1>2, <1>3, PTL DEF Spec

-----------------------------------------------------------------------------
(* What OK means, however often processes are killed.                      *)

\* A layer is begun only on a day whose layer below is there: a day torn in Bronze
\* or Silver lets the layer above it fail.
Cascade ==
  \A d \in Day :
    /\ ~Missing("silver", d) => Complete("bronze", d)
    /\ ~Missing("candles", d) => Complete("silver", d)

\* A worker is writing the candles of the day.
AtCandles(w, d) == Works(w) /\ job[w].layer = "candles" /\ job[w].day = d

\* The days whose candles were left half written.
Torn ==
  {d \in Day : /\ ~Missing("candles", d) /\ ~Complete("candles", d)
               /\ \A w \in Workers : ~AtCandles(w, d)}

\* An interruption tears at most one day.
TornByInterrupts == Cardinality(Torn) <= interrupts

\* A running refresh has the candles of a day in its plan, or begun before.
PlanReaches ==
  phase = "running" =>
    \A d \in StartDay..goal : <<"candles", d>> \in plan \/ ~Missing("candles", d)

OkInv ==
  LayersInv /\ Cascade /\ TornByInterrupts /\ PlanReaches /\ OkMeansCompleteButTorn

\* A process is killed or meets a write error.
Interruption(w) == (w = "refresh" /\ RefreshKilled) \/ WriteFails(w)

\* What is complete is in the manifest.
LEMMA CompletePresent ==
  ASSUME LayersInv, NEW layer \in Layer, NEW d \in Day, Complete(layer, d)
  PROVE  ~Missing(layer, d)
<1>1. 1 \in DOMAIN Outputs(layer, d)
  <2>1. Timeframes \in Seq(STRING \ {"bronze", "silver"}) /\ Timeframes # <<>>
    BY MedallionAssumption DEF MedallionAssumption
  <2>2. 1 \in DOMAIN Timeframes
    BY <2>1
  <2>3. QED
    BY <2>2 DEF Outputs
<1>2. Outputs(layer, d)[1] \in Name /\ files[Outputs(layer, d)[1]] # 0
  BY <1>1, Outputting DEF Complete
<1>3. entries[Outputs(layer, d)[1]] # 0
  BY <1>2 DEF LayersInv, FilesMatchManifest, Sound
<1>4. QED
  BY <1>1, <1>3 DEF Missing

\* No step takes a file away.
LEMMA FilesKept ==
  ASSUME Typed, [Next]_vars
  PROVE  \A n \in Name : files[n] # 0 => files'[n] # 0
<1>1. ASSUME NEW w \in Workers, Rename(w)
      PROVE  \A n \in Name : files[n] # 0 => files'[n] # 0
  <2>1. files \in [Name -> Version]
    BY DEF Typed, TypeOK
  <2>2. \/ files' = files
        \/ parts[Output(w)] # 0 /\ files' = [files EXCEPT ![Output(w)] = parts[Output(w)]]
    BY <1>1, RenameTyped
  <2>3. QED
    BY <2>1, <2>2
<1>2. ASSUME NEW w \in Workers, NEW layer \in Layer, NEW d \in Day, Begins(w, layer, d)
      PROVE  files' = files
  BY <1>2, BeginsTyped DEF disk
<1>3. ASSUME NEW w \in Workers, Leaves(w) \/ Build(w) \/ Publish(w) \/ DownloadFails(w) \/ WriteFails(w)
      PROVE  files' = files
  BY <1>3, LeavesTyped, FailureTyped DEF Build, Publish
<1>4. ASSUME Quiet \/ Turns \/ UNCHANGED vars
      PROVE  files' = files
  BY <1>4, QuietTyped, TurnsTyped DEF vars, disk
<1>5. QED
  BY <1>1, <1>2, <1>3, <1>4, Steps

\* An entry changes only when it is published, and is never taken back.
LEMMA EntriesStep ==
  ASSUME LayersInv, [Next]_vars, NEW n \in Name
  PROVE  \/ entries'[n] = entries[n]
         \/ entries'[n] # 0 /\ \E w \in Workers : Publish(w) /\ Works(w) /\ n = Output(w)
<1>1. Typed
  BY DEF LayersInv
<1>2. ASSUME NEW w \in Workers, Publish(w)
      PROVE  entries'[n] = entries[n] \/ (entries'[n] # 0 /\ Works(w) /\ n = Output(w))
  <2>1. /\ Works(w)
        /\ Manifest(w) = [job[w].copy EXCEPT ![Output(w)] = job[w].content]
        /\ entries' = [m \in Name |->
               IF LayerOf(m) = job[w].layer THEN Manifest(w)[m] ELSE entries[m]]
    BY <1>1, <1>2, PublishTyped
  <2>2. Knows(w) /\ Carries(w) /\ job[w].copy \in [Name -> Version] /\ job[w].at = "publish"
    BY <1>2, <2>1, AtWork DEF Publish, Job
  <2>3. job[w].content # 0 /\ job[w].copy[n] = entries[n]
    BY <2>2 DEF Knows, Carries
  <2>4. Manifest(w)[n] = IF n = Output(w) THEN job[w].content ELSE entries[n]
    BY <2>1, <2>2, <2>3
  <2>5. QED
    BY <2>1, <2>3, <2>4
<1>3. ASSUME NEW w \in Workers, NEW layer \in Layer, NEW d \in Day, Begins(w, layer, d)
      PROVE  entries' = entries
  BY <1>1, <1>3, BeginsTyped DEF disk
<1>4. ASSUME NEW w \in Workers, Leaves(w) \/ Build(w) \/ Rename(w) \/ DownloadFails(w) \/ WriteFails(w)
      PROVE  entries' = entries
  BY <1>1, <1>4, LeavesTyped, FailureTyped DEF Build, Rename
<1>5. ASSUME Quiet \/ Turns \/ UNCHANGED vars
      PROVE  entries' = entries
  BY <1>1, <1>5, QuietTyped, TurnsTyped DEF vars, disk
<1>6. QED
  BY <1>1, <1>2, <1>3, <1>4, <1>5, Steps

\* What is in the manifest stays there, and comes there from an operation at work on
\* that layer and day.
LEMMA PresentStep ==
  ASSUME LayersInv, [Next]_vars, NEW layer \in Layer, NEW d \in Day
  PROVE  /\ ~Missing(layer, d) => ~Missing(layer, d)'
         /\ Missing(layer, d) /\ ~Missing(layer, d)' =>
              \E w \in Workers : Works(w) /\ job[w].layer = layer /\ job[w].day = d
<1>1. ASSUME ~Missing(layer, d) PROVE ~Missing(layer, d)'
  <2>1. PICK i \in DOMAIN Outputs(layer, d) : entries[Outputs(layer, d)[i]] # 0
    BY <1>1 DEF Missing
  <2>2. entries'[Outputs(layer, d)[i]] # 0
    BY <2>1, Outputting, EntriesStep
  <2>3. QED
    BY <2>2 DEF Missing, Outputs
<1>2. ASSUME Missing(layer, d), ~Missing(layer, d)'
      PROVE  \E w \in Workers : Works(w) /\ job[w].layer = layer /\ job[w].day = d
  <2>1. PICK i \in DOMAIN Outputs(layer, d) : entries'[Outputs(layer, d)[i]] # 0
    BY <1>2 DEF Missing, Outputs
  <2>2. entries[Outputs(layer, d)[i]] = 0
    BY <1>2 DEF Missing
  <2>3. PICK n : n = Outputs(layer, d)[i]
    OBVIOUS
  <2>4. n \in Name /\ n[2] = d /\ LayerOf(n) = layer
    BY <2>3, Outputting
  <2>5. PICK w \in Workers : Works(w) /\ n = Output(w)
    BY <2>1, <2>2, <2>3, <2>4, EntriesStep
  <2>6. Output(w)[2] = job[w].day /\ LayerOf(Output(w)) = job[w].layer
    BY <2>5, Writing DEF LayersInv
  <2>7. QED
    BY <2>4, <2>5, <2>6
<1>3. QED
  BY <1>1, <1>2

\* A day that is complete stays complete.
LEMMA CompleteStays ==
  ASSUME LayersInv, [Next]_vars, NEW layer \in Layer, NEW d \in Day, Complete(layer, d)
  PROVE  Complete(layer, d)'
<1>1. \A n \in Name : files[n] # 0 => files'[n] # 0
  BY FilesKept DEF LayersInv
<1>2. QED
  BY <1>1, CompleteKept

\* An operation at work on Silver or candles found the layer below.
LEMMA CascadeNext ==
  ASSUME LayersInv, Cascade, [Next]_vars
  PROVE  Cascade'
<1>1. "bronze" \in Layer /\ "silver" \in Layer /\ "candles" \in Layer
  BY DEF Layer
<1>2. ASSUME NEW w \in Workers, Works(w), job[w].layer # "bronze"
      PROVE  files[Input(job[w].layer, job[w].day)] # 0
  BY <1>2, AtWork DEF Knows
<1>3. ASSUME NEW d \in Day, ~Missing("silver", d)' PROVE Complete("bronze", d)
  <2>1. CASE ~Missing("silver", d)
    BY <2>1 DEF Cascade
  <2>2. CASE Missing("silver", d)
    <3>1. PICK w \in Workers : Works(w) /\ job[w].layer = "silver" /\ job[w].day = d
      BY <1>1, <1>3, <2>2, PresentStep
    <3>2. files[<<"bronze", d>>] # 0
      BY <1>2, <3>1 DEF Input
    <3>3. QED
      BY <3>2 DEF Complete, Outputs
  <2>3. QED
    BY <2>1, <2>2
<1>4. ASSUME NEW d \in Day, ~Missing("candles", d)' PROVE Complete("silver", d)
  <2>1. CASE ~Missing("candles", d)
    BY <2>1 DEF Cascade
  <2>2. CASE Missing("candles", d)
    <3>1. PICK w \in Workers : Works(w) /\ job[w].layer = "candles" /\ job[w].day = d
      BY <1>1, <1>4, <2>2, PresentStep
    <3>2. files[<<"silver", d>>] # 0
      BY <1>2, <3>1 DEF Input
    <3>3. QED
      BY <3>2 DEF Complete, Outputs
  <2>3. QED
    BY <2>1, <2>2
<1>5. QED
  BY <1>1, <1>3, <1>4, CompleteStays DEF Cascade

\* An operation on candles that is not interrupted goes on or is done.
LEMMA CandlesGoOn ==
  ASSUME LayersInv, [Next]_vars, \A u \in Workers : ~Interruption(u),
         NEW w \in Workers, NEW d \in Day, AtCandles(w, d)
  PROVE  /\ job'[w].layer = "candles" /\ job'[w].day = d
         /\ Works(w)' \/ job'[w].at = "done"
<1>1. /\ Typed /\ Carries(w) /\ job[w] \in Job /\ job \in [Workers -> Job]
      /\ Works(w) /\ job[w].layer = "candles" /\ job[w].day = d
  BY AtWork DEF AtCandles, LayersInv
<1>2. ASSUME job'[w] = job[w]
      PROVE  /\ job'[w].layer = "candles" /\ job'[w].day = d
             /\ Works(w)' \/ job'[w].at = "done"
  BY <1>1, <1>2 DEF Works
<1>3. CASE Quiet \/ Turns \/ UNCHANGED vars
  BY <1>1, <1>2, <1>3, QuietTyped, TurnsTyped DEF vars
<1>4. ASSUME NEW u \in Workers, u # w,
             \/ Leaves(u) \/ \E layer \in Layer, b \in Day : Begins(u, layer, b)
             \/ Build(u) \/ Publish(u) \/ Rename(u) \/ DownloadFails(u) \/ WriteFails(u)
      PROVE  job'[w] = job[w]
  <2>1. \A j : job' = [job EXCEPT ![u] = j] => job'[w] = job[w]
    BY <1>1, <1>4
  <2>2. CASE Leaves(u)
    BY <1>1, <2>1, <2>2, LeavesTyped
  <2>3. CASE \E layer \in Layer, b \in Day : Begins(u, layer, b)
    BY <1>1, <1>4, <2>3, BeginsTyped, Beginning
  <2>4. CASE Build(u) \/ Publish(u) \/ Rename(u) \/ DownloadFails(u) \/ WriteFails(u)
    <3>1. Works(u)
      BY <2>4 DEF Build, Publish, Rename, DownloadFails, WriteFails, Works, Working
    <3>2. job[w].at = "idle"
      BY <1>4, <3>1, AtWork
    <3>3. QED
      BY <1>1, <3>2 DEF Works, Working
  <2>5. QED
    BY <1>4, <2>2, <2>3, <2>4
<1>5. CASE Leaves(w)
  BY <1>1, <1>5 DEF Leaves, StepDone, StepFailed, CliEnds, Interruption, Works, Working
<1>6. CASE \E layer \in Layer, b \in Day : Begins(w, layer, b)
  BY <1>1, <1>6, BeginsTyped DEF Begin, Works, Working
<1>7. CASE Build(w)
  <2>1. PICK v : job' = [job EXCEPT ![w] = [job[w] EXCEPT !.at = "publish", !.content = v]]
    BY <1>1, <1>7, BuildTyped
  <2>2. QED
    BY <1>1, <2>1 DEF Job, Works, Working
<1>8. CASE Publish(w)
  <2>1. job' = [job EXCEPT ![w] = [job[w] EXCEPT !.at = "rename", !.copy = Manifest(w)]]
    BY <1>1, <1>8, PublishTyped
  <2>2. QED
    BY <1>1, <2>1 DEF Job, Works, Working
<1>9. CASE Rename(w)
  <2>1. job[w].content # 0 /\ parts[Output(w)] = job[w].content
    BY <1>1, <1>9 DEF Rename, Carries
  <2>2. job' = [job EXCEPT ![w] = [job[w] EXCEPT !.left = Rest(w),
                   !.at = IF Rest(w) = {} THEN "done" ELSE "build"]]
    BY <1>1, <1>9, <2>1, RenameTyped
  <2>3. QED
    BY <1>1, <2>2 DEF Job, Works, Working
<1>10. CASE DownloadFails(w)
  BY <1>1, <1>10 DEF DownloadFails
<1>11. CASE Next
  BY <1>1, <1>2, <1>3, <1>4, <1>5, <1>6, <1>7, <1>8, <1>9, <1>10, <1>11, Steps
     DEF Interruption
<1>12. QED
  BY <1>3, <1>11

\* Without an interruption no day is torn.
LEMMA TornKept ==
  ASSUME LayersInv, LayersInv', [Next]_vars, \A u \in Workers : ~Interruption(u)
  PROVE  Torn' \subseteq Torn
<1>1. "candles" \in Layer
  BY DEF Layer
<1>2. SUFFICES ASSUME NEW d \in Day, ~Missing("candles", d)', ~Complete("candles", d)',
                      \A w \in Workers : ~AtCandles(w, d)'
               PROVE  d \in Torn
  BY DEF Torn, Missing, Complete, Outputs, AtCandles, Works
<1>3. ~Complete("candles", d)
  BY <1>1, <1>2, CompleteStays
<1>4. ASSUME NEW w \in Workers, AtCandles(w, d) PROVE FALSE
  <2>1. /\ job'[w].layer = "candles" /\ job'[w].day = d
        /\ Works(w)' \/ job'[w].at = "done"
    BY <1>4, CandlesGoOn
  <2>2. CASE Works(w)'
    BY <1>2, <2>1, <2>2 DEF AtCandles, Works
  <2>3. CASE job'[w].at = "done"
    <3>1. Complete(job[w].layer, job[w].day)'
      BY <2>3 DEF LayersInv, Proceeds
    <3>2. QED
      BY <1>2, <2>1, <3>1 DEF Complete, Outputs
  <2>4. QED
    BY <2>1, <2>2, <2>3
<1>5. ~Missing("candles", d)
  BY <1>1, <1>2, <1>4, PresentStep DEF AtCandles
<1>6. QED
  BY <1>3, <1>4, <1>5 DEF Torn

\* An interruption tears at most the day its worker was at.
LEMMA TornOnce ==
  ASSUME LayersInv, NEW w \in Workers, Interruption(w)
  PROVE  Torn' \subseteq Torn \cup {job[w].day} /\ interrupts' = interrupts + 1
<1>1. Typed /\ job \in [Workers -> Job]
  BY DEF LayersInv, Typed, TypeOK
<1>2. /\ UNCHANGED <<files, entries>> /\ interrupts' = interrupts + 1
      /\ \A u \in Workers : u # w => job'[u] = job[u]
  BY <1>1 DEF Interruption, RefreshKilled, WriteFails, disk
<1>3. SUFFICES ASSUME NEW d \in Day, ~Missing("candles", d)', ~Complete("candles", d)',
                      \A u \in Workers : ~AtCandles(u, d)', d # job[w].day
               PROVE  d \in Torn
  BY <1>2 DEF Torn, Missing, Complete, Outputs, AtCandles, Works
<1>4. ~Missing("candles", d) /\ ~Complete("candles", d)
  BY <1>2, <1>3 DEF Missing, Complete, Outputs
<1>5. \A u \in Workers : ~AtCandles(u, d)
  BY <1>2, <1>3 DEF AtCandles, Works
<1>6. QED
  BY <1>4, <1>5 DEF Torn

\* Days are counted.
LEMMA CountingDays ==
  /\ IsFiniteSet(Torn) /\ Cardinality(Torn) \in Nat
  /\ IsFiniteSet(Torn') /\ Cardinality(Torn') \in Nat
<1>1. LastDay \in Nat
  BY MedallionAssumption DEF MedallionAssumption
<1>2. IsFiniteSet(Day)
  BY <1>1, FS_Interval DEF Day
<1>3. Torn \in SUBSET Day /\ Torn' \in SUBSET Day
  BY DEF Torn
<1>4. IsFiniteSet(Torn) /\ IsFiniteSet(Torn')
  BY <1>2, <1>3, FS_Subset
<1>5. QED
  BY <1>4, FS_CardinalityType

\* The torn days never outnumber the interruptions.
LEMMA TornNext ==
  ASSUME LayersInv, LayersInv', TornByInterrupts, [Next]_vars
  PROVE  TornByInterrupts' /\ interrupts' \in Nat /\ interrupts \in Nat /\ interrupts <= interrupts'
<1>1. interrupts \in Nat /\ interrupts' \in Nat
  BY MedallionAssumption DEF MedallionAssumption, LayersInv, Typed, TypeOK
<1>2. ASSUME NEW w \in Workers, Interruption(w)
      PROVE  TornByInterrupts' /\ interrupts <= interrupts'
  <2>1. PICK d : d = job[w].day
    OBVIOUS
  <2>2. Torn' \in SUBSET (Torn \cup {d}) /\ interrupts' = interrupts + 1
    BY <1>2, <2>1, TornOnce
  <2>3. IsFiniteSet(Torn \cup {d}) /\ Cardinality(Torn \cup {d}) <= Cardinality(Torn) + 1
    <3>1. IsFiniteSet(Torn) /\ Cardinality(Torn) \in Nat
      BY CountingDays
    <3>2. /\ IsFiniteSet(Torn \cup {d})
          /\ Cardinality(Torn \cup {d}) =
               IF d \in Torn THEN Cardinality(Torn) ELSE Cardinality(Torn) + 1
      BY <3>1, FS_AddElement
    <3>3. QED
      BY <3>1, <3>2
  <2>4. Cardinality(Torn \cup {d}) \in Nat
    BY <2>3, FS_CardinalityType
  <2>5. Cardinality(Torn') <= Cardinality(Torn \cup {d})
    BY <2>2, <2>3, FS_Subset
  <2>6. QED
    BY <1>1, <2>2, <2>3, <2>4, <2>5, CountingDays DEF TornByInterrupts
<1>3. ASSUME \A w \in Workers : ~Interruption(w)
      PROVE  TornByInterrupts' /\ interrupts <= interrupts'
  <2>1. Torn' \in SUBSET Torn
    BY <1>3, TornKept
  <2>2. Cardinality(Torn') <= Cardinality(Torn)
    BY <2>1, CountingDays, FS_Subset
  <2>3. interrupts' = interrupts
    BY <1>3, MedallionAssumption DEF MedallionAssumption, Interruption, Next, NextDay, Revise,
      RefreshStep, RefreshBlocked, StartRefresh, RunStep, StepDone, StepFailed, RefreshEnds,
      Operation, Build, Publish, Rename, Cli, CliStarts, CliEnds, CapacityGuardFails,
      DownloadFails, bounds, vars
  <2>4. QED
    BY <1>1, <2>2, <2>3, CountingDays DEF TornByInterrupts
<1>4. QED
  BY <1>1, <1>2, <1>3

\* A refresh whose plan is empty has every day complete but for the candles of the
\* torn ones.
LEMMA EndOfPlan ==
  ASSUME LayersInv, Cascade, PlanReaches, phase = "running", plan = {}
  PROVE  /\ \A d \in StartDay..goal : Complete("bronze", d) /\ Complete("silver", d)
         /\ {d \in StartDay..goal : ~Complete("candles", d)} \subseteq Torn
<1>1. StartDay..goal \subseteq Day
  BY MedallionAssumption DEF MedallionAssumption, LayersInv, Typed, TypeOK, Day
<1>2. \A d \in StartDay..goal : ~Missing("candles", d)
  BY DEF PlanReaches
<1>3. \A w \in Workers : job[w].at = "idle"
  <2>1. job["refresh"].at = "idle"
    BY DEF LayersInv, Typed, TypeOK
  <2>2. QED
    BY <2>1 DEF LayersInv, Alone
<1>4. \A d \in StartDay..goal : Complete("silver", d)
  BY <1>1, <1>2 DEF Cascade
<1>5. \A d \in StartDay..goal : Complete("bronze", d)
  <2>1. "silver" \in Layer
    BY DEF Layer
  <2>2. \A d \in StartDay..goal : ~Missing("silver", d)
    BY <1>1, <1>4, <2>1, CompletePresent
  <2>3. QED
    BY <1>1, <2>2 DEF Cascade
<1>6. {d \in StartDay..goal : ~Complete("candles", d)} \subseteq Torn
  BY <1>1, <1>2, <1>3 DEF Torn, AtCandles, Works, Working
<1>7. QED
  BY <1>4, <1>5, <1>6

\* What is said of the days of an OK holds as long as the result stands.
LEMMA OkStands ==
  ASSUME LayersInv, LayersInv', TornByInterrupts, [Next]_vars, OkMeansCompleteButTorn,
         status' = status
  PROVE  OkMeansCompleteButTorn'
<1>1. SUFFICES ASSUME status.result \in {"OK", "OK_NOOP"} PROVE OkMeansCompleteButTorn'
  BY DEF OkMeansCompleteButTorn
<1>2. StartDay..status.target \subseteq Day /\ StartDay \in Int /\ status.target \in Int
  <2>1. LastDay \in Nat /\ StartDay \in Day /\ status.target \in 0..LastDay
    BY MedallionAssumption DEF MedallionAssumption, LayersInv, Typed, TypeOK
  <2>2. QED
    BY <2>1 DEF Day
<1>3. /\ \A d \in StartDay..status.target : Complete("bronze", d) /\ Complete("silver", d)
      /\ Cardinality(DaysTorn) <= interrupts
  BY <1>1 DEF OkMeansCompleteButTorn
<1>4. "bronze" \in Layer /\ "silver" \in Layer /\ "candles" \in Layer
  BY DEF Layer
<1>5. \A d \in StartDay..status.target : Complete("bronze", d)' /\ Complete("silver", d)'
  BY <1>2, <1>3, <1>4, CompleteStays
<1>6. \A d \in StartDay..status.target : Complete("candles", d) => Complete("candles", d)'
  BY <1>2, <1>4, CompleteStays
<1>7. DaysTorn' \in SUBSET DaysTorn
  BY <1>6 DEF DaysTorn, Complete, Outputs
<1>8. IsFiniteSet(DaysTorn)
  <2>1. DaysTorn \in SUBSET (StartDay..status.target)
    BY DEF DaysTorn
  <2>2. QED
    BY <1>2, <2>1, FS_Interval, FS_Subset
<1>9. /\ IsFiniteSet(DaysTorn') /\ Cardinality(DaysTorn') <= Cardinality(DaysTorn)
      /\ Cardinality(DaysTorn) \in Nat /\ Cardinality(DaysTorn') \in Nat
  BY <1>7, <1>8, FS_Subset, FS_CardinalityType
<1>10. Cardinality(DaysTorn') <= interrupts'
  BY <1>3, <1>9, TornNext
<1>11. QED
  BY <1>5, <1>10 DEF OkMeansCompleteButTorn, Complete, Outputs

\* The plan of a refresh and what it says at its end.
LEMMA PlanNext ==
  ASSUME LayersInv, LayersInv', OkInv, [Next]_vars
  PROVE  PlanReaches' /\ OkMeansCompleteButTorn'
<1>1. /\ LastDay \in Nat /\ StartDay \in Day /\ target \in Day /\ goal \in 0..LastDay
      /\ plan \subseteq Layer \X Day
  BY MedallionAssumption DEF MedallionAssumption, LayersInv, Typed, TypeOK
<1>2. StartDay..target \subseteq Day /\ StartDay..goal \subseteq Day
  BY <1>1 DEF Day
<1>3. "candles" \in Layer
  BY DEF Layer
<1>4. CASE StartRefresh
  <2>1. goal' = target /\ plan' = PlannedSteps /\ status' = status
    BY <1>4 DEF StartRefresh
  <2>2. ASSUME NEW d \in StartDay..target, <<"candles", d>> \notin PlannedSteps
        PROVE  ~Missing("candles", d)'
    <3>1. d \in Day /\ d \in RefreshDays
      BY <1>2 DEF RefreshDays
    <3>2. ~Missing("candles", d) \/ <<"candles", d>> \in status.completed
      BY <1>3, <2>2, <3>1 DEF PlannedSteps
    <3>3. <<"candles", d>> \in status.completed => Complete("candles", d)
      BY DEF LayersInv, CompletedMeansDone
    <3>4. ~Missing("candles", d)
      BY <1>3, <3>1, <3>2, <3>3, CompletePresent
    <3>5. QED
      BY <1>3, <3>1, <3>4, PresentStep
  <2>3. PlanReaches'
    BY <2>1, <2>2 DEF PlanReaches, Missing, Outputs
  <2>4. QED
    BY <2>1, <2>3, OkStands DEF OkInv
<1>5. CASE RefreshEnds
  <2>1. /\ phase = "running" /\ plan = {} /\ phase' = "idle" /\ status'.target = goal
        /\ UNCHANGED <<files, interrupts>>
    BY <1>5 DEF RefreshEnds, EndRun, StatusOf, disk, bounds
  <2>2. /\ \A d \in StartDay..goal : Complete("bronze", d) /\ Complete("silver", d)
        /\ {d \in StartDay..goal : ~Complete("candles", d)} \subseteq Torn
    BY <2>1, EndOfPlan DEF OkInv
  <2>3. \A d \in StartDay..goal : Complete("bronze", d)' /\ Complete("silver", d)'
    BY <2>1, <2>2 DEF Complete, Outputs
  <2>4. DaysTorn' \in SUBSET Torn
    BY <2>1, <2>2 DEF DaysTorn, Complete, Outputs
  <2>5. /\ Cardinality(DaysTorn') <= Cardinality(Torn) /\ Cardinality(DaysTorn') \in Nat
        /\ Cardinality(Torn) \in Nat
    BY <2>4, CountingDays, FS_Subset, FS_CardinalityType
  <2>6. Cardinality(DaysTorn') <= interrupts'
    <3>1. interrupts \in Nat
      BY MedallionAssumption DEF MedallionAssumption, LayersInv, Typed, TypeOK
    <3>2. QED
      BY <2>1, <2>5, <3>1 DEF OkInv, TornByInterrupts
  <2>7. OkMeansCompleteButTorn'
    BY <2>1, <2>3, <2>6 DEF OkMeansCompleteButTorn, Complete, Outputs
  <2>8. QED
    BY <2>1, <2>7 DEF PlanReaches
<1>6. CASE ~StartRefresh /\ ~RefreshEnds
  <2>1. \/ phase' = "idle"
        \/ phase' = phase /\ goal' = goal /\ plan' = plan
        \/ /\ phase' = phase /\ goal' = goal /\ plan' = plan \ {NextStep}
           /\ NextStep = <<job["refresh"].layer, job["refresh"].day>>
           /\ Complete(job["refresh"].layer, job["refresh"].day)
    <3>1. CASE StepDone
      <4>1. /\ phase' = phase /\ goal' = goal /\ plan' = plan \ {NextStep}
            /\ job["refresh"].at = "done"
        BY <3>1 DEF StepDone
      <4>2. NextStep = <<job["refresh"].layer, job["refresh"].day>>
        BY <4>1 DEF LayersInv, Typed, TypeOK
      <4>3. Complete(job["refresh"].layer, job["refresh"].day)
        BY <4>1, MedallionAssumption DEF LayersInv, Proceeds, MedallionAssumption
      <4>4. QED
        BY <4>1, <4>2, <4>3
    <3>2. CASE ~StepDone
      <4>1. CASE StepFailed \/ RefreshKilled
        BY <4>1 DEF StepFailed, RefreshKilled, EndRun
      <4>2. CASE ~StepFailed /\ ~RefreshKilled
        BY <1>6, <3>2, <4>2 DEF Next, NextDay, Revise, RefreshStep, RefreshBlocked, RunStep,
          Operation, Build, Publish, Rename, Cli, CliStarts, CliEnds, CapacityGuardFails,
          DownloadFails, WriteFails, run, vars
      <4>3. QED
        BY <4>1, <4>2
    <3>3. QED
      BY <3>1, <3>2
  <2>2. status' = status \/ status'.result \notin {"OK", "OK_NOOP"}
    BY <1>6 DEF Next, NextDay, Revise, RefreshStep, RefreshBlocked, RunStep, StepDone,
      StepFailed, Operation, Build, Publish, Rename, Cli, CliStarts, CliEnds,
      CapacityGuardFails, RefreshKilled, DownloadFails, WriteFails, StatusOf, vars
  <2>3. ASSUME phase' = "running", NEW d \in StartDay..goal
        PROVE  <<"candles", d>> \in plan' \/ ~Missing("candles", d)'
    <3>1. d \in Day
      BY <1>2
    <3>2. <<"candles", d>> \in plan \/ ~Missing("candles", d)
      BY <2>1, <2>3 DEF OkInv, PlanReaches
    <3>3. <<"candles", d>> \in plan' \/ ~Missing("candles", d)
      <4>1. CASE plan' = plan
        BY <3>2, <4>1
      <4>2. CASE /\ plan' = plan \ {NextStep}
                 /\ NextStep = <<job["refresh"].layer, job["refresh"].day>>
                 /\ Complete(job["refresh"].layer, job["refresh"].day)
        <5>1. CASE <<"candles", d>> = NextStep
          <6>1. Complete("candles", d)
            BY <4>2, <5>1
          <6>2. QED
            BY <1>3, <3>1, <6>1, CompletePresent
        <5>2. CASE <<"candles", d>> # NextStep
          BY <3>2, <4>2, <5>2
        <5>3. QED
          BY <5>1, <5>2
      <4>3. QED
        BY <2>1, <2>3, <4>1, <4>2
    <3>4. QED
      BY <1>3, <3>1, <3>3, PresentStep
  <2>4. PlanReaches'
    <3>1. phase' = "running" => goal' = goal
      BY <2>1
    <3>2. QED
      BY <2>3, <3>1 DEF PlanReaches, Missing, Outputs
  <2>5. OkMeansCompleteButTorn'
    <3>1. CASE status' = status
      BY <3>1, OkStands DEF OkInv
    <3>2. CASE status'.result \notin {"OK", "OK_NOOP"}
      BY <3>2 DEF OkMeansCompleteButTorn
    <3>3. QED
      BY <2>2, <3>1, <3>2
  <2>6. QED
    BY <2>4, <2>5
<1>7. QED
  BY <1>4, <1>5, <1>6

\* When the operator waits for the refresh and it for the operator, however often
\* processes are killed, writes or downloads fail and files are revised: a refresh
\* that reports OK or OK_NOOP left Bronze and Silver complete for every day of its
\* range, and the days that lack candles are at most as many as there were
\* interruptions.  Nothing better holds: the half-written candles of a day count as
\* present (_has_candles_for_day).
THEOREM OkIsCompleteButTorn == OneAtATime => (Spec => []OkMeansCompleteButTorn)
<1> SUFFICES ASSUME OneAtATime PROVE Spec => []OkMeansCompleteButTorn
  OBVIOUS
<1>1. Init => OkInv
  <2> SUFFICES ASSUME Init PROVE OkInv
    OBVIOUS
  <2>1. LayersInv
    BY LayersInit
  <2>2. \A layer \in Layer, d \in Day : Missing(layer, d)
    <3>1. \A n \in Name : entries[n] = 0
      BY DEF Init, NoCopy
    <3>2. QED
      BY <3>1, Outputting DEF Missing
  <2>3. Cascade /\ Torn = {}
    BY <2>2 DEF Cascade, Torn, Layer
  <2>4. phase = "idle" /\ status.result = "none" /\ interrupts = 0
    BY DEF Init
  <2>5. TornByInterrupts
    BY <2>3, <2>4, FS_EmptySet DEF TornByInterrupts
  <2>6. QED
    BY <2>1, <2>3, <2>4, <2>5 DEF OkInv, PlanReaches, OkMeansCompleteButTorn
<1>2. OkInv /\ [Next]_vars => OkInv'
  BY LayersNext, CascadeNext, TornNext, PlanNext DEF OkInv
<1>3. OkInv => OkMeansCompleteButTorn
  BY DEF OkInv
<1>4. QED
  BY <1>1, <1>2, <1>3, PTL DEF Spec

=============================================================================
