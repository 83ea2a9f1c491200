------------------------ MODULE BuildPipelineProofs ------------------------
(***************************************************************************)
(* Theorems about the build pipeline, for any set of terminals, any number *)
(* of runs and faults, and any rule about which scripts may run together.  *)
(***************************************************************************)
EXTENDS BuildPipeline, TLAPS

(* The facts about lists and files that every step below uses.             *)
LEMMA Lists ==
  /\ Len(IsoOrder) = 3 /\ \A k \in 1 .. 3 : IsoOrder[k] \in Inputs
  /\ Len(BackupOrder) = 4 /\ \A k \in 1 .. 4 : BackupOrder[k] \in Artifacts
BY DEF IsoOrder, BackupOrder, Inputs, Artifacts

LEMMA FileFacts ==
  ASSUME NEW state \in Fetched, NEW run \in Nat, NEW link \in Links,
         NEW parts \in SUBSET Parts
  PROVE  File(state, run, link, parts) \in Files
BY DEF File, Files

LEMMA AbsentFile == Absent \in Files
BY DEF Absent, File, Files, Fetched, Links

-----------------------------------------------------------------------------
(* The control operators preserve the type of job.                         *)

LEMMA JobStep ==
  ASSUME JobOK, NEW t \in Terminals, NEW j \in Jobs,
         j.at \in 1 .. Len(FileList(j.script)),
         job' = [job EXCEPT ![t] = j]
  PROVE  JobOK'
BY DEF JobOK

LEMMA NextRound ==
  ASSUME NEW old \in Jobs, NEW k \in Nat, NEW m \in {0, 1}
  PROVE  LET new == [old EXCEPT !.at = k, !.missing = m]
         IN  new \in Jobs /\ new.at = k /\ new.script = old.script
BY DEF Jobs

LEMMA FirstOfList == \A s : 1 \in 1 .. Len(FileList(s))
BY Lists DEF FileList

LEMMA GotoJob ==
  ASSUME JobOK, NEW t \in Terminals, NEW l \in Labels, Goto(t, l)
  PROVE  JobOK'
<1> DEFINE j == [job[t] EXCEPT !.pc = l, !.at = 1]
<1>1. job' = [job EXCEPT ![t] = j]
  BY DEF JobOK, Goto, Jobs
<1>2. j \in Jobs /\ j.at = 1 /\ j.script = job[t].script
  BY DEF JobOK, Jobs
<1> HIDE DEF j
<1> QED
  BY <1>1, <1>2, JobStep, FirstOfList

LEMMA FinishJob ==
  ASSUME JobOK, NEW t \in Terminals, Finish(t)
  PROVE  JobOK'
BY GotoJob DEF Finish, Labels

LEMMA AbortJob ==
  ASSUME JobOK, NEW t \in Terminals, NEW r \in Reasons, Abort(t, r)
  PROVE  JobOK'
<1> DEFINE j == [job[t] EXCEPT !.pc = "failed", !.why = r]
<1>1. job' = [job EXCEPT ![t] = j]
  BY DEF JobOK, Abort, Jobs
<1>2. j \in Jobs /\ j.at = job[t].at /\ j.script = job[t].script
  BY DEF JobOK, Jobs, Labels
<1>3. j.at \in 1 .. Len(FileList(j.script))
  BY <1>2 DEF JobOK
<1> HIDE DEF j
<1> QED
  BY <1>1, <1>2, <1>3, JobStep

LEMMA LoopJob ==
  ASSUME JobOK, NEW t \in Terminals, NEW l \in Labels, Loop(t, l)
  PROVE  JobOK'
<1>1. CASE job[t].at < Len(FileList(job[t].script))
  <2> DEFINE j == [job[t] EXCEPT !.at = @ + 1]
  <2>1. job' = [job EXCEPT ![t] = j]
    BY <1>1 DEF JobOK, Loop, Jobs
  <2>2. j \in Jobs /\ j.at = job[t].at + 1 /\ j.script = job[t].script
    BY DEF JobOK, Jobs
  <2>3. Len(FileList(job[t].script)) \in Nat /\ job[t].at \in Nat
    BY Lists DEF FileList, JobOK, Jobs
  <2>4. j.at \in 1 .. Len(FileList(j.script))
    BY <1>1, <2>2, <2>3
  <2> HIDE DEF j
  <2> QED
    BY <2>1, <2>2, <2>4, JobStep
<1>2. CASE ~(job[t].at < Len(FileList(job[t].script)))
  BY <1>2, GotoJob DEF Loop
<1> QED
  BY <1>1, <1>2

LEMMA StartType ==
  ASSUME TypeOK, NEW t \in Terminals, NEW s \in Scripts, NEW l \in Labels,
         Start(t, s, l)
  PROVE  TypeOK'
<1> DEFINE j == [script |-> s, pc |-> l, run |-> runs + 1, at |-> 1,
                 missing |-> 0, why |-> "none"]
<1>1. job' = [job EXCEPT ![t] = j]
  BY DEF Start
<1>2. j \in Jobs /\ j.at = 1
  BY DEF TypeOK, Jobs, Reasons
<1>3. JobOK'
  <2> HIDE DEF j
  <2> QED
    BY <1>1, <1>2, JobStep, FirstOfList DEF TypeOK
<1>4. runs' \in Nat /\ UNCHANGED <<building, outputs, vault, faults>>
  BY DEF TypeOK, Start
<1> QED
  BY <1>3, <1>4 DEF TypeOK, BuildingOK, OutputsOK, VaultOK, building, outputs, vault

LEMMA InterruptType ==
  ASSUME TypeOK, NEW t \in Terminals, Interrupt(t)
  PROVE  TypeOK'
<1>1. JobOK'
  BY AbortJob DEF TypeOK, Interrupt, Reasons
<1> QED
  BY <1>1 DEF TypeOK, Interrupt, BuildingOK, OutputsOK, VaultOK, building, outputs, vault

LEMMA OpenType ==
  ASSUME TypeOK, NEW t \in Terminals, NEW f \in Artifacts, Open(t, f)
  PROVE  osboot' \in [Artifacts -> Files]
<1>1. job[t].run \in Nat
  BY DEF TypeOK, JobOK, Jobs
<1>2. Opened(job[t].run) \in Files
  BY <1>1, FileFacts DEF Opened, Fetched, Links
<1> QED
  BY <1>2 DEF TypeOK, OutputsOK, Open

LEMMA CloseType ==
  ASSUME TypeOK, NEW t \in Terminals, NEW f \in Artifacts, NEW file \in Files,
         Close(t, f, file)
  PROVE  osboot' \in [Artifacts -> Files]
<1>1. job[t].run \in Nat
  BY DEF TypeOK, JobOK, Jobs
<1>2. Opened(job[t].run) \in Files
  BY <1>1, FileFacts DEF Opened, Fetched, Links
<1> QED
  BY <1>2, AbsentFile DEF TypeOK, OutputsOK, Close
-----------------------------------------------------------------------------
(* The steps of the scripts preserve the type invariant, group by group.   *)

(* What a step leaves alone keeps its type.                                *)
LEMMA Frame ==
  /\ BuildingOK /\ UNCHANGED building => BuildingOK'
  /\ OutputsOK /\ UNCHANGED outputs => OutputsOK'
  /\ VaultOK /\ UNCHANGED vault => VaultOK'
  /\ runs \in Nat /\ faults \in Nat /\ UNCHANGED counters
        => runs' \in Nat /\ faults' \in Nat
BY DEF BuildingOK, OutputsOK, VaultOK, building, outputs, vault, counters

LEMMA SourcesType ==
  ASSUME TypeOK, NEW t \in Terminals, NEW p \in Packages,
         Fetch(t, p) \/ FetchEnd(t, p) \/ Untar(t, p) \/ UntarEnd(t, p)
  PROVE  TypeOK'
<1> USE DEF TypeOK
<1>1. JobOK'
  <2>1. CASE Fetch(t, p)
    BY <2>1, GotoJob DEF Fetch, Labels
  <2>2. CASE FetchEnd(t, p)
    BY <2>2, GotoJob DEF FetchEnd, Labels
  <2>3. CASE Untar(t, p)
    BY <2>3, GotoJob, AbortJob DEF Untar, Labels, Reasons
  <2>4. CASE UntarEnd(t, p)
    BY <2>4, GotoJob DEF UntarEnd, Labels
  <2> QED
    BY <2>1, <2>2, <2>3, <2>4
<1>2. sources' \in [Packages -> [tarball : Fetched, tree : Fetched]]
  BY DEF Fetch, FetchEnd, Untar, UntarEnd, BuildingOK, Fetched
<1>3. UNCHANGED <<config, rootfs, outputs, vault, counters>>
  BY DEF Fetch, FetchEnd, Untar, UntarEnd
<1> QED
  BY <1>1, <1>2, <1>3, Frame DEF BuildingOK

LEMMA KernelType ==
  ASSUME TypeOK, NEW t \in Terminals, KernelNext(t)
  PROVE  TypeOK'
<1>1. CASE KernelStart(t)
  BY <1>1, StartType DEF KernelStart, Scripts, Labels
<1>2. CASE KernelFetch(t) \/ KernelUntar(t)
  BY <1>2, SourcesType DEF KernelFetch, KernelUntar, Packages
<1>3. CASE KernelMake(t)
  <2>1. JobOK'
    BY <1>3, GotoJob, AbortJob DEF KernelMake, TypeOK, Labels, Reasons
  <2> QED
    BY <1>3, <2>1, Frame DEF KernelMake, TypeOK
<1>4. CASE KernelPublish(t)
  <2>1. JobOK'
    BY <1>4, GotoJob DEF KernelPublish, TypeOK, Labels
  <2>2. osboot' \in [Artifacts -> Files]
    BY <1>4, OpenType DEF KernelPublish, Artifacts, Inputs
  <2> QED
    BY <1>4, <2>1, <2>2, Frame DEF KernelPublish, TypeOK, OutputsOK
<1>5. CASE KernelPublishEnd(t)
  <2>1. JobOK'
    BY <1>5, FinishJob DEF KernelPublishEnd, TypeOK
  <2>2. File("whole", job[t].run, "none", {}) \in Files
    BY FileFacts DEF TypeOK, JobOK, Jobs, Fetched, Links
  <2>3. osboot' \in [Artifacts -> Files]
    BY <1>5, <2>2, CloseType DEF KernelPublishEnd, Artifacts, Inputs
  <2> QED
    BY <1>5, <2>1, <2>3, Frame DEF KernelPublishEnd, TypeOK, OutputsOK
<1> QED
  BY <1>1, <1>2, <1>3, <1>4, <1>5 DEF KernelNext

(* The steps on a rootfs directory.                                        *)
RootfsStep(t, i) ==
  \/ \E l \in Labels : Install(t, i, l)
  \/ Clear(t, i)
  \/ Mknod(t, i)
  \/ \E part \in Parts, l \in Labels : Write(t, i, part, l)
  \/ \E l \in Labels : Chown(t, i, l)
  \/ Cleanup(t, i)

LEMMA RootfsType ==
  ASSUME TypeOK, NEW t \in Terminals, NEW i \in Images, RootfsStep(t, i)
  PROVE  TypeOK'
<1> USE DEF TypeOK
<1>1. JobOK'
  <2> USE GotoJob, AbortJob DEF Labels, Reasons
  <2>1. CASE \E l \in Labels : Install(t, i, l)
    BY <2>1 DEF Install
  <2>2. CASE Clear(t, i)
    BY <2>2 DEF Clear
  <2>3. CASE Mknod(t, i)
    BY <2>3 DEF Mknod
  <2>4. CASE \E part \in Parts, l \in Labels : Write(t, i, part, l)
    BY <2>4 DEF Write
  <2>5. CASE \E l \in Labels : Chown(t, i, l)
    BY <2>5 DEF Chown
  <2>6. CASE Cleanup(t, i)
    BY <2>6, FinishJob DEF Cleanup
  <2> QED
    BY <2>1, <2>2, <2>3, <2>4, <2>5, <2>6 DEF RootfsStep
<1>2. UNCHANGED <<sources, config, outputs, vault, counters>>
  BY DEF RootfsStep, Install, Clear, Mknod, Write, Chown, Cleanup
<1>3. rootfs' \in [Images -> Trees]
  <2>0. rootfs \in [Images -> Trees] /\ config \in Links
    BY DEF BuildingOK
  <2> USE <2>0 DEF Trees, Parts, Links
  <2>1. CASE \E l \in Labels : Install(t, i, l)
    <3>1. CASE UNCHANGED rootfs
      BY <3>1
    <3>2. CASE rootfs' = [rootfs EXCEPT ![i].parts = @ \cup {"busybox"}, ![i].link = config]
      <4>1. [rootfs[i] EXCEPT !.parts = @ \cup {"busybox"}, !.link = config] \in Trees
        OBVIOUS
      <4>2. rootfs' = [rootfs EXCEPT ![i] =
              [rootfs[i] EXCEPT !.parts = @ \cup {"busybox"}, !.link = config]]
        BY <3>2
      <4> QED
        BY <4>1, <4>2
    <3> QED
      BY <2>1, <3>1, <3>2 DEF Install
  <2>2. CASE Clear(t, i)
    <3>1. [parts |-> {"dirs"}, link |-> "none", rootOwned |-> AsRoot] \in Trees
      BY ConstantsAssumption
    <3> QED
      BY <2>2, <3>1 DEF Clear
  <2>a. ASSUME NEW part \in Parts, Add(i, part)
        PROVE  rootfs' \in [Images -> Trees]
    <3>1. [rootfs[i] EXCEPT !.parts = @ \cup {part}] \in Trees
      BY <2>a
    <3>2. rootfs' = [rootfs EXCEPT ![i] = [rootfs[i] EXCEPT !.parts = @ \cup {part}]]
      BY <2>a DEF Add
    <3> QED
      BY <3>1, <3>2
  <2>3. CASE Mknod(t, i)
    BY <2>3, <2>a DEF Mknod
  <2>4. CASE \E part \in Parts, l \in Labels : Write(t, i, part, l)
    BY <2>4, <2>a DEF Write
  <2>5. CASE \E l \in Labels : Chown(t, i, l)
    <3>1. [rootfs[i] EXCEPT !.rootOwned = TRUE] \in Trees
      OBVIOUS
    <3>2. \/ UNCHANGED rootfs
          \/ rootfs' = [rootfs EXCEPT ![i] = [rootfs[i] EXCEPT !.rootOwned = TRUE]]
      BY <2>5 DEF Chown
    <3> QED
      BY <3>1, <3>2
  <2>6. CASE Cleanup(t, i)
    <3>1. EmptyTree \in Trees
      BY DEF EmptyTree
    <3> QED
      BY <2>6, <3>1 DEF Cleanup
  <2> QED
    BY <2>1, <2>2, <2>3, <2>4, <2>5, <2>6 DEF RootfsStep
<1> QED
  BY <1>1, <1>2, <1>3, Frame DEF BuildingOK

LEMMA PackType ==
  ASSUME TypeOK, NEW t \in Terminals, NEW i \in Images,
         Pack(t, i) \/ PackEnd(t, i) \/ PackBroken(t, i)
  PROVE  TypeOK'
<1>0. i \in Artifacts
  BY DEF Images, Artifacts, Inputs
<1>1. CASE Pack(t, i)
  <2>1. JobOK'
    BY <1>1, GotoJob, AbortJob DEF Pack, TypeOK, Labels, Reasons
  <2>2. osboot' \in [Artifacts -> Files]
    BY <1>0, <1>1, OpenType DEF Pack, TypeOK, OutputsOK
  <2> QED
    BY <1>1, <2>1, <2>2, Frame DEF Pack, TypeOK, OutputsOK
<1>2. CASE PackEnd(t, i)
  <2>1. JobOK'
    BY <1>2, GotoJob DEF PackEnd, TypeOK, Labels
  <2>2. File("whole", job[t].run, rootfs[i].link, rootfs[i].parts) \in Files
    BY FileFacts DEF TypeOK, JobOK, Jobs, BuildingOK, Trees, Fetched
  <2>3. osboot' \in [Artifacts -> Files]
    BY <1>0, <1>2, <2>2, CloseType DEF PackEnd
  <2> QED
    BY <1>2, <2>1, <2>3, Frame DEF PackEnd, TypeOK, OutputsOK
<1>3. CASE PackBroken(t, i)
  <2>1. JobOK'
    BY <1>3, GotoJob DEF PackBroken, TypeOK, Labels
  <2> QED
    BY <1>3, <2>1, Frame DEF PackBroken, TypeOK
<1> QED
  BY <1>1, <1>2, <1>3

LEMMA SingleType ==
  ASSUME TypeOK, NEW t \in Terminals, SingleNext(t)
  PROVE  TypeOK'
<1>1. CASE SingleStart(t)
  BY <1>1, StartType DEF SingleStart, Scripts, Labels
<1>2. CASE SingleFetch(t) \/ SingleUntar(t)
  BY <1>2, SourcesType DEF SingleFetch, SingleUntar, Packages
<1>3. CASE SingleDefconfig(t) \/ SingleLink(t) \/ SingleMake(t)
  <2>1. JobOK'
    BY <1>3, GotoJob, AbortJob
       DEF SingleDefconfig, SingleLink, SingleMake, TypeOK, Labels, Reasons
  <2>2. BuildingOK'
    BY <1>3 DEF SingleDefconfig, SingleLink, SingleMake, TypeOK, BuildingOK, building, Links
  <2> QED
    BY <1>3, <2>1, <2>2, Frame DEF SingleDefconfig, SingleLink, SingleMake, TypeOK
<1>4. CASE SingleInstall(t) \/ SingleRootfs(t) \/ SingleCleanup(t)
  <2>1. "single" \in Images
    BY DEF Images
  <2>2. RootfsStep(t, "single")
    BY <1>4 DEF SingleInstall, SingleRootfs, SingleCleanup, RootfsStep, Labels, Parts
  <2> QED
    BY <2>1, <2>2, RootfsType
<1>5. CASE SinglePack(t)
  BY <1>5, PackType DEF SinglePack, Images
<1> QED
  BY <1>1, <1>2, <1>3, <1>4, <1>5 DEF SingleNext

LEMMA MultiType ==
  ASSUME TypeOK, NEW t \in Terminals, MultiNext(t)
  PROVE  TypeOK'
<1>1. CASE MultiStart(t)
  BY <1>1, StartType DEF MultiStart, Scripts, Labels
<1>2. CASE MultiCheck(t)
  <2>1. JobOK'
    BY <1>2, GotoJob, AbortJob DEF MultiCheck, TypeOK, Labels, Reasons
  <2> QED
    BY <1>2, <2>1, Frame DEF MultiCheck, TypeOK
<1>3. CASE MultiRootfs(t) \/ MultiCleanup(t)
  <2>1. "multi" \in Images
    BY DEF Images
  <2>2. RootfsStep(t, "multi")
    BY <1>3 DEF MultiRootfs, MultiCleanup, RootfsStep, Labels, Parts
  <2> QED
    BY <2>1, <2>2, RootfsType
<1>4. CASE MultiPack(t)
  BY <1>4, PackType DEF MultiPack, Images
<1> QED
  BY <1>1, <1>2, <1>3, <1>4 DEF MultiNext

LEMMA IsoType ==
  ASSUME TypeOK, NEW t \in Terminals, IsoNext(t)
  PROVE  TypeOK'
<1> USE DEF TypeOK
<1>0. NoDir \in [Inputs -> Files] \cup {NoDir} /\ EmptyDir \in [Inputs -> Files]
  BY AbsentFile DEF EmptyDir
<1>1. CASE IsoStart(t)
  BY <1>1, StartType DEF IsoStart, Scripts, Labels
<1>2. CASE IsoCheck(t)
  <2>1. JobOK'
    BY <1>2, LoopJob, AbortJob DEF IsoCheck, Labels, Reasons
  <2> QED
    BY <1>2, <2>1, Frame DEF IsoCheck
<1>3. CASE IsoClear(t) \/ IsoCleanup(t)
  <2>1. JobOK'
    BY <1>3, GotoJob, FinishJob DEF IsoClear, IsoCleanup, Labels
  <2> QED
    BY <1>0, <1>3, <2>1, Frame DEF IsoClear, IsoCleanup, OutputsOK
<1>4. CASE IsoCopy(t)
  <2>1. JobOK'
    BY <1>4, LoopJob, AbortJob DEF IsoCopy, Labels, Reasons
  <2>2. job[t].at \in 1 .. 3
    BY <1>4, Lists DEF IsoCopy, At, JobOK, FileList
  <2>3. IsoOrder[job[t].at] \in Inputs /\ Inputs \subseteq Artifacts
    BY <2>2, Lists DEF Artifacts
  <2>4. isoDir' \in [Inputs -> Files] \cup {NoDir}
    BY <1>4, <2>3 DEF IsoCopy, OutputsOK
  <2> QED
    BY <1>4, <2>1, <2>4, Frame DEF IsoCopy, OutputsOK
<1>5. CASE IsoMkrescue(t)
  <2>1. JobOK'
    BY <1>5, GotoJob, AbortJob DEF IsoMkrescue, Labels, Reasons
  <2>2. osboot' \in [Artifacts -> Files]
    BY <1>5, OpenType DEF IsoMkrescue, Artifacts, OutputsOK
  <2> QED
    BY <1>5, <2>1, <2>2, Frame DEF IsoMkrescue, OutputsOK
<1>6. CASE IsoBurnt(t)
  <2>1. JobOK'
    BY <1>6, GotoJob, AbortJob DEF IsoBurnt, Labels, Reasons
  <2>2. File("whole", job[t].run, "none", {}) \in Files
    BY FileFacts DEF JobOK, Jobs, Fetched, Links
  <2>3. osboot' \in [Artifacts -> Files]
    BY <1>6, <2>2, CloseType DEF IsoBurnt, Artifacts, OutputsOK
  <2>4. isoParts' \in [Inputs -> Files]
    BY <1>6 DEF IsoBurnt, OutputsOK
  <2> QED
    BY <1>6, <2>1, <2>3, <2>4, Frame DEF IsoBurnt, OutputsOK
<1> QED
  BY <1>1, <1>2, <1>3, <1>4, <1>5, <1>6 DEF IsoNext

LEMMA BackupType ==
  ASSUME TypeOK, NEW t \in Terminals, BackupNext(t)
  PROVE  TypeOK'
<1> USE DEF TypeOK
<1>1. CASE BackupStart(t)
  BY <1>1, StartType DEF BackupStart, Scripts, Labels
<1>2. CASE BackupCheck(t)
  <2> DEFINE missing == IF osboot[BackupOrder[job[t].at]] = Absent THEN 1 ELSE job[t].missing
             j == [job[t] EXCEPT !.at = @ + 1, !.missing = missing]
  <2>1. CASE job[t].at < Len(BackupOrder)
    <3>1. job[t] \in Jobs /\ job[t].at \in 1 .. 4 /\ job[t].script = "backup"
      BY <1>2, Lists DEF BackupCheck, At, JobOK, FileList
    <3>2. missing \in {0, 1}
      BY DEF JobOK, Jobs
    <3>3. job' = [job EXCEPT ![t].at = @ + 1, ![t].missing = missing]
      BY <1>2, <2>1 DEF BackupCheck
    <3> HIDE DEF missing
    <3>4. job' = [job EXCEPT ![t] = j]
      BY <3>3 DEF JobOK, Jobs
    <3>5. j \in Jobs /\ j.at = job[t].at + 1 /\ j.script = "backup"
      <4> DEFINE k == job[t].at + 1
      <4>1. k \in Nat
        BY <3>1 DEF Jobs
      <4> HIDE DEF k
      <4>2. /\ [job[t] EXCEPT !.at = k, !.missing = missing] \in Jobs
            /\ [job[t] EXCEPT !.at = k, !.missing = missing].at = k
            /\ [job[t] EXCEPT !.at = k, !.missing = missing].script = job[t].script
        BY <3>1, <3>2, <4>1, NextRound
      <4> QED
        BY <3>1, <4>2 DEF k
    <3> HIDE DEF j
    <3>6. FileList(j.script) = BackupOrder
      BY <3>5 DEF FileList
    <3>7. j.at \in 1 .. Len(FileList(j.script))
      <4>1. Len(BackupOrder) = 4
        BY Lists
      <4>2. job[t].at + 1 \in 1 .. 4
        BY <2>1, <3>1, <4>1
      <4> QED
        BY <3>5, <3>6, <4>1, <4>2
    <3>8. JobOK'
      BY <3>4, <3>5, <3>7, JobStep
    <3> QED
      BY <1>2, <3>8, Frame DEF BackupCheck
  <2>2. CASE ~(job[t].at < Len(BackupOrder))
    <3>1. JobOK'
      BY <1>2, <2>2, GotoJob, AbortJob DEF BackupCheck, Labels, Reasons
    <3> QED
      BY <1>2, <3>1, Frame DEF BackupCheck
  <2> QED
    BY <2>1, <2>2
<1>3. CASE BackupZip(t)
  <2>1. JobOK'
    BY <1>3, GotoJob DEF BackupZip, Labels
  <2>2. VaultOK'
    BY <1>3 DEF BackupZip, VaultOK, OutputsOK
  <2> QED
    BY <1>3, <2>1, <2>2, Frame DEF BackupZip
<1>4. CASE BackupRemove(t)
  <2>1. JobOK'
    BY <1>4, LoopJob DEF BackupRemove, Labels
  <2>2. BackupOrder[job[t].at] \in Artifacts
    BY <1>4, Lists DEF BackupRemove, At, JobOK, FileList
  <2>3. OutputsOK' /\ VaultOK'
    BY <1>4, <2>2, AbsentFile DEF BackupRemove, OutputsOK, VaultOK
  <2> QED
    BY <1>4, <2>1, <2>3, Frame DEF BackupRemove
<1> QED
  BY <1>1, <1>2, <1>3, <1>4 DEF BackupNext

LEMMA InitType == Init => TypeOK
<1> SUFFICES ASSUME Init PROVE TypeOK
  OBVIOUS
<1>1. BuildingOK
  BY DEF Init, FreshClone, CheckedIn, BuildingOK, EmptyTree, Trees, Fetched, Links
<1>2. osboot \in [Artifacts -> Files]
  <2>1. File("whole", 0, "static", Parts) \in Files /\ File("whole", 0, "none", {}) \in Files
    BY FileFacts DEF Fetched, Links
  <2> QED
    BY <2>1, AbsentFile DEF Init, FreshClone, CheckedIn
<1>3. OutputsOK
  BY <1>2, AbsentFile DEF Init, OutputsOK, EmptyDir
<1>4. NoJob \in Jobs /\ NoJob.at = 1
  BY DEF NoJob, Jobs, Labels, Reasons
<1>5. JobOK
  BY <1>4, FirstOfList DEF Init, JobOK
<1> QED
  BY <1>1, <1>3, <1>5 DEF Init, TypeOK, VaultOK

(* Every variable keeps its type, every loop stays within its list: a      *)
(* script never asks for a file past the end of FILES.                     *)
THEOREM TypeCorrect == Spec => []TypeOK
<1>1. Init => TypeOK
  BY InitType
<1>2. TypeOK /\ [Next]_vars => TypeOK'
  <2> SUFFICES ASSUME TypeOK, [Next]_vars PROVE TypeOK'
    OBVIOUS
  <2>1. CASE UNCHANGED vars
    BY <2>1, Frame DEF vars, TypeOK, JobOK
  <2>2. CASE Next
    <3> PICK t \in Terminals : ScriptNext(t) \/ Interrupt(t)
      BY <2>2 DEF Next
    <3> QED
      BY KernelType, SingleType, MultiType, IsoType, BackupType, InterruptType
         DEF ScriptNext
  <2> QED
    BY <2>1, <2>2
<1> QED
  BY <1>1, <1>2, PTL DEF Spec
-----------------------------------------------------------------------------
(* Backups.  What follows holds if nothing else runs while backup.sh does. *)

BackupRunsAlone == \A c \in Compatible : "backup" \notin c

(* The jobs of the other terminals, and the run of this one, stay.         *)
Keeps(t) ==
  /\ \A u \in Terminals \ {t} : job'[u] = job[u]
  /\ job'[t].script = job[t].script /\ job'[t].run = job[t].run

LEMMA ControlKeeps ==
  ASSUME JobOK, NEW t \in Terminals
  PROVE  /\ \A l : Goto(t, l) => Keeps(t) /\ job'[t].pc = l /\ job'[t].at = 1
         /\ \A r : Abort(t, r) => Keeps(t) /\ job'[t].pc = "failed"
         /\ \A l : Loop(t, l) => Keeps(t) /\ job'[t].pc \in {job[t].pc, l}
<1>1. \A l : Goto(t, l) => Keeps(t) /\ job'[t].pc = l /\ job'[t].at = 1
  BY DEF JobOK, Jobs, Goto, Keeps
<1>2. \A r : Abort(t, r) => Keeps(t) /\ job'[t].pc = "failed"
  BY DEF JobOK, Jobs, Abort, Keeps
<1>3. \A l : Loop(t, l) => Keeps(t) /\ job'[t].pc \in {job[t].pc, l}
  <2> SUFFICES ASSUME NEW l, Loop(t, l)
               PROVE  Keeps(t) /\ job'[t].pc \in {job[t].pc, l}
    OBVIOUS
  <2>1. CASE job' = [job EXCEPT ![t].at = @ + 1]
    BY <2>1 DEF JobOK, Jobs, Keeps
  <2> QED
    BY <1>1, <2>1 DEF Loop
<1> QED
  BY <1>1, <1>2, <1>3

(* A step of a script is a start, or a step of a script that runs.         *)
Started(t) == \E s \in Scripts, l \in Labels \ Ended : Start(t, s, l)
Moves(t)   == Running(t) /\ Keeps(t)

(* A step of a script other than backup.sh leaves the backups alone and    *)
(* writes at most one artifact.                                            *)
Builds(t) ==
  /\ UNCHANGED vault
  /\ \/ Moves(t) /\ job[t].script # "backup"
     \/ Started(t) /\ job'[t].script # "backup"
  /\ UNCHANGED osboot \/ \E f \in Artifacts : Store!Rewrite(f)

LEMMA Written ==
  ASSUME TypeOK, NEW t \in Terminals, NEW f \in Artifacts, UNCHANGED archives,
         Open(t, f) \/ \E file \in Files : file.state = "whole" /\ Close(t, f, file)
  PROVE  UNCHANGED osboot \/ Store!Rewrite(f)
<1>1. Opened(job[t].run) # Absent
  BY DEF Opened, Absent, File
<1>2. \A file : file.state = "whole" => file # Absent
  BY DEF Absent, File
<1>3. osboot \in [Artifacts -> Files]
  BY DEF TypeOK, OutputsOK
<1>4. CASE osboot[f] = Absent /\ ~Open(t, f)
  <2>1. osboot' = [osboot EXCEPT ![f] = osboot[f]]
    BY <1>4 DEF Close
  <2> QED
    BY <2>1, <1>3
<1>5. CASE osboot[f] # Absent \/ Open(t, f)
  <2>1. osboot' = [osboot EXCEPT ![f] = osboot'[f]] /\ osboot'[f] # Absent
    BY <1>1, <1>2, <1>3, <1>5 DEF Open, Close
  <2> QED
    BY <2>1 DEF Store!Rewrite
<1> QED
  BY <1>4, <1>5

LEMMA WholeFile ==
  \A run, link, parts : File("whole", run, link, parts).state = "whole"
BY DEF File

(* A step at a label of script s that moves on.                            *)
LEMMA BuildsIf ==
  ASSUME TypeOK, NEW t \in Terminals, NEW s \in Scripts \ {"backup"},
         job[t].script = s, Running(t), Keeps(t), UNCHANGED vault,
         UNCHANGED osboot \/ \E f \in Artifacts : Store!Rewrite(f)
  PROVE  Builds(t)
BY DEF Builds, Moves

LEMMA StartBuilds ==
  ASSUME TypeOK, NEW t \in Terminals, NEW s \in Scripts \ {"backup"},
         NEW l \in Labels \ Ended, Start(t, s, l)
  PROVE  Builds(t)
<1>1. job'[t].script = s
  BY DEF TypeOK, JobOK, Start
<1>2. Started(t)
  BY DEF Started
<1> QED
  BY <1>1, <1>2 DEF Builds, Start, outputs, vault

LEMMA SourcesBuild ==
  ASSUME TypeOK, NEW t \in Terminals, NEW p \in Packages,
         Fetch(t, p) \/ FetchEnd(t, p) \/ Untar(t, p) \/ UntarEnd(t, p)
  PROVE  Keeps(t) /\ UNCHANGED vault /\ UNCHANGED osboot
BY ControlKeeps DEF TypeOK, Fetch, FetchEnd, Untar, UntarEnd, outputs

LEMMA RootfsBuild ==
  ASSUME TypeOK, NEW t \in Terminals, NEW i \in Images, RootfsStep(t, i)
  PROVE  Keeps(t) /\ UNCHANGED vault /\ UNCHANGED osboot
BY ControlKeeps
   DEF TypeOK, RootfsStep, Install, Clear, Mknod, Write, Chown, Cleanup, Finish, outputs

LEMMA PackBuild ==
  ASSUME TypeOK, NEW t \in Terminals, NEW i \in Images,
         Pack(t, i) \/ PackEnd(t, i) \/ PackBroken(t, i)
  PROVE  /\ Keeps(t) /\ UNCHANGED vault
         /\ UNCHANGED osboot \/ \E f \in Artifacts : Store!Rewrite(f)
<1>1. i \in Artifacts
  BY DEF Images, Artifacts, Inputs
<1>2. Keeps(t) /\ UNCHANGED vault
  BY ControlKeeps DEF TypeOK, Pack, PackEnd, PackBroken
<1>3. File("whole", job[t].run, rootfs[i].link, rootfs[i].parts) \in Files
  BY FileFacts DEF TypeOK, JobOK, Jobs, BuildingOK, Trees, Fetched
<1>4. UNCHANGED osboot \/ Open(t, i)
        \/ \E file \in Files : file.state = "whole" /\ Close(t, i, file)
  BY <1>3, WholeFile DEF Pack, PackEnd, PackBroken, outputs
<1> QED
  BY <1>1, <1>2, <1>4, Written DEF vault

LEMMA KernelBuilds ==
  ASSUME TypeOK, NEW t \in Terminals, KernelNext(t)
  PROVE  Builds(t)
<1>0. "kernel" \in Scripts \ {"backup"} /\ "bzImage" \in Artifacts
  BY DEF Scripts, Artifacts, Inputs
<1>1. CASE KernelStart(t)
  BY <1>0, <1>1, StartBuilds DEF KernelStart, Labels, Ended
<1>2. CASE KernelFetch(t) \/ KernelUntar(t)
  BY <1>0, <1>2, SourcesBuild, BuildsIf
     DEF KernelFetch, KernelUntar, Packages, At, Running, Ended
<1>3. CASE KernelMake(t)
  <2>1. Keeps(t)
    BY <1>3, ControlKeeps DEF KernelMake, TypeOK
  <2> QED
    BY <1>0, <1>3, <2>1, BuildsIf DEF KernelMake, At, Running, Ended, outputs
<1>4. CASE KernelPublish(t) \/ KernelPublishEnd(t)
  <2>1. Keeps(t)
    BY <1>4, ControlKeeps DEF KernelPublish, KernelPublishEnd, Finish, TypeOK
  <2>2. File("whole", job[t].run, "none", {}) \in Files
    BY FileFacts DEF TypeOK, JobOK, Jobs, Fetched, Links
  <2>3. UNCHANGED osboot \/ Store!Rewrite("bzImage")
    BY <1>0, <1>4, <2>2, Written, WholeFile DEF KernelPublish, KernelPublishEnd, vault
  <2> QED
    BY <1>0, <1>4, <2>1, <2>3, BuildsIf
       DEF KernelPublish, KernelPublishEnd, At, Running, Ended
<1> QED
  BY <1>1, <1>2, <1>3, <1>4 DEF KernelNext

LEMMA SingleBuilds ==
  ASSUME TypeOK, NEW t \in Terminals, SingleNext(t)
  PROVE  Builds(t)
<1>0. "single" \in Scripts \ {"backup"} /\ "single" \in Images
  BY DEF Scripts, Images
<1>1. CASE SingleStart(t)
  BY <1>0, <1>1, StartBuilds DEF SingleStart, Labels, Ended
<1>2. CASE SingleFetch(t) \/ SingleUntar(t)
  BY <1>0, <1>2, SourcesBuild, BuildsIf
     DEF SingleFetch, SingleUntar, Packages, At, Running, Ended
<1>3. CASE SingleDefconfig(t) \/ SingleLink(t) \/ SingleMake(t)
  <2>1. Keeps(t)
    BY <1>3, ControlKeeps DEF SingleDefconfig, SingleLink, SingleMake, TypeOK
  <2> QED
    BY <1>0, <1>3, <2>1, BuildsIf
       DEF SingleDefconfig, SingleLink, SingleMake, At, Running, Ended, outputs
<1>4. CASE SingleInstall(t) \/ SingleRootfs(t) \/ SingleCleanup(t)
  <2>1. RootfsStep(t, "single")
    BY <1>4 DEF SingleInstall, SingleRootfs, SingleCleanup, RootfsStep, Labels, Parts
  <2>2. job[t].script = "single" /\ Running(t)
    BY <1>4 DEF SingleInstall, SingleRootfs, SingleCleanup, At, Running, Ended
  <2> QED
    BY <1>0, <2>1, <2>2, RootfsBuild, BuildsIf
<1>5. CASE SinglePack(t)
  BY <1>0, <1>5, PackBuild, BuildsIf DEF SinglePack, At, Running, Ended
<1> QED
  BY <1>1, <1>2, <1>3, <1>4, <1>5 DEF SingleNext

LEMMA MultiBuilds ==
  ASSUME TypeOK, NEW t \in Terminals, MultiNext(t)
  PROVE  Builds(t)
<1>0. "multi" \in Scripts \ {"backup"} /\ "multi" \in Images
  BY DEF Scripts, Images
<1>1. CASE MultiStart(t)
  BY <1>0, <1>1, StartBuilds DEF MultiStart, Labels, Ended
<1>2. CASE MultiCheck(t)
  <2>1. Keeps(t)
    BY <1>2, ControlKeeps DEF MultiCheck, TypeOK
  <2> QED
    BY <1>0, <1>2, <2>1, BuildsIf DEF MultiCheck, At, Running, Ended, outputs
<1>3. CASE MultiRootfs(t) \/ MultiCleanup(t)
  <2>1. RootfsStep(t, "multi")
    BY <1>3 DEF MultiRootfs, MultiCleanup, RootfsStep, Labels, Parts
  <2>2. job[t].script = "multi" /\ Running(t)
    BY <1>3 DEF MultiRootfs, MultiCleanup, At, Running, Ended
  <2> QED
    BY <1>0, <2>1, <2>2, RootfsBuild, BuildsIf
<1>4. CASE MultiPack(t)
  BY <1>0, <1>4, PackBuild, BuildsIf DEF MultiPack, At, Running, Ended
<1> QED
  BY <1>1, <1>2, <1>3, <1>4 DEF MultiNext

LEMMA IsoBuilds ==
  ASSUME TypeOK, NEW t \in Terminals, IsoNext(t)
  PROVE  Builds(t)
<1>0. "iso" \in Scripts \ {"backup"} /\ "iso" \in Artifacts
  BY DEF Scripts, Artifacts
<1>1. CASE IsoStart(t)
  BY <1>0, <1>1, StartBuilds DEF IsoStart, Labels, Ended
<1>2. CASE IsoCheck(t) \/ IsoClear(t) \/ IsoCopy(t) \/ IsoCleanup(t)
  <2>1. Keeps(t)
    BY <1>2, ControlKeeps DEF IsoCheck, IsoClear, IsoCopy, IsoCleanup, Finish, TypeOK
  <2> QED
    BY <1>0, <1>2, <2>1, BuildsIf
       DEF IsoCheck, IsoClear, IsoCopy, IsoCleanup, At, Running, Ended, outputs
<1>3. CASE IsoMkrescue(t) \/ IsoBurnt(t)
  <2>1. Keeps(t)
    BY <1>3, ControlKeeps DEF IsoMkrescue, IsoBurnt, TypeOK
  <2>2. File("whole", job[t].run, "none", {}) \in Files
    BY FileFacts DEF TypeOK, JobOK, Jobs, Fetched, Links
  <2>3. UNCHANGED osboot \/ Store!Rewrite("iso")
    BY <1>0, <1>3, <2>2, Written, WholeFile DEF IsoMkrescue, IsoBurnt, vault
  <2> QED
    BY <1>0, <1>3, <2>1, <2>3, BuildsIf DEF IsoMkrescue, IsoBurnt, At, Running, Ended
<1> QED
  BY <1>1, <1>2, <1>3 DEF IsoNext

-----------------------------------------------------------------------------
(* While backup.sh runs in one terminal, no other terminal takes a step.   *)
LEMMA NoOtherMoves ==
  ASSUME BackupRunsAlone, Alone, NEW t \in Terminals, NEW u \in Terminals,
         Running(u), job[u].script = "backup", Moves(t) \/ Started(t)
  PROVE  t = u
<1>1. CASE Moves(t)
  <2>1. Running(t)
    BY <1>1 DEF Moves
  <2> QED
    BY <2>1 DEF Alone
<1>2. CASE Started(t)
  <2> PICK s \in Scripts, l \in Labels \ Ended : Start(t, s, l)
    BY <1>2 DEF Started
  <2>1. {s, "backup"} \in Compatible
    BY DEF Start
  <2> QED
    BY <2>1 DEF BackupRunsAlone
<1> QED
  BY <1>1, <1>2

LEMMA AlonePreserved ==
  ASSUME BackupRunsAlone, TypeOK, Alone, NEW t \in Terminals, Moves(t) \/ Started(t)
  PROVE  Alone'
<1> SUFFICES ASSUME NEW u \in Terminals, NEW v \in Terminals,
                    Running(u)', Running(v)', job'[u].script = "backup", u # v
             PROVE  FALSE
  BY DEF Alone
<1>1. \A w \in Terminals \ {t} : job'[w] = job[w]
  BY DEF Moves, Keeps, Started, Start, TypeOK, JobOK
<1>2. CASE u # t
  <2>1. Running(u) /\ job[u].script = "backup"
    BY <1>1, <1>2 DEF Running
  <2>2. t = u
    BY <2>1, NoOtherMoves
  <2> QED
    BY <1>2, <2>2
<1>3. CASE u = t
  <2>1. Running(v)
    BY <1>1, <1>3 DEF Running
  <2>2. CASE Moves(t)
    BY <1>3, <2>1, <2>2 DEF Moves, Keeps, Alone
  <2>3. CASE Started(t)
    <3> PICK s \in Scripts, l \in Labels \ Ended : Start(t, s, l)
      BY <2>3 DEF Started
    <3>1. s = "backup"
      BY <1>3 DEF Start, TypeOK, JobOK
    <3>2. {s, job[v].script} \in Compatible
      BY <2>1 DEF Start
    <3> QED
      BY <3>1, <3>2 DEF BackupRunsAlone
  <2> QED
    BY <2>2, <2>3
<1> QED
  BY <1>2, <1>3

(* After a step of another script, or an interruption, backup.sh runs      *)
(* nowhere, so that there is nothing to show about it.                     *)
LEMMA QuietPreserved ==
  ASSUME BackupRunsAlone, BackupInv, NEW t \in Terminals, UNCHANGED vault,
         Moves(t) \/ Started(t),
         job'[t].script # "backup" \/ ~Running(t)'
  PROVE  /\ Alone' /\ NothingLost'
         /\ \A u \in Terminals : Covered(u)' /\ Checked(u)'
<1>1. Alone' /\ NothingLost'
  BY AlonePreserved DEF BackupInv, NothingLost, vault
<1>2. ASSUME NEW u \in Terminals, Running(u)', job'[u].script = "backup"
      PROVE  FALSE
  <2>1. u # t
    BY <1>2
  <2>2. job'[u] = job[u]
    BY <2>1 DEF Moves, Keeps, Started, Start, BackupInv, TypeOK, JobOK
  <2>3. Running(u) /\ job[u].script = "backup"
    BY <1>2, <2>2 DEF Running
  <2> QED
    BY <2>1, <2>3, NoOtherMoves DEF BackupInv
<1>3. \A u \in Terminals : Covered(u)' /\ Checked(u)'
  BY <1>2 DEF Covered, Checked, At, Running, Ended
<1> QED
  BY <1>1, <1>3

(* A step of backup.sh in terminal t leaves the others as they are, and    *)
(* they do not run backup.sh.                                              *)
LEMMA BackupElsewhere ==
  ASSUME BackupRunsAlone, BackupInv, NEW t \in Terminals,
         Moves(t) \/ Started(t), NEW u \in Terminals \ {t}
  PROVE  Covered(u)' /\ Checked(u)'
<1>1. job'[u] = job[u]
  BY DEF Moves, Keeps, Started, Start, BackupInv, TypeOK, JobOK
<1>2. ~(Running(u) /\ job[u].script = "backup")
  BY NoOtherMoves DEF BackupInv
<1>3. ~(Running(u)' /\ job'[u].script = "backup")
  BY <1>1, <1>2 DEF Running
<1> QED
  BY <1>3 DEF Covered, Checked, At, Running, Ended

LEMMA CheckPreserves ==
  ASSUME BackupRunsAlone, BackupInv, NEW t \in Terminals, BackupCheck(t)
  PROVE  Covered(t)' /\ Checked(t)' /\ NothingLost' /\ Moves(t)
<1> USE DEF BackupInv, TypeOK
<1>1. Running(t) /\ job[t].script = "backup" /\ job[t].pc = "check" /\ UNCHANGED <<outputs, vault>>
  BY DEF BackupCheck, At, Running, Ended
<1>2. NothingLost'
  BY <1>1 DEF NothingLost, vault
<1>3. job[t].at \in 1 .. 4 /\ Len(BackupOrder) = 4
  BY <1>1, Lists DEF JobOK, FileList
<1>4. \A k \in 1 .. job[t].at - 1 : job[t].missing = 0 => osboot[BackupOrder[k]] # Absent
  BY <1>1 DEF Checked, At
<1>5. CASE job[t].at < 4
  <2> DEFINE missing == IF osboot[BackupOrder[job[t].at]] = Absent THEN 1 ELSE job[t].missing
  <2>1. job' = [job EXCEPT ![t].at = @ + 1, ![t].missing = missing]
    BY <1>3, <1>5 DEF BackupCheck
  <2> HIDE DEF missing
  <2>2. /\ Keeps(t) /\ job'[t].pc = "check" /\ job'[t].at = job[t].at + 1
        /\ job'[t].missing = missing
    BY <1>1, <2>1 DEF JobOK, Jobs, Keeps
  <2>3. ASSUME missing = 0, NEW k \in 1 .. job[t].at
        PROVE  osboot[BackupOrder[k]] # Absent
    BY <1>3, <1>4, <2>3 DEF missing
  <2>4. Checked(t)'
    <3>1. \A k \in 1 .. job'[t].at - 1 : k \in 1 .. job[t].at
      BY <1>3, <2>2
    <3>2. UNCHANGED osboot
      BY <1>1 DEF outputs
    <3> QED
      BY <2>2, <2>3, <3>1, <3>2 DEF Checked, At
  <2> QED
    BY <1>1, <1>2, <2>2, <2>4 DEF Covered, At, Moves
<1>6. CASE ~(job[t].at < 4)
  <2> DEFINE missing == IF osboot[BackupOrder[4]] = Absent THEN 1 ELSE job[t].missing
  <2>0. job[t].at = 4
    BY <1>3, <1>6
  <2>1. IF missing = 1 THEN Abort(t, "missing") ELSE Goto(t, "zip")
    BY <1>3, <1>6, <2>0 DEF BackupCheck
  <2>2. CASE missing = 1
    BY <1>1, <1>2, <2>1, <2>2, ControlKeeps DEF Covered, Checked, At, Moves
  <2>3. CASE missing # 1
    <3>1. Keeps(t) /\ job'[t].pc = "zip"
      BY <2>1, <2>3, ControlKeeps
    <3>2. job[t].missing \in {0, 1}
      BY DEF JobOK, Jobs
    <3>3. job[t].missing = 0 /\ osboot[BackupOrder[4]] # Absent
      BY <2>3, <3>2
    <3>4. \A k \in 1 .. 4 : osboot[BackupOrder[k]] # Absent
      BY <1>4, <2>0, <3>3
    <3>5. \A f \in Artifacts : osboot[f] # Absent
      BY <3>4 DEF Artifacts, Inputs, BackupOrder
    <3> QED
      BY <1>1, <1>2, <3>1, <3>5 DEF Covered, Checked, At, Moves, outputs
  <2> QED
    BY <2>2, <2>3
<1> QED
  BY <1>5, <1>6

LEMMA ZipPreserves ==
  ASSUME BackupRunsAlone, BackupInv, NEW t \in Terminals, BackupZip(t)
  PROVE  Covered(t)' /\ Checked(t)' /\ NothingLost' /\ Moves(t)
<1>1. Moves(t) /\ job'[t].pc = "remove" /\ job'[t].at = 1
  BY ControlKeeps DEF BackupZip, At, Running, Ended, Moves, BackupInv, TypeOK
<1>2. archives' = archives \cup {osboot} /\ UNCHANGED <<osboot, removed>>
  BY DEF BackupZip, outputs
<1>3. Covered(t)'
  BY <1>2 DEF Covered
<1>4. Checked(t)'
  BY <1>1 DEF Checked, At
<1>5. NothingLost'
  BY <1>2 DEF BackupInv, NothingLost
<1> QED
  BY <1>1, <1>3, <1>4, <1>5

LEMMA RemovePreserves ==
  ASSUME BackupRunsAlone, BackupInv, NEW t \in Terminals, BackupRemove(t)
  PROVE  Covered(t)' /\ Checked(t)' /\ NothingLost' /\ Moves(t)
<1> USE DEF BackupInv, TypeOK
<1>1. /\ At(t, "backup", "remove") /\ Running(t)
      /\ UNCHANGED archives /\ Loop(t, "done")
  BY DEF BackupRemove, At, Running, Ended
<1>2. job[t].at \in 1 .. 4 /\ FileList(job[t].script) = BackupOrder /\ Len(BackupOrder) = 4
  BY <1>1, Lists DEF At, JobOK, FileList
<1>3. PICK z \in archives :
        \A k \in job[t].at .. 4 : z[BackupOrder[k]] = osboot[BackupOrder[k]]
  BY <1>1 DEF Covered
<1> DEFINE f == BackupOrder[job[t].at]
<1>4. f \in Artifacts /\ osboot' = [osboot EXCEPT ![f] = Absent] /\ z[f] = osboot[f]
  BY <1>2, <1>3, Lists DEF BackupRemove
<1>5. removed' \subseteq removed \cup {<<f, osboot[f]>>}
  BY DEF BackupRemove
<1> HIDE DEF f
<1>6. NothingLost'
  BY <1>1, <1>4, <1>5 DEF NothingLost
<1>7. Moves(t)
  BY <1>1, ControlKeeps DEF Moves
<1>8. job'[t].pc \in {"remove", "done"}
  BY <1>1, ControlKeeps DEF At
<1>9. Checked(t)'
  BY <1>8 DEF Checked, At
<1>10. Covered(t)'
  <2> SUFFICES ASSUME job'[t].pc = "remove"
               PROVE  \A k \in job'[t].at .. 4 : z[BackupOrder[k]] = osboot'[BackupOrder[k]]
    BY <1>1 DEF Covered, At
  <2>1. job[t].at < 4 /\ job' = [job EXCEPT ![t].at = @ + 1]
    BY <1>1, <1>2, ControlKeeps DEF Loop
  <2>2. job'[t].at = job[t].at + 1
    BY <2>1 DEF JobOK, Jobs
  <2>3. ASSUME NEW k \in job'[t].at .. 4
        PROVE  z[BackupOrder[k]] = osboot'[BackupOrder[k]]
    <3>1. k \in job[t].at .. 4 /\ k \in 1 .. 4 /\ k # job[t].at
      BY <1>2, <2>2
    <3>2. BackupOrder[k] # f /\ BackupOrder[k] \in Artifacts
      BY <1>2, <3>1, Lists DEF f, BackupOrder
    <3> QED
      BY <1>3, <1>4, <3>1, <3>2 DEF OutputsOK
  <2> QED
    BY <2>3
<1> QED
  BY <1>6, <1>7, <1>9, <1>10

LEMMA InterruptQuiet ==
  ASSUME TypeOK, NEW t \in Terminals, Interrupt(t)
  PROVE  Moves(t) /\ UNCHANGED vault /\ UNCHANGED osboot /\ ~Running(t)'
BY ControlKeeps DEF Interrupt, Moves, TypeOK, outputs, Running, Ended

LEMMA BackupStartQuiet ==
  ASSUME TypeOK, NEW t \in Terminals, BackupStart(t)
  PROVE  /\ Started(t) /\ UNCHANGED vault /\ UNCHANGED osboot
         /\ At(t, "backup", "check")' /\ job'[t].at = 1
BY DEF BackupStart, Start, Started, TypeOK, JobOK, At, Scripts, Labels, Ended, outputs

LEMMA ScriptStep ==
  ASSUME TypeOK, NEW t \in Terminals, ScriptNext(t)
  PROVE  Builds(t) \/ BackupNext(t)
BY KernelBuilds, SingleBuilds, MultiBuilds, IsoBuilds DEF ScriptNext

LEMMA BackupInvStep ==
  ASSUME BackupRunsAlone, BackupInv, Next
  PROVE  /\ Alone' /\ NothingLost'
         /\ \A u \in Terminals : Covered(u)' /\ Checked(u)'
<1> PICK t \in Terminals : ScriptNext(t) \/ Interrupt(t)
  BY DEF Next
<1>0. TypeOK
  BY DEF BackupInv
<1>1. CASE Builds(t)
  BY <1>1, QuietPreserved DEF Builds, Moves, Keeps
<1>2. CASE Interrupt(t)
  BY <1>0, <1>2, InterruptQuiet, QuietPreserved
<1>3. CASE BackupStart(t)
  <2>1. /\ Started(t) /\ UNCHANGED vault /\ UNCHANGED osboot
        /\ At(t, "backup", "check")' /\ job'[t].at = 1
    BY <1>0, <1>3, BackupStartQuiet
  <2>2. Alone' /\ NothingLost'
    BY <1>0, <2>1, AlonePreserved DEF BackupInv, NothingLost, vault
  <2>3. Covered(t)' /\ Checked(t)'
    BY <2>1 DEF Covered, Checked, At
  <2> QED
    BY <2>1, <2>2, <2>3, BackupElsewhere
<1>4. CASE BackupCheck(t) \/ BackupZip(t) \/ BackupRemove(t)
  <2>1. Covered(t)' /\ Checked(t)' /\ NothingLost' /\ Moves(t)
    BY <1>4, CheckPreserves, ZipPreserves, RemovePreserves
  <2> QED
    BY <1>0, <2>1, AlonePreserved, BackupElsewhere DEF BackupInv
<1> QED
  BY <1>0, <1>1, <1>2, <1>3, <1>4, ScriptStep DEF BackupNext

LEMMA BackupInvInit == Init => BackupInv
<1> SUFFICES ASSUME Init PROVE BackupInv
  OBVIOUS
<1>1. \A t \in Terminals : job[t].pc = "idle"
  BY DEF Init, NoJob
<1>2. Alone /\ \A t \in Terminals : Covered(t) /\ Checked(t)
  BY <1>1 DEF Alone, Covered, Checked, At, Running, Ended
<1>3. NothingLost
  BY DEF Init, NothingLost
<1> QED
  BY <1>2, <1>3, InitType DEF BackupInv

LEMMA BackupInvStutter ==
  ASSUME BackupInv, UNCHANGED vars
  PROVE  /\ Alone' /\ NothingLost'
         /\ \A u \in Terminals : Covered(u)' /\ Checked(u)'
BY DEF BackupInv, vars, vault, outputs, Alone, NothingLost, Covered, Checked, At, Running

THEOREM BackupInvariant ==
  ASSUME BackupRunsAlone
  PROVE  Spec => []BackupInv
<1>1. Init => BackupInv
  BY BackupInvInit
<1>2. BackupInv /\ TypeOK' /\ [Next]_vars => BackupInv'
  <2> SUFFICES ASSUME BackupInv, TypeOK', [Next]_vars
               PROVE  BackupInv'
    OBVIOUS
  <2> QED
    BY BackupInvStep, BackupInvStutter DEF BackupInv
<1> QED
  BY <1>1, <1>2, TypeCorrect, PTL DEF Spec

(* backup.sh removes a file only if an archive holds that very content, in *)
(* any number of terminals, for any number of runs and of commands that    *)
(* fail, provided no other script runs while backup.sh does.               *)
THEOREM BackupLosesNothing ==
  ASSUME BackupRunsAlone
  PROVE  Spec => []NothingLost
<1>1. BackupInv => NothingLost
  BY DEF BackupInv
<1> QED
  BY <1>1, BackupInvariant, PTL
-----------------------------------------------------------------------------
(* What is committed.  Here anything may run beside backup.sh: a file of   *)
(* run 0 is one nobody has opened, and no later file looks like it.        *)

Committed(file) == file # Absent /\ file.run = 0

(* While backup.sh removes files, an archive has all the committed ones    *)
(* that are left in osboot/.                                               *)
Archived(t) == At(t, "backup", "remove") =>
  \E z \in archives : \A f \in Artifacts : Committed(osboot[f]) => z[f] = osboot[f]

(* Runs are counted from 1.                                                *)
Numbered == \A t \in Terminals : Running(t) => job[t].run # 0

CommittedInv ==
  TypeOK /\ Numbered /\ CommittedKept /\ \A t \in Terminals : Archived(t)

(* A script that runs writes no file but with the number of its run.       *)
Writes(t) ==
  \/ UNCHANGED osboot
  \/ \E f \in Artifacts : \/ Open(t, f)
                         \/ \E file : file.run = job[t].run /\ Close(t, f, file)

LEMMA FileRun == \A state, run, link, parts : File(state, run, link, parts).run = run
BY DEF File

LEMMA BuildWrites ==
  ASSUME NEW t \in Terminals, KernelNext(t) \/ SingleNext(t) \/ MultiNext(t) \/ IsoNext(t)
  PROVE  /\ Writes(t)
         /\ Running(t) \/ UNCHANGED osboot
<1>0. "bzImage" \in Artifacts /\ "iso" \in Artifacts /\ "single" \in Artifacts
        /\ "multi" \in Artifacts
  BY DEF Artifacts, Inputs
<1>1. CASE KernelNext(t)
  <2>1. CASE KernelPublish(t) \/ KernelPublishEnd(t)
    BY <1>0, <2>1, FileRun DEF KernelPublish, KernelPublishEnd, Writes, At, Running, Ended
  <2>2. CASE ~(KernelPublish(t) \/ KernelPublishEnd(t))
    BY <1>1, <2>2 DEF KernelNext, KernelStart, KernelFetch, KernelUntar, KernelMake,
       Start, Fetch, FetchEnd, Untar, UntarEnd, outputs, Writes
  <2> QED BY <2>1, <2>2
<1>2. CASE SingleNext(t)
  <2>1. CASE SinglePack(t)
    BY <1>0, <2>1, FileRun
       DEF SinglePack, Pack, PackEnd, PackBroken, Writes, At, Running, Ended, outputs
  <2>2. CASE ~SinglePack(t)
    BY <1>2, <2>2 DEF SingleNext, SingleStart, SingleFetch, SingleUntar, SingleDefconfig,
       SingleLink, SingleMake, SingleInstall, SingleRootfs, SingleCleanup, Start, Fetch,
       FetchEnd, Untar, UntarEnd, Install, Clear, Mknod, Write, Chown, Cleanup, outputs, Writes
  <2> QED BY <2>1, <2>2
<1>3. CASE MultiNext(t)
  <2>1. CASE MultiPack(t)
    BY <1>0, <2>1, FileRun
       DEF MultiPack, Pack, PackEnd, PackBroken, Writes, At, Running, Ended, outputs
  <2>2. CASE ~MultiPack(t)
    BY <1>3, <2>2 DEF MultiNext, MultiStart, MultiCheck, MultiRootfs, MultiCleanup, Start,
       Install, Clear, Mknod, Write, Chown, Cleanup, outputs, Writes
  <2> QED BY <2>1, <2>2
<1>4. CASE IsoNext(t)
  <2>1. CASE IsoMkrescue(t) \/ IsoBurnt(t)
    BY <1>0, <2>1, FileRun DEF IsoMkrescue, IsoBurnt, Writes, At, Running, Ended
  <2>2. CASE ~(IsoMkrescue(t) \/ IsoBurnt(t))
    BY <1>4, <2>2 DEF IsoNext, IsoStart, IsoCheck, IsoClear, IsoCopy, IsoCleanup, Start,
       outputs, Writes
  <2> QED BY <2>1, <2>2
<1> QED BY <1>1, <1>2, <1>3, <1>4

(* A committed file is one that was there before.                          *)
OldStays == \A f \in Artifacts : Committed(osboot'[f]) => osboot'[f] = osboot[f]

LEMMA WritesNothingOld ==
  ASSUME TypeOK, NEW t \in Terminals, job[t].run # 0, Writes(t)
  PROVE  OldStays
<1>1. osboot \in [Artifacts -> Files]
  BY DEF TypeOK, OutputsOK
<1>2. Opened(job[t].run).run = job[t].run
  BY FileRun DEF Opened
<1>3. CASE UNCHANGED osboot
  BY <1>3 DEF OldStays
<1>4. ASSUME NEW f \in Artifacts, Open(t, f) PROVE OldStays
  BY <1>1, <1>2, <1>4 DEF OldStays, Open, Committed
<1>5. ASSUME NEW f \in Artifacts, NEW file, file.run = job[t].run, Close(t, f, file)
      PROVE  OldStays
  BY <1>1, <1>2, <1>5 DEF OldStays, Close, Committed
<1> QED BY <1>3, <1>4, <1>5 DEF Writes

(* What a step has to do to keep the invariant, but at zip and rm.         *)
LEMMA ArchivesServe ==
  ASSUME CommittedInv, NEW t \in Terminals, OldStays, UNCHANGED vault,
         (Moves(t) /\ (At(t, "backup", "remove")' => At(t, "backup", "remove")))
           \/ (Started(t) /\ ~At(t, "backup", "remove")')
  PROVE  Numbered' /\ CommittedKept' /\ \A u \in Terminals : Archived(u)'
<1>1. \A u \in Terminals \ {t} : job'[u] = job[u]
  BY DEF Moves, Keeps, Started, Start, CommittedInv, TypeOK, JobOK
<1>2. job'[t].run # 0
  <2>1. CASE Moves(t)
    BY <2>1 DEF Moves, Keeps, CommittedInv, Numbered
  <2>2. CASE Started(t)
    BY <2>2 DEF Started, Start, CommittedInv, TypeOK, JobOK
  <2> QED BY <2>1, <2>2
<1>3. Numbered'
  BY <1>1, <1>2 DEF CommittedInv, Numbered, Running
<1>4. CommittedKept'
  BY DEF CommittedInv, CommittedKept, vault
<1>5. ASSUME NEW u \in Terminals, At(u, "backup", "remove")' PROVE Archived(u)'
  <2>1. At(u, "backup", "remove")
    BY <1>1, <1>5 DEF At
  <2>2. PICK z \in archives : \A f \in Artifacts : Committed(osboot[f]) => z[f] = osboot[f]
    BY <2>1 DEF CommittedInv, Archived
  <2>3. \A f \in Artifacts : Committed(osboot'[f]) => z[f] = osboot'[f]
    BY <2>2 DEF OldStays
  <2>4. z \in archives'
    BY DEF vault
  <2> QED BY <2>3, <2>4 DEF Archived, Committed
<1> QED BY <1>3, <1>4, <1>5 DEF Archived

LEMMA CheckMoves ==
  ASSUME TypeOK, NEW t \in Terminals, BackupCheck(t)
  PROVE  Moves(t) /\ job'[t].pc # "remove" /\ UNCHANGED vault /\ UNCHANGED osboot
<1>1. At(t, "backup", "check") /\ Running(t) /\ UNCHANGED vault /\ UNCHANGED osboot
  BY DEF BackupCheck, At, Running, Ended, outputs
<1> DEFINE missing == IF osboot[BackupOrder[job[t].at]] = Absent THEN 1 ELSE job[t].missing
<1>2. CASE job' = [job EXCEPT ![t].at = @ + 1, ![t].missing = missing]
  <2> HIDE DEF missing
  <2>1. Keeps(t) /\ job'[t].pc = job[t].pc
    BY <1>2 DEF TypeOK, JobOK, Jobs, Keeps
  <2> QED BY <1>1, <2>1 DEF Moves, At
<1>3. CASE Abort(t, "missing") \/ Goto(t, "zip")
  BY <1>1, <1>3, ControlKeeps DEF TypeOK, Moves
<1> QED BY <1>2, <1>3 DEF BackupCheck

LEMMA ZipArchives ==
  ASSUME CommittedInv, NEW t \in Terminals, BackupZip(t)
  PROVE  Numbered' /\ CommittedKept' /\ \A u \in Terminals : Archived(u)'
<1>1. Moves(t) /\ Running(t)
  BY ControlKeeps DEF BackupZip, At, Running, Ended, Moves, CommittedInv, TypeOK
<1>2. archives' = archives \cup {osboot} /\ UNCHANGED <<osboot, removed>>
  BY DEF BackupZip, outputs
<1>3. Numbered'
  BY <1>1 DEF CommittedInv, Numbered, Running, Moves, Keeps
<1>4. CommittedKept'
  BY <1>2 DEF CommittedInv, CommittedKept
<1>5. \A u \in Terminals : Archived(u)'
  BY <1>2 DEF Archived
<1> QED BY <1>3, <1>4, <1>5

LEMMA RemoveKeeps ==
  ASSUME CommittedInv, NEW t \in Terminals, BackupRemove(t)
  PROVE  Numbered' /\ CommittedKept' /\ \A u \in Terminals : Archived(u)'
<1>1. /\ At(t, "backup", "remove") /\ Running(t)
      /\ UNCHANGED archives /\ Loop(t, "done")
  BY DEF BackupRemove, At, Running, Ended
<1>2. job[t].at \in 1 .. 4
  BY <1>1, Lists DEF CommittedInv, TypeOK, At, JobOK, FileList
<1> DEFINE f == BackupOrder[job[t].at]
<1>3. /\ f \in Artifacts /\ osboot' = [osboot EXCEPT ![f] = Absent]
      /\ removed' = removed \cup (IF osboot[f] = Absent THEN {} ELSE {<<f, osboot[f]>>})
  BY <1>2, Lists DEF BackupRemove
<1> HIDE DEF f
<1>4. Moves(t)
  BY <1>1, ControlKeeps DEF Moves, CommittedInv, TypeOK
<1>5. OldStays
  BY <1>3 DEF OldStays, Committed, CommittedInv, TypeOK, OutputsOK
<1>6. PICK z \in archives : \A g \in Artifacts : Committed(osboot[g]) => z[g] = osboot[g]
  BY <1>1 DEF CommittedInv, Archived
<1>7. CommittedKept'
  <2> SUFFICES ASSUME NEW r \in removed', r[2].run = 0
               PROVE  \E y \in archives : y[r[1]] = r[2]
    BY <1>1 DEF CommittedKept
  <2>1. CASE r \in removed
    BY <2>1 DEF CommittedInv, CommittedKept
  <2>2. CASE r = <<f, osboot[f]>> /\ osboot[f] # Absent
    BY <1>3, <1>6, <2>2 DEF Committed
  <2> QED BY <1>3, <2>1, <2>2
<1>8. Numbered'
  BY <1>1, <1>4 DEF CommittedInv, Numbered, Running, Moves, Keeps
<1>9. ASSUME NEW u \in Terminals, At(u, "backup", "remove")' PROVE Archived(u)'
  <2>1. At(u, "backup", "remove")
    BY <1>1, <1>4, <1>9 DEF At, Moves, Keeps
  <2>2. PICK y \in archives : \A g \in Artifacts : Committed(osboot[g]) => y[g] = osboot[g]
    BY <2>1 DEF CommittedInv, Archived
  <2>3. \A g \in Artifacts : Committed(osboot'[g]) => y[g] = osboot'[g]
    BY <1>5, <2>2 DEF OldStays
  <2> QED BY <1>1, <2>3 DEF Archived, Committed
<1> QED BY <1>7, <1>8, <1>9 DEF Archived

LEMMA CommittedStep ==
  ASSUME CommittedInv, Next
  PROVE  Numbered' /\ CommittedKept' /\ \A u \in Terminals : Archived(u)'
<1> PICK t \in Terminals : ScriptNext(t) \/ Interrupt(t)
  BY DEF Next
<1>0. TypeOK
  BY DEF CommittedInv
<1>1. CASE Interrupt(t)
  <2>1. Moves(t) /\ UNCHANGED vault /\ UNCHANGED osboot /\ ~Running(t)'
    BY <1>0, <1>1, InterruptQuiet
  <2> QED BY <2>1, ArchivesServe DEF OldStays, At, Running, Ended
<1>2. CASE BackupStart(t)
  <2>1. Started(t) /\ UNCHANGED vault /\ UNCHANGED osboot /\ At(t, "backup", "check")'
    BY <1>0, <1>2, BackupStartQuiet
  <2> QED BY <2>1, ArchivesServe DEF OldStays, At
<1>3. CASE BackupCheck(t)
  BY <1>0, <1>3, CheckMoves, ArchivesServe DEF OldStays, At
<1>4. CASE BackupZip(t) \/ BackupRemove(t)
  BY <1>4, ZipArchives, RemoveKeeps
<1>5. CASE KernelNext(t) \/ SingleNext(t) \/ MultiNext(t) \/ IsoNext(t)
  <2>1. Builds(t)
    BY <1>0, <1>5, KernelBuilds, SingleBuilds, MultiBuilds, IsoBuilds
  <2>2. OldStays
    <3>1. CASE Running(t)
      BY <1>0, <1>5, <3>1, BuildWrites, WritesNothingOld DEF CommittedInv, Numbered
    <3>2. CASE ~Running(t)
      BY <1>5, <3>2, BuildWrites DEF OldStays
    <3> QED BY <3>1, <3>2
  <2>3. job'[t].script # "backup"
    BY <2>1 DEF Builds, Moves, Keeps
  <2> QED BY <2>1, <2>2, <2>3, ArchivesServe DEF Builds, At
<1> QED BY <1>1, <1>2, <1>3, <1>4, <1>5 DEF ScriptNext, BackupNext

(* Nothing that is committed is lost, in any number of terminals, whatever *)
(* runs beside backup.sh and whatever fails.                               *)
THEOREM CommittedIsKept == Spec => []CommittedKept
<1>1. Init => CommittedInv
  <2> SUFFICES ASSUME Init PROVE CommittedInv
    OBVIOUS
  <2>1. \A t \in Terminals : job[t].pc = "idle"
    BY DEF Init, NoJob
  <2>2. Numbered /\ \A t \in Terminals : Archived(t)
    BY <2>1 DEF Numbered, Archived, At, Running, Ended
  <2>3. CommittedKept
    BY DEF Init, CommittedKept
  <2> QED BY <2>2, <2>3, InitType DEF CommittedInv
<1>2. CommittedInv /\ TypeOK' /\ [Next]_vars => CommittedInv'
  <2> SUFFICES ASSUME CommittedInv, TypeOK', [Next]_vars PROVE CommittedInv'
    OBVIOUS
  <2>1. CASE Next
    BY <2>1, CommittedStep DEF CommittedInv
  <2>2. CASE UNCHANGED vars
    BY <2>2 DEF CommittedInv, vars, vault, outputs, Numbered, CommittedKept, Archived, At,
       Running
  <2> QED BY <2>1, <2>2
<1>3. CommittedInv => CommittedKept
  BY DEF CommittedInv
<1> QED BY <1>1, <1>2, <1>3, TypeCorrect, PTL DEF Spec

-----------------------------------------------------------------------------
(* The refinement.                                                         *)

LEMMA StoreStep ==
  ASSUME BackupInv, Next
  PROVE  Store!StoreNext \/ UNCHANGED <<osboot, archives>>
<1> PICK t \in Terminals : ScriptNext(t) \/ Interrupt(t)
  BY DEF Next
<1>0. TypeOK
  BY DEF BackupInv
<1>1. CASE Builds(t)
  BY <1>1 DEF Builds, vault, Store!StoreNext
<1>2. CASE Interrupt(t) \/ BackupStart(t)
  BY <1>0, <1>2, InterruptQuiet, BackupStartQuiet DEF vault
<1>3. CASE BackupCheck(t)
  BY <1>3 DEF BackupCheck, outputs, vault
<1>4. CASE BackupZip(t)
  <2>1. Store!Snapshot
    BY <1>4 DEF BackupZip, BackupInv, Checked, Store!Snapshot, outputs
  <2> QED
    BY <2>1 DEF Store!StoreNext
<1>5. CASE BackupRemove(t)
  <2>1. At(t, "backup", "remove") /\ job[t].at \in 1 .. 4 /\ UNCHANGED archives
    BY <1>0, <1>5, Lists DEF BackupRemove, At, TypeOK, JobOK, FileList
  <2> DEFINE f == BackupOrder[job[t].at]
  <2>2. f \in Artifacts
    BY <2>1, Lists
  <2>3. Store!Kept(f)
    BY <2>1 DEF BackupInv, Covered, Store!Kept
  <2>4. osboot' = [osboot EXCEPT ![f] = Absent]
    BY <1>5 DEF BackupRemove
  <2>5. Store!Drop(f)
    BY <2>1, <2>3, <2>4 DEF Store!Drop
  <2> QED
    BY <2>2, <2>5 DEF Store!StoreNext
<1> QED
  BY <1>0, <1>1, <1>2, <1>3, <1>4, <1>5, ScriptStep DEF BackupNext

(* The pipeline implements the artifact store: osboot/ changes one         *)
(* artifact at a time, an archive is taken only of the complete set, and   *)
(* an artifact disappears only while an archive has it.                    *)
THEOREM PipelineImplementsStore ==
  ASSUME BackupRunsAlone
  PROVE  Spec => ImplementsStore
<1>1. Init => Store!StoreInit
  <2> SUFFICES ASSUME Init PROVE Store!StoreInit
    OBVIOUS
  <2>1. osboot \in [Artifacts -> Files]
    BY InitType DEF TypeOK, OutputsOK
  <2> QED
    BY <2>1 DEF Init, Store!StoreInit
<1>2. BackupInv /\ [Next]_vars => [Store!StoreNext]_<<osboot, archives>>
  <2> SUFFICES ASSUME BackupInv, [Next]_vars
               PROVE  Store!StoreNext \/ UNCHANGED <<osboot, archives>>
    OBVIOUS
  <2>1. CASE UNCHANGED vars
    BY <2>1 DEF vars, outputs, vault
  <2> QED
    BY <2>1, StoreStep
<1> QED
  BY <1>1, <1>2, BackupInvariant, PTL DEF Spec, ImplementsStore, Store!StoreSpec
=============================================================================
