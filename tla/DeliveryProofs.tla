--------------------------- MODULE DeliveryProofs ---------------------------
(***************************************************************************)
(* What the build scripts deliver, for any number of terminals and runs,   *)
(* if kernel.sh is the only script that runs beside another one, the one   *)
(* that builds an image.  First with any number of faults: a rerun is not  *)
(* blocked by what was left, and kernel.sh and iso.sh deliver.  Then with  *)
(* none: every script delivers, and leaves nothing else behind.            *)
(***************************************************************************)
EXTENDS BuildPipelineProofs

Separate == Compatible \subseteq {{"kernel", "single"}, {"kernel", "multi"}}

Apart == \A t, u \in Terminals :
  Running(t) /\ Running(u) /\ t # u => {job[t].script, job[u].script} \in Compatible

(* What an image script has put into its tree when it is at a label.       *)
Filling == {"install", "mknod", "etc", "init", "chown", "pack", "packing"}
Made(s, l) ==
  CASE l = "install" -> {"dirs"}
    [] l = "mknod"   -> {"dirs", "busybox"}
    [] l = "etc"     -> {"dirs", "busybox", "dev"}
    [] l = "init" \/ (l = "chown" /\ s = "multi") -> Parts \ {"init"}
    [] OTHER         -> Parts

TreeFine(t) == \A i \in Images :
  job[t].script = i /\ job[t].pc \in Filling => rootfs[i].parts = Made(i, job[t].pc)

KernelFine(t) == At(t, "kernel", "publishing") => Mine(t, "bzImage")

(* iso.sh has seen the first n files; what it has copied is still what is  *)
(* in osboot/.                                                             *)
Seen(n) == \A k \in 1 .. n : osboot[IsoOrder[k]] # Absent
Copied(n) ==
  /\ isoDir \in [Inputs -> Files]
  /\ \A k \in 1 .. n : isoDir[IsoOrder[k]] = osboot[IsoOrder[k]]
IsoFine(t) == job[t].script = "iso" =>
  /\ job[t].pc = "check" => Seen(job[t].at - 1)
  /\ job[t].pc \in {"clear", "copy", "mkrescue", "burning"} => Seen(3)
  /\ job[t].pc = "copy" => Copied(job[t].at - 1)
  /\ job[t].pc \in {"mkrescue", "burning"} => Copied(3)
  /\ job[t].pc = "burning" => Mine(t, "iso")
  /\ job[t].pc = "cleanup" =>
       /\ osboot["iso"].state = "whole" /\ osboot["iso"].run = job[t].run
       /\ \A f \in Inputs : isoParts[f] = osboot[f]

Fine(t) == TreeFine(t) /\ KernelFine(t) /\ IsoFine(t)
Blocked == {"exists", "denied", "gone"}
Unblocked == AsRoot => \A t \in Terminals : job[t].why \notin Blocked
IInv == TypeOK /\ Apart /\ (\A t \in Terminals : Fine(t)) /\ Unblocked
-----------------------------------------------------------------------------
(* How a step moves a script on.                                           *)
Advances(t, l) ==
  /\ Keeps(t) /\ job'[t].pc = l
  /\ job'[t].run = job[t].run /\ job'[t].why = job[t].why
Aborts(t, r) == Keeps(t) /\ job'[t].pc = "failed" /\ job'[t].why = r

LEMMA Control ==
  ASSUME JobOK, NEW t \in Terminals
  PROVE  /\ \A l : Goto(t, l) => Advances(t, l) /\ job'[t].at = 1
         /\ \A r : Abort(t, r) => Aborts(t, r)
         /\ \A l : Loop(t, l) =>
              \/ /\ job[t].at < Len(FileList(job[t].script))
                 /\ Advances(t, job[t].pc) /\ job'[t].at = job[t].at + 1
              \/ /\ ~(job[t].at < Len(FileList(job[t].script)))
                 /\ Advances(t, l) /\ job'[t].at = 1
<1>1. \A l : Goto(t, l) => Advances(t, l) /\ job'[t].at = 1
  BY DEF JobOK, Jobs, Goto, Keeps, Advances
<1>2. \A r : Abort(t, r) => Aborts(t, r)
  BY DEF JobOK, Jobs, Abort, Keeps, Aborts
<1>3. ASSUME job' = [job EXCEPT ![t].at = @ + 1]
      PROVE  Advances(t, job[t].pc) /\ job'[t].at = job[t].at + 1
  BY <1>3 DEF JobOK, Jobs, Keeps, Advances
<1> QED
  BY <1>1, <1>2, <1>3 DEF Loop

(* A step of t leaves t in order, and if it stops t, then for a reason     *)
(* that the next run can do without.                                       *)
Sound(t) ==
  /\ Fine(t)'
  /\ AsRoot /\ job[t].why \notin Blocked => job'[t].why \notin Blocked
  /\ Moves(t) \/ Started(t)

LEMMA StartSound ==
  ASSUME TypeOK, NEW t \in Terminals, NEW s \in Scripts,
         NEW l \in {"fetch", "check"}, Start(t, s, l)
  PROVE  Sound(t) /\ job'[t].script = s /\ UNCHANGED <<building, outputs, vault>>
<1>1. /\ job'[t].script = s /\ job'[t].pc = l /\ job'[t].at = 1 /\ job'[t].why = "none"
      /\ UNCHANGED <<building, outputs, vault>>
  BY DEF Start, TypeOK, JobOK
<1>2. Fine(t)'
  BY <1>1 DEF Fine, TreeFine, KernelFine, IsoFine, Seen, At, Filling
<1> QED BY <1>1, <1>2 DEF Sound, Started, Labels, Ended, Blocked

(* What the steps of a script leave alone.                                 *)
KernelLeaves ==
  /\ UNCHANGED <<config, rootfs, isoDir, isoParts>>
  /\ sources'["busybox"] = sources["busybox"]
  /\ \A f \in Artifacts \ {"bzImage"} : osboot'[f] = osboot[f]
ImageLeaves(i) ==
  /\ UNCHANGED <<isoDir, isoParts>>
  /\ sources'["linux"] = sources["linux"]
  /\ \A j \in Images \ {i} : rootfs'[j] = rootfs[j]
  /\ \A f \in Artifacts \ {i} : osboot'[f] = osboot[f]

LEMMA KernelSound ==
  ASSUME TypeOK, NEW t \in Terminals, KernelNext(t)
  PROVE  Sound(t) /\ job'[t].script = "kernel" /\ KernelLeaves
<1>1. CASE KernelStart(t)
  BY <1>1, StartSound DEF KernelStart, Scripts, KernelLeaves, building, outputs
<1>2. ASSUME At(t, "kernel", job[t].pc), Running(t), KernelLeaves,
             NEW r \in Reasons \ Blocked, NEW l,
             \/ Aborts(t, r)
             \/ Advances(t, l) /\ (l = "publishing" => Mine(t, "bzImage")')
      PROVE  Sound(t) /\ job'[t].script = "kernel" /\ KernelLeaves
  BY <1>2 DEF At, Aborts, Advances, Keeps, Moves, Sound, Fine, TreeFine, KernelFine, IsoFine,
              Images
<1>3. CASE KernelFetch(t) \/ KernelUntar(t)
  <2>1. KernelLeaves
    BY <1>3 DEF KernelFetch, KernelUntar, Fetch, FetchEnd, Untar, UntarEnd, KernelLeaves, outputs,
                TypeOK, BuildingOK, Packages
  <2>2. Aborts(t, "truncated") \/ \E l \in Labels \ {"publishing"} : Advances(t, l)
    BY <1>3, Control DEF KernelFetch, KernelUntar, Fetch, FetchEnd, Untar, UntarEnd, TypeOK, Labels
  <2>3. At(t, "kernel", job[t].pc) /\ Running(t)
    BY <1>3 DEF KernelFetch, KernelUntar, At, Running, Ended
  <2> QED BY <1>2, <2>1, <2>2, <2>3 DEF Reasons, Blocked
<1>4. CASE KernelMake(t)
  <2>1. KernelLeaves
    BY <1>4 DEF KernelMake, KernelLeaves, building, outputs
  <2>2. Aborts(t, "truncated") \/ Advances(t, "publish")
    BY <1>4, Control DEF KernelMake, TypeOK
  <2>3. At(t, "kernel", job[t].pc) /\ Running(t)
    BY <1>4 DEF KernelMake, At, Running, Ended
  <2> QED BY <1>2, <2>1, <2>2, <2>3 DEF Reasons, Blocked
<1>5. CASE KernelPublish(t)
  <2>1. KernelLeaves
    BY <1>5 DEF KernelPublish, KernelLeaves, building, Open, TypeOK, OutputsOK
  <2>2. Advances(t, "publishing")
    BY <1>5, Control DEF KernelPublish, TypeOK
  <2>3. At(t, "kernel", job[t].pc) /\ Running(t)
    BY <1>5 DEF KernelPublish, At, Running, Ended
  <2>4. Mine(t, "bzImage")'
    BY <1>5, <2>2 DEF KernelPublish, Open, Mine, Advances, TypeOK, OutputsOK, Artifacts, Inputs
  <2> QED BY <1>2, <2>1, <2>2, <2>3, <2>4 DEF Reasons, Blocked
<1>6. CASE KernelPublishEnd(t)
  <2>1. KernelLeaves
    BY <1>6 DEF KernelPublishEnd, KernelLeaves, building, Close, TypeOK, OutputsOK
  <2>2. Advances(t, "done")
    BY <1>6, Control DEF KernelPublishEnd, Finish, TypeOK
  <2>3. At(t, "kernel", job[t].pc) /\ Running(t)
    BY <1>6 DEF KernelPublishEnd, At, Running, Ended
  <2> QED BY <1>2, <2>1, <2>2, <2>3 DEF Reasons, Blocked
<1> QED BY <1>1, <1>3, <1>4, <1>5, <1>6 DEF KernelNext

(* A step of the script of image i: it stops for a reason that is no       *)
(* leftover, or its tree holds what the next label requires.               *)
Fills(t, i) ==
  /\ ImageLeaves(i) /\ Keeps(t)
  /\ \/ \E r \in Reasons : Aborts(t, r) /\ (AsRoot => r \notin Blocked)
     \/ \E l : /\ Advances(t, l)
               /\ l \in Filling => rootfs'[i].parts = Made(i, l)

LEMMA FillsSound ==
  ASSUME TypeOK, NEW t \in Terminals, NEW i \in Images, job[t].script = i,
         Running(t), Fills(t, i)
  PROVE  Sound(t) /\ job'[t].script = i /\ ImageLeaves(i)
<1>1. job'[t].script = i /\ i # "kernel" /\ i # "iso" /\ Moves(t)
  BY DEF Fills, Keeps, Images, Moves
<1>2. TreeFine(t)' /\ (AsRoot /\ job[t].why \notin Blocked => job'[t].why \notin Blocked)
  BY <1>1 DEF Fills, TreeFine, Aborts, Advances, Filling
<1> QED BY <1>1, <1>2 DEF Fills, Sound, Fine, KernelFine, IsoFine, At

(* Neither the directory nor the config of another image is touched.       *)
LEMMA RootfsLeaves ==
  ASSUME TypeOK, NEW t \in Terminals, NEW i \in Images, RootfsStep(t, i)
  PROVE  ImageLeaves(i)
BY DEF RootfsStep, Install, Clear, Mknod, Write, Add, Chown, Cleanup, ImageLeaves, outputs,
       TypeOK, BuildingOK

LEMMA PackLeaves ==
  ASSUME TypeOK, NEW t \in Terminals, NEW i \in Images,
         Pack(t, i) \/ PackEnd(t, i) \/ PackBroken(t, i)
  PROVE  ImageLeaves(i)
BY DEF Pack, PackEnd, PackBroken, Open, Close, ImageLeaves, building, outputs, TypeOK, OutputsOK

LEMMA TreeFills ==
  ASSUME IInv, NEW t \in Terminals, NEW i \in Images, job[t].script = i
  PROVE  /\ job[t].pc = "preinstall" /\ Install(t, i, "clear") => Fills(t, i)
         /\ job[t].pc = "clear" /\ Clear(t, i) => Fills(t, i)
         /\ job[t].pc = "install" /\ Install(t, i, "mknod") => Fills(t, i)
         /\ job[t].pc = "mknod" /\ Mknod(t, i) => Fills(t, i)
         /\ job[t].pc = "etc" /\ i = "single" /\ Write(t, i, "etc", "init") => Fills(t, i)
         /\ job[t].pc = "etc" /\ i = "multi" /\ Write(t, i, "etc", "chown") => Fills(t, i)
         /\ job[t].pc = "init" /\ i = "single" /\ Write(t, i, "init", "chown") => Fills(t, i)
         /\ job[t].pc = "init" /\ i = "multi" /\ Write(t, i, "init", "pack") => Fills(t, i)
         /\ job[t].pc = "chown" /\ i = "single" /\ Chown(t, i, "pack") => Fills(t, i)
         /\ job[t].pc = "chown" /\ i = "multi" /\ Chown(t, i, "init") => Fills(t, i)
         /\ job[t].pc = "pack" /\ Pack(t, i) => Fills(t, i)
         /\ job[t].pc = "packing" /\ (PackEnd(t, i) \/ PackBroken(t, i)) => Fills(t, i)
         /\ job[t].pc = "cleanup" /\ Cleanup(t, i) => Fills(t, i)
<1>0. /\ TypeOK /\ JobOK /\ rootfs \in [Images -> Trees] /\ i \in {"single", "multi"}
      /\ job[t].pc \in Filling => rootfs[i].parts = Made(i, job[t].pc)
  BY DEF IInv, TypeOK, BuildingOK, Fine, TreeFine, Images
<1> DEFINE Ok(l) == l \in Filling => rootfs'[i].parts = Made(i, l)
<1>1. ASSUME ImageLeaves(i), NEW l, Advances(t, l), Ok(l)
      PROVE  Fills(t, i)
  BY <1>1 DEF Fills, Advances
<1>2. ASSUME ImageLeaves(i), NEW r \in Reasons, Aborts(t, r), AsRoot => r \notin Blocked
      PROVE  Fills(t, i)
  BY <1>2 DEF Fills, Aborts
<1>3. "truncated" \in Reasons \ Blocked /\ "denied" \in Reasons
  BY DEF Reasons, Blocked
<1>4. ASSUME job[t].pc = "preinstall", Install(t, i, "clear") PROVE Fills(t, i)
  <2>1. ImageLeaves(i)
    BY <1>0, <1>4, RootfsLeaves DEF RootfsStep, Labels
  <2>2. Aborts(t, "truncated") \/ (Aborts(t, "denied") /\ ~AsRoot) \/ Advances(t, "clear")
    BY <1>0, <1>4, Control DEF Install, Denied
  <2> QED BY <1>1, <1>2, <1>3, <2>1, <2>2 DEF Filling
<1>5. ASSUME job[t].pc = "clear", Clear(t, i) PROVE Fills(t, i)
  <2>1. ImageLeaves(i)
    BY <1>0, <1>5, RootfsLeaves DEF RootfsStep
  <2>2. \/ Aborts(t, "denied") /\ ~AsRoot
        \/ Advances(t, "install") /\ rootfs'[i].parts = {"dirs"}
    BY <1>0, <1>5, Control DEF Clear, Denied
  <2> QED BY <1>1, <1>2, <1>3, <2>1, <2>2 DEF Made
<1>6. ASSUME job[t].pc = "install", Install(t, i, "mknod") PROVE Fills(t, i)
  <2>1. ImageLeaves(i)
    BY <1>0, <1>6, RootfsLeaves DEF RootfsStep, Labels
  <2>2. \/ Aborts(t, "truncated")
        \/ Aborts(t, "denied") /\ ~AsRoot
        \/ Advances(t, "mknod") /\ rootfs'[i].parts = {"dirs", "busybox"}
    <3>1. rootfs[i].parts = {"dirs"}
      BY <1>0, <1>6 DEF Filling, Made
    <3> QED BY <1>0, <1>6, <3>1, Control DEF Install, Denied, Trees
  <2> QED BY <1>1, <1>2, <1>3, <2>1, <2>2 DEF Made
<1>7. ASSUME job[t].pc = "mknod", Mknod(t, i) PROVE Fills(t, i)
  <2>1. ImageLeaves(i)
    BY <1>0, <1>7, RootfsLeaves DEF RootfsStep
  <2>2. Advances(t, "etc") /\ rootfs'[i].parts = {"dirs", "busybox", "dev"}
    <3>1. rootfs[i].parts = {"dirs", "busybox"}
      BY <1>0, <1>7 DEF Filling, Made
    <3> QED BY <1>0, <1>7, <3>1, Control DEF Mknod, Add, Trees
  <2> QED BY <1>1, <2>1, <2>2 DEF Made
<1>8. ASSUME NEW part \in Parts, NEW l \in Labels, Write(t, i, part, l),
             job[t].pc \in Filling, "dirs" \in Made(i, job[t].pc),
             Made(i, job[t].pc) \cup {part} = Made(i, l)
      PROVE  Fills(t, i)
  <2>1. ImageLeaves(i)
    BY <1>0, <1>8, RootfsLeaves DEF RootfsStep
  <2>2. \/ Aborts(t, "denied") /\ ~AsRoot
        \/ Advances(t, l) /\ rootfs'[i].parts = Made(i, l)
    <3>1. rootfs[i].parts = Made(i, job[t].pc)
      BY <1>0, <1>8
    <3>2. Denied(i) => ~AsRoot
      BY DEF Denied
    <3>3. \/ Abort(t, "denied") /\ ~AsRoot
          \/ Goto(t, l) /\ Add(i, part)
      BY <1>8, <3>1, <3>2 DEF Write
    <3>4. Add(i, part) => rootfs'[i].parts = rootfs[i].parts \cup {part}
      BY <1>0 DEF Add, Trees
    <3> QED BY <1>0, <1>8, <3>1, <3>3, <3>4, Control
  <2> QED BY <1>1, <1>2, <1>3, <2>1, <2>2
<1>9. ASSUME NEW l \in Labels, Chown(t, i, l), job[t].pc \in Filling,
             "dirs" \in Made(i, job[t].pc), Made(i, job[t].pc) = Made(i, l)
      PROVE  Fills(t, i)
  <2>1. ImageLeaves(i)
    BY <1>0, <1>9, RootfsLeaves DEF RootfsStep
  <2>2. Advances(t, l) /\ rootfs'[i].parts = Made(i, l)
    BY <1>0, <1>9, Control DEF Chown, Trees
  <2> QED BY <1>1, <2>1, <2>2
<1>10. ASSUME job[t].pc = "pack", Pack(t, i) PROVE Fills(t, i)
  <2>1. ImageLeaves(i)
    BY <1>0, <1>10, PackLeaves
  <2>2. rootfs[i].parts = Parts
    BY <1>0, <1>10 DEF Filling, Made
  <2>3. rootfs[i] # EmptyTree
    BY <2>2 DEF EmptyTree, Parts
  <2>4. Advances(t, "packing") /\ rootfs'[i].parts = Parts
    BY <1>0, <1>10, <2>2, <2>3, Control DEF Pack, building
  <2> QED BY <1>1, <2>1, <2>4 DEF Made
<1>11. ASSUME PackEnd(t, i) \/ PackBroken(t, i) PROVE Fills(t, i)
  <2>1. ImageLeaves(i)
    BY <1>0, <1>11, PackLeaves
  <2>2. Advances(t, "cleanup")
    BY <1>0, <1>11, Control DEF PackEnd, PackBroken
  <2> QED BY <1>1, <2>1, <2>2 DEF Filling
<1>12. ASSUME Cleanup(t, i) PROVE Fills(t, i)
  <2>1. ImageLeaves(i)
    BY <1>0, <1>12, RootfsLeaves DEF RootfsStep
  <2>2. \/ Aborts(t, "denied") /\ ~AsRoot
        \/ Advances(t, "done")
    BY <1>0, <1>12, Control DEF Cleanup, Denied, Finish
  <2> QED BY <1>1, <1>2, <1>3, <2>1, <2>2 DEF Filling
<1>13. {"etc", "init"} \subseteq Parts /\ {"init", "chown", "pack"} \subseteq Labels
         /\ {"etc", "init", "chown"} \subseteq Filling
  BY DEF Parts, Labels, Filling
<1>14. /\ "dirs" \in Made(i, "etc") /\ "dirs" \in Made(i, "init") /\ "dirs" \in Made(i, "chown")
       /\ Made(i, "etc") \cup {"etc"} = Parts \ {"init"}
       /\ Made(i, "init") = Parts \ {"init"} /\ Made(i, "pack") = Parts
       /\ Made("multi", "chown") = Parts \ {"init"} /\ Made("single", "chown") = Parts
       /\ (Parts \ {"init"}) \cup {"init"} = Parts
  BY DEF Made, Parts
<1> QED BY <1>4, <1>5, <1>6, <1>7, <1>8, <1>9, <1>10, <1>11, <1>12, <1>13, <1>14

LEMMA SingleSound ==
  ASSUME IInv, NEW t \in Terminals, SingleNext(t)
  PROVE  Sound(t) /\ job'[t].script = "single" /\ ImageLeaves("single")
<1>0. TypeOK /\ "single" \in Images
  BY DEF IInv, Images
<1>1. CASE SingleStart(t)
  BY <1>0, <1>1, StartSound DEF SingleStart, Scripts, ImageLeaves, building, outputs
<1>2. CASE ~SingleStart(t)
  <2>1. job[t].script = "single" /\ Running(t)
    BY <1>2 DEF SingleNext, SingleFetch, SingleUntar, SingleDefconfig, SingleLink, SingleMake,
                SingleInstall, SingleRootfs, SinglePack, SingleCleanup, At, Running, Ended
  <2>2. CASE SingleFetch(t) \/ SingleUntar(t)
    <3>1. ImageLeaves("single")
      BY <1>0, <2>2 DEF SingleFetch, SingleUntar, Fetch, FetchEnd, Untar, UntarEnd, ImageLeaves,
                  outputs, TypeOK, BuildingOK, Packages
    <3>2. Aborts(t, "truncated") \/ \E l \in Labels \ Filling : Advances(t, l)
      BY <1>0, <2>2, Control
         DEF SingleFetch, SingleUntar, Fetch, FetchEnd, Untar, UntarEnd, TypeOK, Labels, Filling
    <3> QED BY <1>0, <2>1, <3>1, <3>2, FillsSound DEF Fills, Aborts, Advances, Reasons, Blocked
  <2>3. CASE SingleDefconfig(t) \/ SingleLink(t) \/ SingleMake(t)
    <3>1. ImageLeaves("single")
      BY <2>3 DEF SingleDefconfig, SingleLink, SingleMake, ImageLeaves, building, outputs
    <3>2. Aborts(t, "truncated") \/ \E l \in Labels \ Filling : Advances(t, l)
      BY <1>0, <2>3, Control
         DEF SingleDefconfig, SingleLink, SingleMake, TypeOK, Labels, Filling
    <3> QED BY <1>0, <2>1, <3>1, <3>2, FillsSound DEF Fills, Aborts, Advances, Reasons, Blocked
  <2>4. CASE SingleInstall(t) \/ SingleRootfs(t) \/ SinglePack(t) \/ SingleCleanup(t)
    <3>1. Fills(t, "single")
      BY <1>0, <2>1, <2>4, TreeFills
         DEF SingleInstall, SingleRootfs, SinglePack, SingleCleanup, At
    <3> QED BY <1>0, <2>1, <3>1, FillsSound
  <2> QED BY <1>2, <2>2, <2>3, <2>4 DEF SingleNext
<1> QED BY <1>1, <1>2

LEMMA MultiSound ==
  ASSUME IInv, NEW t \in Terminals, MultiNext(t)
  PROVE  Sound(t) /\ job'[t].script = "multi" /\ ImageLeaves("multi")
<1>0. TypeOK /\ "multi" \in Images
  BY DEF IInv, Images
<1>1. CASE MultiStart(t)
  BY <1>0, <1>1, StartSound DEF MultiStart, Scripts, ImageLeaves, building, outputs
<1>2. CASE ~MultiStart(t)
  <2>1. job[t].script = "multi" /\ Running(t)
    BY <1>2 DEF MultiNext, MultiCheck, MultiRootfs, MultiPack, MultiCleanup, At, Running, Ended
  <2>2. CASE MultiCheck(t)
    <3>1. ImageLeaves("multi")
      BY <2>2 DEF MultiCheck, ImageLeaves, building, outputs
    <3>2. Aborts(t, "missing") \/ Advances(t, "clear")
      BY <1>0, <2>2, Control DEF MultiCheck, TypeOK
    <3> QED BY <1>0, <2>1, <3>1, <3>2, FillsSound
            DEF Fills, Aborts, Advances, Reasons, Blocked, Filling
  <2>3. CASE MultiRootfs(t) \/ MultiPack(t) \/ MultiCleanup(t)
    <3>1. Fills(t, "multi")
      BY <1>0, <2>1, <2>3, TreeFills DEF MultiRootfs, MultiPack, MultiCleanup, At
    <3> QED BY <1>0, <2>1, <3>1, FillsSound
  <2> QED BY <1>2, <2>2, <2>3 DEF MultiNext
<1> QED BY <1>1, <1>2

LEMMA DirThere == \A d \in [Inputs -> Files] : d # NoDir
<1> SUFFICES ASSUME NEW d \in [Inputs -> Files], d = NoDir PROVE FALSE
  OBVIOUS
<1>1. DOMAIN d = Inputs /\ DOMAIN NoDir = {} /\ "bzImage" \in Inputs
  BY DEF NoDir, Inputs
<1> QED BY <1>1

(* iso.sh: what it has checked and copied.                                 *)
LEMMA IsoSound ==
  ASSUME IInv, NEW t \in Terminals, IsoNext(t)
  PROVE  Sound(t) /\ job'[t].script = "iso"
<1>0. /\ TypeOK /\ JobOK /\ OutputsOK /\ IsoFine(t)
      /\ osboot \in [Artifacts -> Files] /\ "iso" \in Artifacts /\ Inputs \subseteq Artifacts
  BY DEF IInv, TypeOK, OutputsOK, Fine, Artifacts
<1>1. CASE IsoStart(t)
  BY <1>0, <1>1, StartSound DEF IsoStart, Scripts
<1>2. CASE ~IsoStart(t)
  <2>1. /\ job[t].script = "iso" /\ Running(t)
        /\ job[t].at \in 1 .. 3 /\ Len(FileList("iso")) = 3
    <3>1. job[t].script = "iso" /\ Running(t)
      BY <1>2 DEF IsoNext, IsoCheck, IsoClear, IsoCopy, IsoMkrescue, IsoBurnt, IsoCleanup,
                  At, Running, Ended
    <3> QED BY <1>0, <3>1, Lists DEF JobOK, FileList
  <2>2. ASSUME NEW r \in Reasons \ Blocked, Aborts(t, r)
        PROVE  Sound(t) /\ job'[t].script = "iso"
    BY <2>1, <2>2 DEF Sound, Aborts, Keeps, Moves, Fine, TreeFine, KernelFine, IsoFine, At,
                      Images
  <2>3. ASSUME NEW l, Advances(t, l), IsoFine(t)'
        PROVE  Sound(t) /\ job'[t].script = "iso"
    BY <2>1, <2>3 DEF Sound, Advances, Keeps, Moves, Fine, TreeFine, KernelFine, At, Images
  <2>4. CASE IsoCheck(t)
    <3>1. job[t].pc = "check" /\ UNCHANGED osboot
      BY <2>4 DEF IsoCheck, At, outputs
    <3>2. CASE osboot[IsoOrder[job[t].at]] = Absent
      <4>1. Aborts(t, "missing")
        BY <1>0, <2>4, <3>2, Control DEF IsoCheck
      <4> QED BY <2>2, <4>1 DEF Reasons, Blocked
    <3>3. CASE osboot[IsoOrder[job[t].at]] # Absent
      <4>1. Loop(t, "clear")
        BY <2>4, <3>3 DEF IsoCheck
      <4>2. Seen(job[t].at - 1)
        BY <1>0, <2>1, <3>1 DEF IsoFine
      <4>3. \A k \in 1 .. job[t].at : osboot[IsoOrder[k]] # Absent
        BY <2>1, <3>3, <4>2 DEF Seen
      <4>4. CASE job[t].at < 3
        <5>1. Advances(t, "check") /\ job'[t].at = job[t].at + 1
          BY <1>0, <2>1, <3>1, <4>1, <4>4, Control
        <5>2. \A k \in 1 .. job'[t].at - 1 : osboot'[IsoOrder[k]] # Absent
          BY <2>1, <3>1, <4>3, <5>1
        <5>3. IsoFine(t)'
          BY <5>1, <5>2 DEF IsoFine, Advances, Seen
        <5> QED BY <2>3, <5>1, <5>3
      <4>5. CASE ~(job[t].at < 3)
        <5>1. Advances(t, "clear")
          BY <1>0, <2>1, <4>1, <4>5, Control
        <5>2. \A k \in 1 .. 3 : osboot'[IsoOrder[k]] # Absent
          BY <2>1, <3>1, <4>3, <4>5
        <5>3. IsoFine(t)'
          BY <5>1, <5>2 DEF IsoFine, Advances, Seen
        <5> QED BY <2>3, <5>1, <5>3
      <4> QED BY <4>4, <4>5
    <3> QED BY <3>2, <3>3
  <2>5. CASE IsoClear(t)
    <3>1. Advances(t, "copy") /\ job'[t].at = 1 /\ isoDir' = EmptyDir /\ UNCHANGED osboot
      BY <1>0, <2>5, Control DEF IsoClear
    <3>2. Seen(3)
      BY <1>0, <2>1, <2>5 DEF IsoFine, IsoClear, At
    <3>3. isoDir' \in [Inputs -> Files]
      BY <3>1, AbsentFile DEF EmptyDir
    <3> QED BY <2>3, <3>1, <3>2, <3>3 DEF IsoFine, Advances, Seen, Copied
  <2>6. CASE IsoCopy(t)
    <3> DEFINE f == IsoOrder[job[t].at]
    <3>1. Seen(3) /\ Copied(job[t].at - 1) /\ f \in Inputs /\ UNCHANGED osboot
      BY <1>0, <2>1, <2>6, Lists DEF IsoFine, IsoCopy, At
    <3>2. osboot[f] # Absent /\ isoDir # NoDir
      BY <2>1, <3>1, DirThere DEF Seen, Copied
    <3>3. isoDir' = [isoDir EXCEPT ![f] = osboot[f]] /\ Loop(t, "mkrescue")
      BY <2>6, <3>2 DEF IsoCopy
    <3>4. isoDir' \in [Inputs -> Files]
      BY <1>0, <3>1, <3>3 DEF Copied
    <3>5. ASSUME NEW k \in 1 .. job[t].at PROVE isoDir'[IsoOrder[k]] = osboot'[IsoOrder[k]]
      <4>1. CASE k = job[t].at
        BY <3>1, <3>3, <4>1 DEF Copied
      <4>2. CASE k # job[t].at
        <5>1. k \in 1 .. job[t].at - 1 /\ k \in 1 .. 3
          BY <2>1, <4>2
        <5>2. isoDir[IsoOrder[k]] = osboot[IsoOrder[k]] /\ IsoOrder[k] \in Inputs
          BY <3>1, <5>1, Lists DEF Copied
        <5>3. IsoOrder[k] # f
          BY <2>1, <4>2, <5>1 DEF IsoOrder
        <5> QED BY <3>1, <3>3, <5>2, <5>3 DEF Copied
      <4> QED BY <4>1, <4>2
    <3> HIDE DEF f
    <3>6. CASE job[t].at < 3
      <4>1. Advances(t, "copy") /\ job'[t].at - 1 = job[t].at
        BY <1>0, <2>1, <2>6, <3>3, <3>6, Control DEF IsoCopy, At
      <4>2. \A k \in 1 .. job'[t].at - 1 : isoDir'[IsoOrder[k]] = osboot'[IsoOrder[k]]
        BY <3>5, <4>1
      <4>3. IsoFine(t)'
        BY <3>1, <3>4, <4>1, <4>2 DEF IsoFine, Advances, Seen, Copied
      <4> QED BY <2>3, <4>1, <4>3
    <3>7. CASE ~(job[t].at < 3)
      <4>1. Advances(t, "mkrescue") /\ job[t].at = 3
        BY <1>0, <2>1, <3>3, <3>7, Control
      <4> QED BY <2>3, <3>1, <3>4, <3>5, <4>1 DEF IsoFine, Advances, Seen, Copied
    <3> QED BY <3>6, <3>7
  <2>7. CASE IsoMkrescue(t)
    <3>1. Seen(3) /\ Copied(3)
      BY <1>0, <2>1, <2>7 DEF IsoFine, IsoMkrescue, At
    <3>2. isoDir # NoDir
      BY <3>1, DirThere DEF Copied
    <3>3. Advances(t, "burning") /\ Open(t, "iso") /\ UNCHANGED isoDir
      BY <1>0, <2>7, <3>2, Control DEF IsoMkrescue
    <3>4. Mine(t, "iso")' /\ \A f \in Inputs : osboot'[f] = osboot[f]
      BY <1>0, <3>3 DEF Open, Mine, Advances, Inputs
    <3>5. Seen(3)' /\ Copied(3)'
      BY <3>1, <3>3, <3>4, Lists DEF Seen, Copied
    <3> QED BY <2>3, <3>3, <3>4, <3>5 DEF IsoFine, Advances
  <2>8. CASE IsoBurnt(t)
    <3>1. Seen(3) /\ Copied(3) /\ Mine(t, "iso")
      BY <1>0, <2>1, <2>8 DEF IsoFine, IsoBurnt, At
    <3>2. isoDir # NoDir
      BY <3>1, DirThere DEF Copied
    <3> DEFINE iso == File("whole", job[t].run, "none", {})
    <3>3. Advances(t, "cleanup") /\ Close(t, "iso", iso) /\ isoParts' = isoDir
      BY <1>0, <2>8, <3>2, Control DEF IsoBurnt
    <3>4. osboot["iso"] # Absent
      BY <3>1 DEF Mine, Opened, Absent, File
    <3>5. osboot' = [osboot EXCEPT !["iso"] = iso]
      BY <1>0, <3>1, <3>3, <3>4 DEF Close
    <3>6. iso.state = "whole" /\ iso.run = job[t].run
      BY DEF File
    <3> HIDE DEF iso
    <3>7. \A f \in Inputs : isoDir[f] = osboot[f] /\ f # "iso"
      BY <3>1 DEF Copied, Inputs, IsoOrder
    <3>8. /\ osboot'["iso"].state = "whole" /\ osboot'["iso"].run = job'[t].run
          /\ \A f \in Inputs : isoParts'[f] = osboot'[f]
      BY <1>0, <3>3, <3>5, <3>6, <3>7 DEF Advances
    <3> QED BY <2>3, <3>3, <3>8 DEF IsoFine, Advances
  <2>9. CASE IsoCleanup(t)
    <3>1. Advances(t, "done")
      BY <1>0, <2>9, Control DEF IsoCleanup, Finish
    <3> QED BY <2>3, <3>1 DEF IsoFine, Advances
  <2> QED BY <1>2, <2>4, <2>5, <2>6, <2>7, <2>8, <2>9 DEF IsoNext
<1> QED BY <1>1, <1>2

LEMMA BackupSound ==
  ASSUME TypeOK, NEW t \in Terminals, BackupNext(t)
  PROVE  Sound(t) /\ job'[t].script = "backup"
<1>1. CASE BackupStart(t)
  BY <1>1, StartSound DEF BackupStart, Scripts
<1>2. ASSUME At(t, "backup", job[t].pc), Running(t), Keeps(t),
             job'[t].why \in {job[t].why, "missing"}
      PROVE  Sound(t) /\ job'[t].script = "backup"
  BY <1>2 DEF At, Keeps, Moves, Sound, Fine, TreeFine, KernelFine, IsoFine, Images, Blocked
<1>3. CASE BackupCheck(t)
  <2> DEFINE missing == IF osboot[BackupOrder[job[t].at]] = Absent THEN 1 ELSE job[t].missing
  <2>1. At(t, "backup", job[t].pc) /\ Running(t)
    BY <1>3 DEF BackupCheck, At, Running, Ended
  <2>2. CASE job' = [job EXCEPT ![t].at = @ + 1, ![t].missing = missing]
    <3> HIDE DEF missing
    <3> QED BY <1>2, <2>1, <2>2 DEF TypeOK, JobOK, Jobs, Keeps
  <2>3. CASE Abort(t, "missing") \/ Goto(t, "zip")
    BY <1>2, <2>1, <2>3, Control DEF TypeOK, Aborts, Advances
  <2> QED BY <1>3, <2>2, <2>3 DEF BackupCheck
<1>4. CASE BackupZip(t) \/ BackupRemove(t)
  BY <1>2, <1>4, Control DEF BackupZip, BackupRemove, At, Running, Ended, TypeOK, Advances
<1> QED BY <1>1, <1>3, <1>4 DEF BackupNext

LEMMA InterruptSound ==
  ASSUME TypeOK, NEW t \in Terminals, Interrupt(t)
  PROVE  Sound(t) /\ UNCHANGED <<building, outputs>>
<1>1. Running(t) /\ Aborts(t, "fault") /\ UNCHANGED <<building, outputs>>
  BY Control DEF Interrupt, TypeOK
<1> QED BY <1>1 DEF Sound, Aborts, Moves, Fine, TreeFine, KernelFine, IsoFine, At, Filling, Blocked

(* Two scripts that run are kernel.sh and one that builds an image.        *)
LEMMA ApartStep ==
  ASSUME TypeOK, Apart, NEW t \in Terminals, Moves(t) \/ Started(t)
  PROVE  /\ Apart'
         /\ \A u \in Terminals \ {t} :
              /\ job'[u] = job[u]
              /\ Running(u) => {job'[t].script, job[u].script} \in Compatible
<1>1. ASSUME NEW u \in Terminals \ {t}
      PROVE  /\ job'[u] = job[u]
             /\ Running(u) => {job'[t].script, job[u].script} \in Compatible
  BY <1>1 DEF Moves, Keeps, Started, Start, TypeOK, JobOK, Apart
<1>2. Apart'
  <2> SUFFICES ASSUME NEW u \in Terminals, NEW v \in Terminals, Running(u)', Running(v)', u # v
               PROVE  {job'[u].script, job'[v].script} \in Compatible
    BY DEF Apart
  <2>1. CASE u = t
    BY <1>1, <2>1 DEF Running
  <2>2. CASE v = t
    <3>1. {job'[v].script, job'[u].script} = {job'[u].script, job'[v].script}
      OBVIOUS
    <3> QED BY <1>1, <2>2, <3>1 DEF Running
  <2>3. CASE u # t /\ v # t
    BY <1>1, <2>3 DEF Running, Apart
  <2> QED BY <2>1, <2>2, <2>3
<1> QED BY <1>1, <1>2

LEMMA Pairs ==
  ASSUME Separate, NEW a, NEW b, {a, b} \in Compatible
  PROVE  (a = "kernel" /\ b \in Images) \/ (a \in Images /\ b = "kernel")
BY DEF Separate, Images

(* What a step of script s leaves to the others.                           *)
Leaves(s) ==
  /\ s = "kernel" => KernelLeaves
  /\ \A i \in Images : s = i => ImageLeaves(i)

LEMMA OthersFine ==
  ASSUME Separate, IInv, NEW t \in Terminals, Moves(t) \/ Started(t), Leaves(job'[t].script),
         NEW u \in Terminals \ {t}
  PROVE  Fine(u)'
<1>1. job'[u] = job[u] /\ Fine(u)
  BY ApartStep DEF IInv
<1>2. CASE ~Running(u)
  BY <1>1, <1>2 DEF Fine, TreeFine, KernelFine, IsoFine, At, Running, Ended, Filling
<1>3. CASE Running(u)
  <2>1. {job'[t].script, job[u].script} \in Compatible
    BY <1>3, ApartStep DEF IInv
  <2>2. CASE job'[t].script = "kernel" /\ job[u].script \in Images
    BY <1>1, <2>2 DEF Fine, TreeFine, KernelFine, IsoFine, At, Images, Leaves, KernelLeaves
  <2>3. CASE job'[t].script \in Images /\ job[u].script = "kernel"
    <3>1. osboot'["bzImage"] = osboot["bzImage"]
      BY <2>3 DEF Leaves, ImageLeaves, Images, Artifacts, Inputs
    <3> QED BY <1>1, <2>3, <3>1 DEF Fine, TreeFine, KernelFine, IsoFine, At, Images, Mine
  <2> QED BY <2>1, <2>2, <2>3, Pairs
<1> QED BY <1>2, <1>3

LEMMA StepSound ==
  ASSUME IInv, NEW t \in Terminals, ScriptNext(t) \/ Interrupt(t)
  PROVE  Sound(t) /\ Leaves(job'[t].script)
<1>1. TypeOK
  BY DEF IInv
<1>2. CASE Interrupt(t)
  BY <1>1, <1>2, InterruptSound DEF Leaves, KernelLeaves, ImageLeaves, building, outputs
<1>3. CASE KernelNext(t)
  BY <1>1, <1>3, KernelSound DEF Leaves, Images
<1>4. CASE SingleNext(t)
  BY <1>4, SingleSound DEF Leaves, Images
<1>5. CASE MultiNext(t)
  BY <1>5, MultiSound DEF Leaves, Images
<1>6. CASE IsoNext(t)
  BY <1>6, IsoSound DEF Leaves, Images
<1>7. CASE BackupNext(t)
  BY <1>1, <1>7, BackupSound DEF Leaves, Images
<1> QED BY <1>2, <1>3, <1>4, <1>5, <1>6, <1>7 DEF ScriptNext

LEMMA IInvStep ==
  ASSUME Separate, IInv, TypeOK', [Next]_vars
  PROVE  IInv'
<1>1. CASE UNCHANGED vars
  BY <1>1 DEF IInv, vars, building, outputs, Apart, Running, Fine, TreeFine, KernelFine, IsoFine,
              Seen, Copied, Mine, At, Unblocked
<1>2. ASSUME NEW t \in Terminals, ScriptNext(t) \/ Interrupt(t) PROVE IInv'
  <2>1. Sound(t) /\ Leaves(job'[t].script)
    BY <1>2, StepSound
  <2>2. Moves(t) \/ Started(t)
    BY <2>1 DEF Sound
  <2>3. /\ Apart'
        /\ \A u \in Terminals \ {t} : job'[u] = job[u]
    BY <2>2, ApartStep DEF IInv
  <2>4. \A u \in Terminals : Fine(u)'
    BY <2>1, <2>2, OthersFine DEF Sound
  <2>5. Unblocked'
    BY <2>1, <2>3 DEF Sound, IInv, Unblocked
  <2> QED BY <2>3, <2>4, <2>5 DEF IInv
<1> QED BY <1>1, <1>2 DEF Next

LEMMA IInvInit == Init => IInv
<1> SUFFICES ASSUME Init PROVE IInv
  OBVIOUS
<1>1. \A t \in Terminals : job[t].pc = "idle" /\ job[t].why = "none"
  BY DEF Init, NoJob
<1>2. Apart /\ Unblocked
  BY <1>1 DEF Apart, Unblocked, Running, Ended, Blocked
<1>3. \A t \in Terminals : Fine(t)
  BY <1>1 DEF Fine, TreeFine, KernelFine, IsoFine, At, Filling
<1> QED BY <1>2, <1>3, InitType DEF IInv

(* Where each script is, and what it has made so far, whatever fails.      *)
THEOREM WorkInvariant ==
  ASSUME Separate
  PROVE  Spec => []IInv
<1>1. Init => IInv
  BY IInvInit
<1>2. IInv /\ TypeOK' /\ [Next]_vars => IInv'
  BY IInvStep
<1> QED BY <1>1, <1>2, TypeCorrect, PTL DEF Spec

(* Run by root, no script ever stops over what an earlier one left: mknod  *)
(* finds no node, cat and cp find their directory, rm is not denied.       *)
THEOREM RerunsAreFree ==
  ASSUME Separate, AsRoot
  PROVE  Spec => []RerunUnblocked
<1>1. IInv => RerunUnblocked
  BY DEF IInv, Unblocked, RerunUnblocked, Blocked
<1> QED BY <1>1, WorkInvariant, PTL

(* A script ends with a step of its own, and that is one of these.         *)
LEMMA LastStep ==
  ASSUME IInv, NEW t \in Terminals, Ending(t), Next
  PROVE  \/ KernelPublishEnd(t)
         \/ job[t].script \in Images /\ Cleanup(t, job[t].script) /\ job[t].pc = "cleanup"
         \/ IsoCleanup(t) \/ BackupRemove(t)
<1>1. PICK u \in Terminals : ScriptNext(u) \/ Interrupt(u)
  BY DEF Next
<1>2. u = t
  BY <1>1, StepSound, ApartStep DEF IInv, Sound, Ending, Running
<1>3. TypeOK /\ JobOK /\ Running(t) /\ job'[t].pc = "done"
  BY DEF IInv, TypeOK, Ending
<1>4. ~Interrupt(t)
  BY <1>3, Control DEF Interrupt, Aborts
<1>5. \A s, l : l # "done" => ~Start(t, s, l)
  BY <1>3 DEF Start
<1>6. /\ \A l : Goto(t, l) => l = "done"
      /\ \A r : ~Abort(t, r)
      /\ \A l : Loop(t, l) => l = "done" \/ job[t].pc = "done"
  BY <1>3, Control DEF Aborts, Advances
<1>7. job[t].pc # "done"
  BY <1>3 DEF Running, Ended
<1>8. CASE KernelNext(t)
  BY <1>5, <1>6, <1>8
     DEF KernelNext, KernelStart, KernelFetch, KernelUntar, KernelMake, KernelPublish,
         Fetch, FetchEnd, Untar, UntarEnd
<1>9. CASE SingleNext(t)
  BY <1>5, <1>6, <1>9
     DEF SingleNext, SingleStart, SingleFetch, SingleUntar, SingleDefconfig, SingleLink,
         SingleMake, SingleInstall, SingleRootfs, SinglePack, SingleCleanup, At, Images,
         Fetch, FetchEnd, Untar, UntarEnd, Install, Clear, Mknod, Write, Chown,
         Pack, PackEnd, PackBroken
<1>10. CASE MultiNext(t)
  BY <1>5, <1>6, <1>10
     DEF MultiNext, MultiStart, MultiCheck, MultiRootfs, MultiPack, MultiCleanup, At, Images,
         Install, Clear, Mknod, Write, Chown, Pack, PackEnd, PackBroken
<1>11. CASE IsoNext(t)
  BY <1>5, <1>6, <1>7, <1>11
     DEF IsoNext, IsoStart, IsoCheck, IsoClear, IsoCopy, IsoMkrescue, IsoBurnt
<1>12. CASE BackupNext(t)
  <2>1. ~BackupCheck(t)
    <3>1. ASSUME job' = [job EXCEPT ![t].at = @ + 1,
                   ![t].missing = IF osboot[BackupOrder[job[t].at]] = Absent
                                    THEN 1 ELSE job[t].missing]
          PROVE  FALSE
      BY <1>3, <1>7, <3>1 DEF JobOK, Jobs
    <3> QED BY <1>6, <3>1 DEF BackupCheck
  <2> QED BY <1>5, <1>6, <1>12, <2>1 DEF BackupNext, BackupStart, BackupZip
<1> QED BY <1>1, <1>2, <1>4, <1>8, <1>9, <1>10, <1>11, <1>12 DEF ScriptNext

LEMMA KernelDelivers ==
  ASSUME IInv, NEW t \in Terminals, KernelPublishEnd(t)
  PROVE  Delivered(t)
<1>1. /\ job[t].script = "kernel" /\ Mine(t, "bzImage")
      /\ Close(t, "bzImage", File("whole", job[t].run, "none", {}))
      /\ osboot \in [Artifacts -> Files] /\ "bzImage" \in Artifacts
  BY DEF IInv, Fine, KernelFine, KernelPublishEnd, At, TypeOK, OutputsOK, Artifacts, Inputs
<1>2. osboot["bzImage"] # Absent
  BY <1>1 DEF Mine, Opened, Absent, File
<1>3. osboot'["bzImage"] = File("whole", job[t].run, "none", {})
  BY <1>1, <1>2 DEF Close
<1>4. Product("kernel") = "bzImage" /\ osboot'["bzImage"].state = "whole"
        /\ osboot'["bzImage"].run = job[t].run
  BY <1>3 DEF Product, File, Images
<1> QED BY <1>1, <1>4 DEF Delivered

LEMMA IsoDelivers ==
  ASSUME IInv, NEW t \in Terminals, IsoCleanup(t)
  PROVE  Delivered(t)
<1>1. /\ job[t].script = "iso" /\ UNCHANGED <<osboot, isoParts>>
      /\ osboot["iso"].state = "whole" /\ osboot["iso"].run = job[t].run
      /\ \A f \in Inputs : isoParts[f] = osboot[f]
  BY DEF IInv, Fine, IsoFine, IsoCleanup, At
<1>2. Product("iso") = "iso"
  BY DEF Product, Images
<1> QED BY <1>1, <1>2 DEF Delivered

(* kernel.sh and iso.sh announce "Done!" only when what they made is there *)
(* and complete, whatever has failed before.                               *)
THEOREM CopiesAreDelivered ==
  ASSUME Separate
  PROVE  Spec => CopiesDelivered
<1>1. IInv /\ [Next]_vars =>
        [\A t \in Terminals : Ending(t) /\ job[t].script \in {"kernel", "iso"} => Delivered(t)]_vars
  <2> SUFFICES ASSUME IInv, Next, NEW t \in Terminals, Ending(t), job[t].script \in {"kernel", "iso"}
               PROVE  Delivered(t)
    OBVIOUS
  <2>1. KernelPublishEnd(t) \/ IsoCleanup(t)
    BY LastStep DEF Images, BackupRemove, At
  <2> QED BY <2>1, KernelDelivers, IsoDelivers
<1> QED BY <1>1, WorkInvariant, PTL DEF Spec, CopiesDelivered
-----------------------------------------------------------------------------
(* Nothing fails.                                                          *)
Undisturbed == Separate /\ AsRoot /\ MaxFaults = 0

(* Some script s is at one of the labels L.                                *)
Watch(s, L) == \E u \in Terminals : job[u].script = s /\ job[u].pc \in L

(* What is not in order is being put in order.                             *)
Owner(p) == IF p = "linux" THEN "kernel" ELSE "single"
SourceTidy(p) ==
  /\ sources[p].tarball = "partial" => Watch(Owner(p), {"fetching"})
  /\ sources[p].tree = "partial" => Watch(Owner(p), {"untarring"})
ConfigTidy ==
  sources["busybox"].tree = "whole" /\ config # "static" => Watch("single", {"configure", "link"})

Writer(f) == IF f = "bzImage" THEN "kernel" ELSE f
Writing   == {"publishing", "packing", "burning"}
Usable(f) == osboot[f].state = "whole" /\ (f \in Images => Good(osboot[f]))
FileTidy(f) == osboot[f] # Absent /\ ~Usable(f) => Watch(Writer(f), Writing)

HasTree     == Filling \cup {"clear", "cleanup"}
HasDir      == {"copy", "mkrescue", "burning", "cleanup"}
TreeTidy(i) == rootfs[i] # EmptyTree => Watch(i, HasTree)
DirTidy     == isoDir # NoDir => Watch("iso", HasDir)

Tidy ==
  /\ \A p \in Packages : SourceTidy(p)
  /\ ConfigTidy
  /\ \A f \in Artifacts : FileTidy(f)
  /\ \A i \in Images : TreeTidy(i)
  /\ DirTidy /\ IsoBootable
Reasonable == \A t \in Terminals : job[t].why \in {"none", "missing"}

(* What a script may count on at a label.                                  *)
SourceFine(t) == \A p \in Packages : job[t].script = Owner(p) =>
  /\ job[t].pc = "untar" => sources[p].tarball = "whole"
  /\ job[t].pc = "configure" => sources[p].tree = "whole"
LinkFine(t) ==
  /\ At(t, "single", "link") => sources["busybox"].tree = "whole"
  /\ job[t].script \in Images /\ job[t].pc \in {"make", "preinstall", "clear", "install"} =>
       sources["busybox"].tree = "whole" /\ config = "static"
  /\ \A i \in Images :
       job[t].script = i /\ job[t].pc \in Filling \ {"install"} => rootfs[i].link = "static"
ImageFine(t) == \A i \in Images :
  /\ At(t, i, "packing") => Mine(t, i)
  /\ At(t, i, "cleanup") => osboot[i].state = "whole" /\ osboot[i].run = job[t].run
OnTrack(t) == SourceFine(t) /\ LinkFine(t) /\ ImageFine(t)

Clean == Tidy /\ Reasonable /\ \A t \in Terminals : OnTrack(t)

OthersStay(t) == \A u \in Terminals \ {t} : job'[u] = job[u]

(* Watch goes on unless the step takes the watcher away.                   *)
LEMMA WatchStays ==
  ASSUME NEW t \in Terminals, OthersStay(t), NEW s, NEW L, Watch(s, L),
         job[t].script = s /\ job[t].pc \in L => job'[t].script = s /\ job'[t].pc \in L
  PROVE  Watch(s, L)'
BY DEF Watch, OthersStay

LEMMA OnlyOne ==
  ASSUME Separate, IInv, NEW t \in Terminals, Running(t), NEW s, NEW L, L \cap Ended = {},
         {job[t].script, s} \notin {{"kernel", "single"}, {"kernel", "multi"}},
         Watch(s, L)
  PROVE  job[t].script = s /\ job[t].pc \in L
<1>1. PICK u \in Terminals : job[u].script = s /\ job[u].pc \in L
  BY DEF Watch
<1>2. Running(u)
  BY <1>1 DEF Running
<1>3. u = t
  BY <1>1, <1>2 DEF IInv, Apart, Separate
<1> QED BY <1>1, <1>3

LEMMA StartClean ==
  ASSUME TypeOK, Clean, NEW t \in Terminals, NEW s \in Scripts, NEW l \in {"fetch", "check"},
         Start(t, s, l)
  PROVE  Clean'
<1>1. /\ OthersStay(t) /\ ~Running(t) /\ UNCHANGED <<building, outputs>>
      /\ job'[t].script = s /\ job'[t].pc = l /\ job'[t].why = "none"
  BY DEF Start, OthersStay, TypeOK, JobOK
<1>2. \A a, L : L \cap Ended = {} /\ Watch(a, L) => Watch(a, L)'
  BY <1>1, WatchStays DEF Running
<1>3. Tidy'
  <2>1. \A p \in Packages : SourceTidy(p)'
    BY <1>1, <1>2 DEF Clean, Tidy, SourceTidy, building, Ended
  <2>2. ConfigTidy'
    BY <1>1, <1>2 DEF Clean, Tidy, ConfigTidy, building, Ended
  <2>3. \A f \in Artifacts : FileTidy(f)'
    BY <1>1, <1>2 DEF Clean, Tidy, FileTidy, Usable, outputs, Ended, Writing
  <2>4. \A i \in Images : TreeTidy(i)'
    BY <1>1, <1>2 DEF Clean, Tidy, TreeTidy, building, Ended, HasTree, Filling
  <2>5. DirTidy' /\ IsoBootable'
    BY <1>1, <1>2 DEF Clean, Tidy, DirTidy, IsoBootable, outputs, Ended, HasDir
  <2> QED BY <2>1, <2>2, <2>3, <2>4, <2>5 DEF Tidy
<1>4. Reasonable'
  BY <1>1 DEF Clean, Reasonable, OthersStay
<1>5. ASSUME NEW u \in Terminals PROVE OnTrack(u)'
  <2>1. CASE u = t
    BY <1>1, <2>1 DEF OnTrack, SourceFine, LinkFine, ImageFine, At, Filling
  <2>2. CASE u # t
    BY <1>1, <2>2 DEF OnTrack, SourceFine, LinkFine, ImageFine, At, Mine, Clean, OthersStay,
                      building, outputs
  <2> QED BY <2>1, <2>2
<1> QED BY <1>3, <1>4, <1>5 DEF Clean

LEMMA OthersOnTrack ==
  ASSUME Separate, IInv, Clean, NEW t \in Terminals, Moves(t), Leaves(job'[t].script),
         NEW u \in Terminals \ {t}
  PROVE  OnTrack(u)'
<1>1. job'[u] = job[u] /\ OnTrack(u)
  BY ApartStep DEF IInv, Clean
<1>2. CASE ~Running(u)
  BY <1>1, <1>2 DEF OnTrack, SourceFine, LinkFine, ImageFine, At, Running, Ended, Filling
<1>3. CASE Running(u)
  <2>1. {job'[t].script, job[u].script} \in Compatible
    BY <1>3, ApartStep DEF IInv
  <2>2. CASE job'[t].script = "kernel" /\ job[u].script \in Images
    <3>1. KernelLeaves /\ \A i \in Images : osboot'[i] = osboot[i]
      BY <2>2 DEF Leaves, KernelLeaves, Images, Artifacts, Inputs
    <3> QED BY <1>1, <2>2, <3>1
            DEF OnTrack, SourceFine, LinkFine, ImageFine, At, Images, KernelLeaves, Mine,
                Owner, Packages
  <2>3. CASE job'[t].script \in Images /\ job[u].script = "kernel"
    <3>1. sources'["linux"] = sources["linux"]
      BY <2>3 DEF Leaves, ImageLeaves
    <3> QED BY <1>1, <2>3, <3>1
            DEF OnTrack, SourceFine, LinkFine, ImageFine, At, Images, Owner, Packages
  <2> QED BY <2>1, <2>2, <2>3, Pairs
<1> QED BY <1>2, <1>3

(* The common end of the lemmas below.                                     *)
LEMMA MoveClean ==
  ASSUME Separate, IInv, Clean, NEW t \in Terminals, Moves(t), Leaves(job'[t].script),
         Tidy', OnTrack(t)', job'[t].why \in {job[t].why, "none", "missing"}
  PROVE  Clean'
<1>1. \A u \in Terminals : OnTrack(u)'
  BY OthersOnTrack
<1>2. Reasonable'
  BY DEF Clean, Reasonable, Moves, Keeps
<1> QED BY <1>1, <1>2 DEF Clean

(* Fetching and unpacking.                                                 *)
LEMMA SourceSteps ==
  ASSUME Separate, IInv, Clean, NEW t \in Terminals, NEW p \in Packages,
         job[t].script = Owner(p),
         \/ job[t].pc = "fetch" /\ Fetch(t, p)
         \/ job[t].pc = "fetching" /\ FetchEnd(t, p)
         \/ job[t].pc = "untar" /\ Untar(t, p)
         \/ job[t].pc = "untarring" /\ UntarEnd(t, p)
  PROVE  /\ SourceTidy(p)'
         /\ \A q \in Packages \ {p} : sources'[q] = sources[q]
         /\ UNCHANGED <<config, rootfs, outputs, vault>>
         /\ \E l \in {"fetching", "untar", "untarring", "configure"} :
              /\ Advances(t, l)
              /\ l = "untar" => sources'[p].tarball = "whole"
              /\ l = "configure" => sources'[p].tree = "whole"
              /\ sources'[p].tree = "whole" => l = "configure" \/ sources[p].tree = "whole"
<1>1. /\ TypeOK /\ JobOK /\ Running(t) /\ SourceFine(t) /\ SourceTidy(p)
      /\ sources \in [Packages -> [tarball : Fetched, tree : Fetched]]
  BY DEF IInv, TypeOK, BuildingOK, Clean, Tidy, OnTrack, Running, Ended
<1>2. \A L : L \cap Ended = {} /\ Watch(Owner(p), L) => job[t].pc \in L
  BY <1>1, OnlyOne DEF Owner
<1>3. /\ sources[p].tarball = "partial" => job[t].pc = "fetching"
      /\ sources[p].tree = "partial" => job[t].pc = "untarring"
  BY <1>1, <1>2 DEF SourceTidy, Ended
<1>4. \A l, L : Advances(t, l) /\ l \in L => Watch(Owner(p), L)'
  BY DEF Advances, Keeps, Watch
<1>5. UNCHANGED <<config, rootfs, outputs, vault>>
        /\ \A q \in Packages \ {p} : sources'[q] = sources[q]
  BY <1>1 DEF Fetch, FetchEnd, Untar, UntarEnd
<1>6. CASE job[t].pc = "fetch" /\ Fetch(t, p)
  <2>1. CASE sources[p].tarball = "absent"
    <3>1. Advances(t, "fetching") /\ sources'[p] = [sources[p] EXCEPT !.tarball = "partial"]
      BY <1>1, <1>6, <2>1, Control DEF Fetch
    <3>2. sources'[p].tarball = "partial" /\ sources'[p].tree = sources[p].tree
      BY <1>1, <3>1
    <3> QED BY <1>3, <1>4, <1>5, <1>6, <3>1, <3>2 DEF SourceTidy
  <2>2. CASE sources[p].tarball # "absent"
    <3>1. Advances(t, "untar") /\ UNCHANGED sources
      BY <1>1, <1>6, <2>2, Control DEF Fetch
    <3>2. sources[p].tarball = "whole" /\ sources[p].tree # "partial"
      BY <1>1, <1>3, <1>6, <2>2 DEF Fetched
    <3> QED BY <1>5, <3>1, <3>2 DEF SourceTidy
  <2> QED BY <2>1, <2>2
<1>7. CASE job[t].pc = "fetching" /\ FetchEnd(t, p)
  <2>1. Advances(t, "untar") /\ sources'[p] = [sources[p] EXCEPT !.tarball = "whole"]
    BY <1>1, <1>7, Control DEF FetchEnd
  <2>2. sources'[p].tarball = "whole" /\ sources'[p].tree = sources[p].tree
    BY <1>1, <2>1
  <2> QED BY <1>3, <1>5, <1>7, <2>1, <2>2 DEF SourceTidy
<1>8. CASE job[t].pc = "untar" /\ Untar(t, p)
  <2>1. sources[p].tarball = "whole" /\ sources[p].tree # "partial"
    BY <1>1, <1>3, <1>8 DEF SourceFine
  <2>2. CASE sources[p].tree # "absent"
    <3>1. Advances(t, "configure") /\ UNCHANGED sources
      BY <1>1, <1>8, <2>1, <2>2, Control DEF Untar
    <3>2. sources[p].tree = "whole"
      BY <1>1, <2>1, <2>2 DEF Fetched
    <3> QED BY <1>5, <2>1, <3>1, <3>2 DEF SourceTidy
  <2>3. CASE sources[p].tree = "absent"
    <3>1. Advances(t, "untarring") /\ sources'[p] = [sources[p] EXCEPT !.tree = "partial"]
      BY <1>1, <1>8, <2>1, <2>3, Control DEF Untar
    <3>2. sources'[p].tarball = "whole" /\ sources'[p].tree = "partial"
      BY <1>1, <2>1, <3>1
    <3> QED BY <1>4, <1>5, <3>1, <3>2 DEF SourceTidy
  <2> QED BY <2>2, <2>3
<1>9. CASE job[t].pc = "untarring" /\ UntarEnd(t, p)
  <2>1. Advances(t, "configure") /\ sources'[p] = [sources[p] EXCEPT !.tree = "whole"]
    BY <1>1, <1>9, Control DEF UntarEnd
  <2>2. sources'[p].tree = "whole" /\ sources'[p].tarball = sources[p].tarball
    BY <1>1, <2>1
  <2> QED BY <1>3, <1>5, <1>9, <2>1, <2>2 DEF SourceTidy
<1> QED BY <1>6, <1>7, <1>8, <1>9

(* kernel.sh.                                                              *)
LEMMA KernelClean ==
  ASSUME Undisturbed, IInv, Clean, NEW t \in Terminals, KernelNext(t)
  PROVE  Clean'
<1>0. /\ Separate /\ TypeOK /\ JobOK /\ OutputsOK /\ KernelLeaves
      /\ job'[t].script = "kernel" /\ Leaves("kernel") /\ OnTrack(t)
      /\ "linux" \in Packages /\ "bzImage" \in Artifacts
  BY KernelSound DEF IInv, TypeOK, Undisturbed, Leaves, Images, Packages, Artifacts, Inputs, Clean
<1>1. CASE KernelStart(t)
  BY <1>0, <1>1, StartClean DEF KernelStart, Scripts
<1>2. CASE ~KernelStart(t)
  <2>1. job[t].script = "kernel" /\ Running(t)
    BY <1>2 DEF KernelNext, KernelFetch, KernelUntar, KernelMake, KernelPublish,
                KernelPublishEnd, At, Running, Ended
  <2>2. Moves(t) /\ OthersStay(t)
    BY <1>0, <2>1, KernelSound DEF Sound, Moves, Started, Start, Keeps, OthersStay
  <2>3. \A s, L : s # "kernel" /\ Watch(s, L) => Watch(s, L)'
    BY <2>1, <2>2, WatchStays
  <2>4. SourceTidy("busybox")' /\ ConfigTidy'
    BY <1>0, <2>3 DEF Clean, Tidy, SourceTidy, ConfigTidy, KernelLeaves, Owner, Packages
  <2>5. \A f \in Artifacts \ {"bzImage"} : FileTidy(f)'
    <3> SUFFICES ASSUME NEW f \in Artifacts \ {"bzImage"} PROVE FileTidy(f)'
      OBVIOUS
    <3>1. osboot'[f] = osboot[f] /\ FileTidy(f) /\ Writer(f) # "kernel"
      BY <1>0 DEF Clean, Tidy, KernelLeaves, Writer, Artifacts, Inputs
    <3> QED BY <2>3, <3>1 DEF FileTidy, Usable
  <2>6. (\A i \in Images : TreeTidy(i)') /\ DirTidy'
    BY <1>0, <2>3 DEF Clean, Tidy, TreeTidy, DirTidy, KernelLeaves, Images
  <2>7. IsoBootable'
    <3>1. osboot'["iso"] = osboot["iso"] /\ UNCHANGED isoParts
      BY <1>0 DEF KernelLeaves, Artifacts
    <3> QED BY <3>1 DEF Clean, Tidy, IsoBootable
  <2>8. ASSUME SourceTidy("linux")', FileTidy("bzImage")', SourceFine(t)',
               NEW l, Advances(t, l)
        PROVE  Clean'
    <3>1. Tidy'
      BY <2>4, <2>5, <2>6, <2>7, <2>8 DEF Tidy, Packages
    <3>2. OnTrack(t)'
      BY <1>0, <2>8 DEF OnTrack, LinkFine, ImageFine, At, Images
    <3> QED BY <1>0, <2>2, <2>8, <3>1, <3>2, MoveClean DEF Advances
  <2>9. CASE KernelFetch(t) \/ KernelUntar(t)
    <3>1. PICK l \in {"fetching", "untar", "untarring", "configure"} :
            /\ Advances(t, l)
            /\ l = "untar" => sources'["linux"].tarball = "whole"
            /\ l = "configure" => sources'["linux"].tree = "whole"
            /\ SourceTidy("linux")' /\ UNCHANGED outputs
      BY <1>0, <2>1, <2>9, SourceSteps DEF KernelFetch, KernelUntar, At, Owner
    <3>2. FileTidy("bzImage")'
      <4>1. job[t].pc \notin Writing
        BY <2>9 DEF KernelFetch, KernelUntar, At, Writing
      <4> QED BY <1>0, <2>2, <3>1, <4>1, WatchStays DEF Clean, Tidy, FileTidy, Usable, outputs
    <3>3. SourceFine(t)'
      BY <1>0, <3>1 DEF SourceFine, Advances, Owner, Packages
    <3> QED BY <2>8, <3>1, <3>2, <3>3
  <2>10. CASE KernelMake(t)
    <3>1. job[t].pc = "configure" /\ UNCHANGED <<building, outputs>>
      BY <2>10 DEF KernelMake, At
    <3>2. sources["linux"].tree = "whole"
      BY <1>0, <2>1, <3>1 DEF OnTrack, SourceFine, Owner
    <3>3. Advances(t, "publish")
      BY <1>0, <2>10, <3>2, Control DEF KernelMake, Buildable
    <3>4. SourceTidy("linux")' /\ FileTidy("bzImage")'
      BY <1>0, <2>2, <3>1, WatchStays
         DEF Clean, Tidy, SourceTidy, FileTidy, Usable, Writing, building, outputs
    <3>5. SourceFine(t)'
      BY <3>3 DEF SourceFine, Advances
    <3> QED BY <2>8, <3>3, <3>4, <3>5
  <2>11. CASE KernelPublish(t) \/ KernelPublishEnd(t)
    <3>1. PICK l \in {"publishing", "done"} : Advances(t, l)
      BY <1>0, <2>11, Control DEF KernelPublish, KernelPublishEnd, Finish
    <3>2. SourceTidy("linux")'
      <4>1. job[t].pc \notin {"fetching", "untarring"} /\ UNCHANGED building
        BY <2>11 DEF KernelPublish, KernelPublishEnd, At
      <4> QED BY <1>0, <2>2, <4>1, WatchStays DEF Clean, Tidy, SourceTidy, building
    <3>3. FileTidy("bzImage")'
      <4>1. CASE KernelPublish(t)
        <5>1. Advances(t, "publishing")
          BY <1>0, <4>1, Control DEF KernelPublish
        <5> QED BY <1>0, <5>1 DEF FileTidy, Watch, Writer, Writing, Advances
      <4>2. CASE KernelPublishEnd(t)
        <5>1. /\ Mine(t, "bzImage") /\ osboot \in [Artifacts -> Files]
              /\ Close(t, "bzImage", File("whole", job[t].run, "none", {}))
          BY <1>0, <4>2 DEF IInv, Fine, KernelFine, KernelPublishEnd, OutputsOK
        <5>2. osboot["bzImage"] # Absent
          BY <5>1 DEF Mine, Opened, Absent, File
        <5>3. osboot'["bzImage"] = File("whole", job[t].run, "none", {})
          BY <1>0, <5>1, <5>2 DEF Close
        <5> QED BY <5>3 DEF FileTidy, Usable, File, Images
      <4> QED BY <2>11, <4>1, <4>2
    <3>4. SourceFine(t)'
      BY <3>1 DEF SourceFine, Advances
    <3> QED BY <2>8, <3>1, <3>2, <3>3, <3>4
  <2> QED BY <1>2, <2>9, <2>10, <2>11 DEF KernelNext
<1> QED BY <1>1, <1>2

(* What a step of the script of image i leaves in order elsewhere.         *)
LEMMA ImageElsewhere ==
  ASSUME IInv, Clean, NEW t \in Terminals, NEW i \in Images, job[t].script = i,
         Moves(t), ImageLeaves(i)
  PROVE  /\ SourceTidy("linux")'
         /\ \A f \in Artifacts \ {i} : FileTidy(f)'
         /\ \A j \in Images \ {i} : TreeTidy(j)'
         /\ DirTidy' /\ IsoBootable'
<1>1. OthersStay(t) /\ i # "kernel" /\ i # "iso"
  BY DEF Moves, Keeps, OthersStay, Images
<1>2. \A s, L : s # i /\ Watch(s, L) => Watch(s, L)'
  BY <1>1, WatchStays
<1>3. SourceTidy("linux")'
  BY <1>1, <1>2 DEF Clean, Tidy, SourceTidy, ImageLeaves, Owner, Packages
<1>4. ASSUME NEW f \in Artifacts \ {i} PROVE FileTidy(f)'
  <2>1. osboot'[f] = osboot[f] /\ FileTidy(f) /\ Writer(f) # i
    BY <1>1 DEF Clean, Tidy, ImageLeaves, Writer
  <2> QED BY <1>2, <2>1 DEF FileTidy, Usable
<1>5. (\A j \in Images \ {i} : TreeTidy(j)') /\ DirTidy'
  BY <1>1, <1>2 DEF Clean, Tidy, TreeTidy, DirTidy, ImageLeaves
<1>6. IsoBootable'
  <2>1. osboot'["iso"] = osboot["iso"] /\ UNCHANGED isoParts
    BY <1>1 DEF ImageLeaves, Artifacts
  <2> QED BY <2>1 DEF Clean, Tidy, IsoBootable
<1> QED BY <1>3, <1>4, <1>5, <1>6

(* The steps on the tree: none is refused, and BusyBox stays static.       *)
TreeStep(t, i) ==
  \/ job[t].pc = "preinstall" /\ Install(t, i, "clear")
  \/ job[t].pc = "clear" /\ Clear(t, i)
  \/ job[t].pc = "install" /\ Install(t, i, "mknod")
  \/ job[t].pc = "mknod" /\ Mknod(t, i)
  \/ /\ job[t].pc \in {"etc", "init"}
     /\ \E part \in Parts, l \in {"init", "chown", "pack"} : Write(t, i, part, l)
  \/ /\ job[t].pc = "chown"
     /\ \E l \in {"init", "pack"} : Chown(t, i, l)
  \/ job[t].pc = "cleanup" /\ Cleanup(t, i)

LEMMA TreeGoes ==
  ASSUME AsRoot, IInv, Clean, NEW t \in Terminals, NEW i \in Images, job[t].script = i,
         TreeStep(t, i)
  PROVE  /\ UNCHANGED <<sources, config, osboot>>
         /\ \E l \in (Filling \ {"packing"}) \cup {"clear", "done"} :
              /\ Advances(t, l)
              /\ l = "done" => rootfs'[i] = EmptyTree
              /\ l \in Filling \ {"install"} => rootfs'[i].link = "static"
              /\ l \in {"clear", "install"} => sources["busybox"].tree = "whole" /\ config = "static"
<1>0. /\ TypeOK /\ JobOK /\ rootfs \in [Images -> Trees] /\ LinkFine(t) /\ ~Denied(i)
      /\ job[t].pc \in Filling => rootfs[i].parts = Made(i, job[t].pc)
  BY DEF IInv, TypeOK, BuildingOK, Fine, TreeFine, Clean, OnTrack, Denied
<1>1. UNCHANGED <<sources, config, osboot>>
  BY DEF TreeStep, Install, Clear, Mknod, Write, Chown, Cleanup, outputs
<1>2. job[t].pc \in {"preinstall", "clear", "install"} =>
        sources["busybox"].tree = "whole" /\ config = "static"
  BY <1>0 DEF LinkFine
<1>3. job[t].pc \in Filling \ {"install"} => rootfs[i].link = "static"
  BY <1>0 DEF LinkFine
<1>4. CASE job[t].pc = "preinstall" /\ Install(t, i, "clear")
  <2>1. Advances(t, "clear")
    BY <1>0, <1>2, <1>4, Control DEF Install
  <2> QED BY <1>1, <1>2, <1>4, <2>1 DEF Filling
<1>5. CASE job[t].pc = "clear" /\ Clear(t, i)
  <2>1. Advances(t, "install")
    BY <1>0, <1>5, Control DEF Clear
  <2> QED BY <1>1, <1>2, <1>5, <2>1 DEF Filling
<1>6. CASE job[t].pc = "install" /\ Install(t, i, "mknod")
  <2>1. Advances(t, "mknod") /\ rootfs'[i].link = "static"
    BY <1>0, <1>2, <1>6, Control DEF Install, Trees
  <2> QED BY <1>1, <2>1 DEF Filling
<1>7. CASE job[t].pc = "mknod" /\ Mknod(t, i)
  <2>1. rootfs[i].parts = {"dirs", "busybox"} /\ rootfs[i].link = "static"
    BY <1>0, <1>3, <1>7 DEF Filling, Made
  <2>2. Advances(t, "etc") /\ rootfs'[i].link = "static"
    BY <1>0, <1>7, <2>1, Control DEF Mknod, Add, Trees
  <2> QED BY <1>1, <2>2 DEF Filling
<1>8. ASSUME job[t].pc \in {"etc", "init"}, NEW part \in Parts,
             NEW l \in {"init", "chown", "pack"}, Write(t, i, part, l)
      PROVE  Advances(t, l) /\ rootfs'[i].link = "static"
  <2>1. "dirs" \in rootfs[i].parts /\ rootfs[i].link = "static"
    BY <1>0, <1>3, <1>8 DEF Filling, Made, Parts
  <2>2. Add(i, part) /\ Goto(t, l)
    BY <1>0, <1>8, <2>1 DEF Write
  <2>3. rootfs'[i].link = "static"
    BY <1>0, <2>1, <2>2 DEF Add, Trees
  <2> QED BY <1>0, <2>2, <2>3, Control
<1>9. ASSUME job[t].pc = "chown", NEW l \in {"init", "pack"}, Chown(t, i, l)
      PROVE  Advances(t, l) /\ rootfs'[i].link = "static"
  <2>1. "dirs" \in rootfs[i].parts /\ rootfs[i].link = "static"
    BY <1>0, <1>3, <1>9 DEF Filling, Made, Parts
  <2> QED BY <1>0, <1>9, <2>1, Control DEF Chown, Trees
<1>10. CASE job[t].pc = "cleanup" /\ Cleanup(t, i)
  <2>1. Advances(t, "done") /\ rootfs'[i] = EmptyTree
    BY <1>0, <1>10, Control DEF Cleanup, Finish
  <2> QED BY <1>1, <2>1 DEF Filling
<1> QED BY <1>1, <1>4, <1>5, <1>6, <1>7, <1>8, <1>9, <1>10 DEF TreeStep, Filling

LEMMA TreeClean ==
  ASSUME Undisturbed, IInv, Clean, NEW t \in Terminals, NEW i \in Images, job[t].script = i,
         Moves(t), ImageLeaves(i), TreeStep(t, i)
  PROVE  Clean'
<1>0. Separate /\ AsRoot /\ Leaves(i) /\ job'[t].script = i /\ OthersStay(t)
  BY DEF Undisturbed, Leaves, Images, Moves, Keeps, OthersStay
<1>1. PICK l \in (Filling \ {"packing"}) \cup {"clear", "done"} :
        /\ Advances(t, l)
        /\ l = "done" => rootfs'[i] = EmptyTree
        /\ l \in Filling \ {"install"} => rootfs'[i].link = "static"
        /\ l \in {"clear", "install"} => sources["busybox"].tree = "whole" /\ config = "static"
  BY <1>0, TreeGoes
<1>2. UNCHANGED <<sources, config, osboot>>
  BY <1>0, TreeGoes
<1>3. job[t].pc \notin {"fetching", "untarring", "configure", "link"} \cup Writing
  BY DEF TreeStep, Writing
<1>4. SourceTidy("busybox")' /\ ConfigTidy' /\ FileTidy(i)'
  <2>1. \A s, L : job[t].pc \notin L /\ Watch(s, L) => Watch(s, L)'
    BY <1>0, WatchStays
  <2> QED BY <1>2, <1>3, <2>1
          DEF Clean, Tidy, SourceTidy, ConfigTidy, FileTidy, Usable, Packages, Artifacts, Inputs,
              Images
<1>5. TreeTidy(i)'
  BY <1>0, <1>1 DEF TreeTidy, Watch, Advances, HasTree
<1>6. Tidy'
  BY <1>4, <1>5, ImageElsewhere DEF Tidy, Packages
<1>7. OnTrack(t)'
  BY <1>0, <1>1, <1>2 DEF OnTrack, SourceFine, LinkFine, ImageFine, At, Advances, Filling
<1> QED BY <1>0, <1>1, <1>6, <1>7, MoveClean DEF Advances

(* Packing: what is packed is complete.                                    *)
LEMMA PackClean ==
  ASSUME Undisturbed, IInv, Clean, NEW t \in Terminals, NEW i \in Images, job[t].script = i,
         Moves(t), ImageLeaves(i),
         \/ job[t].pc = "pack" /\ Pack(t, i)
         \/ job[t].pc = "packing" /\ (PackEnd(t, i) \/ PackBroken(t, i))
  PROVE  Clean'
<1>0. /\ Separate /\ AsRoot /\ Leaves(i) /\ job'[t].script = i /\ OthersStay(t)
      /\ TypeOK /\ JobOK /\ osboot \in [Artifacts -> Files] /\ i \in Artifacts
      /\ UNCHANGED building
      /\ rootfs[i].parts = Parts /\ rootfs[i].link = "static"
      /\ job[t].pc = "packing" => Mine(t, i)
  <2>1. job[t].pc \in {"pack", "packing"}
    OBVIOUS
  <2>2. rootfs[i].parts = Made(i, job[t].pc) /\ rootfs[i].link = "static"
    BY <2>1 DEF IInv, Fine, TreeFine, Clean, OnTrack, LinkFine, Filling
  <2>3. job[t].pc = "packing" => Mine(t, i)
    BY DEF Clean, OnTrack, ImageFine, At
  <2>4. Separate /\ AsRoot /\ Leaves(i) /\ job'[t].script = i /\ OthersStay(t)
    BY DEF Undisturbed, Leaves, Images, Moves, Keeps, OthersStay
  <2> QED BY <2>1, <2>2, <2>3, <2>4
          DEF IInv, TypeOK, OutputsOK, Made, Images, Artifacts, Inputs, Pack, PackEnd, PackBroken
<1>1. PICK l \in {"packing", "cleanup"} :
        /\ Advances(t, l) /\ FileTidy(i)'
        /\ l = "packing" => Mine(t, i)'
        /\ l = "cleanup" => osboot'[i].state = "whole" /\ osboot'[i].run = job[t].run
  <2>1. CASE Pack(t, i)
    <3>1. rootfs[i] # EmptyTree
      BY <1>0 DEF EmptyTree, Parts
    <3>2. Advances(t, "packing") /\ osboot' = [osboot EXCEPT ![i] = Opened(job[t].run)]
      BY <1>0, <2>1, <3>1, Control DEF Pack, Open
    <3>3. Mine(t, i)'
      BY <1>0, <3>2 DEF Mine, Advances
    <3>4. FileTidy(i)'
      BY <1>0, <3>2 DEF FileTidy, Watch, Writer, Writing, Advances, Images
    <3> QED BY <3>2, <3>3, <3>4
  <2>2. CASE job[t].pc = "packing" /\ PackEnd(t, i)
    <3> DEFINE file == File("whole", job[t].run, rootfs[i].link, rootfs[i].parts)
    <3>1. Advances(t, "cleanup") /\ Close(t, i, file)
      BY <1>0, <2>2, Control DEF PackEnd
    <3>2. osboot[i] # Absent
      BY <1>0, <2>2 DEF Mine, Opened, Absent, File
    <3>3. osboot'[i] = file
      BY <1>0, <2>2, <3>1, <3>2 DEF Close
    <3>4. file.state = "whole" /\ file.run = job[t].run /\ Good(file)
      BY <1>0 DEF File, Good
    <3> HIDE DEF file
    <3> QED BY <3>1, <3>3, <3>4 DEF FileTidy, Usable
  <2>3. ~PackBroken(t, i)
    BY DEF PackBroken, Undisturbed, IInv, TypeOK
  <2> QED BY <2>1, <2>2, <2>3
<1>2. SourceTidy("busybox")' /\ ConfigTidy'
  BY <1>0, WatchStays
     DEF Clean, Tidy, SourceTidy, ConfigTidy, Packages, building
<1>3. TreeTidy(i)'
  BY <1>0, <1>1 DEF TreeTidy, Watch, Advances, HasTree, Filling
<1>4. Tidy'
  BY <1>1, <1>2, <1>3, ImageElsewhere DEF Tidy, Packages
<1>5. OnTrack(t)'
  BY <1>0, <1>1 DEF OnTrack, SourceFine, LinkFine, ImageFine, At, Advances, Filling, building
<1> QED BY <1>0, <1>1, <1>4, <1>5, MoveClean DEF Advances

LEMMA SingleClean ==
  ASSUME Undisturbed, IInv, Clean, NEW t \in Terminals, SingleNext(t)
  PROVE  Clean'
<1> DEFINE i == "single"
<1>0. /\ Separate /\ TypeOK /\ JobOK /\ ImageLeaves(i)
      /\ job'[t].script = i /\ Leaves(i) /\ OnTrack(t) /\ i \in Images
      /\ "busybox" \in Packages /\ Owner("busybox") = i
  BY SingleSound DEF IInv, TypeOK, Undisturbed, Leaves, Images, Packages, Clean, Owner
<1>1. CASE SingleStart(t)
  BY <1>0, <1>1, StartClean DEF SingleStart, Scripts
<1>2. CASE ~SingleStart(t)
  <2>1. job[t].script = i /\ Running(t)
    BY <1>2 DEF SingleNext, SingleFetch, SingleUntar, SingleDefconfig, SingleLink, SingleMake,
                SingleInstall, SingleRootfs, SinglePack, SingleCleanup, At, Running, Ended
  <2>2. Moves(t) /\ OthersStay(t)
    BY <1>0, <2>1, SingleSound DEF Sound, Moves, Started, Start, Keeps, OthersStay
  <2>3. CASE SingleInstall(t) \/ SingleRootfs(t) \/ SingleCleanup(t)
    <3>1. CASE At(t, "single", "install") /\ Install(t, "single", "mknod")
      BY <1>0, <2>1, <2>2, <3>1, TreeClean DEF TreeStep, At
    <3>2. CASE ~(At(t, "single", "install") /\ Install(t, "single", "mknod"))
      <4>1. TreeStep(t, i)
        BY <2>3, <3>2 DEF SingleInstall, SingleRootfs, SingleCleanup, At, TreeStep, Parts
      <4> QED BY <1>0, <2>1, <2>2, <4>1, TreeClean
    <3> QED BY <3>1, <3>2
  <2>4. CASE SinglePack(t)
    BY <1>0, <2>1, <2>2, <2>4, PackClean DEF SinglePack, At
  <2>5. ASSUME SourceTidy("busybox")', ConfigTidy', UNCHANGED <<rootfs, outputs>>,
               job[t].pc \notin HasTree \cup Writing,
               NEW l, Advances(t, l), l \notin {"clear", "packing", "cleanup"} \cup Filling,
               SourceFine(t)',
               l = "link" => sources'["busybox"].tree = "whole",
               l \in {"make", "preinstall"} => sources'["busybox"].tree = "whole" /\ config' = "static"
        PROVE  Clean'
    <3>1. TreeTidy(i)' /\ FileTidy(i)'
      BY <1>0, <2>2, <2>5, WatchStays
         DEF Clean, Tidy, TreeTidy, FileTidy, Usable, outputs, Images, Artifacts, Inputs
    <3>2. Tidy'
      BY <1>0, <2>1, <2>2, <2>5, <3>1, ImageElsewhere DEF Tidy, Packages
    <3>3. OnTrack(t)'
      BY <1>0, <2>5 DEF OnTrack, LinkFine, ImageFine, At, Advances, Filling
    <3> QED BY <1>0, <2>2, <2>5, <3>2, <3>3, MoveClean DEF Advances
  <2>6. CASE SingleFetch(t) \/ SingleUntar(t)
    <3>1. PICK l \in {"fetching", "untar", "untarring", "configure"} :
            /\ Advances(t, l)
            /\ l = "untar" => sources'["busybox"].tarball = "whole"
            /\ l = "configure" => sources'["busybox"].tree = "whole"
            /\ sources'["busybox"].tree = "whole" =>
                 l = "configure" \/ sources["busybox"].tree = "whole"
            /\ SourceTidy("busybox")' /\ UNCHANGED <<config, rootfs, outputs>>
      BY <1>0, <2>1, <2>6, SourceSteps DEF SingleFetch, SingleUntar, At
    <3>2. job[t].pc \in {"fetch", "fetching", "untar", "untarring"}
      BY <2>6 DEF SingleFetch, SingleUntar, At
    <3>3. ConfigTidy'
      <4>1. CASE l = "configure"
        BY <1>0, <3>1, <4>1 DEF ConfigTidy, Watch, Advances
      <4>2. CASE l # "configure"
        BY <2>2, <3>1, <3>2, <4>2, WatchStays DEF Clean, Tidy, ConfigTidy
      <4> QED BY <4>1, <4>2
    <3>4. SourceFine(t)'
      BY <1>0, <3>1 DEF SourceFine, Advances, Owner, Packages
    <3> QED BY <2>5, <3>1, <3>2, <3>3, <3>4 DEF HasTree, Filling, Writing
  <2>7. ASSUME job[t].pc \notin {"fetching", "untarring"}, UNCHANGED sources
        PROVE  SourceTidy("busybox")'
    BY <1>0, <2>2, <2>7, WatchStays DEF Clean, Tidy, SourceTidy
  <2>8. CASE SingleDefconfig(t)
    <3>1. job[t].pc = "configure" /\ sources["busybox"].tree = "whole"
      BY <1>0, <2>1, <2>8 DEF SingleDefconfig, At, OnTrack, SourceFine
    <3>2. Advances(t, "link") /\ UNCHANGED <<sources, rootfs, outputs>>
      BY <1>0, <2>8, <3>1, Control DEF SingleDefconfig, Buildable
    <3>3. ConfigTidy'
      BY <1>0, <3>2 DEF ConfigTidy, Watch, Advances
    <3> QED BY <2>5, <2>7, <3>1, <3>2, <3>3 DEF HasTree, Filling, Writing, SourceFine, Advances
  <2>9. CASE SingleLink(t)
    <3>1. job[t].pc = "link" /\ sources["busybox"].tree = "whole"
      BY <1>0, <2>1, <2>9 DEF SingleLink, At, OnTrack, LinkFine
    <3>2. Advances(t, "make") /\ config' = "static" /\ UNCHANGED <<sources, rootfs, outputs>>
      BY <1>0, <2>9, Control DEF SingleLink
    <3>3. ConfigTidy'
      BY <3>2 DEF ConfigTidy
    <3> QED BY <2>5, <2>7, <3>1, <3>2, <3>3 DEF HasTree, Filling, Writing, SourceFine, Advances
  <2>10. CASE SingleMake(t)
    <3>1. job[t].pc = "make" /\ sources["busybox"].tree = "whole" /\ config = "static"
      BY <1>0, <2>1, <2>10 DEF SingleMake, At, OnTrack, LinkFine
    <3>2. Advances(t, "preinstall") /\ UNCHANGED <<sources, config, rootfs, outputs>>
      BY <1>0, <2>10, Control DEF SingleMake, building
    <3>3. ConfigTidy'
      BY <3>1, <3>2 DEF ConfigTidy
    <3> QED BY <2>5, <2>7, <3>1, <3>2, <3>3 DEF HasTree, Filling, Writing, SourceFine, Advances
  <2> QED BY <1>2, <2>3, <2>4, <2>6, <2>8, <2>9, <2>10 DEF SingleNext
<1> QED BY <1>1, <1>2

LEMMA MultiClean ==
  ASSUME Undisturbed, IInv, Clean, NEW t \in Terminals, MultiNext(t)
  PROVE  Clean'
<1> DEFINE i == "multi"
<1>0. /\ Separate /\ TypeOK /\ JobOK /\ ImageLeaves(i)
      /\ job'[t].script = i /\ Leaves(i) /\ OnTrack(t) /\ i \in Images
  BY MultiSound DEF IInv, TypeOK, Undisturbed, Leaves, Images, Clean
<1>1. CASE MultiStart(t)
  BY <1>0, <1>1, StartClean DEF MultiStart, Scripts
<1>2. CASE ~MultiStart(t)
  <2>1. job[t].script = i /\ Running(t)
    BY <1>2 DEF MultiNext, MultiCheck, MultiRootfs, MultiPack, MultiCleanup, At, Running, Ended
  <2>2. Moves(t) /\ OthersStay(t)
    BY <1>0, <2>1, MultiSound DEF Sound, Moves, Started, Start, Keeps, OthersStay
  <2>3. CASE MultiRootfs(t) \/ MultiCleanup(t)
    <3>1. TreeStep(t, i)
      BY <2>3 DEF MultiRootfs, MultiCleanup, At, TreeStep, Parts
    <3> QED BY <1>0, <2>1, <2>2, <3>1, TreeClean
  <2>4. CASE MultiPack(t)
    BY <1>0, <2>1, <2>2, <2>4, PackClean DEF MultiPack, At
  <2>5. CASE MultiCheck(t)
    <3>1. job[t].pc = "check" /\ UNCHANGED <<building, outputs>>
      BY <2>5 DEF MultiCheck, At
    <3>2. \A L : L \cap Ended = {} => ~Watch("single", L)
      BY <1>0, <2>1, OnlyOne
    <3>3. sources["busybox"].tree # "partial"
            /\ (sources["busybox"].tree = "whole" => config = "static")
      BY <3>2 DEF Clean, Tidy, SourceTidy, ConfigTidy, Packages, Owner, Ended
    <3>4. sources["busybox"].tree # "absent" => sources["busybox"].tree = "whole"
      BY <1>0, <3>3 DEF TypeOK, BuildingOK, Packages, Fetched
    <3>5. SourceTidy("busybox")' /\ ConfigTidy' /\ TreeTidy(i)' /\ FileTidy(i)'
      BY <1>0, <2>2, <3>1, WatchStays
         DEF Clean, Tidy, SourceTidy, ConfigTidy, TreeTidy, FileTidy, Usable, Packages, Images,
             Artifacts, Inputs, building, outputs, HasTree, Filling, Writing
    <3>6. Tidy'
      BY <1>0, <2>1, <2>2, <3>5, ImageElsewhere DEF Tidy, Packages
    <3>7. \/ Aborts(t, "missing")
          \/ Advances(t, "clear") /\ sources["busybox"].tree # "absent"
      BY <1>0, <2>5, Control DEF MultiCheck
    <3>8. OnTrack(t)' /\ job'[t].why \in {job[t].why, "missing"}
      BY <1>0, <3>1, <3>3, <3>4, <3>7
         DEF OnTrack, SourceFine, LinkFine, ImageFine, At, Advances, Aborts, Filling, building
    <3> QED BY <1>0, <2>2, <3>6, <3>8, MoveClean
  <2> QED BY <1>2, <2>3, <2>4, <2>5 DEF MultiNext
<1> QED BY <1>1, <1>2

(* iso.sh: the files it has seen are usable, for nobody else is at work.   *)
LEMMA IsoClean ==
  ASSUME Undisturbed, IInv, Clean, NEW t \in Terminals, IsoNext(t)
  PROVE  Clean'
<1>0. /\ Separate /\ TypeOK /\ JobOK /\ osboot \in [Artifacts -> Files] /\ IsoFine(t)
      /\ job'[t].script = "iso" /\ Leaves("iso") /\ "iso" \in Artifacts /\ Inputs \subseteq Artifacts
  BY IsoSound DEF IInv, TypeOK, OutputsOK, Undisturbed, Leaves, Images, Artifacts, Fine
<1>1. CASE IsoStart(t)
  BY <1>0, <1>1, StartClean DEF IsoStart, Scripts
<1>2. CASE ~IsoStart(t)
  <2>1. /\ job[t].script = "iso" /\ Running(t) /\ UNCHANGED building
        /\ \A f \in Artifacts \ {"iso"} : osboot'[f] = osboot[f]
    BY <1>0, <1>2 DEF IsoNext, IsoCheck, IsoClear, IsoCopy, IsoMkrescue, IsoBurnt, IsoCleanup,
                At, Running, Ended, outputs, Open, Close
  <2>2. Moves(t) /\ OthersStay(t)
    BY <1>0, <2>1, IsoSound DEF Sound, Moves, Started, Start, Keeps, OthersStay
  <2>3. \A s, L : s # "iso" /\ Watch(s, L) => Watch(s, L)'
    BY <2>1, <2>2, WatchStays
  <2>4. ConfigTidy' /\ (\A i \in Images : TreeTidy(i)')
    BY <2>1, <2>3 DEF Clean, Tidy, ConfigTidy, TreeTidy, building, Images
  <2>5. \A p \in Packages : SourceTidy(p)'
    BY <2>1, <2>3 DEF Clean, Tidy, SourceTidy, building, Owner
  <2>6. \A f \in Artifacts \ {"iso"} : FileTidy(f)'
    <3> SUFFICES ASSUME NEW f \in Artifacts \ {"iso"} PROVE FileTidy(f)'
      OBVIOUS
    <3>1. osboot'[f] = osboot[f] /\ FileTidy(f) /\ Writer(f) # "iso"
      BY <2>1 DEF Clean, Tidy, Writer
    <3> QED BY <2>3, <3>1 DEF FileTidy, Usable
  <2>7. ASSUME FileTidy("iso")', DirTidy', IsoBootable', job'[t].why \in {job[t].why, "missing"}
        PROVE  Clean'
    <3>1. Tidy'
      BY <2>4, <2>5, <2>6, <2>7 DEF Tidy
    <3>2. OnTrack(t)'
      BY <1>0 DEF OnTrack, SourceFine, LinkFine, ImageFine, At, Images, Owner
    <3> QED BY <1>0, <2>2, <2>7, <3>1, <3>2, MoveClean
  <2>8. ASSUME UNCHANGED <<osboot, isoParts>>, job[t].pc \notin Writing
        PROVE  FileTidy("iso")' /\ IsoBootable'
    BY <1>0, <2>2, <2>8, WatchStays DEF Clean, Tidy, FileTidy, Usable, IsoBootable
  <2>9. ASSUME NEW l \in HasDir, Advances(t, l) PROVE DirTidy'
    BY <1>0, <2>9 DEF DirTidy, Watch, Advances
  <2>10. CASE IsoCheck(t)
    <3>1. job[t].pc = "check" /\ UNCHANGED outputs
      BY <2>10 DEF IsoCheck, At
    <3>2. DirTidy'
      BY <2>2, <3>1, WatchStays DEF Clean, Tidy, DirTidy, HasDir, outputs
    <3>3. Aborts(t, "missing") \/ \E l : Advances(t, l)
      BY <1>0, <2>10, Control DEF IsoCheck
    <3> QED BY <2>7, <2>8, <3>1, <3>2, <3>3 DEF Aborts, Advances, Writing, outputs
  <2>11. CASE IsoClear(t)
    <3>1. Advances(t, "copy") /\ UNCHANGED <<osboot, isoParts>> /\ job[t].pc = "clear"
      BY <1>0, <2>11, Control DEF IsoClear, At
    <3> QED BY <2>7, <2>8, <2>9, <3>1 DEF Advances, Writing, HasDir
  <2>12. CASE IsoCopy(t)
    <3>1. Seen(3) /\ Copied(job[t].at - 1) /\ job[t].pc = "copy" /\ job[t].at \in 1 .. 3
      BY <1>0, <2>1, <2>12, Lists DEF IsoFine, IsoCopy, At, JobOK, FileList
    <3>2. osboot[IsoOrder[job[t].at]] # Absent /\ isoDir # NoDir
      BY <3>1, DirThere DEF Seen, Copied
    <3>3. Loop(t, "mkrescue") /\ UNCHANGED <<osboot, isoParts>>
      BY <2>12, <3>2 DEF IsoCopy
    <3>4. Advances(t, "copy") \/ Advances(t, "mkrescue")
      BY <1>0, <3>1, <3>3, Control
    <3> QED BY <2>7, <2>8, <2>9, <3>1, <3>3, <3>4 DEF Advances, Writing, HasDir
  <2>13. CASE IsoMkrescue(t)
    <3>1. Copied(3) /\ isoDir # NoDir
      BY <1>0, <2>1, <2>13, DirThere DEF IsoFine, IsoMkrescue, At, Copied
    <3>2. Advances(t, "burning") /\ osboot' = [osboot EXCEPT !["iso"] = Opened(job[t].run)]
      BY <1>0, <2>13, <3>1, Control DEF IsoMkrescue, Open
    <3>3. osboot'["iso"].state = "partial"
      BY <1>0, <3>2 DEF Opened, File
    <3>4. IsoBootable' /\ FileTidy("iso")'
      BY <1>0, <3>2, <3>3 DEF IsoBootable, FileTidy, Watch, Writer, Writing, Advances
    <3> QED BY <2>7, <2>9, <3>2, <3>4 DEF Advances, HasDir
  <2>14. CASE IsoBurnt(t)
    <3>1. Seen(3) /\ Copied(3) /\ isoDir # NoDir /\ Mine(t, "iso")
      BY <1>0, <2>1, <2>14, DirThere DEF IsoFine, IsoBurnt, At, Copied
    <3>2. Advances(t, "cleanup") /\ isoParts' = isoDir
            /\ Close(t, "iso", File("whole", job[t].run, "none", {}))
      BY <1>0, <2>14, <3>1, Control DEF IsoBurnt
    <3>3. FileTidy("iso")'
      <4>1. osboot["iso"] # Absent
        BY <3>1 DEF Mine, Opened, Absent, File
      <4>2. osboot'["iso"] = File("whole", job[t].run, "none", {})
        BY <1>0, <3>1, <3>2, <4>1 DEF Close
      <4> QED BY <4>2 DEF FileTidy, Usable, File, Images
    <3>4. ASSUME NEW f \in Inputs PROVE isoParts'[f] = osboot[f] /\ Usable(f)
      <4>1. osboot[f] # Absent /\ isoDir[f] = osboot[f]
        BY <3>1 DEF Seen, Copied, Inputs, IsoOrder
      <4>2. ~Watch(Writer(f), Writing)
        <5>1. {"iso", Writer(f)} \notin {{"kernel", "single"}, {"kernel", "multi"}}
                /\ Writer(f) # "iso" /\ Writing \cap Ended = {}
          BY DEF Writer, Inputs, Writing, Ended
        <5> QED BY <1>0, <2>1, <5>1, OnlyOne
      <4> QED BY <1>0, <3>2, <4>1, <4>2 DEF Clean, Tidy, FileTidy
    <3>5. IsoBootable'
      BY <3>4 DEF IsoBootable, Usable, Inputs, Images
    <3> QED BY <2>7, <2>9, <3>2, <3>3, <3>5 DEF Advances, HasDir
  <2>15. CASE IsoCleanup(t)
    <3>1. Advances(t, "done") /\ isoDir' = NoDir /\ UNCHANGED <<osboot, isoParts>>
            /\ job[t].pc = "cleanup"
      BY <1>0, <2>15, Control DEF IsoCleanup, Finish, At
    <3>2. DirTidy'
      BY <3>1 DEF DirTidy
    <3> QED BY <2>7, <2>8, <3>1, <3>2 DEF Advances, Writing
  <2> QED BY <1>2, <2>10, <2>11, <2>12, <2>13, <2>14, <2>15 DEF IsoNext
<1> QED BY <1>1, <1>2

LEMMA BackupClean ==
  ASSUME Undisturbed, IInv, Clean, NEW t \in Terminals, BackupNext(t)
  PROVE  Clean'
<1>0. /\ Separate /\ TypeOK /\ JobOK /\ osboot \in [Artifacts -> Files]
      /\ job'[t].script = "backup" /\ Leaves("backup")
  BY BackupSound DEF IInv, TypeOK, OutputsOK, Undisturbed, Leaves, Images
<1>1. CASE BackupStart(t)
  BY <1>0, <1>1, StartClean DEF BackupStart, Scripts
<1>2. CASE ~BackupStart(t)
  <2>1. job[t].script = "backup" /\ Running(t) /\ UNCHANGED <<building, isoDir, isoParts>>
    BY <1>2 DEF BackupNext, BackupCheck, BackupZip, BackupRemove, At, Running, Ended, outputs
  <2>2. Moves(t) /\ OthersStay(t)
    BY <1>0, <2>1, BackupSound DEF Sound, Moves, Started, Start, Keeps, OthersStay
  <2>3. \A s, L : s # "backup" /\ Watch(s, L) => Watch(s, L)'
    BY <2>1, <2>2, WatchStays
  <2>4. \A f \in Artifacts : osboot'[f] \in {osboot[f], Absent}
    <3>1. CASE UNCHANGED osboot
      BY <3>1
    <3>2. CASE BackupRemove(t)
      BY <1>0, <3>2 DEF BackupRemove
    <3> QED BY <1>2, <3>1, <3>2 DEF BackupNext, BackupCheck, BackupZip, outputs
  <2>5. \A f \in Artifacts : FileTidy(f)'
    BY <2>3, <2>4 DEF Clean, Tidy, FileTidy, Usable, Writer, Artifacts, Inputs
  <2>6. (\A p \in Packages : SourceTidy(p)') /\ ConfigTidy'
    BY <2>1, <2>3 DEF Clean, Tidy, SourceTidy, ConfigTidy, building, Owner
  <2>7. (\A i \in Images : TreeTidy(i)') /\ DirTidy'
    BY <2>1, <2>3 DEF Clean, Tidy, TreeTidy, DirTidy, building, Images
  <2>8. IsoBootable'
    BY <2>1, <2>4 DEF Clean, Tidy, IsoBootable, Absent, File, Artifacts
  <2>9. OnTrack(t)'
    BY <1>0 DEF OnTrack, SourceFine, LinkFine, ImageFine, At, Images, Owner
  <2>10. job'[t].why \in {job[t].why, "missing"}
    <3> DEFINE missing == IF osboot[BackupOrder[job[t].at]] = Absent THEN 1 ELSE job[t].missing
    <3>1. CASE job' = [job EXCEPT ![t].at = @ + 1, ![t].missing = missing]
      <4> HIDE DEF missing
      <4> QED BY <1>0, <3>1 DEF JobOK, Jobs
    <3>2. CASE (\E l : Advances(t, l)) \/ Aborts(t, "missing")
      BY <3>2 DEF Advances, Aborts
    <3> QED BY <1>0, <1>2, <3>1, <3>2, Control DEF BackupNext, BackupCheck, BackupZip, BackupRemove
  <2> QED BY <1>0, <2>2, <2>5, <2>6, <2>7, <2>8, <2>9, <2>10, MoveClean DEF Tidy
<1> QED BY <1>1, <1>2

LEMMA CleanStep ==
  ASSUME Undisturbed, IInv, Clean, [Next]_vars
  PROVE  Clean'
<1>1. CASE UNCHANGED vars
  BY <1>1 DEF vars, building, outputs, Clean, Tidy, SourceTidy, ConfigTidy, FileTidy, Usable,
              TreeTidy, DirTidy, IsoBootable, Reasonable, OnTrack, SourceFine, LinkFine,
              ImageFine, Watch, At, Mine
<1>2. ASSUME NEW t \in Terminals, Interrupt(t) PROVE FALSE
  BY <1>2 DEF Interrupt, Undisturbed, IInv, TypeOK
<1> QED BY <1>1, <1>2, KernelClean, SingleClean, MultiClean, IsoClean, BackupClean
        DEF Next, ScriptNext

LEMMA CleanInit == Init => Clean
<1> SUFFICES ASSUME Init PROVE Clean
  OBVIOUS
<1>1. \A t \in Terminals : job[t].pc = "idle" /\ job[t].why = "none"
  BY DEF Init, NoJob
<1>2. /\ \A p \in Packages : sources[p].tarball # "partial" /\ sources[p].tree # "partial"
      /\ sources["busybox"].tree = "whole" => config = "static"
  BY DEF Init, FreshClone, CheckedIn, Packages
<1>3. osboot["iso"] = Absent /\ \A f \in Artifacts : osboot[f] = Absent \/ Usable(f)
  BY DEF Init, FreshClone, CheckedIn, Usable, Good, File, Images, Artifacts, Inputs
<1>4. Tidy
  BY <1>2, <1>3 DEF Init, Tidy, SourceTidy, ConfigTidy, FileTidy, TreeTidy, DirTidy, IsoBootable,
                    Absent, File
<1>5. \A t \in Terminals : OnTrack(t)
  BY <1>1 DEF OnTrack, SourceFine, LinkFine, ImageFine, At, Filling
<1> QED BY <1>1, <1>4, <1>5 DEF Clean, Reasonable

(* If nothing fails, whatever is incomplete is being completed, and every  *)
(* script finds what it counts on, in every order of any number of runs.   *)
THEOREM CleanInvariant ==
  ASSUME Undisturbed
  PROVE  Spec => []Clean
<1>1. Init => Clean
  BY CleanInit
<1>2. IInv /\ Clean /\ [Next]_vars => Clean'
  BY CleanStep
<1>3. Spec => []IInv
  BY WorkInvariant DEF Undisturbed
<1> QED BY <1>1, <1>2, <1>3, PTL DEF Spec

(* A finished ISO holds a complete kernel and two images that can boot.    *)
THEOREM IsoBoots ==
  ASSUME Undisturbed
  PROVE  Spec => []IsoBootable
<1>1. Clean => IsoBootable
  BY DEF Clean, Tidy
<1> QED BY <1>1, CleanInvariant, PTL

(* A script stops only because of a file the user has not made yet.        *)
THEOREM NoScriptFails ==
  ASSUME Undisturbed
  PROVE  Spec => []NoSpuriousFailure
<1>1. Clean => NoSpuriousFailure
  BY DEF Clean, Reasonable, NoSpuriousFailure
<1> QED BY <1>1, CleanInvariant, PTL

(* When no script runs, no rootfs_<image>/ and no iso_build/ is left.      *)
THEOREM NothingIsLeft ==
  ASSUME Undisturbed
  PROVE  Spec => []NoLeftovers
<1>1. Clean => NoLeftovers
  BY DEF Clean, Tidy, TreeTidy, DirTidy, NoLeftovers, Watch, Running, Ended, HasTree, HasDir,
         Filling
<1> QED BY <1>1, CleanInvariant, PTL

(* "Done!" is true of every script.                                        *)
THEOREM DoneIsDelivered ==
  ASSUME Undisturbed
  PROVE  Spec => DoneMeansDelivered
<1>1. IInv /\ Clean /\ [Next]_vars =>
        [\A t \in Terminals : Ending(t) /\ job[t].script # "backup" => Delivered(t)]_vars
  <2> SUFFICES ASSUME IInv, Clean, Next, NEW t \in Terminals, Ending(t), job[t].script # "backup"
               PROVE  Delivered(t)
    OBVIOUS
  <2>1. CASE KernelPublishEnd(t) \/ IsoCleanup(t)
    BY <2>1, KernelDelivers, IsoDelivers
  <2>2. CASE job[t].script \in Images /\ Cleanup(t, job[t].script) /\ job[t].pc = "cleanup"
    <3> DEFINE i == job[t].script
    <3>1. osboot[i].state = "whole" /\ osboot[i].run = job[t].run
      BY <2>2 DEF Clean, OnTrack, ImageFine, At
    <3>2. Product(i) = i /\ i # "iso" /\ UNCHANGED osboot
      BY <2>2 DEF Product, Images, Cleanup, outputs
    <3> QED BY <3>1, <3>2 DEF Delivered
  <2> QED BY <2>1, <2>2, LastStep DEF BackupRemove, At
<1>2. Spec => []IInv
  BY WorkInvariant DEF Undisturbed
<1> QED BY <1>1, <1>2, CleanInvariant, PTL DEF Spec, DoneMeansDelivered
=============================================================================
