--------------------------- MODULE BuildPipeline ---------------------------
(***************************************************************************)
(* The five build scripts of soal1/, started in any order in any terminal  *)
(* (as far as Compatible allows), interrupted at any step, started again.  *)
(***************************************************************************)
EXTENDS KernelScript, SingleScript, MultiScript, IsoScript, BackupScript

(* A directory that holds the scripts and nothing else. *)
FreshClone ==
  /\ sources = [p \in Packages |-> [tarball |-> "absent", tree |-> "absent"]]
  /\ config = "none"
  /\ osboot = [f \in Artifacts |-> Absent]

(* The directory as it is committed: BusyBox unpacked and built, the kernel *)
(* and the two images in osboot/.                                          *)
CheckedIn ==
  /\ sources = [p \in Packages |-> IF p = "busybox"
                  THEN [tarball |-> "whole", tree |-> "whole"]
                  ELSE [tarball |-> "absent", tree |-> "absent"]]
  /\ config = "static"
  /\ osboot = [f \in Artifacts |->
       CASE f \in Images    -> File("whole", 0, "static", Parts)
         [] f = "bzImage"   -> File("whole", 0, "none", {})
         [] OTHER           -> Absent]

Init ==
  /\ FreshClone \/ CheckedIn
  /\ rootfs = [i \in Images |-> EmptyTree]
  /\ isoDir = NoDir
  /\ isoParts = EmptyDir
  /\ archives = {} /\ removed = {}
  /\ job = [t \in Terminals |-> NoJob]
  /\ runs = 0 /\ faults = 0

ScriptNext(t) ==
  KernelNext(t) \/ SingleNext(t) \/ MultiNext(t) \/ IsoNext(t) \/ BackupNext(t)

Next == \E t \in Terminals : ScriptNext(t) \/ Interrupt(t)

Spec == Init /\ [][Next]_vars

-----------------------------------------------------------------------------
(* Safety. *)

(* backup.sh removes a file of osboot/ only if an archive holds a file of  *)
(* the same name and content.                                              *)
NothingLost == \A r \in removed : \E z \in archives : z[r[1]] = r[2]

(* Of the files that are committed, whose run is 0, none is lost, whatever *)
(* runs beside backup.sh, another backup.sh included, and whatever is      *)
(* interrupted: only what a script writes after zip can be.                *)
CommittedKept ==
  \A r \in removed : r[2].run = 0 => \E z \in archives : z[r[1]] = r[2]

(* Why nothing is lost when nothing else runs beside backup.sh: while it   *)
(* removes files, one archive agrees with osboot/ on all the files it has  *)
(* not come to yet; while it checks them, those it has passed exist unless *)
(* MISSING is set.                                                         *)
Alone == \A t, u \in Terminals :
  Running(t) /\ Running(u) /\ job[t].script = "backup" => u = t

Covered(t) == At(t, "backup", "remove") =>
  \E z \in archives : \A k \in job[t].at .. 4 : z[BackupOrder[k]] = osboot[BackupOrder[k]]

Checked(t) ==
  /\ At(t, "backup", "check") /\ job[t].missing = 0 =>
       \A k \in 1 .. job[t].at - 1 : osboot[BackupOrder[k]] # Absent
  /\ At(t, "backup", "zip") => \A f \in Artifacts : osboot[f] # Absent

BackupInv ==
  /\ TypeOK
  /\ Alone
  /\ \A t \in Terminals : Covered(t) /\ Checked(t)
  /\ NothingLost

(* The artifacts are never lost and never archived in part: the build      *)
(* scripts implement the artifact store.                                   *)
Store == INSTANCE ArtifactStore
           WITH Nothing <- Absent, store <- osboot, vault <- archives
ImplementsStore == Store!StoreSpec

(* An image that can boot: written to the end, its BusyBox linked static   *)
(* (the image has no shared library), every part of the tree packed.       *)
Good(file) == file.state = "whole" /\ file.link = "static" /\ file.parts = Parts

(* A complete farewell.iso holds a complete kernel and two images that can *)
(* boot: iso.sh picks up nothing that another script left half done.       *)
IsoBootable ==
  osboot["iso"].state = "whole" =>
    /\ isoParts["bzImage"].state = "whole"
    /\ \A i \in Images : Good(isoParts[i])

Ending(t) == Running(t) /\ ~Running(t)' /\ job'[t].pc = "done"

Product(s) == CASE s = "kernel" -> "bzImage"
                [] s \in Images \cup {"iso"} -> s

(* The file is the work of the run that ends, and complete; the ISO holds  *)
(* the kernel and the images that are in osboot/.                          *)
Delivered(t) ==
  LET s == job[t].script IN
    /\ osboot'[Product(s)].state = "whole"
    /\ osboot'[Product(s)].run = job[t].run
    /\ s = "iso" => \A f \in Inputs : isoParts'[f] = osboot'[f]

(* A script that prints "[+] Done!" has delivered what it names there.     *)
DoneMeansDelivered ==
  [][\A t \in Terminals :
       Ending(t) /\ job[t].script # "backup" => Delivered(t)]_vars

(* kernel.sh and iso.sh do so even if a command of theirs may fail.        *)
CopiesDelivered ==
  [][\A t \in Terminals :
       Ending(t) /\ job[t].script \in {"kernel", "iso"} => Delivered(t)]_vars

(* A script stops early only because of a fault or because of a file the   *)
(* user has not made yet, never over what an earlier script left behind.   *)
NoSpuriousFailure ==
  \A t \in Terminals : job[t].why \in {"none", "fault", "missing"}

(* Whatever an interrupted run left behind, mknod, install, cat and rm of  *)
(* a later run succeed: each script starts from a directory of its own.    *)
RerunUnblocked ==
  \A t \in Terminals : job[t].why \notin {"exists", "denied", "gone"}

(* No rootfs_<image>/ and no iso_build/ is left when no script runs: each  *)
(* script removes what it made ("Cleanup leftover build files").           *)
NoLeftovers ==
  (\A t \in Terminals : ~Running(t)) =>
     (\A i \in Images : rootfs[i] = EmptyTree) /\ isoDir = NoDir
=============================================================================
