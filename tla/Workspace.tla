----------------------------- MODULE Workspace -----------------------------
(***************************************************************************)
(* The working directory soal1/ that the build scripts share, and the      *)
(* shells that run them.  Every script starts with "set -e": the first     *)
(* command that fails ends the script where it stands, leaving the files   *)
(* as that command left them.  A command that writes a shared file over    *)
(* time (wget, tar, gzip, grub-mkrescue, the cp of the kernel) is two      *)
(* steps, so that what is on disk in between can be seen, and can be what  *)
(* an interruption leaves.                                                 *)
(***************************************************************************)
EXTENDS Naturals, FiniteSets, Sequences

CONSTANTS
  Terminals,  \* the shells in which a script can be started
  AsRoot,     \* TRUE iff the scripts are run by uid 0
  Compatible, \* the sets of scripts that may run at the same time
  MaxRuns,    \* bound on the number of scripts started
  MaxFaults   \* bound on the number of commands that fail or are killed

ASSUME ConstantsAssumption ==
  /\ AsRoot \in BOOLEAN
  /\ Compatible \subseteq SUBSET {"kernel", "single", "multi", "iso", "backup"}
  /\ MaxRuns \in Nat /\ MaxFaults \in Nat

VARIABLES
  sources,   \* the downloaded tarballs and the trees unpacked from them
  config,    \* how busybox-1.37.0/.config says to link the binary
  rootfs,    \* the directories rootfs_single/ and rootfs_multi/
  osboot,    \* the directory osboot/
  isoDir,    \* the files under iso_build/boot/, <<>> if there is no such directory
  isoParts,  \* what the last farewell.iso written was made of
  archives,  \* the contents of the backup zips
  removed,   \* history: what backup.sh has removed from osboot/
  job,       \* the script each terminal runs, or ran last
  runs,      \* how many scripts have been started
  faults     \* how many commands have failed or been killed

building == <<sources, config, rootfs>>
outputs  == <<osboot, isoDir, isoParts>>
vault    == <<archives, removed>>
counters == <<runs, faults>>
vars     == <<building, outputs, vault, job, counters>>

Scripts   == {"kernel", "single", "multi", "iso", "backup"}
Packages  == {"linux", "busybox"}
Images    == {"single", "multi"}
Inputs    == {"bzImage", "single", "multi"}    \* what iso.sh needs
Artifacts == Inputs \cup {"iso"}
Fetched   == {"absent", "partial", "whole"}
Links     == {"none", "dynamic", "static"}
Parts     == {"dirs", "busybox", "dev", "etc", "init"}
Reasons   == {"none", "fault", "missing", "gone", "truncated", "exists", "denied"}

(* The files iso.sh and backup.sh go through, in the order of the scripts. *)
IsoOrder    == <<"bzImage", "single", "multi">>
BackupOrder == <<"bzImage", "single", "multi", "iso">>
FileList(s) == IF s = "iso" THEN IsoOrder ELSE BackupOrder

Labels == {"idle", "done", "failed",
           "fetch", "fetching", "untar", "untarring", "configure", "link",
           "make", "publish", "publishing", "preinstall", "check", "clear",
           "install", "mknod", "etc", "chown", "init", "pack", "packing",
           "copy", "mkrescue", "burning", "zip", "remove", "cleanup"}
Ended == {"idle", "done", "failed"}

(* A file of osboot/: the run that last opened it for writing and, for an  *)
(* initramfs, what was packed.                                             *)
File(state, run, link, parts) ==
  [state |-> state, run |-> run, link |-> link, parts |-> parts]
Files  == [state : Fetched, run : Nat, link : Links, parts : SUBSET Parts]
Absent == File("absent", 0, "none", {})
Opened(run) == File("partial", run, "none", {})

EmptyTree == [parts |-> {}, link |-> "none", rootOwned |-> FALSE]
NoDir     == <<>>
EmptyDir  == [f \in Inputs |-> Absent]
NoJob == [script |-> "none", pc |-> "idle", run |-> 0, at |-> 1,
          missing |-> 0, why |-> "none"]

Trees == [parts : SUBSET Parts, link : Links, rootOwned : BOOLEAN]
Jobs  == [script : Scripts \cup {"none"}, pc : Labels, run : Nat, at : Nat,
          missing : {0, 1}, why : Reasons]

BuildingOK ==
  /\ sources \in [Packages -> [tarball : Fetched, tree : Fetched]]
  /\ config \in Links
  /\ rootfs \in [Images -> Trees]

OutputsOK ==
  /\ osboot \in [Artifacts -> Files]
  /\ isoDir \in [Inputs -> Files] \cup {NoDir}
  /\ isoParts \in [Inputs -> Files]

VaultOK ==
  /\ archives \subseteq [Artifacts -> Files]
  /\ removed \subseteq Artifacts \X Files

(* The index of a loop stays within the list the loop goes through.        *)
JobOK ==
  /\ job \in [Terminals -> Jobs]
  /\ \A t \in Terminals : job[t].at \in 1 .. Len(FileList(job[t].script))

TypeOK ==
  /\ BuildingOK /\ OutputsOK /\ VaultOK /\ JobOK
  /\ runs \in Nat /\ faults \in Nat

-----------------------------------------------------------------------------
(* Control. *)

Running(t)  == job[t].pc \notin Ended
At(t, s, l) == job[t].script = s /\ job[t].pc = l
Goto(t, l)  == job' = [job EXCEPT ![t].pc = l, ![t].at = 1]
Finish(t)   == Goto(t, "done")
Abort(t, r) == job' = [job EXCEPT ![t].pc = "failed", ![t].why = r]

(* The next round of a loop over the script's files, or the command after  *)
(* the loop.                                                               *)
Loop(t, l) ==
  IF job[t].at < Len(FileList(job[t].script))
    THEN job' = [job EXCEPT ![t].at = @ + 1]
    ELSE Goto(t, l)

Start(t, s, l) ==
  /\ ~Running(t)
  /\ runs < MaxRuns
  /\ \A u \in Terminals : Running(u) => {s, job[u].script} \in Compatible
  /\ runs' = runs + 1
  /\ job' = [job EXCEPT ![t] = [script |-> s, pc |-> l, run |-> runs + 1, at |-> 1,
                                missing |-> 0, why |-> "none"]]
  /\ UNCHANGED <<building, outputs, vault, faults>>

-----------------------------------------------------------------------------
(* Writing a file of osboot/.  A file that was removed while it was being  *)
(* written stays removed: the writer holds an unlinked inode.  A file that *)
(* another script opened meanwhile has two writers and is taken as spoilt. *)

Open(t, f) == osboot' = [osboot EXCEPT ![f] = Opened(job[t].run)]

Mine(t, f) == osboot[f] = Opened(job[t].run)

Close(t, f, file) ==
  osboot' = [osboot EXCEPT ![f] =
    IF @ = Absent THEN Absent
    ELSE IF Mine(t, f) THEN file ELSE Opened(job[t].run)]

-----------------------------------------------------------------------------
(* A command fails or the script is killed (Ctrl-C, no network, no space). *)
Interrupt(t) ==
  /\ Running(t)
  /\ faults < MaxFaults
  /\ faults' = faults + 1
  /\ Abort(t, "fault")
  /\ UNCHANGED <<building, outputs, vault, runs>>
=============================================================================
