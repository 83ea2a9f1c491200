---------------------------- MODULE RootfsSteps ----------------------------
(***************************************************************************)
(* The steps single.sh and multi.sh have in common: each fills its own     *)
(* directory rootfs_<image>/, packs it into osboot/<image>.gz and removes  *)
(* it.  The steps are parameterised by the image; the scripts say in which *)
(* order they come.                                                        *)
(***************************************************************************)
EXTENDS Workspace

(* Once "sudo chown -R root:root" has run, another user than root can      *)
(* neither create nor remove anything in the tree.                         *)
Denied(i) == rootfs[i].rootOwned /\ ~AsRoot

\* make CONFIG_PREFIX=../rootfs_<image> install: applets/install.sh creates
\* the directories it needs, replaces bin/busybox and links the applets.  The
\* busybox target is relinked first if .config has changed since.
Install(t, i, next) ==
  /\ \/ /\ sources["busybox"].tree # "whole" \/ config = "none"
        /\ Abort(t, "truncated")
        /\ UNCHANGED rootfs
     \/ /\ sources["busybox"].tree = "whole" /\ config # "none"
        /\ IF Denied(i)
             THEN Abort(t, "denied") /\ UNCHANGED rootfs
             ELSE /\ rootfs' = [rootfs EXCEPT ![i].parts = @ \cup {"busybox"},
                                              ![i].link = config]
                  /\ Goto(t, next)
  /\ UNCHANGED <<sources, config, outputs, vault, counters>>

\* mutation: no rm -rf before mkdir -p
ClearWithoutRemoving(t, i) ==
  /\ IF Denied(i)
       THEN Abort(t, "denied") /\ UNCHANGED rootfs
       ELSE /\ rootfs' = [rootfs EXCEPT ![i].parts = @ \cup {"dirs"}]
            /\ Goto(t, "install")
  /\ UNCHANGED <<sources, config, outputs, vault, counters>>

\* rm -rf rootfs_<image>; mkdir -p rootfs_<image>/{bin,dev,...}
Clear(t, i) ==
  /\ IF Denied(i)
       THEN Abort(t, "denied") /\ UNCHANGED rootfs
       ELSE /\ rootfs' = [rootfs EXCEPT ![i] =
                 [parts |-> {"dirs"}, link |-> "none", rootOwned |-> AsRoot]]
            /\ Goto(t, "install")
  /\ UNCHANGED <<sources, config, outputs, vault, counters>>

Add(i, part) == rootfs' = [rootfs EXCEPT ![i].parts = @ \cup {part}]

\* sudo mknod dev/{console,null,tty,sda}: fails if the node exists already
Mknod(t, i) ==
  /\ \/ /\ "dirs" \notin rootfs[i].parts
        /\ Abort(t, "gone")
        /\ UNCHANGED rootfs
     \/ /\ "dirs" \in rootfs[i].parts /\ "dev" \in rootfs[i].parts
        /\ Abort(t, "exists")
        /\ UNCHANGED rootfs
     \/ /\ "dirs" \in rootfs[i].parts /\ "dev" \notin rootfs[i].parts
        /\ Add(i, "dev")
        /\ Goto(t, "etc")
  /\ UNCHANGED <<sources, config, outputs, vault, counters>>

\* cat > rootfs_<image>/..., by the user who runs the script
Write(t, i, part, next) ==
  /\ \/ /\ "dirs" \notin rootfs[i].parts
        /\ Abort(t, "gone")
        /\ UNCHANGED rootfs
     \/ /\ "dirs" \in rootfs[i].parts
        /\ IF Denied(i)
             THEN Abort(t, "denied") /\ UNCHANGED rootfs
             ELSE Add(i, part) /\ Goto(t, next)
  /\ UNCHANGED <<sources, config, outputs, vault, counters>>

\* sudo chown -R root:root rootfs_<image>, and the chmods that follow
Chown(t, i, next) ==
  /\ IF "dirs" \in rootfs[i].parts
       THEN /\ rootfs' = [rootfs EXCEPT ![i].rootOwned = TRUE]
            /\ Goto(t, next)
       ELSE Abort(t, "gone") /\ UNCHANGED rootfs
  /\ UNCHANGED <<sources, config, outputs, vault, counters>>

\* mutation: an old image is kept
PackOnce(t, i) ==
  /\ IF osboot[i] = Absent
       THEN Open(t, i) /\ Goto(t, "packing")
       ELSE Goto(t, "cleanup") /\ UNCHANGED osboot
  /\ UNCHANGED <<building, isoDir, isoParts, vault, counters>>

\* mkdir -p osboot; cd rootfs_<image>; find . | cpio -o | gzip > ../osboot/<image>.gz
\* The shell opens the output file before any of the three commands runs.  cpio
\* packs what is in the tree when it comes by, here at the end.
Pack(t, i) ==
  /\ IF rootfs[i] = EmptyTree
       THEN Abort(t, "gone") /\ UNCHANGED osboot
       ELSE Open(t, i) /\ Goto(t, "packing")
  /\ UNCHANGED <<building, isoDir, isoParts, vault, counters>>

PackEnd(t, i) ==
  /\ Close(t, i, File("whole", job[t].run, rootfs[i].link, rootfs[i].parts))
  /\ Goto(t, "cleanup")
  /\ UNCHANGED <<building, isoDir, isoParts, vault, counters>>

\* find or cpio fails.  Without "set -o pipefail" the status of the pipeline is
\* gzip's, which compresses what it got and succeeds: the script goes on.
PackBroken(t, i) ==
  /\ faults < MaxFaults
  /\ faults' = faults + 1
  /\ Goto(t, "cleanup")
  /\ UNCHANGED <<building, outputs, vault, runs>>

\* rm -rf rootfs_<image>
Cleanup(t, i) ==
  /\ IF Denied(i)
       THEN Abort(t, "denied") /\ UNCHANGED rootfs
       ELSE /\ rootfs' = [rootfs EXCEPT ![i] = EmptyTree]
            /\ Finish(t)
  /\ UNCHANGED <<sources, config, outputs, vault, counters>>
=============================================================================
