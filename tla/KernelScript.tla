---------------------------- MODULE KernelScript ----------------------------
(***************************************************************************)
(* kernel.sh: fetch Linux, configure and compile it, copy the image to     *)
(* osboot/bzImage.                                                         *)
(***************************************************************************)
EXTENDS Sources

KernelStart(t) == Start(t, "kernel", "fetch")

KernelFetch(t) ==
  \/ At(t, "kernel", "fetch")     /\ Fetch(t, "linux")
  \/ At(t, "kernel", "fetching")  /\ FetchEnd(t, "linux")

KernelUntar(t) ==
  \/ At(t, "kernel", "untar")     /\ Untar(t, "linux")
  \/ At(t, "kernel", "untarring") /\ UntarEnd(t, "linux")

\* cd linux-6.1.1; cp ../.config .config; make olddefconfig; make bzImage
KernelMake(t) ==
  /\ At(t, "kernel", "configure")
  /\ IF Buildable("linux") THEN Goto(t, "publish") ELSE Abort(t, "truncated")
  /\ UNCHANGED <<building, outputs, vault, counters>>

\* mutation: an old image is kept
KernelPublishOnce(t) ==
  /\ At(t, "kernel", "publish")
  /\ IF osboot["bzImage"] = Absent
       THEN Open(t, "bzImage") /\ Goto(t, "publishing")
       ELSE Finish(t) /\ UNCHANGED osboot
  /\ UNCHANGED <<building, isoDir, isoParts, vault, counters>>

\* mkdir -p ../osboot; cp arch/x86/boot/bzImage ../osboot/bzImage
KernelPublish(t) ==
  /\ At(t, "kernel", "publish")
  /\ Open(t, "bzImage")
  /\ Goto(t, "publishing")
  /\ UNCHANGED <<building, isoDir, isoParts, vault, counters>>

KernelPublishEnd(t) ==
  /\ At(t, "kernel", "publishing")
  /\ Close(t, "bzImage", File("whole", job[t].run, "none", {}))
  /\ Finish(t)
  /\ UNCHANGED <<building, isoDir, isoParts, vault, counters>>

KernelNext(t) ==
  KernelStart(t) \/ KernelFetch(t) \/ KernelUntar(t) \/ KernelMake(t)
    \/ KernelPublish(t) \/ KernelPublishEnd(t)
=============================================================================
