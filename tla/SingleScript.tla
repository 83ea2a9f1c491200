---------------------------- MODULE SingleScript ----------------------------
(***************************************************************************)
(* single.sh: fetch and build BusyBox, then build the single-user image.   *)
(***************************************************************************)
EXTENDS Sources, RootfsSteps

SingleStart(t) == Start(t, "single", "fetch")

SingleFetch(t) ==
  \/ At(t, "single", "fetch")     /\ Fetch(t, "busybox")
  \/ At(t, "single", "fetching")  /\ FetchEnd(t, "busybox")

SingleUntar(t) ==
  \/ At(t, "single", "untar")     /\ Untar(t, "busybox")
  \/ At(t, "single", "untarring") /\ UntarEnd(t, "busybox")

\* make defconfig, which leaves "# CONFIG_STATIC is not set"
SingleDefconfig(t) ==
  /\ At(t, "single", "configure")
  /\ IF Buildable("busybox")
       THEN config' = "dynamic" /\ Goto(t, "link")
       ELSE Abort(t, "truncated") /\ UNCHANGED config
  /\ UNCHANGED <<sources, rootfs, outputs, vault, counters>>

\* mutation: sed finds no line to replace
SingleLinkPatternMissed(t) ==
  /\ At(t, "single", "link")
  /\ Goto(t, "make")
  /\ UNCHANGED <<building, outputs, vault, counters>>

\* sed -i 's/# CONFIG_STATIC is not set/CONFIG_STATIC=y/' .config
SingleLink(t) ==
  /\ At(t, "single", "link")
  /\ config' = "static"
  /\ Goto(t, "make")
  /\ UNCHANGED <<sources, rootfs, outputs, vault, counters>>

\* make -j$(nproc)
SingleMake(t) ==
  /\ At(t, "single", "make")
  /\ Goto(t, "preinstall")
  /\ UNCHANGED <<building, outputs, vault, counters>>

\* The tree is installed into once before it is emptied and once after.
SingleInstall(t) ==
  \/ At(t, "single", "preinstall") /\ Install(t, "single", "clear")
  \/ At(t, "single", "install")    /\ Install(t, "single", "mknod")

SingleRootfs(t) ==
  \/ At(t, "single", "clear") /\ Clear(t, "single")
  \/ At(t, "single", "mknod") /\ Mknod(t, "single")
  \/ At(t, "single", "etc")   /\ Write(t, "single", "etc", "init")
  \/ At(t, "single", "init")  /\ Write(t, "single", "init", "chown")
  \/ At(t, "single", "chown") /\ Chown(t, "single", "pack")

SinglePack(t) ==
  \/ At(t, "single", "pack")    /\ Pack(t, "single")
  \/ At(t, "single", "packing") /\ PackEnd(t, "single")
  \/ At(t, "single", "packing") /\ PackBroken(t, "single")

SingleCleanup(t) == At(t, "single", "cleanup") /\ Cleanup(t, "single")

SingleNext(t) ==
  SingleStart(t) \/ SingleFetch(t) \/ SingleUntar(t) \/ SingleDefconfig(t)
    \/ SingleLink(t) \/ SingleMake(t) \/ SingleInstall(t) \/ SingleRootfs(t)
    \/ SinglePack(t) \/ SingleCleanup(t)
=============================================================================
