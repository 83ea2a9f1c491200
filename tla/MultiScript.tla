---------------------------- MODULE MultiScript ----------------------------
(***************************************************************************)
(* multi.sh: build the multi-user image with the BusyBox that single.sh    *)
(* left behind.  Unlike single.sh it goes on writing files (etc/profile,   *)
(* init) after the tree has been given to root.                            *)
(***************************************************************************)
EXTENDS RootfsSteps

MultiStart(t) == Start(t, "multi", "check")

\* if [ ! -d busybox-1.37.0 ]; then ... exit 1; fi
MultiCheck(t) ==
  /\ At(t, "multi", "check")
  /\ IF sources["busybox"].tree = "absent" THEN Abort(t, "missing")
                                           ELSE Goto(t, "clear")
  /\ UNCHANGED <<building, outputs, vault, counters>>

MultiRootfs(t) ==
  \/ At(t, "multi", "clear")   /\ Clear(t, "multi")
  \/ At(t, "multi", "install") /\ Install(t, "multi", "mknod")
  \/ At(t, "multi", "mknod")   /\ Mknod(t, "multi")
  \/ At(t, "multi", "etc")     /\ Write(t, "multi", "etc", "chown")
  \/ At(t, "multi", "chown")   /\ Chown(t, "multi", "init")
  \/ At(t, "multi", "init")    /\ Write(t, "multi", "init", "pack")

MultiPack(t) ==
  \/ At(t, "multi", "pack")    /\ Pack(t, "multi")
  \/ At(t, "multi", "packing") /\ PackEnd(t, "multi")
  \/ At(t, "multi", "packing") /\ PackBroken(t, "multi")

MultiCleanup(t) == At(t, "multi", "cleanup") /\ Cleanup(t, "multi")

MultiNext(t) ==
  MultiStart(t) \/ MultiCheck(t) \/ MultiRootfs(t) \/ MultiPack(t) \/ MultiCleanup(t)
=============================================================================
