----------------------------- MODULE IsoScript -----------------------------
(***************************************************************************)
(* iso.sh: copy the kernel and the two images into iso_build/ and make the *)
(* bootable osboot/farewell.iso of it.                                     *)
(***************************************************************************)
EXTENDS Workspace

IsoStart(t) == Start(t, "iso", "check")

\* for f in ...; do [ -f "$f" ] || { ...; exit 1; }; done
IsoCheck(t) ==
  /\ At(t, "iso", "check")
  /\ IF osboot[IsoOrder[job[t].at]] = Absent
       THEN Abort(t, "missing")
       ELSE Loop(t, "clear")
  /\ UNCHANGED <<building, outputs, vault, counters>>

\* mutation: no mkdir -p after rm -rf
IsoClearWithoutMkdir(t) ==
  /\ At(t, "iso", "clear")
  /\ isoDir' = NoDir
  /\ Goto(t, "copy")
  /\ UNCHANGED <<building, osboot, isoParts, vault, counters>>

\* rm -rf iso_build; mkdir -p iso_build/boot/{grub,fs}
IsoClear(t) ==
  /\ At(t, "iso", "clear")
  /\ isoDir' = EmptyDir
  /\ Goto(t, "copy")
  /\ UNCHANGED <<building, osboot, isoParts, vault, counters>>

\* cp "$BZIMAGE" ...; cp "$SINGLE" ...; cp "$MULTI" ...
IsoCopy(t) ==
  /\ At(t, "iso", "copy")
  /\ LET f == IsoOrder[job[t].at] IN
       IF osboot[f] = Absent \/ isoDir = NoDir
         THEN Abort(t, "gone") /\ UNCHANGED isoDir
         ELSE /\ isoDir' = [isoDir EXCEPT ![f] = osboot[f]]
              /\ Loop(t, "mkrescue")
  /\ UNCHANGED <<building, osboot, isoParts, vault, counters>>

\* grub-mkrescue -o osboot/farewell.iso iso_build
IsoMkrescue(t) ==
  /\ At(t, "iso", "mkrescue")
  /\ IF isoDir = NoDir
       THEN Abort(t, "gone") /\ UNCHANGED osboot
       ELSE Open(t, "iso") /\ Goto(t, "burning")
  /\ UNCHANGED <<building, isoDir, isoParts, vault, counters>>

IsoBurnt(t) ==
  /\ At(t, "iso", "burning")
  /\ IF isoDir = NoDir
       THEN Abort(t, "gone") /\ UNCHANGED <<osboot, isoParts>>
       ELSE /\ Close(t, "iso", File("whole", job[t].run, "none", {}))
            /\ isoParts' = isoDir
            /\ Goto(t, "cleanup")
  /\ UNCHANGED <<building, isoDir, vault, counters>>

\* mutation: iso_build is left
IsoNoCleanup(t) ==
  /\ At(t, "iso", "cleanup")
  /\ Finish(t)
  /\ UNCHANGED <<building, outputs, vault, counters>>

\* rm -rf iso_build
IsoCleanup(t) ==
  /\ At(t, "iso", "cleanup")
  /\ isoDir' = NoDir
  /\ Finish(t)
  /\ UNCHANGED <<building, osboot, isoParts, vault, counters>>

IsoNext(t) ==
  IsoStart(t) \/ IsoCheck(t) \/ IsoClear(t) \/ IsoCopy(t)
    \/ IsoMkrescue(t) \/ IsoBurnt(t) \/ IsoCleanup(t)
=============================================================================
