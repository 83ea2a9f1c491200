------------------------------ MODULE Sources ------------------------------
(***************************************************************************)
(* The first steps of kernel.sh and single.sh: download a tarball unless a *)
(* file of that name exists, unpack it unless a directory of that name     *)
(* exists.  Neither test looks at what the file or the directory holds.    *)
(***************************************************************************)
EXTENDS Workspace

\* if [ ! -f TARBALL ]; then wget URL; fi    (wget creates the file at once)
Fetch(t, p) ==
  /\ IF sources[p].tarball = "absent"
       THEN /\ sources' = [sources EXCEPT ![p].tarball = "partial"]
            /\ Goto(t, "fetching")
       ELSE Goto(t, "untar") /\ UNCHANGED sources
  /\ UNCHANGED <<config, rootfs, outputs, vault, counters>>

FetchEnd(t, p) ==
  /\ sources' = [sources EXCEPT ![p].tarball = "whole"]
  /\ Goto(t, "untar")
  /\ UNCHANGED <<config, rootfs, outputs, vault, counters>>

\* if [ ! -d TREE ]; then tar -xf TARBALL; fi    A truncated tarball makes tar
\* fail, after it unpacked what it could read, if anything.
Untar(t, p) ==
  /\ \/ /\ sources[p].tree # "absent"
        /\ Goto(t, "configure")
        /\ UNCHANGED sources
     \/ /\ sources[p] = [tarball |-> "whole", tree |-> "absent"]
        /\ sources' = [sources EXCEPT ![p].tree = "partial"]
        /\ Goto(t, "untarring")
     \/ /\ sources[p] = [tarball |-> "partial", tree |-> "absent"]
        /\ \E left \in {"absent", "partial"} :
             sources' = [sources EXCEPT ![p].tree = left]
        /\ Abort(t, "truncated")
  /\ UNCHANGED <<config, rootfs, outputs, vault, counters>>

UntarEnd(t, p) ==
  /\ sources' = [sources EXCEPT ![p].tree = "whole"]
  /\ Goto(t, "configure")
  /\ UNCHANGED <<config, rootfs, outputs, vault, counters>>

(* A make target can be built only in a tree that was unpacked to the end. *)
Buildable(p) == sources[p].tree = "whole"
=============================================================================
