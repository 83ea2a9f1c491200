--------------------------- MODULE ArtifactStore ---------------------------
(***************************************************************************)
(* What the scripts promise about the artifacts they build, whatever the   *)
(* steps they take: an artifact is replaced by another version of itself,  *)
(* the vault receives copies of the complete set of artifacts, and an      *)
(* artifact is dropped only while the vault holds the version dropped.     *)
(***************************************************************************)
CONSTANTS Artifacts, Nothing

VARIABLES store, vault

Kept(f) == \E copy \in vault : copy[f] = store[f]

StoreInit == DOMAIN store = Artifacts /\ vault = {}

(* A new version of f is written, completely or not. *)
Rewrite(f) ==
  /\ store' = [store EXCEPT ![f] = store'[f]]
  /\ store'[f] # Nothing
  /\ UNCHANGED vault

(* The complete set of artifacts is copied. *)
Snapshot ==
  /\ \A f \in Artifacts : store[f] # Nothing
  /\ vault' = vault \cup {store}
  /\ UNCHANGED store

Drop(f) ==
  /\ Kept(f)
  /\ store' = [store EXCEPT ![f] = Nothing]
  /\ UNCHANGED vault

StoreNext == Snapshot \/ \E f \in Artifacts : Rewrite(f) \/ Drop(f)

StoreSpec == StoreInit /\ [][StoreNext]_<<store, vault>>
=============================================================================
