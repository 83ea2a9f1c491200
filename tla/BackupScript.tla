---------------------------- MODULE BackupScript ----------------------------
(***************************************************************************)
(* backup.sh: zip the four files of osboot/ and remove them one by one.    *)
(***************************************************************************)
EXTENDS Workspace

BackupStart(t) == Start(t, "backup", "check")

\* mutation: MISSING is reset in every round
BackupCheckLastFile(t) ==
  /\ At(t, "backup", "check")
  /\ LET missing == IF osboot[BackupOrder[job[t].at]] = Absent THEN 1 ELSE 0
     IN  IF job[t].at < Len(BackupOrder)
           THEN job' = [job EXCEPT ![t].at = @ + 1]
           ELSE IF missing = 1 THEN Abort(t, "missing") ELSE Goto(t, "zip")
  /\ UNCHANGED <<building, outputs, vault, counters>>

\* for f in FILES; do if [ ! -f "$f" ]; then MISSING=1; fi; done
\* [ $MISSING -eq 1 ] && { ...; exit 1; }
BackupCheck(t) ==
  /\ At(t, "backup", "check")
  /\ LET missing == IF osboot[BackupOrder[job[t].at]] = Absent THEN 1 ELSE job[t].missing
     IN  IF job[t].at < Len(BackupOrder)
           THEN job' = [job EXCEPT ![t].at = @ + 1, ![t].missing = missing]
           ELSE IF missing = 1 THEN Abort(t, "missing") ELSE Goto(t, "zip")
  /\ UNCHANGED <<building, outputs, vault, counters>>

\* mutation: a file is left out of the archive
BackupZipWithoutIso(t) ==
  /\ At(t, "backup", "zip")
  /\ archives' = archives \cup {[osboot EXCEPT !["iso"] = Absent]}
  /\ Goto(t, "remove")
  /\ UNCHANGED <<building, outputs, removed, counters>>

\* mutation: the script goes on when zip fails
BackupZipFails(t) ==
  /\ At(t, "backup", "zip")
  /\ archives' \in {archives, archives \cup {osboot}}
  /\ Goto(t, "remove")
  /\ UNCHANGED <<building, outputs, removed, counters>>

\* zip "$BACKUP_NAME" "${FILES[@]}"    zip writes to a temporary file which it
\* renames at the end, and skips a file that is no longer there.
BackupZip(t) ==
  /\ At(t, "backup", "zip")
  /\ archives' = archives \cup {osboot}
  /\ Goto(t, "remove")
  /\ UNCHANGED <<building, outputs, removed, counters>>

\* for f in FILES; do rm -f "$f"; done
BackupRemove(t) ==
  /\ At(t, "backup", "remove")
  /\ LET f == BackupOrder[job[t].at] IN
       /\ removed' = removed \cup
            (IF osboot[f] = Absent THEN {} ELSE {<<f, osboot[f]>>})
       /\ osboot' = [osboot EXCEPT ![f] = Absent]
  /\ Loop(t, "done")
  /\ UNCHANGED <<building, isoDir, isoParts, archives, counters>>

BackupNext(t) ==
  BackupStart(t) \/ BackupCheck(t) \/ BackupZip(t) \/ BackupRemove(t)
=============================================================================
