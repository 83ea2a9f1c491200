------------------------------ MODULE MCSyslog ------------------------------
(***************************************************************************)
(* Values for the constants of Syslog when TLC checks it.                  *)
(***************************************************************************)
EXTENDS Syslog

CONSTANTS once, follow

MCReaders == {once, follow}
MCFollowers == {follow}
MCLengths == {2, 3}

(* Statements of the repository that do not hold: with one of them in the  *)
(* configuration, TLC shows why.                                           *)

(* "Advance to oldest complete message": whatever was logged meanwhile.    *)
OldestPrinted == \A r \in Readers : Once(r) /\ kills = 0 => AllPrinted(r)
(* "int len_total = len_total; for gcc": that a message to print is always *)
(* found, so also that the ring is not cleared under a logread.            *)
NeverTorn == \A r \in Readers : reader[r].pc # "torn"

(* Readers are let in before syslogd: overlapping ones keep it out.        *)
LoggedAnyway == [](syslogd.pc = "lock" => <>(syslogd.pc # "lock" \/ kills > 0))
=============================================================================
