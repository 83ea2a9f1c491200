----------------------------- MODULE MCServices -----------------------------
(***************************************************************************)
(* Values for the constants of Services when TLC checks it.                *)
(***************************************************************************)
EXTENDS Services

MCPids == 1 .. 4

(* Statements of the repository that do not hold: with one of them in the  *)
(* configuration, TLC shows why.                                           *)

(* "sv exits 0, if the command was successfully sent": the last of several *)
(* commands, each of which was accepted, is what runsv comes to want.  It  *)
(* is not if the status file is read before an earlier command has been    *)
(* carried out.                                                            *)
LastCommandWins == Quiet => Obeys

(* "If they exit, runsv exits too": no service is left behind.             *)
ExitLeavesNone ==
  pc = "exited" => \A p \in Pids :
    Alive(p) => child[p].sig # "none" \/ child[p].prog = "broken"

(* "The first one is ./run exit code, or -1 if ./run didnt exit normally": *)
(* ./finish is told how ./run ended.                                       *)
FinishToldOfRun == \A p \in Pids : child[p].prog = "finish" => child[p].arg = "run"

(* "up: If the service is not running, start it": a program that runsv     *)
(* starts can at least be executed.                                        *)
StartsForReal == \A p \in Pids : child[p].prog # "broken"
=============================================================================
