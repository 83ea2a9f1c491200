------------------------------ MODULE MCGuest ------------------------------
(***************************************************************************)
(* Values for the constants of Guest when TLC checks it.                   *)
(***************************************************************************)
EXTENDS Guest

\* the accounts, and a name that no image knows
MCNames   == Accounts \cup {"guest"}
\* the password of each account, under its name, and one nobody has
MCSecrets == Accounts \cup {"wrong"}

(* Statements of the repository that do not hold: with one of them in the  *)
(* configuration, TLC shows why.                                           *)

(* The login prompt is where the user of qemu.sh can answer it, whichever  *)
(* mode and menu entry was chosen.                                         *)
PromptReachesUser == phase = "prompt" => tty = "ttyS0"
=============================================================================
