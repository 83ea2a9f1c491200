----------------------------- MODULE MCAccounts -----------------------------
(***************************************************************************)
(* Values for the constants of Accounts when TLC checks it.                *)
(***************************************************************************)
EXTENDS Accounts

CONSTANTS p1, p2, ann, ben, old, new

MCProcesses == {p1, p2}
MCUsers == {ann, ben}
MCIds == 1 .. 2
MCSecrets == {old, new}

(* Names and words are interchangeable, so that the first user of the      *)
(* guest, if there is one, may as well be this one.                        *)
MCInit ==
  /\ Init
  /\ \A u \in Users : file["passwd"][u] # NoEntry => u = ann /\ Accepted(file, u) = old
  /\ ~InUse("passwd", 2)
(* Whoever asks for a password wants another one than ann has at first.    *)
MCNext == Next /\ \A p \in Processes : proc'[p].secret # old
MCSpec == MCInit /\ [][MCNext]_vars /\ \A p \in Processes : WF_vars(Work(p))

(* What does not hold: the old file is kept before each change.  A link    *)
(* that fails is only warned of.                                           *)
AlwaysBackedUp ==
  [][\A f \in Files : file'[f] # file[f] => backup[f] = file[f]]_vars
=============================================================================
