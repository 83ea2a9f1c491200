----------------------------- MODULE MultiHomes -----------------------------
(***************************************************************************)
(* The directories of the multi-user image: the commands with which        *)
(* multi.sh makes them and gives them owners and modes, in its order, and  *)
(* the access check of the guest's kernel on what they leave.              *)
(***************************************************************************)
EXTENDS Naturals, Sequences

Accounts == {"root", "henn", "hann", "viii", "kids"}
Homes    == {"henn", "hann", "viii", "kids"}   \* /home/<name>
Dirs     == Homes \cup {"root", "tmp"}         \* /root and /tmp

VARIABLES
  step,     \* the next command of Commands
  owner,    \* the owner of each directory, who is also its group
  mode      \* its mode: one octal digit for owner, group and others

homeVars == <<step, owner, mode>>

HomesTypeOK ==
  /\ step \in Nat \ {0}
  /\ owner \in [Dirs -> Accounts \cup {"builder"}]
  /\ mode \in [Dirs -> Seq({0, 5, 7})]

(* What a command does: chown, or chmod, of some directories.              *)
Chowns(dirs, who) == [op |-> "chown", dirs |-> dirs, who |-> who, mode |-> <<>>]
Chmods(dirs, m)   == [op |-> "chmod", dirs |-> dirs, who |-> "root", mode |-> m]

\* mutation: the recursive chown comes after those of the homes
CommandsMisordered ==
  <<Chowns({"henn"}, "henn"), Chowns({"hann"}, "hann"), Chowns({"viii"}, "viii"),
    Chowns({"kids"}, "kids"), Chowns(Dirs, "root"), Chmods({"root"}, <<7, 0, 0>>),
    Chmods({"tmp"}, <<7, 7, 7>>), Chmods({"henn"}, <<7, 0, 0>>),
    Chmods({"hann"}, <<7, 0, 0>>), Chmods({"viii"}, <<7, 0, 0>>),
    Chmods({"kids"}, <<7, 0, 0>>), Chmods({"henn"}, <<7, 5, 0>>)>>

(* multi.sh, from "Permissions" to the last chmod.                         *)
Commands ==
  <<Chowns(Dirs, "root"), Chowns({"henn"}, "henn"), Chowns({"hann"}, "hann"),
    Chowns({"viii"}, "viii"), Chowns({"kids"}, "kids"), Chmods({"root"}, <<7, 0, 0>>),
    Chmods({"tmp"}, <<7, 7, 7>>), Chmods({"henn"}, <<7, 0, 0>>),
    Chmods({"hann"}, <<7, 0, 0>>), Chmods({"viii"}, <<7, 0, 0>>),
    Chmods({"kids"}, <<7, 0, 0>>), Chmods({"henn"}, <<7, 5, 0>>)>>

(* mkdir, by the user who runs the script, with umask 022.                 *)
HomesInit ==
  /\ step = 1
  /\ owner = [d \in Dirs |-> "builder"]
  /\ mode = [d \in Dirs |-> <<7, 5, 5>>]

RunCommand ==
  /\ step <= Len(Commands)
  /\ LET c == Commands[step] IN
       IF c.op = "chown"
         THEN /\ owner' = [d \in Dirs |-> IF d \in c.dirs THEN c.who ELSE owner[d]]
              /\ UNCHANGED mode
         ELSE /\ mode' = [d \in Dirs |-> IF d \in c.dirs THEN c.mode ELSE mode[d]]
              /\ UNCHANGED owner
  /\ step' = step + 1

Made == step > Len(Commands)

(* The digit of the mode that counts for user u: every account is alone in *)
(* its group, which is the group of its home.                              *)
Digit(u, d) == IF u = owner[d] THEN mode[d][1] ELSE mode[d][3]

CanEnter(u, d) == u = "root" \/ Digit(u, d) \in {5, 7}
CanWrite(u, d) == u = "root" \/ Digit(u, d) = 7

(* Who may go where, as the comments of multi.sh lay it down.              *)
Allowed(u) == {"tmp"} \cup
  CASE u = "root" -> Dirs
    [] u = "henn" -> Homes
    [] u = "hann" -> {"hann", "viii", "kids"}
    [] u = "viii" -> {"viii", "kids"}
    [] u = "kids" -> {"kids"}

(* Every account can enter the directories that the comments at            *)
(* multi.sh:81-84 give it.                                                 *)
MatrixGranted ==
  Made => \A u \in Accounts : \A d \in Allowed(u) : CanEnter(u, d)
=============================================================================
