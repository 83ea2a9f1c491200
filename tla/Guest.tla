------------------------------- MODULE Guest -------------------------------
(***************************************************************************)
(* The guest that qemu.sh boots from the images: the kernel starts /init   *)
(* as process 1, /init becomes login, login becomes the shell of the       *)
(* account.  When process 1 exits the kernel panics and, with              *)
(* CONFIG_PANIC_TIMEOUT=0, stays so until QEMU is ended.                   *)
(***************************************************************************)
EXTENDS Login, MultiHomes

ASSUME AccountsAssumption == Accounts \subseteq Names \cap Secrets

VARIABLES
  image,      \* the initramfs booted
  tty,        \* where /dev/console is: the user's serial line, or the screen
  shells,     \* how many shells have been started since the boot
  tries,      \* how many passwords have been checked since the boot
  cwd,        \* the working directory of process 1
  wrote       \* the directory to which the shell wrote last

hostVars == <<image, tty>>
logs     == <<shells, tries>>
shell    == <<cwd, wrote>>
vars     == <<loginVars, homeVars, hostVars, logs, shell>>

Modes == {"--single", "--multi", "--all"}

(* The passwd and shadow files of the images; the password of an account   *)
(* stands for itself under the account's name.                             *)
Passwd(i) == IF i = "single" THEN [u \in {"root"} |-> u] ELSE [u \in Accounts |-> u]

(* The image a mode boots; the menu of the ISO offers both.                *)
Choice(m) == CASE m = "--single" -> {"single"}
               [] m = "--multi"  -> {"multi"}
               [] m = "--all"    -> {"single", "multi"}

(* setup_environment: the shell starts in the home of its account, or in   *)
(* the root directory when the account may not enter its home.             *)
StartDir(u) == IF CanEnter(u, u) THEN u ELSE "/"

(* console=ttyS0 is on the command lines of qemu.sh, and not on those in   *)
(* the ISO's grub.cfg: there the console is the screen, which -nographic   *)
(* takes away.                                                             *)
Console(m) == IF m = "--all" THEN "tty0" ELSE "ttyS0"

Init ==
  /\ LoginInit /\ HomesInit
  /\ image = "none" /\ tty = "none"
  /\ shells = 0 /\ tries = 0 /\ cwd = "/" /\ wrote = "/"

MakeHomes == RunCommand /\ UNCHANGED <<loginVars, hostVars, logs, shell>>

(* qemu.sh is started: a fresh copy of the image is unpacked, /init mounts *)
(* proc, sys and dev and becomes login.                                    *)
Boot(m) ==
  /\ Made
  /\ phase = "off"
  /\ \E i \in Choice(m) : image' = i /\ LoginStart(Passwd(i))
  /\ tty' = Console(m)
  /\ shells' = 0 /\ tries' = 0
  /\ cwd' = "/" /\ wrote' = "/"
  /\ UNCHANGED homeVars

(* The user ends QEMU (Ctrl-A X).                                          *)
EndQemu ==
  /\ phase # "off"
  /\ phase' = "off" /\ armed' = FALSE /\ echo' = TRUE /\ session' = NoOne
  /\ UNCHANGED <<accounts, attempt, homeVars, hostVars, logs, shell>>

(* What the user types arrives only on the serial line.                    *)
UserTypes == tty = "ttyS0" /\ LoginInput /\ UNCHANGED <<homeVars, hostVars, logs, shell>>

LoginRuns ==
  /\ LoginStep
  /\ tries' = IF phase = "check" THEN tries + 1 ELSE tries
  /\ IF phase = "accepted"
       THEN /\ shells' = shells + 1
            /\ cwd' = StartDir(pw)
       ELSE UNCHANGED <<shells, cwd>>
  /\ UNCHANGED <<homeVars, hostVars, wrote>>

TimesOut == Alarm /\ UNCHANGED <<homeVars, hostVars, logs, shell>>

LogsOut == Logout /\ UNCHANGED <<homeVars, hostVars, logs, shell>>

(* In the multi-user image the shell goes to a directory, or writes to it. *)
Enter(d) ==
  /\ phase = "session" /\ image = "multi"
  /\ CanEnter(session, d)
  /\ cwd' = d
  /\ UNCHANGED <<loginVars, homeVars, hostVars, logs, wrote>>

Write(d) ==
  /\ phase = "session" /\ image = "multi"
  /\ CanWrite(session, d)
  /\ wrote' = d
  /\ UNCHANGED <<loginVars, homeVars, hostVars, logs, cwd>>

Next ==
  \/ MakeHomes
  \/ \E m \in Modes : Boot(m)
  \/ EndQemu
  \/ UserTypes
  \/ LoginRuns
  \/ TimesOut
  \/ LogsOut
  \/ \E d \in Dirs : Enter(d) \/ Write(d)

(* login goes on when it waits for nobody, and an alarm that is set rings. *)
Fairness == WF_vars(LoginRuns) /\ WF_vars(TimesOut)

Spec     == Init /\ [][Next]_vars
FairSpec == Spec /\ Fairness

-----------------------------------------------------------------------------

(* The values the variables of the guest take: those of login and of the   *)
(* directories, the image, the console and the counts of the boot.         *)
TypeOK ==
  /\ LoginTypeOK /\ DOMAIN accounts \subseteq Accounts
  /\ HomesTypeOK
  /\ image \in {"none", "single", "multi"}
  /\ tty \in {"none", "ttyS0", "tty0"}
  /\ shells \in Nat /\ tries \in Nat
  /\ cwd \in Dirs \cup {"/"} /\ wrote \in Dirs \cup {"/"}

(* A shell runs as the account whose name and password were given in the   *)
(* last attempt, however many attempts for whichever names came before.    *)
ShellIsEarned ==
  session # NoOne =>
    /\ session \in DOMAIN accounts
    /\ typed = [name |-> session, secret |-> accounts[session]]

(* However login ends - refused three times, end of file, or timed out in  *)
(* the middle of a password - the console echoes again.                    *)
EchoRestored == phase \in {"prompt", "session", "exited"} => echo

(* A boot checks three passwords at most, whatever names they are for and  *)
(* however many empty lines come between: the fourth would need a restart. *)
ThreeTries == tries <= 3

(* A boot gives one shell.  When it ends nobody can log in again before    *)
(* QEMU is restarted: process 1 was the shell itself.                      *)
OneShellPerBoot == shells <= 1

(* Every account starts at home and is the only one, with root, to write   *)
(* there; nobody's shell starts in, or gets to, a directory that the       *)
(* comments at multi.sh:81-84 deny to its account.                         *)
HomesAreOwn ==
  /\ phase = "session" /\ wrote \in Homes => session \in {wrote, "root"}
  /\ phase = "session" => cwd \in Allowed(session)

(* What login knows at each of its steps, and why the properties above     *)
(* hold: pw is the account typed or none; the console is silent only while *)
(* a password is read; count is the number of passwords refused, and the   *)
(* one being refused is checked but not counted yet.                       *)
Looked == phase \in {"hide", "reading", "show", "check", "accepted"} =>
  pw = NoOne \/ (pw = typed.name /\ pw \in DOMAIN accounts)
Granted ==
  /\ phase = "accepted" => Matches
  /\ session # NoOne => phase = "session"
Silent == ~echo => phase \in {"reading", "show"}
Counted ==
  /\ phase \in Asking => count < 3 /\ cntdown > 0
  /\ phase \in Asking \ {"pausing", "accepted"} => tries = count
  /\ phase \in {"pausing", "accepted"} => tries = count + 1
  /\ tries <= 3
Begun ==
  /\ phase \in Asking => shells = 0
  /\ shells <= 1

GuestInv == Looked /\ Granted /\ ShellIsEarned /\ Silent /\ Counted /\ Begun

(* The types and the inductive invariant, of which the properties above    *)
(* about login follow.                                                     *)
Inv == TypeOK /\ GuestInv

(* A console at which nothing happens does not ask forever.                *)
AskingEnds == phase \in Asking ~> phase \notin Asking
=============================================================================
