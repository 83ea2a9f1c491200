------------------------------ MODULE Accounts ------------------------------
(***************************************************************************)
(* The account files of the guest, changed by BusyBox's adduser, passwd    *)
(* and deluser, which may run at the same time and be killed at any step.  *)
(* Each change of a file is one call of update_passwd(): it opens the old  *)
(* file, creates FILE+ (which serves as a lock), links FILE to FILE-,      *)
(* writes FILE+ and renames it to FILE.                                    *)
(*                                                                         *)
(* A file is a function from names to entries.  Lines for other names, the *)
(* order of lines, members of groups, home directories and gshadow         *)
(* (treated as group is, and read by nobody) are left out, and so are      *)
(* passwd -l, -u and -d, and fcntl(F_SETLK): it does not wait, and if it   *)
(* fails update_passwd only warns.                                         *)
(***************************************************************************)
EXTENDS Naturals

CONSTANTS
  Processes,
  Users,        \* names
  Ids,          \* numbers for users and groups; a new user gets the lowest
  Secrets,      \* passwords, as their hashes
  NoEntry,      \* the file has no line for a name
  Nobody,       \* there is no FILE+
  Killed,       \* who created FILE+ is gone
  Tries,        \* how often FILE+ is tried (30)
  MaxCommands, MaxFaults  \* bounds on commands; on kills, failing links and writes

ASSUME AccountsConstants ==
  /\ Ids \subseteq Nat \ {0}
  /\ Tries \in Nat \ {0} /\ MaxCommands \in Nat /\ MaxFaults \in Nat
  /\ "x" \notin Secrets /\ "!" \notin Secrets
  /\ Nobody \notin Processes /\ Killed \notin Processes /\ Nobody # Killed

Files == {"passwd", "shadow", "group"}
Words == Secrets \cup {"x", "!"}

VARIABLES
  shadowed, \* /etc/shadow exists: an administrator may do without
  file,     \* what /etc/FILE holds
  plus,     \* who has created the FILE+ that is there
  backup,   \* FILE-, no lines if there is none
  warned,   \* files about to be replaced whose FILE- could not be made
  proc,     \* the commands that run
  together, \* two commands have run at the same time
  commands, faults

vars == <<shadowed, file, plus, backup, warned, proc, together, commands, faults>>

Entry(f) == CASE f = "passwd" -> [id : Ids, pw : Words]
              [] f = "shadow" -> [pw : Words]
              [] f = "group"  -> [id : Ids]
ASSUME NoEntryIsNone == \A f \in Files : NoEntry \notin Entry(f)
Content(f) == [Users -> Entry(f) \cup {NoEntry}]
NoLines == [u \in Users |-> NoEntry]

Commands == {"none", "adduser", "passwd", "deluser"}
Process == [cmd : Commands, call : 1 .. 4, step : {"look", "open", "create", "link", "write"},
            user : Users \cup {"none"}, secret : Words, pw : Words, id : Ids \cup {0},
            old : UNION {Content(f) : f \in Files}, tries : 0 .. Tries]
Idle == [cmd |-> "none", call |-> 1, step |-> "look", user |-> "none", secret |-> "x",
         pw |-> "x", id |-> 0, old |-> NoLines, tries |-> 0]
Running(p) == proc[p].cmd # "none"
At(p, cmd, call, step) == proc[p].cmd = cmd /\ proc[p].call = call /\ proc[p].step = step

(* The call of update_passwd that a command makes: its file and what it is *)
(* to do there.                                                            *)
FileOf(p) ==
  IF proc[p].cmd = "passwd"
  THEN IF proc[p].call = 1 THEN "shadow" ELSE "passwd"
  ELSE CASE proc[p].call = 1 -> "passwd"
         [] proc[p].call = 2 -> "shadow"
         [] OTHER            -> "group"
Missing(p) == FileOf(p) = "shadow" /\ ~shadowed

\* mutation: the line made for passwd goes into the other files as well
PasswdLine(p) == [id |-> proc[p].id, pw |-> "x"]
(* What a call makes of the lines c it has read.  A line that is added     *)
(* replaces one that is there; the third call of deluser removes the user  *)
(* from the lists of members.                                              *)
NewEntry(p) ==
  CASE FileOf(p) = "passwd" -> [id |-> proc[p].id, pw |-> "x"]
    [] FileOf(p) = "shadow" -> [pw |-> "!"]
    [] OTHER                -> [id |-> proc[p].id]
Apply(p, c) ==
  LET u == proc[p].user IN
  CASE proc[p].cmd = "adduser" -> [c EXCEPT ![u] = NewEntry(p)]
    [] proc[p].cmd = "passwd"  -> IF c[u] = NoEntry THEN c ELSE [c EXCEPT ![u].pw = proc[p].pw]
    [] OTHER -> IF proc[p].call = 3 THEN c ELSE [c EXCEPT ![u] = NoEntry]

-----------------------------------------------------------------------------
(* What the commands do before and between the calls.                      *)

InUse(f, i) == \E u \in Users : file[f][u] # NoEntry /\ file[f][u].id = i

Exit(p) == proc' = [proc EXCEPT ![p] = Idle]
Proceed(p) == proc' = [proc EXCEPT ![p].step = "open"]

Start(p, cmd, u) ==
  /\ ~Running(p)
  /\ commands < MaxCommands
  /\ commands' = commands + 1
  /\ together' = (together \/ \E q \in Processes : Running(q))
  /\ proc' = [proc EXCEPT ![p] = [Idle EXCEPT !.cmd = cmd, !.user = u]]
  /\ UNCHANGED <<shadowed, file, plus, backup, warned, faults>>

\* mutation: an id that is a user's is not skipped
FreeGid(i) == ~InUse("group", i)
FreeId(i) == ~InUse("passwd", i) /\ ~InUse("group", i)

(* passwd_study: the name is not in use; the lowest id that is free, if    *)
(* there is one.                                                           *)
Study(p) ==
  /\ At(p, "adduser", 1, "look")
  /\ IF file["passwd"][proc[p].user] = NoEntry /\ file["group"][proc[p].user] = NoEntry
        /\ \E i \in Ids : FreeId(i)
     THEN \E i \in Ids : /\ FreeId(i)
                         /\ \A j \in Ids : FreeId(j) => i <= j
                         /\ proc' = [proc EXCEPT ![p].step = "open", ![p].id = i]
     ELSE Exit(p)

(* adduser ends with an exec of passwd, unless -D is given.                *)
Passwd(p) ==
  \/ Exit(p)
  \/ proc' = [proc EXCEPT ![p] = [Idle EXCEPT !.cmd = "passwd", !.user = proc[p].user]]

(* xgroup_study, in the addgroup that adduser runs.                        *)
GroupStudy(p) ==
  /\ At(p, "adduser", 3, "look")
  /\ IF file["group"][proc[p].user] = NoEntry /\ ~InUse("group", proc[p].id)
     THEN Proceed(p)
     ELSE Passwd(p)

(* passwd and deluser want the user to exist; passwd is given a new word,  *)
(* or gives up.                                                            *)
Exists(p) ==
  LET known == file["passwd"][proc[p].user] # NoEntry IN
  \/ /\ At(p, "passwd", 1, "look")
     /\ \/ \E s \in Secrets :
             /\ known
             /\ proc' = [proc EXCEPT ![p].step = "open", ![p].secret = s, ![p].pw = s]
        \/ Exit(p)
  \/ /\ At(p, "deluser", 1, "look")
     /\ IF known THEN Proceed(p) ELSE Exit(p)

(* deluser removes the user's group, unless it is the group of another.    *)
GroupInUse(p) ==
  LET g == file["group"][proc[p].user] IN
  /\ At(p, "deluser", 4, "look")
  /\ IF g # NoEntry /\ ~InUse("passwd", g.id) THEN Proceed(p) ELSE Exit(p)

Look(p) ==
  /\ Study(p) \/ GroupStudy(p) \/ Exists(p) \/ GroupInUse(p)
  /\ UNCHANGED <<shadowed, file, plus, backup, warned, together, commands, faults>>

NextCall(p, step, pw) ==
  proc' = [proc EXCEPT ![p].call = @ + 1, ![p].step = step, ![p].pw = pw,
                       ![p].old = NoLines, ![p].tries = 0]

\* mutation: passwd writes an "x" into passwd even if there is no shadow file
AlwaysX(p, changed) == "x"
\* mutation: it is enough that there is a shadow file
XIfShadowed(p, changed) == IF shadowed THEN "x" ELSE proc[p].secret
(* What passwd writes into passwd, by what update_passwd did to shadow.    *)
NewWord(p, changed) == IF changed THEN "x" ELSE proc[p].secret

(* How a command goes on when update_passwd has returned: with an error,   *)
(* or whether it has changed a line.                                       *)
Return(p, failed, changed) ==
  CASE proc[p].cmd = "adduser" ->
         CASE proc[p].call = 1 -> IF failed THEN Exit(p) ELSE NextCall(p, "open", proc[p].pw)
           [] proc[p].call = 2 -> NextCall(p, "look", proc[p].pw)
           [] OTHER            -> Passwd(p)
    [] proc[p].cmd = "passwd" ->
         IF failed \/ proc[p].call = 2 THEN Exit(p) ELSE NextCall(p, "open", NewWord(p, changed))
    [] OTHER ->
         IF failed \/ proc[p].call = 4 THEN Exit(p)
         ELSE NextCall(p, IF proc[p].call = 3 THEN "look" ELSE "open", proc[p].pw)

-----------------------------------------------------------------------------
(* update_passwd.                                                          *)

Step(p, step) == Running(p) /\ proc[p].step = step

OldOf(p) == file[FileOf(p)]

Open(p) ==
  /\ Step(p, "open")
  /\ IF Missing(p)
     THEN Return(p, FALSE, FALSE)
     ELSE proc' = [proc EXCEPT ![p].step = "create", ![p].tries = Tries,
                               ![p].old = OldOf(p)]
  /\ UNCHANGED <<shadowed, file, plus, backup, warned, together, commands, faults>>

\* mutation: FILE+ is created whether it is there or not (no O_EXCL)
CreateAnyway(p) == TRUE
Created(p) == plus[FileOf(p)] = Nobody
\* mutation: the tries are not counted
TriesUncounted(p) == proc[p].tries
TriesLeft(p) == proc[p].tries - 1

Create(p) ==
  /\ Step(p, "create")
  /\ IF Created(p)
     THEN /\ plus' = [plus EXCEPT ![FileOf(p)] = p]
          /\ proc' = [proc EXCEPT ![p].step = "link"]
     ELSE /\ IF TriesLeft(p) = 0 THEN Return(p, TRUE, FALSE)
                               ELSE proc' = [proc EXCEPT ![p].tries = TriesLeft(p)]
          /\ UNCHANGED plus
  /\ UNCHANGED <<shadowed, file, backup, warned, together, commands, faults>>

(* The old FILE- is removed, and FILE- becomes a second name of what is    *)
(* FILE now.                                                               *)
Link(p) ==
  /\ Step(p, "link")
  /\ backup' = [backup EXCEPT ![FileOf(p)] = file[FileOf(p)]]
  /\ proc' = [proc EXCEPT ![p].step = "write"]
  /\ UNCHANGED <<shadowed, file, plus, warned, together, commands, faults>>

Unlinked(p) == backup' = [backup EXCEPT ![FileOf(p)] = NoLines]

(* "can't create backup copy": unlink or link fails, and the command goes  *)
(* on all the same.                                                        *)
LinkFails(p) ==
  /\ Step(p, "link")
  /\ faults < MaxFaults
  /\ faults' = faults + 1
  /\ Unlinked(p) \/ UNCHANGED backup
  /\ warned' = warned \cup {FileOf(p)}
  /\ proc' = [proc EXCEPT ![p].step = "write"]
  /\ UNCHANGED <<shadowed, file, plus, together, commands>>

Release(f) ==
  /\ plus' = [plus EXCEPT ![f] = Nobody]
  /\ warned' = warned \ {f}

(* The lines of the file opened at first are copied and changed; the new   *)
(* file replaces the one there is by now.                                  *)
Rename(p) ==
  /\ Step(p, "write")
  /\ file' = [file EXCEPT ![FileOf(p)] = Apply(p, proc[p].old)]
  /\ Release(FileOf(p))
  /\ Return(p, FALSE, proc[p].old[proc[p].user] # NoEntry)
  /\ UNCHANGED <<shadowed, backup, together, commands, faults>>

\* mutation: what has been written replaces FILE, whether it is all or not
WrittenSoFar(p) == [file EXCEPT ![FileOf(p)] = NoLines]
Unreplaced(p) == file

(* The new file cannot be written or renamed (no space left): unlink FILE+. *)
WriteFails(p) ==
  /\ Step(p, "write")
  /\ faults < MaxFaults
  /\ faults' = faults + 1
  /\ file' = Unreplaced(p)
  /\ Release(FileOf(p))
  /\ Return(p, TRUE, FALSE)
  /\ UNCHANGED <<shadowed, backup, together, commands>>

(* The command is killed, or the guest goes down: FILE+ stays.  It may     *)
(* have removed FILE- and not linked it again.                             *)
Kill(p) ==
  /\ Running(p)
  /\ faults < MaxFaults
  /\ faults' = faults + 1
  /\ plus' = [f \in Files |-> IF plus[f] = p THEN Killed ELSE plus[f]]
  /\ UNCHANGED backup \/ (Step(p, "link") /\ Unlinked(p))
  /\ warned' = {f \in warned : plus[f] # p}
  /\ Exit(p)
  /\ UNCHANGED <<shadowed, file, together, commands>>

Work(p) ==
  \/ Look(p) \/ Open(p) \/ Create(p) \/ Link(p) \/ LinkFails(p)
  \/ Rename(p) \/ WriteFails(p)

Next ==
  \E p \in Processes :
    \/ \E cmd \in Commands \ {"none"}, u \in Users : Start(p, cmd, u)
    \/ Work(p)
    \/ Kill(p)

-----------------------------------------------------------------------------
(* The files the guest starts from have no user, or one with a password,   *)
(* which is in passwd if there is no shadow.                               *)

Lines(u, e) == [v \in Users |-> IF v = u THEN e ELSE NoEntry]

Init ==
  /\ shadowed \in BOOLEAN
  /\ \/ file = [f \in Files |-> NoLines]
     \/ \E u \in Users, i \in Ids, s \in Secrets :
          file = [f \in Files |->
            CASE f = "passwd" -> Lines(u, [id |-> i, pw |-> IF shadowed THEN "x" ELSE s])
              [] f = "shadow" -> IF shadowed THEN Lines(u, [pw |-> s]) ELSE NoLines
              [] OTHER        -> Lines(u, [id |-> i])]
  /\ plus = [f \in Files |-> Nobody]
  /\ backup = [f \in Files |-> NoLines]
  /\ warned = {}
  /\ proc = [p \in Processes |-> Idle]
  /\ together = FALSE
  /\ commands = 0 /\ faults = 0

Spec == Init /\ [][Next]_vars

(* A command that runs goes on, the user at the prompt of passwd included. *)
FairSpec == Spec /\ \A p \in Processes : WF_vars(Work(p))

-----------------------------------------------------------------------------
(* Properties.                                                             *)

TypeOK ==
  /\ shadowed \in BOOLEAN /\ together \in BOOLEAN
  /\ DOMAIN file = Files /\ \A f \in Files : file[f] \in Content(f)
  /\ DOMAIN backup = Files /\ \A f \in Files : backup[f] \in Content(f)
  /\ plus \in [Files -> Processes \cup {Nobody, Killed}]
  /\ warned \subseteq Files
  /\ proc \in [Processes -> Process]
  /\ commands \in 0 .. MaxCommands /\ faults \in 0 .. MaxFaults

(* FILE+ is a lock: the command that is about to rename it is the only one *)
(* that writes it.                                                         *)
OneWriter ==
  \A p \in Processes :
    Running(p) /\ proc[p].step \in {"link", "write"} => plus[FileOf(p)] = p

(* Whatever runs or is killed, a file is replaced only when FILE- holds    *)
(* what it held, unless update_passwd has warned that it cannot make this  *)
(* copy: it goes on all the same.                                          *)
BackupIsPrevious ==
  [][\A f \in Files : file'[f] # file[f] => backup[f] = file[f] \/ f \in warned]_vars

(* A change of a file is what one command makes of the file as it is: no   *)
(* change of another command is undone.                                    *)
ChangesAdd ==
  \A f \in Files : file'[f] # file[f] =>
    \E p \in Processes : Running(p) /\ FileOf(p) = f /\ file'[f] = Apply(p, file[f])

(* Commands that run one after the other lose no change, whichever of them *)
(* are killed or fail on the way.                                          *)
UpdatesKept == [][~together => ChangesAdd]_vars

(* "Try to create /etc/passwd+. Wait if it exists": commands that wait for *)
(* each other lose no change either.                                       *)
UpdatesKeptTogether == [][ChangesAdd]_vars

(* What login compares a password with.                                    *)
Accepted(f, u) ==
  CASE f["passwd"][u] = NoEntry -> "!"
    [] f["passwd"][u] # NoEntry /\ f["passwd"][u].pw = "x" /\ f["shadow"][u] # NoEntry
         -> f["shadow"][u].pw
    [] OTHER -> f["passwd"][u].pw

(* The user is being removed, or made anew from what a deluser that was    *)
(* killed has left.                                                        *)
Remakes(p, u) == Running(p) /\ proc[p].cmd # "passwd" /\ proc[p].user = u

(* A user who has a password has one after every step: passwd writes       *)
(* shadow before it writes the "x" into passwd, and may be killed in       *)
(* between.                                                                *)
NeverLockedOut ==
  [][\A u \in Users : Accepted(file, u) \in Secrets /\ ~together =>
       Accepted(file', u) \in Secrets \/ \E p \in Processes : Remakes(p, u)]_vars

(* When passwd reports success, the new password is the one accepted,      *)
(* with and without shadow and for a user whom shadow does not know.       *)
PasswdWorks ==
  [][\A p \in Processes : At(p, "passwd", 2, "write") /\ Rename(p) /\ ~together =>
       Accepted(file', proc[p].user) = proc[p].secret]_vars

(* No two users have the same id.                                          *)
UidsUnique ==
  ~together => \A u, v \in Users :
    file["passwd"][u] # NoEntry /\ file["passwd"][v] # NoEntry
      /\ file["passwd"][u].id = file["passwd"][v].id => u = v

(* Every command ends: it waits for FILE+ a bounded time only.             *)
Ends == \A p \in Processes : []<>~Running(p)
=============================================================================
