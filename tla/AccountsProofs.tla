--------------------------- MODULE AccountsProofs ---------------------------
(***************************************************************************)
(* The account files keep their form and their backups whatever runs and   *)
(* is killed; commands that run one after the other lose no change, give   *)
(* no id twice and leave nobody without a password: proofs for any number  *)
(* of commands, processes and users.                                       *)
(***************************************************************************)
EXTENDS Accounts, TLAPS

(* What a process in the middle of update_passwd has.  A command that is   *)
(* looking has still to choose; the call of each command has its file.     *)
Sane(r) ==
  r.cmd # "none" =>
    /\ r.user \in Users
    /\ r.cmd = "passwd" => r.call \in {1, 2}
    /\ r.cmd = "adduser" => r.call \in {1, 2, 3}
    /\ r.cmd = "adduser" /\ (r.call # 1 \/ r.step # "look") => r.id \in Ids
    /\ r.step = "create" => r.tries # 0

Between == {"create", "link", "write"}
Holds(p) == Running(p) /\ proc[p].step \in {"link", "write"}

Old == \A p \in Processes :
         Running(p) /\ proc[p].step \in Between => proc[p].old \in Content(FileOf(p))
Sanity == \A p \in Processes : Sane(proc[p])
(* Only the creator of FILE+ gets to rename it; FILE- holds what FILE did  *)
(* when it was linked, if it could be, and nobody else has renamed since.  *)
Linked == \A p \in Processes :
            Running(p) /\ proc[p].step = "write" =>
              backup[FileOf(p)] = file[FileOf(p)] \/ FileOf(p) \in warned
(* A command that runs alone has read what is still there.                 *)
Alone ==
  ~together =>
    /\ \A p, q \in Processes : Running(p) /\ Running(q) => p = q
    /\ \A p \in Processes :
         Running(p) /\ proc[p].step \in Between => proc[p].old = file[FileOf(p)]

IInv == TypeOK /\ Old /\ Sanity /\ OneWriter /\ Linked /\ Alone

(* One process changes, to one that is not in the middle of update_passwd. *)
Rests(p) ==
  /\ proc' \in [Processes -> Process]
  /\ \A q \in Processes \ {p} : proc'[q] = proc[q]
  /\ proc'[p].cmd # "none" => proc[p].cmd # "none" /\ proc'[p].step \in {"look", "open"}
  /\ Sane(proc'[p])

-----------------------------------------------------------------------------
LEMMA FileOfIn == \A p : FileOf(p) \in Files
BY DEF FileOf, Files

LEMMA IdleType == Idle \in Process /\ Idle.cmd = "none"
<1>1. NoLines \in Content("shadow") /\ "shadow" \in Files
  BY DEF NoLines, Content, Files
<1>2. NoLines \in UNION {Content(f) : f \in Files}
  BY <1>1
<1>3. 0 \in 0 .. Tries
  BY AccountsConstants
<1> QED BY <1>2, <1>3 DEF Idle, Process, Commands, Words

LEMMA ProcType ==
  ASSUME IInv, NEW p \in Processes
  PROVE  proc \in [Processes -> Process] /\ proc[p] \in Process /\ Sane(proc[p])
BY DEF IInv, TypeOK, Sanity

LEMMA PutRests ==
  ASSUME IInv, NEW p \in Processes, NEW r \in Process, Sane(r),
         proc' = [proc EXCEPT ![p] = r],
         r.cmd # "none" => Running(p) /\ r.step \in {"look", "open"}
  PROVE  Rests(p)
<1>1. proc \in [Processes -> Process]
  BY ProcType
<1> QED BY <1>1 DEF Rests, Running

LEMMA ExitRests ==
  ASSUME IInv, NEW p \in Processes, Exit(p) PROVE Rests(p)
<1>1. Sane(Idle) /\ proc' = [proc EXCEPT ![p] = Idle]
  BY IdleType DEF Exit, Sane
<1> QED BY <1>1, IdleType, PutRests

LEMMA ProceedRests ==
  ASSUME IInv, NEW p \in Processes, Running(p), Proceed(p),
         proc[p].cmd = "adduser" => proc[p].call # 1
  PROVE  Rests(p)
<1> DEFINE r == [proc[p] EXCEPT !.step = "open"]
<1>1. proc[p] \in Process /\ Sane(proc[p])
  BY ProcType
<1>2. r \in Process /\ r.step = "open"
  BY <1>1 DEF Process
<1>3. Sane(r)
  BY <1>1 DEF Sane, Process
<1>4. proc' = [proc EXCEPT ![p] = r]
  BY DEF Proceed
<1> HIDE DEF r
<1> QED BY <1>2, <1>3, <1>4, PutRests

LEMMA NextCallRests ==
  ASSUME IInv, NEW p \in Processes, Running(p), proc[p].step # "look",
         NEW step \in {"look", "open"}, NEW pw \in Words, NextCall(p, step, pw),
         proc[p].cmd = "adduser" => proc[p].call \in {1, 2},
         proc[p].cmd = "passwd" => proc[p].call = 1,
         proc[p].call # 4
  PROVE  Rests(p)
<1> DEFINE r == [proc[p] EXCEPT !.call = @ + 1, !.step = step, !.pw = pw,
                                !.old = NoLines, !.tries = 0]
<1>1. proc[p] \in Process /\ Sane(proc[p])
  BY ProcType
<1>2. NoLines \in UNION {Content(f) : f \in Files} /\ 0 \in 0 .. Tries
  BY IdleType DEF Idle, Process
<1>3. proc[p].call \in 1 .. 3
  BY <1>1 DEF Process
<1>4. proc[p].call + 1 \in 1 .. 4
  BY <1>3
<1>5. r \in Process /\ r.step \in {"look", "open"}
  BY <1>1, <1>2, <1>4 DEF Process
<1>6. /\ r.cmd = proc[p].cmd /\ r.user = proc[p].user /\ r.id = proc[p].id
      /\ r.call = proc[p].call + 1 /\ r.step # "create"
  BY <1>1 DEF Process
<1>7. proc' = [proc EXCEPT ![p] = r]
  BY DEF NextCall
<1> HIDE DEF r
<1>8. Sane(r)
  BY <1>1, <1>3, <1>6 DEF Sane, Running
<1> QED BY <1>5, <1>7, <1>8, PutRests DEF Running

LEMMA PasswdRests ==
  ASSUME IInv, NEW p \in Processes, Running(p), Passwd(p)
  PROVE  Rests(p)
<1> DEFINE r == [Idle EXCEPT !.cmd = "passwd", !.user = proc[p].user]
<1>1. proc[p].user \in Users
  BY ProcType DEF Running, Sane
<1>2. r \in Process
  BY <1>1, IdleType DEF Process, Commands
<1>3. r.call = 1 /\ r.step = "look" /\ r.user = proc[p].user /\ r.cmd = "passwd"
  BY DEF Idle
<1>4. CASE proc' = [proc EXCEPT ![p] = r]
  <2> HIDE DEF r
  <2>1. Sane(r)
    BY <1>1, <1>3 DEF Sane
  <2> QED BY <1>2, <1>3, <1>4, <2>1, PutRests
<1> QED BY <1>4, ExitRests DEF Passwd

LEMMA ReturnRests ==
  ASSUME IInv, NEW p \in Processes, Running(p), proc[p].step # "look",
         NEW failed \in BOOLEAN, NEW changed \in BOOLEAN, Return(p, failed, changed)
  PROVE  Rests(p)
<1>1. proc[p] \in Process /\ Sane(proc[p])
  BY ProcType
<1>2. /\ proc[p].cmd \in {"adduser", "passwd", "deluser"} /\ proc[p].pw \in Words
      /\ proc[p].secret \in Words /\ proc[p].call \in 1 .. 4
  BY <1>1 DEF Process, Commands, Running
<1>3. CASE proc[p].cmd = "adduser"
  <2>1. CASE proc[p].call = 1
    <3>1. IF failed THEN Exit(p) ELSE NextCall(p, "open", proc[p].pw)
      BY <1>3, <2>1 DEF Return
    <3> QED BY <1>2, <1>3, <2>1, <3>1, ExitRests, NextCallRests
  <2>2. CASE proc[p].call = 2
    <3>1. NextCall(p, "look", proc[p].pw)
      BY <1>3, <2>2 DEF Return
    <3> QED BY <1>2, <1>3, <2>2, <3>1, NextCallRests
  <2>3. CASE proc[p].call \notin {1, 2}
    <3>1. Passwd(p)
      BY <1>3, <2>3 DEF Return
    <3> QED BY <3>1, PasswdRests
  <2> QED BY <2>1, <2>2, <2>3
<1>4. CASE proc[p].cmd = "passwd"
  <2>1. IF failed \/ proc[p].call = 2 THEN Exit(p) ELSE NextCall(p, "open", NewWord(p, changed))
    BY <1>4 DEF Return
  <2>2. NewWord(p, changed) \in Words
    BY <1>2 DEF NewWord, Words
  <2>3. proc[p].call \in {1, 2}
    BY <1>1, <1>4 DEF Sane
  <2> QED BY <1>2, <1>4, <2>1, <2>2, <2>3, ExitRests, NextCallRests
<1>5. CASE proc[p].cmd = "deluser"
  <2> DEFINE step == IF proc[p].call = 3 THEN "look" ELSE "open"
  <2>1. IF failed \/ proc[p].call = 4 THEN Exit(p) ELSE NextCall(p, step, proc[p].pw)
    BY <1>5 DEF Return
  <2>2. step \in {"look", "open"}
    OBVIOUS
  <2> HIDE DEF step
  <2> QED BY <1>2, <1>5, <2>1, <2>2, ExitRests, NextCallRests
<1> QED BY <1>2, <1>3, <1>4, <1>5

LEMMA LookRests ==
  ASSUME IInv, NEW p \in Processes, Look(p) PROVE Rests(p) /\ Running(p)
<1>1. proc[p] \in Process /\ Sane(proc[p])
  BY ProcType
<1>2. Running(p)
  BY DEF Look, Study, GroupStudy, Exists, GroupInUse, At, Running
<1>3. CASE Study(p)
  <2>1. CASE Exit(p)
    BY <1>2, <2>1, ExitRests
  <2>2. ASSUME NEW i \in Ids, proc' = [proc EXCEPT ![p].step = "open", ![p].id = i]
        PROVE  Rests(p)
    <3> DEFINE r == [proc[p] EXCEPT !.step = "open", !.id = i]
    <3>1. r \in Process /\ r.step = "open"
      BY <1>1 DEF Process
    <3>2. Sane(r)
      BY <1>1 DEF Sane, Process
    <3>3. proc' = [proc EXCEPT ![p] = r]
      BY <2>2
    <3> HIDE DEF r
    <3> QED BY <1>2, <3>1, <3>2, <3>3, PutRests
  <2> QED BY <1>2, <1>3, <2>1, <2>2 DEF Study
<1>4. CASE GroupStudy(p)
  BY <1>2, <1>4, ProceedRests, PasswdRests DEF GroupStudy, At
<1>5. CASE Exists(p)
  <2>1. CASE Exit(p)
    BY <1>2, <2>1, ExitRests
  <2>2. CASE Proceed(p) /\ At(p, "deluser", 1, "look")
    BY <1>2, <2>2, ProceedRests DEF At
  <2>3. ASSUME NEW s \in Secrets, At(p, "passwd", 1, "look"),
               proc' = [proc EXCEPT ![p].step = "open", ![p].secret = s, ![p].pw = s]
        PROVE  Rests(p)
    <3> DEFINE r == [proc[p] EXCEPT !.step = "open", !.secret = s, !.pw = s]
    <3>1. r \in Process /\ r.step = "open"
      BY <1>1 DEF Process, Words
    <3>2. Sane(r)
      BY <1>1, <2>3 DEF Sane, Process, At
    <3>3. proc' = [proc EXCEPT ![p] = r]
      BY <2>3
    <3> HIDE DEF r
    <3> QED BY <1>2, <3>1, <3>2, <3>3, PutRests
  <2> QED BY <1>2, <1>5, <2>1, <2>2, <2>3 DEF Exists
<1>6. CASE GroupInUse(p)
  BY <1>2, <1>6, ExitRests, ProceedRests DEF GroupInUse, At
<1> QED BY <1>2, <1>3, <1>4, <1>5, <1>6 DEF Look

-----------------------------------------------------------------------------
(* The invariant, step by step.                                            *)

LEMMA SameProcess ==
  ASSUME NEW q, proc'[q] = proc[q]
  PROVE  FileOf(q)' = FileOf(q) /\ Running(q)' = Running(q) /\ Holds(q)' = Holds(q)
BY DEF FileOf, Running, Holds

(* p leaves update_passwd, or goes on outside of it; the others still hold *)
(* their FILE+, and FILE and FILE- are as they were for them.              *)
LEMMA RestsKeeps ==
  ASSUME IInv, NEW p \in Processes, Rests(p), Running(p), TypeOK',
         UNCHANGED together,
         \A q \in Processes \ {p} : Holds(q) =>
           /\ plus'[FileOf(q)] = q
           /\ file'[FileOf(q)] = file[FileOf(q)] /\ backup'[FileOf(q)] = backup[FileOf(q)]
           /\ FileOf(q) \in warned => FileOf(q) \in warned'
  PROVE  IInv'
<1>1. \A q \in Processes \ {p} :
        /\ proc'[q] = proc[q] /\ FileOf(q)' = FileOf(q) /\ Running(q)' = Running(q)
        /\ Holds(q)' = Holds(q)
  BY SameProcess DEF Rests
<1>2. proc'[p].step \notin Between \/ proc'[p].cmd = "none"
  BY DEF Rests, Between
<1>3. Old'
  BY <1>1, <1>2 DEF IInv, Old, Running
<1>4. Sanity'
  BY <1>1 DEF IInv, Sanity, Rests
<1>5. OneWriter'
  BY <1>1, <1>2 DEF OneWriter, Running, Holds, Between
<1>6. Linked'
  BY <1>1, <1>2 DEF IInv, Linked, Running, Holds, Between
<1>7. Alone'
  BY <1>1, <1>2 DEF IInv, Alone, Running
<1> QED BY <1>3, <1>4, <1>5, <1>6, <1>7 DEF IInv

LEMMA StartKeeps ==
  ASSUME IInv, NEW p \in Processes, NEW cmd \in Commands \ {"none"}, NEW u \in Users,
         Start(p, cmd, u)
  PROVE  IInv'
<1> DEFINE r == [Idle EXCEPT !.cmd = cmd, !.user = u]
<1>1. r \in Process
  BY IdleType DEF Process
<1>2. r.cmd = cmd /\ r.user = u /\ r.step = "look" /\ r.call = 1
  BY DEF Idle
<1>3. proc' = [proc EXCEPT ![p] = r] /\ ~Running(p)
  BY DEF Start
<1> HIDE DEF r
<1>4. Sane(r)
  BY <1>2 DEF Sane
<1>5. proc' \in [Processes -> Process] /\ proc'[p] = r
        /\ \A q \in Processes \ {p} : proc'[q] = proc[q]
  BY <1>1, <1>3, ProcType
<1>6. \A q \in Processes \ {p} : FileOf(q)' = FileOf(q) /\ Running(q)' = Running(q)
  BY <1>5, SameProcess
<1>7. commands' \in 0 .. MaxCommands
  BY AccountsConstants DEF Start, IInv, TypeOK
<1>8. UNCHANGED <<shadowed, file, plus, backup, warned, faults>>
        /\ together' = (together \/ \E q \in Processes : Running(q))
  BY DEF Start
<1>9. TypeOK'
  BY <1>5, <1>7, <1>8 DEF IInv, TypeOK
<1>10. Old' /\ Sanity' /\ OneWriter' /\ Linked'
  BY <1>2, <1>4, <1>5, <1>6, <1>8 DEF IInv, Old, Sanity, OneWriter, Linked, Running, Between
<1>11. Alone'
  <2> SUFFICES ASSUME ~together'
               PROVE  /\ \A a, b \in Processes : Running(a)' /\ Running(b)' => a = b
                      /\ \A q \in Processes : Running(q)' => proc'[q].step \notin Between
    BY DEF Alone
  <2>1. \A q \in Processes : ~Running(q)
    BY <1>8
  <2>2. \A q \in Processes : Running(q)' => q = p
    BY <1>6, <2>1
  <2> QED BY <1>2, <1>5, <2>2 DEF Between
<1> QED BY <1>9, <1>10, <1>11 DEF IInv

LEMMA LookKeeps == ASSUME IInv, NEW p \in Processes, Look(p) PROVE IInv'
<1>1. Rests(p) /\ Running(p)
  BY LookRests
<1>2. UNCHANGED <<shadowed, file, plus, backup, warned, together, commands, faults>>
  BY DEF Look
<1>3. TypeOK'
  BY <1>1, <1>2 DEF IInv, TypeOK, Rests
<1>4. \A q \in Processes : Holds(q) => plus[FileOf(q)] = q
  BY DEF IInv, OneWriter, Holds
<1> QED BY <1>1, <1>2, <1>3, <1>4, RestsKeeps

(* A step within update_passwd.                                            *)
LEMMA WithinKeeps ==
  ASSUME IInv, NEW p \in Processes, Running(p), proc[p].step # "look",
         NEW r \in Process, proc' = [proc EXCEPT ![p] = r],
         r.cmd = proc[p].cmd, r.call = proc[p].call, r.user = proc[p].user, r.id = proc[p].id,
         r.step \in Between, r.step = "create" => r.tries # 0,
         r.old \in Content(FileOf(p))
  PROVE  /\ proc' \in [Processes -> Process] /\ proc'[p] = r
         /\ \A q \in Processes \ {p} : proc'[q] = proc[q]
         /\ \A q \in Processes : FileOf(q)' = FileOf(q) /\ Running(q)' = Running(q)
         /\ Old' /\ Sanity'
<1>1. /\ proc' \in [Processes -> Process] /\ proc'[p] = r
      /\ \A q \in Processes \ {p} : proc'[q] = proc[q]
  BY ProcType
<1>2. \A q \in Processes : FileOf(q)' = FileOf(q) /\ Running(q)' = Running(q)
  BY <1>1 DEF FileOf, Running
<1>3. Sane(r)
  BY ProcType DEF Sane, Between
<1> QED BY <1>1, <1>2, <1>3 DEF IInv, Old, Sanity

LEMMA OpenKeeps == ASSUME IInv, NEW p \in Processes, Open(p) PROVE IInv'
<1>1. Running(p) /\ proc[p].step = "open"
  BY DEF Open, Step
<1>2. UNCHANGED <<shadowed, file, plus, backup, warned, together, commands, faults>>
  BY DEF Open
<1>3. \A q \in Processes : Holds(q) => plus[FileOf(q)] = q
  BY DEF IInv, OneWriter, Holds
<1>4. CASE Missing(p)
  <2>1. Return(p, FALSE, FALSE)
    BY <1>4 DEF Open
  <2>2. Rests(p)
    BY <1>1, <2>1, ReturnRests
  <2>3. TypeOK'
    BY <1>2, <2>2 DEF IInv, TypeOK, Rests
  <2> QED BY <1>1, <1>2, <1>3, <2>2, <2>3, RestsKeeps
<1>5. CASE ~Missing(p)
  <2> DEFINE r == [proc[p] EXCEPT !.step = "create", !.tries = Tries, !.old = OldOf(p)]
  <2>1. proc' = [proc EXCEPT ![p] = r]
    BY <1>5 DEF Open
  <2>2. OldOf(p) \in Content(FileOf(p)) /\ FileOf(p) \in Files
    BY FileOfIn DEF IInv, TypeOK, OldOf
  <2>3. OldOf(p) \in UNION {Content(f) : f \in Files} /\ Tries \in 0 .. Tries /\ Tries # 0
    BY <2>2, AccountsConstants
  <2>4. proc[p] \in Process
    BY ProcType
  <2>5. r \in Process
    BY <2>3, <2>4 DEF Process
  <2>6. /\ r.cmd = proc[p].cmd /\ r.call = proc[p].call /\ r.user = proc[p].user
        /\ r.id = proc[p].id /\ r.step = "create" /\ r.tries = Tries /\ r.old = OldOf(p)
    BY <2>4 DEF Process
  <2> HIDE DEF r
  <2>7. /\ proc' \in [Processes -> Process] /\ proc'[p] = r
        /\ \A q \in Processes \ {p} : proc'[q] = proc[q]
        /\ \A q \in Processes : FileOf(q)' = FileOf(q) /\ Running(q)' = Running(q)
        /\ Old' /\ Sanity'
    BY <1>1, <2>1, <2>2, <2>3, <2>5, <2>6, WithinKeeps DEF Between
  <2>8. TypeOK'
    BY <1>2, <2>7 DEF IInv, TypeOK
  <2>9. OneWriter' /\ Linked'
    BY <1>2, <2>6, <2>7 DEF IInv, OneWriter, Linked
  <2>10. Alone'
    BY <1>2, <2>6, <2>7 DEF IInv, Alone, OldOf
  <2> QED BY <2>7, <2>8, <2>9, <2>10 DEF IInv
<1> QED BY <1>4, <1>5

LEMMA CreateKeeps == ASSUME IInv, NEW p \in Processes, Create(p) PROVE IInv'
<1> DEFINE f == FileOf(p)
<1>1. Running(p) /\ proc[p].step = "create"
  BY DEF Create, Step
<1>2. UNCHANGED <<shadowed, file, backup, warned, together, commands, faults>>
  BY DEF Create
<1>3. \A q \in Processes : Holds(q) => plus[FileOf(q)] = q
  BY DEF IInv, OneWriter, Holds
<1>4. f \in Files /\ proc[p] \in Process /\ proc[p].old \in Content(f)
  BY <1>1, FileOfIn, ProcType DEF IInv, Old, Between
<1>5. CASE Created(p)
  <2> DEFINE r == [proc[p] EXCEPT !.step = "link"]
  <2>1. proc' = [proc EXCEPT ![p] = r] /\ plus' = [plus EXCEPT ![f] = p]
    BY <1>5 DEF Create
  <2>2. /\ r \in Process /\ r.cmd = proc[p].cmd /\ r.call = proc[p].call
        /\ r.user = proc[p].user /\ r.id = proc[p].id /\ r.step = "link"
        /\ r.old = proc[p].old
    BY <1>4 DEF Process
  <2> HIDE DEF r
  <2>3. /\ proc' \in [Processes -> Process] /\ proc'[p] = r
        /\ \A q \in Processes \ {p} : proc'[q] = proc[q]
        /\ \A q \in Processes : FileOf(q)' = FileOf(q) /\ Running(q)' = Running(q)
        /\ Old' /\ Sanity'
    BY <1>1, <1>4, <2>1, <2>2, WithinKeeps DEF Between
  <2>4. plus \in [Files -> Processes \cup {Nobody, Killed}]
    BY DEF IInv, TypeOK
  <2>5. TypeOK'
    BY <1>2, <1>4, <2>1, <2>3, <2>4 DEF IInv, TypeOK
  <2>6. \A q \in Processes \ {p} : Holds(q) => FileOf(q) # f
    BY <1>3, <1>5, AccountsConstants DEF Created
  <2>7. OneWriter'
    <3> SUFFICES ASSUME NEW q \in Processes, Running(q), proc'[q].step \in {"link", "write"}
                 PROVE  plus'[FileOf(q)] = q
      BY <2>3 DEF OneWriter
    <3>1. CASE q = p
      BY <1>4, <2>1, <2>4, <3>1
    <3>2. CASE q # p
      <4>1. Holds(q)
        BY <2>3, <3>2 DEF Holds
      <4>2. FileOf(q) \in Files /\ FileOf(q) # f /\ plus[FileOf(q)] = q
        BY <1>3, <2>6, <3>2, <4>1, FileOfIn
      <4> QED BY <2>1, <2>4, <4>2
    <3> QED BY <3>1, <3>2
  <2>8. Linked'
    BY <1>2, <2>2, <2>3 DEF IInv, Linked
  <2>9. Alone'
    BY <1>1, <1>2, <2>2, <2>3 DEF IInv, Alone, Between
  <2> QED BY <2>3, <2>5, <2>7, <2>8, <2>9 DEF IInv
<1>6. CASE ~Created(p) /\ TriesLeft(p) = 0
  <2>1. Return(p, TRUE, FALSE) /\ UNCHANGED plus
    BY <1>6 DEF Create
  <2>2. Rests(p)
    BY <1>1, <2>1, ReturnRests
  <2>3. TypeOK'
    BY <1>2, <2>1, <2>2 DEF IInv, TypeOK, Rests
  <2> QED BY <1>1, <1>2, <1>3, <2>1, <2>2, <2>3, RestsKeeps
<1>7. CASE ~Created(p) /\ TriesLeft(p) # 0
  <2> DEFINE n == TriesLeft(p)
             r == [proc[p] EXCEPT !.tries = n]
  <2>1. proc' = [proc EXCEPT ![p] = r] /\ UNCHANGED plus
    BY <1>7 DEF Create
  <2>2. proc[p].tries \in 0 .. Tries /\ proc[p].tries # 0
    BY <1>1, <1>4, ProcType DEF Process, Sane, Running
  <2>3. n \in 0 .. Tries /\ n # 0
    BY <1>7, <2>2, AccountsConstants DEF TriesLeft
  <2> HIDE DEF n
  <2>4. /\ r \in Process /\ r.cmd = proc[p].cmd /\ r.call = proc[p].call
        /\ r.user = proc[p].user /\ r.id = proc[p].id /\ r.step = "create"
        /\ r.old = proc[p].old /\ r.tries = n
    BY <1>1, <1>4, <2>3 DEF Process
  <2> HIDE DEF r
  <2>5. /\ proc' \in [Processes -> Process] /\ proc'[p] = r
        /\ \A q \in Processes \ {p} : proc'[q] = proc[q]
        /\ \A q \in Processes : FileOf(q)' = FileOf(q) /\ Running(q)' = Running(q)
        /\ Old' /\ Sanity'
    BY <1>1, <1>4, <2>1, <2>3, <2>4, WithinKeeps DEF Between
  <2>6. TypeOK'
    BY <1>2, <2>1, <2>5 DEF IInv, TypeOK
  <2>7. OneWriter' /\ Linked'
    BY <1>2, <2>1, <2>4, <2>5 DEF IInv, OneWriter, Linked
  <2>8. Alone'
    BY <1>1, <1>2, <2>4, <2>5 DEF IInv, Alone, Between
  <2> QED BY <2>5, <2>6, <2>7, <2>8 DEF IInv
<1> QED BY <1>5, <1>6, <1>7

(* Both ends of unlink and link.                                           *)
LEMMA LinkedKeeps ==
  ASSUME IInv, NEW p \in Processes, Step(p, "link"),
         proc' = [proc EXCEPT ![p].step = "write"],
         UNCHANGED <<shadowed, file, plus, together, commands>>, faults' \in 0 .. MaxFaults,
         NEW c \in Content(FileOf(p)), DOMAIN backup' = Files, backup'[FileOf(p)] = c,
         \A g \in Files \ {FileOf(p)} : backup'[g] = backup[g],
         warned' \subseteq Files, warned \subseteq warned',
         c = file[FileOf(p)] \/ FileOf(p) \in warned'
  PROVE  IInv'
<1> DEFINE f == FileOf(p)
           r == [proc[p] EXCEPT !.step = "write"]
<1>1. Running(p) /\ proc[p].step = "link"
  BY DEF Step
<1>2. proc' = [proc EXCEPT ![p] = r]
  OBVIOUS
<1>3. f \in Files /\ proc[p] \in Process /\ proc[p].old \in Content(f)
  BY <1>1, FileOfIn, ProcType DEF IInv, Old, Between
<1>4. /\ r \in Process /\ r.cmd = proc[p].cmd /\ r.call = proc[p].call
      /\ r.user = proc[p].user /\ r.id = proc[p].id /\ r.step = "write"
      /\ r.old = proc[p].old
  BY <1>3 DEF Process
<1> HIDE DEF r
<1>5. /\ proc' \in [Processes -> Process] /\ proc'[p] = r
      /\ \A q \in Processes \ {p} : proc'[q] = proc[q]
      /\ \A q \in Processes : FileOf(q)' = FileOf(q) /\ Running(q)' = Running(q)
      /\ Old' /\ Sanity'
  BY <1>1, <1>2, <1>3, <1>4, WithinKeeps DEF Between
<1>6. /\ DOMAIN backup' = Files /\ backup'[f] = c
      /\ \A g \in Files \ {f} : backup'[g] = backup[g]
  OBVIOUS
<1>7. TypeOK'
  BY <1>5, <1>6 DEF IInv, TypeOK
<1>8. OneWriter'
  BY <1>1, <1>5 DEF IInv, OneWriter
<1>9. Linked'
  <2> SUFFICES ASSUME NEW q \in Processes, Running(q), proc'[q].step = "write"
               PROVE  backup'[FileOf(q)] = file[FileOf(q)] \/ FileOf(q) \in warned'
    BY <1>5 DEF Linked
  <2>1. CASE q = p
    BY <1>6, <2>1
  <2>2. CASE q # p
    <3>1. FileOf(q) # f
      BY <1>1, <1>5, <2>2 DEF IInv, OneWriter
    <3> QED BY <1>5, <1>6, <2>2, <3>1, FileOfIn DEF IInv, Linked
  <2> QED BY <2>1, <2>2
<1>10. Alone'
  BY <1>1, <1>4, <1>5 DEF IInv, Alone, Between
<1> QED BY <1>5, <1>7, <1>8, <1>9, <1>10 DEF IInv

LEMMA LinkKeeps == ASSUME IInv, NEW p \in Processes, Link(p) PROVE IInv'
<1>1. FileOf(p) \in Files /\ file[FileOf(p)] \in Content(FileOf(p))
  BY FileOfIn DEF IInv, TypeOK
<1>2. warned \subseteq Files /\ faults \in 0 .. MaxFaults /\ DOMAIN backup = Files
  BY DEF IInv, TypeOK
<1> QED BY <1>1, <1>2, LinkedKeeps DEF Link

LEMMA NoLinesType == \A f \in Files : NoLines \in Content(f)
<1>1. NoLines \in Content("passwd") /\ NoLines \in Content("shadow") /\ NoLines \in Content("group")
  BY DEF NoLines, Content
<1> QED BY <1>1 DEF Files

LEMMA LinkFailsKeeps == ASSUME IInv, NEW p \in Processes, LinkFails(p) PROVE IInv'
<1>1. FileOf(p) \in Files /\ NoLines \in Content(FileOf(p))
        /\ backup[FileOf(p)] \in Content(FileOf(p))
  BY FileOfIn, NoLinesType DEF IInv, TypeOK
<1>2. warned \subseteq Files /\ warned' = warned \cup {FileOf(p)} /\ DOMAIN backup = Files
  BY DEF IInv, TypeOK, LinkFails
<1>3. faults' \in 0 .. MaxFaults
  BY AccountsConstants DEF IInv, TypeOK, LinkFails
<1>4. CASE UNCHANGED backup
  BY <1>1, <1>2, <1>3, <1>4, LinkedKeeps DEF LinkFails
<1>5. CASE Unlinked(p)
  BY <1>1, <1>2, <1>3, <1>5, LinkedKeeps DEF LinkFails, Unlinked
<1> QED BY <1>4, <1>5 DEF LinkFails

(* The lines a call makes of a file are lines of that file.                *)
LEMMA ApplyType ==
  ASSUME IInv, NEW p \in Processes, Running(p), proc[p].step # "look",
         NEW c \in Content(FileOf(p))
  PROVE  Apply(p, c) \in Content(FileOf(p))
<1> DEFINE u == proc[p].user
<1>1. proc[p] \in Process /\ Sane(proc[p]) /\ u \in Users
  BY ProcType DEF Running, Sane
<1>2. proc[p].cmd \in {"adduser", "passwd", "deluser"} /\ proc[p].pw \in Words
        /\ proc[p].call \in 1 .. 4
  BY <1>1 DEF Process, Commands, Running
<1>3. c \in [Users -> Entry(FileOf(p)) \cup {NoEntry}]
  BY DEF Content
<1>4. ASSUME NEW e \in Entry(FileOf(p)) \cup {NoEntry}
      PROVE  [c EXCEPT ![u] = e] \in Content(FileOf(p))
  BY <1>1, <1>3, <1>4 DEF Content
<1>5. CASE proc[p].cmd = "adduser"
  <2>1. proc[p].id \in Ids
    BY <1>1, <1>5 DEF Sane
  <2>2. NewEntry(p) \in Entry(FileOf(p))
    <3>1. CASE FileOf(p) = "passwd"
      BY <2>1, <3>1 DEF NewEntry, Entry, Words
    <3>2. CASE FileOf(p) = "shadow"
      BY <3>2 DEF NewEntry, Entry, Words
    <3>3. CASE FileOf(p) = "group"
      BY <2>1, <3>3 DEF NewEntry, Entry
    <3> QED BY <3>1, <3>2, <3>3, FileOfIn DEF Files
  <2>3. Apply(p, c) = [c EXCEPT ![u] = NewEntry(p)]
    BY <1>5 DEF Apply
  <2> QED BY <1>4, <2>2, <2>3
<1>6. CASE proc[p].cmd = "passwd"
  <2>1. CASE c[u] = NoEntry
    BY <1>6, <2>1 DEF Apply
  <2>2. CASE c[u] # NoEntry
    <3> DEFINE e == [c[u] EXCEPT !.pw = proc[p].pw]
    <3>1. FileOf(p) \in {"passwd", "shadow"}
      BY <1>6 DEF FileOf
    <3>2. c[u] \in Entry(FileOf(p))
      BY <1>1, <1>3, <2>2
    <3>3. e \in Entry(FileOf(p))
      <4>1. CASE FileOf(p) = "passwd"
        BY <1>2, <3>2, <4>1 DEF Entry
      <4>2. CASE FileOf(p) = "shadow"
        BY <1>2, <3>2, <4>2 DEF Entry
      <4> QED BY <3>1, <4>1, <4>2
    <3>4. Apply(p, c) = [c EXCEPT ![u] = e]
      BY <1>6, <2>2 DEF Apply
    <3> QED BY <1>4, <3>3, <3>4
  <2> QED BY <2>1, <2>2
<1>7. CASE proc[p].cmd = "deluser"
  <2>1. Apply(p, c) = c \/ Apply(p, c) = [c EXCEPT ![u] = NoEntry]
    BY <1>7 DEF Apply
  <2> QED BY <1>4, <2>1
<1> QED BY <1>2, <1>5, <1>6, <1>7

(* Whoever is about to rename has no rival.                                *)
LEMMA OthersElsewhere ==
  ASSUME IInv, NEW p \in Processes, Holds(p)
  PROVE  \A q \in Processes \ {p} : Holds(q) => FileOf(q) # FileOf(p) /\ plus[FileOf(q)] = q
BY DEF IInv, OneWriter, Holds

LEMMA ReleaseType ==
  ASSUME IInv, NEW f \in Files, Release(f)
  PROVE  /\ plus' \in [Files -> Processes \cup {Nobody, Killed}] /\ warned' \subseteq Files
         /\ \A g \in Files \ {f} : plus'[g] = plus[g] /\ (g \in warned => g \in warned')
BY DEF IInv, TypeOK, Release

LEMMA RenameKeeps == ASSUME IInv, NEW p \in Processes, Rename(p) PROVE IInv'
<1> DEFINE f == FileOf(p)
           c == Apply(p, proc[p].old)
<1>1. Running(p) /\ proc[p].step = "write" /\ Holds(p)
  BY DEF Rename, Step, Holds
<1>2. /\ UNCHANGED <<shadowed, backup, together, commands, faults>>
      /\ file' = [file EXCEPT ![f] = c] /\ Release(f)
  BY DEF Rename
<1>3. Rests(p)
  <2>1. Return(p, FALSE, proc[p].old[proc[p].user] # NoEntry)
    BY DEF Rename
  <2> QED BY <1>1, <2>1, ReturnRests
<1>4. f \in Files /\ c \in Content(f)
  BY <1>1, FileOfIn, ApplyType DEF IInv, Old, Between
<1> HIDE DEF c
<1>5. /\ DOMAIN file' = Files /\ file'[f] = c
      /\ \A g \in Files \ {f} : file'[g] = file[g]
  BY <1>2, <1>4 DEF IInv, TypeOK
<1>6. TypeOK'
  BY <1>2, <1>3, <1>4, <1>5, ReleaseType DEF IInv, TypeOK, Rests
<1>7. \A q \in Processes \ {p} : Holds(q) =>
        /\ plus'[FileOf(q)] = q
        /\ file'[FileOf(q)] = file[FileOf(q)] /\ backup'[FileOf(q)] = backup[FileOf(q)]
        /\ FileOf(q) \in warned => FileOf(q) \in warned'
  BY <1>1, <1>2, <1>4, <1>5, OthersElsewhere, ReleaseType, FileOfIn
<1> QED BY <1>1, <1>2, <1>3, <1>6, <1>7, RestsKeeps

LEMMA WriteFailsKeeps == ASSUME IInv, NEW p \in Processes, WriteFails(p) PROVE IInv'
<1>1. Running(p) /\ proc[p].step = "write" /\ Holds(p)
  BY DEF WriteFails, Step, Holds
<1>2. UNCHANGED <<shadowed, file, backup, together, commands>> /\ Release(FileOf(p))
  BY DEF WriteFails, Unreplaced
<1>3. Rests(p)
  BY <1>1, ReturnRests DEF WriteFails
<1>4. faults' \in 0 .. MaxFaults
  BY AccountsConstants DEF IInv, TypeOK, WriteFails
<1>5. TypeOK'
  BY <1>2, <1>3, <1>4, FileOfIn, ReleaseType DEF IInv, TypeOK, Rests
<1>6. \A q \in Processes \ {p} : Holds(q) =>
        plus'[FileOf(q)] = q /\ (FileOf(q) \in warned => FileOf(q) \in warned')
  BY <1>1, <1>2, OthersElsewhere, ReleaseType, FileOfIn
<1> QED BY <1>1, <1>2, <1>3, <1>5, <1>6, RestsKeeps

LEMMA KillKeeps == ASSUME IInv, NEW p \in Processes, Kill(p) PROVE IInv'
<1>1. Running(p) /\ UNCHANGED <<shadowed, file, together, commands>>
  BY DEF Kill
<1>2. Rests(p)
  BY ExitRests DEF Kill
<1>3. faults' \in 0 .. MaxFaults
  BY AccountsConstants DEF IInv, TypeOK, Kill
<1>4. plus' = [f \in Files |-> IF plus[f] = p THEN Killed ELSE plus[f]]
        /\ warned' = {f \in warned : plus[f] # p}
  BY DEF Kill
<1>5. /\ DOMAIN backup' = Files /\ \A f \in Files : backup'[f] \in Content(f)
      /\ \A q \in Processes \ {p} : Holds(q) => backup'[FileOf(q)] = backup[FileOf(q)]
  <2>1. CASE UNCHANGED backup
    BY <2>1 DEF IInv, TypeOK
  <2>2. CASE Step(p, "link") /\ Unlinked(p)
    <3>1. Holds(p) /\ FileOf(p) \in Files
      BY <2>2, FileOfIn DEF Step, Holds
    <3>2. /\ DOMAIN backup' = Files /\ backup'[FileOf(p)] = NoLines
          /\ \A g \in Files \ {FileOf(p)} : backup'[g] = backup[g]
      BY <2>2, <3>1 DEF IInv, TypeOK, Unlinked
    <3> QED BY <3>1, <3>2, OthersElsewhere, FileOfIn, NoLinesType DEF IInv, TypeOK
  <2> QED BY <2>1, <2>2 DEF Kill
<1>6. TypeOK'
  BY <1>1, <1>2, <1>3, <1>4, <1>5 DEF IInv, TypeOK, Rests
<1>7. \A q \in Processes \ {p} : Holds(q) =>
        plus'[FileOf(q)] = q /\ (FileOf(q) \in warned => FileOf(q) \in warned')
  BY <1>4, FileOfIn DEF IInv, OneWriter, Holds
<1> QED BY <1>1, <1>2, <1>5, <1>6, <1>7, RestsKeeps

LEMMA InitHolds == Init => IInv
<1> SUFFICES ASSUME Init PROVE IInv
  OBVIOUS
<1>1. NoLines \in Content("passwd") /\ NoLines \in Content("shadow") /\ NoLines \in Content("group")
  BY NoLinesType DEF Files
<1>2. \A f \in Files : NoLines \in Content(f)
  BY NoLinesType
<1>3. DOMAIN file = Files /\ \A f \in Files : file[f] \in Content(f)
  <2>1. CASE file = [f \in Files |-> NoLines]
    BY <1>2, <2>1
  <2>2. ASSUME NEW u \in Users, NEW i \in Ids, NEW s \in Secrets,
               file = [f \in Files |->
                 CASE f = "passwd" -> Lines(u, [id |-> i, pw |-> IF shadowed THEN "x" ELSE s])
                   [] f = "shadow" -> IF shadowed THEN Lines(u, [pw |-> s]) ELSE NoLines
                   [] OTHER        -> Lines(u, [id |-> i])]
        PROVE  DOMAIN file = Files /\ \A f \in Files : file[f] \in Content(f)
    <3>1. Lines(u, [id |-> i, pw |-> IF shadowed THEN "x" ELSE s]) \in Content("passwd")
      BY DEF Lines, Content, Entry, Words
    <3>2. Lines(u, [pw |-> s]) \in Content("shadow")
      BY DEF Lines, Content, Entry, Words
    <3>3. Lines(u, [id |-> i]) \in Content("group")
      BY DEF Lines, Content, Entry
    <3>4. /\ DOMAIN file = Files
          /\ file["passwd"] = Lines(u, [id |-> i, pw |-> IF shadowed THEN "x" ELSE s])
          /\ file["shadow"] = IF shadowed THEN Lines(u, [pw |-> s]) ELSE NoLines
          /\ file["group"] = Lines(u, [id |-> i])
      BY <2>2 DEF Files
    <3> QED BY <1>1, <3>1, <3>2, <3>3, <3>4 DEF Files
  <2> QED BY <2>1, <2>2 DEF Init
<1>4. proc \in [Processes -> Process] /\ \A p \in Processes : proc[p] = Idle
  BY IdleType DEF Init
<1>5. TypeOK
  <2>1. plus \in [Files -> Processes \cup {Nobody, Killed}]
    BY DEF Init
  <2>2. DOMAIN backup = Files /\ \A f \in Files : backup[f] \in Content(f)
    BY <1>2 DEF Init
  <2>3. commands \in 0 .. MaxCommands /\ faults \in 0 .. MaxFaults
    BY AccountsConstants DEF Init
  <2>4. shadowed \in BOOLEAN /\ together \in BOOLEAN /\ warned \subseteq Files
    BY DEF Init
  <2> QED BY <1>3, <1>4, <2>1, <2>2, <2>3, <2>4 DEF TypeOK
<1> QED BY <1>4, <1>5, IdleType
        DEF IInv, Old, Sanity, Sane, OneWriter, Linked, Alone, Running, Init

LEMMA StepHolds == IInv /\ [Next]_vars => IInv'
<1> SUFFICES ASSUME IInv, [Next]_vars PROVE IInv'
  OBVIOUS
<1>1. ASSUME NEW p \in Processes, NEW cmd \in Commands \ {"none"}, NEW u \in Users,
             Start(p, cmd, u)
      PROVE  IInv'
  BY <1>1, StartKeeps
<1>2. ASSUME NEW p \in Processes, Work(p) PROVE IInv'
  BY <1>2, LookKeeps, OpenKeeps, CreateKeeps, LinkKeeps, LinkFailsKeeps,
        RenameKeeps, WriteFailsKeeps DEF Work
<1>3. ASSUME NEW p \in Processes, Kill(p) PROVE IInv'
  BY <1>3, KillKeeps
<1>4. CASE UNCHANGED vars
  BY <1>4 DEF vars, IInv, TypeOK, Old, Sanity, Sane, OneWriter, Linked, Alone, Running, FileOf
<1> QED BY <1>1, <1>2, <1>3, <1>4 DEF Next

(* The state of the files and of the commands is sound after every step.   *)
THEOREM AccountsInvariant == Spec => []IInv
BY InitHolds, StepHolds, PTL DEF Spec
-----------------------------------------------------------------------------
(* What follows from it.                                                   *)

(* Every file keeps its form: lines for names, with ids and words.         *)
THEOREM AccountsTypeCorrect == Spec => []TypeOK
<1>1. IInv => TypeOK
  BY DEF IInv
<1> QED BY <1>1, AccountsInvariant, PTL

(* FILE+ is a lock.                                                        *)
THEOREM PlusIsALock == Spec => []OneWriter
<1>1. IInv => OneWriter
  BY DEF IInv
<1> QED BY <1>1, AccountsInvariant, PTL

(* Only a rename changes a file, and only the one it is about.             *)
LEMMA OnlyRename ==
  ASSUME IInv, Next, NEW f \in Files, file'[f] # file[f]
  PROVE  \E p \in Processes : /\ Running(p) /\ proc[p].step = "write" /\ FileOf(p) = f
                             /\ file'[f] = Apply(p, proc[p].old)
<1>1. file' # file
  OBVIOUS
<1>2. PICK p \in Processes : Rename(p)
  BY <1>1 DEF Next, Start, Work, Look, Open, Create, Link, LinkFails, WriteFails, Unreplaced, Kill
<1>3. file' = [file EXCEPT ![FileOf(p)] = Apply(p, proc[p].old)]
        /\ Running(p) /\ proc[p].step = "write"
  BY <1>2 DEF Rename, Step
<1> HIDE DEF Apply
<1>4. DOMAIN file = Files
  BY DEF IInv, TypeOK
<1>5. FileOf(p) = f
  BY <1>3, <1>4
<1> QED BY <1>3, <1>4, <1>5

(* Whatever runs or is killed, a file is replaced only when FILE- holds    *)
(* what it held, or update_passwd has warned that it could not make it.    *)
THEOREM BackupsArePrevious == Spec => BackupIsPrevious
<1>1. IInv /\ [Next]_vars =>
        [\A f \in Files : file'[f] # file[f] => backup[f] = file[f] \/ f \in warned]_vars
  <2> SUFFICES ASSUME IInv, Next, NEW f \in Files, file'[f] # file[f]
               PROVE  backup[f] = file[f] \/ f \in warned
    OBVIOUS
  <2> QED BY OnlyRename DEF IInv, Linked
<1> QED BY <1>1, AccountsInvariant, PTL DEF Spec, BackupIsPrevious

(* Commands that run one after the other lose no change, whichever of them *)
(* are killed or fail on the way.                                          *)
THEOREM NoChangeLost == Spec => UpdatesKept
<1>1. IInv /\ [Next]_vars => [~together => ChangesAdd]_vars
  <2> SUFFICES ASSUME IInv, Next, ~together, NEW f \in Files, file'[f] # file[f]
               PROVE  \E p \in Processes :
                        Running(p) /\ FileOf(p) = f /\ file'[f] = Apply(p, file[f])
    BY DEF ChangesAdd
  <2>1. PICK p \in Processes : /\ Running(p) /\ proc[p].step = "write" /\ FileOf(p) = f
                               /\ file'[f] = Apply(p, proc[p].old)
    BY OnlyRename
  <2>2. proc[p].old = file[f]
    BY <2>1 DEF IInv, Alone, Between
  <2> QED BY <2>1, <2>2
<1> QED BY <1>1, AccountsInvariant, PTL DEF Spec, UpdatesKept
-----------------------------------------------------------------------------
(* What the commands know of the files between their calls, if none of     *)
(* them overlap: the id adduser has chosen is still nobody's; passwd has a *)
(* word, its user is there, and it writes "x" into passwd only when shadow *)
(* has the word.                                                           *)
Chosen(p) == proc[p].cmd = "adduser" /\ proc[p].call = 1 /\ proc[p].step # "look"
Asked(p) == proc[p].cmd = "passwd" /\ (proc[p].call = 1 => proc[p].step # "look")
InShadow(f, u, s) == f["shadow"][u] # NoEntry /\ f["shadow"][u].pw = s
Ready(p) ==
  /\ Chosen(p) => ~InUse("passwd", proc[p].id)
  /\ Asked(p) =>
       /\ proc[p].secret \in Secrets
       /\ file["passwd"][proc[p].user] # NoEntry
       /\ proc[p].call = 1 => proc[p].pw = proc[p].secret
       /\ proc[p].call = 2 => \/ proc[p].pw = proc[p].secret
                              \/ /\ proc[p].pw = "x"
                                 /\ InShadow(file, proc[p].user, proc[p].secret)
Lone == ~together => \A p \in Processes : Running(p) => Ready(p)
IInv2 == IInv /\ Lone /\ UidsUnique

(* If p runs alone, it is enough to look at p.                             *)
LEMMA LoneStep ==
  ASSUME IInv2, NEW p \in Processes, Running(p), UNCHANGED together,
         \A q \in Processes \ {p} : proc'[q] = proc[q],
         ~together /\ Ready(p) => (Running(p)' => Ready(p)')
  PROVE  Lone'
<1> SUFFICES ASSUME ~together', NEW q \in Processes, Running(q)'
             PROVE  Ready(q)'
  BY DEF Lone
<1>1. ~together /\ Ready(p)
  BY DEF IInv2, Lone
<1>2. q = p
  BY <1>1 DEF IInv2, IInv, Alone, Running
<1> QED BY <1>1, <1>2

LEMMA NextCallFields ==
  ASSUME IInv, NEW p \in Processes, NEW step, NEW pw, NextCall(p, step, pw)
  PROVE  /\ proc'[p].cmd = proc[p].cmd /\ proc'[p].user = proc[p].user
         /\ proc'[p].secret = proc[p].secret /\ proc'[p].call = proc[p].call + 1
         /\ proc'[p].step = step /\ proc'[p].pw = pw
BY ProcType DEF NextCall, Process

LEMMA Exited == ASSUME IInv, NEW p \in Processes, Exit(p) PROVE ~Running(p)'
BY ProcType DEF Exit, Idle, Running

LEMMA PasswdReady ==
  ASSUME IInv, NEW p \in Processes, Passwd(p), Running(p)'
  PROVE  Ready(p)'
<1>1. proc' = [proc EXCEPT ![p] = [Idle EXCEPT !.cmd = "passwd", !.user = proc[p].user]]
  BY Exited DEF Passwd
<1>2. proc'[p].cmd = "passwd" /\ proc'[p].call = 1 /\ proc'[p].step = "look"
  BY <1>1, ProcType DEF Idle
<1> QED BY <1>2 DEF Ready, Chosen, Asked

(* How a command goes on after a call, with what the call has left.        *)
LEMMA ReturnReady ==
  ASSUME IInv, NEW p \in Processes, Running(p), proc[p].step # "look", Ready(p),
         NEW failed \in BOOLEAN, NEW changed \in BOOLEAN, Return(p, failed, changed),
         proc[p].cmd = "passwd" => file'["passwd"][proc[p].user] # NoEntry,
         proc[p].cmd = "passwd" /\ proc[p].call = 1 /\ changed =>
           InShadow(file', proc[p].user, proc[p].secret),
         Running(p)'
  PROVE  Ready(p)'
<1>1. proc[p] \in Process /\ Sane(proc[p])
  BY ProcType
<1>2. proc[p].cmd \in {"adduser", "passwd", "deluser"} /\ proc[p].call \in 1 .. 4
  BY <1>1 DEF Process, Commands, Running
<1>3. CASE proc[p].cmd = "adduser"
  <2>1. CASE proc[p].call \in {1, 2}
    <3>1. PICK step, pw : NextCall(p, step, pw)
      BY <1>3, <2>1, Exited DEF Return
    <3>2. proc'[p].cmd = "adduser" /\ proc'[p].call # 1
      BY <1>3, <2>1, <3>1, NextCallFields
    <3> QED BY <3>2 DEF Ready, Chosen, Asked
  <2>2. CASE proc[p].call \notin {1, 2}
    <3>1. Passwd(p)
      BY <1>3, <2>2 DEF Return
    <3> QED BY <3>1, PasswdReady
  <2> QED BY <2>1, <2>2
<1>4. CASE proc[p].cmd = "passwd"
  <2>1. proc[p].call = 1 /\ NextCall(p, "open", NewWord(p, changed))
    BY <1>1, <1>4, Exited DEF Return, Sane
  <2>2. /\ proc'[p].cmd = "passwd" /\ proc'[p].user = proc[p].user
        /\ proc'[p].secret = proc[p].secret /\ proc'[p].call = 2
        /\ proc'[p].pw = NewWord(p, changed)
    BY <1>4, <2>1, NextCallFields
  <2>3. proc[p].secret \in Secrets
    BY <1>4, <2>1 DEF Ready, Asked
  <2> QED BY <1>4, <2>1, <2>2, <2>3 DEF Ready, Chosen, Asked, NewWord, InShadow
<1>5. CASE proc[p].cmd = "deluser"
  <2>1. PICK step, pw : NextCall(p, step, pw)
    BY <1>5, Exited DEF Return
  <2>2. proc'[p].cmd = "deluser"
    BY <1>5, <2>1, NextCallFields
  <2> QED BY <2>2 DEF Ready, Chosen, Asked
<1> QED BY <1>2, <1>3, <1>4, <1>5

LEMMA StartLone ==
  ASSUME IInv2, NEW p \in Processes, NEW cmd \in Commands \ {"none"}, NEW u \in Users,
         Start(p, cmd, u)
  PROVE  IInv2'
<1>1. IInv'
  BY StartKeeps DEF IInv2
<1>2. Lone'
  <2> SUFFICES ASSUME ~together', NEW q \in Processes, Running(q)'
               PROVE  Ready(q)'
    BY DEF Lone
  <2>1. \A r \in Processes : ~Running(r)
    BY DEF Start
  <2>2. proc' = [proc EXCEPT ![p] = [Idle EXCEPT !.cmd = cmd, !.user = u]]
    BY DEF Start
  <2>3. q = p
    BY <2>1, <2>2, ProcType DEF IInv2, Running
  <2>4. proc'[q].call = 1 /\ proc'[q].step = "look"
    BY <2>2, <2>3, ProcType DEF IInv2, Idle
  <2> QED BY <2>4 DEF Ready, Chosen, Asked
<1>3. UidsUnique'
  BY DEF IInv2, UidsUnique, Start
<1> QED BY <1>1, <1>2, <1>3 DEF IInv2

LEMMA LookLone == ASSUME IInv2, NEW p \in Processes, Look(p) PROVE IInv2'
<1>1. IInv'
  BY LookKeeps DEF IInv2
<1>2. Rests(p) /\ Running(p) /\ IInv /\ proc[p] \in Process /\ Sane(proc[p])
  BY LookRests, ProcType DEF IInv2
<1>3. UNCHANGED <<shadowed, file, together>>
  BY DEF Look
<1>4. UidsUnique'
  BY <1>3 DEF IInv2, UidsUnique
<1>5. ASSUME Ready(p), Running(p)' PROVE Ready(p)'
  <2>1. CASE Study(p)
    <3>1. PICK i \in Ids : FreeId(i) /\ proc' = [proc EXCEPT ![p].step = "open", ![p].id = i]
      BY <1>2, <1>5, <2>1, Exited DEF Study
    <3>2. proc'[p].cmd = "adduser" /\ proc'[p].id = i
      BY <1>2, <2>1, <3>1, ProcType DEF Process, Study, At
    <3>3. ~InUse("passwd", i)'
      BY <1>3, <3>1 DEF FreeId, InUse
    <3> QED BY <3>2, <3>3 DEF Ready, Chosen, Asked, InUse
  <2>2. CASE GroupStudy(p)
    <3>1. CASE Passwd(p)
      BY <1>2, <1>5, <3>1, PasswdReady
    <3>2. CASE Proceed(p)
      <4>1. proc'[p].cmd = "adduser" /\ proc'[p].call = 3
        BY <1>2, <2>2, <3>2, ProcType DEF Process, GroupStudy, At, Proceed
      <4> QED BY <4>1 DEF Ready, Chosen, Asked
    <3> QED BY <2>2, <3>1, <3>2 DEF GroupStudy
  <2>3. CASE Exists(p)
    <3>1. CASE At(p, "deluser", 1, "look")
      <4>1. proc'[p].cmd = "deluser"
        BY <1>2, <1>5, <2>3, <3>1, Exited, ProcType DEF Process, Exists, At, Proceed
      <4> QED BY <4>1 DEF Ready, Chosen, Asked
    <3>2. CASE At(p, "passwd", 1, "look")
      <4>1. PICK s \in Secrets :
              /\ file["passwd"][proc[p].user] # NoEntry
              /\ proc' = [proc EXCEPT ![p].step = "open", ![p].secret = s, ![p].pw = s]
        BY <1>2, <1>5, <2>3, <3>2, Exited DEF Exists, At
      <4>2. /\ proc'[p].cmd = "passwd" /\ proc'[p].call = 1 /\ proc'[p].user = proc[p].user
            /\ proc'[p].secret = s /\ proc'[p].pw = s
        BY <1>2, <3>2, <4>1, ProcType DEF Process, At
      <4> QED BY <1>3, <4>1, <4>2 DEF Ready, Chosen, Asked
    <3> QED BY <2>3, <3>1, <3>2 DEF Exists
  <2>4. CASE GroupInUse(p)
    <3>1. Proceed(p) /\ At(p, "deluser", 4, "look")
      BY <1>2, <1>5, <2>4, Exited DEF GroupInUse
    <3>2. proc'[p].cmd = "deluser"
      BY <1>2, <3>1, ProcType DEF Process, At, Proceed
    <3> QED BY <3>2 DEF Ready, Chosen, Asked
  <2> QED BY <2>1, <2>2, <2>3, <2>4 DEF Look
<1>6. Lone'
  BY <1>2, <1>3, <1>5, LoneStep DEF Rests
<1> QED BY <1>1, <1>4, <1>6 DEF IInv2

(* A step within update_passwd that leaves the files as they are.          *)
LEMMA WithinLone ==
  ASSUME IInv2, IInv', NEW p \in Processes, Running(p), proc[p].step # "look",
         UNCHANGED <<shadowed, file, together>>,
         \A q \in Processes \ {p} : proc'[q] = proc[q],
         \/ \E failed \in BOOLEAN : Return(p, failed, FALSE)
         \/ /\ proc'[p].cmd = proc[p].cmd /\ proc'[p].call = proc[p].call
            /\ proc'[p].user = proc[p].user /\ proc'[p].id = proc[p].id
            /\ proc'[p].secret = proc[p].secret /\ proc'[p].pw = proc[p].pw
         \/ Exit(p)
  PROVE  IInv2'
<1>1. IInv
  BY DEF IInv2
<1>2. UidsUnique'
  BY DEF IInv2, UidsUnique
<1>3. ASSUME Ready(p), Running(p)' PROVE Ready(p)'
  <2>1. ASSUME NEW failed \in BOOLEAN, Return(p, failed, FALSE) PROVE Ready(p)'
    <3>1. proc[p].cmd = "passwd" => proc[p].call \in {1, 2}
      BY <1>1, ProcType DEF Sane, Running
    <3>2. proc[p].cmd = "passwd" => file'["passwd"][proc[p].user] # NoEntry
      BY <1>3 DEF Ready, Asked
    <3> QED BY <1>1, <1>3, <2>1, <3>2, ReturnReady
  <2>2. CASE /\ proc'[p].cmd = proc[p].cmd /\ proc'[p].call = proc[p].call
             /\ proc'[p].user = proc[p].user /\ proc'[p].id = proc[p].id
             /\ proc'[p].secret = proc[p].secret /\ proc'[p].pw = proc[p].pw
    <3>1. Chosen(p)' => Chosen(p)
      BY <2>2 DEF Chosen
    <3>2. Asked(p)' => Asked(p)
      BY <2>2 DEF Asked
    <3>3. ~InUse("passwd", proc[p].id) => ~InUse("passwd", proc[p].id)'
      BY <2>2 DEF InUse
    <3> QED BY <1>3, <2>2, <3>1, <3>2, <3>3 DEF Ready, InShadow
  <2>3. CASE Exit(p)
    BY <1>1, <1>3, <2>3, Exited
  <2> QED BY <2>1, <2>2, <2>3
<1>4. Lone'
  BY <1>3, LoneStep
<1> QED BY <1>2, <1>4 DEF IInv2

LEMMA OpenLone == ASSUME IInv2, NEW p \in Processes, Open(p) PROVE IInv2'
<1>1. IInv' /\ IInv
  BY OpenKeeps DEF IInv2
<1>2. Running(p) /\ proc[p].step = "open" /\ UNCHANGED <<shadowed, file, together>>
  BY DEF Open, Step
<1>3. CASE Missing(p)
  <2>1. Return(p, FALSE, FALSE)
    BY <1>3 DEF Open
  <2>2. Rests(p)
    BY <1>1, <1>2, <2>1, ReturnRests
  <2> QED BY <1>1, <1>2, <2>1, <2>2, WithinLone DEF Rests
<1>4. CASE ~Missing(p)
  <2>1. proc' = [proc EXCEPT ![p].step = "create", ![p].tries = Tries, ![p].old = OldOf(p)]
    BY <1>4 DEF Open
  <2>2. /\ proc'[p].cmd = proc[p].cmd /\ proc'[p].call = proc[p].call
        /\ proc'[p].user = proc[p].user /\ proc'[p].id = proc[p].id
        /\ proc'[p].secret = proc[p].secret /\ proc'[p].pw = proc[p].pw
        /\ \A q \in Processes \ {p} : proc'[q] = proc[q]
    BY <1>1, <2>1, ProcType DEF Process
  <2> QED BY <1>1, <1>2, <2>2, WithinLone
<1> QED BY <1>3, <1>4

LEMMA CreateLone == ASSUME IInv2, NEW p \in Processes, Create(p) PROVE IInv2'
<1>1. IInv' /\ IInv
  BY CreateKeeps DEF IInv2
<1>2. Running(p) /\ proc[p].step = "create" /\ UNCHANGED <<shadowed, file, together>>
  BY DEF Create, Step
<1>3. CASE Return(p, TRUE, FALSE)
  <2>1. Rests(p)
    BY <1>1, <1>2, <1>3, ReturnRests
  <2> QED BY <1>1, <1>2, <1>3, <2>1, WithinLone DEF Rests
<1>4. CASE \/ proc' = [proc EXCEPT ![p].step = "link"]
           \/ proc' = [proc EXCEPT ![p].tries = TriesLeft(p)]
  <2>1. /\ proc'[p].cmd = proc[p].cmd /\ proc'[p].call = proc[p].call
        /\ proc'[p].user = proc[p].user /\ proc'[p].id = proc[p].id
        /\ proc'[p].secret = proc[p].secret /\ proc'[p].pw = proc[p].pw
        /\ \A q \in Processes \ {p} : proc'[q] = proc[q]
    BY <1>1, <1>4, ProcType DEF Process
  <2> QED BY <1>1, <1>2, <2>1, WithinLone
<1> QED BY <1>3, <1>4 DEF Create

LEMMA LinkLone == ASSUME IInv2, NEW p \in Processes, Link(p) \/ LinkFails(p) PROVE IInv2'
<1>1. IInv' /\ IInv
  BY LinkKeeps, LinkFailsKeeps DEF IInv2
<1>2. Running(p) /\ proc[p].step = "link" /\ UNCHANGED <<shadowed, file, together>>
        /\ proc' = [proc EXCEPT ![p].step = "write"]
  BY DEF Link, LinkFails, Step
<1>3. /\ proc'[p].cmd = proc[p].cmd /\ proc'[p].call = proc[p].call
      /\ proc'[p].user = proc[p].user /\ proc'[p].id = proc[p].id
      /\ proc'[p].secret = proc[p].secret /\ proc'[p].pw = proc[p].pw
      /\ \A q \in Processes \ {p} : proc'[q] = proc[q]
  BY <1>1, <1>2, ProcType DEF Process
<1> QED BY <1>1, <1>2, <1>3, WithinLone

LEMMA WriteFailsLone == ASSUME IInv2, NEW p \in Processes, WriteFails(p) PROVE IInv2'
<1>1. IInv' /\ IInv
  BY WriteFailsKeeps DEF IInv2
<1>2. Running(p) /\ proc[p].step = "write" /\ UNCHANGED <<shadowed, file, together>>
        /\ Return(p, TRUE, FALSE)
  BY DEF WriteFails, Unreplaced, Step
<1>3. Rests(p)
  BY <1>1, <1>2, ReturnRests
<1> QED BY <1>1, <1>2, <1>3, WithinLone DEF Rests

LEMMA KillLone == ASSUME IInv2, NEW p \in Processes, Kill(p) PROVE IInv2'
<1>1. IInv' /\ IInv
  BY KillKeeps DEF IInv2
<1>2. Running(p) /\ UNCHANGED <<shadowed, file, together>> /\ Exit(p)
  BY DEF Kill
<1>3. Rests(p)
  BY <1>1, <1>2, ExitRests
<1>4. UidsUnique'
  BY <1>2 DEF IInv2, UidsUnique
<1>5. Lone'
  BY <1>1, <1>2, <1>3, Exited, LoneStep DEF Rests
<1> QED BY <1>1, <1>4, <1>5 DEF IInv2

(* What a lone rename makes of the lines.                                  *)
LEMMA LoneRename ==
  ASSUME IInv2, NEW p \in Processes, Rename(p), ~together
  PROVE  /\ Running(p) /\ proc[p].step = "write" /\ Ready(p)
         /\ proc[p].user \in Users /\ proc[p].pw \in Words
         /\ proc[p].cmd \in {"adduser", "passwd", "deluser"}
         /\ file["passwd"] \in Content("passwd") /\ file["shadow"] \in Content("shadow")
         /\ file'[FileOf(p)] = Apply(p, file[FileOf(p)])
         /\ \A g \in Files \ {FileOf(p)} : file'[g] = file[g]
         /\ Return(p, FALSE, file[FileOf(p)][proc[p].user] # NoEntry)
<1>1. IInv
  BY DEF IInv2
<1>2. Running(p) /\ proc[p].step = "write"
  BY DEF Rename, Step
<1>3. proc[p].old = file[FileOf(p)]
  BY <1>1, <1>2 DEF IInv, Alone, Between
<1>4. FileOf(p) \in Files /\ DOMAIN file = Files
  BY <1>1, FileOfIn DEF IInv, TypeOK
<1>5. file' = [file EXCEPT ![FileOf(p)] = Apply(p, file[FileOf(p)])]
        /\ Return(p, FALSE, file[FileOf(p)][proc[p].user] # NoEntry)
  BY <1>3 DEF Rename
<1>6. /\ file'[FileOf(p)] = Apply(p, file[FileOf(p)])
      /\ \A g \in Files \ {FileOf(p)} : file'[g] = file[g]
  <2> HIDE DEF Apply
  <2> QED BY <1>4, <1>5
<1>7. /\ proc[p].user \in Users /\ proc[p].pw \in Words
      /\ proc[p].cmd \in {"adduser", "passwd", "deluser"}
  BY <1>1, <1>2, ProcType DEF Sane, Running, Process, Commands
<1>8. file["passwd"] \in Content("passwd") /\ file["shadow"] \in Content("shadow")
  BY <1>1 DEF IInv, TypeOK, Files
<1>9. Ready(p)
  BY <1>2 DEF IInv2, Lone
<1> QED BY <1>2, <1>5, <1>6, <1>7, <1>8, <1>9

(* What passwd makes of the line of its user, if there is one, and of the  *)
(* lines of others.                                                        *)
LEMMA PasswdApplied ==
  ASSUME NEW p, proc[p].cmd = "passwd", proc[p].user \in Users, proc[p].pw \in Words,
         NEW f \in {"passwd", "shadow"}, NEW c \in Content(f)
  PROVE  /\ \A v \in Users : Apply(p, c)[v] = NoEntry <=> c[v] = NoEntry
         /\ \A v \in Users \ {proc[p].user} : Apply(p, c)[v] = c[v]
         /\ c[proc[p].user] # NoEntry => Apply(p, c)[proc[p].user].pw = proc[p].pw
         /\ f = "passwd" => \A v \in Users :
              c[v] # NoEntry => Apply(p, c)[v].id = c[v].id
<1> DEFINE u == proc[p].user
<1>1. CASE c[u] = NoEntry
  BY <1>1 DEF Apply
<1>2. CASE c[u] # NoEntry
  <2> DEFINE e == [c[u] EXCEPT !.pw = proc[p].pw]
  <2>1. c \in [Users -> Entry(f) \cup {NoEntry}] /\ c[u] \in Entry(f)
    BY <1>2 DEF Content
  <2>2. e.pw = proc[p].pw /\ (f = "passwd" => e.id = c[u].id)
    BY <2>1 DEF Entry
  <2>3. e # NoEntry
    <3>1. f \in Files
      BY DEF Files
    <3>2. e \in Entry(f)
      <4>1. CASE f = "passwd"
        BY <2>1, <4>1 DEF Entry
      <4>2. CASE f = "shadow"
        BY <2>1, <4>2 DEF Entry
      <4> QED BY <4>1, <4>2
    <3> HIDE DEF e
    <3> QED BY <3>1, <3>2, NoEntryIsNone
  <2>4. Apply(p, c) = [c EXCEPT ![u] = e]
    BY <1>2 DEF Apply
  <2> HIDE DEF e
  <2> QED BY <1>2, <2>1, <2>2, <2>3, <2>4
<1> QED BY <1>1, <1>2

LEMMA RenameLone == ASSUME IInv2, NEW p \in Processes, Rename(p) PROVE IInv2'
<1> DEFINE u == proc[p].user
<1>1. IInv' /\ IInv /\ UNCHANGED <<shadowed, together>>
  BY RenameKeeps DEF IInv2, Rename
<1>2. CASE together
  BY <1>1, <1>2 DEF IInv2, Lone, UidsUnique
<1>3. CASE ~together
  <2>1. /\ Running(p) /\ proc[p].step = "write" /\ Ready(p)
        /\ u \in Users /\ proc[p].pw \in Words
        /\ proc[p].cmd \in {"adduser", "passwd", "deluser"}
        /\ file["passwd"] \in Content("passwd") /\ file["shadow"] \in Content("shadow")
        /\ file'[FileOf(p)] = Apply(p, file[FileOf(p)])
        /\ \A g \in Files \ {FileOf(p)} : file'[g] = file[g]
        /\ Return(p, FALSE, file[FileOf(p)][u] # NoEntry)
    BY <1>3, LoneRename
  <2>2. Rests(p)
    BY <1>1, <2>1, ReturnRests
  <2>3. file["passwd"] \in [Users -> Entry("passwd") \cup {NoEntry}]
    BY <2>1 DEF Content
  <2>4. UidsUnique'
    <3>1. CASE file'["passwd"] = file["passwd"]
      BY <3>1, <1>1 DEF IInv2, UidsUnique
    <3>2. CASE file'["passwd"] # file["passwd"]
      <4>1. FileOf(p) = "passwd" /\ file'["passwd"] = Apply(p, file["passwd"])
        BY <2>1, <3>2 DEF Files
      <4>2. CASE proc[p].cmd = "adduser"
        <5>1. Chosen(p) /\ ~InUse("passwd", proc[p].id)
          BY <2>1, <4>1, <4>2, <1>1, ProcType DEF FileOf, Chosen, Ready, Sane, Running
        <5>2. file'["passwd"] = [file["passwd"] EXCEPT ![u] = [id |-> proc[p].id, pw |-> "x"]]
          BY <4>1, <4>2 DEF Apply, NewEntry
        <5> QED BY <1>1, <1>3, <2>1, <2>3, <5>1, <5>2 DEF IInv2, UidsUnique, InUse
      <4>3. CASE proc[p].cmd = "passwd"
        <5>1. \A v \in Users : file'["passwd"][v] # NoEntry =>
                file["passwd"][v] # NoEntry /\ file'["passwd"][v].id = file["passwd"][v].id
          BY <2>1, <4>1, <4>3, PasswdApplied
        <5> QED BY <1>1, <1>3, <5>1 DEF IInv2, UidsUnique
      <4>4. CASE proc[p].cmd = "deluser"
        <5>1. file'["passwd"] = [file["passwd"] EXCEPT ![u] = NoEntry]
          BY <3>2, <4>1, <4>4 DEF Apply
        <5> QED BY <1>1, <1>3, <2>1, <2>3, <5>1 DEF IInv2, UidsUnique
      <4> QED BY <2>1, <4>2, <4>3, <4>4
    <3> QED BY <3>1, <3>2
  <2>5. ASSUME Running(p)' PROVE Ready(p)'
    <3>1. ASSUME proc[p].cmd = "passwd"
          PROVE  /\ file'["passwd"][u] # NoEntry
                 /\ proc[p].call = 1 /\ file[FileOf(p)][u] # NoEntry
                      => InShadow(file', u, proc[p].secret)
      <4>1. Asked(p) /\ file["passwd"][u] # NoEntry /\ proc[p].call \in {1, 2}
        BY <1>1, <2>1, <3>1, ProcType DEF Asked, Ready, Sane, Running
      <4>2. CASE proc[p].call = 1
        <5>1. FileOf(p) = "shadow" /\ file'["shadow"] = Apply(p, file["shadow"])
                /\ file'["passwd"] = file["passwd"] /\ proc[p].pw = proc[p].secret
          BY <2>1, <3>1, <4>1, <4>2 DEF FileOf, Files, Ready
        <5> QED BY <2>1, <3>1, <4>1, <4>2, <5>1, PasswdApplied DEF InShadow
      <4>3. CASE proc[p].call = 2
        <5>1. file'["passwd"] = Apply(p, file["passwd"])
          BY <2>1, <3>1, <4>3 DEF FileOf
        <5> QED BY <2>1, <3>1, <4>1, <4>3, <5>1, PasswdApplied
      <4> QED BY <4>1, <4>2, <4>3
    <3>2. (file[FileOf(p)][u] # NoEntry) \in BOOLEAN
      OBVIOUS
    <3> QED BY <1>1, <2>1, <2>5, <3>1, <3>2, ReturnReady
  <2>6. Lone'
    BY <1>1, <2>1, <2>2, <2>5, LoneStep DEF Rests
  <2> QED BY <1>1, <2>4, <2>6 DEF IInv2
<1> QED BY <1>2, <1>3

LEMMA InitLone == Init => IInv2
<1> SUFFICES ASSUME Init PROVE IInv2
  OBVIOUS
<1>1. IInv
  BY InitHolds
<1>2. Lone
  BY DEF Init, Lone, Running, Idle
<1>3. UidsUnique
  <2>1. CASE file = [f \in Files |-> NoLines]
    BY <2>1 DEF UidsUnique, NoLines, Files
  <2>2. ASSUME NEW w \in Users, NEW e, file["passwd"] = Lines(w, e)
        PROVE  UidsUnique
    BY <2>2 DEF UidsUnique, Lines
  <2> QED BY <2>1, <2>2 DEF Init, Files
<1> QED BY <1>1, <1>2, <1>3 DEF IInv2

(* The ids stay different, and what passwd and adduser know stays true.    *)
THEOREM LoneInvariant == Spec => []IInv2
<1>1. ASSUME IInv2, [Next]_vars PROVE IInv2'
  <2>1. ASSUME NEW p \in Processes, NEW cmd \in Commands \ {"none"}, NEW u \in Users,
               Start(p, cmd, u)
        PROVE  IInv2'
    BY <1>1, <2>1, StartLone
  <2>2. ASSUME NEW p \in Processes, Work(p) PROVE IInv2'
    BY <1>1, <2>2, LookLone, OpenLone, CreateLone, LinkLone, RenameLone, WriteFailsLone DEF Work
  <2>3. ASSUME NEW p \in Processes, Kill(p) PROVE IInv2'
    BY <1>1, <2>3, KillLone
  <2>4. CASE UNCHANGED vars
    <3>1. IInv'
      BY <1>1, <2>4, StepHolds DEF IInv2
    <3> QED BY <1>1, <2>4, <3>1
            DEF vars, IInv2, Lone, UidsUnique, Running, Ready, Chosen, Asked, InUse, InShadow
  <2> QED BY <1>1, <2>1, <2>2, <2>3, <2>4 DEF Next
<1> QED BY <1>1, InitLone, PTL DEF Spec

(* No two users have the same id, if no two commands overlap, whichever of *)
(* them are killed or fail.                                                *)
THEOREM UidsStayUnique == Spec => []UidsUnique
<1>1. IInv2 => UidsUnique
  BY DEF IInv2
<1> QED BY <1>1, LoneInvariant, PTL

(* What login accepts when a lone passwd has written a file.               *)
LEMMA PasswdRename ==
  ASSUME IInv2, NEW p \in Processes, Rename(p), ~together, proc[p].cmd = "passwd"
  PROVE  /\ proc[p].call = 2 => Accepted(file', proc[p].user) = proc[p].secret
         /\ \A v \in Users : Accepted(file, v) \in Secrets => Accepted(file', v) \in Secrets
<1> DEFINE u == proc[p].user
<1>1. /\ Running(p) /\ proc[p].step = "write" /\ Ready(p)
      /\ u \in Users /\ proc[p].pw \in Words
      /\ file["passwd"] \in Content("passwd") /\ file["shadow"] \in Content("shadow")
      /\ file'[FileOf(p)] = Apply(p, file[FileOf(p)])
      /\ \A g \in Files \ {FileOf(p)} : file'[g] = file[g]
  BY LoneRename
<1>2. /\ Asked(p) /\ file["passwd"][u] # NoEntry /\ proc[p].call \in {1, 2}
      /\ proc[p].secret \in Secrets /\ "x" \notin Secrets
  BY <1>1, ProcType, AccountsConstants DEF IInv2, Asked, Ready, Sane, Running
<1>3. CASE proc[p].call = 1
  <2>1. /\ file'["shadow"] = Apply(p, file["shadow"]) /\ file'["passwd"] = file["passwd"]
        /\ proc[p].pw = proc[p].secret
    BY <1>1, <1>2, <1>3 DEF FileOf, Files, Ready
  <2>2. /\ \A v \in Users : file'["shadow"][v] = NoEntry <=> file["shadow"][v] = NoEntry
        /\ \A v \in Users \ {u} : file'["shadow"][v] = file["shadow"][v]
        /\ file["shadow"][u] # NoEntry => file'["shadow"][u].pw = proc[p].secret
    BY <1>1, <2>1, PasswdApplied
  <2> QED BY <1>2, <1>3, <2>1, <2>2 DEF Accepted
<1>4. CASE proc[p].call = 2
  <2>1. file'["passwd"] = Apply(p, file["passwd"]) /\ file'["shadow"] = file["shadow"]
    BY <1>1, <1>4 DEF FileOf, Files
  <2>2. /\ file'["passwd"][u] # NoEntry /\ file'["passwd"][u].pw = proc[p].pw
        /\ \A v \in Users \ {u} : file'["passwd"][v] = file["passwd"][v]
    BY <1>1, <1>2, <2>1, PasswdApplied
  <2>3. Accepted(file', u) = proc[p].secret
    BY <1>1, <1>2, <1>4, <2>1, <2>2 DEF Accepted, Ready, InShadow
  <2> QED BY <1>2, <2>1, <2>2, <2>3 DEF Accepted
<1> QED BY <1>2, <1>3, <1>4

(* When passwd reports success, the new password is the one accepted.      *)
THEOREM PasswdTakesEffect == Spec => PasswdWorks
<1>1. IInv2 /\ [Next]_vars =>
        [\A p \in Processes : At(p, "passwd", 2, "write") /\ Rename(p) /\ ~together =>
           Accepted(file', proc[p].user) = proc[p].secret]_vars
  BY PasswdRename DEF At
<1> QED BY <1>1, LoneInvariant, PTL DEF Spec, PasswdWorks

(* No step of passwd, and none of a command for another user, takes the    *)
(* password from a user, whichever commands are killed or fail.            *)
THEOREM NobodyLockedOut == Spec => NeverLockedOut
<1>1. ASSUME IInv2, Next, NEW u \in Users, Accepted(file, u) \in Secrets, ~together,
             ~ \E p \in Processes : Remakes(p, u)
      PROVE  Accepted(file', u) \in Secrets
  <2>1. CASE file' = file
    BY <1>1, <2>1
  <2>2. CASE file' # file
    <3>1. PICK p \in Processes : Rename(p)
      BY <1>1, <2>2
         DEF Next, Start, Work, Look, Open, Create, Link, LinkFails, WriteFails, Unreplaced, Kill
    <3>2. CASE proc[p].cmd = "passwd"
      BY <1>1, <3>1, <3>2, PasswdRename
    <3>3. CASE proc[p].cmd # "passwd"
      <4>1. /\ Running(p) /\ proc[p].cmd \in {"adduser", "deluser"}
            /\ file["passwd"] \in Content("passwd") /\ file["shadow"] \in Content("shadow")
            /\ file'[FileOf(p)] = Apply(p, file[FileOf(p)])
            /\ \A g \in Files \ {FileOf(p)} : file'[g] = file[g]
        BY <1>1, <3>1, <3>3, LoneRename
      <4>2. proc[p].user # u
        BY <1>1, <4>1 DEF Remakes
      <4>3. \A c : Apply(p, c) = c \/ \E e : Apply(p, c) = [c EXCEPT ![proc[p].user] = e]
        BY <4>1 DEF Apply
      <4>4. \A f \in {"passwd", "shadow"} : file'[f][u] = file[f][u]
        <5> SUFFICES ASSUME NEW f \in {"passwd", "shadow"} PROVE file'[f][u] = file[f][u]
          OBVIOUS
        <5>1. file[f] = [v \in Users |-> file[f][v]]
          BY <4>1 DEF Content
        <5>2. CASE FileOf(p) = f
          BY <4>1, <4>2, <4>3, <5>1, <5>2
        <5>3. CASE FileOf(p) # f
          BY <4>1, <5>3 DEF Files
        <5> QED BY <5>2, <5>3
      <4> QED BY <1>1, <4>4 DEF Accepted
    <3> QED BY <3>2, <3>3
  <2> QED BY <2>1, <2>2
<1>2. IInv2 /\ [Next]_vars =>
        [\A u \in Users : Accepted(file, u) \in Secrets /\ ~together =>
           Accepted(file', u) \in Secrets \/ \E p \in Processes : Remakes(p, u)]_vars
  BY <1>1
<1> QED BY <1>2, LoneInvariant, PTL DEF Spec, NeverLockedOut
=============================================================================
