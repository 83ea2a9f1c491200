------------------------------- MODULE Runsv -------------------------------
(***************************************************************************)
(* runsv of BusyBox: it starts a service (svd[0], "main") and the log      *)
(* service that may belong to it (svd[1], "log"), starts them again when   *)
(* they end, and obeys the letters that arrive in their control FIFOs.     *)
(*                                                                         *)
(* There are no control/? scripts, so custom() returns 0, and signals      *)
(* other than TERM, KILL, STOP and CONT do nothing here that a program     *)
(* could not do by itself: letters a, h, i, q, 1 and 2 are left out.       *)
(* A vfork that fails is tried again until there is a free process.        *)
(***************************************************************************)
EXTENDS Naturals, Sequences

CONSTANTS
  Pids,       \* process numbers; 0, for none, is not one of them
  MaxCommands \* bound on the commands and signals sent to runsv

ASSUME RunsvAssumption == 0 \notin Pids /\ MaxCommands \in Nat

Services == {"main", "log"}
Letters == {"u", "d", "o", "x", "t", "k", "p", "c"}

VARIABLES
  dir,      \* what there is in the service directory
  svd,      \* svd[], what runsv knows of each service
  status,   \* supervise/status and log/supervise/status
  child,    \* the processes runsv has started, until it waits for them
  fifo,     \* the control FIFOs
  letter,   \* what runsv has read from one of them and not yet obeyed
  wstat,    \* svd[0].wstat, as the program whose exit status it is
  logpipe,  \* runsv holds both ends of the pipe to the log service
  wake,     \* SIGCHLD or SIGTERM has come since the self-pipe was drained
  sigterm,  \* SIGTERM has come
  pc,       \* where the main loop is
  commands  \* commands and signals sent so far

rvars == <<dir, svd, status, child, fifo, letter, wstat, logpipe, wake, sigterm, pc,
           commands>>

Programs == {"none", "run", "finish", "log", "broken"}
Process == [prog : Programs, sig : {"none", "term", "kill"}, stopped : BOOLEAN,
            dead : BOOLEAN, arg : Programs]
NoProcess == [prog |-> "none", sig |-> "none", stopped |-> FALSE, dead |-> FALSE,
              arg |-> "none"]

Svdir == [pid : Pids \cup {0}, state : {"down", "run", "finish"},
          want : {"up", "down", "exit"}, term : BOOLEAN, paused : BOOLEAN]

Free == {p \in Pids : child[p].prog = "none"}
Alive(p) == child[p].prog # "none" /\ ~child[p].dead

-----------------------------------------------------------------------------
(* The functions of runsv.c, as functions on what they change.             *)

World == [svd |-> svd, status |-> status, child |-> child]
Become(w) == svd' = w.svd /\ status' = w.status /\ child' = w.child

\* mutation: the status file tells exit from down
ShownExit(v) == v
(* The status file has no letter for "exit": sv sees 'd'.                  *)
Shown(v) == [v EXCEPT !.want = IF @ = "up" THEN "up" ELSE "down"]
Update(w, s) == [w EXCEPT !.status[s] = Shown(w.svd[s])]

Kill(w, p, sig) ==
  IF p \notin Pids \/ w.child[p].dead THEN w
  ELSE CASE sig = "term" -> [w EXCEPT !.child[p].sig = IF @ = "kill" THEN @ ELSE "term"]
         [] sig = "kill" -> [w EXCEPT !.child[p].sig = "kill"]
         [] sig = "stop" -> [w EXCEPT !.child[p].stopped = TRUE]
         [] sig = "cont" -> [w EXCEPT !.child[p].stopped = FALSE]

StopService(w, s) ==
  LET p == w.svd[s].pid
      v == IF p # 0 THEN Update([Kill(w, p, "term") EXCEPT !.svd[s].term = TRUE], s) ELSE w
  IN IF v.svd[s].want = "up" THEN v ELSE Kill(v, p, "cont")

\* mutation: the branch that "should never happen" is left out
ForgetOld(w, s) == w
StopOld(w, s) == IF w.svd[s].pid # 0 THEN StopService(w, s) ELSE w

(* A program that cannot connect to the pipe (runsv has closed it) ends at *)
(* once with an error: it never becomes ./run.                             *)
StartService(w, s) ==
  LET prog == CASE w.svd[s].state = "finish" -> "finish"
                [] s = "log"                 -> "log"
                [] OTHER                     -> "run"
      p == CHOOSE q \in Pids : w.child[q].prog = "none"
      v == StopOld(w, s)
      new == [NoProcess EXCEPT !.prog = IF dir.log /\ ~logpipe THEN "broken" ELSE prog,
                               !.arg = IF prog = "finish" THEN wstat ELSE "none"]
  IN Update([v EXCEPT !.child[p] = new,
                      !.svd[s] = [@ EXCEPT !.pid = p, !.term = FALSE, !.paused = FALSE,
                                           !.state = IF prog = "finish" THEN prog ELSE "run"]], s)

\* mutation: the status file is not brought up to date
WantUntold(w, s, x) == [w EXCEPT !.svd[s].want = x]
Want(w, s, x) == Update([w EXCEPT !.svd[s].want = x], s)
StopIfRun(w, s) == IF w.svd[s].state = "run" THEN StopService(w, s) ELSE w
StartIfDown(w, s) == IF w.svd[s].state = "down" THEN StartService(w, s) ELSE w
KillIfRun(w, s, sig) == IF w.svd[s].state = "run" THEN Kill(w, w.svd[s].pid, sig) ELSE w

ctrl(w, s, c) ==
  CASE c = "d" -> StopIfRun(Want(w, s, "down"), s)
    [] c = "u" -> StartIfDown(Want(w, s, "up"), s)
    [] c = "o" -> StartIfDown(Want(w, s, "down"), s)
    [] c = "x" -> IF s = "log" THEN w ELSE StopIfRun(Want(w, s, "exit"), s)
    [] c = "t" -> StopIfRun(w, s)
    [] c = "k" -> [KillIfRun(w, s, "kill") EXCEPT !.svd[s].state = "down"]
    [] c = "p" -> Update([KillIfRun(w, s, "stop") EXCEPT !.svd[s].paused = TRUE], s)
    [] c = "c" -> Update([KillIfRun(w, s, "cont") EXCEPT !.svd[s].paused = FALSE], s)

-----------------------------------------------------------------------------
(* The main loop.                                                          *)

\* mutation: a service that is wanted down is started again
DueUnlessExit == {s \in Services :
          svd[s].pid = 0 /\ (s = "log" => dir.log) /\ svd[s].want # "exit"}
Due == {s \in Services :
          /\ svd[s].pid = 0
          /\ IF s = "log" THEN dir.log /\ svd[s].want = "up"
             ELSE svd[s].want = "up" \/ svd[s].state = "finish"}

StartDue ==
  LET v == IF "log" \in Due THEN StartService(World, "log") ELSE World
      w == IF "main" \in Due THEN StartService(v, "main") ELSE v
  IN /\ pc = "start"
     /\ Due # {} => Free # {}
     /\ Due = Services => \E p, q \in Free : p # q
     /\ Become(w)
     /\ pc' = "poll"
     /\ UNCHANGED <<dir, fifo, letter, wstat, logpipe, wake, sigterm, commands>>

(* The signals are unblocked over poll(); nothing comes by itself.         *)
Poll ==
  /\ pc = "poll"
  /\ wake \/ \E s \in Services : fifo[s] # <<>>
  /\ wake' = FALSE
  /\ pc' = "reap"
  /\ UNCHANGED <<dir, svd, status, child, fifo, letter, wstat, logpipe, sigterm, commands>>

\* mutation: ./finish is started after ./finish as well
EndedAgain(w, s) ==
  Update([w EXCEPT !.svd[s] = [@ EXCEPT !.pid = 0, !.term = FALSE,
                     !.state = IF s = "main" /\ dir.finish THEN "finish" ELSE "down"]], s)
\* mutation: the pid of a process that has ended is kept
EndedKeepsPid(w, s) == Update([w EXCEPT !.svd[s].state = "down", !.svd[s].term = FALSE], s)
\* mutation: the status file is left as it was
EndedUntold(w, s) == [w EXCEPT !.svd[s] = [@ EXCEPT !.pid = 0, !.term = FALSE, !.state = "down"]]
(* What runsv notes when the process of service s has ended.               *)
Ended(w, s) ==
  LET finishes == s = "main" /\ w.svd[s].state # "finish" /\ dir.finish
  IN Update([w EXCEPT !.svd[s] = [@ EXCEPT !.pid = 0, !.term = FALSE,
                                   !.state = IF finishes THEN "finish" ELSE "down"]], s)

(* One round of wait_any_nohang, which may as well bring a process that    *)
(* runsv has forgotten.  The status of the log service goes into svd[0].   *)
Reap(p) ==
  LET waited == [World EXCEPT !.child[p] = NoProcess]
  IN /\ pc = "reap"
     /\ child[p].dead
     /\ \/ \E s \in Services : /\ svd[s].pid = p
                               /\ Become(Ended(waited, s))
                               /\ wstat' = child[p].prog
        \/ /\ \A s \in Services : svd[s].pid # p
           /\ Become(waited)
           /\ UNCHANGED wstat
     /\ UNCHANGED <<dir, fifo, letter, logpipe, wake, sigterm, pc, commands>>

(* The place in the loop where a letter of s is obeyed, and the next one.  *)
Obeying(s) == IF s = "main" THEN "obey" ELSE "obeylog"
After(s) == IF s = "main" /\ dir.log THEN "log" ELSE "term"

(* When nobody is left to wait for: one letter of a FIFO, if there is one. *)
Control(s) ==
  /\ pc = IF s = "main" THEN "reap" ELSE "log"
  /\ s = "main" => \A p \in Pids : ~child[p].dead
  /\ IF fifo[s] # <<>>
     THEN /\ letter' = Head(fifo[s])
          /\ fifo' = [fifo EXCEPT ![s] = Tail(@)]
          /\ pc' = Obeying(s)
     ELSE pc' = After(s) /\ UNCHANGED <<letter, fifo>>
  /\ UNCHANGED <<dir, svd, status, child, wstat, logpipe, wake, sigterm, commands>>

(* It is obeyed a moment later: until then the status file is the old one. *)
Obey(s) ==
  /\ pc = Obeying(s)
  /\ letter \in {"u", "o"} => Free # {}
  /\ Become(ctrl(World, s, letter))
  /\ letter' = "none"
  /\ pc' = After(s)
  /\ UNCHANGED <<dir, fifo, wstat, logpipe, wake, sigterm, commands>>

Over(w) == w.svd["main"].want = "exit" /\ w.svd["main"].state = "down"
\* mutation: runsv does not wait for the log service
LogIgnored(w) == TRUE
LogDown(w) == w.svd["log"].pid = 0
\* mutation: the log service is not told to end
NobodyToTell(w) == FALSE
LogToTell(w) == ~LogDown(w) /\ w.svd["log"].want # "exit"

(* The end of the loop: SIGTERM is an 'x'; exit if that is wanted and the  *)
(* service is down, once the log service has ended as well.                *)
Term ==
  LET w == IF sigterm THEN ctrl(World, "main", "x") ELSE World
  IN /\ pc = "term"
     /\ sigterm' = FALSE
     /\ IF Over(w) /\ LogToTell(w)
        THEN Become(Want(w, "log", "exit")) /\ logpipe' = FALSE
        ELSE Become(w) /\ UNCHANGED logpipe
     /\ pc' = IF Over(w) /\ LogDown(w) THEN "exited" ELSE "start"
     /\ UNCHANGED <<dir, fifo, letter, wstat, wake, commands>>

RunsvNext ==
  StartDue \/ Poll \/ (\E p \in Pids : Reap(p))
    \/ (\E s \in Services : Control(s) \/ Obey(s)) \/ Term
=============================================================================
