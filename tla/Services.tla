------------------------------ MODULE Services ------------------------------
(***************************************************************************)
(* A service under runsv, the programs that run in it, and the users who   *)
(* give commands with sv.                                                  *)
(***************************************************************************)
EXTENDS Runsv

VARIABLES
  asked,  \* the last of up, down, once and exit that sv was called with
  hasty,  \* some command was given while an earlier one was not yet obeyed
  forgot  \* the ./finish that ran when a "kill" made runsv count them as down

vars == <<rvars, asked, hasty, forgot>>

(* What sv is called with: a letter, or three of them for "restart"; fewer  *)
(* for the log service, where they do the same.                            *)
Acts(s) == IF s = "main" THEN {<<c>> : c \in Letters} \cup {<<"t", "c", "u">>}
           ELSE {<<"u">>, <<"d">>, <<"k">>}

Init ==
  /\ dir \in [finish : BOOLEAN, log : BOOLEAN]
  /\ svd \in [Services -> {v \in Svdir : v.pid = 0 /\ v.state = "down" /\ v.want # "exit"
                                           /\ ~v.term /\ ~v.paused}]
  /\ dir.log \/ svd["log"].want = "up"
  /\ status = [s \in Services |-> Shown(svd[s])]
  /\ child = [p \in Pids |-> NoProcess]
  /\ fifo = [s \in Services |-> <<>>]
  /\ letter = "none" /\ wstat = "none"
  /\ logpipe = dir.log
  /\ wake = FALSE /\ sigterm = FALSE
  /\ pc = "start"
  /\ commands = 0
  /\ asked = IF svd["main"].want = "up" THEN "u" ELSE "d"
  /\ hasty = FALSE /\ forgot = {}

-----------------------------------------------------------------------------
(* sv: the letters are not sent if the status file says that this is what  *)
(* runsv wants already.                                                    *)

Needless(s, a) ==
  CASE a = "u" -> status[s].want = "up"
    [] a = "d" -> status[s].want = "down" /\ status[s].term
    [] OTHER   -> FALSE

Note(s, a) ==
  /\ asked' = IF s = "main" /\ a \in {"u", "d", "o", "x"} THEN a ELSE asked
  /\ hasty' = (hasty \/ fifo[s] # <<>> \/ pc = Obeying(s) \/ sigterm)

control(s, acts) ==
  /\ pc # "exited"
  /\ s = "log" => dir.log
  /\ commands < MaxCommands
  /\ commands' = commands + 1
  /\ fifo' = IF Needless(s, Head(acts)) THEN fifo ELSE [fifo EXCEPT ![s] = @ \o acts]
  /\ Note(s, acts[Len(acts)])
  /\ UNCHANGED <<dir, svd, status, child, letter, wstat, logpipe, wake, sigterm, pc, forgot>>

(* init, or whoever started runsv, sends it SIGTERM.                       *)
TermSignal ==
  /\ pc # "exited"
  /\ commands < MaxCommands
  /\ commands' = commands + 1
  /\ sigterm' = TRUE /\ wake' = TRUE
  /\ Note("main", "x")
  /\ UNCHANGED <<dir, svd, status, child, fifo, letter, wstat, logpipe, pc, forgot>>

-----------------------------------------------------------------------------
(* The programs: they may end at any time, unless stopped.                 *)

Exits(p) ==
  /\ pc # "exited"
  /\ Alive(p)
  /\ child[p].stopped => child[p].sig = "kill"
  /\ child' = [child EXCEPT ![p].dead = TRUE]
  /\ wake' = TRUE
  /\ UNCHANGED <<dir, svd, status, fifo, letter, wstat, logpipe, sigterm, pc, commands,
                 asked, hasty, forgot>>

(* The log service reads the end of its input: nobody can write to it.     *)
LogEof == ~logpipe /\ \A p \in Pids : Alive(p) => child[p].prog \notin {"run", "finish"}

(* A program ends if it was told to; ./finish ends by itself.              *)
MustEnd(p) ==
  \/ child[p].sig # "none"
  \/ child[p].prog \in {"finish", "broken"}
  \/ child[p].prog = "log" /\ LogEof

\* The ./finish that runsv counts as down with this step, and still runs.
KilledFinish == {p \in Pids : /\ pc = "obey" /\ letter = "k"
                              /\ svd["main"].pid = p /\ svd["main"].state = "finish"}

RunsvStep ==
  /\ RunsvNext
  /\ forgot' = {p \in forgot \cup KilledFinish : child'[p].prog # "none"}
  /\ UNCHANGED <<asked, hasty>>

Next ==
  \/ RunsvStep
  \/ \E s \in Services : \E a \in Acts(s) : control(s, a)
  \/ TermSignal
  \/ \E p \in Pids : Exits(p)

Spec == Init /\ [][Next]_vars

(* runsv runs when it can; a program that must end does.                   *)
Fairness == WF_vars(RunsvStep) /\ \A p \in Pids : WF_vars(MustEnd(p) /\ Exits(p))
FairSpec == Spec /\ Fairness

-----------------------------------------------------------------------------
(* Properties.                                                             *)

TypeOK ==
  /\ dir \in [finish : BOOLEAN, log : BOOLEAN]
  /\ svd \in [Services -> Svdir]
  /\ status \in [Services -> {v \in Svdir : v.want # "exit"}]
  /\ child \in [Pids -> Process]
  /\ fifo \in [Services -> Seq(Letters)]
  /\ letter \in Letters \cup {"none"} /\ wstat \in Programs
  /\ logpipe \in BOOLEAN /\ wake \in BOOLEAN /\ sigterm \in BOOLEAN /\ hasty \in BOOLEAN
  /\ pc \in {"start", "poll", "reap", "obey", "log", "obeylog", "term", "exited"}
  /\ commands \in 0 .. MaxCommands
  /\ asked \in Letters /\ forgot \subseteq Pids

(* runsv never signals a number that is not a process of its own: the pid  *)
(* it keeps is that of a child it has not waited for, another one for each *)
(* service, and a service in state "run" has one (kill(0) would signal     *)
(* runsv's whole process group).                                           *)
OwnChild ==
  /\ \A s \in Services : svd[s].pid # 0 => child[svd[s].pid].prog # "none"
  /\ \A s \in Services : svd[s].state = "run" => svd[s].pid # 0
  /\ svd["main"].pid = svd["log"].pid => svd["main"].pid = 0

(* Two processes of the service may live at the same time, after kill and  *)
(* up: but then all but the last have been told to end.                    *)
NeverTwo ==
  \A p, q \in Pids :
    Alive(p) /\ Alive(q) /\ child[p].sig = "none" /\ child[q].sig = "none"
      /\ child[p].prog # "log" /\ child[q].prog # "log"
      /\ child[p].prog # "broken" /\ child[q].prog # "broken" => p = q

(* While runsv waits, the status file says what runsv knows; only that a   *)
(* service counts as down after a kill may not be shown.                   *)
StatusTells ==
  pc = "poll" => \A s \in Services :
    LET told == status[s]  known == Shown(svd[s]) IN
      /\ [told EXCEPT !.state = "down"] = [known EXCEPT !.state = "down"]
      /\ told.state = known.state \/ known.state = "down"

(* When runsv has exited, no program is left that nobody told to end, but  *)
(* one that could not be executed (it ends by itself) and a ./finish that  *)
(* ran when "kill" came: that is counted as down, without a signal, and    *)
(* runsv does not wait for it.  So "If they exit, runsv exits too" in sv's *)
(* usage is true of ./run and of the log service only.                     *)
ExitsClean ==
  pc = "exited" => \A p \in Pids : Alive(p) =>
    child[p].sig # "none" \/ child[p].prog = "broken" \/ p \in forgot

(* There is nothing for runsv to do.                                       *)
Quiet == pc = "poll" /\ ~wake /\ \A s \in Services : fifo[s] = <<>>

Obeys == CASE asked = "u" -> svd["main"].want = "up"
           [] asked = "x" -> svd["main"].want = "exit"
           [] asked = "o" -> svd["main"].want = "down"
           [] asked = "d" -> svd["main"].want # "up"

(* sv may look at an old status file: but if every command is given when   *)
(* the one before has been carried out, runsv comes to want what was asked *)
(* last (down is not sent after exit, which stops the service as well).    *)
(* That the one before has been read is not enough: the status file is     *)
(* written after that.                                                     *)
Obeyed == Quiet /\ ~hasty => Obeys

Paused == \E p \in Pids : child[p].stopped

(* If exit is wanted and stays so, runsv exits: it misses no SIGCHLD.      *)
ExitHappens == <>[](svd["main"].want = "exit" /\ ~Paused) => <>(pc = "exited")

(* If up is wanted and stays so, ./run is started again whenever it ends,  *)
(* as long as runsv has not closed the pipe to the log service.            *)
UpRuns ==
  <>[](svd["main"].want = "up" /\ logpipe = dir.log /\ ~Paused)
    => []<>(\E p \in Pids : Alive(p) /\ child[p].prog = "run")

(* If down is wanted and stays so, the service is down in the end, once it *)
(* has got its TERM.                                                       *)
DownStays ==
  <>[](svd["main"].want = "down" /\ asked = "d" /\ ~Paused)
    => <>[](svd["main"].pid = 0)
=============================================================================
