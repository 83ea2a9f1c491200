--------------------------- MODULE ServicesProofs ---------------------------
(***************************************************************************)
(* What runsv knows is true, whichever commands and signals it gets and    *)
(* whenever its programs end: proofs for any number of processes and       *)
(* commands.                                                               *)
(***************************************************************************)
EXTENDS Services, TLAPS

(* The state that the functions of runsv.c change, and how it is sound:    *)
(* OwnChild; a program that nobody told to end is the one whose pid is     *)
(* kept; ./finish runs in state "finish"; a service that counts as down    *)
(* while it has a process has been killed, or that process is a ./finish   *)
(* in F.                                                                   *)
TheShown == {v \in Svdir : v.want # "exit"}
Worlds == [svd : [Services -> Svdir], status : [Services -> TheShown], child : [Pids -> Process]]

Untold(w, p) == ~w.child[p].dead /\ w.child[p].sig = "none"

Owned(w) ==
  /\ \A s \in Services : w.svd[s].pid # 0 => w.child[w.svd[s].pid].prog # "none"
  /\ \A s \in Services : w.svd[s].state = "run" => w.svd[s].pid # 0
  /\ w.svd["main"].pid = w.svd["log"].pid => w.svd["main"].pid = 0
Known(w) ==
  \A p \in Pids : Untold(w, p) =>
    /\ w.child[p].prog \in {"run", "finish"} => w.svd["main"].pid = p
    /\ w.child[p].prog = "log" => w.svd["log"].pid = p
Finishing(w, F) ==
  /\ w.svd["log"].state # "finish"
  /\ LET v == w.svd["main"] IN
       /\ v.pid # 0 /\ v.state = "finish" => w.child[v.pid].prog \in {"finish", "broken"}
       /\ v.pid # 0 /\ v.state = "down" /\ Untold(w, v.pid)
            => w.child[v.pid].prog = "broken" \/ v.pid \in F
Sound(w, F) == w \in Worlds /\ Owned(w) /\ Known(w) /\ Finishing(w, F)

(* The status file says what runsv knows, but for a service killed.        *)
Tells(told, known) ==
  /\ [told EXCEPT !.state = "down"] = [known EXCEPT !.state = "down"]
  /\ told.state = known.state \/ known.state = "down"
Told(w) == \A s \in Services : Tells(w.status[s], Shown(w.svd[s]))
Fit(w, F) == Sound(w, F) /\ Told(w)

-----------------------------------------------------------------------------
(* The functions of runsv.c.                                               *)

LEMMA Two == "main" \in Services /\ "log" \in Services /\ \A s \in Services : s \in {"main", "log"}
BY DEF Services

LEMMA ShownType == \A v \in Svdir : Shown(v) \in TheShown
BY DEF Shown, Svdir, TheShown

(* A signal changes neither what is known nor what a process runs.         *)
Signalled(v, w) ==
  /\ v \in Worlds /\ v.svd = w.svd /\ v.status = w.status
  /\ \A q \in Pids : /\ v.child[q].prog = w.child[q].prog
                     /\ Untold(v, q) => Untold(w, q)

(* Nothing else is wanted of a service.                                    *)
SameWants(v, w) == \A t \in Services : v.svd[t].want = w.svd[t].want

Replaced(w, p, c) == [w EXCEPT !.child = [@ EXCEPT ![p] = c]]

LEMMA ChildChanged ==
  ASSUME NEW w \in Worlds, NEW p \in Pids, NEW c \in Process,
         c.prog = w.child[p].prog,
         ~c.dead /\ c.sig = "none" => Untold(w, p)
  PROVE  Signalled(Replaced(w, p, c), w) /\ Replaced(w, p, c).child[p] = c
BY DEF Signalled, Worlds, Untold, Replaced

LEMMA KillEffect ==
  ASSUME NEW w \in Worlds, NEW p \in Pids \cup {0}, NEW sig \in {"term", "kill", "stop", "cont"}
  PROVE  /\ Signalled(Kill(w, p, sig), w)
         /\ p \in Pids /\ sig \in {"term", "kill"} => ~Untold(Kill(w, p, sig), p)
<1>1. CASE p \notin Pids \/ w.child[p].dead
  BY <1>1 DEF Kill, Signalled, Worlds, Untold
<1>2. CASE p \in Pids /\ ~w.child[p].dead
  <2>1. CASE sig = "term"
    <3> DEFINE x == IF w.child[p].sig = "kill" THEN w.child[p].sig ELSE "term"
               c == [w.child[p] EXCEPT !.sig = x]
    <3>1. Kill(w, p, sig) = Replaced(w, p, c)
      BY <1>2, <2>1 DEF Kill, Replaced
    <3>2. x \in {"term", "kill"}
      OBVIOUS
    <3>3. w.child[p] \in Process
      BY <1>2 DEF Worlds
    <3> HIDE DEF x
    <3>4. c \in Process /\ c.prog = w.child[p].prog /\ c.sig # "none"
      BY <3>2, <3>3 DEF Process
    <3> HIDE DEF c
    <3>5. Signalled(Kill(w, p, sig), w) /\ Kill(w, p, sig).child[p] = c
      <4>1. p \in Pids /\ c \in Process /\ c.prog = w.child[p].prog
        BY <1>2, <3>4
      <4>2. ~c.dead /\ c.sig = "none" => Untold(w, p)
        BY <3>4
      <4> QED BY <3>1, <4>1, <4>2, ChildChanged
    <3> QED BY <3>4, <3>5 DEF Untold
  <2>2. CASE sig = "kill"
    BY <1>2, <2>2 DEF Kill, Signalled, Worlds, Untold, Process
  <2>3. CASE sig = "stop"
    BY <1>2, <2>3 DEF Kill, Signalled, Worlds, Untold, Process
  <2>4. CASE sig = "cont"
    BY <1>2, <2>4 DEF Kill, Signalled, Worlds, Untold, Process
  <2> QED BY <2>1, <2>2, <2>3, <2>4
<1> QED BY <1>1, <1>2

LEMMA SignalFits ==
  ASSUME NEW F, NEW w, NEW v, Fit(w, F), Signalled(v, w)
  PROVE  Fit(v, F)
<1>1. /\ v \in Worlds /\ v.svd = w.svd /\ v.status = w.status
      /\ \A q \in Pids : /\ v.child[q].prog = w.child[q].prog
                         /\ Untold(v, q) => Untold(w, q)
  BY DEF Signalled
<1>2. \A s \in Services : w.svd[s].pid \in Pids \cup {0}
  BY DEF Fit, Sound, Worlds, Svdir
<1>3. Owned(v)
  BY <1>1, <1>2, Two DEF Fit, Sound, Owned
<1>4. Known(v)
  BY <1>1, <1>2, Two DEF Fit, Sound, Known
<1>5. Finishing(v, F)
  BY <1>1, <1>2, Two DEF Fit, Sound, Finishing
<1>6. Told(v)
  BY <1>1 DEF Fit, Told
<1> QED BY <1>1, <1>3, <1>4, <1>5, <1>6 DEF Fit, Sound

LEMMA KillFits ==
  ASSUME NEW F, NEW w, Fit(w, F), NEW p \in Pids \cup {0}, NEW sig \in {"term", "kill", "stop", "cont"}
  PROVE  Fit(Kill(w, p, sig), F)
<1>1. w \in Worlds
  BY DEF Fit, Sound
<1>2. Signalled(Kill(w, p, sig), w)
  BY <1>1, KillEffect
<1> QED BY <1>2, SignalFits
(* A service gets new flags, and the status file is brought up to date.    *)
Noted(w, s, x) == Update([w EXCEPT !.svd = [@ EXCEPT ![s] = x]], s)

LEMMA TellsItself == \A x : Tells(Shown(x), Shown(x))
BY DEF Tells

(* What that does to w, if it is u afterwards.                             *)
Notes(u, w, s, x) ==
  /\ u \in Worlds /\ u.child = w.child
  /\ u.svd = [w.svd EXCEPT ![s] = x]
  /\ u.status = [w.status EXCEPT ![s] = Shown(x)]

LEMMA NotedEffect ==
  ASSUME NEW w \in Worlds, NEW s \in Services, NEW x \in Svdir
  PROVE  Notes(Noted(w, s, x), w, s, x)
<1>1. Shown(x) \in TheShown
  BY ShownType
<1> DEFINE u == [w EXCEPT !.svd = [@ EXCEPT ![s] = x]]
<1>2. u \in Worlds /\ u.svd[s] = x /\ u.svd = [w.svd EXCEPT ![s] = x]
        /\ u.child = w.child /\ u.status = w.status
  BY DEF Worlds
<1>3. Noted(w, s, x) = [u EXCEPT !.status = [@ EXCEPT ![s] = Shown(u.svd[s])]]
  BY DEF Noted, Update
<1> HIDE DEF u
<1> QED BY <1>1, <1>2, <1>3 DEF Worlds, Notes

LEMMA NotedTells ==
  ASSUME NEW w \in Worlds, NEW s \in Services, NEW x \in Svdir,
         \A t \in Services \ {s} : Tells(w.status[t], Shown(w.svd[t]))
  PROVE  Told(Noted(w, s, x))
<1> SUFFICES ASSUME NEW t \in Services
             PROVE  Tells(Noted(w, s, x).status[t], Shown(Noted(w, s, x).svd[t]))
  BY DEF Told
<1>1. /\ Noted(w, s, x).svd = [w.svd EXCEPT ![s] = x]
      /\ Noted(w, s, x).status = [w.status EXCEPT ![s] = Shown(x)]
  BY NotedEffect DEF Notes
<1>2. t \in DOMAIN w.svd /\ t \in DOMAIN w.status
  BY DEF Worlds
<1>3. CASE t = s
  BY <1>1, <1>2, <1>3, TellsItself
<1>4. CASE t # s
  BY <1>1, <1>2, <1>4
<1> QED BY <1>3, <1>4

LEMMA NotedFits ==
  ASSUME NEW F, NEW w, Fit(w, F), NEW s \in Services, NEW x \in Svdir,
         x.pid = w.svd[s].pid, x.state = w.svd[s].state
  PROVE  Fit(Noted(w, s, x), F)
<1> DEFINE v == Noted(w, s, x)
<1>1. w \in Worlds /\ Owned(w) /\ Known(w) /\ Finishing(w, F) /\ Told(w)
  BY DEF Fit, Sound
<1>2. v \in Worlds /\ v.child = w.child /\ v.svd = [w.svd EXCEPT ![s] = x]
  <2>1. Notes(v, w, s, x)
    BY <1>1, NotedEffect
  <2> QED BY <2>1 DEF Notes
<1>3. Told(v)
  BY <1>1, NotedTells DEF Told
<1> HIDE DEF v
<1>4. \A t \in Services : v.svd[t].pid = w.svd[t].pid /\ v.svd[t].state = w.svd[t].state
  BY <1>1, <1>2 DEF Worlds
<1>5. Owned(v)
  BY <1>1, <1>2, <1>4, Two DEF Owned
<1>6. Known(v)
  BY <1>1, <1>2, <1>4, Two DEF Known, Untold
<1>7. Finishing(v, F)
  BY <1>1, <1>2, <1>4, Two DEF Finishing, Untold
<1> QED BY <1>2, <1>3, <1>5, <1>6, <1>7 DEF Fit, Sound, v
-----------------------------------------------------------------------------
(* stopservice: the process that has the pid is told to end.               *)
Stopped(v, w, s) ==
  /\ \A p \in Pids : v.child[p].prog = w.child[p].prog
  /\ \A t \in Services : v.svd[t].pid = w.svd[t].pid /\ v.svd[t].state = w.svd[t].state
  /\ SameWants(v, w)
  /\ w.svd[s].pid \in Pids => ~Untold(v, w.svd[s].pid)

LEMMA StopFits ==
  ASSUME NEW F, NEW w, Fit(w, F), NEW s \in Services
  PROVE  Fit(StopService(w, s), F) /\ Stopped(StopService(w, s), w, s)
<1> DEFINE p == w.svd[s].pid
           x == [w.svd[s] EXCEPT !.term = TRUE]
           k == Kill(w, p, "term")
           v == IF p # 0 THEN Noted(k, s, x) ELSE w
<1>1. w \in Worlds /\ w.svd[s] \in Svdir
  BY DEF Fit, Sound, Worlds
<1>2. /\ p \in Pids \cup {0} /\ x \in Svdir /\ x.pid = p /\ x.state = w.svd[s].state
      /\ x.want = w.svd[s].want
  BY <1>1 DEF Svdir
<1>3. Signalled(k, w) /\ Fit(k, F) /\ (p \in Pids => ~Untold(k, p))
  BY <1>1, <1>2, KillEffect, KillFits
<1>4. k \in Worlds /\ k.svd = w.svd /\ \A q \in Pids : k.child[q].prog = w.child[q].prog
  BY <1>3 DEF Signalled
<1>5. StopService(w, s) = IF v.svd[s].want = "up" THEN v ELSE Kill(v, p, "cont")
  <2>1. [Kill(w, p, "term") EXCEPT !.svd[s].term = TRUE] = [k EXCEPT !.svd = [@ EXCEPT ![s] = x]]
    BY <1>1, <1>4 DEF Worlds
  <2> QED BY <2>1, Zenon DEF StopService, Noted
<1> HIDE DEF k, x
<1>6. Fit(v, F) /\ Stopped(v, w, s)
  <2>1. CASE p = 0
    BY <1>1, <2>1, RunsvAssumption DEF Stopped, SameWants
  <2>2. CASE p # 0
    <3>1. Fit(Noted(k, s, x), F)
      BY <1>2, <1>3, <1>4, NotedFits
    <3>2. Notes(Noted(k, s, x), k, s, x)
      BY <1>2, <1>4, NotedEffect
    <3>3. Stopped(Noted(k, s, x), w, s)
      BY <1>1, <1>2, <1>3, <1>4, <3>2 DEF Notes, Stopped, SameWants, Worlds, Untold
    <3> QED BY <2>2, <3>1, <3>3
  <2> QED BY <2>1, <2>2
<1> HIDE DEF v
<1>7. Fit(Kill(v, p, "cont"), F) /\ Signalled(Kill(v, p, "cont"), v)
  BY <1>2, <1>6, KillFits, KillEffect DEF Fit, Sound
<1>8. Stopped(Kill(v, p, "cont"), w, s)
  BY <1>6, <1>7 DEF Stopped, SameWants, Signalled
<1> QED BY <1>5, <1>6, <1>7, <1>8
-----------------------------------------------------------------------------
(* startservice: the new process is the only one that nobody told to end.  *)

(* What the service directory and the pipe are, for a process to start.    *)
Around == dir \in [finish : BOOLEAN, log : BOOLEAN] /\ wstat \in Programs /\ logpipe \in BOOLEAN

(* What runs in the process that startservice forks for s in state st.     *)
Program(st, s) == IF st = "finish" THEN {"finish", "broken"}
                  ELSE IF s = "log" THEN {"log", "broken"} ELSE {"run", "broken"}

LEMMA StopOldFits ==
  ASSUME NEW F, NEW w, Fit(w, F), NEW s \in Services
  PROVE  Fit(StopOld(w, s), F) /\ Stopped(StopOld(w, s), w, s)
<1>1. w.svd[s].pid # 0 \/ w.svd[s].pid \notin Pids
  BY RunsvAssumption
<1>2. CASE w.svd[s].pid # 0
  BY <1>2, StopFits DEF StopOld
<1>3. CASE w.svd[s].pid = 0
  BY <1>1, <1>3 DEF StopOld, Stopped, SameWants
<1> QED BY <1>2, <1>3

LEMMA ForkEffect ==
  ASSUME NEW v \in Worlds, NEW p \in Pids, NEW new \in Process,
         NEW s \in Services, NEW x \in Svdir
  PROVE  LET r == Replaced(v, p, new)
             u == Noted(r, s, x)
         IN /\ r \in Worlds /\ r.svd = v.svd /\ r.status = v.status
            /\ u \in Worlds /\ u.svd[s] = x /\ u.child[p] = new
            /\ \A t \in Services \ {s} : u.svd[t] = v.svd[t]
            /\ \A q \in Pids \ {p} : u.child[q] = v.child[q]
<1> DEFINE r == Replaced(v, p, new)
<1>1. r \in Worlds /\ r.child = [v.child EXCEPT ![p] = new] /\ r.svd = v.svd
        /\ r.status = v.status
  BY DEF Replaced, Worlds
<1> HIDE DEF r
<1>3. r \in Worlds
  BY <1>1
<1>4. Notes(Noted(r, s, x), r, s, x)
  BY <1>3, NotedEffect
<1> QED BY <1>1, <1>4 DEF r, Worlds, Notes

(* All processes but one run what they ran, and the same is wanted.        *)
SameBut(u, v, p) ==
  /\ \A q \in Pids \ {p} : u.child[q].prog = v.child[q].prog
  /\ SameWants(u, v)

LEMMA ForkFits ==
  ASSUME NEW F, NEW v, Fit(v, F), NEW s \in Services, NEW p \in Pids, v.child[p].prog = "none",
         v.svd[s].pid \in Pids => ~Untold(v, v.svd[s].pid),
         NEW new \in Process, new.prog \in Program(v.svd[s].state, s),
         NEW x \in Svdir, x.pid = p, x.want = v.svd[s].want,
         x.state = IF v.svd[s].state = "finish" THEN "finish" ELSE "run"
  PROVE  Fit(Noted(Replaced(v, p, new), s, x), F) /\ SameBut(Noted(Replaced(v, p, new), s, x), v, p)
<1> DEFINE r == Replaced(v, p, new)
           u == Noted(r, s, x)
<1>1. v \in Worlds /\ Owned(v) /\ Known(v) /\ Finishing(v, F) /\ Told(v)
  BY DEF Fit, Sound
<1>2. /\ r \in Worlds /\ r.svd = v.svd /\ r.status = v.status
      /\ u \in Worlds /\ u.svd[s] = x /\ u.child[p] = new
      /\ \A t \in Services \ {s} : u.svd[t] = v.svd[t]
      /\ \A q \in Pids \ {p} : u.child[q] = v.child[q]
  BY <1>1, ForkEffect
<1>4. Told(u)
  BY <1>1, <1>2, NotedTells DEF Told
<1> HIDE DEF r, u
<1>5. /\ \A t \in Services : v.svd[t].pid \in Pids \cup {0} /\ v.svd[t].pid # p
      /\ p # 0 /\ u.svd[s] = x
      /\ \A t \in Services \ {s} : u.svd[t] = v.svd[t]
      /\ u.child[p] = new
      /\ \A q \in Pids \ {p} : u.child[q] = v.child[q]
  BY <1>1, <1>2, RunsvAssumption DEF Worlds, Owned, Svdir
<1>6. new.prog \in {"run", "finish", "log", "broken"}
  BY DEF Program
<1>7. Owned(u)
  BY <1>1, <1>5, <1>6, Two DEF Owned
<1>8. \A q \in Pids \ {p} : Untold(u, q) => Untold(v, q)
  BY <1>5 DEF Untold
<1>9. v.svd["log"].state # "finish"
  BY <1>1 DEF Finishing
<1>10. Known(u)
  <2> SUFFICES ASSUME NEW q \in Pids, Untold(u, q)
               PROVE  /\ u.child[q].prog \in {"run", "finish"} => u.svd["main"].pid = q
                      /\ u.child[q].prog = "log" => u.svd["log"].pid = q
    BY DEF Known
  <2>1. CASE q = p
    BY <1>5, <1>9, <2>1, Two DEF Program
  <2>2. CASE q # p
    BY <1>1, <1>5, <1>8, <2>2, Two DEF Known
  <2> QED BY <2>1, <2>2
<1>11. Finishing(u, F)
  <2>1. CASE s = "main"
    BY <1>1, <1>5, <2>1, Two DEF Finishing, Program
  <2>2. CASE s = "log"
    <3>1. u.svd["main"] = v.svd["main"] /\ u.svd["log"].state # "finish"
      BY <1>5, <1>9, <2>2, Two
    <3>2. LET q == v.svd["main"].pid IN
            q # 0 => u.child[q] = v.child[q] /\ (Untold(u, q) => Untold(v, q))
      BY <1>5, <1>8, Two
    <3> QED BY <1>1, <3>1, <3>2 DEF Finishing
  <2> QED BY <2>1, <2>2, Two
<1>12. SameBut(u, v, p)
  BY <1>2 DEF SameBut, SameWants
<1> QED BY <1>2, <1>4, <1>7, <1>10, <1>11, <1>12 DEF Fit, Sound, u, r

LEMMA StartFits ==
  ASSUME NEW F, NEW w, Fit(w, F), NEW s \in Services, Around, \E q \in Pids : w.child[q].prog = "none"
  PROVE  /\ Fit(StartService(w, s), F)
         /\ \E p \in Pids : SameBut(StartService(w, s), w, p)
<1> DEFINE prog == CASE w.svd[s].state = "finish" -> "finish"
                     [] s = "log"                 -> "log"
                     [] OTHER                     -> "run"
           p == CHOOSE q \in Pids : w.child[q].prog = "none"
           v == StopOld(w, s)
           new == [NoProcess EXCEPT !.prog = IF dir.log /\ ~logpipe THEN "broken" ELSE prog,
                                    !.arg = IF prog = "finish" THEN wstat ELSE "none"]
           x == [v.svd[s] EXCEPT !.pid = p, !.term = FALSE, !.paused = FALSE,
                                 !.state = IF prog = "finish" THEN prog ELSE "run"]
<1>1. p \in Pids /\ w.child[p].prog = "none"
  OBVIOUS
<1>2. Fit(v, F) /\ Stopped(v, w, s)
  BY StopOldFits
<1>3. StartService(w, s) = Noted(Replaced(v, p, new), s, x)
  <2> DEFINE forked == [v EXCEPT !.child[p] = new,
                                 !.svd[s] = [@ EXCEPT !.pid = p, !.term = FALSE, !.paused = FALSE,
                                                      !.state = IF prog = "finish" THEN prog ELSE "run"]]
  <2>1. StartService(w, s) = Update(forked, s)
    BY Zenon DEF StartService
  <2> HIDE DEF v, p, new
  <2>2. v \in Worlds
    BY <1>2 DEF Fit, Sound
  <2>3. forked = [Replaced(v, p, new) EXCEPT !.svd = [@ EXCEPT ![s] = x]]
    BY <2>2 DEF Worlds, Replaced
  <2> HIDE DEF forked, x
  <2> QED BY <2>1, <2>3, Zenon DEF Noted
<1> HIDE DEF p, v
<1>4. /\ v.child[p].prog = "none" /\ v.svd[s].state = w.svd[s].state
      /\ v.svd[s].pid \in Pids => ~Untold(v, v.svd[s].pid)
  BY <1>1, <1>2 DEF Stopped
<1>5. prog \in {"run", "finish", "log"} /\ (prog = "finish" <=> w.svd[s].state = "finish")
        /\ (prog = "log" => s = "log") /\ (prog = "run" => s # "log")
  <2>1. CASE w.svd[s].state = "finish"
    <3>1. s # "log"
      BY <2>1 DEF Fit, Sound, Finishing
    <3> QED BY <2>1, <3>1
  <2>2. CASE w.svd[s].state # "finish" /\ s = "log"
    BY <2>2
  <2>3. CASE w.svd[s].state # "finish" /\ s # "log"
    BY <2>3
  <2> QED BY <2>1, <2>2, <2>3
<1> HIDE DEF prog
<1>6. new \in Process /\ new.prog \in {"broken", prog}
  BY <1>5 DEF Around, Process, NoProcess, Programs
<1>7. new.prog \in Program(v.svd[s].state, s)
  BY <1>4, <1>5, <1>6 DEF Program
<1>8. v.svd[s] \in Svdir
  BY <1>2 DEF Fit, Sound, Worlds
<1>9. /\ x \in Svdir /\ x.pid = p /\ x.want = v.svd[s].want
      /\ x.state = IF v.svd[s].state = "finish" THEN "finish" ELSE "run"
  BY <1>1, <1>4, <1>5, <1>8 DEF Svdir
<1> HIDE DEF new, x
<1>10. Fit(Noted(Replaced(v, p, new), s, x), F) /\ SameBut(Noted(Replaced(v, p, new), s, x), v, p)
  BY <1>1, <1>2, <1>4, <1>6, <1>7, <1>9, ForkFits
<1>11. SameBut(StartService(w, s), w, p)
  BY <1>2, <1>3, <1>10 DEF SameBut, SameWants, Stopped
<1> QED BY <1>1, <1>3, <1>10, <1>11
-----------------------------------------------------------------------------
(* ctrl: the letters.                                                      *)

LEMMA FlagsFit ==
  ASSUME NEW F, NEW w, Fit(w, F), NEW s \in Services, NEW x \in Svdir,
         x.pid = w.svd[s].pid, x.state = w.svd[s].state
  PROVE  /\ Fit(Noted(w, s, x), F) /\ Noted(w, s, x).child = w.child
         /\ \A t \in Services : /\ Noted(w, s, x).svd[t].pid = w.svd[t].pid
                                /\ Noted(w, s, x).svd[t].state = w.svd[t].state
                                /\ Noted(w, s, x).svd[t].want
                                     = IF t = s THEN x.want ELSE w.svd[t].want
<1>1. w \in Worlds
  BY DEF Fit, Sound
<1>2. Notes(Noted(w, s, x), w, s, x)
  BY <1>1, NotedEffect
<1>3. Fit(Noted(w, s, x), F)
  BY NotedFits
<1> QED BY <1>1, <1>2, <1>3 DEF Notes, Worlds

LEMMA WantFits ==
  ASSUME NEW F, NEW w, Fit(w, F), NEW s \in Services, NEW x \in {"up", "down", "exit"}
  PROVE  /\ Fit(Want(w, s, x), F) /\ Want(w, s, x).child = w.child
         /\ \A t \in Services : /\ Want(w, s, x).svd[t].pid = w.svd[t].pid
                                /\ Want(w, s, x).svd[t].state = w.svd[t].state
                                /\ Want(w, s, x).svd[t].want = IF t = s THEN x ELSE w.svd[t].want
<1> DEFINE y == [w.svd[s] EXCEPT !.want = x]
<1>1. w \in Worlds /\ w.svd[s] \in Svdir
  BY DEF Fit, Sound, Worlds
<1>2. y \in Svdir /\ y.pid = w.svd[s].pid /\ y.state = w.svd[s].state /\ y.want = x
  BY <1>1 DEF Svdir
<1>3. Want(w, s, x) = Noted(w, s, y)
  BY <1>1 DEF Want, Noted, Worlds
<1> HIDE DEF y
<1> QED BY <1>2, <1>3, FlagsFit

LEMMA StopIfRunFits ==
  ASSUME NEW F, NEW w, Fit(w, F), NEW s \in Services
  PROVE  Fit(StopIfRun(w, s), F) /\ SameWants(StopIfRun(w, s), w)
<1>1. CASE w.svd[s].state = "run"
  BY <1>1, StopFits DEF StopIfRun, Stopped
<1>2. CASE w.svd[s].state # "run"
  BY <1>2 DEF StopIfRun, SameWants
<1> QED BY <1>1, <1>2

LEMMA StartIfDownFits ==
  ASSUME NEW F, NEW w, Fit(w, F), NEW s \in Services, Around, \E q \in Pids : w.child[q].prog = "none"
  PROVE  Fit(StartIfDown(w, s), F) /\ SameWants(StartIfDown(w, s), w)
<1>1. CASE w.svd[s].state = "down"
  BY <1>1, StartFits DEF StartIfDown, SameBut
<1>2. CASE w.svd[s].state # "down"
  BY <1>2 DEF StartIfDown, SameWants
<1> QED BY <1>1, <1>2

LEMMA KillIfRunFits ==
  ASSUME NEW F, NEW w, Fit(w, F), NEW s \in Services, NEW sig \in {"kill", "stop", "cont"}
  PROVE  /\ Fit(KillIfRun(w, s, sig), F) /\ Signalled(KillIfRun(w, s, sig), w)
         /\ sig = "kill" /\ w.svd[s].state = "run"
              => ~Untold(KillIfRun(w, s, sig), w.svd[s].pid)
<1>1. w \in Worlds /\ w.svd[s].pid \in Pids \cup {0}
  BY DEF Fit, Sound, Worlds, Svdir
<1>2. CASE w.svd[s].state = "run"
  <2>1. w.svd[s].pid \in Pids
    BY <1>1, <1>2 DEF Fit, Sound, Owned
  <2>2. /\ Fit(Kill(w, w.svd[s].pid, sig), F) /\ Signalled(Kill(w, w.svd[s].pid, sig), w)
        /\ sig = "kill" => ~Untold(Kill(w, w.svd[s].pid, sig), w.svd[s].pid)
    BY <1>1, <2>1, KillFits, KillEffect
  <2> QED BY <1>2, <2>2 DEF KillIfRun
<1>3. CASE w.svd[s].state # "run"
  BY <1>1, <1>3 DEF KillIfRun, Signalled
<1> QED BY <1>2, <1>3

(* 'k' counts the service as down at once, although its process lives on:  *)
(* ./finish does not even get a signal.                                    *)
LEMMA KillDownFits ==
  ASSUME NEW F, NEW w, Fit(w, F), NEW s \in Services,
         s = "main" /\ w.svd[s].state = "finish" => w.svd[s].pid \in F \cup {0}
  PROVE  /\ Fit([KillIfRun(w, s, "kill") EXCEPT !.svd[s].state = "down"], F)
         /\ SameWants([KillIfRun(w, s, "kill") EXCEPT !.svd[s].state = "down"], w)
<1> DEFINE v == KillIfRun(w, s, "kill")
           x == [v.svd[s] EXCEPT !.state = "down"]
           u == [v EXCEPT !.svd[s].state = "down"]
<1>1. /\ Fit(v, F) /\ Signalled(v, w)
      /\ w.svd[s].state = "run" => ~Untold(v, w.svd[s].pid)
  BY KillIfRunFits
<1> HIDE DEF v
<1>2. v \in Worlds /\ Owned(v) /\ Known(v) /\ Finishing(v, F) /\ Told(v)
  BY <1>1 DEF Fit, Sound
<1>3. v.svd[s].state = "run" => ~Untold(v, v.svd[s].pid)
  BY <1>1 DEF Signalled
<1>4. /\ u \in Worlds /\ u.child = v.child /\ u.status = v.status
      /\ u.svd[s] = [v.svd[s] EXCEPT !.state = "down"]
      /\ \A t \in Services \ {s} : u.svd[t] = v.svd[t]
  <2>1. u = [v EXCEPT !.svd = [@ EXCEPT ![s] = x]]
    OBVIOUS
  <2>2. v.svd[s] \in Svdir
    BY <1>2 DEF Worlds
  <2>3. x \in Svdir
    BY <2>2 DEF Svdir
  <2> HIDE DEF u, x
  <2>4. /\ u \in Worlds /\ u.child = v.child /\ u.status = v.status
        /\ u.svd[s] = x /\ \A t \in Services \ {s} : u.svd[t] = v.svd[t]
    BY <1>2, <2>1, <2>3 DEF Worlds
  <2> QED BY <2>4 DEF x
<1> HIDE DEF u
<1>5. /\ u.svd[s].state = "down"
      /\ \A t \in Services : v.svd[t] \in Svdir /\ u.svd[t].pid = v.svd[t].pid
      /\ \A q \in Pids : Untold(u, q) <=> Untold(v, q)
  BY <1>2, <1>4 DEF Worlds, Svdir, Untold
<1>6. Owned(u)
  BY <1>2, <1>4, <1>5, Two DEF Owned
<1>7. Known(u)
  BY <1>2, <1>4, <1>5, Two DEF Known
<1>8. Finishing(u, F)
  <2>1. v.svd["main"].state \in {"down", "run", "finish"} /\ v.svd["main"].pid \in Pids \cup {0}
    BY <1>5, Two DEF Svdir
  <2>2. CASE s = "main"
    <3>1. v.svd = w.svd
      BY <1>1 DEF Signalled
    <3> QED BY <1>2, <1>3, <1>4, <1>5, <2>1, <2>2, <3>1, Two DEF Finishing
  <2>3. CASE s = "log"
    BY <1>2, <1>4, <1>5, <2>1, <2>3, Two DEF Finishing
  <2> QED BY <2>2, <2>3, Two
<1>9. Told(u)
  <2> SUFFICES ASSUME NEW t \in Services
               PROVE  Tells(u.status[t], Shown(u.svd[t]))
    BY DEF Told
  <2>1. Tells(v.status[t], Shown(v.svd[t])) /\ v.svd[t] \in Svdir /\ u.status = v.status
    BY <1>2, <1>4, <1>5 DEF Told
  <2>2. CASE t = s
    <3>1. u.svd[t] = [v.svd[t] EXCEPT !.state = "down"]
      BY <1>4, <2>2
    <3>2. Shown(u.svd[t]) = [Shown(v.svd[t]) EXCEPT !.state = "down"]
      BY <2>1, <3>1 DEF Shown, Svdir
    <3>3. Shown(v.svd[t]) \in TheShown
      BY <2>1, ShownType
    <3> QED BY <2>1, <3>2, <3>3 DEF Tells, TheShown, Svdir
  <2>3. CASE t # s
    BY <1>4, <2>1, <2>3
  <2> QED BY <2>2, <2>3
<1>10. SameWants(u, w)
  <2>1. v.svd = w.svd /\ v.svd[s] \in Svdir
    BY <1>1, <1>2 DEF Signalled, Worlds
  <2>2. u.svd[s].want = v.svd[s].want
    BY <1>4, <2>1 DEF Svdir
  <2> QED BY <1>4, <2>1, <2>2 DEF SameWants
<1>11. Fit(u, F)
  BY <1>4, <1>6, <1>7, <1>8, <1>9 DEF Fit, Sound
<1> QED BY <1>10, <1>11 DEF u, v

LEMMA PausedFits ==
  ASSUME NEW F, NEW w, Fit(w, F), NEW s \in Services, NEW sig \in {"stop", "cont"}, NEW b \in BOOLEAN
  PROVE  /\ Fit(Update([KillIfRun(w, s, sig) EXCEPT !.svd[s].paused = b], s), F)
         /\ SameWants(Update([KillIfRun(w, s, sig) EXCEPT !.svd[s].paused = b], s), w)
<1> DEFINE v == KillIfRun(w, s, sig)
           x == [v.svd[s] EXCEPT !.paused = b]
<1>1. Fit(v, F) /\ v.svd = w.svd
  BY KillIfRunFits DEF Signalled
<1> HIDE DEF v
<1>2. v.svd[s] \in Svdir
  BY <1>1 DEF Fit, Sound, Worlds
<1>3. /\ x \in Svdir /\ x.pid = v.svd[s].pid /\ x.state = v.svd[s].state
      /\ x.want = v.svd[s].want
  BY <1>2 DEF Svdir
<1>4. Update([v EXCEPT !.svd[s].paused = b], s) = Noted(v, s, x)
  BY DEF Noted
<1> HIDE DEF x
<1>5. Fit(Noted(v, s, x), F) /\ SameWants(Noted(v, s, x), w)
  BY <1>1, <1>3, FlagsFit DEF SameWants
<1> QED BY <1>4, <1>5 DEF v

(* What is wanted after a letter.                                          *)
Aim(c, x) == CASE c = "u" -> "up"
               [] c \in {"d", "o"} -> "down"
               [] c = "x" -> "exit"
               [] OTHER -> x
MainWant(w) == w.svd["main"].want

LEMMA CtrlFits ==
  ASSUME NEW F, NEW w, Fit(w, F), NEW s \in Services, NEW c \in Letters,
         Around, c \in {"u", "o"} => \E q \in Pids : w.child[q].prog = "none",
         c = "k" /\ s = "main" /\ w.svd[s].state = "finish" => w.svd[s].pid \in F \cup {0}
  PROVE  /\ Fit(ctrl(w, s, c), F)
         /\ MainWant(ctrl(w, s, c)) = IF s = "main" THEN Aim(c, MainWant(w)) ELSE MainWant(w)
<1>1. CASE c = "d"
  <2>1. Fit(Want(w, s, "down"), F) /\ \A t \in Services :
          Want(w, s, "down").svd[t].want = IF t = s THEN "down" ELSE w.svd[t].want
    BY WantFits
  <2>2. /\ Fit(StopIfRun(Want(w, s, "down"), s), F)
        /\ SameWants(StopIfRun(Want(w, s, "down"), s), Want(w, s, "down"))
    BY <2>1, StopIfRunFits
  <2> QED BY <1>1, <2>1, <2>2, Two DEF ctrl, SameWants, MainWant, Aim
<1>2. CASE c = "u"
  <2>1. Fit(Want(w, s, "up"), F) /\ \A t \in Services :
          Want(w, s, "up").svd[t].want = IF t = s THEN "up" ELSE w.svd[t].want
    BY WantFits
  <2>2. \E q \in Pids : Want(w, s, "up").child[q].prog = "none"
    <3>1. Want(w, s, "up").child = w.child
      BY WantFits
    <3> QED BY <1>2, <3>1
  <2>3. /\ Fit(StartIfDown(Want(w, s, "up"), s), F)
        /\ SameWants(StartIfDown(Want(w, s, "up"), s), Want(w, s, "up"))
    BY <2>1, <2>2, StartIfDownFits
  <2> QED BY <1>2, <2>1, <2>3, Two DEF ctrl, SameWants, MainWant, Aim
<1>8. CASE c = "o"
  <2>1. Fit(Want(w, s, "down"), F) /\ \A t \in Services :
          Want(w, s, "down").svd[t].want = IF t = s THEN "down" ELSE w.svd[t].want
    BY WantFits
  <2>2. \E q \in Pids : Want(w, s, "down").child[q].prog = "none"
    <3>1. Want(w, s, "down").child = w.child
      BY WantFits
    <3> QED BY <1>8, <3>1
  <2>3. /\ Fit(StartIfDown(Want(w, s, "down"), s), F)
        /\ SameWants(StartIfDown(Want(w, s, "down"), s), Want(w, s, "down"))
    BY <2>1, <2>2, StartIfDownFits
  <2> QED BY <1>8, <2>1, <2>3, Two DEF ctrl, SameWants, MainWant, Aim
<1>3. CASE c = "x"
  <2>1. Fit(Want(w, s, "exit"), F) /\ \A t \in Services :
          Want(w, s, "exit").svd[t].want = IF t = s THEN "exit" ELSE w.svd[t].want
    BY WantFits
  <2>2. /\ Fit(StopIfRun(Want(w, s, "exit"), s), F)
        /\ SameWants(StopIfRun(Want(w, s, "exit"), s), Want(w, s, "exit"))
    BY <2>1, StopIfRunFits
  <2>3. ctrl(w, s, c) = IF s = "log" THEN w ELSE StopIfRun(Want(w, s, "exit"), s)
    BY <1>3 DEF ctrl
  <2> QED BY <1>3, <2>1, <2>2, <2>3, Two DEF SameWants, MainWant, Aim
<1>4. CASE c = "t"
  BY <1>4, StopIfRunFits, Two DEF ctrl, SameWants, MainWant, Aim
<1>5. CASE c = "k"
  <2>1. /\ Fit([KillIfRun(w, s, "kill") EXCEPT !.svd[s].state = "down"], F)
        /\ SameWants([KillIfRun(w, s, "kill") EXCEPT !.svd[s].state = "down"], w)
    BY <1>5, KillDownFits
  <2>2. ctrl(w, s, c) = [KillIfRun(w, s, "kill") EXCEPT !.svd[s].state = "down"]
    BY <1>5, Zenon DEF ctrl
  <2>3. Aim(c, MainWant(w)) = MainWant(w)
    BY <1>5 DEF Aim
  <2> QED BY <2>1, <2>2, <2>3, Two DEF SameWants, MainWant
<1>6. CASE c = "p"
  <2>1. /\ Fit(Update([KillIfRun(w, s, "stop") EXCEPT !.svd[s].paused = TRUE], s), F)
        /\ SameWants(Update([KillIfRun(w, s, "stop") EXCEPT !.svd[s].paused = TRUE], s), w)
    BY PausedFits
  <2> QED BY <1>6, <2>1, Two DEF ctrl, SameWants, MainWant, Aim
<1>7. CASE c = "c"
  <2>1. /\ Fit(Update([KillIfRun(w, s, "cont") EXCEPT !.svd[s].paused = FALSE], s), F)
        /\ SameWants(Update([KillIfRun(w, s, "cont") EXCEPT !.svd[s].paused = FALSE], s), w)
    BY PausedFits
  <2> QED BY <1>7, <2>1, Two DEF ctrl, SameWants, MainWant, Aim
<1> QED BY <1>1, <1>2, <1>3, <1>4, <1>5, <1>6, <1>7, <1>8 DEF Letters
-----------------------------------------------------------------------------
(* wait_any_nohang.                                                        *)

LEMMA NoProcessType == NoProcess \in Process /\ NoProcess.prog = "none" /\ ~NoProcess.dead
BY DEF NoProcess, Process, Programs

(* A process that runsv has forgotten.                                     *)
LEMMA ForgottenFits ==
  ASSUME NEW F, NEW w, Fit(w, F), NEW p \in Pids, \A s \in Services : w.svd[s].pid # p
  PROVE  Fit(Replaced(w, p, NoProcess), F)
<1> DEFINE v == Replaced(w, p, NoProcess)
<1>1. w \in Worlds /\ Owned(w) /\ Known(w) /\ Finishing(w, F) /\ Told(w)
  BY DEF Fit, Sound
<1>2. /\ v \in Worlds /\ v.svd = w.svd /\ v.status = w.status
      /\ v.child[p] = NoProcess /\ \A q \in Pids \ {p} : v.child[q] = w.child[q]
  BY <1>1, NoProcessType DEF Replaced, Worlds
<1> HIDE DEF v
<1>3. \A s \in Services : w.svd[s].pid \in (Pids \ {p}) \cup {0}
  BY <1>1 DEF Worlds, Svdir
<1>4. \A q \in Pids \ {p} : Untold(v, q) <=> Untold(w, q)
  BY <1>2 DEF Untold
<1>5. Owned(v)
  BY <1>1, <1>2, <1>3, Two DEF Owned
<1>6. Known(v)
  BY <1>1, <1>2, <1>3, <1>4, NoProcessType, Two DEF Known
<1>7. Finishing(v, F)
  BY <1>1, <1>2, <1>3, <1>4, Two DEF Finishing
<1>8. Told(v)
  BY <1>1, <1>2 DEF Told
<1> QED BY <1>2, <1>5, <1>6, <1>7, <1>8 DEF Fit, Sound, v

(* The process of a service.                                               *)
LEMMA EndedFits ==
  ASSUME NEW F, NEW w, Fit(w, F), NEW p \in Pids, NEW s \in Services, w.svd[s].pid = p
  PROVE  /\ Fit(Ended(Replaced(w, p, NoProcess), s), F)
         /\ SameWants(Ended(Replaced(w, p, NoProcess), s), w)
<1> DEFINE r == Replaced(w, p, NoProcess)
           finishes == s = "main" /\ w.svd[s].state # "finish" /\ dir.finish
           x == [w.svd[s] EXCEPT !.pid = 0, !.term = FALSE,
                                 !.state = IF finishes THEN "finish" ELSE "down"]
           u == Noted(r, s, x)
<1>1. w \in Worlds /\ Owned(w) /\ Known(w) /\ Finishing(w, F) /\ Told(w)
  BY DEF Fit, Sound
<1>2. w.svd[s] \in Svdir /\ NoProcess \in Process
  BY <1>1, NoProcessType DEF Worlds
<1>3. x \in Svdir /\ x.pid = 0 /\ x.state \in {"finish", "down"}
        /\ (x.state = "finish" => s = "main") /\ x.want = w.svd[s].want
  BY <1>2 DEF Svdir
<1>4. Ended(r, s) = u
  <2>1. r.svd = w.svd
    BY <1>1 DEF Replaced, Worlds
  <2> HIDE DEF r
  <2> QED BY <2>1 DEF Ended, Noted
<1> HIDE DEF x
<1>5. /\ r \in Worlds /\ r.svd = w.svd /\ r.status = w.status
      /\ u \in Worlds /\ u.svd[s] = x /\ u.child[p] = NoProcess
      /\ \A t \in Services \ {s} : u.svd[t] = w.svd[t]
      /\ \A q \in Pids \ {p} : u.child[q] = w.child[q]
  BY <1>1, <1>2, <1>3, ForkEffect
<1>6. Told(u)
  BY <1>1, <1>3, <1>5, NotedTells DEF Told
<1> HIDE DEF u, r
<1>7. \A t \in Services \ {s} : w.svd[t].pid \in (Pids \ {p}) \cup {0}
  BY <1>1, RunsvAssumption, Two DEF Worlds, Svdir, Owned
<1>8. \A q \in Pids \ {p} : Untold(u, q) <=> Untold(w, q)
  BY <1>5 DEF Untold
<1>9. Owned(u)
  BY <1>1, <1>3, <1>5, <1>7, Two DEF Owned
<1>10. Known(u)
  <2> SUFFICES ASSUME NEW q \in Pids, Untold(u, q)
               PROVE  /\ u.child[q].prog \in {"run", "finish"} => u.svd["main"].pid = q
                      /\ u.child[q].prog = "log" => u.svd["log"].pid = q
    BY DEF Known
  <2>1. CASE q = p
    BY <1>5, <2>1, NoProcessType
  <2>2. CASE q # p
    BY <1>1, <1>5, <1>8, <2>2, Two DEF Known
  <2> QED BY <2>1, <2>2
<1>11. Finishing(u, F)
  <2>1. CASE s = "main"
    BY <1>1, <1>3, <1>5, <2>1, Two DEF Finishing
  <2>2. CASE s = "log"
    BY <1>1, <1>3, <1>5, <1>7, <1>8, <2>2, Two DEF Finishing
  <2> QED BY <2>1, <2>2, Two
<1>12. SameWants(u, w)
  BY <1>3, <1>5 DEF SameWants
<1> QED BY <1>4, <1>5, <1>6, <1>9, <1>10, <1>11, <1>12 DEF Fit, Sound, r

-----------------------------------------------------------------------------
(* F may be a larger set, and needs no process that is gone.               *)
LEMMA MoreFits ==
  ASSUME NEW F, NEW w, Fit(w, F), NEW G, F \subseteq G
  PROVE  Fit(w, G) /\ Fit(w, {p \in G : w.child[p].prog # "none"})
<1> DEFINE H == {p \in G : w.child[p].prog # "none"}
<1>1. w \in Worlds /\ Owned(w) /\ Known(w) /\ Finishing(w, F) /\ Told(w)
  BY DEF Fit, Sound
<1>2. Finishing(w, G)
  BY <1>1 DEF Finishing
<1>3. w.svd["main"].pid # 0 => w.child[w.svd["main"].pid].prog # "none"
  BY <1>1, Two DEF Owned
<1>4. Finishing(w, H)
  BY <1>2, <1>3 DEF Finishing
<1> QED BY <1>1, <1>2, <1>4 DEF Fit, Sound

-----------------------------------------------------------------------------
(* The inductive invariant.                                                *)

(* The types of what the functions above do not change.                    *)
Rest ==
  /\ Around
  /\ fifo \in [Services -> Seq(Letters)]
  /\ wake \in BOOLEAN /\ sigterm \in BOOLEAN /\ hasty \in BOOLEAN
  /\ pc \in {"start", "poll", "reap", "obey", "log", "obeylog", "term", "exited"}
  /\ letter \in Letters \cup {"none"}
  /\ pc \in {"obey", "obeylog"} => letter # "none"
  /\ commands \in 0 .. MaxCommands
  /\ asked \in Letters /\ forgot \subseteq Pids

(* When runsv has exited, it knew both services to be down.                *)
Gone == pc = "exited" => svd["main"].state = "down" /\ svd["log"].pid = 0

IInv == Rest /\ Fit(World, forgot) /\ Gone

(* What is wanted of the service.                                          *)
Wanted == svd["main"].want

LEMMA WorldIs == World.svd = svd /\ World.status = status /\ World.child = child
BY DEF World

LEMMA WorldSame ==
  ASSUME NEW F, Fit(World, F), UNCHANGED <<svd, status, child>>
  PROVE  Fit(World', F)
<1>1. World' = World
  BY DEF World
<1>2. Fit(World', F)
  BY <1>1
<1> QED BY <1>2

LEMMA WorldBecomes ==
  ASSUME NEW F, NEW w, Fit(w, F), Become(w)
  PROVE  Fit(World', F)
<1>1. World' = [svd |-> w.svd, status |-> w.status, child |-> w.child]
  BY DEF World, Become
<1>2. w = [svd |-> w.svd, status |-> w.status, child |-> w.child]
  BY DEF Fit, Sound, Worlds
<1>3. Fit(World', F)
  BY <1>1, <1>2
<1> QED BY <1>3

LEMMA InitFits == Init => IInv
<1> SUFFICES ASSUME Init PROVE IInv
  OBVIOUS
<1>1. World \in Worlds
  <2>1. \A s \in Services : svd[s] \in Svdir
    BY DEF Init
  <2>2. status \in [Services -> TheShown]
    BY <2>1, ShownType DEF Init
  <2>3. child \in [Pids -> Process] /\ svd \in [Services -> Svdir]
    BY NoProcessType DEF Init
  <2> QED BY <2>2, <2>3 DEF World, Worlds
<1>2. /\ \A s \in Services : svd[s].pid = 0 /\ svd[s].state = "down"
      /\ \A p \in Pids : child[p] = NoProcess
  BY DEF Init
<1>3. Owned(World)
  BY <1>2, WorldIs, Two DEF Owned
<1>4. Known(World)
  BY <1>2, WorldIs, NoProcessType DEF Known
<1>5. Finishing(World, forgot)
  BY <1>2, WorldIs, Two DEF Finishing
<1>6. Told(World)
  <2>1. \A s \in Services : status[s] = Shown(svd[s])
    BY DEF Init
  <2> QED BY <2>1, WorldIs, TellsItself DEF Told
<1>7. Rest
  <2>1. Around
    BY DEF Init, Around, Programs
  <2>2. fifo \in [Services -> Seq(Letters)]
    BY DEF Init
  <2>3. asked \in Letters
    BY DEF Init, Letters
  <2>4. commands \in 0 .. MaxCommands
    BY RunsvAssumption DEF Init
  <2> QED BY <2>1, <2>2, <2>3, <2>4 DEF Init, Rest
<1> QED BY <1>1, <1>3, <1>4, <1>5, <1>6, <1>7 DEF IInv, Fit, Sound, Gone, Init

LEMMA StartDueFits ==
  ASSUME Rest, NEW F, Fit(World, F), StartDue PROVE Fit(World', F) /\ Wanted' = Wanted
<1> DEFINE v == IF "log" \in Due THEN StartService(World, "log") ELSE World
           w == IF "main" \in Due THEN StartService(v, "main") ELSE v
<1>1. Fit(World, F) /\ Around
  BY DEF Rest
<1>2. Become(w) /\ (Due # {} => Free # {}) /\ (Due = Services => \E p, q \in Free : p # q)
  BY DEF StartDue
<1>3. \A q \in Pids : q \in Free <=> World.child[q].prog = "none"
  BY DEF Free, World
<1>4. /\ Fit(v, F) /\ ("main" \in Due => \E q \in Pids : v.child[q].prog = "none")
      /\ SameWants(v, World)
  <2>1. CASE "log" \in Due
    <3>1. \E q \in Pids : World.child[q].prog = "none"
      BY <1>2, <1>3, <2>1 DEF Free
    <3>2. /\ Fit(StartService(World, "log"), F)
          /\ \E p \in Pids : SameBut(StartService(World, "log"), World, p)
      BY <1>1, <3>1, Two, StartFits
    <3>3. PICK p \in Pids : SameBut(StartService(World, "log"), World, p)
      BY <3>2
    <3>4. ASSUME "main" \in Due
          PROVE  \E q \in Pids : StartService(World, "log").child[q].prog = "none"
      <4>1. Due = Services
        BY <2>1, <3>4 DEF Due, Services
      <4>2. PICK q \in Free : q # p
        BY <1>2, <4>1
      <4>3. q \in Pids
        BY <4>2 DEF Free
      <4>4. q \in Pids \ {p} /\ World.child[q].prog = "none"
        BY <1>3, <4>2, <4>3
      <4> QED BY <3>3, <4>4 DEF SameBut
    <3> QED BY <2>1, <3>2, <3>4 DEF SameBut
  <2>2. CASE "log" \notin Due
    BY <1>1, <1>2, <1>3, <2>2 DEF Free, SameWants
  <2> QED BY <2>1, <2>2
<1> HIDE DEF v
<1>5. Fit(w, F) /\ SameWants(w, v)
  <2>1. CASE "main" \in Due
    BY <1>1, <1>4, <2>1, Two, StartFits DEF SameBut
  <2>2. CASE "main" \notin Due
    BY <1>4, <2>2 DEF SameWants
  <2> QED BY <2>1, <2>2
<1> HIDE DEF w
<1>6. w.svd["main"].want = svd["main"].want
  BY <1>4, <1>5, Two, WorldIs DEF SameWants
<1> QED BY <1>2, <1>5, <1>6, WorldBecomes DEF Become, Wanted

LEMMA ReapFits ==
  ASSUME Rest, NEW F, Fit(World, F), NEW p \in Pids, Reap(p)
  PROVE  Fit(World', F) /\ Wanted' = Wanted
<1> DEFINE waited == [World EXCEPT !.child[p] = NoProcess]
<1>1. Fit(World, F) /\ waited = Replaced(World, p, NoProcess)
  BY DEF Replaced
<1>2. CASE \E s \in Services : svd[s].pid = p /\ Become(Ended(waited, s))
  <2>1. PICK s \in Services : svd[s].pid = p /\ Become(Ended(waited, s))
    BY <1>2
  <2>2. Fit(Ended(waited, s), F) /\ SameWants(Ended(waited, s), World)
    BY <1>1, <2>1, WorldIs, EndedFits
  <2> HIDE DEF waited
  <2>3. svd'["main"].want = svd["main"].want
    BY <2>1, <2>2, Two, WorldIs DEF SameWants, Become
  <2> QED BY <2>1, <2>2, <2>3, WorldBecomes DEF Wanted
<1>3. CASE (\A s \in Services : svd[s].pid # p) /\ Become(waited)
  <2>1. Fit(waited, F) /\ waited.svd = svd
    BY <1>1, <1>3, WorldIs, ForgottenFits
  <2> HIDE DEF waited
  <2> QED BY <1>3, <2>1, WorldBecomes DEF Become, Wanted
<1> QED BY <1>2, <1>3 DEF Reap

LEMMA ObeyFits ==
  ASSUME IInv, NEW s \in Services, Obey(s)
  PROVE  /\ Fit(World', forgot \cup KilledFinish) /\ letter \in Letters
         /\ Wanted' = IF s = "main" THEN Aim(letter, Wanted) ELSE Wanted
<1> DEFINE F == forgot \cup KilledFinish
<1>1. Rest /\ Around /\ pc = Obeying(s) /\ Become(ctrl(World, s, letter))
        /\ (letter \in {"u", "o"} => Free # {})
  BY DEF IInv, Rest, Obey
<1>2. letter \in Letters
  BY <1>1 DEF Rest, Obeying
<1>3. Fit(World, F)
  BY MoreFits DEF IInv
<1>4. letter \in {"u", "o"} => \E q \in Pids : World.child[q].prog = "none"
  BY <1>1 DEF Free, World
<1>5. letter = "k" /\ s = "main" /\ World.svd[s].state = "finish"
        => World.svd[s].pid \in F \cup {0}
  <2>1. World.svd["main"].pid \in Pids \cup {0}
    BY <1>3, Two DEF Fit, Sound, Worlds, Svdir
  <2> QED BY <1>1, <2>1, WorldIs DEF Obeying, KilledFinish
<1> HIDE DEF F
<1>6. /\ Fit(ctrl(World, s, letter), F)
      /\ MainWant(ctrl(World, s, letter))
           = IF s = "main" THEN Aim(letter, MainWant(World)) ELSE MainWant(World)
  BY <1>1, <1>2, <1>3, <1>4, <1>5, CtrlFits
<1>7. Fit(World', F)
  BY <1>1, <1>6, WorldBecomes
<1>8. Wanted' = MainWant(ctrl(World, s, letter)) /\ MainWant(World) = Wanted
  BY <1>1, WorldIs DEF Become, Wanted, MainWant
<1> QED BY <1>2, <1>6, <1>7, <1>8 DEF F

LEMMA TermFits ==
  ASSUME Rest, NEW F, Fit(World, F), Term
  PROVE  Fit(World', F) /\ Gone' /\ Wanted' = IF sigterm THEN "exit" ELSE Wanted
<1> DEFINE w == IF sigterm THEN ctrl(World, "main", "x") ELSE World
           u == Want(w, "log", "exit")
<1>1. Fit(World, F) /\ Around
  BY DEF Rest
<1>2. Fit(w, F) /\ MainWant(w) = IF sigterm THEN "exit" ELSE Wanted
  <2>1. Fit(ctrl(World, "main", "x"), F) /\ MainWant(ctrl(World, "main", "x")) = "exit"
    BY <1>1, Two, CtrlFits DEF Letters, Aim
  <2>2. MainWant(World) = Wanted
    BY WorldIs DEF MainWant, Wanted
  <2> QED BY <1>1, <2>1, <2>2
<1>3. /\ IF Over(w) /\ LogToTell(w) THEN Become(u) ELSE Become(w)
      /\ pc' = IF Over(w) /\ LogDown(w) THEN "exited" ELSE "start"
  BY DEF Term
<1> HIDE DEF w
<1>4. Fit(u, F) /\ MainWant(u) = MainWant(w)
  BY <1>2, Two, WantFits DEF MainWant
<1> HIDE DEF u
<1>5. Fit(World', F)
  <2>1. CASE Over(w) /\ LogToTell(w)
    BY <1>3, <1>4, <2>1, WorldBecomes
  <2>2. CASE ~(Over(w) /\ LogToTell(w))
    BY <1>2, <1>3, <2>2, WorldBecomes
  <2> QED BY <2>1, <2>2
<1>6. Gone'
  <2> SUFFICES ASSUME pc' = "exited" PROVE svd'["main"].state = "down" /\ svd'["log"].pid = 0
    BY DEF Gone
  <2>1. Over(w) /\ LogDown(w)
    BY <1>3
  <2>2. svd' = w.svd
    BY <1>3, <2>1 DEF LogToTell, Become
  <2> QED BY <2>1, <2>2 DEF Over, LogDown
<1>7. Wanted' = MainWant(w)
  BY <1>3, <1>4 DEF Become, Wanted, MainWant
<1> QED BY <1>2, <1>5, <1>6, <1>7

LEMMA ExitsFits ==
  ASSUME NEW F, Fit(World, F), NEW p \in Pids, Exits(p) PROVE Fit(World', F)
<1> DEFINE c == [child[p] EXCEPT !.dead = TRUE]
           v == Replaced(World, p, c)
<1>1. Fit(World, F) /\ World \in Worlds
  BY DEF Fit, Sound
<1>2. child[p] \in Process
  BY <1>1, WorldIs DEF Worlds
<1>3. c \in Process /\ c.prog = World.child[p].prog /\ c.dead
  BY <1>2, WorldIs DEF Process
<1>4. Become(v)
  <2>1. v.svd = svd /\ v.status = status /\ v.child = [child EXCEPT ![p] = c]
    BY WorldIs DEF Replaced, World
  <2>2. child' = [child EXCEPT ![p] = c] /\ UNCHANGED <<svd, status>>
    BY DEF Exits
  <2> HIDE DEF v, c
  <2> QED BY <2>1, <2>2 DEF Become
<1> HIDE DEF c
<1>5. Signalled(v, World)
  BY <1>1, <1>3, ChildChanged
<1>6. Fit(v, F)
  BY <1>1, <1>5, SignalFits
<1> HIDE DEF v
<1> QED BY <1>4, <1>6, WorldBecomes

LEMMA ActsType ==
  ASSUME NEW s \in Services, NEW a \in Acts(s)
  PROVE  a \in Seq(Letters) /\ a[Len(a)] \in Letters
<1>1. CASE a \in {<<c>> : c \in Letters}
  BY <1>1
<1>2. CASE a = <<"t", "c", "u">>
  BY <1>2 DEF Letters
<1>3. CASE a \in {<<"u">>, <<"d">>, <<"k">>}
  <2>1. PICK c \in {"u", "d", "k"} : a = <<c>>
    BY <1>3
  <2>2. c \in Letters
    BY DEF Letters
  <2> QED BY <2>1, <2>2
<1> QED BY <1>1, <1>2, <1>3 DEF Acts

LEMMA StepRest == IInv /\ [Next]_vars => Rest'
<1> SUFFICES ASSUME IInv, [Next]_vars PROVE Rest'
  OBVIOUS
<1>0. RunsvStep => forgot' \subseteq Pids /\ UNCHANGED <<asked, hasty>>
  BY DEF IInv, Rest, RunsvStep, KilledFinish
<1> USE DEF Rest, Around
<1>1. CASE RunsvStep /\ StartDue
  BY <1>0, <1>1 DEF IInv, StartDue
<1>2. CASE RunsvStep /\ Poll
  BY <1>0, <1>2 DEF IInv, Poll
<1>3. ASSUME NEW p \in Pids, RunsvStep, Reap(p) PROVE Rest'
  <2>1. child[p].prog \in Programs
    BY DEF IInv, Fit, Sound, Worlds, World, Process
  <2>2. wstat' \in Programs
    BY <1>3, <2>1 DEF IInv, Reap
  <2> QED BY <1>0, <1>3, <2>2 DEF IInv, Reap
<1>4. ASSUME NEW s \in Services, RunsvStep, Control(s) PROVE Rest'
  <2>1. UNCHANGED <<dir, wstat, logpipe, wake, sigterm, commands, asked, hasty>>
          /\ After(s) \in {"log", "term"} /\ Obeying(s) \in {"obey", "obeylog"}
    BY <1>0, <1>4 DEF Control, After, Obeying
  <2>2. CASE fifo[s] # <<>>
    <3>1. Head(fifo[s]) \in Letters /\ Tail(fifo[s]) \in Seq(Letters) /\ "none" \notin Letters
      BY <2>2 DEF IInv, Letters
    <3>2. fifo' \in [Services -> Seq(Letters)] /\ letter' \in Letters
      BY <1>4, <2>2, <3>1 DEF IInv, Control
    <3>3. pc' = Obeying(s)
      BY <1>4, <2>2 DEF Control
    <3> QED BY <1>0, <1>4, <2>1, <3>1, <3>2, <3>3 DEF IInv
  <2>3. CASE fifo[s] = <<>>
    BY <1>0, <1>4, <2>1, <2>3 DEF IInv, Control
  <2> QED BY <2>2, <2>3
<1>10. ASSUME NEW s \in Services, RunsvStep, Obey(s) PROVE Rest'
  <2>1. After(s) \in {"log", "term"}
    BY DEF After
  <2> QED BY <1>0, <1>10, <2>1 DEF IInv, Obey
<1>5. CASE RunsvStep /\ Term
  <2>1. pc' \in {"exited", "start"} /\ sigterm' = FALSE /\ logpipe' \in BOOLEAN
    BY <1>5 DEF IInv, Term
  <2>2. UNCHANGED <<dir, fifo, letter, wstat, wake, commands, asked, hasty>>
    BY <1>0, <1>5 DEF Term
  <2> QED BY <1>0, <1>5, <2>1, <2>2 DEF IInv
<1>6. ASSUME NEW s \in Services, NEW a \in Acts(s), control(s, a) PROVE Rest'
  <2>1. a \in Seq(Letters) /\ a[Len(a)] \in Letters
    BY ActsType
  <2>2. fifo[s] \o a \in Seq(Letters)
    BY <2>1 DEF IInv
  <2>3. fifo' \in [Services -> Seq(Letters)]
    BY <1>6, <2>2 DEF IInv, control
  <2>4. asked' \in Letters /\ hasty' \in BOOLEAN
    BY <1>6, <2>1 DEF IInv, control, Note
  <2>5. commands' \in 0 .. MaxCommands
    BY <1>6, RunsvAssumption DEF IInv, control
  <2> QED BY <1>6, <2>3, <2>4, <2>5 DEF IInv, control
<1>7. CASE TermSignal
  <2>1. asked' \in Letters /\ hasty' \in BOOLEAN
    BY <1>7 DEF IInv, TermSignal, Note, Letters
  <2>2. commands' \in 0 .. MaxCommands
    BY <1>7, RunsvAssumption DEF IInv, TermSignal
  <2> QED BY <1>7, <2>1, <2>2 DEF IInv, TermSignal
<1>8. ASSUME NEW p \in Pids, Exits(p) PROVE Rest'
  BY <1>8 DEF IInv, Exits
<1>9. CASE UNCHANGED vars
  BY <1>9 DEF IInv, vars, rvars
<1> QED BY <1>1, <1>2, <1>3, <1>4, <1>5, <1>6, <1>7, <1>8, <1>9, <1>10
        DEF Next, RunsvStep, RunsvNext

(* What runsv does, with the ./finish that it forgets.                     *)
LEMMA RunsvFits == ASSUME IInv, RunsvStep PROVE Fit(World', forgot')
<1> DEFINE F == forgot \cup KilledFinish
<1>1. forgot' = {p \in F : World'.child[p].prog # "none"}
  BY DEF RunsvStep, World
<1>2. Fit(World, F) /\ Rest
  BY MoreFits DEF IInv
<1> HIDE DEF F
<1>3. Fit(World', F)
  <2>1. CASE StartDue
    BY <1>2, <2>1, StartDueFits
  <2>2. CASE Poll
    BY <1>2, <2>2, WorldSame DEF Poll
  <2>3. ASSUME NEW p \in Pids, Reap(p) PROVE Fit(World', F)
    BY <1>2, <2>3, ReapFits
  <2>4. ASSUME NEW s \in Services, Control(s) PROVE Fit(World', F)
    BY <1>2, <2>4, WorldSame DEF Control
  <2>5. ASSUME NEW s \in Services, Obey(s) PROVE Fit(World', F)
    BY <2>5, ObeyFits DEF F
  <2>6. CASE Term
    BY <1>2, <2>6, TermFits
  <2> QED BY <2>1, <2>2, <2>3, <2>4, <2>5, <2>6 DEF RunsvStep, RunsvNext
<1> QED BY <1>1, <1>3, MoreFits

LEMMA StepFits == IInv /\ [Next]_vars => Fit(World', forgot')
<1> SUFFICES ASSUME IInv, [Next]_vars PROVE Fit(World', forgot')
  OBVIOUS
<1>1. CASE RunsvStep
  BY <1>1, RunsvFits
<1>2. ASSUME NEW s \in Services, NEW a \in Acts(s), control(s, a) PROVE Fit(World', forgot')
  <2>1. Fit(World', forgot) /\ forgot' = forgot
    BY <1>2, WorldSame DEF IInv, control
  <2> QED BY <2>1
<1>3. CASE TermSignal
  <2>1. Fit(World', forgot) /\ forgot' = forgot
    BY <1>3, WorldSame DEF IInv, TermSignal
  <2> QED BY <2>1
<1>4. ASSUME NEW p \in Pids, Exits(p) PROVE Fit(World', forgot')
  <2>1. Fit(World', forgot) /\ forgot' = forgot
    BY <1>4, ExitsFits DEF IInv, Exits
  <2> QED BY <2>1
<1>5. CASE UNCHANGED vars
  <2>1. Fit(World', forgot) /\ forgot' = forgot
    BY <1>5, WorldSame DEF IInv, vars, rvars
  <2> QED BY <2>1
<1> QED BY <1>1, <1>2, <1>3, <1>4, <1>5 DEF Next

LEMMA StepGone == IInv /\ [Next]_vars => Gone'
<1> SUFFICES ASSUME IInv, [Next]_vars PROVE Gone'
  OBVIOUS
<1>1. CASE StartDue
  BY <1>1 DEF StartDue, Gone
<1>2. CASE Poll
  BY <1>2 DEF Poll, Gone
<1>3. ASSUME NEW p \in Pids, Reap(p) PROVE Gone'
  BY <1>3 DEF Reap, Gone
<1>4. ASSUME NEW s \in Services, Control(s) \/ Obey(s) PROVE Gone'
  <2>1. pc' # "exited"
    BY <1>4 DEF Control, Obey, After, Obeying
  <2> QED BY <2>1 DEF Gone
<1>5. CASE Term
  BY <1>5, TermFits DEF IInv
<1>6. ASSUME NEW s \in Services, NEW a \in Acts(s), control(s, a) PROVE Gone'
  BY <1>6 DEF IInv, control, Gone
<1>7. CASE TermSignal
  BY <1>7 DEF IInv, TermSignal, Gone
<1>8. ASSUME NEW p \in Pids, Exits(p) PROVE Gone'
  BY <1>8 DEF Exits, Gone
<1>9. CASE UNCHANGED vars
  BY <1>9 DEF IInv, vars, rvars, Gone
<1> QED BY <1>1, <1>2, <1>3, <1>4, <1>5, <1>6, <1>7, <1>8, <1>9 DEF Next, RunsvStep, RunsvNext

LEMMA StepIInv == IInv /\ [Next]_vars => IInv'
BY StepRest, StepFits, StepGone DEF IInv

(* What runsv keeps of its services is sound after every step.             *)
THEOREM RunsvInvariant == Spec => []IInv
<1>1. Init => IInv
  BY InitFits
<1>2. IInv /\ [Next]_vars => IInv'
  BY StepIInv
<1> QED BY <1>1, <1>2, PTL DEF Spec
-----------------------------------------------------------------------------
(* What follows from it.                                                   *)

(* Every variable keeps its type.                                          *)
THEOREM ServicesTypeCorrect == Spec => []TypeOK
<1>1. IInv => TypeOK
  <2>1. IInv => World \in Worlds /\ Rest
    BY DEF IInv, Fit, Sound
  <2> QED BY <2>1, WorldIs DEF Worlds, TheShown, Rest, Around, TypeOK
<1> QED BY <1>1, RunsvInvariant, PTL

(* runsv never signals a number that is not a process of its own.          *)
THEOREM SignalsOwnChild == Spec => []OwnChild
<1>1. IInv => OwnChild
  BY WorldIs DEF IInv, Fit, Sound, Owned, OwnChild
<1> QED BY <1>1, RunsvInvariant, PTL

(* Of the processes of the service, all but one have been told to end.     *)
THEOREM OneProcessAtATime == Spec => []NeverTwo
<1>1. IInv => NeverTwo
  <2> SUFFICES ASSUME IInv, NEW p \in Pids, NEW q \in Pids,
                      Alive(p), Alive(q), child[p].sig = "none", child[q].sig = "none",
                      child[p].prog \notin {"log", "broken"},
                      child[q].prog \notin {"log", "broken"}
               PROVE  p = q
    BY DEF NeverTwo
  <2>1. World \in Worlds /\ Known(World)
    BY DEF IInv, Fit, Sound
  <2>2. child[p].prog \in Programs /\ child[q].prog \in Programs
    BY <2>1, WorldIs DEF Worlds, Process
  <2>3. Untold(World, p) /\ Untold(World, q)
    BY WorldIs DEF Alive, Untold
  <2>4. World.child[p].prog \in {"run", "finish"} /\ World.child[q].prog \in {"run", "finish"}
    BY <2>2, WorldIs DEF Alive, Programs
  <2> QED BY <2>1, <2>3, <2>4 DEF Known
<1> QED BY <1>1, RunsvInvariant, PTL

(* While runsv waits, the status file says what runsv knows.               *)
THEOREM StatusFileIsTrue == Spec => []StatusTells
<1>1. IInv => StatusTells
  BY WorldIs DEF IInv, Fit, Told, Tells, StatusTells
<1> QED BY <1>1, RunsvInvariant, PTL

(* runsv leaves no program behind that nobody told to end, but one that    *)
(* could not be executed and a ./finish that ran when "kill" came.         *)
THEOREM ExitLeavesNothing == Spec => []ExitsClean
<1>1. IInv => ExitsClean
  <2> SUFFICES ASSUME IInv, pc = "exited", NEW p \in Pids, Alive(p), child[p].sig = "none"
               PROVE  child[p].prog = "broken" \/ p \in forgot
    BY DEF ExitsClean
  <2>1. World \in Worlds /\ Known(World) /\ Finishing(World, forgot)
    BY DEF IInv, Fit, Sound
  <2>2. World.svd["main"].state = "down" /\ World.svd["log"].pid = 0
    BY WorldIs DEF IInv, Gone
  <2>3. Untold(World, p) /\ p # 0
    BY WorldIs, RunsvAssumption DEF Alive, Untold
  <2>4. child[p].prog \in Programs \ {"none"}
    BY <2>1, WorldIs DEF Worlds, Process, Alive
  <2>5. child[p].prog # "log"
    BY <2>1, <2>2, <2>3, WorldIs DEF Known
  <2>6. CASE child[p].prog \in {"run", "finish"}
    <3>1. World.svd["main"].pid = p
      BY <2>1, <2>3, <2>6, WorldIs DEF Known
    <3> QED BY <2>1, <2>2, <2>3, <3>1, WorldIs DEF Finishing
  <2> QED BY <2>4, <2>5, <2>6 DEF Programs
<1> QED BY <1>1, RunsvInvariant, PTL
-----------------------------------------------------------------------------
(* What was asked for.  If every command is given when the one before has  *)
(* been carried out, the letters that runsv has not yet obeyed are those   *)
(* of the last one, or what is left of a restart.                          *)
Queued == IF pc = "obey" THEN <<letter>> \o fifo["main"] ELSE fifo["main"]
Deciding == {"u", "d", "o", "x"}
Pending ==
  \/ Queued = <<>> /\ Obeys
  \/ Queued = <<asked>> /\ asked \in Deciding
  \/ (\E c \in Letters \ Deciding : Queued = <<c>>) /\ Obeys
  \/ Queued \in {<<"t", "c", "u">>, <<"c", "u">>} /\ asked = "u"
Obedient ==
  ~hasty => IF sigterm THEN asked = "x" /\ Queued = <<>> ELSE Pending
(* runsv does not sleep before it has looked at a SIGTERM.                 *)
Noticed == sigterm => wake \/ pc \in {"reap", "obey", "log", "obeylog", "term"}
OInv == IInv /\ asked \in Deciding /\ Obedient /\ Noticed

(* Obeys only looks at what was asked and what is wanted.                  *)
LEMMA ObeysSame ==
  ASSUME UNCHANGED asked, Wanted' = Wanted PROVE Obeys' <=> Obeys
BY DEF Obeys, Wanted

LEMMA ObedientSame ==
  ASSUME Obedient, UNCHANGED <<asked, hasty, sigterm>>, Queued' = Queued, Wanted' = Wanted
  PROVE  Obedient'
BY ObeysSame DEF Obedient, Pending

(* No letter is read but in Control.                                       *)
LEMMA QueuedSame ==
  ASSUME UNCHANGED fifo, pc # "obey", pc' # "obey" PROVE Queued' = Queued
BY DEF Queued

LEMMA QueuedType == ASSUME Rest PROVE Queued \in Seq(Letters)
<1>1. fifo["main"] \in Seq(Letters)
  BY Two DEF Rest
<1>2. CASE pc = "obey"
  <2>1. letter \in Letters
    BY <1>2 DEF Rest
  <2> QED BY <1>1, <1>2, <2>1 DEF Queued
<1>3. CASE pc # "obey"
  BY <1>1, <1>3 DEF Queued
<1> QED BY <1>2, <1>3

(* A letter is read: it is still to be obeyed.                             *)
LEMMA ControlObedient ==
  ASSUME OInv, NEW s \in Services, Control(s), UNCHANGED <<asked, hasty>>
  PROVE  Obedient'
<1>1. fifo \in [Services -> Seq(Letters)]
  BY DEF OInv, IInv, Rest
<1>2. /\ UNCHANGED <<asked, hasty, sigterm, svd>> /\ pc # "obey"
      /\ After(s) # "obey" /\ (Obeying(s) = "obey" <=> s = "main")
  BY DEF Control, After, Obeying, Services
<1>3. Queued' = Queued
  <2>1. CASE fifo[s] = <<>>
    BY <1>2, <2>1 DEF Control, Queued
  <2>2. CASE fifo[s] # <<>> /\ s = "log"
    <3>1. fifo'["main"] = fifo["main"] /\ pc' # "obey"
      BY <1>1, <1>2, <2>2 DEF Control, Services
    <3> QED BY <1>2, <3>1 DEF Queued
  <2>3. CASE fifo[s] # <<>> /\ s = "main"
    <3> DEFINE f == fifo["main"]
    <3>1. fifo'["main"] = Tail(f) /\ pc' = "obey" /\ letter' = Head(f)
      BY <1>1, <1>2, <2>3 DEF Control, Services
    <3>2. f \in Seq(Letters) /\ f # <<>>
      BY <1>1, <2>3 DEF Services
    <3> HIDE DEF f
    <3>3. <<Head(f)>> \o Tail(f) = f
      BY <3>2
    <3>4. Queued' = <<letter'>> \o fifo'["main"]
      BY <3>1 DEF Queued
    <3> QED BY <1>2, <3>1, <3>3, <3>4 DEF Queued, f
  <2> QED BY <2>1, <2>2, <2>3 DEF Services
<1>4. Wanted' = Wanted
  BY <1>2 DEF Wanted
<1> QED BY <1>2, <1>3, <1>4, ObedientSame DEF OInv

(* The letter is obeyed.                                                   *)
LEMMA ObeyObedient ==
  ASSUME OInv, NEW s \in Services, Obey(s), UNCHANGED <<asked, hasty>>
  PROVE  Obedient'
<1>1. /\ UNCHANGED <<asked, hasty, sigterm, fifo>>
      /\ pc = Obeying(s) /\ pc' # "obey"
      /\ Wanted' = IF s = "main" THEN Aim(letter, Wanted) ELSE Wanted
  BY ObeyFits DEF Obey, OInv, After
<1>2. CASE s = "log"
  <2>1. Queued' = Queued /\ Wanted' = Wanted
    BY <1>1, <1>2, QueuedSame DEF Obeying
  <2> QED BY <1>1, <2>1, ObedientSame DEF OInv
<1>3. CASE s = "main"
  <2>1. pc = "obey" /\ Wanted' = Aim(letter, Wanted) /\ letter \in Letters
    BY <1>1, <1>3, ObeyFits DEF Obeying, OInv
  <2>2. fifo["main"] \in Seq(Letters)
    BY Two DEF OInv, IInv, Rest
  <2>3. Queued = <<letter>> \o fifo["main"] /\ Queued' = fifo["main"]
    BY <1>1, <2>1 DEF Queued
  <2>4. Queued # <<>> /\ Head(Queued) = letter /\ Tail(Queued) = Queued'
    BY <2>1, <2>2, <2>3
  <2> SUFFICES ASSUME ~hasty, ~sigterm, Pending
               PROVE  Pending'
    BY <1>1, <2>4 DEF OInv, Obedient
  <2>5. CASE Queued = <<asked>> /\ asked \in Deciding
    <3>1. Wanted' = Aim(asked', Wanted') /\ asked' \in Deciding
      BY <1>1, <2>1, <2>4, <2>5 DEF Deciding, Aim
    <3>2. Obeys'
      BY <3>1 DEF Deciding, Obeys, Wanted, Aim
    <3>3. Queued' = <<>>
      BY <2>4, <2>5
    <3> QED BY <3>2, <3>3 DEF Pending
  <2>6. ASSUME NEW c \in Letters \ Deciding, Queued = <<c>>, Obeys PROVE Pending'
    <3>1. letter = c /\ Queued' = <<>>
      BY <2>4, <2>6
    <3>2. Wanted' = Wanted
      BY <2>1, <3>1 DEF Aim, Letters, Deciding
    <3>3. Obeys'
      BY <1>1, <2>6, <3>2, ObeysSame
    <3> QED BY <3>1, <3>3 DEF Pending
  <2>7. CASE Queued = <<"t", "c", "u">> /\ asked = "u"
    <3>1. Queued' = <<"c", "u">>
      BY <2>4, <2>7
    <3> QED BY <1>1, <2>7, <3>1 DEF Pending
  <2>8. CASE Queued = <<"c", "u">> /\ asked = "u"
    <3>1. Queued' = <<asked'>> /\ asked' \in Deciding
      BY <1>1, <2>4, <2>8 DEF Deciding
    <3> QED BY <3>1 DEF Pending
  <2> QED BY <2>4, <2>5, <2>6, <2>7, <2>8 DEF Pending
<1> QED BY <1>2, <1>3 DEF Services

(* A command is given.  One that is not sent is one runsv obeys already:   *)
(* the status file is true.                                                *)
LEMMA CommandObedient ==
  ASSUME OInv, NEW s \in Services, NEW a \in Acts(s), control(s, a)
  PROVE  Obedient' /\ asked' \in Deciding
<1>1. /\ fifo' = IF Needless(s, Head(a)) THEN fifo ELSE [fifo EXCEPT ![s] = @ \o a]
      /\ UNCHANGED <<sigterm, svd, pc, letter>> /\ Note(s, a[Len(a)])
  BY DEF control
<1>2. fifo \in [Services -> Seq(Letters)]
  BY DEF OInv, IInv, Rest
<1>3. CASE s = "log"
  <2>1. fifo'["main"] = fifo["main"] /\ asked' = asked /\ (hasty => hasty')
    BY <1>1, <1>2, <1>3 DEF Note, Services
  <2>2. Queued' = Queued /\ Wanted' = Wanted /\ (~hasty' => ~hasty)
    BY <1>1, <2>1 DEF Queued, Wanted
  <2> QED BY <1>1, <2>1, <2>2, ObeysSame DEF OInv, Obedient, Pending
<1>4. CASE s = "main"
  <2>1. asked' \in Deciding
    BY <1>1, <1>4 DEF Note, OInv, Deciding
  <2> SUFFICES ASSUME ~hasty' PROVE ~sigterm /\ Pending'
    BY <1>1, <2>1 DEF Obedient
  <2>2. ~hasty /\ fifo["main"] = <<>> /\ ~sigterm /\ pc # "obey"
    BY <1>1, <1>4, <1>2 DEF Note, Obeying
  <2>9. Queued = <<>> /\ Queued' = fifo'["main"] /\ Wanted' = Wanted
    BY <1>1, <2>2 DEF Queued, Wanted
  <2>3. Obeys
    BY <2>2, <2>9 DEF OInv, Obedient, Pending
  <2>4. ASSUME NEW c \in Letters, a = <<c>>, ~Needless("main", c) PROVE Pending'
    <3>0. fifo'["main"] = <<c>> /\ asked' = IF c \in Deciding THEN c ELSE asked
      BY <1>1, <1>2, <1>4, <2>2, <2>4 DEF Note, Services, Deciding
    <3>1. Queued' = <<c>> /\ asked' = IF c \in Deciding THEN c ELSE asked
      BY <2>9, <3>0
    <3>2. CASE c \in Deciding
      BY <3>1, <3>2 DEF Pending
    <3>3. CASE c \notin Deciding
      <4>1. Obeys'
        BY <2>9, <2>3, <3>1, <3>3, ObeysSame
      <4> QED BY <3>1, <3>3, <4>1 DEF Pending
    <3> QED BY <3>2, <3>3
  <2>5. ASSUME NEW c \in Letters, a = <<c>>, Needless("main", c) PROVE Pending'
    <3>1. c \in {"u", "d"} /\ status["main"].want = IF c = "u" THEN "up" ELSE "down"
      BY <2>5 DEF Needless
    <3>2. status["main"].want = Shown(svd["main"]).want
      <4> DEFINE told == status["main"]
      <4> DEFINE known == Shown(svd["main"])
      <4>1. told \in Svdir /\ known \in Svdir
        <5>1. svd["main"] \in Svdir /\ status["main"] \in TheShown
          BY Two, WorldIs DEF OInv, IInv, Fit, Sound, Worlds
        <5> QED BY <5>1, ShownType DEF TheShown
      <4>2. [told EXCEPT !.state = "down"] = [known EXCEPT !.state = "down"]
        BY Two, WorldIs DEF OInv, IInv, Fit, Sound, Told, Tells, TheShown
      <4> HIDE DEF told, known
      <4>3. told.want = [told EXCEPT !.state = "down"].want /\ known.want = [known EXCEPT !.state = "down"].want
        BY <4>1 DEF Svdir
      <4>4. told.want = known.want
        BY <4>2, <4>3
      <4> QED BY <4>4 DEF told, known
    <3>3. svd["main"].want = "up" <=> Shown(svd["main"]).want = "up"
      BY Two, WorldIs DEF OInv, IInv, Fit, Sound, Worlds, Svdir, Shown
    <3>4. Queued' = <<>> /\ asked' = c /\ svd' = svd
      BY <1>1, <1>4, <2>2, <2>9, <2>5, <3>1 DEF Note
    <3>5. Obeys'
      BY <3>1, <3>2, <3>3, <3>4 DEF Obeys
    <3> QED BY <3>4, <3>5 DEF Pending
  <2>6. CASE a = <<"t", "c", "u">>
    <3>1. ~Needless("main", Head(a)) /\ a[Len(a)] = "u"
      BY <2>6 DEF Needless
    <3>2. fifo'["main"] = <<"t", "c", "u">> /\ asked' = "u"
      BY <1>1, <1>2, <1>4, <2>2, <2>6, <3>1 DEF Note, Services
    <3>3. Queued' = <<"t", "c", "u">>
      BY <2>9, <3>2
    <3> QED BY <2>2, <3>2, <3>3 DEF Pending
  <2>7. a = <<"t", "c", "u">> \/ \E c \in Letters : a = <<c>>
    BY <1>4 DEF Acts
  <2> QED BY <2>2, <2>4, <2>5, <2>6, <2>7
<1> QED BY <1>3, <1>4 DEF Services

LEMMA StepObedient == ASSUME OInv, [Next]_vars PROVE Obedient' /\ Noticed' /\ asked' \in Deciding
<1>0. Rest /\ Fit(World, forgot) /\ Obedient /\ Noticed /\ asked \in Deciding
  BY DEF OInv, IInv
<1>1. CASE UNCHANGED vars
  <2>1. Queued' = Queued /\ Wanted' = Wanted /\ Noticed'
    BY <1>0, <1>1 DEF vars, rvars, Queued, Wanted, Noticed
  <2> QED BY <1>0, <1>1, <2>1, ObedientSame DEF vars, rvars
<1>2. CASE RunsvStep /\ StartDue
  <2>1. UNCHANGED <<asked, hasty, sigterm, fifo, wake>> /\ pc = "start" /\ pc' = "poll"
    BY <1>2 DEF RunsvStep, StartDue
  <2>2. Wanted' = Wanted
    BY <1>0, <1>2, StartDueFits
  <2> QED BY <1>0, <2>1, <2>2, QueuedSame, ObedientSame DEF Noticed
<1>3. CASE RunsvStep /\ Poll
  <2>1. UNCHANGED <<asked, hasty, sigterm, fifo, svd>> /\ pc = "poll" /\ pc' = "reap"
    BY <1>3 DEF RunsvStep, Poll
  <2> QED BY <1>0, <2>1, QueuedSame, ObedientSame DEF Noticed, Wanted
<1>4. ASSUME NEW p \in Pids, RunsvStep, Reap(p) PROVE Obedient' /\ Noticed' /\ asked' \in Deciding
  <2>1. UNCHANGED <<asked, hasty, sigterm, fifo, pc>> /\ pc = "reap"
    BY <1>4 DEF RunsvStep, Reap
  <2>2. Wanted' = Wanted
    BY <1>0, <1>4, ReapFits
  <2> QED BY <1>0, <2>1, <2>2, QueuedSame, ObedientSame DEF Noticed
<1>5. ASSUME NEW s \in Services, RunsvStep, Control(s) \/ Obey(s)
      PROVE  Obedient' /\ Noticed' /\ asked' \in Deciding
  <2>1. UNCHANGED <<asked, hasty>>
    BY <1>5 DEF RunsvStep
  <2>2. Obedient'
    BY <1>5, <2>1, ControlObedient, ObeyObedient
  <2>3. pc' \in {"obey", "obeylog", "log", "term"}
    BY <1>5 DEF Control, Obey, After, Obeying
  <2> QED BY <1>0, <2>1, <2>2, <2>3 DEF Noticed
<1>6. CASE RunsvStep /\ Term
  <2>1. /\ sigterm' = FALSE /\ UNCHANGED <<fifo, asked, hasty>>
        /\ pc = "term" /\ pc' # "obey"
    BY <1>6 DEF RunsvStep, Term
  <2>2. Wanted' = IF sigterm THEN "exit" ELSE Wanted
    BY <1>0, <1>6, TermFits
  <2>5. Queued' = Queued
    BY <2>1, QueuedSame
  <2>3. CASE sigterm
    <3>1. ~hasty => asked' = "x" /\ Queued' = <<>> /\ svd'["main"].want = "exit"
      BY <1>0, <2>1, <2>2, <2>3, <2>5 DEF Obedient, Wanted
    <3> QED BY <1>0, <2>1, <3>1 DEF Obedient, Pending, Obeys, Noticed
  <2>4. CASE ~sigterm
    BY <1>0, <2>1, <2>2, <2>4, <2>5, ObeysSame DEF Obedient, Pending, Noticed
  <2> QED BY <2>3, <2>4
<1>7. ASSUME NEW s \in Services, NEW a \in Acts(s), control(s, a)
      PROVE  Obedient' /\ Noticed' /\ asked' \in Deciding
  <2>1. UNCHANGED <<sigterm, wake, pc>>
    BY <1>7 DEF control
  <2> QED BY <1>0, <1>7, <2>1, CommandObedient DEF Noticed
<1>8. CASE TermSignal
  <2>1. sigterm' = TRUE /\ wake' = TRUE /\ asked' = "x" /\ UNCHANGED <<fifo, pc, letter>>
        /\ (~hasty' => fifo["main"] = <<>> /\ pc # "obey")
    BY <1>8 DEF TermSignal, Note, Obeying
  <2> QED BY <2>1 DEF Obedient, Noticed, Deciding, Queued
<1>9. ASSUME NEW p \in Pids, Exits(p) PROVE Obedient' /\ Noticed' /\ asked' \in Deciding
  <2>1. UNCHANGED <<asked, hasty, sigterm, fifo, pc, letter, svd>> /\ wake' = TRUE
    BY <1>9 DEF Exits
  <2>2. Queued' = Queued /\ Wanted' = Wanted
    BY <2>1 DEF Queued, Wanted
  <2> QED BY <1>0, <2>1, <2>2, ObedientSame DEF Noticed
<1> QED BY <1>1, <1>2, <1>3, <1>4, <1>5, <1>6, <1>7, <1>8, <1>9 DEF Next, RunsvStep, RunsvNext

(* runsv comes to want what sv or a SIGTERM asked for last, whatever its   *)
(* programs do meanwhile, if every command was given when the one before   *)
(* had been carried out (ctrl and the main loop of runsv.c, control of     *)
(* sv.c).                                                                  *)
THEOREM CommandsAreObeyed == Spec => []Obeyed
<1>1. Init => OInv
  <2>1. Init => IInv
    BY InitFits
  <2>2. ASSUME Init PROVE asked \in Deciding /\ Obedient /\ Noticed
    <3>1. svd["main"].want \in {"up", "down"}
      BY <2>2, Two DEF Init, Svdir
    <3>2. /\ Obeys /\ fifo["main"] = <<>> /\ pc = "start"
          /\ sigterm = FALSE /\ asked \in {"u", "d"}
      BY <2>2, <3>1, Two DEF Init, Obeys
    <3>3. Queued = <<>>
      BY <3>2 DEF Queued
    <3> QED BY <3>2, <3>3 DEF Deciding, Obedient, Pending, Noticed
  <2> QED BY <2>1, <2>2 DEF OInv
<1>2. OInv /\ [Next]_vars => OInv'
  BY StepIInv, StepObedient DEF OInv
<1>3. OInv => Obeyed
  <2> SUFFICES ASSUME OInv, Quiet, ~hasty PROVE Obeys
    BY DEF Obeyed
  <2>1. ~sigterm /\ fifo["main"] = <<>> /\ pc # "obey"
    BY Two DEF OInv, Noticed, Quiet
  <2>2. Queued = <<>>
    BY <2>1 DEF Queued
  <2> QED BY <2>1, <2>2 DEF OInv, Obedient, Pending
<1> QED BY <1>1, <1>2, <1>3, PTL DEF Spec
=============================================================================
