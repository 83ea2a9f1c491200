------------------------------- MODULE Syslog -------------------------------
(***************************************************************************)
(* The circular log of BusyBox: syslogd writes messages into a ring in     *)
(* shared memory, logread prints them once or follows them (-f).  Two      *)
(* semaphores keep them apart: sem 0 counts readers, sem 1 the writer;     *)
(* the readers' are undone by the kernel when a process ends (SEM_UNDO),   *)
(* the writer's are not.                                                   *)
(*                                                                         *)
(* A byte of the ring is 0 (NUL) or the number of the message it belongs   *)
(* to; a message has a length, its NUL included.  logread is built with    *)
(* REDUCED_LOCKING: it copies under the lock and prints after it.          *)
(***************************************************************************)
EXTENDS Integers, Sequences, FiniteSets

CONSTANTS
  Size,       \* shbuf->size: positions 0 .. Size - 1 are used
  Lengths,    \* of messages
  Readers, Followers,         \* logread, and which of them have -f or -F
  MaxMessages, MaxKills       \* bounds on messages and on ends of syslogd

ASSUME SyslogConstants ==
  /\ Size \in Nat \ {0, 1} /\ Lengths \subseteq 2 .. Size - 1
  /\ IsFiniteSet(Readers) /\ Followers \subseteq Readers
  /\ MaxMessages \in Nat /\ MaxKills \in Nat

VARIABLES
  data, tail,        \* the ring; position Size, which is never used, stays 0
  ring,              \* whether it is there: "none", "clearing" or "ready"
  sem,               \* <<readers, writer>>
  log,               \* the lengths of the messages syslogd has got so far
  lost,              \* how many of them were in a ring that has been cleared
  syslogd,           \* its program counter, and the bytes it has still to copy
  reader,            \* what each logread knows
  lag,               \* bytes written since a logread looked, Size for that or more
  kills

vars == <<data, tail, ring, sem, log, lost, syslogd, reader, lag, kills>>

Newest == Len(log)
Byte(m, i) == IF i = log[m] THEN 0 ELSE m  \* the i-th byte of message m
Empty == [i \in 0 .. Size |-> 0]
Gone == [pc |-> "gone", cur |-> 0, first |-> FALSE, said |-> -1]
Running == {r \in Readers : reader[r] # Gone}
Reading == {r \in Readers : reader[r].pc \in {"read", "torn"}}  \* under the lock
Within(n) == IF n > Size THEN Size ELSE n

-----------------------------------------------------------------------------
(* syslogd: log_to_shmem for each message.                                 *)

Receive(len) ==
  /\ syslogd.pc = "idle"
  /\ Newest < MaxMessages
  /\ log' = Append(log, len)
  /\ syslogd' = [pc |-> "lock", left |-> len]
  /\ UNCHANGED <<data, tail, ring, sem, lost, reader, lag, kills>>

\* mutation: syslogd does not wait for readers
NoWriter == sem[2] = 0
NobodyIn == sem = <<0, 0>>
Lock ==
  /\ syslogd.pc = "lock"
  /\ NobodyIn
  /\ sem' = <<sem[1], sem[2] + 1>>
  /\ syslogd' = [syslogd EXCEPT !.pc = "copy"]
  /\ UNCHANGED <<data, tail, ring, log, lost, reader, lag, kills>>

\* mutation: a message that ends at the end of the ring is not split
FitsAll(n) == tail + n <= Size
Fits(n) == tail + n < Size

(* One round of "again": what fits up to the end, the rest from the start. *)
Copy ==
  LET n == IF Fits(syslogd.left) THEN syslogd.left ELSE Size - tail
      done == log[Newest] - syslogd.left
  IN /\ syslogd.pc = "copy"
     /\ data' = [i \in 0 .. Size |-> IF i \in tail .. tail + n - 1
                                     THEN Byte(Newest, done + i - tail + 1) ELSE data[i]]
     /\ lag' = [r \in Readers |-> IF reader[r] = Gone THEN 0 ELSE Within(lag[r] + n)]
     /\ IF Fits(syslogd.left)
        THEN tail' = tail + n /\ syslogd' = [syslogd EXCEPT !.pc = "unlock"]
        ELSE tail' = 0 /\ syslogd' = [syslogd EXCEPT !.left = @ - n]
     /\ UNCHANGED <<ring, sem, log, lost, reader, kills>>

\* mutation: the writer's semaphore is never put down
KeepsRing == sem
LeavesRing == <<sem[1], sem[2] - 1>>
Unlock ==
  /\ syslogd.pc = "unlock"
  /\ sem' = LeavesRing
  /\ syslogd' = [pc |-> "idle", left |-> 0]
  /\ UNCHANGED <<data, tail, ring, log, lost, reader, lag, kills>>

(* SIGKILL at any step, or SIGTERM while it waits for the lock (semop then *)
(* fails): ring and semaphores stay as they are.                           *)
Kill ==
  /\ syslogd.pc # "dead"
  /\ kills < MaxKills
  /\ kills' = kills + 1
  /\ syslogd' = [pc |-> "dead", left |-> 0]
  /\ log' = IF syslogd.pc = "lock" THEN SubSeq(log, 1, Newest - 1) ELSE log
  /\ UNCHANGED <<data, tail, ring, sem, lost, reader, lag>>

(* SIGTERM between two messages: ipcsyslog_cleanup removes the ring and    *)
(* the semaphores, on which every logread ends with an error.              *)
Terminate ==
  /\ syslogd.pc = "idle"
  /\ kills < MaxKills
  /\ kills' = kills + 1
  /\ syslogd' = [pc |-> "dead", left |-> 0]
  /\ reader' = [r \in Readers |-> Gone] /\ lag' = [r \in Readers |-> 0]
  /\ data' = Empty /\ tail' = 0 /\ ring' = "none" /\ sem' = <<0, 0>> /\ lost' = Newest
  /\ UNCHANGED log

(* A new syslogd: ipcsyslog_init clears the ring it finds, size and tail   *)
(* with it, without a lock and under whoever copies from it.               *)
Torn(x) == [x EXCEPT !.pc = IF @ = "read" THEN "torn" ELSE @]
Restart ==
  /\ syslogd.pc = "dead"
  /\ syslogd' = [pc |-> "init", left |-> 0]
  /\ ring' = IF ring = "none" THEN "none" ELSE "clearing"
  /\ reader' = [r \in Readers |-> Torn(reader[r])]
  /\ lag' = [r \in Readers |-> IF r \in Running THEN Size ELSE 0]
  /\ UNCHANGED <<data, tail, sem, log, lost, kills>>

(* It is cleared; the semaphores are taken as they are.                    *)
Started ==
  /\ syslogd.pc = "init"
  /\ syslogd' = [pc |-> "idle", left |-> 0]
  /\ data' = Empty /\ tail' = 0 /\ ring' = "ready" /\ lost' = Newest
  /\ UNCHANGED <<sem, log, reader, lag, kills>>

-----------------------------------------------------------------------------
(* logread.                                                                *)

NUL(i) == CHOOSE j \in i .. Size : data[j] = 0 /\ \A k \in i .. j - 1 : data[k] # 0
Next1(i) == IF i + 1 >= Size THEN 0 ELSE i + 1

(* The string at position i of a copy, as what it is for somebody who      *)
(* reads it; empty strings print nothing.                                  *)
Starts(copy, i) == copy[i] # 0 /\ (i > 1 => copy[i - 1] = 0)
Text(copy, i) ==
  LET m == copy[i]
      whole == /\ i + log[m] - 2 <= Len(copy)
               /\ \A j \in i .. i + log[m] - 2 : copy[j] = m
               /\ i + log[m] - 2 < Len(copy) => copy[i + log[m] - 1] = 0
  IN IF whole THEN m ELSE 0
Texts(copy) ==
  LET printed[i \in 0 .. Len(copy)] ==
        IF i = 0 THEN <<>>
        ELSE IF Starts(copy, i) THEN Append(printed[i - 1], Text(copy, i))
        ELSE printed[i - 1]
  IN printed[Len(copy)]

(* Bytes from position c up to the tail.                                   *)
From(c) ==
  LET total == IF tail < c THEN tail - c + Size ELSE tail - c
  IN [i \in 1 .. total |-> data[(c + i - 1) % Size]]

(* tail is read before there is a lock.  A follower prints what there is   *)
(* first, with -F, or not, with -f.                                        *)
Begin(r, first) ==
  /\ reader[r] = Gone /\ ring # "none"
  /\ r \notin Followers => first
  /\ \E c \in IF ring = "clearing" THEN {tail, 0} ELSE {tail} :
       reader' = [reader EXCEPT ![r] = [pc |-> "lock", cur |-> c, first |-> first,
                                         said |-> -1]]
  /\ lag' = [lag EXCEPT ![r] = IF ring = "clearing" THEN Size ELSE 0]
  /\ UNCHANGED <<data, tail, ring, sem, log, lost, syslogd, kills>>

ReadLock(r) ==
  /\ reader[r].pc = "lock"
  /\ sem[2] = 0
  /\ sem' = <<sem[1] + 1, sem[2]>>
  /\ reader' = [reader EXCEPT ![r].pc = IF ring = "clearing" THEN "torn" ELSE "read"]
  /\ UNCHANGED <<data, tail, ring, log, lost, syslogd, lag, kills>>

\* mutation: the oldest byte is taken to be the start of a message
AtOnce(c) == c
\* mutation: one byte is skipped, not the rest of a message
NextByte(c) == Next1(c)
(* "Advance to oldest complete message": past the next NUL.                *)
Oldest(c) == IF NUL(c) < Size THEN Next1(NUL(c)) ELSE Next1(NUL(0))
NoMessage(c) == NUL(c) = Size /\ NUL(0) >= tail

\* mutation: a follower goes on from the start of what it has printed
StaysAt(c) == c
GoesOn(c) == tail

Start(r) == IF reader[r].first THEN Oldest(reader[r].cur) ELSE reader[r].cur
Printing(r) == Texts(From(Start(r)))
Last(p, said) == IF p = <<>> THEN said ELSE p[Len(p)]

\* mutation: the lock is kept
KeepsLock == sem
LeavesLock == <<sem[1] - 1, sem[2]>>

(* A follower goes on behind what it has printed.                          *)
Waits(c, said) == [pc |-> "lock", cur |-> c, first |-> FALSE, said |-> said]
Leaves(r, x) ==
  /\ sem' = LeavesLock
  /\ reader' = [reader EXCEPT ![r] = x]
  /\ lag' = [lag EXCEPT ![r] = IF @ = Size /\ x # Gone THEN @ ELSE 0]
  /\ UNCHANGED <<data, tail, ring, log, lost, syslogd, kills>>

(* Under the lock the bytes are copied; then they are printed.             *)
Read(r) ==
  /\ reader[r].pc = "read"
  /\ Leaves(r, IF r \in Followers THEN Waits(GoesOn(Start(r)), Last(Printing(r), reader[r].said))
               ELSE Gone)

(* The ring was cleared during that: what is copied is anything, from a    *)
(* size of 0 even memory that was never allocated.  A follower that lives  *)
(* through it goes on somewhere.                                           *)
ReadTorn(r) ==
  /\ reader[r].pc = "torn"
  /\ \/ Leaves(r, Gone)
     \/ r \in Followers /\ \E c \in 0 .. Size - 1 : Leaves(r, Waits(c, reader[r].said))

(* logread is interrupted: the kernel undoes its semaphore.                *)
Interrupt(r) ==
  /\ reader[r] # Gone
  /\ reader' = [reader EXCEPT ![r] = Gone]
  /\ lag' = [lag EXCEPT ![r] = 0]
  /\ sem' = IF r \in Reading THEN <<sem[1] - 1, sem[2]>> ELSE sem
  /\ UNCHANGED <<data, tail, ring, log, lost, syslogd, kills>>

-----------------------------------------------------------------------------
Init ==
  /\ data = Empty /\ tail = 0 /\ ring = "ready" /\ sem = <<0, 0>>
  /\ log = <<>> /\ lost = 0
  /\ syslogd = [pc |-> "idle", left |-> 0]
  /\ reader = [r \in Readers |-> Gone]
  /\ lag = [r \in Readers |-> 0]
  /\ kills = 0

Work == Lock \/ Copy \/ Unlock
Pass(r) == ReadLock(r) \/ Read(r) \/ ReadTorn(r)

Next ==
  \/ \E len \in Lengths : Receive(len)
  \/ Work \/ Kill \/ Terminate \/ Restart \/ Started
  \/ \E r \in Readers : (\E first \in BOOLEAN : Begin(r, first)) \/ Pass(r) \/ Interrupt(r)

Spec == Init /\ [][Next]_vars

(* The kernel lets syslogd in when there is nobody in the ring: semop      *)
(* tries the waiting operations when a reader leaves.                      *)
FairSpec == Spec /\ SF_vars(Lock) /\ WF_vars(Copy \/ Unlock)
                 /\ \A r \in Readers : SF_vars(ReadLock(r)) /\ WF_vars(Read(r) \/ ReadTorn(r))

-----------------------------------------------------------------------------
(* Properties.                                                             *)

TypeOK ==
  /\ data \in [0 .. Size -> 0 .. MaxMessages] /\ tail \in 0 .. Size - 1
  /\ ring \in {"none", "clearing", "ready"}
  /\ sem \in Nat \X {0, 1}
  /\ log \in Seq(Lengths) /\ lost \in 0 .. Newest
  /\ syslogd.pc \in {"idle", "lock", "copy", "unlock", "dead", "init"}
  /\ syslogd.left \in 0 .. Size
  /\ reader \in [Readers -> [pc : {"gone", "lock", "read", "torn"}, cur : 0 .. Size - 1,
                            first : BOOLEAN, said : -1 .. MaxMessages]]
  /\ lag \in [Readers -> 0 .. Size]

(* While a logread copies, syslogd writes no message, whatever was killed  *)
(* before; and unless a new syslogd clears the ring under it, which takes  *)
(* no lock, a logread never goes on without a message to go on from (it    *)
(* would print from memory that it has not allocated).                     *)
Apart ==
  \A r \in Reading :
    /\ syslogd.pc \notin {"copy", "unlock"}
    /\ reader[r].pc = "read" =>
         ring = "ready" /\ ~(reader[r].first /\ NoMessage(reader[r].cur))

(* The messages syslogd has written, all of them but one it waits with.    *)
Stored == IF syslogd.pc = "lock" THEN Newest - 1 ELSE Newest
Bytes(m) == LET sum[i \in m - 1 .. Stored] == IF i < m THEN 0 ELSE sum[i - 1] + log[i]
            IN sum[Stored]
(* The messages that are in the ring from start to end; one that starts at *)
(* the tail is not counted: logread cannot know that it is whole.          *)
Complete == {m \in lost + 1 .. Stored : Bytes(m) < Size}
InOrder(p) == \A i \in 1 .. Len(p) : p[i] # 0 /\ (i > 1 => p[i] = p[i - 1] + 1)
Once(r) == reader[r].pc = "read" /\ reader[r].first

(* What logread prints in one pass, even from an old tail, is messages as  *)
(* they were logged, in order and up to the newest in the ring; only a     *)
(* pass during which a new syslogd clears the ring may print anything.     *)
WholeMessages ==
  \A r \in Readers : Once(r) /\ Printing(r) # <<>> =>
    InOrder(Printing(r)) /\ Printing(r)[Len(Printing(r))] = Stored

AllPrinted(r) == {Printing(r)[i] : i \in 1 .. Len(Printing(r))} = Complete

(* If nothing was logged since it looked at the tail, it prints every      *)
(* message that is complete in the ring, wherever the ring begins.         *)
PrintsAll == \A r \in Readers : Once(r) /\ lag[r] = 0 => AllPrinted(r)

(* A follower prints each message once and in order, as long as it is not  *)
(* lapped; only the first text may be torn (it has read the tail while     *)
(* syslogd was going round the end of the ring).                           *)
FollowsInOrder ==
  \A r \in Followers :
    LET p == Printing(r)  said == reader[r].said IN
      reader[r].pc = "read" /\ ~reader[r].first /\ lag[r] < Size /\ p # <<>> =>
        /\ InOrder(IF said = -1 /\ p[1] = 0 THEN Tail(p) ELSE p)
        /\ said > 0 => p[1] = said + 1

(* As long as syslogd is not killed, each message gets into the ring: only *)
(* readers that overlap again and again can keep syslogd out for ever, one *)
(* at a time cannot, however often they come.                              *)
Crowded == sem[1] > 1
Logged == []<>Crowded \/ [](syslogd.pc = "lock" => <>(syslogd.pc # "lock" \/ kills > 0))

(* A follower that has its first pass behind it prints each message that   *)
(* syslogd then writes or a later one, unless it is interrupted or lapped  *)
(* or syslogd is killed.                                                   *)
Writes(m) == syslogd.pc = "copy" /\ Newest = m /\ syslogd.left = log[m]
Following(r) == r \in Running /\ ~reader[r].first
CatchesUp ==
  \A r \in Followers, m \in 1 .. MaxMessages :
    Following(r) /\ Writes(m) ~>
      reader[r].said >= m \/ ~Following(r) \/ lag[r] = Size \/ kills > 0
=============================================================================
