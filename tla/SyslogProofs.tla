---------------------------- MODULE SyslogProofs ----------------------------
(***************************************************************************)
(* syslogd and logread keep out of each other's way, and a logread always  *)
(* finds a message to go on from: proofs for any size of the ring, any     *)
(* lengths of messages and any finite number of readers.                   *)
(***************************************************************************)
EXTENDS Syslog, FiniteSetTheorems, SequenceTheorems, WellFoundedInduction, TLAPS

(* The types that the argument needs.  What a reader has said last is left *)
(* out: it comes from what is printed.                                     *)
ReaderOK(x) ==
  /\ x = [pc |-> x.pc, cur |-> x.cur, first |-> x.first, said |-> x.said]
  /\ x.pc \in {"gone", "lock", "read", "torn"} /\ x.cur \in 0 .. Size - 1
SyslogdOK(x) ==
  /\ x = [pc |-> x.pc, left |-> x.left]
  /\ x.pc \in {"idle", "lock", "copy", "unlock", "dead", "init"} /\ x.left \in 0 .. Size

Types ==
  /\ data \in [0 .. Size -> Nat] /\ tail \in 0 .. Size - 1
  /\ sem = <<sem[1], sem[2]>> /\ sem[1] \in Nat /\ sem[2] \in {0, 1}
  /\ log \in Seq(Lengths)
  /\ SyslogdOK(syslogd)
  /\ reader = [r \in Readers |-> reader[r]] /\ \A r \in Readers : ReaderOK(reader[r])

(* The two semaphores: whoever is in the ring is counted.                  *)
Counted ==
  /\ sem[1] = Cardinality(Reading)
  /\ sem[1] > 0 => sem[2] = 0
  /\ syslogd.pc \in {"copy", "unlock"} => sem[2] = 1

(* The byte before the tail is the end of a message, or nothing is written *)
(* yet.  It is not so when syslogd was killed in the ring; then sem 1 has  *)
(* its one for ever.                                                       *)
EndsBefore(d, t) == d[IF t = 0 THEN Size - 1 ELSE t - 1] = 0
Ring ==
  /\ data[Size] = 0
  /\ sem[2] = 0 \/ syslogd.pc = "unlock" => EndsBefore(data, tail)
  /\ syslogd.pc \in {"lock", "copy"} => Newest > 0
  /\ syslogd.pc = "copy" /\ syslogd.left = 0 => EndsBefore(data, tail)

(* A ring is being cleared from the start of a syslogd until it has gone   *)
(* through; who reads meanwhile is torn, and nobody reads without a ring.  *)
Cleared ==
  /\ ring \in {"none", "clearing", "ready"}
  /\ \A r \in Readers : reader[r].pc # "gone" => ring # "none"
  /\ syslogd.pc \in {"idle", "lock", "copy", "unlock"} => ring = "ready"
  /\ syslogd.pc = "init" => ring # "ready"
  /\ \A r \in Readers : reader[r].pc = "read" => ring = "ready"

IInv == Types /\ Counted /\ Ring

-----------------------------------------------------------------------------
(* A string that begins at c ends somewhere, at the first NUL.             *)
LEMMA SmallestNumber ==
  ASSUME NEW T \in SUBSET Nat, T # {}
  PROVE  \E x \in T : \A y \in T : x <= y
<1> DEFINE R == OpToRel(<, Nat)
<1>1. IsWellFoundedOn(R, Nat)
  BY NatLessThanWellFounded, Zenon
<1>2. \A x, y \in Nat : y < x => <<y, x>> \in R
  BY Zenon DEF OpToRel
<1> HIDE DEF R
<1>3. PICK x \in T : \A y \in T : ~ (<<y, x>> \in R)
  BY <1>1, WFMin
<1>4. \A y \in T : ~(y < x)
  BY <1>2, <1>3
<1> QED BY <1>4

LEMMA FirstNUL ==
  ASSUME NEW c \in 0 .. Size, NEW e \in c .. Size, data[e] = 0, Size \in Nat
  PROVE  NUL(c) \in c .. e
<1> DEFINE T == {j \in c .. Size : data[j] = 0}
<1>1. PICK j \in T : \A k \in T : j <= k
  <2>1. T \in SUBSET Nat /\ e \in T
    OBVIOUS
  <2> QED BY <2>1, SmallestNumber
<1>2. \A k \in c .. j - 1 : data[k] # 0
  BY <1>1
<1>3. \E i \in c .. Size : data[i] = 0 /\ \A k \in c .. i - 1 : data[k] # 0
  BY <1>1, <1>2
<1>4. NUL(c) \in c .. Size /\ \A k \in c .. NUL(c) - 1 : data[k] # 0
  BY <1>3 DEF NUL
<1>5. ~(e \in c .. NUL(c) - 1)
  BY <1>4
<1> QED BY <1>4, <1>5

(* A reader that comes or goes is counted once.                            *)
LEMMA OneMore ==
  ASSUME NEW r \in Readers, NEW S \in SUBSET Readers
  PROVE  /\ Cardinality(S) \in Nat /\ (Cardinality(S) = 0 <=> S = {})
         /\ r \notin S => Cardinality(S \cup {r}) = Cardinality(S) + 1
         /\ r \in S => Cardinality(S \ {r}) = Cardinality(S) - 1
<1>1. IsFiniteSet(S)
  BY FS_Subset, SyslogConstants
<1> QED BY <1>1, FS_EmptySet, FS_AddElement, FS_RemoveElement, FS_CardinalityType

LEMMA InitSound == Init => IInv
<1> SUFFICES ASSUME Init PROVE IInv
  OBVIOUS
<1>1. Reading = {}
  BY DEF Init, Reading, Gone
<1>2. Types
  BY SyslogConstants DEF Init, Types, ReaderOK, SyslogdOK, Gone, Empty
<1>3. Counted
  BY <1>1, FS_EmptySet DEF Init, Counted
<1>4. Ring
  BY SyslogConstants DEF Init, Ring, EndsBefore, Empty
<1> QED BY <1>2, <1>3, <1>4 DEF IInv

-----------------------------------------------------------------------------
(* syslogd.                                                                *)

LEMMA Field ==
  ASSUME Types
  PROVE  /\ syslogd = [pc |-> syslogd.pc, left |-> syslogd.left]
         /\ syslogd.left \in 0 .. Size /\ Size \in Nat /\ Size > 1
         /\ Newest \in Nat /\ (Newest > 0 => log[Newest] \in 2 .. Size - 1)
<1>1. Newest \in Nat
  BY LenProperties DEF Types, Newest
<1>2. Newest > 0 => log[Newest] \in Lengths
  BY <1>1, ElementOfSeq DEF Types, Newest
<1> QED BY <1>1, <1>2, SyslogConstants DEF Types, SyslogdOK

LEMMA ReceiveSound == ASSUME IInv, NEW len \in Lengths, Receive(len) PROVE IInv'
<1>1. /\ syslogd' = [pc |-> "lock", left |-> len] /\ len \in 0 .. Size /\ syslogd.pc = "idle"
      /\ log' = Append(log, len) /\ UNCHANGED <<data, tail, sem, reader>>
  BY SyslogConstants DEF Receive
<1>2. log' \in Seq(Lengths) /\ Newest' > 0
  BY <1>1, Field, AppendProperties DEF IInv, Types, Newest
<1>3. Types'
  BY <1>1, <1>2 DEF IInv, Types, SyslogdOK, ReaderOK
<1>4. Counted'
  BY <1>1 DEF IInv, Counted, Reading
<1>5. Ring'
  BY <1>1, <1>2 DEF IInv, Ring
<1> QED BY <1>3, <1>4, <1>5 DEF IInv

LEMMA LockSound == ASSUME IInv, Lock PROVE IInv'
<1>1. /\ syslogd' = [pc |-> "copy", left |-> syslogd.left] /\ syslogd.pc = "lock"
      /\ sem = <<0, 0>> /\ sem' = <<0, 1>> /\ UNCHANGED <<data, tail, log, reader>>
  BY Field DEF Lock, NobodyIn, IInv
<1>2. Types'
  BY <1>1, Field DEF IInv, Types, SyslogdOK, ReaderOK
<1>3. Counted'
  BY <1>1 DEF IInv, Counted, Reading
<1>4. Ring'
  BY <1>1 DEF IInv, Ring, Newest
<1> QED BY <1>2, <1>3, <1>4 DEF IInv

(* A message ends with its NUL, where the new tail is.                     *)
LEMMA CopySound == ASSUME IInv, Copy PROVE IInv'
<1> DEFINE n == IF Fits(syslogd.left) THEN syslogd.left ELSE Size - tail
           done == log[Newest] - syslogd.left
           byte(i) == Byte(Newest, done + i - tail + 1)
<1>1. /\ syslogd.pc = "copy" /\ UNCHANGED <<sem, log, reader>>
      /\ data' = [i \in 0 .. Size |-> IF i \in tail .. tail + n - 1 THEN byte(i) ELSE data[i]]
      /\ IF Fits(syslogd.left)
         THEN tail' = tail + n /\ syslogd' = [pc |-> "unlock", left |-> syslogd.left]
         ELSE tail' = 0 /\ syslogd' = [pc |-> "copy", left |-> syslogd.left - n]
  BY Field DEF Copy, IInv
<1>2. /\ Size \in Nat /\ Size > 1 /\ tail \in 0 .. Size - 1 /\ syslogd.left \in 0 .. Size
      /\ Newest \in Nat /\ Newest > 0 /\ log[Newest] \in 2 .. Size - 1
  BY <1>1, Field DEF IInv, Types, Ring
<1>3. n \in 0 .. Size /\ tail + n <= Size /\ n <= syslogd.left
  BY <1>2 DEF Fits
<1>4. tail' \in 0 .. Size - 1 /\ SyslogdOK(syslogd')
  BY <1>1, <1>2, <1>3 DEF Fits, SyslogdOK
<1>5. data' \in [0 .. Size -> Nat] /\ data'[Size] = 0
  <2>1. \A i \in 0 .. Size : byte(i) \in Nat
    BY <1>2 DEF Byte
  <2>2. ~(Size \in tail .. tail + n - 1)
    BY <1>2, <1>3
  <2> HIDE DEF byte, n
  <2> QED BY <1>1, <1>2, <2>1, <2>2 DEF IInv, Types, Ring
<1>6. ASSUME n = syslogd.left, n > 0 PROVE data'[tail + n - 1] = 0
  <2>1. tail + n - 1 \in 0 .. Size /\ tail + n - 1 \in tail .. tail + n - 1
    BY <1>2, <1>3, <1>6
  <2>2. done + (tail + n - 1) - tail + 1 = log[Newest]
    BY <1>2, <1>3, <1>6
  <2>3. byte(tail + n - 1) = 0
    BY <2>2 DEF Byte
  <2> HIDE DEF byte, n
  <2> QED BY <1>1, <2>1, <2>3
<1>7. Types'
  BY <1>1, <1>4, <1>5 DEF IInv, Types, ReaderOK
<1>8. Counted'
  BY <1>1 DEF IInv, Counted, Reading
<1>9. CASE Fits(syslogd.left)
  <2>1. n = syslogd.left /\ tail' = tail + n /\ syslogd'.pc = "unlock"
    BY <1>1, <1>9
  <2>2. CASE n = 0
    <3>1. \A i \in 0 .. Size : ~(i \in tail .. tail + n - 1)
      BY <1>2, <2>2
    <3>2. \A i \in 0 .. Size : data'[i] = data[i]
      BY <1>1, <3>1
    <3>3. EndsBefore(data, tail) /\ tail' = tail
      BY <1>1, <1>2, <2>1, <2>2 DEF IInv, Ring
    <3>4. EndsBefore(data', tail')
      BY <1>2, <3>2, <3>3 DEF EndsBefore
    <3> QED BY <1>5, <1>7, <1>8, <2>1, <3>4 DEF IInv, Ring
  <2>3. CASE n > 0
    <3>1. EndsBefore(data', tail')
      BY <1>2, <1>3, <1>6, <2>1, <2>3 DEF EndsBefore
    <3> QED BY <1>5, <1>7, <1>8, <2>1, <3>1 DEF IInv, Ring
  <2> QED BY <1>3, <2>2, <2>3
<1>10. CASE ~Fits(syslogd.left)
  <2>1. /\ n = Size - tail /\ n > 0 /\ tail' = 0 /\ syslogd'.pc = "copy"
        /\ syslogd'.left = syslogd.left - n
    BY <1>1, <1>2, <1>10
  <2>2. syslogd'.left = 0 => EndsBefore(data', tail')
    BY <1>2, <1>3, <1>6, <2>1 DEF EndsBefore
  <2>3. sem'[2] = 1 /\ Newest' = Newest
    BY <1>1 DEF IInv, Counted, Newest
  <2> QED BY <1>2, <1>5, <1>7, <1>8, <2>1, <2>2, <2>3 DEF IInv, Ring
<1> QED BY <1>9, <1>10

LEMMA UnlockSound == ASSUME IInv, Unlock PROVE IInv'
<1>1. /\ syslogd' = [pc |-> "idle", left |-> 0] /\ syslogd.pc = "unlock" /\ sem[2] = 1 /\ sem[1] = 0
      /\ sem' = <<sem[1], 0>> /\ UNCHANGED <<data, tail, log, reader>>
  BY DEF Unlock, LeavesRing, IInv, Types, Counted
<1>2. Types'
  BY <1>1, Field DEF IInv, Types, SyslogdOK, ReaderOK
<1>3. Counted'
  BY <1>1 DEF IInv, Counted, Reading
<1>4. Ring'
  BY <1>1 DEF IInv, Ring, Newest
<1> QED BY <1>2, <1>3, <1>4 DEF IInv

(* The ring stays as it is, and so does the one of sem 1.                  *)
LEMMA KillSound == ASSUME IInv, Kill PROVE IInv'
<1>1. /\ syslogd' = [pc |-> "dead", left |-> 0] /\ UNCHANGED <<data, tail, sem, reader>>
      /\ log' = IF syslogd.pc = "lock" THEN SubSeq(log, 1, Newest - 1) ELSE log
  BY DEF Kill
<1>2. log' \in Seq(Lengths)
  <2>1. CASE syslogd.pc = "lock"
    <3>1. 1 \in 1 .. Newest + 1 /\ Newest - 1 \in 0 .. Newest /\ log \in Seq(Lengths)
      BY <2>1, Field DEF IInv, Types, Ring
    <3>2. \A i \in 1 .. Newest - 1 : log[i] \in Lengths
      BY <3>1, Field, ElementOfSeq DEF IInv, Newest
    <3> QED BY <1>1, <2>1, <3>1, <3>2, SubSeqProperties DEF Newest
  <2>2. CASE syslogd.pc # "lock"
    BY <1>1, <2>2 DEF IInv, Types
  <2> QED BY <2>1, <2>2
<1>3. Types'
  BY <1>1, <1>2, Field DEF IInv, Types, SyslogdOK, ReaderOK
<1>4. Counted'
  BY <1>1 DEF IInv, Counted, Reading
<1>5. Ring'
  BY <1>1 DEF IInv, Ring
<1> QED BY <1>3, <1>4, <1>5 DEF IInv

LEMMA EmptySound ==
  ASSUME Types
  PROVE  Empty \in [0 .. Size -> Nat] /\ Empty[Size] = 0 /\ EndsBefore(Empty, 0) /\ 0 \in 0 .. Size - 1
BY Field DEF Empty, EndsBefore

LEMMA TerminateSound == ASSUME IInv, Terminate PROVE IInv'
<1>1. /\ syslogd' = [pc |-> "dead", left |-> 0] /\ reader' = [r \in Readers |-> Gone]
      /\ data' = Empty /\ tail' = 0 /\ sem' = <<0, 0>> /\ log' = log
  BY DEF Terminate
<1>2. Reading' = {}
  BY <1>1 DEF Reading, Gone
<1>3. Types'
  BY <1>1, Field, EmptySound DEF IInv, Types, SyslogdOK, ReaderOK, Gone
<1>4. Counted'
  BY <1>1, <1>2, FS_EmptySet DEF Counted
<1>5. Ring'
  BY <1>1, EmptySound DEF IInv, Ring
<1> QED BY <1>3, <1>4, <1>5 DEF IInv

(* Whoever reads while the ring is cleared reads on.                       *)
LEMMA TornReader ==
  ASSUME NEW x, ReaderOK(x)
  PROVE  /\ ReaderOK(Torn(x)) /\ Torn(x).pc = IF x.pc = "read" THEN "torn" ELSE x.pc
         /\ Torn(x).cur = x.cur /\ Torn(x).first = x.first /\ Torn(x).said = x.said
<1>1. PICK p, u, f, d : /\ x = [pc |-> p, cur |-> u, first |-> f, said |-> d]
                        /\ u \in 0 .. Size - 1 /\ p \in {"gone", "lock", "read", "torn"}
  BY DEF ReaderOK
<1> DEFINE q == IF p = "read" THEN "torn" ELSE p
           z == [pc |-> q, cur |-> u, first |-> f, said |-> d]
<1>2. Torn(x) = z
  BY <1>1 DEF Torn
<1>3. z.pc = q /\ z.cur = u /\ z.first = f /\ z.said = d /\ ReaderOK(z)
  BY <1>1 DEF ReaderOK
<1> HIDE DEF z
<1> QED BY <1>1, <1>2, <1>3

LEMMA RestartSound == ASSUME IInv, Restart PROVE IInv'
<1>1. /\ syslogd' = [pc |-> "init", left |-> 0] /\ UNCHANGED <<data, tail, sem, log>>
      /\ reader' = [r \in Readers |-> Torn(reader[r])] /\ syslogd.pc = "dead"
  BY DEF Restart
<1>2. \A r \in Readers : /\ ReaderOK(reader'[r])
                         /\ reader'[r].pc \in {"read", "torn"} <=> reader[r].pc \in {"read", "torn"}
  BY <1>1, TornReader DEF IInv, Types
<1>3. reader' = [r \in Readers |-> reader'[r]]
  BY <1>1
<1>4. Types'
  BY <1>1, <1>2, <1>3, Field DEF IInv, Types, SyslogdOK, ReaderOK
<1>5. Reading' = Reading
  BY <1>2 DEF Reading
<1>6. Counted'
  BY <1>1, <1>5 DEF IInv, Counted
<1>7. Ring'
  BY <1>1 DEF IInv, Ring
<1> QED BY <1>4, <1>6, <1>7 DEF IInv

LEMMA StartedSound == ASSUME IInv, Started PROVE IInv'
<1>1. /\ syslogd' = [pc |-> "idle", left |-> 0] /\ data' = Empty /\ tail' = 0
      /\ UNCHANGED <<sem, log, reader>>
  BY DEF Started
<1>3. Types'
  BY <1>1, Field, EmptySound DEF IInv, Types, SyslogdOK, ReaderOK
<1>4. Counted'
  BY <1>1 DEF IInv, Counted, Reading
<1>5. Ring'
  BY <1>1, EmptySound DEF IInv, Ring
<1> QED BY <1>3, <1>4, <1>5 DEF IInv

-----------------------------------------------------------------------------
(* logread.                                                                *)

In(x) == x.pc \in {"read", "torn"}

(* A reader enters the ring, leaves it or stays where it is.               *)
LEMMA ReaderMoves ==
  ASSUME IInv, NEW r \in Readers, NEW y, ReaderOK(y),
         reader' = [reader EXCEPT ![r] = y], UNCHANGED <<data, tail, log, syslogd>>,
         \/ In(y) /\ ~In(reader[r]) /\ sem[2] = 0 /\ sem' = <<sem[1] + 1, sem[2]>>
         \/ ~In(y) /\ In(reader[r]) /\ sem' = <<sem[1] - 1, sem[2]>>
         \/ ~In(y) /\ ~In(reader[r]) /\ sem' = sem
  PROVE  IInv'
<1>1. reader'[r] = y /\ \A q \in Readers \ {r} : reader'[q] = reader[q]
  BY DEF IInv, Types
<1>2. Reading' = IF In(y) THEN Reading \cup {r} ELSE Reading \ {r}
  BY <1>1 DEF Reading, In
<1>3. r \in Reading <=> In(reader[r])
  BY DEF Reading, In
<1>4. Reading \in SUBSET Readers
  BY DEF Reading
<1>5. sem'[1] = Cardinality(Reading') /\ sem'[2] = sem[2] /\ sem'[1] \in Nat
      /\ sem' = <<sem'[1], sem'[2]>>
  <2>1. sem[1] = Cardinality(Reading) /\ sem[1] \in Nat /\ sem = <<sem[1], sem[2]>>
    BY DEF IInv, Counted, Types
  <2>2. CASE In(y) /\ ~In(reader[r])
    BY <1>2, <1>3, <1>4, <2>1, <2>2, OneMore
  <2>3. CASE ~In(y) /\ In(reader[r])
    <3>1. sem[1] # 0
      BY <1>3, <1>4, <2>1, <2>3, OneMore
    <3> QED BY <1>2, <1>3, <1>4, <2>1, <2>3, <3>1, OneMore
  <2>4. CASE ~In(y) /\ ~In(reader[r])
    <3>1. Reading' = Reading /\ sem' = sem
      BY <1>2, <1>3, <2>4
    <3> QED BY <2>1, <3>1
  <2> QED BY <2>2, <2>3, <2>4
<1>6. Types'
  BY <1>1, <1>5 DEF IInv, Types, SyslogdOK, ReaderOK
<1>7. Counted'
  BY <1>5 DEF IInv, Types, Counted
<1>8. Ring'
  BY <1>5 DEF IInv, Ring, Newest
<1> QED BY <1>6, <1>7, <1>8 DEF IInv

LEMMA ReaderField ==
  ASSUME Types, NEW r \in Readers
  PROVE  ReaderOK(reader[r]) /\ tail \in 0 .. Size - 1 /\ Size \in Nat /\ Size > 1
BY Field DEF Types

LEMMA GoneReader == ASSUME Types PROVE ReaderOK(Gone) /\ ~In(Gone)
<1>1. 0 \in 0 .. Size - 1
  BY Field
<1> QED BY <1>1 DEF ReaderOK, Gone, In

LEMMA EnteringReader ==
  ASSUME NEW x, ReaderOK(x), NEW q \in {"read", "torn"}
  PROVE  LET y == [x EXCEPT !.pc = q] 
         IN  /\ ReaderOK(y) /\ In(y) /\ y.pc = q
             /\ y.cur = x.cur /\ y.first = x.first /\ y.said = x.said
<1>1. PICK p, u, f, d : x = [pc |-> p, cur |-> u, first |-> f, said |-> d] /\ u \in 0 .. Size - 1
  BY DEF ReaderOK
<1> DEFINE z == [pc |-> q, cur |-> u, first |-> f, said |-> d]
<1>2. [x EXCEPT !.pc = q] = z
  BY <1>1
<1>3. ReaderOK(z) /\ In(z) /\ z.pc = q /\ z.cur = u /\ z.first = f /\ z.said = d
  BY <1>1 DEF ReaderOK, In
<1> HIDE DEF z
<1> QED BY <1>2, <1>3

LEMMA WaitingReader ==
  ASSUME NEW c \in 0 .. Size - 1, NEW said
  PROVE  ReaderOK(Waits(c, said)) /\ ~In(Waits(c, said))
BY DEF Waits, ReaderOK, In

LEMMA BeginSound == ASSUME IInv, NEW r \in Readers, NEW first \in BOOLEAN, Begin(r, first) PROVE IInv'
<1> DEFINE y(c) == [pc |-> "lock", cur |-> c, first |-> first, said |-> -1]
<1>1. PICK c \in {tail, 0} : reader' = [reader EXCEPT ![r] = y(c)]
  BY DEF Begin
<1>2. c \in 0 .. Size - 1
  BY ReaderField DEF IInv
<1>3. ReaderOK(y(c)) /\ ~In(y(c))
  BY <1>2 DEF ReaderOK, In
<1>4. ~In(reader[r]) /\ UNCHANGED <<data, tail, sem, log, syslogd>>
  BY DEF Begin, Gone, In
<1> HIDE DEF y
<1> QED BY <1>1, <1>3, <1>4, ReaderMoves

LEMMA ReadLockSound == ASSUME IInv, NEW r \in Readers, ReadLock(r) PROVE IInv'
<1> DEFINE q == IF ring = "clearing" THEN "torn" ELSE "read"
           y == [reader[r] EXCEPT !.pc = q]
<1>1. ReaderOK(y) /\ In(y)
  BY ReaderField, EnteringReader DEF IInv
<1>2. ~In(reader[r])
  BY DEF ReadLock, In
<1>3. /\ reader' = [reader EXCEPT ![r] = y] /\ UNCHANGED <<data, tail, log, syslogd>>
      /\ sem[2] = 0 /\ sem' = <<sem[1] + 1, sem[2]>>
  BY DEF ReadLock
<1> HIDE DEF y
<1> QED BY <1>1, <1>2, <1>3, ReaderMoves

LEMMA LeavesSound ==
  ASSUME IInv, NEW r \in Readers, In(reader[r]), NEW y, ReaderOK(y), ~In(y), Leaves(r, y)
  PROVE  IInv'
<1>1. sem' = <<sem[1] - 1, sem[2]>> /\ UNCHANGED <<data, tail, log, syslogd>>
  BY DEF Leaves, LeavesLock
<1>2. reader' = [reader EXCEPT ![r] = y]
  BY DEF Leaves
<1> QED BY <1>1, <1>2, ReaderMoves

LEMMA ReadSound == ASSUME IInv, NEW r \in Readers, Read(r) PROVE IInv'
<1> DEFINE w == Waits(GoesOn(Start(r)), Last(Printing(r), reader[r].said))
<1>1. ReaderOK(w) /\ ~In(w)
  BY ReaderField, WaitingReader DEF IInv, GoesOn
<1>2. ReaderOK(Gone) /\ ~In(Gone)
  BY GoneReader DEF IInv
<1>3. Leaves(r, IF r \in Followers THEN w ELSE Gone) /\ In(reader[r])
  BY DEF Read, In
<1> HIDE DEF w
<1> QED BY <1>1, <1>2, <1>3, LeavesSound

LEMMA ReadTornSound == ASSUME IInv, NEW r \in Readers, ReadTorn(r) PROVE IInv'
<1>1. ReaderOK(Gone) /\ ~In(Gone)
  BY GoneReader DEF IInv
<1>2. In(reader[r])
  BY DEF ReadTorn, In
<1>3. CASE Leaves(r, Gone)
  BY <1>1, <1>2, <1>3, LeavesSound
<1>4. ASSUME NEW c \in 0 .. Size - 1, Leaves(r, Waits(c, reader[r].said)) PROVE IInv'
  BY <1>2, <1>4, WaitingReader, LeavesSound
<1> QED BY <1>3, <1>4 DEF ReadTorn

LEMMA InterruptSound == ASSUME IInv, NEW r \in Readers, Interrupt(r) PROVE IInv'
<1>1. ReaderOK(Gone) /\ ~In(Gone)
  BY GoneReader DEF IInv
<1>2. /\ reader' = [reader EXCEPT ![r] = Gone] /\ UNCHANGED <<data, tail, log, syslogd>>
      /\ sem' = IF In(reader[r]) THEN <<sem[1] - 1, sem[2]>> ELSE sem
  BY DEF Interrupt, In, Reading
<1> HIDE DEF In
<1> QED BY <1>1, <1>2, ReaderMoves

-----------------------------------------------------------------------------
LEMMA StepSound == ASSUME IInv, [Next]_vars PROVE IInv'
<1>1. CASE UNCHANGED vars
  <2>1. IInv' <=> IInv
    BY <1>1 DEF vars, IInv, Types, Counted, Ring, Reading, Newest, ReaderOK, SyslogdOK
  <2> QED BY <2>1
<1>2. CASE Next
  BY <1>2, ReceiveSound, LockSound, CopySound, UnlockSound, KillSound, TerminateSound, RestartSound,
     StartedSound, BeginSound, ReadLockSound, ReadSound, ReadTornSound, InterruptSound DEF Next, Work, Pass
<1> QED BY <1>1, <1>2

(* The semaphores count who is in the ring, and the ring ends with a whole *)
(* message whenever a reader may enter.                                    *)
THEOREM SyslogInvariant == Spec => []IInv
BY InitSound, StepSound, PTL DEF Spec

(* A reader that copies is alone in the ring, and finds a message.         *)
LEMMA Alone ==
  ASSUME IInv, NEW r \in Readers, r \in Reading
  PROVE  sem[2] = 0 /\ syslogd.pc \notin {"copy", "unlock"} /\ ~NoMessage(reader[r].cur)
<1> DEFINE c == reader[r].cur
<1>1. /\ Types /\ c \in 0 .. Size - 1 /\ tail \in 0 .. Size - 1 /\ Size \in Nat /\ Size > 1
  BY ReaderField DEF IInv, ReaderOK
<1>2. Reading # {} /\ Reading \in SUBSET Readers
  BY DEF Reading
<1>3. sem[1] > 0
  <2>1. sem[1] = Cardinality(Reading) /\ sem[1] \in Nat
    BY DEF IInv, Counted, Types
  <2>2. sem[1] # 0
    BY <1>2, <2>1, OneMore
  <2> QED BY <2>1, <2>2
<1>4. sem[2] = 0 /\ syslogd.pc \notin {"copy", "unlock"}
  BY <1>3 DEF IInv, Counted
<1>5. EndsBefore(data, tail)
  BY <1>4 DEF IInv, Ring
<1>6. CASE tail = 0
  <2>1. c \in 0 .. Size /\ Size - 1 \in c .. Size /\ data[Size - 1] = 0
    BY <1>1, <1>5, <1>6 DEF EndsBefore
  <2>2. NUL(c) \in c .. Size - 1
    BY <1>1, <2>1, FirstNUL
  <2> QED BY <1>1, <1>4, <2>2 DEF NoMessage
<1>7. CASE tail # 0
  <2>1. 0 \in 0 .. Size /\ tail - 1 \in 0 .. Size /\ data[tail - 1] = 0
    BY <1>1, <1>5, <1>7 DEF EndsBefore
  <2>2. NUL(0) \in 0 .. tail - 1
    BY <1>1, <2>1, FirstNUL
  <2> QED BY <1>1, <1>4, <1>7, <2>2 DEF NoMessage
<1> QED BY <1>6, <1>7

LEMMA ClearedInit == Init => Cleared
BY DEF Init, Cleared, Gone

LEMMA ClearedStep == ASSUME IInv, Cleared, [Next]_vars PROVE Cleared'
<1>0. Types
  BY DEF IInv
<1>1. CASE UNCHANGED vars
  BY <1>1 DEF vars, Cleared
<1>2. CASE (\E len \in Lengths : Receive(len)) \/ Lock \/ Unlock \/ Kill
  BY <1>2, Field, <1>0 DEF Receive, Lock, Unlock, Kill, Cleared
<1>3. CASE Copy
  BY <1>3, Field, <1>0 DEF Copy, Cleared
<1>4. CASE Terminate
  BY <1>4 DEF Terminate, Cleared, Gone
<1>5. CASE Restart
  <2>1. /\ \A r \in Readers : reader'[r] = Torn(reader[r])
        /\ syslogd'.pc = "init"
    BY <1>5 DEF Restart
  <2>2. \A r \in Readers : /\ reader'[r].pc # "gone" => reader[r].pc # "gone"
                           /\ reader'[r].pc # "read"
    BY <1>0, <2>1, TornReader, ReaderField
  <2> QED BY <1>5, <2>1, <2>2 DEF Restart, Cleared
<1>6. CASE Started
  BY <1>6 DEF Started, Cleared
<1>7. ASSUME NEW r \in Readers, NEW first \in BOOLEAN, Begin(r, first) PROVE Cleared'
  <2>1. PICK c : reader' = [reader EXCEPT ![r] = [pc |-> "lock", cur |-> c, first |-> first,
                                                    said |-> -1]]
    BY <1>7 DEF Begin
  <2>2. reader'[r].pc = "lock" /\ \A q \in Readers \ {r} : reader'[q] = reader[q]
    BY <1>0, <2>1 DEF Types
  <2> QED BY <1>7, <2>2 DEF Begin, Cleared
<1>8. ASSUME NEW r \in Readers, ReadLock(r) PROVE Cleared'
  <2> DEFINE q == IF ring = "clearing" THEN "torn" ELSE "read"
             y == [reader[r] EXCEPT !.pc = q]
  <2>1. reader' = [reader EXCEPT ![r] = y] /\ UNCHANGED <<syslogd, ring>> /\ reader[r].pc = "lock"
    BY <1>8 DEF ReadLock
  <2>2. y.pc = q
    BY <1>0, ReaderField, EnteringReader
  <2> HIDE DEF y
  <2>3. reader'[r] = y /\ \A x \in Readers \ {r} : reader'[x] = reader[x]
    BY <1>0, <2>1 DEF Types
  <2> QED BY <2>1, <2>2, <2>3 DEF Cleared
<1>9. ASSUME NEW r \in Readers, NEW y, ~In(y), y.pc # "gone" => In(reader[r]),
             reader' = [reader EXCEPT ![r] = y], UNCHANGED <<syslogd, ring>>
      PROVE  Cleared'
  <2>1. reader'[r] = y /\ \A q \in Readers \ {r} : reader'[q] = reader[q]
    BY <1>0, <1>9 DEF Types
  <2> QED BY <1>9, <2>1 DEF Cleared, In
<1>10. ASSUME NEW r \in Readers, In(reader[r]), NEW y, Leaves(r, y), ~In(y) PROVE Cleared'
  <2>1. reader' = [reader EXCEPT ![r] = y] /\ UNCHANGED <<syslogd, ring>>
    BY <1>10 DEF Leaves
  <2> QED BY <1>10, <2>1, <1>9
<1>11. ~In(Gone) /\ Gone.pc = "gone" /\ \A c, d : ~In(Waits(c, d))
  BY DEF In, Gone, Waits
<1>12. ASSUME NEW r \in Readers, Read(r) PROVE Cleared'
  <2>1. PICK y : Leaves(r, y) /\ In(reader[r]) /\ (y = Gone \/ \E c, d : y = Waits(c, d))
    BY <1>12 DEF Read, In
  <2> QED BY <2>1, <1>10, <1>11
<1>13. ASSUME NEW r \in Readers, ReadTorn(r) PROVE Cleared'
  BY <1>13, <1>10, <1>11 DEF ReadTorn, In
<1>14. ASSUME NEW r \in Readers, Interrupt(r) PROVE Cleared'
  <2>1. reader' = [reader EXCEPT ![r] = Gone] /\ UNCHANGED <<syslogd, ring>>
    BY <1>14 DEF Interrupt
  <2> QED BY <2>1, <1>9, <1>11
<1> QED BY <1>1, <1>2, <1>3, <1>4, <1>5, <1>6, <1>7, <1>8, <1>12, <1>13, <1>14 DEF Next, Work, Pass

LEMMA ClearedAlways == Spec => []Cleared
BY ClearedInit, ClearedStep, SyslogInvariant, PTL DEF Spec

(* While a logread copies, syslogd writes no message, whatever was killed  *)
(* before (log_to_shmem, logread_main); and unless ipcsyslog_init clears   *)
(* the ring meanwhile, the search for the oldest complete message always   *)
(* ends inside the ring.                                                   *)
THEOREM ReadersApart == Spec => []Apart
<1>1. IInv /\ Cleared => Apart
  BY Alone DEF Apart, Cleared, Reading
<1> QED BY <1>1, SyslogInvariant, ClearedAlways, PTL
=============================================================================
