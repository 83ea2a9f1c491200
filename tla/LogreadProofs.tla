---------------------------- MODULE LogreadProofs ----------------------------
(***************************************************************************)
(* What logread prints is what syslogd logged: proofs for any size of the  *)
(* ring, any lengths of messages and any finite number of readers.  They   *)
(* rest on SyslogProofs: while a logread copies, nobody writes.            *)
(***************************************************************************)
EXTENDS SyslogProofs

(* Induction, in the form that the provers can use: about a set.           *)
LEMMA UpTo ==
  ASSUME NEW n \in Nat, NEW S, 0 \in S, \A i \in 1 .. n : i - 1 \in S => i \in S
  PROVE  \A i \in 0 .. n : i \in S
<1> DEFINE bad == {i \in 0 .. n : i \notin S}
<1> SUFFICES ASSUME bad # {} PROVE FALSE
  OBVIOUS
<1>1. bad \in SUBSET Nat
  OBVIOUS
<1>2. PICK i \in bad : \A j \in bad : i <= j
  BY <1>1, SmallestNumber
<1>3. i \in 1 .. n /\ i - 1 \in 0 .. n /\ i - 1 \notin bad
  BY <1>2
<1> QED BY <1>2, <1>3

(* A step on the values of X, taken n times, has values at each step.      *)
Iterates(n, X, x, step) ==
  \E g \in [0 .. n -> X] : g[0] = x /\ \A i \in 1 .. n : g[i] = step[i][g[i - 1]]
LEMMA Repeated ==
  ASSUME NEW n \in Nat, NEW X, NEW x \in X, NEW step \in [1 .. n -> [X -> X]]
  PROVE  Iterates(n, X, x, step)
<1> DEFINE Runs(g, k) == g[0] = x /\ \A i \in 1 .. k : g[i] = step[i][g[i - 1]]
           S == {k \in 0 .. n : \E g \in [0 .. k -> X] : Runs(g, k)}
<1>1. 0 \in S
  <2> DEFINE z == [k \in 0 .. 0 |-> x]
  <2>1. z \in [0 .. 0 -> X] /\ z[0] = x
    OBVIOUS
  <2> HIDE DEF z
  <2>2. Runs(z, 0)
    BY <2>1
  <2> HIDE DEF Runs
  <2> QED BY <2>1, <2>2
<1>2. ASSUME NEW k \in 1 .. n, k - 1 \in S PROVE k \in S
  <2>1. PICK g \in [0 .. k - 1 -> X] : Runs(g, k - 1)
    BY <1>2
  <2> DEFINE h == [i \in 0 .. k |-> IF i = k THEN step[k][g[k - 1]] ELSE g[i]]
  <2>2. g[k - 1] \in X /\ step[k][g[k - 1]] \in X
    OBVIOUS
  <2>3. h \in [0 .. k -> X]
    BY <2>2
  <2>4. h[0] = x
    BY <2>1
  <2>5. ASSUME NEW i \in 1 .. k PROVE h[i] = step[i][h[i - 1]]
    <3>1. CASE i = k
      BY <3>1
    <3>2. CASE i # k
      <4>1. i \in 1 .. k - 1 /\ h[i] = g[i] /\ h[i - 1] = g[i - 1]
        BY <3>2
      <4> QED BY <2>1, <4>1
    <3> QED BY <3>1, <3>2
  <2> HIDE DEF h
  <2>6. Runs(h, k)
    BY <2>4, <2>5
  <2> QED BY <2>3, <2>6
<1>3. n \in S
  <2> HIDE DEF S
  <2>1. \A i \in 0 .. n : i \in S
    BY <1>1, <1>2, UpTo
  <2> QED BY <2>1
<1> QED BY <1>3 DEF Iterates

-----------------------------------------------------------------------------
(* What is printed of a copy, string after string.                         *)

Rule(copy, f) ==
  f = [i \in 0 .. Len(copy) |-> IF i = 0 THEN <<>>
                                ELSE IF Starts(copy, i) THEN Append(f[i - 1], Text(copy, i))
                                ELSE f[i - 1]]
Printed(copy) == CHOOSE f : Rule(copy, f)

LEMMA TextsPrinted == ASSUME NEW copy PROVE Texts(copy) = Printed(copy)[Len(copy)]
BY DEF Texts, Printed, Rule

Numbers == 0 .. MaxMessages

LEMMA TextNumber ==
  ASSUME NEW copy, NEW i, copy[i] \in Numbers PROVE Text(copy, i) \in Numbers
BY SyslogConstants DEF Text, Numbers

(* What is printed when the copy has been read up to i.                    *)
Grows(copy, p, i) == IF Starts(copy, i) THEN Append(p, Text(copy, i)) ELSE p

Grown(copy, n, X) ==
  \E g \in [0 .. n -> X] : g[0] = <<>> /\ \A i \in 1 .. n : g[i] = Grows(copy, g[i - 1], i)
LEMMA GrowsBy ==
  ASSUME NEW copy, NEW n \in Nat, NEW X, <<>> \in X,
         \A i \in 1 .. n : \A p \in X : Grows(copy, p, i) \in X
  PROVE  Grown(copy, n, X)
<1> DEFINE step == [i \in 1 .. n |-> [p \in X |-> Grows(copy, p, i)]]
<1>1. step \in [1 .. n -> [X -> X]]
  OBVIOUS
<1>2. \A i \in 1 .. n : \A p \in X : step[i][p] = Grows(copy, p, i)
  OBVIOUS
<1> HIDE DEF step
<1>3. PICK g \in [0 .. n -> X] : g[0] = <<>> /\ \A i \in 1 .. n : g[i] = step[i][g[i - 1]]
  <2>1. Iterates(n, X, <<>>, step)
    BY <1>1, Repeated
  <2> QED BY <2>1 DEF Iterates
<1>4. \A i \in 1 .. n : g[i - 1] \in X
  OBVIOUS
<1> QED BY <1>2, <1>3, <1>4 DEF Grown

(* There is such a function, and its values are sequences of numbers.      *)
Steps(copy, n) ==
  /\ Printed(copy)[0] = <<>>
  /\ \A i \in 1 .. n : Printed(copy)[i] = Grows(copy, Printed(copy)[i - 1], i)
  /\ \A i \in 0 .. n : Printed(copy)[i] \in Seq(Numbers)
LEMMA PrintedRule ==
  ASSUME NEW copy, NEW n \in Nat, n = Len(copy), \A i \in 1 .. n : copy[i] \in Numbers
  PROVE  Steps(copy, n)
<1> DEFINE X == Seq(Numbers)
           f == Printed(copy)
<1>1. \A i \in 1 .. n : \A p \in X : Grows(copy, p, i) \in X
  BY TextNumber, AppendProperties DEF Grows
<1>2. <<>> \in X
  BY EmptySeq
<1> HIDE DEF X
<1>3. PICK g \in [0 .. n -> X] : g[0] = <<>> /\ \A i \in 1 .. n : g[i] = Grows(copy, g[i - 1], i)
  <2>1. Grown(copy, n, X)
    BY <1>1, <1>2, GrowsBy
  <2> QED BY <2>1 DEF Grown
<1>4. Rule(copy, g)
  <2>1. ASSUME NEW i \in 0 .. n
        PROVE  g[i] = IF i = 0 THEN <<>> ELSE Grows(copy, g[i - 1], i)
    BY <1>3
  <2>2. g = [i \in 0 .. n |-> IF i = 0 THEN <<>> ELSE Grows(copy, g[i - 1], i)]
    BY <2>1
  <2> QED BY <2>2 DEF Rule, Grows
<1>5. Rule(copy, f)
  BY <1>4 DEF Printed
<1>6. f = [i \in 0 .. n |-> IF i = 0 THEN <<>> ELSE Grows(copy, f[i - 1], i)]
  BY <1>5 DEF Rule, Grows
<1> HIDE DEF f
<1>7. f[0] = <<>> /\ \A i \in 1 .. n : f[i] = Grows(copy, f[i - 1], i)
  BY <1>6
<1>8. \A i \in 0 .. n : f[i] \in X
  <2> DEFINE S == {i \in 0 .. n : f[i] \in X}
  <2>1. 0 \in S
    BY <1>2, <1>7
  <2>2. ASSUME NEW i \in 1 .. n, i - 1 \in S PROVE i \in S
    BY <1>1, <1>7, <2>2
  <2>3. \A i \in 1 .. n : i - 1 \in S => i \in S
    BY <2>2
  <2> HIDE DEF S
  <2>4. \A i \in 0 .. n : i \in S
    BY <2>1, <2>3, UpTo
  <2> QED BY <2>4 DEF S
<1> QED BY <1>7, <1>8 DEF Steps, f, X

LEMMA TextsNumbers ==
  ASSUME NEW copy, NEW n \in Nat, n = Len(copy), \A i \in 1 .. n : copy[i] \in Numbers
  PROVE  Texts(copy) \in Seq(Numbers)
<1>1. Steps(copy, n)
  BY PrintedRule
<1> QED BY <1>1, TextsPrinted DEF Steps

-----------------------------------------------------------------------------
(* The copy that logread makes.                                            *)

(* Position of the byte that is d bytes before the tail t.                 *)
Pos(t, d) == IF d <= t THEN t - d ELSE t - d + Size
Behind(t, c) == IF t < c THEN t - c + Size ELSE t - c

LEMMA Around ==
  ASSUME NEW x \in 0 .. 2 * Size - 1, Size \in Nat, Size > 1
  PROVE  x % Size = IF x < Size THEN x ELSE x - Size
OBVIOUS

LEMMA Copied ==
  ASSUME NEW c \in 0 .. Size - 1, tail \in 0 .. Size - 1, Size \in Nat, Size > 1
  PROVE  /\ Behind(tail, c) \in 0 .. Size - 1 /\ c = IF Behind(tail, c) = 0 THEN tail ELSE Pos(tail, Behind(tail, c))
         /\ Len(From(c)) = Behind(tail, c)
         /\ \A i \in 1 .. Behind(tail, c) : From(c)[i] = data[Pos(tail, Behind(tail, c) + 1 - i)]
<1> DEFINE n == Behind(tail, c)
<1>1. n \in 0 .. Size - 1 /\ c = IF n = 0 THEN tail ELSE Pos(tail, n)
  BY DEF Behind, Pos
<1>2. From(c) = [i \in 1 .. n |-> data[(c + i - 1) % Size]]
  BY DEF From, Behind
<1>3. ASSUME NEW i \in 1 .. n PROVE (c + i - 1) % Size = Pos(tail, n + 1 - i)
  <2>1. c + i - 1 \in 0 .. 2 * Size - 1
    BY <1>1
  <2>2. (c + i - 1) % Size = IF c + i - 1 < Size THEN c + i - 1 ELSE c + i - 1 - Size
    BY <2>1, Around
  <2> QED BY <2>2 DEF Behind, Pos
<1> HIDE DEF n
<1>4. Len(From(c)) = n
  BY <1>1, <1>2
<1> QED BY <1>1, <1>2, <1>3, <1>4 DEF n

-----------------------------------------------------------------------------
(* Types: what is printed and what was printed last are numbers of         *)
(* messages, and what the ring has lost was logged.                        *)

SaidOK(x) == x.first \in BOOLEAN /\ x.said \in -1 .. MaxMessages
Bounded ==
  /\ data \in [0 .. Size -> Numbers]
  /\ Newest <= MaxMessages /\ lost \in 0 .. Stored
  /\ lag \in [Readers -> 0 .. Size]
  /\ \A r \in Readers : SaidOK(reader[r])
  /\ syslogd.pc = "lock" => syslogd.left = log[Newest]
  /\ syslogd.pc = "copy" => syslogd.left <= log[Newest] /\ lost < Newest

TInv == IInv /\ Bounded

LEMMA Sizes ==
  ASSUME IInv
  PROVE  /\ Size \in Nat /\ Size > 1 /\ tail \in 0 .. Size - 1 /\ Newest \in Nat
         /\ MaxMessages \in Nat /\ Newest = Len(log) /\ log \in Seq(Lengths)
         /\ \A m \in 1 .. Newest : log[m] \in Lengths /\ log[m] \in 2 .. Size - 1
         /\ syslogd.pc \in {"lock", "copy"} => Newest > 0
<1>1. Newest \in Nat /\ Newest = Len(log)
  BY Field DEF IInv, Newest
<1>2. \A m \in 1 .. Newest : log[m] \in Lengths
  BY <1>1, ElementOfSeq DEF IInv, Types
<1> QED BY <1>1, <1>2, SyslogConstants DEF IInv, Types, Ring

LEMMA StartIn ==
  ASSUME IInv, NEW r \in Readers
  PROVE  Start(r) \in 0 .. Size - 1
<1>1. reader[r].cur \in 0 .. Size - 1 /\ Size \in Nat /\ Size > 1 /\ data[Size] = 0
  BY Sizes, ReaderField DEF IInv, ReaderOK, Ring
<1>2. \A i \in 0 .. Size : NUL(i) \in i .. Size
  BY <1>1, FirstNUL
<1>3. NUL(reader[r].cur) \in 0 .. Size /\ NUL(0) \in 0 .. Size
  BY <1>1, <1>2
<1> QED BY <1>1, <1>3 DEF Start, Oldest, Next1

LEMMA PrintingNumbers ==
  ASSUME TInv, NEW r \in Readers
  PROVE  Printing(r) \in Seq(Numbers)
<1> DEFINE c == Start(r)
           n == Behind(tail, c)
<1>1. c \in 0 .. Size - 1 /\ tail \in 0 .. Size - 1 /\ Size \in Nat /\ Size > 1
  BY StartIn, Sizes DEF TInv
<1> HIDE DEF c
<1>2. n \in 0 .. Size - 1 /\ n \in Nat /\ Len(From(c)) = n
  BY <1>1, Copied
<1>3. ASSUME NEW i \in 1 .. n PROVE From(c)[i] \in Numbers
  <2>1. From(c)[i] = data[Pos(tail, n + 1 - i)]
    BY <1>1, Copied
  <2>2. Pos(tail, n + 1 - i) \in 0 .. Size
    BY <1>1, <1>2 DEF Pos
  <2> QED BY <2>1, <2>2 DEF TInv, Bounded
<1> HIDE DEF n
<1>4. Texts(From(c)) \in Seq(Numbers)
  BY <1>2, <1>3, TextsNumbers
<1> QED BY <1>4 DEF Printing, c

LEMMA LastSaid ==
  ASSUME TInv, NEW r \in Readers
  PROVE  Last(Printing(r), reader[r].said) \in -1 .. MaxMessages
<1> DEFINE p == Printing(r)
<1>1. p \in Seq(Numbers) /\ reader[r].said \in -1 .. MaxMessages /\ MaxMessages \in Nat
  BY PrintingNumbers, Sizes DEF TInv, Bounded, SaidOK
<1> HIDE DEF p
<1>2. p # <<>> => p[Len(p)] \in Numbers
  BY <1>1, EmptySeq, LenProperties, ElementOfSeq
<1> QED BY <1>1, <1>2 DEF Last, p, Numbers

LEMMA Recording ==
  ASSUME TInv, NEW r \in Readers, NEW y, SaidOK(y), reader' = [reader EXCEPT ![r] = y],
         lag' \in [Readers -> 0 .. Size], UNCHANGED <<data, tail, log, lost, syslogd>>
  PROVE  Bounded'
<1>1. reader'[r] = y /\ \A q \in Readers \ {r} : reader'[q] = reader[q]
  BY DEF TInv, IInv, Types
<1>2. \A q \in Readers : SaidOK(reader'[q])
  BY <1>1 DEF TInv, Bounded
<1> QED BY <1>2 DEF TInv, Bounded, Newest, Stored, SaidOK

LEMMA GoneSaid == SaidOK(Gone)
BY SyslogConstants DEF SaidOK, Gone

LEMMA InitBounded == Init => Bounded
<1> SUFFICES ASSUME Init PROVE Bounded
  OBVIOUS
<1>1. \A r \in Readers : reader[r] = Gone
  BY DEF Init
<1>2. Newest = 0 /\ Stored = 0
  BY DEF Init, Newest, Stored
<1> QED BY <1>1, <1>2, GoneSaid, SyslogConstants DEF Init, Bounded, Empty, Numbers

LEMMA WriterBounded ==
  ASSUME TInv, (\E len \in Lengths : Receive(len)) \/ Work \/ Kill \/ Terminate \/ Restart \/ Started
  PROVE  Bounded'
<1>0. /\ Size \in Nat /\ Size > 1 /\ Newest \in Nat /\ MaxMessages \in Nat /\ lost \in 0 .. Stored
      /\ tail \in 0 .. Size - 1
  BY Sizes DEF TInv, Bounded
<1>1. ASSUME NEW len \in Lengths, Receive(len) PROVE Bounded'
  <2>1. /\ log' = Append(log, len) /\ syslogd' = [pc |-> "lock", left |-> len]
        /\ Newest < MaxMessages /\ syslogd.pc = "idle" /\ UNCHANGED <<data, lost, reader, lag>>
    BY <1>1 DEF Receive
  <2>2. Newest' = Newest + 1 /\ log'[Newest'] = len
    BY <2>1, Sizes, AppendProperties DEF Newest, TInv
  <2>3. Stored' = Stored
    BY <1>0, <2>1, <2>2 DEF Stored
  <2> QED BY <1>0, <2>1, <2>2, <2>3 DEF TInv, Bounded, SaidOK
<1>2. CASE Lock
  <2>1. /\ syslogd.pc = "lock" /\ UNCHANGED <<data, log, lost, reader, lag>>
        /\ syslogd' = [pc |-> "copy", left |-> syslogd.left]
    BY <1>2, Field DEF Lock, TInv, IInv
  <2>2. Newest' = Newest /\ Stored' = Stored + 1 /\ syslogd.left = log[Newest]
    BY <1>0, <2>1 DEF Newest, Stored, TInv, Bounded
  <2>3. syslogd'.left <= log'[Newest'] /\ Stored = Newest - 1
    BY <2>1, <2>2, Sizes DEF TInv, Stored
  <2> QED BY <1>0, <2>1, <2>2, <2>3 DEF TInv, Bounded, SaidOK
<1>3. CASE Copy
  <2> DEFINE n == IF Fits(syslogd.left) THEN syslogd.left ELSE Size - tail
             done == log[Newest] - syslogd.left
             byte(i) == Byte(Newest, done + i - tail + 1)
  <2>1. /\ syslogd.pc = "copy" /\ UNCHANGED <<log, lost, reader>>
        /\ data' = [i \in 0 .. Size |-> IF i \in tail .. tail + n - 1 THEN byte(i) ELSE data[i]]
        /\ IF Fits(syslogd.left)
           THEN syslogd' = [pc |-> "unlock", left |-> syslogd.left]
           ELSE syslogd' = [pc |-> "copy", left |-> syslogd.left - n]
        /\ lag' = [r \in Readers |-> IF reader[r] = Gone THEN 0 ELSE Within(lag[r] + n)]
    BY <1>3, Field DEF Copy, TInv, IInv
  <2>2. n \in 0 .. Size /\ Newest > 0 /\ Newest <= MaxMessages
    BY <1>0, <2>1, Field, Sizes DEF Fits, TInv, IInv, Bounded
  <2>3. lag' \in [Readers -> 0 .. Size]
    <3> HIDE DEF n
    <3>1. \A r \in Readers : lag[r] \in 0 .. Size
      BY DEF TInv, Bounded
    <3>2. \A r \in Readers : Within(lag[r] + n) \in 0 .. Size
      BY <1>0, <2>2, <3>1 DEF Within
    <3> QED BY <1>0, <2>1, <3>2
  <2>4. data' \in [0 .. Size -> Numbers]
    <3>1. \A i \in 0 .. Size : byte(i) \in Numbers
      BY <1>0, <2>2 DEF Byte, Numbers
    <3>2. \A i \in 0 .. Size : data[i] \in Numbers
      BY DEF TInv, Bounded
    <3> HIDE DEF byte, n
    <3> QED BY <2>1, <3>1, <3>2
  <2>5. Newest' = Newest /\ Stored' = Stored
    BY <2>1 DEF Newest, Stored
  <2>6. syslogd'.pc = "copy" => syslogd'.left <= log[Newest]
    BY <1>0, <2>1, <2>2, Field, Sizes DEF TInv, IInv, Bounded
  <2> HIDE DEF n, byte
  <2> QED BY <1>0, <2>1, <2>2, <2>3, <2>4, <2>5, <2>6 DEF TInv, Bounded, SaidOK
<1>4. CASE Unlock
  BY <1>0, <1>4 DEF Unlock, TInv, Bounded, Newest, Stored, SaidOK
<1>5. CASE Kill
  <2>1. /\ syslogd' = [pc |-> "dead", left |-> 0] /\ UNCHANGED <<data, lost, reader, lag>>
        /\ log' = IF syslogd.pc = "lock" THEN SubSeq(log, 1, Newest - 1) ELSE log
    BY <1>5 DEF Kill
  <2>2. Newest' = Stored /\ Stored' = Stored
    <3>1. CASE syslogd.pc = "lock"
      <4>1. Newest > 0 /\ log \in Seq(Lengths) /\ Newest = Len(log)
        BY <3>1, Sizes DEF TInv
      <4>2. Len(SubSeq(log, 1, Newest - 1)) = Newest - 1
        BY <1>0, <4>1, SubSeqProperties
      <4> QED BY <2>1, <3>1, <4>2 DEF Newest, Stored
    <3>2. CASE syslogd.pc # "lock"
      BY <2>1, <3>2 DEF Newest, Stored
    <3> QED BY <3>1, <3>2
  <2>3. Stored <= Newest /\ Newest <= MaxMessages /\ Stored \in Int
    BY <1>0 DEF TInv, Bounded, Stored
  <2> QED BY <1>0, <2>1, <2>2, <2>3 DEF TInv, Bounded, SaidOK
<1>6. CASE Terminate
  <2>1. Newest' = Newest /\ Stored' = Newest /\ lost' = Newest
    BY <1>6 DEF Terminate, Newest, Stored
  <2>2. \A r \in Readers : reader'[r] = Gone
    BY <1>6 DEF Terminate
  <2>3. syslogd'.pc = "dead"
    BY <1>6 DEF Terminate
  <2>4. data' \in [0 .. Size -> Numbers] /\ lag' \in [Readers -> 0 .. Size]
    BY <1>0, <1>6 DEF Terminate, Empty, Numbers
  <2> QED BY <1>0, <2>1, <2>2, <2>3, <2>4, GoneSaid DEF TInv, Bounded, SaidOK
<1>7. CASE Restart
  <2>1. /\ Newest' = Newest /\ Stored' = Stored /\ UNCHANGED <<data, log, lost>> /\ syslogd'.pc = "init"
        /\ lag' = [r \in Readers |-> IF r \in Running THEN Size ELSE 0]
    BY <1>7 DEF Restart, Newest, Stored
  <2>2. ASSUME NEW r \in Readers PROVE SaidOK(reader'[r])
    <3>1. reader'[r] = Torn(reader[r]) /\ ReaderOK(reader[r]) /\ SaidOK(reader[r])
      BY <1>7, ReaderField DEF Restart, TInv, IInv, Bounded
    <3> QED BY <3>1, TornReader DEF SaidOK
  <2>3. lag' \in [Readers -> 0 .. Size]
    BY <1>0, <2>1
  <2> QED BY <1>0, <2>1, <2>2, <2>3 DEF TInv, Bounded
<1>8. CASE Started
  <2>1. Newest' = Newest /\ Stored' = Newest /\ lost' = Newest
    BY <1>8 DEF Started, Newest, Stored
  <2>2. data' \in [0 .. Size -> Numbers]
    BY <1>0, <1>8 DEF Started, Empty, Numbers
  <2> QED BY <1>0, <1>8, <2>1, <2>2 DEF Started, TInv, Bounded, SaidOK
<1> QED BY <1>1, <1>2, <1>3, <1>4, <1>5, <1>6, <1>7, <1>8 DEF Work

LEMMA ReaderBounded ==
  ASSUME TInv, NEW r \in Readers, (\E first \in BOOLEAN : Begin(r, first)) \/ Pass(r) \/ Interrupt(r)
  PROVE  Bounded'
<1>0. lag \in [Readers -> 0 .. Size] /\ Size \in Nat
  BY Sizes DEF TInv, Bounded
<1>1. lag' \in [Readers -> 0 .. Size]
  <2>1. ASSUME NEW x, Leaves(r, x) PROVE lag' \in [Readers -> 0 .. Size]
    BY <1>0, <2>1 DEF Leaves
  <2>2. ASSUME NEW first \in BOOLEAN, Begin(r, first) PROVE lag' \in [Readers -> 0 .. Size]
    BY <1>0, <2>2 DEF Begin
  <2>3. CASE ReadLock(r) \/ Interrupt(r)
    BY <1>0, <2>3 DEF ReadLock, Interrupt
  <2> QED BY <2>1, <2>2, <2>3 DEF Pass, Read, ReadTorn
<1>2. UNCHANGED <<data, tail, log, lost, syslogd>>
  BY DEF Begin, Pass, ReadLock, Read, ReadTorn, Leaves, Interrupt
<1>3. ASSUME NEW first \in BOOLEAN, Begin(r, first) PROVE Bounded'
  <2>1. PICK c : reader' = [reader EXCEPT ![r] = [pc |-> "lock", cur |-> c, first |-> first,
                                                    said |-> -1]]
    BY <1>3 DEF Begin
  <2>2. SaidOK([pc |-> "lock", cur |-> c, first |-> first, said |-> -1])
    BY SyslogConstants DEF SaidOK
  <2> QED BY <1>1, <1>2, <2>1, <2>2, Recording
<1>4. CASE ReadLock(r)
  <2> DEFINE q == IF ring = "clearing" THEN "torn" ELSE "read"
             y == [reader[r] EXCEPT !.pc = q]
  <2>1. SaidOK(reader[r]) /\ ReaderOK(reader[r])
    BY ReaderField DEF TInv, Bounded, IInv
  <2>2. SaidOK(y)
    BY <2>1, EnteringReader DEF SaidOK
  <2>3. reader' = [reader EXCEPT ![r] = y]
    BY <1>4 DEF ReadLock
  <2> HIDE DEF y
  <2> QED BY <1>1, <1>2, <2>2, <2>3, Recording
<1>5. ASSUME NEW y, SaidOK(y), Leaves(r, y) PROVE Bounded'
  <2>1. reader' = [reader EXCEPT ![r] = y]
    BY <1>5 DEF Leaves
  <2> QED BY <1>1, <1>2, <1>5, <2>1, Recording
<1>6. CASE Read(r)
  <2> DEFINE w == Waits(GoesOn(Start(r)), Last(Printing(r), reader[r].said))
  <2>1. SaidOK(w)
    BY LastSaid DEF SaidOK, Waits
  <2>2. Leaves(r, IF r \in Followers THEN w ELSE Gone)
    BY <1>6 DEF Read
  <2> HIDE DEF w
  <2> QED BY <1>5, <2>1, <2>2, GoneSaid
<1>7. CASE ReadTorn(r)
  <2>1. \A c : SaidOK(Waits(c, reader[r].said))
    BY DEF TInv, Bounded, SaidOK, Waits
  <2>2. PICK y : Leaves(r, y) /\ (y = Gone \/ \E c : y = Waits(c, reader[r].said))
    BY <1>7 DEF ReadTorn
  <2> QED BY <1>5, <2>1, <2>2, GoneSaid
<1>8. CASE Interrupt(r)
  BY <1>1, <1>2, <1>8, GoneSaid, Recording DEF Interrupt
<1> QED BY <1>3, <1>4, <1>6, <1>7, <1>8 DEF Pass

LEMMA StepBounded == TInv /\ [Next]_vars => TInv'
<1> SUFFICES ASSUME TInv, [Next]_vars PROVE TInv'
  OBVIOUS
<1>1. IInv'
  BY StepSound DEF TInv
<1>2. CASE UNCHANGED vars
  BY <1>1, <1>2 DEF vars, TInv, Bounded, Newest, Stored, SaidOK
<1>3. CASE Next
  BY <1>1, <1>3, WriterBounded, ReaderBounded DEF Next, TInv
<1> QED BY <1>2, <1>3

(* Every state is well typed: the bytes of the ring and what a follower    *)
(* has said last are numbers of messages that were logged.                 *)
THEOREM SyslogTypes == Spec => []TypeOK
<1>1. Init => TInv
  BY InitSound, InitBounded DEF TInv
<1>2. TInv /\ Cleared => TypeOK
  <2> SUFFICES ASSUME TInv, Cleared PROVE TypeOK
    OBVIOUS
  <2>1. ASSUME NEW r \in Readers
        PROVE  reader[r] \in [pc : {"gone", "lock", "read", "torn"}, cur : 0 .. Size - 1,
                              first : BOOLEAN, said : -1 .. MaxMessages]
    BY DEF TInv, IInv, Types, Bounded, ReaderOK, SaidOK
  <2>2. reader \in [Readers -> [pc : {"gone", "lock", "read", "torn"}, cur : 0 .. Size - 1,
                                first : BOOLEAN, said : -1 .. MaxMessages]]
    BY <2>1 DEF TInv, IInv, Types
  <2>3. lost \in 0 .. Newest
    BY Sizes DEF TInv, Bounded, Stored
  <2>4. sem \in Nat \X {0, 1}
    BY DEF TInv, IInv, Types
  <2> QED BY <2>2, <2>3, <2>4 DEF TInv, IInv, Types, SyslogdOK, Bounded, Cleared, Numbers, TypeOK
<1> QED BY <1>1, <1>2, StepBounded, ClearedAlways, PTL DEF Spec

-----------------------------------------------------------------------------
(* What is in the ring.  B[m] is the distance from the start of message m  *)
(* to the tail; messages lo + 1 to hi are in the ring or have been         *)
(* overwritten, and lf bytes of the last one are still to be written.      *)

Sums(B, lo, hi, lf, lg) ==
  /\ B \in [lo + 1 .. hi + 1 -> Int]
  /\ B[hi + 1] = 0 - lf
  /\ \A m \in lo + 1 .. hi : B[m] = B[m + 1] + lg[m]

(* The byte at distance d is one of message m, and not its NUL.            *)
Has(B, m, d) == B[m + 1] + 1 < d /\ d <= B[m]
Shows(B, lo, hi, x, d) ==
  \/ x = 0 /\ \A m \in lo + 1 .. hi : ~Has(B, m, d)
  \/ \E m \in lo + 1 .. hi : x = m /\ Has(B, m, d)
Laid(B, lo, hi, bytes, t) == \A d \in 1 .. Size : Shows(B, lo, hi, bytes[Pos(t, d)], d)

(* No message is cut at distance n.                                        *)
Edge(B, lo, hi, n) == \A m \in lo + 1 .. hi : B[m] <= n \/ n <= B[m + 1]

(* A follower that is not lapped stands g bytes before the tail, and once  *)
(* it has printed something, between two messages.                         *)
Follows(B, lo, hi, t, x, g) ==
  x # Gone /\ g < Size =>
    /\ x.cur = Pos(t, g)
    /\ x.said # -1 => /\ Edge(B, lo, hi, g)
                      /\ x.said > 0 => x.said \in lo + 1 .. hi /\ B[x.said + 1] = g

Left == IF syslogd.pc = "copy" THEN syslogd.left ELSE 0
Sane == sem[2] = 0 \/ syslogd.pc \in {"copy", "unlock"}
Placed == \E B : /\ Sums(B, lost, Stored, Left, log)
                 /\ Laid(B, lost, Stored, data, tail)
                 /\ \A r \in Readers : Follows(B, lost, Stored, tail, reader[r], lag[r])
Fresh == \A r \in Readers : reader[r].first => reader[r].said = -1

(* Whoever runs while the ring is cleared counts as lapped.                *)
Lapped == \A r \in Readers :
            reader[r] # Gone /\ (ring # "ready" \/ reader[r].pc = "torn") => lag[r] = Size

LInv == TInv /\ Cleared /\ Fresh /\ Lapped /\ (Sane => Placed)

(* The older a message, the farther it is from the tail.                   *)
Descends(B, lo, hi) == \A a, b \in lo + 1 .. hi + 1 : a < b => B[a] >= B[b] + 2
LEMMA Older ==
  ASSUME NEW B, NEW lo \in Int, NEW hi \in Int, NEW lf, NEW lg, Sums(B, lo, hi, lf, lg),
         \A m \in lo + 1 .. hi : lg[m] \in 2 .. Size - 1
  PROVE  Descends(B, lo, hi)
<1>1. B \in [lo + 1 .. hi + 1 -> Int] /\ \A m \in lo + 1 .. hi : B[m] >= B[m + 1] + 2
  <2>1. B \in [lo + 1 .. hi + 1 -> Int] /\ \A m \in lo + 1 .. hi : B[m] = B[m + 1] + lg[m]
    BY DEF Sums
  <2>2. ASSUME NEW m \in lo + 1 .. hi PROVE B[m] >= B[m + 1] + 2
    <3>1. m + 1 \in lo + 1 .. hi + 1
      OBVIOUS
    <3>2. B[m + 1] \in Int /\ B[m] = B[m + 1] + lg[m] /\ lg[m] \in 2 .. Size - 1
      BY <2>1, <3>1
    <3> QED BY <3>2
  <2> QED BY <2>1, <2>2
<1> SUFFICES ASSUME NEW b \in lo + 1 .. hi + 1
             PROVE  \A a \in lo + 1 .. b - 1 : B[a] >= B[b] + 2
  BY DEF Descends
<1> DEFINE n == b - lo - 1
           S == {k \in 0 .. n : k = 0 \/ B[b - k] >= B[b] + 2}
<1>2. n \in Nat /\ 0 \in S
  OBVIOUS
<1>3. ASSUME NEW k \in 1 .. n, k - 1 \in S PROVE k \in S
  <2>1. b - k \in lo + 1 .. hi /\ b - k \in lo + 1 .. hi + 1 /\ b - k + 1 \in lo + 1 .. hi + 1
        /\ b - (k - 1) = b - k + 1
    OBVIOUS
  <2>2. B[b - k] >= B[b - k + 1] + 2 /\ B[b - k] \in Int /\ B[b - k + 1] \in Int /\ B[b] \in Int
    BY <1>1, <2>1
  <2>3. k - 1 = 0 \/ B[b - k + 1] >= B[b] + 2
    BY <1>3, <2>1
  <2>4. k - 1 = 0 => b - k + 1 = b
    OBVIOUS
  <2>5. B[b - k] >= B[b] + 2
    BY <2>2, <2>3, <2>4
  <2> QED BY <2>5
<1>4. \A k \in 0 .. n : k \in S
  <2>1. \A k \in 1 .. n : k - 1 \in S => k \in S
    BY <1>3
  <2> HIDE DEF S, n
  <2> QED BY <1>2, <2>1, UpTo
<1>5. ASSUME NEW a \in lo + 1 .. b - 1 PROVE B[a] >= B[b] + 2
  <2>1. b - a \in 0 .. n /\ b - a # 0 /\ b - (b - a) = a
    OBVIOUS
  <2>2. b - a \in S
    BY <1>4, <2>1
  <2> QED BY <2>1, <2>2
<1> QED BY <1>5

(* A cleared ring.                                                         *)
LEMMA EmptyLaid ==
  ASSUME NEW lo \in Int, NEW lg, Size \in Nat, Size > 1,
         NEW x, NEW g \in Int, x = Gone \/ g = Size
  PROVE  LET B == [m \in lo + 1 .. lo + 1 |-> 0]
         IN  Sums(B, lo, lo, 0, lg) /\ Laid(B, lo, lo, Empty, 0) /\ Follows(B, lo, lo, 0, x, g)
<1> DEFINE B == [m \in lo + 1 .. lo + 1 |-> 0]
<1>1. Sums(B, lo, lo, 0, lg)
  BY DEF Sums
<1>2. ASSUME NEW d \in 1 .. Size PROVE Shows(B, lo, lo, Empty[Pos(0, d)], d)
  <2>1. Pos(0, d) \in 0 .. Size
    BY DEF Pos
  <2>2. Empty[Pos(0, d)] = 0
    BY <2>1 DEF Empty
  <2> QED BY <2>2 DEF Shows
<1>3. Follows(B, lo, lo, 0, x, g)
  BY DEF Follows
<1> QED BY <1>1, <1>2, <1>3 DEF Laid

(* A message is about to be written.                                       *)
LEMMA Longer ==
  ASSUME NEW B, NEW lo \in Int, NEW hi \in Int, lo <= hi, NEW lg, Sums(B, lo, hi, 0, lg),
         lg[hi + 1] \in 2 .. Size - 1,
         NEW C, C = [m \in lo + 1 .. hi + 2 |-> IF m = hi + 2 THEN 0 - lg[hi + 1] ELSE B[m]]
  PROVE  /\ Sums(C, lo, hi + 1, lg[hi + 1], lg)
         /\ \A bytes, t : Laid(B, lo, hi, bytes, t) => Laid(C, lo, hi + 1, bytes, t)
         /\ \A t, x : \A g \in 0 .. Size : Follows(B, lo, hi, t, x, g) => Follows(C, lo, hi + 1, t, x, g)
<1>1. B \in [lo + 1 .. hi + 1 -> Int] /\ B[hi + 1] = 0 /\ \A m \in lo + 1 .. hi : B[m] = B[m + 1] + lg[m]
  BY DEF Sums
<1>2. C[hi + 2] = 0 - lg[hi + 1] /\ \A m \in lo + 1 .. hi + 1 : C[m] = B[m]
  OBVIOUS
<1>3. Sums(C, lo, hi + 1, lg[hi + 1], lg)
  <2>1. C \in [lo + 1 .. (hi + 1) + 1 -> Int]
    BY <1>1
  <2>2. ASSUME NEW m \in lo + 1 .. hi + 1 PROVE C[m] = C[m + 1] + lg[m]
    <3>1. CASE m = hi + 1
      <4>1. C[m] = 0 /\ C[m + 1] = 0 - lg[m]
        BY <1>1, <1>2, <3>1
      <4> QED BY <3>1, <4>1
    <3>2. CASE m # hi + 1
      <4>1. m \in lo + 1 .. hi /\ m + 1 \in lo + 1 .. hi + 1
        BY <3>2
      <4> QED BY <1>1, <1>2, <4>1
    <3> QED BY <3>1, <3>2
  <2>3. (hi + 1) + 1 = hi + 2
    OBVIOUS
  <2> QED BY <1>2, <2>1, <2>2, <2>3 DEF Sums
<1>4. \A d \in Int : \A m \in lo + 1 .. hi : Has(B, m, d) <=> Has(C, m, d)
  BY <1>2 DEF Has
<1>5. \A d \in Nat : d > 0 => ~Has(C, hi + 1, d)
  BY <1>1, <1>2 DEF Has
<1>6. ASSUME NEW bytes, NEW t, Laid(B, lo, hi, bytes, t) PROVE Laid(C, lo, hi + 1, bytes, t)
  <2> SUFFICES ASSUME NEW d \in 1 .. Size PROVE Shows(C, lo, hi + 1, bytes[Pos(t, d)], d)
    BY DEF Laid
  <2>1. Shows(B, lo, hi, bytes[Pos(t, d)], d)
    BY <1>6 DEF Laid
  <2>2. ~Has(C, hi + 1, d) /\ \A m \in lo + 1 .. hi : Has(B, m, d) <=> Has(C, m, d)
    BY <1>4, <1>5
  <2>3. \A m : m \in lo + 1 .. hi + 1 <=> m \in lo + 1 .. hi \/ m = hi + 1
    OBVIOUS
  <2> QED BY <2>1, <2>2, <2>3, Zenon DEF Shows
<1>7. ASSUME NEW t, NEW x, NEW g \in 0 .. Size, Follows(B, lo, hi, t, x, g)
      PROVE  Follows(C, lo, hi + 1, t, x, g)
  <2>1. Edge(B, lo, hi, g) => Edge(C, lo, hi + 1, g)
    <3> SUFFICES ASSUME Edge(B, lo, hi, g), NEW m \in lo + 1 .. hi + 1
                 PROVE  C[m] <= g \/ g <= C[m + 1]
      BY DEF Edge
    <3>1. CASE m = hi + 1
      BY <1>1, <1>2, <3>1
    <3>2. CASE m # hi + 1
      <4>1. m \in lo + 1 .. hi /\ m + 1 \in lo + 1 .. hi + 1
        BY <3>2
      <4> QED BY <1>2, <4>1 DEF Edge
    <3> QED BY <3>1, <3>2
  <2>2. \A m \in lo + 1 .. hi : m \in lo + 1 .. hi + 1 /\ C[m + 1] = B[m + 1]
    BY <1>2
  <2> QED BY <1>7, <2>1, <2>2 DEF Follows
<1> QED BY <1>3, <1>6, <1>7

(* n bytes of the last message are written.                                *)
Advanced(t, n) == IF t + n = Size THEN 0 ELSE t + n

LEMMA Moved ==
  ASSUME Size \in Nat, Size > 1, NEW t \in 0 .. Size - 1, NEW n \in Nat, t + n <= Size
  PROVE  /\ Advanced(t, n) \in 0 .. Size - 1
         /\ \A d \in 1 .. n : Pos(Advanced(t, n), d) = t + n - d
         /\ \A d \in n + 1 .. Size : /\ Pos(Advanced(t, n), d) = Pos(t, d - n)
                                     /\ Pos(t, d - n) \notin t .. t + n - 1
         /\ \A g \in 0 .. Size - 1 - n : Pos(Advanced(t, n), g + n) = Pos(t, g)
<1>1. CASE t + n = Size
  BY <1>1 DEF Advanced, Pos
<1>2. CASE t + n # Size
  BY <1>2 DEF Advanced, Pos
<1> QED BY <1>1, <1>2

Raised(B, C, lo, hi, n) ==
  /\ B \in [lo + 1 .. hi + 1 -> Int] /\ C \in [lo + 1 .. hi + 1 -> Int]
  /\ \A m \in lo + 1 .. hi + 1 : C[m] = B[m] + n

LEMMA RaisedAt ==
  ASSUME NEW lo \in Int, NEW hi \in Int, NEW n \in Int, NEW B, NEW C, Raised(B, C, lo, hi, n),
         NEW m \in lo + 1 .. hi
  PROVE  /\ C[m] = B[m] + n /\ C[m + 1] = B[m + 1] + n /\ B[m] \in Int /\ B[m + 1] \in Int
         /\ C[m] \in Int /\ C[m + 1] \in Int
<1>1. m \in lo + 1 .. hi + 1 /\ m + 1 \in lo + 1 .. hi + 1
  OBVIOUS
<1> QED BY <1>1 DEF Raised

LEMMA RaisedHas ==
  ASSUME NEW lo \in Int, NEW hi \in Int, NEW n \in Int, NEW B, NEW C, Raised(B, C, lo, hi, n),
         NEW m \in lo + 1 .. hi, NEW d \in Int
  PROVE  Has(B, m, d - n) <=> Has(C, m, d)
BY RaisedAt DEF Has

LEMMA RaisedEdge ==
  ASSUME NEW lo \in Int, NEW hi \in Int, NEW n \in Int, NEW B, NEW C, Raised(B, C, lo, hi, n),
         NEW g \in Int, Edge(B, lo, hi, g)
  PROVE  Edge(C, lo, hi, g + n)
<1> SUFFICES ASSUME NEW m \in lo + 1 .. hi PROVE C[m] <= g + n \/ g + n <= C[m + 1]
  BY DEF Edge
<1>1. B[m] <= g \/ g <= B[m + 1]
  BY DEF Edge
<1> QED BY <1>1, RaisedAt

LEMMA RaisedSums ==
  ASSUME NEW lo \in Int, NEW hi \in Int, NEW n \in Int, NEW B, NEW C, lo <= hi, Raised(B, C, lo, hi, n),
         NEW lf \in Int, NEW lg, Sums(B, lo, hi, lf, lg), \A m \in lo + 1 .. hi : lg[m] \in Int
  PROVE  Sums(C, lo, hi, lf - n, lg)
<1>1. C[hi + 1] = 0 - (lf - n)
  <2>1. hi + 1 \in lo + 1 .. hi + 1
    OBVIOUS
  <2>2. B[hi + 1] = 0 - lf /\ C[hi + 1] = B[hi + 1] + n
    BY <2>1 DEF Raised, Sums
  <2> QED BY <2>2
<1>2. ASSUME NEW m \in lo + 1 .. hi PROVE C[m] = C[m + 1] + lg[m]
  <2>1. B[m] = B[m + 1] + lg[m] /\ lg[m] \in Int
    BY DEF Sums
  <2> QED BY <2>1, RaisedAt
<1> QED BY <1>1, <1>2 DEF Sums, Raised

LEMMA FollowsOn ==
  ASSUME Size \in Nat, Size > 1, NEW t \in 0 .. Size - 1, NEW n \in Nat, t + n <= Size,
         NEW lo \in Int, NEW hi \in Int, NEW B, NEW C, Raised(B, C, lo, hi, n),
         NEW x, NEW g \in 0 .. Size, NEW h, h = IF x = Gone THEN 0 ELSE Within(g + n),
         Follows(B, lo, hi, t, x, g)
  PROVE  Follows(C, lo, hi, Advanced(t, n), x, h)
<1> SUFFICES ASSUME x # Gone, h < Size
             PROVE  /\ x.cur = Pos(Advanced(t, n), h)
                    /\ x.said # -1 => /\ Edge(C, lo, hi, h)
                                      /\ x.said > 0 => x.said \in lo + 1 .. hi /\ C[x.said + 1] = h
  BY DEF Follows
<1>1. h = g + n /\ g \in 0 .. Size - 1 - n /\ g < Size
  BY DEF Within
<1>2. x.cur = Pos(t, g)
  BY <1>1 DEF Follows
<1>3. x.cur = Pos(Advanced(t, n), h)
  BY <1>1, <1>2, Moved
<1>4. ASSUME x.said # -1 PROVE Edge(C, lo, hi, h)
  <2>1. Edge(B, lo, hi, g)
    BY <1>1, <1>4 DEF Follows
  <2> QED BY <1>1, <2>1, RaisedEdge
<1>5. ASSUME x.said # -1, x.said > 0 PROVE x.said \in lo + 1 .. hi /\ C[x.said + 1] = h
  <2>1. x.said \in lo + 1 .. hi /\ B[x.said + 1] = g
    BY <1>1, <1>5 DEF Follows
  <2> QED BY <1>1, <2>1, RaisedAt
<1> QED BY <1>3, <1>4, <1>5

(* The byte at position i, when lf bytes of message hi were still missing. *)
New(bytes, lg, lf, hi, t, n, i) ==
  IF i \in t .. t + n - 1 THEN IF lg[hi] - lf + i - t + 1 = lg[hi] THEN 0 ELSE hi ELSE bytes[i]

Renewed(new, bytes, lg, lf, hi, t, n) ==
  new = [i \in 0 .. Size |-> New(bytes, lg, lf, hi, t, n, i)]

LEMMA NewBytes ==
  ASSUME Size \in Nat, Size > 1, NEW t \in 0 .. Size - 1, NEW n \in Nat, t + n <= Size,
         NEW lo \in Int, NEW hi \in Int, lo < hi, NEW lf \in Nat, n <= lf, NEW lg, lg[hi] \in Nat, lf <= lg[hi],
         NEW C, C[hi + 1] = n - lf, C[hi] = n - lf + lg[hi],
         \A m \in lo + 1 .. hi - 1 : C[m + 1] >= C[hi] /\ C[m + 1] \in Int,
         NEW bytes, NEW d \in 1 .. n
  PROVE  Shows(C, lo, hi, New(bytes, lg, lf, hi, t, n, t + n - d), d)
<1>1. t + n - d \in t .. t + n - 1
  OBVIOUS
<1>2. New(bytes, lg, lf, hi, t, n, t + n - d) = IF d = n - lf + 1 THEN 0 ELSE hi
  BY <1>1 DEF New
<1>3. CASE d = n - lf + 1
  <2>1. ~Has(C, hi, d)
    BY <1>3 DEF Has
  <2>2. ASSUME NEW m \in lo + 1 .. hi - 1 PROVE ~Has(C, m, d)
    BY <1>3 DEF Has
  <2>3. \A m \in lo + 1 .. hi : m = hi \/ m \in lo + 1 .. hi - 1
    OBVIOUS
  <2> QED BY <1>2, <1>3, <2>1, <2>2, <2>3 DEF Shows
<1>4. CASE d # n - lf + 1
  <2>1. Has(C, hi, d) /\ hi \in lo + 1 .. hi
    BY <1>4 DEF Has
  <2> QED BY <1>2, <1>4, <2>1 DEF Shows
<1> QED BY <1>3, <1>4

Long(lg, lo, hi) == \A m \in lo + 1 .. hi : lg[m] \in 2 .. Size - 1
LEMMA Written ==
  ASSUME Size \in Nat, Size > 1, NEW t \in 0 .. Size - 1, NEW n \in Nat, t + n <= Size,
         NEW lo \in Int, NEW hi \in Int, lo < hi, NEW lg, NEW lf \in Nat, n <= lf, lf <= lg[hi], Long(lg, lo, hi),
         NEW B, Sums(B, lo, hi, lf, lg), NEW C, Raised(B, C, lo, hi, n),
         NEW bytes, Laid(B, lo, hi, bytes, t),
         NEW new, Renewed(new, bytes, lg, lf, hi, t, n)
  PROVE  Sums(C, lo, hi, lf - n, lg) /\ Laid(C, lo, hi, new, Advanced(t, n))
<1>1. hi \in lo + 1 .. hi /\ hi \in Int /\ lg[hi] \in 2 .. Size - 1
  BY DEF Long
<1>2. Sums(C, lo, hi, lf - n, lg)
  BY RaisedSums DEF Long
<1>3. ASSUME NEW i \in 0 .. Size PROVE new[i] = New(bytes, lg, lf, hi, t, n, i)
  BY DEF Renewed
<1>4. ASSUME NEW d \in n + 1 .. Size PROVE Shows(C, lo, hi, new[Pos(Advanced(t, n), d)], d)
  <2>1. Pos(Advanced(t, n), d) = Pos(t, d - n) /\ Pos(t, d - n) \notin t .. t + n - 1
    BY Moved
  <2>2. d - n \in 1 .. Size /\ Pos(t, d - n) \in 0 .. Size
    BY DEF Pos
  <2>3. new[Pos(t, d - n)] = bytes[Pos(t, d - n)]
    BY <1>3, <2>1, <2>2 DEF New
  <2>4. Shows(B, lo, hi, bytes[Pos(t, d - n)], d - n)
    BY <2>2 DEF Laid
  <2>5. \A m \in lo + 1 .. hi : Has(B, m, d - n) <=> Has(C, m, d)
    BY RaisedHas
  <2> QED BY <2>1, <2>3, <2>4, <2>5, Zenon DEF Shows
<1>5. ASSUME NEW d \in 1 .. n PROVE Shows(C, lo, hi, new[Pos(Advanced(t, n), d)], d)
  <2>1. Pos(Advanced(t, n), d) = t + n - d /\ t + n - d \in 0 .. Size
    <3>1. Pos(Advanced(t, n), d) = t + n - d
      BY Moved
    <3>2. t + n - d \in 0 .. Size
      OBVIOUS
    <3> QED BY <3>1, <3>2
  <2>2. C[hi + 1] = n - lf /\ C[hi] = n - lf + lg[hi] /\ lg[hi] \in Nat
    <3>1. C[hi + 1] = 0 - (lf - n) /\ C[hi] = C[hi + 1] + lg[hi]
      BY <1>1, <1>2 DEF Sums
    <3>2. 0 - (lf - n) = n - lf
      OBVIOUS
    <3> QED BY <1>1, <3>1, <3>2
  <2>3. ASSUME NEW m \in lo + 1 .. hi - 1 PROVE C[m + 1] >= C[hi] /\ C[m + 1] \in Int
    <3>1. Descends(C, lo, hi)
      BY <1>2, Older DEF Long
    <3>2. m \in lo + 1 .. hi /\ m + 1 \in lo + 1 .. hi + 1 /\ hi \in lo + 1 .. hi + 1
      OBVIOUS
    <3>3. C[m + 1] \in Int /\ C[hi] \in Int
      BY <1>1, <3>2, RaisedAt
    <3>4. m + 1 = hi \/ m + 1 < hi
      OBVIOUS
    <3> QED BY <3>1, <3>2, <3>3, <3>4 DEF Descends
  <2>4. Shows(C, lo, hi, New(bytes, lg, lf, hi, t, n, t + n - d), d)
    BY <2>2, <2>3, NewBytes
  <2> QED BY <1>3, <2>1, <2>4
<1>6. \A d \in 1 .. Size : d \in 1 .. n \/ d \in n + 1 .. Size
  OBVIOUS
<1> QED BY <1>2, <1>4, <1>5, <1>6 DEF Laid

-----------------------------------------------------------------------------
(* syslogd keeps the ring like that.                                       *)

LEMMA Marks ==
  ASSUME TInv
  PROVE  /\ Size \in Nat /\ Size > 1 /\ tail \in 0 .. Size - 1 /\ Newest \in Nat
         /\ lost \in Nat /\ Stored \in Nat /\ lost <= Stored /\ Stored <= Newest
         /\ Long(log, lost, Stored) /\ Left \in 0 .. Size
         /\ \A r \in Readers : lag[r] \in 0 .. Size
<1>1. lost \in 0 .. Stored /\ Stored \in Nat /\ Stored <= Newest
  BY Sizes DEF TInv, Bounded, Stored
<1>2. Left \in 0 .. Size
  BY Field DEF TInv, IInv, Left
<1> QED BY <1>1, <1>2, Sizes DEF TInv, Bounded, Long

(* Nothing that counts has changed.                                        *)
LEMMA PlacedSame ==
  ASSUME Placed, UNCHANGED <<data, tail, lost, reader, lag>>, Stored' = Stored, Left' = Left,
         \A m \in lost + 1 .. Stored : log'[m] = log[m]
  PROVE  Placed'
<1>1. PICK B : /\ Sums(B, lost, Stored, Left, log)
               /\ Laid(B, lost, Stored, data, tail)
               /\ \A r \in Readers : Follows(B, lost, Stored, tail, reader[r], lag[r])
  BY DEF Placed
<1>2. Sums(B, lost, Stored, Left, log')
  BY <1>1 DEF Sums
<1> QED BY <1>1, <1>2 DEF Placed

LEMMA PlacedEmpty ==
  ASSUME TInv, data' = Empty, tail' = 0, lost' = Newest, Stored' = Newest, Left' = 0,
         \A r \in Readers : lag'[r] \in Int /\ (reader'[r] = Gone \/ lag'[r] = Size)
  PROVE  Placed'
<1> DEFINE B == [m \in Newest + 1 .. Newest + 1 |-> 0]
<1>1. Newest \in Int /\ Size \in Nat /\ Size > 1
  BY Marks
<1>2. Sums(B, Newest, Newest, 0, log') /\ Laid(B, Newest, Newest, Empty, 0)
  BY <1>1, EmptyLaid
<1>3. \A r \in Readers : Follows(B, Newest, Newest, 0, reader'[r], lag'[r])
  BY <1>1, EmptyLaid
<1> HIDE DEF B
<1> QED BY <1>2, <1>3 DEF Placed

LEMMA LockPlaced == ASSUME LInv, Lock PROVE Placed'
<1>1. /\ syslogd.pc = "lock" /\ sem = <<0, 0>> /\ UNCHANGED <<data, tail, log, lost, reader, lag>>
      /\ syslogd'.pc = "copy" /\ syslogd'.left = syslogd.left
  BY Field DEF Lock, NobodyIn, LInv, TInv, IInv
<1>2. PICK B : /\ Sums(B, lost, Stored, Left, log)
               /\ Laid(B, lost, Stored, data, tail)
               /\ \A r \in Readers : Follows(B, lost, Stored, tail, reader[r], lag[r])
  BY <1>1 DEF LInv, Sane, Placed
<1>3. /\ Newest > 0 /\ Stored = Newest - 1 /\ Stored' = Stored + 1 /\ Newest = Stored + 1
      /\ Left = 0 /\ Left' = log[Newest] /\ log[Newest] \in 2 .. Size - 1
  <2>1. Newest > 0 /\ Newest \in Nat /\ log[Newest] \in 2 .. Size - 1
    BY <1>1, Sizes DEF LInv, TInv
  <2>2. Newest' = Newest /\ syslogd.left = log[Newest]
    BY <1>1 DEF Newest, LInv, TInv, Bounded
  <2> QED BY <1>1, <2>1, <2>2 DEF Stored, Left
<1>4. PICK C : C = [m \in lost + 1 .. Stored + 2 |-> IF m = Stored + 2 THEN 0 - log[Stored + 1] ELSE B[m]]
  OBVIOUS
<1>5. lost \in Int /\ Stored \in Int /\ lost <= Stored /\ \A r \in Readers : lag[r] \in 0 .. Size
  BY Marks DEF LInv
<1> DEFINE hi == Stored
<1>6. /\ Sums(C, lost, Stored + 1, log[Newest], log)
      /\ Laid(C, lost, Stored + 1, data, tail)
      /\ \A r \in Readers : Follows(C, lost, Stored + 1, tail, reader[r], lag[r])
  BY <1>2, <1>3, <1>4, <1>5, Longer
<1> QED BY <1>1, <1>3, <1>6 DEF Placed

LEMMA CopyPlaced == ASSUME LInv, Copy PROVE Placed'
<1> DEFINE n == IF Fits(syslogd.left) THEN syslogd.left ELSE Size - tail
<1>1. /\ syslogd.pc = "copy" /\ UNCHANGED <<log, lost, reader>>
      /\ data' = [i \in 0 .. Size |-> IF i \in tail .. tail + n - 1
                    THEN Byte(Newest, log[Newest] - syslogd.left + i - tail + 1) ELSE data[i]]
      /\ lag' = [r \in Readers |-> IF reader[r] = Gone THEN 0 ELSE Within(lag[r] + n)]
      /\ IF Fits(syslogd.left)
         THEN tail' = tail + n /\ syslogd' = [pc |-> "unlock", left |-> syslogd.left]
         ELSE tail' = 0 /\ syslogd' = [pc |-> "copy", left |-> syslogd.left - n]
  BY Field DEF Copy, LInv, TInv, IInv
<1>2. /\ Size \in Nat /\ Size > 1 /\ tail \in 0 .. Size - 1 /\ lost \in Int /\ Stored \in Int
      /\ Long(log, lost, Stored) /\ \A r \in Readers : lag[r] \in 0 .. Size
  BY Marks DEF LInv
<1>3. /\ Newest = Stored /\ Stored' = Stored /\ lost < Stored
      /\ Left = syslogd.left /\ syslogd.left \in Nat /\ syslogd.left <= log[Stored]
  BY <1>1, Field DEF LInv, TInv, IInv, Bounded, Stored, Newest, Left
<1>4. n \in Nat /\ n <= syslogd.left /\ tail + n <= Size /\ tail' = Advanced(tail, n)
      /\ Left' = syslogd.left - n
  BY <1>1, <1>2, <1>3 DEF Fits, Left, Advanced
<1>5. data' = [i \in 0 .. Size |-> New(data, log, syslogd.left, Stored, tail, n, i)]
  <2> HIDE DEF n
  <2> QED BY <1>1, <1>3 DEF New, Byte
<1> HIDE DEF n
<1>6. PICK B : /\ Sums(B, lost, Stored, Left, log)
               /\ Laid(B, lost, Stored, data, tail)
               /\ \A r \in Readers : Follows(B, lost, Stored, tail, reader[r], lag[r])
  BY <1>1 DEF LInv, Sane, Placed
<1>7. PICK C : C = [m \in lost + 1 .. Stored + 1 |-> B[m] + n]
  OBVIOUS
<1>8. Raised(B, C, lost, Stored, n)
  <2>1. B \in [lost + 1 .. Stored + 1 -> Int]
    BY <1>6 DEF Sums
  <2> QED BY <1>2, <1>4, <1>7, <2>1 DEF Raised
<1>9. PICK new : new = data'
  OBVIOUS
<1>10. Sums(C, lost, Stored, syslogd.left - n, log) /\ Laid(C, lost, Stored, new, Advanced(tail, n))
  <2>1. Sums(B, lost, Stored, syslogd.left, log) /\ Laid(B, lost, Stored, data, tail)
    BY <1>3, <1>6
  <2>2. Renewed(new, data, log, syslogd.left, Stored, tail, n)
    BY <1>5, <1>9 DEF Renewed
  <2> QED BY <1>2, <1>3, <1>4, <1>8, <2>1, <2>2, Written
<1>11. ASSUME NEW r \in Readers PROVE Follows(C, lost, Stored, Advanced(tail, n), reader[r], lag'[r])
  <2>1. lag'[r] = IF reader[r] = Gone THEN 0 ELSE Within(lag[r] + n)
    BY <1>1
  <2>2. lag[r] \in 0 .. Size /\ Follows(B, lost, Stored, tail, reader[r], lag[r])
    BY <1>2, <1>6
  <2> QED BY <1>2, <1>4, <1>8, <2>1, <2>2, FollowsOn
<1> QED BY <1>1, <1>3, <1>4, <1>9, <1>10, <1>11 DEF Placed

LEMMA WriterPlaced ==
  ASSUME LInv, (\E len \in Lengths : Receive(len)) \/ Work \/ Kill \/ Terminate \/ Restart \/ Started
  PROVE  Sane' => Placed'
<1>2. ASSUME NEW len \in Lengths, Receive(len), Sane' PROVE Placed'
  <2>1. /\ log' = Append(log, len) /\ syslogd' = [pc |-> "lock", left |-> len]
        /\ syslogd.pc = "idle" /\ UNCHANGED <<data, tail, sem, lost, reader, lag>>
    BY <1>2 DEF Receive
  <2>2. Sane /\ Left' = Left
    BY <1>2, <2>1 DEF Sane, Left
  <2>3. Newest' = Newest + 1 /\ Newest \in Nat /\ \A m \in 1 .. Newest : log'[m] = log[m]
    BY <2>1, Sizes, AppendProperties DEF Newest, LInv, TInv
  <2>4. Stored' = Stored /\ Stored = Newest /\ lost \in Nat
    BY <2>1, <2>3, Marks DEF Stored, LInv
  <2>5. \A m \in lost + 1 .. Stored : log'[m] = log[m]
    BY <2>3, <2>4
  <2> QED BY <1>2, <2>1, <2>2, <2>4, <2>5, PlacedSame DEF LInv
<1>3. ASSUME Unlock, Sane' PROVE Placed'
  <2>1. Sane /\ Left' = Left /\ Stored' = Stored /\ UNCHANGED <<data, tail, log, lost, reader, lag>>
    BY <1>3 DEF Unlock, Sane, Left, Stored, Newest
  <2> QED BY <2>1, PlacedSame DEF LInv
<1>4. ASSUME Kill, Sane' PROVE Placed'
  <2>1. /\ syslogd' = [pc |-> "dead", left |-> 0] /\ UNCHANGED <<data, tail, sem, lost, reader, lag>>
        /\ log' = IF syslogd.pc = "lock" THEN SubSeq(log, 1, Newest - 1) ELSE log
    BY <1>4 DEF Kill
  <2>2. sem[2] = 0 /\ Sane /\ syslogd.pc \notin {"copy", "unlock"}
    BY <1>4, <2>1 DEF Sane, LInv, TInv, IInv, Counted
  <2>3. Left' = 0 /\ Left = 0
    BY <2>1, <2>2 DEF Left
  <2>4. Stored' = Stored /\ \A m \in lost + 1 .. Stored : log'[m] = log[m]
    <3>1. CASE syslogd.pc = "lock"
      <4>1. Newest > 0 /\ log \in Seq(Lengths) /\ Newest = Len(log) /\ Newest \in Nat /\ lost \in Nat
        BY <3>1, Sizes, Marks DEF LInv, TInv
      <4>2. Len(SubSeq(log, 1, Newest - 1)) = Newest - 1
            /\ \A m \in 1 .. Newest - 1 : SubSeq(log, 1, Newest - 1)[m] = log[m]
        BY <4>1, SubSeqProperties
      <4> QED BY <2>1, <3>1, <4>1, <4>2 DEF Newest, Stored
    <3>2. CASE syslogd.pc # "lock"
      BY <2>1, <3>2 DEF Newest, Stored
    <3> QED BY <3>1, <3>2
  <2> QED BY <2>1, <2>2, <2>3, <2>4, PlacedSame DEF LInv
<1>5. CASE Terminate
  <2>1. /\ data' = Empty /\ tail' = 0 /\ lost' = Newest /\ Stored' = Newest /\ Left' = 0
        /\ \A r \in Readers : lag'[r] = 0 /\ reader'[r] = Gone
    BY <1>5 DEF Terminate, Stored, Newest, Left
  <2> QED BY <2>1, PlacedEmpty DEF LInv
<1>6. ASSUME Restart, Sane' PROVE Placed'
  <2>1. /\ syslogd.pc = "dead" /\ syslogd' = [pc |-> "init", left |-> 0] /\ UNCHANGED <<data, tail, sem, log, lost>>
        /\ \A r \in Readers : reader'[r] = Torn(reader[r]) /\ lag'[r] = IF r \in Running THEN Size ELSE 0
    BY <1>6 DEF Restart
  <2>2. Sane /\ Left' = Left /\ Stored' = Stored
    BY <1>6, <2>1 DEF Sane, Left, Stored, Newest
  <2>3. PICK B : /\ Sums(B, lost, Stored, Left, log)
                 /\ Laid(B, lost, Stored, data, tail)
    BY <2>2 DEF LInv, Placed
  <2>4. ASSUME NEW r \in Readers PROVE Follows(B, lost, Stored, tail, reader'[r], lag'[r])
    <3>1. Torn(Gone) = Gone
      BY DEF Torn, Gone
    <3>2. reader'[r] = Gone \/ lag'[r] = Size
      BY <2>1, <3>1 DEF Running
    <3>3. ~(Size < Size)
      BY Marks DEF LInv
    <3> QED BY <3>2, <3>3 DEF Follows
  <2> QED BY <2>1, <2>2, <2>3, <2>4 DEF Placed
<1>7. CASE Started
  <2>1. /\ data' = Empty /\ tail' = 0 /\ lost' = Newest /\ Stored' = Newest /\ Left' = 0
        /\ UNCHANGED <<reader, lag>> /\ syslogd.pc = "init"
    BY <1>7 DEF Started, Stored, Newest, Left
  <2>2. \A r \in Readers : lag'[r] \in Int /\ (reader'[r] = Gone \/ lag'[r] = Size)
    BY <2>1, Marks DEF LInv, Lapped, Cleared
  <2> QED BY <2>1, <2>2, PlacedEmpty DEF LInv
<1> QED BY <1>2, <1>3, <1>4, <1>5, <1>6, <1>7, LockPlaced, CopyPlaced DEF Work

-----------------------------------------------------------------------------
(* What logread finds in a copy of the last n bytes.                       *)

LEMMA Falling ==
  ASSUME NEW lo \in Int, NEW hi \in Int, NEW B \in [lo + 1 .. hi + 1 -> Int], Descends(B, lo, hi),
         NEW a \in lo + 1 .. hi + 1, NEW b \in lo + 1 .. hi + 1, a <= b
  PROVE  B[a] \in Int /\ B[b] \in Int /\ B[a] >= B[b]
<1>1. B[a] \in Int /\ B[b] \in Int
  OBVIOUS
<1>2. CASE a = b
  BY <1>1, <1>2
<1>3. CASE a < b
  BY <1>1, <1>3 DEF Descends
<1> QED BY <1>2, <1>3

LEMMA OnlyOne ==
  ASSUME NEW lo \in Int, NEW hi \in Int, NEW B \in [lo + 1 .. hi + 1 -> Int], Descends(B, lo, hi),
         NEW m \in lo + 1 .. hi, NEW d \in Int, Has(B, m, d), NEW x, Shows(B, lo, hi, x, d)
  PROVE  x = m
<1>1. PICK q \in lo + 1 .. hi : x = q /\ Has(B, q, d)
  BY DEF Shows
<1>2. ASSUME NEW a \in lo + 1 .. hi, NEW b \in lo + 1 .. hi, a < b, Has(B, a, d), Has(B, b, d) PROVE FALSE
  <2>1. a + 1 \in lo + 1 .. hi + 1 /\ b \in lo + 1 .. hi + 1 /\ a + 1 <= b
    BY <1>2
  <2>2. B[a + 1] \in Int /\ B[b] \in Int /\ B[a + 1] >= B[b]
    BY <2>1, Falling
  <2>3. B[a + 1] + 1 < d /\ d <= B[b]
    BY <1>2 DEF Has
  <2> QED BY <2>2, <2>3
<1>3. ~(q < m) /\ ~(m < q)
  BY <1>1, <1>2
<1> QED BY <1>1, <1>3

(* The byte before the start of a message is the NUL of the one before, or *)
(* nothing was written there.                                              *)
LEMMA Between ==
  ASSUME NEW lo \in Int, NEW hi \in Int, NEW B \in [lo + 1 .. hi + 1 -> Int], Descends(B, lo, hi),
         NEW m \in lo + 1 .. hi + 1, NEW x, Shows(B, lo, hi, x, B[m] + 1)
  PROVE  x = 0
<1> SUFFICES ASSUME NEW q \in lo + 1 .. hi, Has(B, q, B[m] + 1) PROVE FALSE
  BY DEF Shows
<1>1. q \in lo + 1 .. hi + 1 /\ q + 1 \in lo + 1 .. hi + 1 /\ m \in Int /\ q \in Int
  OBVIOUS
<1>2. B[m] \in Int /\ B[q] \in Int /\ B[q + 1] \in Int
  BY <1>1
<1>3. CASE m <= q
  <2>1. B[m] >= B[q]
    <3>1. m = q \/ m < q
      BY <1>1, <1>3
    <3> QED BY <1>1, <1>2, <3>1 DEF Descends
  <2> QED BY <1>2, <2>1 DEF Has
<1>4. CASE q < m
  <2>1. B[q + 1] >= B[m]
    <3>1. q + 1 = m \/ q + 1 < m
      BY <1>1, <1>4
    <3> QED BY <1>1, <1>2, <3>1 DEF Descends
  <2> QED BY <1>2, <2>1 DEF Has
<1> QED BY <1>1, <1>3, <1>4

(* The copy holds the last n bytes of the ring.                            *)
Holds(copy, B, lo, hi, n) ==
  Len(copy) = n /\ \A i \in 1 .. n : Shows(B, lo, hi, copy[i], n + 1 - i)

(* B, lo and hi fit together.                                              *)
Fitting(B, lo, hi, lg) ==
  /\ lo \in Nat /\ hi \in Nat /\ lo <= hi /\ B \in [lo + 1 .. hi + 1 -> Int] /\ B[hi + 1] = 0
  /\ Descends(B, lo, hi)
  /\ \A m \in lo + 1 .. hi : B[m] = B[m + 1] + lg[m] /\ lg[m] \in Nat /\ lg[m] >= 2

LEMMA Positive ==
  ASSUME NEW B, NEW lo, NEW hi, Fitting(B, lo, hi, log), NEW m \in lo + 1 .. hi
  PROVE  /\ m \in Nat /\ m > 0 /\ lo \in Int /\ hi \in Int /\ B \in [lo + 1 .. hi + 1 -> Int]
         /\ m \in lo + 1 .. hi + 1 /\ m + 1 \in lo + 1 .. hi + 1
         /\ B[m] \in Nat /\ B[m + 1] \in Nat /\ log[m] \in Nat /\ log[m] >= 2 /\ B[m] = B[m + 1] + log[m]
         /\ Descends(B, lo, hi)
<1>1. /\ lo \in Nat /\ hi \in Nat /\ B \in [lo + 1 .. hi + 1 -> Int] /\ B[hi + 1] = 0
      /\ Descends(B, lo, hi)
      /\ B[m] = B[m + 1] + log[m] /\ log[m] \in Nat /\ log[m] >= 2
  BY DEF Fitting
<1>2. m \in lo + 1 .. hi + 1 /\ m + 1 \in lo + 1 .. hi + 1 /\ hi + 1 \in lo + 1 .. hi + 1
      /\ m \in Nat /\ m > 0 /\ lo \in Int /\ hi \in Int /\ (m + 1 = hi + 1 \/ m + 1 < hi + 1)
  BY <1>1
<1>3. B[m + 1] \in Int /\ B[m + 1] >= 0
  BY <1>1, <1>2 DEF Descends
<1> QED BY <1>1, <1>2, <1>3

(* A message of which every byte was copied is printed as it was logged.   *)
Spans(i, n, b, e, l) ==
  /\ i \in 1 .. n /\ i + l - 2 <= n /\ i + l - 1 \in 1 .. n /\ n + 1 - (i + l - 1) = e + 1
  /\ i \in i .. i + l - 2 /\ (i > 1 => i - 1 \in 1 .. n /\ n + 1 - (i - 1) = b + 1)
  /\ \A j \in i .. i + l - 2 : j \in 1 .. n /\ n + 1 - j \in Int /\ e + 1 < n + 1 - j /\ n + 1 - j <= b
LEMMA SpansIt ==
  ASSUME NEW n \in Nat, NEW b \in Nat, NEW e \in Nat, NEW l \in Nat, l >= 2, b = e + l, b <= n
  PROVE  Spans(n + 1 - b, n, b, e, l)
BY DEF Spans

LEMMA WholeText ==
  ASSUME NEW B, NEW lo, NEW hi, Fitting(B, lo, hi, log), NEW n \in Nat, NEW copy, Holds(copy, B, lo, hi, n),
         NEW m \in lo + 1 .. hi, NEW i, i = n + 1 - B[m], B[m] <= n
  PROVE  i \in 1 .. n /\ copy[i] = m /\ Starts(copy, i) /\ Text(copy, i) = m
<1>1. /\ m \in Nat /\ m > 0 /\ lo \in Int /\ hi \in Int /\ B \in [lo + 1 .. hi + 1 -> Int]
      /\ m \in lo + 1 .. hi + 1 /\ m + 1 \in lo + 1 .. hi + 1
      /\ B[m] \in Nat /\ B[m + 1] \in Nat /\ log[m] \in Nat /\ log[m] >= 2 /\ B[m] = B[m + 1] + log[m]
      /\ Descends(B, lo, hi)
  BY Positive
<1>2. Spans(i, n, B[m], B[m + 1], log[m])
  BY <1>1, SpansIt
<1>3. ASSUME NEW j \in i .. i + log[m] - 2 PROVE copy[j] = m
  <2>1. j \in 1 .. n /\ n + 1 - j \in Int /\ Has(B, m, n + 1 - j)
    BY <1>2 DEF Spans, Has
  <2>2. Shows(B, lo, hi, copy[j], n + 1 - j)
    BY <2>1 DEF Holds
  <2> QED BY <1>1, <2>1, <2>2, OnlyOne
<1>4. copy[i + log[m] - 1] = 0
  <2>1. Shows(B, lo, hi, copy[i + log[m] - 1], B[m + 1] + 1)
    BY <1>2 DEF Holds, Spans
  <2> QED BY <1>1, <2>1, Between
<1>5. i > 1 => copy[i - 1] = 0
  <2> SUFFICES ASSUME i > 1 PROVE copy[i - 1] = 0
    OBVIOUS
  <2>1. Shows(B, lo, hi, copy[i - 1], B[m] + 1)
    BY <1>2 DEF Holds, Spans
  <2> QED BY <1>1, <2>1, Between
<1>6. i \in i .. i + log[m] - 2 /\ i \in 1 .. n /\ i + log[m] - 2 <= n
  BY <1>2 DEF Spans
<1>7. copy[i] = m
  BY <1>3, <1>6
<1>8. Starts(copy, i)
  BY <1>1, <1>5, <1>7 DEF Starts
<1>9. Text(copy, i) = m
  <2>1. Len(copy) = n
    BY DEF Holds
  <2> QED BY <1>6, <1>3, <1>4, <1>7, <2>1 DEF Text
<1> QED BY <1>6, <1>7, <1>8, <1>9

(* Where no message starts, no string does, but at the start of the copy.  *)
LEMMA NoStart ==
  ASSUME NEW B, NEW lo, NEW hi, Fitting(B, lo, hi, log), NEW n \in Nat, NEW copy, Holds(copy, B, lo, hi, n),
         NEW i \in 2 .. n, \A m \in lo + 1 .. hi : B[m] # n + 1 - i
  PROVE  ~Starts(copy, i)
<1> SUFFICES ASSUME copy[i] # 0, copy[i - 1] = 0 PROVE FALSE
  BY DEF Starts
<1>1. i - 1 \in 1 .. n /\ i \in 1 .. n /\ n + 1 - (i - 1) = n + 2 - i /\ n + 2 - i \in Int /\ n + 1 - i \in Int
  OBVIOUS
<1>2. Shows(B, lo, hi, copy[i], n + 1 - i) /\ Shows(B, lo, hi, copy[i - 1], n + 2 - i)
  BY <1>1 DEF Holds
<1>3. PICK m \in lo + 1 .. hi : Has(B, m, n + 1 - i)
  BY <1>2 DEF Shows
<1>4. /\ m > 0 /\ lo \in Int /\ hi \in Int /\ B \in [lo + 1 .. hi + 1 -> Int]
      /\ B[m] \in Nat /\ B[m + 1] \in Nat /\ Descends(B, lo, hi)
  BY Positive
<1>5. Has(B, m, n + 2 - i)
  <2>1. B[m] # n + 1 - i /\ B[m + 1] + 1 < n + 1 - i /\ n + 1 - i <= B[m]
    BY <1>3 DEF Has
  <2>2. \A b, e, x \in Nat : x \in 2 .. n /\ b # n + 1 - x /\ e + 1 < n + 1 - x /\ n + 1 - x <= b
                           => e + 1 < n + 2 - x /\ n + 2 - x <= b
    OBVIOUS
  <2>3. i \in Nat
    OBVIOUS
  <2>4. B[m + 1] + 1 < n + 2 - i /\ n + 2 - i <= B[m]
    BY <1>4, <2>1, <2>2, <2>3
  <2> QED BY <2>4 DEF Has
<1>6. copy[i - 1] = m
  BY <1>1, <1>2, <1>4, <1>5, OnlyOne
<1> QED BY <1>4, <1>6

(* A copy that starts inside of a message prints what it has of it.        *)
LEMMA TornText ==
  ASSUME NEW B, NEW lo, NEW hi, Fitting(B, lo, hi, log), NEW n \in Nat, NEW copy, Holds(copy, B, lo, hi, n),
         n > 0, \A m \in lo + 1 .. hi : B[m] # n, Starts(copy, 1)
  PROVE  Text(copy, 1) = 0 /\ ~Edge(B, lo, hi, n)
<1>1. Shows(B, lo, hi, copy[1], n) /\ copy[1] # 0
  <2>1. 1 \in 1 .. n /\ n + 1 - 1 = n
    OBVIOUS
  <2> QED BY <2>1 DEF Holds, Starts
<1>2. PICK m \in lo + 1 .. hi : copy[1] = m /\ Has(B, m, n)
  BY <1>1 DEF Shows
<1>3. /\ m > 0 /\ lo \in Int /\ hi \in Int /\ B \in [lo + 1 .. hi + 1 -> Int]
      /\ m \in lo + 1 .. hi + 1 /\ m + 1 \in lo + 1 .. hi + 1
      /\ B[m] \in Nat /\ B[m + 1] \in Nat /\ log[m] \in Nat /\ B[m] = B[m + 1] + log[m]
      /\ Descends(B, lo, hi)
  BY Positive
<1>4. B[m + 1] + 1 < n /\ n < B[m]
  <2>1. B[m] # n
    OBVIOUS
  <2> QED BY <1>2, <1>3, <2>1 DEF Has
<1>5. ~Edge(B, lo, hi, n)
  <2>1. ~(B[m] <= n \/ n <= B[m + 1])
    BY <1>3, <1>4
  <2> QED BY <2>1 DEF Edge
<1> DEFINE j == n - B[m + 1]
<1>6. j \in 1 .. n /\ j \in 1 .. 1 + log[m] - 2 /\ n + 1 - j = B[m + 1] + 1
  <2>1. \A b, e, l \in Nat : b = e + l /\ e + 1 < n /\ n < b =>
          n - e \in 1 .. n /\ n - e \in 1 .. 1 + l - 2 /\ n + 1 - (n - e) = e + 1
    OBVIOUS
  <2> QED BY <1>3, <1>4, <2>1
<1>7. copy[j] = 0
  <2>1. Shows(B, lo, hi, copy[j], B[m + 1] + 1)
    BY <1>6 DEF Holds
  <2> QED BY <1>3, <2>1, Between
<1> HIDE DEF j
<1>8. ~\A x \in 1 .. 1 + log[m] - 2 : copy[x] = m
  BY <1>3, <1>6, <1>7
<1>9. Text(copy, 1) = 0
  BY <1>2, <1>8 DEF Text
<1> QED BY <1>5, <1>9

(* The messages from k on start in the last d bytes.                       *)
Cut(B, lo, hi, k, d) == k \in lo + 1 .. hi + 1 /\ \A m \in lo + 1 .. hi : B[m] <= d <=> k <= m

LEMMA CutSomewhere ==
  ASSUME NEW B, NEW lo, NEW hi, NEW lg, Fitting(B, lo, hi, lg), NEW d \in Nat
  PROVE  \E k \in lo + 1 .. hi + 1 : Cut(B, lo, hi, k, d)
<1>1. lo \in Nat /\ hi \in Nat /\ lo <= hi /\ B \in [lo + 1 .. hi + 1 -> Int] /\ B[hi + 1] = 0 /\ Descends(B, lo, hi)
  BY DEF Fitting
<1> DEFINE S == {m \in lo + 1 .. hi + 1 : B[m] <= d}
<1>2. S \in SUBSET Nat /\ S # {}
  <2>1. hi + 1 \in S
    BY <1>1
  <2> QED BY <1>1, <2>1
<1>3. PICK k \in S : \A m \in S : k <= m
  <2> HIDE DEF S
  <2> QED BY <1>2, SmallestNumber
<1>4. k \in lo + 1 .. hi + 1 /\ B[k] <= d
  OBVIOUS
<1>5. ASSUME NEW m \in lo + 1 .. hi PROVE B[m] <= d <=> k <= m
  <2>1. m \in lo + 1 .. hi + 1 /\ m \in Int /\ k \in Int /\ lo \in Int /\ hi \in Int
    BY <1>1, <1>4
  <2>2. ASSUME B[m] <= d PROVE k <= m
    BY <1>3, <2>1, <2>2
  <2>3. ASSUME k <= m PROVE B[m] <= d
    <3>1. B[k] \in Int /\ B[m] \in Int /\ B[k] >= B[m]
      BY <1>1, <1>4, <2>1, <2>3, Falling
    <3> QED BY <1>4, <3>1
  <2> QED BY <2>2, <2>3
<1> QED BY <1>4, <1>5 DEF Cut

LEMMA CutOnce ==
  ASSUME NEW B, NEW lo \in Int, NEW hi \in Int, NEW d, NEW k, NEW q, Cut(B, lo, hi, k, d), Cut(B, lo, hi, q, d)
  PROVE  k = q
<1>1. k \in lo + 1 .. hi + 1 /\ q \in lo + 1 .. hi + 1
  BY DEF Cut
<1>2. \A m \in lo + 1 .. hi : k <= m <=> q <= m
  BY DEF Cut
<1>3. CASE k < q
  <2>1. k \in lo + 1 .. hi /\ k <= k /\ ~(q <= k)
    BY <1>1, <1>3
  <2> QED BY <1>2, <2>1
<1>4. CASE q < k
  <2>1. q \in lo + 1 .. hi /\ q <= q /\ ~(k <= q)
    BY <1>1, <1>4
  <2> QED BY <1>2, <2>1
<1> QED BY <1>1, <1>3, <1>4

LEMMA CutHere ==
  ASSUME NEW B, NEW lo, NEW hi, NEW lg, Fitting(B, lo, hi, lg), NEW d \in Nat, NEW q, Cut(B, lo, hi, q, d),
         NEW m \in lo + 1 .. hi, B[m] = d
  PROVE  m = q /\ q + 1 \in lo + 1 .. hi + 1 /\ Cut(B, lo, hi, q + 1, d - 1)
<1>1. lo \in Int /\ hi \in Int /\ B \in [lo + 1 .. hi + 1 -> Int] /\ Descends(B, lo, hi)
  BY DEF Fitting
<1>2. q \in lo + 1 .. hi + 1 /\ \A x \in lo + 1 .. hi : B[x] <= d <=> q <= x
  BY DEF Cut
<1>3. q <= m
  BY <1>2
<1>4. ~(q < m)
  <2> SUFFICES ASSUME q < m PROVE FALSE
    OBVIOUS
  <2>1. q \in lo + 1 .. hi /\ q <= q /\ m \in lo + 1 .. hi + 1
    BY <1>1, <1>2
  <2>2. B[q] <= d /\ B[q] \in Int
    BY <1>1, <1>2, <2>1
  <2>3. B[q] >= B[m] + 2
    BY <1>2, <2>1 DEF Descends, Fitting
  <2> QED BY <2>2, <2>3
<1>5. m = q /\ q + 1 \in lo + 1 .. hi + 1
  BY <1>1, <1>2, <1>3, <1>4
<1>6. ASSUME NEW x \in lo + 1 .. hi PROVE B[x] <= d - 1 <=> q + 1 <= x
  <2>1. x \in lo + 1 .. hi + 1 /\ q \in lo + 1 .. hi + 1 /\ x \in Int /\ q \in Int
    BY <1>1, <1>5
  <2>2. B[x] \in Int /\ B[q] = d
    BY <1>1, <1>5, <2>1
  <2>3. CASE x < q
    <3>1. B[x] >= d + 2
      BY <2>1, <2>2, <2>3, <1>1 DEF Descends
    <3> QED BY <2>1, <2>2, <2>3, <3>1
  <2>4. CASE x = q
    BY <2>1, <2>2, <2>4
  <2>5. CASE q < x
    <3>1. d >= B[x] + 2
      BY <2>1, <2>2, <2>5, <1>1 DEF Descends
    <3> QED BY <2>1, <2>2, <2>5, <3>1
  <2> QED BY <2>1, <2>3, <2>4, <2>5
<1> QED BY <1>5, <1>6 DEF Cut

LEMMA CutBefore ==
  ASSUME NEW B, NEW lo \in Int, NEW hi \in Int, B \in [lo + 1 .. hi + 1 -> Int], NEW d \in Nat, NEW q, Cut(B, lo, hi, q, d),
         \A m \in lo + 1 .. hi : B[m] # d
  PROVE  Cut(B, lo, hi, q, d - 1)
<1>1. \A m \in lo + 1 .. hi : B[m] \in Int
  OBVIOUS
<1>2. \A m \in lo + 1 .. hi : B[m] <= d - 1 <=> B[m] <= d
  BY <1>1
<1> QED BY <1>2 DEF Cut

LEMMA CutEnd ==
  ASSUME NEW B, NEW lo, NEW hi, Fitting(B, lo, hi, log), NEW q, Cut(B, lo, hi, q, 0)
  PROVE  q = hi + 1
<1>1. lo \in Int /\ hi \in Int
  BY DEF Fitting
<1>2. q \in lo + 1 .. hi + 1
  BY DEF Cut
<1>3. ~(q <= hi)
  <2> SUFFICES ASSUME q <= hi PROVE FALSE
    OBVIOUS
  <2>1. q \in lo + 1 .. hi /\ q <= q
    BY <1>1, <1>2
  <2>2. B[q] <= 0
    BY <2>1 DEF Cut
  <2>3. B[q + 1] \in Nat /\ log[q] \in Nat /\ log[q] >= 2 /\ B[q] = B[q + 1] + log[q]
    BY <2>1, Positive
  <2> QED BY <2>2, <2>3
<1> QED BY <1>1, <1>2, <1>3

(* e torn texts and the messages from k to q - 1.                          *)
Out(k, e, q) == [j \in 1 .. q - k + e |-> IF j <= e THEN 0 ELSE k + j - 1 - e]

LEMMA OutGrows ==
  ASSUME NEW k \in Nat, NEW e \in {0, 1}, NEW q \in Nat, k <= q
  PROVE  /\ Out(k, 0, k) = <<>>
         /\ Append(Out(k, 0, k), 0) = Out(k, 1, k)
         /\ Append(Out(k, e, q), q) = Out(k, e, q + 1)
<1>1. Out(k, 0, k) = <<>>
  BY DEF Out
<1>2. Append(<<>>, 0) = Out(k, 1, k)
  <2>1. Out(k, 1, k) = [j \in 1 .. 1 |-> 0]
    BY DEF Out
  <2>2. [j \in 1 .. 1 |-> 0] = <<0>>
    OBVIOUS
  <2> QED BY <2>1, <2>2
<1>3. Append(Out(k, e, q), q) = Out(k, e, q + 1)
  <2> DEFINE n == q - k + e
             s == Out(k, e, q)
             u == Out(k, e, q + 1)
  <2>1. n \in Nat /\ (q + 1) - k + e = n + 1
    OBVIOUS
  <2>2. s = [j \in 1 .. n |-> IF j <= e THEN 0 ELSE k + j - 1 - e]
        /\ u = [j \in 1 .. n + 1 |-> IF j <= e THEN 0 ELSE k + j - 1 - e]
    BY <2>1 DEF Out
  <2> HIDE DEF s, u
  <2>3. s \in Seq(Int) /\ Len(s) = n /\ u \in Seq(Int) /\ Len(u) = n + 1
    BY <2>1, <2>2
  <2>4. Append(s, q) \in Seq(Int) /\ Len(Append(s, q)) = n + 1
    BY <2>3, AppendProperties
  <2>5. ASSUME NEW j \in 1 .. n + 1 PROVE Append(s, q)[j] = u[j]
    <3>1. CASE j = n + 1
      <4>1. u[j] = q
        BY <2>1, <2>2, <3>1
      <4> QED BY <2>3, <3>1, <4>1, AppendProperties
    <3>2. CASE j # n + 1
      <4>1. j \in 1 .. n
        BY <2>1, <3>2
      <4>2. u[j] = s[j]
        BY <2>2, <4>1
      <4> QED BY <2>3, <4>1, <4>2, AppendProperties
    <3> QED BY <3>1, <3>2
  <2>6. Append(s, q) = u
    BY <2>3, <2>4, <2>5, SeqEqual
  <2> QED BY <2>6 DEF s, u
<1> QED BY <1>1, <1>2, <1>3

(* What is printed of a copy of the last n bytes.                          *)
Reads(B, lo, hi, n, copy, k, e) ==
  /\ k \in lo + 1 .. hi + 1 /\ e \in {0, 1} /\ Cut(B, lo, hi, k, n)
  /\ Texts(copy) = Out(k, e, hi + 1)
  /\ Edge(B, lo, hi, n) => e = 0

LEMMA WhatIsRead ==
  ASSUME NEW B, NEW lo, NEW hi, Fitting(B, lo, hi, log), NEW n \in Nat, NEW copy, Holds(copy, B, lo, hi, n),
         \A i \in 1 .. n : copy[i] \in Numbers
  PROVE  \E k, e : Reads(B, lo, hi, n, copy, k, e)
<1> DEFINE torn == n > 0 /\ Starts(copy, 1) /\ \A m \in lo + 1 .. hi : B[m] # n
           e == IF torn THEN 1 ELSE 0
           E(i) == IF i = 0 THEN 0 ELSE e
           p == Printed(copy)
<1>1. lo \in Nat /\ hi \in Nat /\ lo <= hi /\ B \in [lo + 1 .. hi + 1 -> Int]
  BY DEF Fitting
<1>2. PICK k \in lo + 1 .. hi + 1 : Cut(B, lo, hi, k, n)
  BY CutSomewhere
<1>3. p[0] = <<>> /\ \A i \in 1 .. n : p[i] = Grows(copy, p[i - 1], i)
  <2>1. Len(copy) = n
    BY DEF Holds
  <2>2. Steps(copy, n)
    BY <2>1, PrintedRule
  <2> QED BY <2>2 DEF Steps
<1>4. e \in {0, 1} /\ (torn => e = 1) /\ (~torn => e = 0)
  OBVIOUS
<1> DEFINE At(i, q) == q \in k .. hi + 1 /\ Cut(B, lo, hi, q, n - i) /\ p[i] = Out(k, E(i), q)
           S == {i \in 0 .. n : \E q \in k .. hi + 1 : At(i, q)}
<1>5. 0 \in S
  <2>1. k \in Nat /\ k <= k /\ k \in k .. hi + 1 /\ n - 0 = n
    BY <1>1
  <2>2. Out(k, 0, k) = <<>>
    BY <2>1, OutGrows
  <2>3. p[0] = Out(k, E(0), k)
    BY <1>3, <2>2
  <2>4. At(0, k)
    BY <1>2, <2>1, <2>3
  <2> HIDE DEF At
  <2> QED BY <2>1, <2>4
<1>6. ASSUME NEW i \in 1 .. n, NEW q \in k .. hi + 1, At(i - 1, q) PROVE \E u \in k .. hi + 1 : At(i, u)
  <2> DEFINE d == n - (i - 1)
  <2>1. d \in Nat /\ d - 1 = n - i /\ d = n + 1 - i /\ i # 0 /\ (i = 1 <=> i - 1 = 0) /\ (i = 1 => d = n) /\ n > 0
    OBVIOUS
  <2>2. Cut(B, lo, hi, q, d) /\ p[i - 1] = Out(k, E(i - 1), q) /\ p[i] = Grows(copy, p[i - 1], i)
    BY <1>3, <1>6
  <2>3. E(i) = e /\ E(i - 1) \in {0, 1} /\ (i # 1 => E(i - 1) = e) /\ (i = 1 => E(i - 1) = 0)
    BY <1>4, <2>1
  <2>4. q \in Nat /\ k \in Nat /\ k <= q /\ q \in lo + 1 .. hi + 1
    BY <1>1
  <2> HIDE DEF E, e, d
  <2>5. CASE \E m \in lo + 1 .. hi : B[m] = d
    <3>1. PICK m \in lo + 1 .. hi : B[m] = d
      BY <2>5
    <3>2. m = q /\ q + 1 \in lo + 1 .. hi + 1 /\ Cut(B, lo, hi, q + 1, d - 1)
      BY <2>1, <2>2, <3>1, CutHere
    <3>3. Starts(copy, i) /\ Text(copy, i) = q
      <4>1. i = n + 1 - B[m] /\ B[m] <= n
        BY <2>1, <3>1
      <4> QED BY <3>2, <4>1, WholeText
    <3>4. p[i] = Append(Out(k, E(i - 1), q), q)
      BY <2>2, <3>3 DEF Grows
    <3>5. p[i] = Out(k, E(i - 1), q + 1)
      BY <2>3, <2>4, <3>4, OutGrows
    <3>6. E(i - 1) = E(i)
      <4>1. i = 1 => ~torn
        BY <2>1, <3>1
      <4> QED BY <1>4, <2>3, <4>1
    <3>7. q + 1 \in k .. hi + 1
      BY <2>4, <3>2, <1>1
    <3>8. At(i, q + 1)
      BY <2>1, <3>2, <3>5, <3>6, <3>7
    <3> HIDE DEF At
    <3> QED BY <3>7, <3>8
  <2>6. CASE \A m \in lo + 1 .. hi : B[m] # d
    <3>1. Cut(B, lo, hi, q, d - 1)
      <4>1. lo \in Int /\ hi \in Int /\ Cut(B, lo, hi, q, d)
        BY <1>1, <2>2
      <4> QED BY <1>1, <2>1, <2>6, <4>1, CutBefore
    <3>2. p[i] = Out(k, E(i), q)
      <4>1. CASE i # 1
        <5>1. i \in 2 .. n /\ \A m \in lo + 1 .. hi : B[m] # n + 1 - i
          BY <2>1, <2>6, <4>1
        <5>2. ~Starts(copy, i)
          BY <5>1, NoStart
        <5> QED BY <2>2, <2>3, <4>1, <5>2 DEF Grows
      <4>2. CASE i = 1 /\ Starts(copy, 1)
        <5>1. torn
          BY <2>1, <2>6, <4>2
        <5>2. Text(copy, 1) = 0
          BY <5>1, TornText
        <5>3. Cut(B, lo, hi, q, n)
          BY <2>1, <2>2, <4>2
        <5>4. q = k
          BY <1>1, <1>2, <5>3, CutOnce
        <5>5. p[i] = Append(Out(k, 0, k), 0)
          BY <2>2, <2>3, <4>2, <5>2, <5>4 DEF Grows
        <5>6. p[i] = Out(k, 1, k)
          BY <2>4, <5>5, OutGrows
        <5> QED BY <1>4, <2>3, <5>1, <5>4, <5>6
      <4>3. CASE i = 1 /\ ~Starts(copy, 1)
        <5>1. p[i] = Out(k, 0, q)
          BY <2>2, <2>3, <4>3 DEF Grows
        <5>2. e = 0
          BY <1>4, <4>3
        <5> QED BY <2>3, <5>1, <5>2
      <4> QED BY <4>1, <4>2, <4>3
    <3>3. At(i, q)
      BY <2>1, <3>1, <3>2
    <3> HIDE DEF At
    <3> QED BY <3>3
  <2> QED BY <2>5, <2>6
<1>7. n \in S
  <2>1. \A i \in 1 .. n : i - 1 \in S => i \in S
    <3> SUFFICES ASSUME NEW i \in 1 .. n, i - 1 \in S PROVE i \in S
      OBVIOUS
    <3>1. PICK q \in k .. hi + 1 : At(i - 1, q)
      OBVIOUS
    <3>2. \E u \in k .. hi + 1 : At(i, u)
      BY <1>6, <3>1
    <3> HIDE DEF At
    <3> QED BY <3>2
  <2> HIDE DEF S
  <2>2. \A i \in 0 .. n : i \in S
    BY <1>5, <2>1, UpTo
  <2> QED BY <2>2
<1>8. PICK q \in k .. hi + 1 : At(n, q)
  BY <1>7
<1>9. q = hi + 1
  <2>1. Cut(B, lo, hi, q, 0)
    BY <1>8
  <2> QED BY <2>1, CutEnd
<1>10. E(n) = e
  BY <1>4
<1>11. Texts(copy) = Out(k, e, hi + 1)
  <2>1. Texts(copy) = p[n]
    BY TextsPrinted DEF Holds
  <2> QED BY <1>8, <1>9, <1>10, <2>1
<1>12. Edge(B, lo, hi, n) => e = 0
  <2>1. torn => ~Edge(B, lo, hi, n)
    BY TornText
  <2> QED BY <1>4, <2>1
<1> QED BY <1>2, <1>4, <1>11, <1>12 DEF Reads

-----------------------------------------------------------------------------
(* Where a logread starts.                                                 *)

LEMMA NULIs ==
  ASSUME NEW c \in 0 .. Size, data[Size] = 0, Size \in Nat
  PROVE  /\ NUL(c) \in c .. Size /\ data[NUL(c)] = 0
         /\ \A j \in c .. NUL(c) - 1 : data[j] # 0
<1> DEFINE T == {j \in c .. Size : data[j] = 0}
<1>1. PICK j \in T : \A k \in T : j <= k
  <2>1. T \in SUBSET Nat /\ Size \in T
    OBVIOUS
  <2> HIDE DEF T
  <2> QED BY <2>1, SmallestNumber
<1>2. \A k \in c .. j - 1 : data[k] # 0
  BY <1>1
<1>3. \E i \in c .. Size : data[i] = 0 /\ \A k \in c .. i - 1 : data[k] # 0
  BY <1>1, <1>2
<1> QED BY <1>3 DEF NUL

(* A pass that starts at the oldest message starts behind a NUL; there is  *)
(* none between that one and the tail, if it has looked from the tail.     *)
LEMMA BehindNUL ==
  ASSUME TInv, NEW r \in Readers, Once(r), NEW n, n = Behind(tail, Start(r))
  PROVE  /\ n \in 0 .. Size - 1 /\ data[Pos(tail, n + 1)] = 0
         /\ reader[r].cur = tail => \A d \in n + 2 .. Size : data[Pos(tail, d)] # 0
<1>1. /\ Size \in Nat /\ Size > 1 /\ tail \in 0 .. Size - 1 /\ data[Size] = 0
      /\ reader[r].cur \in 0 .. Size - 1
  BY Sizes, ReaderField DEF TInv, IInv, Ring, ReaderOK
<1>2. PICK c \in 0 .. Size - 1 : c = reader[r].cur
  BY <1>1
<1>3. Start(r) = Oldest(c)
  BY <1>2 DEF Start, Once
<1>4. /\ NUL(c) \in c .. Size /\ data[NUL(c)] = 0 /\ \A j \in c .. NUL(c) - 1 : data[j] # 0
  BY <1>1, NULIs
<1>5. /\ NUL(0) \in 0 .. Size /\ data[NUL(0)] = 0 /\ \A j \in 0 .. NUL(0) - 1 : data[j] # 0
  BY <1>1, NULIs
<1>6. NUL(c) = Size => NUL(0) < tail
  <2>1. ~NoMessage(c)
    BY <1>2, Alone DEF TInv, Once, Reading
  <2> QED BY <1>1, <1>5, <2>1 DEF NoMessage
<1>7. CASE NUL(c) < Size
  <2> DEFINE j == NUL(c)
  <2>1. j \in c .. Size - 1 /\ j \in 0 .. Size - 1 /\ n = Behind(tail, Next1(j))
    BY <1>1, <1>3, <1>4, <1>7 DEF Oldest
  <2> HIDE DEF j
  <2>2. n \in 0 .. Size - 1 /\ Pos(tail, n + 1) = j
    BY <1>1, <2>1 DEF Behind, Next1, Pos
  <2>3. ASSUME c = tail, NEW d \in n + 2 .. Size PROVE data[Pos(tail, d)] # 0
    <3>1. Pos(tail, d) \in c .. j - 1
      BY <1>1, <2>1, <2>3 DEF Behind, Next1, Pos
    <3> QED BY <1>4, <3>1 DEF j
  <2> QED BY <1>2, <1>4, <2>2, <2>3 DEF j
<1>8. CASE NUL(c) = Size
  <2> DEFINE j == NUL(0)
  <2>1. j \in 0 .. Size - 1 /\ j < tail /\ n = Behind(tail, Next1(j))
    BY <1>1, <1>3, <1>5, <1>6, <1>8 DEF Oldest
  <2> HIDE DEF j
  <2>2. n \in 0 .. Size - 1 /\ Pos(tail, n + 1) = j
    BY <1>1, <2>1 DEF Behind, Next1, Pos
  <2>3. ASSUME c = tail, NEW d \in n + 2 .. Size PROVE data[Pos(tail, d)] # 0
    <3>1. Pos(tail, d) \in 0 .. j - 1 \/ Pos(tail, d) \in c .. Size - 1
      BY <1>1, <2>1, <2>3 DEF Behind, Next1, Pos
    <3> QED BY <1>4, <1>5, <1>8, <3>1 DEF j
  <2> QED BY <1>2, <1>5, <2>2, <2>3 DEF j
<1> QED BY <1>1, <1>4, <1>7, <1>8

LEMMA ZeroIsEdge ==
  ASSUME NEW B, NEW lo, NEW hi, Fitting(B, lo, hi, log), NEW n \in Nat, Shows(B, lo, hi, 0, n + 1)
  PROVE  Edge(B, lo, hi, n)
<1> SUFFICES ASSUME NEW m \in lo + 1 .. hi PROVE B[m] <= n \/ n <= B[m + 1]
  BY DEF Edge
<1>1. m > 0 /\ B[m] \in Nat /\ B[m + 1] \in Nat /\ \A q \in lo + 1 .. hi : q > 0
  BY Positive
<1>2. ~Has(B, m, n + 1)
  BY <1>1 DEF Shows
<1> QED BY <1>1, <1>2 DEF Has

(* What a logread that copies has before it.                               *)
Views(B, r, n) ==
  /\ Fitting(B, lost, Stored, log) /\ Stored <= MaxMessages
  /\ Sums(B, lost, Stored, Left, log) /\ Laid(B, lost, Stored, data, tail)
  /\ \A q \in Readers : Follows(B, lost, Stored, tail, reader[q], lag[q])
  /\ n = Behind(tail, Start(r)) /\ n \in 0 .. Size - 1
  /\ Holds(From(Start(r)), B, lost, Stored, n)

LEMMA Viewing ==
  ASSUME LInv, NEW r \in Readers, reader[r].pc = "read"
  PROVE  \E B, n : Views(B, r, n)
<1>1. /\ Size \in Nat /\ Size > 1 /\ tail \in 0 .. Size - 1
      /\ lost \in Nat /\ Stored \in Nat /\ lost <= Stored /\ Long(log, lost, Stored)
  BY Marks DEF LInv
<1>2. sem[2] = 0 /\ syslogd.pc \notin {"copy", "unlock"} /\ Left = 0 /\ Sane
  BY Alone DEF LInv, TInv, Left, Sane, Reading
<1>3. PICK B : /\ Sums(B, lost, Stored, Left, log)
               /\ Laid(B, lost, Stored, data, tail)
               /\ \A q \in Readers : Follows(B, lost, Stored, tail, reader[q], lag[q])
  BY <1>2 DEF LInv, Placed
<1>4. Fitting(B, lost, Stored, log)
  <2>1. B \in [lost + 1 .. Stored + 1 -> Int] /\ B[Stored + 1] = 0
        /\ \A m \in lost + 1 .. Stored : B[m] = B[m + 1] + log[m]
    BY <1>2, <1>3 DEF Sums
  <2>2. \A m \in lost + 1 .. Stored : log[m] \in 2 .. Size - 1
    BY <1>1 DEF Long
  <2>3. Descends(B, lost, Stored)
    BY <1>1, <1>3, <2>2, Older
  <2> QED BY <1>1, <2>1, <2>2, <2>3 DEF Fitting
<1>5. PICK c \in 0 .. Size - 1 : c = Start(r)
  BY StartIn DEF LInv, TInv
<1>6. PICK n \in 0 .. Size - 1 : n = Behind(tail, c)
  BY <1>1, Copied
<1>7. Len(From(c)) = n /\ \A i \in 1 .. n : From(c)[i] = data[Pos(tail, n + 1 - i)]
  BY <1>1, <1>6, Copied
<1>8. Holds(From(c), B, lost, Stored, n)
  <2>1. ASSUME NEW i \in 1 .. n PROVE Shows(B, lost, Stored, From(c)[i], n + 1 - i)
    <3>1. n + 1 - i \in 1 .. Size
      BY <1>1
    <3> QED BY <1>3, <1>7, <3>1 DEF Laid
  <2> QED BY <1>7, <2>1 DEF Holds
<1>9. Stored <= MaxMessages
  BY <1>1, Marks, Sizes DEF LInv, TInv, Bounded, Stored
<1> QED BY <1>3, <1>4, <1>5, <1>6, <1>8, <1>9 DEF Views

(* It starts between two messages, unless it is a follower that has        *)
(* printed nothing yet or was lapped.                                      *)
LEMMA AtEdge ==
  ASSUME LInv, NEW r \in Readers, reader[r].pc = "read", NEW B, NEW n, Views(B, r, n)
  PROVE  /\ reader[r].first => Edge(B, lost, Stored, n)
         /\ ~reader[r].first /\ lag[r] < Size =>
              /\ n = lag[r]
              /\ reader[r].said # -1 =>
                   /\ Edge(B, lost, Stored, n)
                   /\ reader[r].said > 0 => reader[r].said \in lost + 1 .. Stored /\ B[reader[r].said + 1] = n
<1>1. /\ Size \in Nat /\ Size > 1 /\ tail \in 0 .. Size - 1 /\ lag[r] \in 0 .. Size
  BY Marks DEF LInv
<1>2. /\ Fitting(B, lost, Stored, log) /\ Laid(B, lost, Stored, data, tail)
      /\ Follows(B, lost, Stored, tail, reader[r], lag[r])
      /\ n = Behind(tail, Start(r)) /\ n \in 0 .. Size - 1
  BY DEF Views
<1>3. ASSUME reader[r].first PROVE Edge(B, lost, Stored, n)
  <2>1. data[Pos(tail, n + 1)] = 0
    BY <1>2, <1>3, BehindNUL DEF LInv, Once
  <2>2. n + 1 \in 1 .. Size /\ n \in Nat
    BY <1>1, <1>2
  <2>3. Shows(B, lost, Stored, 0, n + 1)
    BY <1>2, <2>1, <2>2 DEF Laid
  <2> QED BY <1>2, <2>2, <2>3, ZeroIsEdge
<1>4. ASSUME ~reader[r].first, lag[r] < Size PROVE n = lag[r]
  <2>1. reader[r] # Gone
    BY DEF Gone
  <2>2. Start(r) = Pos(tail, lag[r])
    BY <1>2, <1>4, <2>1 DEF Start, Follows
  <2> QED BY <1>1, <1>2, <1>4, <2>2 DEF Behind, Pos
<1>5. reader[r] # Gone
  BY DEF Gone
<1> QED BY <1>2, <1>3, <1>4, <1>5 DEF Follows

(* What it prints.                                                         *)
LEMMA Prints ==
  ASSUME LInv, NEW r \in Readers, reader[r].pc = "read", NEW B, NEW n, Views(B, r, n)
  PROVE  \E k, e : Reads(B, lost, Stored, n, From(Start(r)), k, e)
<1>1. /\ Size \in Nat /\ tail \in 0 .. Size - 1 /\ lost \in Nat /\ Stored \in Nat /\ MaxMessages \in Nat
  BY Marks, Sizes DEF LInv, TInv
<1>2. /\ Fitting(B, lost, Stored, log) /\ Stored <= MaxMessages
      /\ n \in Nat /\ Holds(From(Start(r)), B, lost, Stored, n)
  BY <1>1 DEF Views
<1>3. PICK copy : copy = From(Start(r))
  OBVIOUS
<1>4. ASSUME NEW i \in 1 .. n PROVE copy[i] \in Numbers
  <2>1. Shows(B, lost, Stored, copy[i], n + 1 - i)
    BY <1>2, <1>3 DEF Holds
  <2> QED BY <1>1, <1>2, <2>1 DEF Shows, Numbers
<1> QED BY <1>2, <1>3, <1>4, WhatIsRead

-----------------------------------------------------------------------------
(* logread keeps its place.                                                *)

Lists(p, k, e, hi) ==
  /\ Len(p) = hi + 1 - k + e /\ (p = <<>> <=> k = hi + 1 /\ e = 0)
  /\ p # <<>> => p[Len(p)] = IF k <= hi THEN hi ELSE 0
  /\ \A i \in 1 .. hi + 1 - k + e : p[i] = IF i <= e THEN 0 ELSE k + i - 1 - e
LEMMA OutLists ==
  ASSUME NEW k \in Nat, NEW e \in {0, 1}, NEW hi \in Nat, k <= hi + 1, NEW p, p = Out(k, e, hi + 1)
  PROVE  Lists(p, k, e, hi)
<1>1. p = [j \in 1 .. hi + 1 - k + e |-> IF j <= e THEN 0 ELSE k + j - 1 - e]
  BY DEF Out
<1>2. hi + 1 - k + e \in Nat
  OBVIOUS
<1>3. Len(p) = hi + 1 - k + e /\ \A i \in 1 .. hi + 1 - k + e : p[i] = IF i <= e THEN 0 ELSE k + i - 1 - e
  BY <1>1, <1>2
<1>4. p = <<>> <=> Len(p) = 0
  BY <1>1, <1>2
<1>5. ASSUME p # <<>> PROVE p[Len(p)] = IF k <= hi THEN hi ELSE 0
  <2>1. Len(p) \in 1 .. hi + 1 - k + e
    BY <1>2, <1>3, <1>4, <1>5
  <2> QED BY <1>3, <2>1
<1> QED BY <1>3, <1>4, <1>5 DEF Lists

(* A follower that is not lapped then stands at the tail, behind the last  *)
(* message.                                                                *)
LEMMA CaughtUp ==
  ASSUME LInv, NEW r \in Readers, reader[r].pc = "read", lag[r] < Size, NEW B, NEW n, Views(B, r, n)
  PROVE  Follows(B, lost, Stored, tail, Waits(tail, Last(Printing(r), reader[r].said)), 0)
<1>1. PICK k, e : Reads(B, lost, Stored, n, From(Start(r)), k, e)
  BY Prints
<1>2. /\ tail \in 0 .. Size - 1 /\ Size \in Nat /\ lost \in Nat /\ Stored \in Nat /\ lost <= Stored
  BY Marks DEF LInv
<1>3. Fitting(B, lost, Stored, log) /\ n \in Nat
  BY <1>2 DEF Views
<1>4. Pos(tail, 0) = tail
  BY <1>2 DEF Pos
<1>5. Edge(B, lost, Stored, 0)
  <2>1. \A m \in lost + 1 .. Stored : 0 <= B[m + 1]
    BY <1>3, Positive
  <2> QED BY <2>1 DEF Edge
<1>6. PICK p, said : p = Printing(r) /\ said = reader[r].said
  OBVIOUS
<1>7. /\ k \in lost + 1 .. Stored + 1 /\ e \in {0, 1} /\ k \in Nat /\ k <= Stored + 1
      /\ Cut(B, lost, Stored, k, n) /\ p = Out(k, e, Stored + 1)
  BY <1>1, <1>2, <1>6 DEF Reads, Printing
<1>8. (p = <<>> <=> k = Stored + 1 /\ e = 0) /\ (p # <<>> => p[Len(p)] = IF k <= Stored THEN Stored ELSE 0)
  <2>1. Lists(p, k, e, Stored)
    BY <1>2, <1>7, OutLists
  <2> QED BY <2>1 DEF Lists
<1>9. ASSUME Last(p, said) > 0
      PROVE  Last(p, said) = Stored /\ Stored \in lost + 1 .. Stored
  <2>1. CASE p # <<>>
    <3>1. Last(p, said) = Stored /\ k <= Stored
      BY <1>8, <1>9, <2>1 DEF Last
    <3> QED BY <1>2, <1>7, <3>1
  <2>2. CASE p = <<>>
    <3>1. said > 0 /\ k = Stored + 1 /\ Last(p, said) = said
      BY <1>8, <1>9, <2>2 DEF Last
    <3>2. ~reader[r].first
      BY <1>6, <3>1 DEF LInv, Fresh
    <3>3. said \in lost + 1 .. Stored /\ B[said + 1] = n
      BY <1>6, <3>1, <3>2, AtEdge
    <3>4. ~(said + 1 \in lost + 1 .. Stored)
      <4> SUFFICES ASSUME said + 1 \in lost + 1 .. Stored PROVE FALSE
        OBVIOUS
      <4>1. B[said + 1] <= n => k <= said + 1
        BY <1>7 DEF Cut
      <4> QED BY <1>2, <1>3, <3>1, <3>3, <4>1
    <3> QED BY <1>2, <3>1, <3>3, <3>4
  <2> QED BY <2>1, <2>2
<1>10. Waits(tail, Last(p, said)).cur = tail /\ Waits(tail, Last(p, said)).said = Last(p, said)
  BY DEF Waits
<1>11. B[Stored + 1] = 0
  BY <1>3 DEF Fitting
<1> QED BY <1>4, <1>5, <1>6, <1>9, <1>10, <1>11 DEF Follows

LEMMA PlacedReader ==
  ASSUME LInv, Placed, NEW r \in Readers, NEW y, NEW g, UNCHANGED <<data, tail, log, lost, syslogd>>,
         reader' = [reader EXCEPT ![r] = y], lag' = [lag EXCEPT ![r] = g],
         NEW B, Sums(B, lost, Stored, Left, log), Laid(B, lost, Stored, data, tail),
         \A q \in Readers : Follows(B, lost, Stored, tail, reader[q], lag[q]),
         Follows(B, lost, Stored, tail, y, g)
  PROVE  Placed'
<1>1. Stored' = Stored /\ Left' = Left
  BY DEF Stored, Left, Newest
<1>2. ASSUME NEW q \in Readers PROVE Follows(B, lost, Stored, tail, reader'[q], lag'[q])
  <2>1. reader'[q] = (IF q = r THEN y ELSE reader[q]) /\ lag'[q] = (IF q = r THEN g ELSE lag[q])
    BY DEF LInv, TInv, IInv, Types, Bounded
  <2> QED BY <2>1
<1> QED BY <1>1, <1>2 DEF Placed

(* What each reader step does to the reader, and to how far it is behind.  *)
Comes(r, y, g) ==
  /\ ring # "none" /\ y.pc = "lock" /\ y.said = -1
  /\ IF ring = "clearing" THEN g = Size ELSE g = 0 /\ y.cur = tail
Enters(r, y, g) ==
  /\ y.cur = reader[r].cur /\ y.said = reader[r].said /\ g = lag[r] /\ reader[r] # Gone
  /\ y.pc = IF ring = "clearing" THEN "torn" ELSE "read"
HasRead(r, y, g) ==
  /\ Read(r) /\ y = Waits(tail, Last(Printing(r), reader[r].said))
  /\ g = IF lag[r] = Size THEN Size ELSE 0
LEMMA ReaderSteps ==
  ASSUME LInv, NEW r \in Readers, (\E first \in BOOLEAN : Begin(r, first)) \/ Pass(r) \/ Interrupt(r)
  PROVE  \E y, g :
           /\ reader' = [reader EXCEPT ![r] = y] /\ lag' = [lag EXCEPT ![r] = g]
           /\ UNCHANGED <<data, tail, ring, log, lost, syslogd>> /\ sem'[2] = sem[2]
           /\ y.first => y.said = -1
           /\ Comes(r, y, g) \/ Enters(r, y, g) \/ HasRead(r, y, g)
              \/ y = Gone \/ (y.pc = "lock" /\ g = Size)
<1> DEFINE Goal == \E y, g :
           /\ reader' = [reader EXCEPT ![r] = y] /\ lag' = [lag EXCEPT ![r] = g]
           /\ UNCHANGED <<data, tail, ring, log, lost, syslogd>> /\ sem'[2] = sem[2]
           /\ y.first => y.said = -1
           /\ Comes(r, y, g) \/ Enters(r, y, g) \/ HasRead(r, y, g)
              \/ y = Gone \/ (y.pc = "lock" /\ g = Size)
<1>1. UNCHANGED <<data, tail, ring, log, lost, syslogd>> /\ sem'[2] = sem[2]
  BY DEF Begin, Pass, ReadLock, Read, ReadTorn, Leaves, Interrupt, LeavesLock, LInv, TInv, IInv, Types
<1>2. ASSUME NEW first \in BOOLEAN, Begin(r, first) PROVE Goal
  <2>1. PICK c \in IF ring = "clearing" THEN {tail, 0} ELSE {tail} :
          reader' = [reader EXCEPT ![r] = [pc |-> "lock", cur |-> c, first |-> first, said |-> -1]]
    BY <1>2 DEF Begin
  <2> DEFINE y == [pc |-> "lock", cur |-> c, first |-> first, said |-> -1]
             g == IF ring = "clearing" THEN Size ELSE 0
  <2>2. lag' = [lag EXCEPT ![r] = g] /\ reader' = [reader EXCEPT ![r] = y]
    BY <1>2, <2>1 DEF Begin
  <2>3. y.pc = "lock" /\ y.said = -1 /\ y.cur = c /\ (ring # "clearing" => c = tail)
    BY <2>1
  <2>4. Comes(r, y, g)
    BY <1>2, <2>3 DEF Comes, Begin
  <2> HIDE DEF y, g
  <2> QED BY <1>1, <2>2, <2>3, <2>4
<1>3. CASE ReadLock(r)
  <2> DEFINE q == IF ring = "clearing" THEN "torn" ELSE "read"
             y == [reader[r] EXCEPT !.pc = q]
  <2>1. y.cur = reader[r].cur /\ y.first = reader[r].first /\ y.said = reader[r].said /\ y.pc = q
    BY ReaderField, EnteringReader DEF LInv, TInv, IInv
  <2>2. reader[r] # Gone /\ (reader[r].first => reader[r].said = -1)
    BY <1>3 DEF ReadLock, Gone, LInv, Fresh
  <2>3. reader' = [reader EXCEPT ![r] = y] /\ lag' = [lag EXCEPT ![r] = lag[r]]
    BY <1>3 DEF ReadLock, LInv, TInv, Bounded
  <2>4. Enters(r, y, lag[r])
    BY <2>1, <2>2 DEF Enters
  <2> HIDE DEF y
  <2> QED BY <1>1, <2>1, <2>2, <2>3, <2>4
<1>4. lag[r] \in 0 .. Size /\ Gone.first = FALSE /\ \A c, d : Waits(c, d).first = FALSE /\ Waits(c, d).pc = "lock"
  BY Marks DEF LInv, Gone, Waits
<1>5. CASE Interrupt(r)
  <2>1. reader' = [reader EXCEPT ![r] = Gone] /\ lag' = [lag EXCEPT ![r] = 0]
    BY <1>5 DEF Interrupt
  <2> QED BY <1>1, <1>4, <2>1
<1>6. ASSUME NEW y, Leaves(r, y)
      PROVE  /\ reader' = [reader EXCEPT ![r] = y]
             /\ lag' = [lag EXCEPT ![r] = IF lag[r] = Size /\ y # Gone THEN Size ELSE 0]
  BY <1>6 DEF Leaves, LInv, TInv, Bounded
<1>7. CASE Leaves(r, Gone)
  BY <1>1, <1>4, <1>6, <1>7
<1>8. ASSUME NEW c, NEW d, Waits(c, d) = Gone PROVE FALSE
  BY <1>8 DEF Waits, Gone
<1>9. CASE Read(r) /\ ~Leaves(r, Gone)
  <2>1. Leaves(r, Waits(tail, Last(Printing(r), reader[r].said)))
    BY <1>9 DEF Read, GoesOn
  <2> DEFINE y == Waits(tail, Last(Printing(r), reader[r].said))
             g == IF lag[r] = Size THEN Size ELSE 0
  <2>2. HasRead(r, y, g) /\ y.first = FALSE /\ y # Gone
    BY <1>4, <1>8, <1>9 DEF HasRead
  <2>3. reader' = [reader EXCEPT ![r] = y] /\ lag' = [lag EXCEPT ![r] = g]
    BY <1>6, <2>1, <2>2
  <2> HIDE DEF y, g
  <2> QED BY <1>1, <2>2, <2>3
<1>10. CASE ReadTorn(r) /\ ~Leaves(r, Gone)
  <2>1. PICK c : Leaves(r, Waits(c, reader[r].said))
    BY <1>10 DEF ReadTorn
  <2>2. lag[r] = Size
    BY <1>10 DEF ReadTorn, LInv, Lapped, Gone
  <2> DEFINE y == Waits(c, reader[r].said)
  <2>3. y.pc = "lock" /\ y.first = FALSE /\ y # Gone
    BY <1>4, <1>8
  <2>4. reader' = [reader EXCEPT ![r] = y] /\ lag' = [lag EXCEPT ![r] = Size]
    BY <1>6, <2>1, <2>2, <2>3
  <2> HIDE DEF y
  <2> QED BY <1>1, <2>3, <2>4
<1> QED BY <1>2, <1>3, <1>5, <1>7, <1>9, <1>10 DEF Pass

LEMMA ReaderPlaced ==
  ASSUME LInv, NEW r \in Readers, (\E first \in BOOLEAN : Begin(r, first)) \/ Pass(r) \/ Interrupt(r)
  PROVE  Fresh' /\ Lapped' /\ (Sane' => Placed')
<1>1. PICK y, g :
           /\ reader' = [reader EXCEPT ![r] = y] /\ lag' = [lag EXCEPT ![r] = g]
           /\ UNCHANGED <<data, tail, ring, log, lost, syslogd>> /\ sem'[2] = sem[2]
           /\ y.first => y.said = -1
           /\ Comes(r, y, g) \/ Enters(r, y, g) \/ HasRead(r, y, g)
              \/ y = Gone \/ (y.pc = "lock" /\ g = Size)
  BY ReaderSteps
<1>2. \A q \in Readers : /\ reader'[q] = (IF q = r THEN y ELSE reader[q])
                         /\ lag'[q] = (IF q = r THEN g ELSE lag[q])
  BY <1>1 DEF LInv, TInv, IInv, Types, Bounded
<1>3. Fresh'
  BY <1>1, <1>2 DEF LInv, Fresh
<1>4. /\ tail \in 0 .. Size - 1 /\ Size \in Nat /\ Size > 1 /\ Pos(tail, 0) = tail /\ lag[r] \in 0 .. Size
  BY Marks DEF LInv, Pos
<1>5. y # Gone /\ (ring # "ready" \/ y.pc = "torn") => g = Size
  <2>1. CASE Comes(r, y, g)
    BY <2>1 DEF Comes, LInv, Cleared
  <2>2. CASE Enters(r, y, g)
    BY <2>2 DEF Enters, LInv, Lapped
  <2>3. CASE HasRead(r, y, g)
    <3>1. ring = "ready" /\ y.pc = "lock"
      BY <2>3 DEF HasRead, Read, LInv, Cleared, Waits
    <3> QED BY <3>1
  <2> QED BY <1>1, <2>1, <2>2, <2>3
<1>6. Lapped'
  BY <1>1, <1>2, <1>5 DEF LInv, Lapped
<1>7. ASSUME Sane' PROVE Placed'
  <2>1. Placed
    BY <1>1, <1>7 DEF Sane, LInv
  <2>2. ASSUME NEW B, Sums(B, lost, Stored, Left, log), Laid(B, lost, Stored, data, tail),
               \A q \in Readers : Follows(B, lost, Stored, tail, reader[q], lag[q]),
               Follows(B, lost, Stored, tail, y, g)
        PROVE  Placed'
    BY <1>1, <2>1, <2>2, PlacedReader
  <2>3. PICK B : /\ Sums(B, lost, Stored, Left, log)
                 /\ Laid(B, lost, Stored, data, tail)
                 /\ \A q \in Readers : Follows(B, lost, Stored, tail, reader[q], lag[q])
    BY <2>1 DEF Placed
  <2>4. CASE y = Gone \/ g = Size
    <3>1. Follows(B, lost, Stored, tail, y, g)
      BY <1>4, <2>4 DEF Follows
    <3> QED BY <2>2, <2>3, <3>1
  <2>5. CASE Comes(r, y, g)
    <3>1. CASE g = 0 /\ y.cur = tail /\ y.said = -1
      <4>1. Follows(B, lost, Stored, tail, y, g)
        BY <1>4, <3>1 DEF Follows
      <4> QED BY <2>2, <2>3, <4>1
    <3> QED BY <2>4, <2>5, <3>1 DEF Comes
  <2>6. CASE Enters(r, y, g)
    <3>1. Follows(B, lost, Stored, tail, reader[r], lag[r])
      BY <2>3
    <3>2. Follows(B, lost, Stored, tail, y, g)
      BY <2>6, <3>1 DEF Follows, Enters
    <3> QED BY <2>2, <2>3, <3>2
  <2>7. CASE HasRead(r, y, g) /\ g # Size
    <3>1. Read(r) /\ reader[r].pc = "read" /\ g = 0 /\ lag[r] < Size
      BY <1>4, <2>7 DEF Read, HasRead
    <3>2. PICK C, n : Views(C, r, n)
      BY <3>1, Viewing
    <3>3. Follows(C, lost, Stored, tail, y, g)
      BY <2>7, <3>1, <3>2, CaughtUp DEF HasRead
    <3> QED BY <2>2, <3>2, <3>3 DEF Views
  <2> QED BY <1>1, <2>4, <2>5, <2>6, <2>7
<1> QED BY <1>3, <1>6, <1>7

LEMMA WriterFresh ==
  ASSUME LInv, (\E len \in Lengths : Receive(len)) \/ Work \/ Kill \/ Terminate \/ Restart \/ Started
  PROVE  Fresh' /\ Lapped'
<1>1. CASE UNCHANGED <<reader, lag>> /\ (ring' = ring \/ ring' = "ready")
  BY <1>1 DEF LInv, Fresh, Lapped
<1>2. CASE Copy
  <2>1. Size \in Nat /\ Size > 1 /\ \A n \in Nat : Within(Size + n) = Size
    BY Marks DEF LInv, Within
  <2>2. PICK n \in Nat : \A r \in Readers : lag'[r] = IF reader[r] = Gone THEN 0 ELSE Within(lag[r] + n)
    <3> DEFINE n == IF Fits(syslogd.left) THEN syslogd.left ELSE Size - tail
    <3>1. n \in Nat
      BY Field, Marks DEF LInv, TInv, IInv
    <3>2. \A r \in Readers : lag'[r] = IF reader[r] = Gone THEN 0 ELSE Within(lag[r] + n)
      BY <1>2 DEF Copy
    <3> QED BY <3>1, <3>2
  <2>3. UNCHANGED <<reader, ring>>
    BY <1>2 DEF Copy
  <2>4. Lapped'
    BY <2>1, <2>2, <2>3 DEF LInv, Lapped
  <2> QED BY <2>3, <2>4 DEF LInv, Fresh
<1>3. CASE Terminate
  BY <1>3 DEF Terminate, Fresh, Lapped, Gone
<1>4. CASE Restart
  <2>1. \A r \in Readers : reader'[r] = Torn(reader[r]) /\ lag'[r] = IF r \in Running THEN Size ELSE 0
    BY <1>4 DEF Restart
  <2>2. Torn(Gone) = Gone
    BY DEF Torn, Gone
  <2>3. \A r \in Readers : reader'[r].first = reader[r].first /\ reader'[r].said = reader[r].said
    BY <2>1, ReaderField, TornReader DEF LInv, TInv, IInv
  <2> QED BY <2>1, <2>2, <2>3 DEF LInv, Fresh, Lapped, Running
<1>5. CASE (\E len \in Lengths : Receive(len)) \/ Lock \/ Unlock \/ Kill \/ Started
  BY <1>1, <1>5 DEF Receive, Lock, Unlock, Kill, Started
<1> QED BY <1>2, <1>3, <1>4, <1>5 DEF Work

LEMMA InitPlaced == Init => Fresh /\ Lapped /\ Placed
<1> SUFFICES ASSUME Init PROVE Fresh /\ Lapped /\ Placed
  OBVIOUS
<1>1. /\ data = Empty /\ tail = 0 /\ lost = 0 /\ Stored = 0 /\ Left = 0
      /\ \A r \in Readers : reader[r] = Gone /\ lag[r] = 0
  BY DEF Init, Stored, Newest, Left
<1>2. Size \in Nat /\ Size > 1
  BY SyslogConstants
<1> DEFINE B == [m \in 0 + 1 .. 0 + 1 |-> 0]
<1>3. Sums(B, 0, 0, 0, log) /\ Laid(B, 0, 0, Empty, 0)
  BY <1>2, EmptyLaid
<1>4. Follows(B, 0, 0, 0, Gone, 0)
  BY <1>2, EmptyLaid
<1> HIDE DEF B
<1>5. Placed
  BY <1>1, <1>3, <1>4 DEF Placed
<1>6. Fresh /\ Lapped
  BY <1>1 DEF Fresh, Lapped, Gone
<1> QED BY <1>5, <1>6

LEMMA StepPlaced == LInv /\ [Next]_vars => LInv'
<1> SUFFICES ASSUME LInv, [Next]_vars PROVE LInv'
  OBVIOUS
<1>1. TInv' /\ Cleared'
  BY StepBounded, ClearedStep DEF LInv, TInv
<1>2. CASE UNCHANGED vars
  <2>1. Sane' => Sane
    BY <1>2 DEF vars, Sane
  <2>2. Stored' = Stored /\ Left' = Left /\ log' = log /\ Fresh' /\ Lapped'
    BY <1>2 DEF vars, Stored, Newest, Left, LInv, Fresh, Lapped
  <2>3. Placed => Placed'
    BY <1>2, <2>2, PlacedSame DEF vars
  <2> QED BY <1>1, <2>1, <2>2, <2>3 DEF LInv
<1>3. CASE Next
  <2>1. Fresh' /\ Lapped' /\ (Sane' => Placed')
    BY <1>3, WriterPlaced, WriterFresh, ReaderPlaced DEF Next
  <2> QED BY <1>1, <2>1 DEF LInv
<1> QED BY <1>2, <1>3

(* The ring holds the newest messages whole and in order, whenever no      *)
(* syslogd was killed while it wrote; a follower that is not lapped stands *)
(* behind the message that it has printed last.                            *)
THEOREM RingPlaced == Spec => []LInv
<1>1. Init => LInv
  BY InitSound, InitBounded, InitPlaced, ClearedInit DEF LInv, TInv
<1> QED BY <1>1, StepPlaced, PTL DEF Spec

-----------------------------------------------------------------------------
(* What follows for what is printed.                                       *)

Ordered(p, k, e, hi) ==
  /\ e = 0 => InOrder(p) /\ (p # <<>> => p[1] = k /\ p[Len(p)] = hi /\ k <= hi)
  /\ e = 1 => p[1] = 0 /\ InOrder(Tail(p))
LEMMA Consecutive ==
  ASSUME NEW k \in Nat, k > 0, NEW e \in {0, 1}, NEW hi \in Nat, k <= hi + 1, NEW p, p = Out(k, e, hi + 1)
  PROVE  Ordered(p, k, e, hi)
<1>1. Lists(p, k, e, hi)
  BY OutLists
<1>2. Len(p) = hi + 1 - k + e /\ \A i \in 1 .. hi + 1 - k + e : p[i] = IF i <= e THEN 0 ELSE k + i - 1 - e
  BY <1>1 DEF Lists
<1>3. ASSUME e = 0 PROVE InOrder(p)
  <2>1. ASSUME NEW i \in 1 .. Len(p) PROVE p[i] # 0 /\ (i > 1 => p[i] = p[i - 1] + 1)
    <3>1. i \in 1 .. hi + 1 - k + e /\ p[i] = k + i - 1
      BY <1>2, <1>3
    <3>2. i > 1 => i - 1 \in 1 .. hi + 1 - k + e
      BY <3>1
    <3>3. i > 1 => p[i - 1] = k + (i - 1) - 1
      BY <1>2, <1>3, <3>2
    <3> QED BY <3>1, <3>3
  <2> QED BY <2>1 DEF InOrder
<1>4. ASSUME e = 0, p # <<>> PROVE p[1] = k /\ p[Len(p)] = hi /\ k <= hi
  <2>1. k <= hi /\ p[Len(p)] = hi
    BY <1>1, <1>4 DEF Lists
  <2> QED BY <1>2, <1>4, <2>1
<1>5. ASSUME e = 1 PROVE p[1] = 0 /\ InOrder(Tail(p))
  <2>1. Len(p) = hi + 2 - k /\ p[1] = 0 /\ p = [j \in 1 .. hi + 2 - k |-> IF j <= 1 THEN 0 ELSE k + j - 2]
    BY <1>2, <1>5 DEF Out
  <2>2. p \in Seq(Int) /\ p # <<>>
    BY <2>1
  <2>3. Len(Tail(p)) = hi + 1 - k /\ \A i \in 1 .. Len(Tail(p)) : Tail(p)[i] = p[i + 1]
    BY <2>1, <2>2, HeadTailProperties
  <2>4. ASSUME NEW i \in 1 .. Len(Tail(p))
        PROVE  Tail(p)[i] # 0 /\ (i > 1 => Tail(p)[i] = Tail(p)[i - 1] + 1)
    <3>1. i \in 1 .. hi + 1 - k /\ Tail(p)[i] = k + i - 1
      BY <2>1, <2>3
    <3>2. i > 1 => i - 1 \in 1 .. Len(Tail(p)) /\ i - 1 \in 1 .. hi + 1 - k
      BY <2>3, <3>1
    <3>3. i > 1 => Tail(p)[i - 1] = k + (i - 1) - 1
      BY <2>1, <2>3, <3>2
    <3> QED BY <3>1, <3>3
  <2> QED BY <2>1, <2>4 DEF InOrder
<1> QED BY <1>3, <1>4, <1>5 DEF Ordered

(* Everything about one pass of a logread.                                 *)
Passes(r, B, n, k, e) ==
  /\ Views(B, r, n) /\ Reads(B, lost, Stored, n, From(Start(r)), k, e)
  /\ n \in Nat /\ n < Size /\ lost \in Nat /\ Stored \in Nat /\ lost <= Stored
  /\ k \in Nat /\ k > 0 /\ k <= Stored + 1 /\ e \in {0, 1}
  /\ Printing(r) = Out(k, e, Stored + 1)
LEMMA Passing ==
  ASSUME LInv, NEW r \in Readers, reader[r].pc = "read"
  PROVE  \E B, n, k, e : Passes(r, B, n, k, e)
<1>1. PICK B, n : Views(B, r, n)
  BY Viewing
<1>2. PICK k, e : Reads(B, lost, Stored, n, From(Start(r)), k, e)
  BY <1>1, Prints
<1>3. Size \in Nat /\ Size > 1 /\ lost \in Nat /\ Stored \in Nat /\ lost <= Stored /\ tail \in 0 .. Size - 1
  BY Marks DEF LInv
<1>4. n \in Nat /\ n < Size
  BY <1>1, <1>3 DEF Views
<1>5. k \in lost + 1 .. Stored + 1 /\ e \in {0, 1} /\ Texts(From(Start(r))) = Out(k, e, Stored + 1)
  BY <1>2 DEF Reads
<1> QED BY <1>1, <1>2, <1>3, <1>4, <1>5 DEF Passes, Printing

(* What logread prints in one pass, even from an old tail, is messages as  *)
(* syslogd has logged them, in order and up to the newest in the ring      *)
(* (logread_main with log_to_shmem), for any ring and any messages; only   *)
(* a pass during which ipcsyslog_init clears the ring is excepted.         *)
THEOREM MessagesAreWhole == Spec => []WholeMessages
<1>1. LInv => WholeMessages
  <2> SUFFICES ASSUME LInv, NEW r \in Readers, Once(r), Printing(r) # <<>>
               PROVE  InOrder(Printing(r)) /\ Printing(r)[Len(Printing(r))] = Stored
    BY DEF WholeMessages
  <2>1. PICK B, n, k, e : Passes(r, B, n, k, e)
    BY Passing DEF Once
  <2>2. Edge(B, lost, Stored, n)
    BY <2>1, AtEdge DEF Once, Passes
  <2>3. e = 0
    BY <2>1, <2>2 DEF Passes, Reads
  <2>4. Ordered(Printing(r), k, e, Stored)
    BY <2>1, Consecutive DEF Passes
  <2> QED BY <2>3, <2>4 DEF Ordered
<1> QED BY <1>1, RingPlaced, PTL

(* A follower prints each message once and in order, as long as it is not  *)
(* lapped: it goes on with the message behind the last that it printed     *)
(* (logread_main); only its first text may be torn.                        *)
THEOREM FollowersGoOn == Spec => []FollowsInOrder
<1>1. LInv => FollowsInOrder
  <2> SUFFICES ASSUME LInv, NEW r \in Followers, NEW p, p = Printing(r), NEW said, said = reader[r].said,
                      reader[r].pc = "read", ~reader[r].first, lag[r] < Size, p # <<>>
               PROVE  /\ InOrder(IF said = -1 /\ p[1] = 0 THEN Tail(p) ELSE p)
                      /\ said > 0 => p[1] = said + 1
    BY DEF FollowsInOrder
  <2>0. r \in Readers
    BY SyslogConstants
  <2>1. PICK B, n, k, e : Passes(r, B, n, k, e)
    BY <2>0, Passing
  <2>2. /\ Views(B, r, n) /\ n \in Nat /\ lost \in Nat /\ Stored \in Nat
        /\ k \in Nat /\ k > 0 /\ k <= Stored + 1 /\ e \in {0, 1} /\ p = Out(k, e, Stored + 1)
    BY <2>1 DEF Passes
  <2>3. said # -1 => /\ Edge(B, lost, Stored, n)
                     /\ said > 0 => said \in lost + 1 .. Stored /\ B[said + 1] = n
    BY <2>0, <2>2, AtEdge
  <2>4. said # -1 => e = 0
    BY <2>1, <2>3 DEF Passes, Reads
  <2>5. /\ e = 0 => InOrder(p) /\ p[1] = k /\ k <= Stored
        /\ e = 1 => p[1] = 0 /\ InOrder(Tail(p))
    <3>1. Ordered(p, k, e, Stored)
      BY <2>2, Consecutive
    <3> QED BY <3>1 DEF Ordered
  <2>6. InOrder(IF said = -1 /\ p[1] = 0 THEN Tail(p) ELSE p)
    BY <2>2, <2>4, <2>5
  <2>7. ASSUME said > 0 PROVE p[1] = said + 1
    <3>1. said \in lost + 1 .. Stored /\ B[said + 1] = n /\ k <= Stored /\ p[1] = k
      BY <2>3, <2>4, <2>5, <2>7
    <3>2. Cut(B, lost, Stored, k, n) /\ k \in lost + 1 .. Stored + 1
      BY <2>1 DEF Passes, Reads
    <3>3. k \in lost + 1 .. Stored /\ said + 1 \in lost + 1 .. Stored + 1
      BY <2>2, <3>1, <3>2
    <3>4. B[k] <= n
      BY <2>2, <3>2, <3>3 DEF Cut
    <3>5. ~(k < said + 1)
      <4> SUFFICES ASSUME k < said + 1 PROVE FALSE
        OBVIOUS
      <4>1. B[k] >= B[said + 1] + 2 /\ B[k] \in Int
        BY <2>2, <3>2, <3>3 DEF Views, Fitting, Descends
      <4> QED BY <2>2, <3>1, <3>4, <4>1
    <3>6. said + 1 \in lost + 1 .. Stored
      BY <2>2, <3>1, <3>5
    <3>7. k <= said + 1
      BY <2>2, <3>1, <3>2, <3>6 DEF Cut
    <3> QED BY <2>2, <3>1, <3>5, <3>7
  <2> QED BY <2>6, <2>7
<1> QED BY <1>1, RingPlaced, PTL

-----------------------------------------------------------------------------
(* How many bytes behind the tail a message begins.                        *)

SumRule(m, f) == f = [i \in m - 1 .. Stored |-> IF i < m THEN 0 ELSE f[i - 1] + log[i]]
Total(m) == CHOOSE f : SumRule(m, f)

LEMMA BytesTotal == ASSUME NEW m PROVE Bytes(m) = Total(m)[Stored]
BY DEF Bytes, Total, SumRule

LEMMA BytesAre ==
  ASSUME NEW B, NEW lo, Fitting(B, lo, Stored, log), NEW m \in lo + 1 .. Stored
  PROVE  Bytes(m) = B[m]
<1>1. PICK hi : hi = Stored
  OBVIOUS
<1>2. /\ lo \in Nat /\ hi \in Nat /\ B \in [lo + 1 .. hi + 1 -> Int] /\ B[hi + 1] = 0
      /\ m \in lo + 1 .. hi /\ \A q \in lo + 1 .. hi : B[q] = B[q + 1] + log[q] /\ log[q] \in Nat
  BY <1>1 DEF Fitting
<1> DEFINE w == [i \in m - 1 .. hi |-> B[m] - B[i + 1]]
<1>3. SumRule(m, w)
  <2>1. ASSUME NEW i \in m - 1 .. hi PROVE w[i] = IF i < m THEN 0 ELSE w[i - 1] + log[i]
    <3>1. CASE i < m
      <4>1. i = m - 1 /\ i + 1 = m /\ B[m] \in Int
        BY <1>2, <3>1
      <4> QED BY <3>1, <4>1
    <3>2. CASE ~(i < m)
      <4>1. i \in lo + 1 .. hi /\ i - 1 \in m - 1 .. hi /\ (i - 1) + 1 = i /\ i + 1 \in lo + 1 .. hi + 1
        BY <1>2, <3>2
      <4>2. B[i] = B[i + 1] + log[i] /\ B[i] \in Int /\ B[i + 1] \in Int /\ B[m] \in Int /\ log[i] \in Nat
        BY <1>2, <4>1
      <4>3. w[i] = B[m] - B[i + 1] /\ w[i - 1] = B[m] - B[i]
        BY <4>1
      <4> HIDE DEF w
      <4> QED BY <3>2, <4>2, <4>3
    <3> QED BY <3>1, <3>2
  <2> DEFINE v == [i \in m - 1 .. hi |-> IF i < m THEN 0 ELSE w[i - 1] + log[i]]
  <2>2. w = v
    <3>1. \A i \in m - 1 .. hi : w[i] = v[i]
      BY <2>1
    <3> QED BY <3>1
  <2> HIDE DEF w
  <2> QED BY <1>1, <2>2 DEF SumRule
<1> DEFINE f == Total(m)
<1>4. SumRule(m, f)
  <2> HIDE DEF w
  <2> QED BY <1>3 DEF Total
<1> HIDE DEF f
<1>5. f = [i \in m - 1 .. hi |-> IF i < m THEN 0 ELSE f[i - 1] + log[i]]
  BY <1>1, <1>4 DEF SumRule
<1>6. f[m - 1] = 0 /\ \A i \in m .. hi : f[i] = f[i - 1] + log[i]
  <2>1. m - 1 \in m - 1 .. hi /\ m - 1 < m /\ \A i \in m .. hi : i \in m - 1 .. hi /\ ~(i < m)
    BY <1>2
  <2> QED BY <1>5, <2>1
<1> DEFINE l == hi - m + 1
           S == {j \in 0 .. l : f[m - 1 + j] = B[m] - B[m + j]}
<1>7. l \in Nat /\ 0 \in S
  <2>1. l \in Nat /\ 0 \in 0 .. l /\ m - 1 + 0 = m - 1 /\ m + 0 = m /\ B[m] \in Int
    BY <1>2
  <2> HIDE DEF l
  <2> QED BY <1>6, <2>1
<1>8. ASSUME NEW j \in 1 .. l, j - 1 \in S PROVE j \in S
  <2>1. /\ m - 1 + j \in m .. hi /\ m - 1 + j \in lo + 1 .. hi /\ m + j \in lo + 1 .. hi + 1
        /\ m - 1 + (j - 1) = (m - 1 + j) - 1 /\ m + (j - 1) = m - 1 + j /\ (m - 1 + j) + 1 = m + j
        /\ m \in lo + 1 .. hi + 1 /\ m - 1 + j \in lo + 1 .. hi + 1 /\ j \in 0 .. l
    BY <1>2
  <2>2. f[m - 1 + j] = f[m - 1 + (j - 1)] + log[m - 1 + j]
    BY <1>6, <2>1
  <2>3. f[m - 1 + (j - 1)] = B[m] - B[m - 1 + j]
    BY <1>8, <2>1
  <2>4. /\ B[m - 1 + j] = B[m + j] + log[m - 1 + j] /\ log[m - 1 + j] \in Nat
        /\ B[m] \in Int /\ B[m + j] \in Int /\ B[m - 1 + j] \in Int
    BY <1>2, <2>1
  <2>5. f[m - 1 + j] = B[m] - B[m + j]
    BY <2>2, <2>3, <2>4
  <2> QED BY <2>1, <2>5
<1>9. l \in S
  <2>1. \A j \in 1 .. l : j - 1 \in S => j \in S
    BY <1>8
  <2> HIDE DEF S, l
  <2>2. \A j \in 0 .. l : j \in S
    BY <1>7, <2>1, UpTo
  <2> QED BY <1>7, <2>2
<1>10. f[hi] = B[m]
  <2>1. m - 1 + l = hi /\ m + l = hi + 1 /\ B[m] \in Int
    BY <1>2
  <2> QED BY <1>2, <1>9, <2>1
<1> QED BY <1>1, <1>10, BytesTotal DEF f

(* If nothing was logged since it looked at the tail, logread prints every *)
(* message that is complete in the ring, wherever the ring begins.         *)
THEOREM EverythingIsPrinted == Spec => []PrintsAll
<1>1. LInv => PrintsAll
  <2> SUFFICES ASSUME LInv, NEW r \in Readers, Once(r), lag[r] = 0 PROVE AllPrinted(r)
    BY DEF PrintsAll
  <2>1. PICK B, n, k, e : Passes(r, B, n, k, e)
    BY Passing DEF Once
  <2>2. /\ n \in Nat /\ n < Size /\ lost \in Nat /\ Stored \in Nat /\ lost <= Stored
        /\ k \in Nat /\ k > 0 /\ k <= Stored + 1 /\ Printing(r) = Out(k, e, Stored + 1)
        /\ k \in lost + 1 .. Stored + 1 /\ Cut(B, lost, Stored, k, n)
    BY <2>1 DEF Passes, Reads
  <2>3. /\ Fitting(B, lost, Stored, log) /\ Laid(B, lost, Stored, data, tail)
        /\ Follows(B, lost, Stored, tail, reader[r], lag[r]) /\ n = Behind(tail, Start(r))
    BY <2>1 DEF Passes, Views
  <2>4. Size \in Nat /\ Size > 1 /\ tail \in 0 .. Size - 1
    BY Marks DEF LInv
  <2>5. Edge(B, lost, Stored, n) /\ e = 0
    <3>1. Edge(B, lost, Stored, n)
      BY <2>1, AtEdge DEF Once, Passes
    <3> QED BY <2>1, <3>1 DEF Passes, Reads
  <2>6. \A d \in n + 2 .. Size : data[Pos(tail, d)] # 0
    <3>1. reader[r].cur = tail
      <4>1. reader[r] # Gone
        BY DEF Once, Gone
      <4> QED BY <2>3, <2>4, <4>1 DEF Follows, Pos
    <3> QED BY <2>3, <3>1, BehindNUL DEF LInv
  <2>7. ASSUME NEW m \in lost + 1 .. Stored PROVE B[m] < Size <=> k <= m
    <3>1. /\ B[m] \in Nat /\ B[m + 1] \in Nat /\ m \in lost + 1 .. Stored + 1
          /\ lost \in Int /\ Stored \in Int /\ B \in [lost + 1 .. Stored + 1 -> Int]
          /\ Descends(B, lost, Stored) /\ B[m] = B[m + 1] + log[m] /\ log[m] \in Nat /\ log[m] >= 2
      BY <2>3, Positive
    <3>2. B[m] <= n <=> k <= m
      BY <2>2 DEF Cut
    <3>3. ASSUME B[m] < Size, ~(B[m] <= n) PROVE FALSE
      <4>1. B[m] + 1 \in n + 2 .. Size /\ B[m] + 1 \in 1 .. Size
        <5>1. \A b \in Nat : b < Size /\ ~(b <= n) => b + 1 \in n + 2 .. Size /\ b + 1 \in 1 .. Size
          BY <2>2, <2>4
        <5> QED BY <3>1, <3>3, <5>1
      <4>2. PICK x : x = data[Pos(tail, B[m] + 1)]
        OBVIOUS
      <4>3. Shows(B, lost, Stored, x, B[m] + 1)
        BY <2>3, <4>1, <4>2 DEF Laid
      <4>4. x = 0
        BY <3>1, <4>3, Between
      <4> QED BY <2>6, <4>1, <4>2, <4>4
    <3> QED BY <2>2, <2>4, <3>1, <3>2, <3>3
  <2>8. Complete = k .. Stored
    <3>1. \A m \in lost + 1 .. Stored : Bytes(m) < Size <=> k <= m
      <4>1. \A m \in lost + 1 .. Stored : Bytes(m) = B[m]
        BY <2>3, BytesAre
      <4> QED BY <2>7, <4>1
    <3>2. Complete = {m \in lost + 1 .. Stored : k <= m}
      BY <3>1 DEF Complete
    <3> QED BY <2>2, <3>2
  <2>9. {Printing(r)[i] : i \in 1 .. Len(Printing(r))} = k .. Stored
    <3>1. PICK p : p = Printing(r)
      OBVIOUS
    <3>2. Lists(p, k, 0, Stored)
      BY <2>2, <2>5, <3>1, OutLists
    <3>3. Len(p) = Stored + 1 - k /\ \A i \in 1 .. Stored + 1 - k : p[i] = k + i - 1
      BY <2>2, <3>2 DEF Lists
    <3>4. ASSUME NEW m \in k .. Stored PROVE \E i \in 1 .. Len(p) : m = p[i]
      <4>1. m - k + 1 \in 1 .. Stored + 1 - k /\ k + (m - k + 1) - 1 = m
        BY <2>2
      <4> QED BY <3>3, <4>1
    <3>5. \A i \in 1 .. Len(p) : p[i] \in k .. Stored
      BY <2>2, <3>3
    <3> QED BY <3>1, <3>4, <3>5
  <2> QED BY <2>8, <2>9 DEF AllPrinted
<1> QED BY <1>1, RingPlaced, PTL
=============================================================================
