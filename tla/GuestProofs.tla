---------------------------- MODULE GuestProofs ----------------------------
(***************************************************************************)
(* Proofs about login as process 1, for any names and passwords that may   *)
(* be typed.                                                               *)
(***************************************************************************)
EXTENDS Guest, TLAPS

USE DEF Asking

(* Every command of multi.sh is a chown to an account or a chmod to a mode *)
(* of three digits.                                                        *)
Command == [op : {"chown", "chmod"}, dirs : SUBSET Dirs, who : Accounts,
            mode : Seq({0, 5, 7})]

LEMMA CommandTypes == Commands \in Seq(Command)
<1>1. ASSUME NEW d \in SUBSET Dirs, NEW u \in Accounts
      PROVE  Chowns(d, u) \in Command
  BY DEF Command, Chowns
<1>2. ASSUME NEW d \in SUBSET Dirs, NEW m \in Seq({0, 5, 7})
      PROVE  Chmods(d, m) \in Command
  BY DEF Command, Chmods, Accounts
<1>3. /\ <<7, 0, 0>> \in Seq({0, 5, 7}) /\ <<7, 7, 7>> \in Seq({0, 5, 7})
      /\ <<7, 5, 0>> \in Seq({0, 5, 7})
  OBVIOUS
<1>4. /\ Chowns(Dirs, "root") \in Command
      /\ \A h \in Homes : Chowns({h}, h) \in Command
  BY <1>1 DEF Homes, Dirs, Accounts
<1>5. /\ Chmods({"root"}, <<7, 0, 0>>) \in Command
      /\ Chmods({"tmp"}, <<7, 7, 7>>) \in Command
      /\ Chmods({"henn"}, <<7, 5, 0>>) \in Command
      /\ \A h \in Homes : Chmods({h}, <<7, 0, 0>>) \in Command
  BY <1>2, <1>3 DEF Homes, Dirs
<1> QED
  BY <1>4, <1>5 DEF Commands, Homes

-----------------------------------------------------------------------------

LEMMA InitTypes == Init => TypeOK
<1> SUFFICES ASSUME Init PROVE TypeOK
  OBVIOUS
<1>1. AccountsOK
  <2>1. accounts \in [{} -> Secrets]
    BY DEF Init, LoginInit
  <2> QED
    BY <2>1 DEF AccountsOK
<1>2. LoginTypeOK
  <2>1. phase = "off" /\ echo = TRUE /\ armed = FALSE /\ pw = NoOne /\ session = NoOne
    BY DEF Init, LoginInit
  <2>2. count = 0 /\ cntdown = 3 /\ typed = [name |-> NoOne, secret |-> NoOne]
    BY DEF Init, LoginInit, EMPTY_USERNAME_COUNT, Nothing
  <2>3. echo \in BOOLEAN /\ armed \in BOOLEAN
    BY <2>1
  <2>4. count \in 0 .. 3 /\ cntdown \in 0 .. EMPTY_USERNAME_COUNT
    BY <2>2 DEF EMPTY_USERNAME_COUNT
  <2> QED
    BY <1>1, <2>1, <2>2, <2>3, <2>4 DEF LoginTypeOK, Phases
<1>3. HomesTypeOK
  <2>1. <<7, 5, 5>> \in Seq({0, 5, 7})
    OBVIOUS
  <2> QED
    BY <2>1 DEF Init, HomesInit, HomesTypeOK
<1> QED
  BY <1>2, <1>3 DEF Init, LoginInit, TypeOK

LEMMA HomesTypes ==
  ASSUME HomesTypeOK, RunCommand PROVE HomesTypeOK'
<1> DEFINE c == Commands[step]
<1>1. c \in Command
  BY CommandTypes DEF HomesTypeOK, RunCommand
<1>2. c.who \in Accounts /\ c.mode \in Seq({0, 5, 7})
  BY <1>1 DEF Command
<1>3. owner' \in [Dirs -> Accounts \cup {"builder"}]
  BY <1>2 DEF HomesTypeOK, RunCommand
<1>4. mode' \in [Dirs -> Seq({0, 5, 7})]
  BY <1>2 DEF HomesTypeOK, RunCommand
<1> QED
  BY <1>3, <1>4 DEF HomesTypeOK, RunCommand

LEMMA PasswdTypes ==
  ASSUME NEW i, NEW passwd, passwd = Passwd(i), accounts' = passwd
  PROVE  AccountsOK' /\ DOMAIN accounts' \subseteq Accounts
<1>1. \E known \in SUBSET Names : passwd \in [known -> Secrets]
  <2>1. CASE i = "single"
    <3>1. passwd \in [{"root"} -> Secrets] /\ {"root"} \in SUBSET Names
      BY <2>1, AccountsAssumption DEF Passwd, Accounts
    <3> QED
      BY <3>1
  <2>2. CASE i # "single"
    <3>1. passwd \in [Accounts -> Secrets] /\ Accounts \in SUBSET Names
      BY <2>2, AccountsAssumption DEF Passwd
    <3> QED
      BY <3>1
  <2> QED
    BY <2>1, <2>2
<1>2. DOMAIN passwd \subseteq Accounts
  BY DEF Passwd, Accounts
<1> QED
  BY <1>1, <1>2 DEF AccountsOK

(* The steps of login keep its types, whoever runs it.                     *)
LEMMA LoginTypes ==
  ASSUME LoginTypeOK, phase \in Asking => count < 3 /\ cntdown > 0,
         LoginInput \/ LoginStep \/ Alarm \/ Logout
  PROVE  LoginTypeOK' /\ UNCHANGED accounts
<1> USE DEF LoginTypeOK, Phases, EMPTY_USERNAME_COUNT, attempt, console, Exit, Nothing
<1>1. AccountsOK' /\ UNCHANGED accounts
  BY DEF AccountsOK, LoginInput, LoginStep, Alarm, Logout, EmptyName, NoName,
         TypeName, TypePassword, Lookup, HideEcho, ShowEcho, CheckPassword,
         Failed, Accepted
<1>2. CASE EmptyName
  BY <1>1, <1>2 DEF EmptyName
<1>3. CASE NoName
  BY <1>1, <1>3 DEF NoName
<1>4. ASSUME NEW n \in Names, TypeName(n) PROVE LoginTypeOK'
  BY <1>1, <1>4 DEF TypeName
<1>5. ASSUME NEW p \in Secrets \cup {NoOne}, TypePassword(p) PROVE LoginTypeOK'
  BY <1>1, <1>5 DEF TypePassword
<1>6. CASE Lookup
  BY <1>1, <1>6 DEF Lookup
<1>7. CASE HideEcho
  BY <1>1, <1>7 DEF HideEcho
<1>8. CASE ShowEcho
  BY <1>1, <1>8 DEF ShowEcho
<1>9. CASE CheckPassword
  BY <1>1, <1>9 DEF CheckPassword
<1>10. CASE Failed
  BY <1>1, <1>10 DEF Failed
<1>11. CASE Accepted
  BY <1>1, <1>11 DEF Accepted
<1>12. CASE Alarm
  BY <1>1, <1>12 DEF Alarm
<1>13. CASE Logout
  BY <1>1, <1>13 DEF Logout
<1> QED
  BY <1>1, <1>2, <1>3, <1>4, <1>5, <1>6, <1>7, <1>8, <1>9, <1>10, <1>11, <1>12,
     <1>13 DEF LoginInput, LoginStep

-----------------------------------------------------------------------------

(* The types and the inductive invariant, step by step.                    *)
LEMMA InitInv == Init => Inv
<1> SUFFICES ASSUME Init PROVE GuestInv
  BY InitTypes DEF Inv
<1> QED
  BY DEF Init, LoginInit, GuestInv, Looked, Granted, ShellIsEarned, Silent, Counted,
         Begun

LEMMA BootKeeps ==
  ASSUME Inv, NEW m \in Modes, Boot(m) PROVE Inv'
<1>1. PICK i \in Choice(m) : image' = i /\ LoginStart(Passwd(i))
  BY DEF Boot
<1>2. AccountsOK' /\ DOMAIN accounts' \subseteq Accounts
  BY <1>1, PasswdTypes DEF LoginStart
<1>3. LoginTypeOK'
  BY <1>1, <1>2 DEF LoginTypeOK, LoginStart, Phases, Nothing, EMPTY_USERNAME_COUNT
<1>4. HomesTypeOK'
  BY DEF Inv, TypeOK, HomesTypeOK, Boot, homeVars
<1>5. image' \in {"single", "multi"} /\ tty' \in {"ttyS0", "tty0"}
  BY <1>1 DEF Boot, Choice, Console, Modes
<1>6. TypeOK'
  BY <1>2, <1>3, <1>4, <1>5 DEF TypeOK, Boot
<1>7. GuestInv'
  BY <1>1 DEF Boot, LoginStart, GuestInv, Looked, Granted, ShellIsEarned, Silent,
     Counted, Begun, EMPTY_USERNAME_COUNT
<1> QED
  BY <1>6, <1>7 DEF Inv

LEMMA EndQemuKeeps ==
  ASSUME Inv, EndQemu PROVE Inv'
<1>1. TypeOK'
  BY DEF Inv, TypeOK, EndQemu, LoginTypeOK, AccountsOK, HomesTypeOK, Phases, attempt,
     homeVars, hostVars, logs, shell
<1>2. GuestInv'
  BY DEF Inv, EndQemu, GuestInv, Looked, Granted, ShellIsEarned, Silent, Counted,
     Begun, attempt, logs
<1> QED
  BY <1>1, <1>2 DEF Inv

(* The steps that leave login alone.                                       *)
LEMMA OthersKeep ==
  ASSUME Inv, MakeHomes \/ (\E d \in Dirs : Enter(d) \/ Write(d)) \/ UNCHANGED vars
  PROVE  Inv'
<1>1. UNCHANGED <<loginVars, logs>>
  BY DEF MakeHomes, Enter, Write, vars
<1>2. GuestInv'
  BY <1>1 DEF Inv, GuestInv, Looked, Granted, Matches, ShellIsEarned, Silent,
     Counted, Begun, loginVars, attempt, console, logs
<1>3. LoginTypeOK' /\ DOMAIN accounts' \subseteq Accounts
  BY <1>1 DEF Inv, TypeOK, LoginTypeOK, AccountsOK, loginVars, attempt, console
<1>4. HomesTypeOK'
  BY HomesTypes DEF Inv, TypeOK, MakeHomes, Enter, Write, vars, homeVars, HomesTypeOK
<1>5. TypeOK'
  BY <1>1, <1>3, <1>4 DEF Inv, TypeOK, MakeHomes, Enter, Write, vars, hostVars,
     logs, shell
<1> QED
  BY <1>2, <1>5 DEF Inv

LEMMA LoginKeepsTypes ==
  ASSUME Inv, UserTypes \/ LoginRuns \/ TimesOut \/ LogsOut PROVE TypeOK'
<1>1. LoginTypeOK' /\ UNCHANGED accounts
  BY LoginTypes DEF Inv, TypeOK, GuestInv, Counted, UserTypes, LoginRuns, TimesOut,
     LogsOut
<1>2. HomesTypeOK'
  BY DEF Inv, TypeOK, HomesTypeOK, UserTypes, LoginRuns, TimesOut, LogsOut, homeVars
<1>3. CASE LoginRuns
  <2>1. cwd' \in Dirs \cup {"/"}
    <3>1. CASE phase = "accepted"
      <4>1. pw \in Accounts
        BY <1>3, <3>1 DEF Inv, TypeOK, GuestInv, Looked, Granted, Matches
      <4> QED
        BY <3>1, <4>1, <1>3 DEF LoginRuns, StartDir, Accounts, Dirs, Homes
    <3> QED
      BY <3>1, <1>3 DEF LoginRuns, Inv, TypeOK
  <2> QED
    BY <1>1, <1>2, <1>3, <2>1 DEF LoginRuns, Inv, TypeOK, hostVars
<1>4. CASE UserTypes \/ TimesOut \/ LogsOut
  BY <1>1, <1>2, <1>4 DEF Inv, TypeOK, UserTypes, TimesOut, LogsOut, hostVars,
     logs, shell
<1> QED
  BY <1>3, <1>4

LEMMA LoginKeepsGuestInv ==
  ASSUME Inv, UserTypes \/ LoginRuns \/ TimesOut \/ LogsOut PROVE GuestInv'
<1> USE DEF Inv, GuestInv, Looked, Granted, ShellIsEarned, Silent, Counted, Begun,
        attempt, console, logs, shell, Exit, Matches
<1>1. CASE UserTypes
  <2>1. UNCHANGED <<accounts, count, pw, echo, session, logs>>
    BY <1>1 DEF UserTypes, LoginInput, EmptyName, NoName, TypeName, TypePassword
  <2>2. CASE EmptyName \/ NoName
    BY <1>1, <2>2 DEF UserTypes, EmptyName, NoName, TypeOK, LoginTypeOK,
       EMPTY_USERNAME_COUNT
  <2>3. ASSUME NEW n \in Names, TypeName(n) PROVE GuestInv'
    BY <1>1, <2>3 DEF UserTypes, TypeName
  <2>4. ASSUME NEW p \in Secrets \cup {NoOne}, TypePassword(p) PROVE GuestInv'
    BY <1>1, <2>4 DEF UserTypes, TypePassword, TypeOK, LoginTypeOK
  <2> QED
    BY <1>1, <2>2, <2>3, <2>4 DEF UserTypes, LoginInput
<1>2. CASE LoginRuns /\ Lookup
  BY <1>2 DEF LoginRuns, Lookup
<1>3. CASE LoginRuns /\ (HideEcho \/ ShowEcho)
  BY <1>3 DEF LoginRuns, HideEcho, ShowEcho
<1>4. CASE LoginRuns /\ CheckPassword
  BY <1>4 DEF LoginRuns, CheckPassword, TypeOK, LoginTypeOK
<1>5. CASE LoginRuns /\ Failed
  BY <1>5 DEF LoginRuns, Failed, TypeOK, LoginTypeOK, EMPTY_USERNAME_COUNT
<1>6. CASE LoginRuns /\ Accepted
  BY <1>6 DEF LoginRuns, Accepted, TypeOK, LoginTypeOK
<1>7. CASE TimesOut
  BY <1>7 DEF TimesOut, Alarm
<1>8. CASE LogsOut
  BY <1>8 DEF LogsOut, Logout
<1> QED
  BY <1>1, <1>2, <1>3, <1>4, <1>5, <1>6, <1>7, <1>8 DEF LoginRuns, LoginStep

LEMMA StepKeepsInv == Inv /\ [Next]_vars => Inv'
BY BootKeeps, EndQemuKeeps, OthersKeep, LoginKeepsTypes, LoginKeepsGuestInv
   DEF Next, Inv

(* In every image, whatever is typed and whenever the alarm rings, a shell *)
(* belongs to the account whose name and password were typed last.         *)
THEOREM LoginIsSafe == Spec => []Inv
<1> QED
  BY InitInv, StepKeepsInv, PTL DEF Spec

(* The variables of the guest keep their types.                            *)
THEOREM GuestTypeCorrect == Spec => []TypeOK
<1>1. Inv => TypeOK
  BY DEF Inv
<1> QED
  BY <1>1, LoginIsSafe, PTL

(* A shell runs only as the account whose name and password were typed     *)
(* last, for any names and passwords that can be typed.                    *)
THEOREM ShellsAreEarned == Spec => []ShellIsEarned
<1>1. Inv => ShellIsEarned
  BY DEF Inv, GuestInv
<1> QED
  BY <1>1, LoginIsSafe, PTL

(* However the attempts are mixed with empty lines and unknown names, a    *)
(* boot checks at most three passwords and gives at most one shell.        *)
THEOREM BootIsBounded == Spec => [](ThreeTries /\ OneShellPerBoot)
<1>1. Inv => ThreeTries /\ OneShellPerBoot
  BY DEF Inv, GuestInv, Counted, Begun, ThreeTries, OneShellPerBoot
<1> QED
  BY <1>1, LoginIsSafe, PTL

(* The console echoes at every prompt, in the shell and after login has    *)
(* ended, also when the alarm cuts into the reading of a password.         *)
THEOREM EchoComesBack == Spec => []EchoRestored
<1>1. Inv => EchoRestored
  BY DEF Inv, GuestInv, Silent, EchoRestored
<1> QED
  BY <1>1, LoginIsSafe, PTL

-----------------------------------------------------------------------------
(* The homes.  What the commands have made of the directories so far: the  *)
(* recursive chown comes first, a home gets its mode after its owner, and  *)
(* that of henn gets another one at the end.                               *)
OwnerSet ==
  /\ step > 1 => owner["root"] = "root" /\ owner["tmp"] = "root"
  /\ step > 2 => owner["henn"] = "henn"
  /\ step > 3 => owner["hann"] = "hann"
  /\ step > 4 => owner["viii"] = "viii"
  /\ step > 5 => owner["kids"] = "kids"
ModeSet ==
  /\ step > 6 => mode["root"] = <<7, 0, 0>>
  /\ step > 7 => mode["tmp"] = <<7, 7, 7>>
  /\ step > 9 => mode["hann"] = <<7, 0, 0>>
  /\ step > 10 => mode["viii"] = <<7, 0, 0>>
  /\ step > 11 => mode["kids"] = <<7, 0, 0>>
  /\ step > 12 => mode["henn"] = <<7, 5, 0>>
DirsSet == step \in 1 .. 13 /\ OwnerSet /\ ModeSet

LEMMA TwelveCommands ==
  /\ Len(Commands) = 12
  /\ Commands[1] = Chowns(Dirs, "root") /\ Commands[2] = Chowns({"henn"}, "henn")
  /\ Commands[3] = Chowns({"hann"}, "hann") /\ Commands[4] = Chowns({"viii"}, "viii")
  /\ Commands[5] = Chowns({"kids"}, "kids") /\ Commands[6] = Chmods({"root"}, <<7, 0, 0>>)
  /\ Commands[7] = Chmods({"tmp"}, <<7, 7, 7>>) /\ Commands[8] = Chmods({"henn"}, <<7, 0, 0>>)
  /\ Commands[9] = Chmods({"hann"}, <<7, 0, 0>>) /\ Commands[10] = Chmods({"viii"}, <<7, 0, 0>>)
  /\ Commands[11] = Chmods({"kids"}, <<7, 0, 0>>) /\ Commands[12] = Chmods({"henn"}, <<7, 5, 0>>)
BY DEF Commands

(* A chown and a chmod of some directories.                                *)
LEMMA ChownEffect ==
  ASSUME RunCommand, NEW D, NEW u, Commands[step] = Chowns(D, u)
  PROVE  /\ mode' = mode
         /\ \A d \in Dirs : owner'[d] = IF d \in D THEN u ELSE owner[d]
<1>1. /\ Commands[step].op = "chown" /\ Commands[step].dirs = D /\ Commands[step].who = u
  BY DEF Chowns
<1>2. /\ owner' = [d \in Dirs |-> IF d \in D THEN u ELSE owner[d]] /\ mode' = mode
  BY <1>1 DEF RunCommand
<1> QED BY <1>2

LEMMA ChmodEffect ==
  ASSUME RunCommand, NEW D, NEW m, Commands[step] = Chmods(D, m)
  PROVE  /\ owner' = owner
         /\ \A d \in Dirs : mode'[d] = IF d \in D THEN m ELSE mode[d]
<1>1. /\ Commands[step].op # "chown" /\ Commands[step].dirs = D /\ Commands[step].mode = m
  BY DEF Chmods
<1>2. /\ mode' = [d \in Dirs |-> IF d \in D THEN m ELSE mode[d]] /\ owner' = owner
  BY <1>1 DEF RunCommand
<1> QED BY <1>2

LEMMA CommandSets == ASSUME DirsSet, RunCommand PROVE DirsSet'
<1> USE DEF DirsSet, OwnerSet, ModeSet
<1>1. step \in 1 .. 12 /\ step' = step + 1
  BY TwelveCommands DEF RunCommand
<1>2. /\ "root" \in Dirs /\ "tmp" \in Dirs /\ "henn" \in Dirs /\ "hann" \in Dirs
      /\ "viii" \in Dirs /\ "kids" \in Dirs
  BY DEF Dirs, Homes
<1>3. CASE step = 1
  <2>1. mode' = mode /\ \A d \in Dirs : owner'[d] = IF d \in Dirs THEN "root" ELSE owner[d]
    BY <1>3, TwelveCommands, ChownEffect
  <2> QED BY <1>1, <1>2, <1>3, <2>1
<1>4. CASE step = 2
  <2>1. mode' = mode /\ \A d \in Dirs : owner'[d] = IF d \in {"henn"} THEN "henn" ELSE owner[d]
    BY <1>4, TwelveCommands, ChownEffect
  <2> QED BY <1>1, <1>2, <1>4, <2>1
<1>5. CASE step = 3
  <2>1. mode' = mode /\ \A d \in Dirs : owner'[d] = IF d \in {"hann"} THEN "hann" ELSE owner[d]
    BY <1>5, TwelveCommands, ChownEffect
  <2> QED BY <1>1, <1>2, <1>5, <2>1
<1>6. CASE step = 4
  <2>1. mode' = mode /\ \A d \in Dirs : owner'[d] = IF d \in {"viii"} THEN "viii" ELSE owner[d]
    BY <1>6, TwelveCommands, ChownEffect
  <2> QED BY <1>1, <1>2, <1>6, <2>1
<1>7. CASE step = 5
  <2>1. mode' = mode /\ \A d \in Dirs : owner'[d] = IF d \in {"kids"} THEN "kids" ELSE owner[d]
    BY <1>7, TwelveCommands, ChownEffect
  <2> QED BY <1>1, <1>2, <1>7, <2>1
<1>8. CASE step = 6
  <2>1. owner' = owner /\ \A d \in Dirs : mode'[d] = IF d \in {"root"} THEN <<7, 0, 0>> ELSE mode[d]
    BY <1>8, TwelveCommands, ChmodEffect
  <2> QED BY <1>1, <1>2, <1>8, <2>1
<1>9. CASE step = 7
  <2>1. owner' = owner /\ \A d \in Dirs : mode'[d] = IF d \in {"tmp"} THEN <<7, 7, 7>> ELSE mode[d]
    BY <1>9, TwelveCommands, ChmodEffect
  <2> QED BY <1>1, <1>2, <1>9, <2>1
<1>10. CASE step = 8
  <2>1. owner' = owner /\ \A d \in Dirs : mode'[d] = IF d \in {"henn"} THEN <<7, 0, 0>> ELSE mode[d]
    BY <1>10, TwelveCommands, ChmodEffect
  <2> QED BY <1>1, <1>2, <1>10, <2>1
<1>11. CASE step = 9
  <2>1. owner' = owner /\ \A d \in Dirs : mode'[d] = IF d \in {"hann"} THEN <<7, 0, 0>> ELSE mode[d]
    BY <1>11, TwelveCommands, ChmodEffect
  <2> QED BY <1>1, <1>2, <1>11, <2>1
<1>12. CASE step = 10
  <2>1. owner' = owner /\ \A d \in Dirs : mode'[d] = IF d \in {"viii"} THEN <<7, 0, 0>> ELSE mode[d]
    BY <1>12, TwelveCommands, ChmodEffect
  <2> QED BY <1>1, <1>2, <1>12, <2>1
<1>13. CASE step = 11
  <2>1. owner' = owner /\ \A d \in Dirs : mode'[d] = IF d \in {"kids"} THEN <<7, 0, 0>> ELSE mode[d]
    BY <1>13, TwelveCommands, ChmodEffect
  <2> QED BY <1>1, <1>2, <1>13, <2>1
<1>14. CASE step = 12
  <2>1. owner' = owner /\ \A d \in Dirs : mode'[d] = IF d \in {"henn"} THEN <<7, 5, 0>> ELSE mode[d]
    BY <1>14, TwelveCommands, ChmodEffect
  <2> QED BY <1>1, <1>2, <1>14, <2>1
<1> QED BY <1>1, <1>3, <1>4, <1>5, <1>6, <1>7, <1>8, <1>9, <1>10, <1>11, <1>12, <1>13, <1>14

(* Every account owns its home, may enter it, and nobody else but root may *)
(* write to it; who may enter the others is what was allowed to him.       *)
LEMMA HomesWhenMade ==
  ASSUME DirsSet, Made, NEW u \in Accounts
  PROVE  /\ CanEnter(u, u) /\ u \in Allowed(u)
         /\ \A d \in Dirs : CanEnter(u, d) => d \in Allowed(u)
         /\ \A d \in Homes : CanWrite(u, d) => u \in {d, "root"}
<1>1. step = 13
  BY TwelveCommands DEF DirsSet, Made
<1>2. /\ owner["root"] = "root" /\ owner["tmp"] = "root" /\ owner["henn"] = "henn"
      /\ owner["hann"] = "hann" /\ owner["viii"] = "viii" /\ owner["kids"] = "kids"
      /\ mode["root"] = <<7, 0, 0>> /\ mode["tmp"] = <<7, 7, 7>> /\ mode["henn"] = <<7, 5, 0>>
      /\ mode["hann"] = <<7, 0, 0>> /\ mode["viii"] = <<7, 0, 0>> /\ mode["kids"] = <<7, 0, 0>>
  BY <1>1 DEF DirsSet, OwnerSet, ModeSet
<1>3. \A d \in Dirs : Digit(u, d) = IF u = owner[d] THEN 7 ELSE IF d = "tmp" THEN 7 ELSE 0
  BY <1>2 DEF Digit, Dirs, Homes
<1>4. u \in Dirs /\ owner[u] = u
  BY <1>2 DEF Accounts, Dirs, Homes
<1>5. CanEnter(u, u)
  BY <1>3, <1>4 DEF CanEnter
<1>6. \A d \in Dirs : CanEnter(u, d) => u = "root" \/ d = u \/ d = "tmp"
  BY <1>2, <1>3 DEF CanEnter, Dirs, Homes
<1>7. \A d \in Homes : CanWrite(u, d) => u \in {d, "root"}
  BY <1>2, <1>3 DEF CanWrite, Dirs, Homes
<1>8. u \in Allowed(u) /\ "tmp" \in Allowed(u) /\ (u = "root" => Allowed(u) = Dirs \cup {"tmp"})
  BY DEF Allowed, Accounts, Homes, Dirs
<1> QED BY <1>5, <1>6, <1>7, <1>8 DEF Dirs

-----------------------------------------------------------------------------
(* The images are booted when the homes are made, and nothing is written   *)
(* before there is a shell, which starts in the home of its account.       *)
Housed ==
  /\ phase # "off" => Made
  /\ phase \in Asking => wrote = "/"
  /\ phase = "session" => session \in Accounts
  /\ HomesAreOwn
HInv == Inv /\ DirsSet /\ Housed

LEMMA InitHoused == Init => HInv
<1> SUFFICES ASSUME Init PROVE DirsSet /\ Housed
  BY InitInv DEF HInv
<1> QED BY DEF Init, LoginInit, HomesInit, DirsSet, OwnerSet, ModeSet, Housed, HomesAreOwn

LEMMA DirsStay == ASSUME UNCHANGED homeVars PROVE (DirsSet' <=> DirsSet) /\ (Made' <=> Made)
BY DEF homeVars, DirsSet, OwnerSet, ModeSet, Made

LEMMA HousedStep == ASSUME HInv, Next PROVE DirsSet' /\ Housed'
<1> USE DEF HInv, Housed
<1>1. CASE MakeHomes
  <2>1. DirsSet' /\ ~Made
    BY <1>1, CommandSets, TwelveCommands DEF MakeHomes, RunCommand, Made, DirsSet
  <2>2. phase = "off" /\ phase' = phase
    BY <1>1, <2>1 DEF MakeHomes, loginVars
  <2> QED BY <2>1, <2>2 DEF HomesAreOwn
<1>2. ASSUME NEW m \in Modes, Boot(m) PROVE DirsSet' /\ Housed'
  <2>1. DirsSet' /\ Made'
    BY <1>2, DirsStay DEF Boot
  <2>2. phase' = "prompt" /\ wrote' = "/"
    BY <1>2 DEF Boot, LoginStart
  <2> QED BY <2>1, <2>2 DEF HomesAreOwn
<1>3. CASE EndQemu
  <2>1. DirsSet' /\ phase' = "off"
    BY <1>3, DirsStay DEF EndQemu
  <2> QED BY <2>1 DEF HomesAreOwn
<1>4. CASE UserTypes \/ TimesOut \/ LogsOut
  <2>1. DirsSet' /\ (Made' <=> Made) /\ UNCHANGED <<cwd, wrote>> /\ phase # "off"
    BY <1>4, DirsStay DEF UserTypes, TimesOut, LogsOut, shell, LoginInput, EmptyName, NoName,
       TypeName, TypePassword, Alarm, Logout
  <2>2. phase' # "session" /\ (phase' \in Asking => phase \in Asking)
    BY <1>4 DEF UserTypes, TimesOut, LogsOut, LoginInput, EmptyName, NoName,
       TypeName, TypePassword, Alarm, Logout, Exit
  <2> QED BY <2>1, <2>2 DEF HomesAreOwn
<1>5. CASE LoginRuns
  <2>1. DirsSet' /\ (Made' <=> Made) /\ wrote' = wrote /\ phase \in Asking
    BY <1>5, DirsStay DEF LoginRuns, LoginStep, Lookup, HideEcho, ShowEcho, CheckPassword,
       Failed, Accepted
  <2>2. CASE phase # "accepted"
    <3>1. phase' # "session"
      BY <1>5, <2>2 DEF LoginRuns, LoginStep, Lookup, HideEcho, ShowEcho, CheckPassword,
         Failed, Accepted, Exit
    <3> QED BY <2>1, <3>1 DEF HomesAreOwn
  <2>3. CASE phase = "accepted"
    <3>1. pw \in Accounts
      BY <2>3 DEF Inv, TypeOK, GuestInv, Looked, Granted, Matches
    <3>2. session' = pw /\ cwd' = StartDir(pw) /\ phase' = "session"
      BY <1>5, <2>3 DEF LoginRuns, LoginStep, Lookup, HideEcho, ShowEcho, CheckPassword,
         Failed, Accepted
    <3>3. Made /\ wrote = "/"
      BY <2>3
    <3>4. cwd' \in Allowed(session')
      BY <3>1, <3>2, <3>3, HomesWhenMade DEF StartDir
    <3>5. "/" \notin Homes
      BY DEF Homes
    <3> QED BY <2>1, <3>1, <3>2, <3>3, <3>4, <3>5 DEF HomesAreOwn
  <2> QED BY <2>2, <2>3
<1>6. ASSUME NEW d \in Dirs, Enter(d) \/ Write(d) PROVE DirsSet' /\ Housed'
  <2>1. DirsSet' /\ (Made' <=> Made) /\ UNCHANGED <<phase, session>> /\ phase = "session"
    BY <1>6, DirsStay DEF Enter, Write, loginVars
  <2>2. session \in Accounts
    BY <2>1
  <2>3. /\ CanEnter(session, d) => d \in Allowed(session)
        /\ d \in Homes /\ CanWrite(session, d) => session \in {d, "root"}
    BY <2>1, <2>2, HomesWhenMade
  <2>4. HomesAreOwn'
    BY <1>6, <2>1, <2>3 DEF Enter, Write, HomesAreOwn
  <2> QED BY <2>1, <2>4
<1> QED BY <1>1, <1>2, <1>3, <1>4, <1>5, <1>6 DEF Next

(* Nobody's shell starts in, or gets to, a directory that the comments of  *)
(* multi.sh deny to its account, and only the account or root writes to a  *)
(* home (multi.sh, from "Permissions" to the last chmod; setup_environment).*)
THEOREM HomesStayOwn == Spec => []HomesAreOwn
<1>1. Init => HInv
  BY InitHoused
<1>2. HInv /\ [Next]_vars => HInv'
  <2>1. ASSUME HInv, UNCHANGED vars PROVE DirsSet' /\ Housed'
    BY <2>1, DirsStay DEF vars, HInv, Housed, HomesAreOwn, loginVars, shell
  <2> QED BY <2>1, HousedStep, StepKeepsInv DEF HInv
<1>3. HInv => HomesAreOwn
  BY DEF HInv, Housed
<1> QED BY <1>1, <1>2, <1>3, PTL DEF Spec
=============================================================================
