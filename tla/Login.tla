------------------------------- MODULE Login -------------------------------
(***************************************************************************)
(* BusyBox login as the /init of both images runs it: as process 1, with   *)
(* no argument, on the console.  One alarm covers all the attempts, and    *)
(* its handler can cut in between any two steps.  Every exit of login is   *)
(* the end of process 1.                                                   *)
(*                                                                         *)
(* The configuration built is modelled: no PAM, no SELinux, shadow         *)
(* passwords, the session in the login process itself.  The images have    *)
(* no /etc/securetty, no /etc/nologin, no locked account and no empty      *)
(* password, so the branches on those are not taken.                       *)
(***************************************************************************)
EXTENDS Naturals

CONSTANTS
  Names,     \* what can be typed at "login:"
  Secrets,   \* what can be typed at "Password:"
  NoOne      \* a null struct passwd, or nothing typed

ASSUME LoginAssumption == NoOne \notin Names \cup Secrets

VARIABLES
  phase,     \* where login_main is
  accounts,  \* the accounts of the image: [name -> password]
  count,     \* count: failed attempts
  cntdown,   \* cntdown: how often "login:" may still be answered with Enter
  typed,     \* the name and the password of this attempt
  pw,        \* pw: the account found for the name
  echo,      \* whether the console echoes what is typed
  armed,     \* whether the alarm is set
  session    \* the account whose shell runs

attempt   == <<count, cntdown, typed, pw>>
console   == <<echo, armed>>
loginVars == <<phase, accounts, attempt, console, session>>

EMPTY_USERNAME_COUNT == 3   \* 10 in the code; a bound on the steps
Phases == {"off", "prompt", "lookup", "hide", "reading", "show", "check",
           "pausing", "accepted", "session", "exited"}
Asking == {"prompt", "lookup", "hide", "reading", "show", "check", "pausing",
           "accepted"}
Nothing == [name |-> NoOne, secret |-> NoOne]

AccountsOK == \E known \in SUBSET Names : accounts \in [known -> Secrets]

LoginTypeOK ==
  /\ phase \in Phases
  /\ AccountsOK
  /\ count \in 0 .. 3 /\ cntdown \in 0 .. EMPTY_USERNAME_COUNT
  /\ typed \in [name : Names \cup {NoOne}, secret : Secrets \cup {NoOne}]
  /\ pw \in Names \cup {NoOne} /\ session \in Names \cup {NoOne}
  /\ echo \in BOOLEAN /\ armed \in BOOLEAN

LoginInit ==
  /\ phase = "off"
  /\ accounts = [n \in {} |-> NoOne]
  /\ count = 0 /\ cntdown = EMPTY_USERNAME_COUNT
  /\ typed = Nothing /\ pw = NoOne /\ session = NoOne
  /\ echo = TRUE /\ armed = FALSE

-----------------------------------------------------------------------------

\* mutation: the alarm is not set
LoginStartNoTimeout(passwd) ==
  /\ phase' = "prompt"
  /\ accounts' = passwd
  /\ count' = 0 /\ cntdown' = EMPTY_USERNAME_COUNT
  /\ typed' = Nothing /\ pw' = NoOne /\ session' = NoOne
  /\ echo' = TRUE /\ armed' = FALSE

(* login_main is entered: tcgetattr, signal(SIGALRM), alarm(G.timeout).    *)
LoginStart(passwd) ==
  /\ phase' = "prompt"
  /\ accounts' = passwd
  /\ count' = 0 /\ cntdown' = EMPTY_USERNAME_COUNT
  /\ typed' = Nothing /\ pw' = NoOne /\ session' = NoOne
  /\ echo' = TRUE /\ armed' = TRUE

\* exit_FAILURE(), return EXIT_FAILURE
Exit == phase' = "exited"

(* get_username_or_die: an empty line asks again, for the tenth time it is *)
(* the end.                                                                *)
EmptyName ==
  /\ phase = "prompt"
  /\ cntdown' = cntdown - 1
  /\ IF cntdown' = 0 THEN Exit ELSE UNCHANGED phase
  /\ UNCHANGED <<accounts, count, typed, pw, console, session>>

(* End of file, or a line that does not fit the buffer.                    *)
NoName ==
  /\ phase = "prompt"
  /\ Exit
  /\ UNCHANGED <<accounts, attempt, console, session>>

TypeName(n) ==
  /\ phase = "prompt"
  /\ typed' = [typed EXCEPT !.name = n]
  /\ phase' = "lookup"
  /\ UNCHANGED <<accounts, count, cntdown, pw, console, session>>

\* mutation: an unknown name leaves pw at the account found before
LookupKeepsOld ==
  /\ phase = "lookup"
  /\ pw' = IF typed.name \in DOMAIN accounts THEN typed.name ELSE pw
  /\ phase' = "hide"
  /\ UNCHANGED <<accounts, count, cntdown, typed, console, session>>

\* pw = getpwnam(username); an unknown name is asked for a password too
Lookup ==
  /\ phase = "lookup"
  /\ pw' = IF typed.name \in DOMAIN accounts THEN typed.name ELSE NoOne
  /\ phase' = "hide"
  /\ UNCHANGED <<accounts, count, cntdown, typed, console, session>>

(* bb_ask_noecho: tcsetattr without ECHO, read a line, tcsetattr back.     *)
HideEcho ==
  /\ phase = "hide"
  /\ echo' = FALSE
  /\ phase' = "reading"
  /\ UNCHANGED <<accounts, attempt, armed, session>>

TypePassword(p) ==
  /\ phase = "reading"
  /\ typed' = [typed EXCEPT !.secret = p]
  /\ phase' = "show"
  /\ UNCHANGED <<accounts, count, cntdown, pw, console, session>>

ShowEcho ==
  /\ phase = "show"
  /\ echo' = TRUE
  /\ phase' = "check"
  /\ UNCHANGED <<accounts, attempt, armed, session>>

(* ask_and_check_password: end of file (nothing typed) and a null pw fail. *)
Matches == pw # NoOne /\ typed.secret = accounts[pw]

CheckPassword ==
  /\ phase = "check"
  /\ phase' = IF Matches THEN "accepted" ELSE "pausing"
  /\ UNCHANGED <<accounts, attempt, console, session>>

\* auth_failed: pause, "Login incorrect", if (++count == 3) return
Failed ==
  /\ phase = "pausing"
  /\ count' = count + 1
  /\ IF count' = 3
       THEN Exit /\ UNCHANGED <<typed, cntdown>>
       ELSE /\ phase' = "prompt"
            /\ typed' = Nothing /\ cntdown' = EMPTY_USERNAME_COUNT
  /\ UNCHANGED <<accounts, pw, console, session>>

\* alarm(0); change_identity(pw); exec_login_shell(pw->pw_shell)
Accepted ==
  /\ phase = "accepted"
  /\ armed' = FALSE
  /\ session' = pw
  /\ phase' = "session"
  /\ UNCHANGED <<accounts, attempt, echo>>

(* The shell, which has replaced login, ends.                              *)
Logout ==
  /\ phase = "session"
  /\ session' = NoOne
  /\ Exit
  /\ UNCHANGED <<accounts, attempt, console>>

(* SIGALRM, at any time while login asks.  Its handler puts back the       *)
(* attributes saved at the start and exits.                                *)
Alarm ==
  /\ armed /\ phase \in Asking
  /\ armed' = FALSE
  /\ echo' = TRUE
  /\ Exit
  /\ UNCHANGED <<accounts, attempt, session>>

LoginStep == Lookup \/ HideEcho \/ ShowEcho \/ CheckPassword \/ Failed \/ Accepted

LoginInput ==
  \/ EmptyName \/ NoName
  \/ \E n \in Names : TypeName(n)
  \/ \E p \in Secrets \cup {NoOne} : TypePassword(p)
=============================================================================
