-------------------------------- MODULE Dhcp --------------------------------
(***************************************************************************)
(* Clients and a server on one segment, and the time that goes by.         *)
(***************************************************************************)
EXTENDS DhcpClient, DhcpServer

vars == <<nvars, client, svars>>

Init ==
  /\ toServer = [c \in Clients |-> <<>>] /\ toClient = [c \in Clients |-> <<>>]
  /\ interface = [c \in Clients |-> NoIp]
  /\ strangers = {} /\ cut = {} /\ events = 0
  /\ client \in [Clients -> {Gone, Restarted(0, NoIp)}]
  /\ leases = [ip \in Ips |-> NoLease] /\ file = leases
  /\ unsaved = {} /\ lost = {}

Tick ==
  /\ \A c \in Clients : client[c].timeout # 0
  /\ \A c \in Clients \ cut : toServer[c] = <<>> /\ toClient[c] = <<>>
  /\ toServer' = [c \in Clients |-> <<>>] /\ toClient' = [c \in Clients |-> <<>>]
  /\ client' = [c \in Clients |->
       [client[c] EXCEPT !.timeout = IF @ = Forever THEN @ ELSE @ - 1,
                         !.lease_remaining = Older(@, 0)]]
  /\ leases' = Aged(leases, -1) /\ file' = Aged(file, 0)
  /\ UNCHANGED <<interface, strangers, cut, events, unsaved, lost>>

Stranger(ip) ==
  /\ Event
  /\ strangers' = strangers \cup {ip}
  /\ UNCHANGED <<toServer, toClient, interface, cut, client, svars>>

StrangerLeaves ==
  /\ strangers # {}
  /\ strangers' = {}
  /\ UNCHANGED <<toServer, toClient, interface, cut, events, client, svars>>

ClientStep(c) == (ClientTimeout(c) \/ ClientReceives(c)) /\ UNCHANGED svars
ServerStep == ServerNext /\ UNCHANGED client

Cut(c) ==
  /\ Event
  /\ cut' = IF c \in cut THEN cut \ {c} ELSE cut \cup {c}
  /\ UNCHANGED <<toServer, toClient, interface, strangers, client, svars>>

Next ==
  \/ \E c \in Clients : ClientStep(c) \/ Cut(c)
  \/ \E c \in Clients : ClientSignal(c) /\ UNCHANGED svars
  \/ ServerStep
  \/ \E ip \in Ips : Stranger(ip)
  \/ StrangerLeaves
  \/ Tick

Spec == Init /\ [][Next]_vars

(* Time goes by; everybody does what is due, and takes what arrives.       *)
Fairness ==
  /\ WF_vars(Tick)
  /\ \A c \in Clients : /\ WF_vars(ClientStep(c))
                         /\ WF_vars(ServerReceives(c) /\ UNCHANGED client)
FairSpec == Spec /\ Fairness

-----------------------------------------------------------------------------
(* Properties.                                                             *)

(* The types; a lease that is over does not get older.                     *)
TypeOK ==
  /\ toServer \in [Clients -> Seq(Request)] /\ toClient \in [Clients -> Seq(Reply)]
  /\ interface \in [Clients -> Ips \cup {NoIp}] /\ strangers \subseteq Ips
  /\ client \in [Clients -> Client]
  /\ leases \in Table /\ file \in Table
  /\ unsaved \subseteq Clients /\ lost \subseteq Clients

(* An address that a client uses is leased to it, to nobody else then, and *)
(* for as long at least as the client believes, whatever packets are lost  *)
(* and whoever is started again: no two clients use one address.  Not so   *)
(* for a client whose lease udhcpd has lost: it was started again with a   *)
(* file that a write had not reached, or not in full, and has not sent     *)
(* that client an ACK since ("we lose some leases on restart").            *)
HeldIsLeased ==
  \A c \in Clients \ lost : interface[c] # NoIp =>
    /\ Own(c, interface[c])
    /\ leases[interface[c]].left >= client[c].lease_remaining

(* As long as udhcpd runs, an address that was found in use stays reserved *)
(* until the time for that is over; and it becomes so when the client that *)
(* got it declines it, whose lease is still there then.                    *)
Keeps == \A ip \in Reserved(leases) :
           leases[ip].left >= 0 => ip \in Reserved(leases')
Runs == ~(Terminate \/ Crash \/ \E c \in Clients : CrashInAck(c))
Heeds == \A c \in Clients \ lost : Declined(c) => Packet(c).ip \in Reserved(leases')
ReservedStays == [][Runs => Keeps /\ Heeds]_vars

(* "The server MUST mark the network address as not available": also when  *)
(* it writes its leases, ends and starts again.                            *)
ReservedThroughRestart == [][Terminate => Keeps]_vars

(* A client that is up, wants an address and is not cut off has one in the *)
(* end and keeps it, once there are no strangers.                          *)
Wants(c) == client[c].state \notin {"gone", "RELEASED"} /\ c \notin cut
GetsAddress ==
  \A c \in Clients : <>[](strangers = {} /\ Wants(c)) => <>[](interface[c] # NoIp)
=============================================================================
