------------------------------ MODULE DhcpNet ------------------------------
(***************************************************************************)
(* The segment that udhcpc and udhcpd of BusyBox share: the packets on     *)
(* their way, the address each client's interface has, and hosts that have *)
(* an address of the range without having asked.                           *)
(*                                                                         *)
(* Packets of one sender stay in order and arrive within a tick, which is  *)
(* three seconds, unless the client is cut off: then they are lost.        *)
(***************************************************************************)
EXTENDS Integers, Sequences

CONSTANTS
  Clients,
  Ips,      \* start_ip .. end_ip; the server has room for a lease of each
  Lease,    \* max_lease_sec, in ticks: no client asks for a shorter time
  Nobody,   \* the all-zero MAC of a conflict lease
  MaxEvents \* bound on signals, crashes, starts, cuts and hosts that come

NoIp == 0
ASSUME DhcpConstants == Ips \subseteq Nat \ {NoIp} /\ Nobody \notin Clients /\ Lease \in Nat
                       /\ MaxEvents \in Nat

VARIABLES toServer, toClient, interface, strangers, cut, events

segment == <<toServer, toClient, interface, strangers, cut>>
nvars == <<segment, events>>

Event == events < MaxEvents /\ events' = events + 1

(* xid: the packet has the number that the client uses now.  A reply with  *)
(* another number is ignored by the client, and left out.                  *)
Request == [type : {"discover", "select", "renew", "decline", "release"},
            ip : Ips \cup {NoIp}, xid : BOOLEAN]
Reply == [type : {"offer", "ack", "nak"}, ip : Ips \cup {NoIp}]

(* An ARP request for ip is answered by somebody other than c.             *)
InUse(ip, c) == ip \in strangers \/ \E d \in Clients \ ({c} \cup cut) : interface[d] = ip

Send(c, type, ip) ==
  /\ toServer' = [toServer EXCEPT ![c] = Append(@, [type |-> type, ip |-> ip, xid |-> TRUE])]
  /\ UNCHANGED toClient

(* The same with a new random xid.                                         *)
Renumbered(q) == [i \in 1 .. Len(q) |-> [q[i] EXCEPT !.xid = FALSE]]
SendNew(c, type, ip) ==
  /\ toServer' = [toServer EXCEPT ![c] =
                    Append(Renumbered(@), [type |-> type, ip |-> ip, xid |-> TRUE])]
  /\ toClient' = [toClient EXCEPT ![c] = <<>>]

Silent == UNCHANGED <<toServer, toClient>>
=============================================================================
