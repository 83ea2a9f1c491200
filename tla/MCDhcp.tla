------------------------------- MODULE MCDhcp -------------------------------
(***************************************************************************)
(* Values for the constants of Dhcp when TLC checks it.                    *)
(***************************************************************************)
EXTENDS Dhcp

CONSTANTS c1, c2

MCClients == {c1, c2}
MCArpClients == {c2}
MCIps == 1 .. 2

(* Two statements that do not hold: that no lease is ever lost, and that   *)
(* every decline reserves the address, whoever has the lease.              *)
NeverLost == \A c \in Clients : interface[c] # NoIp => Own(c, interface[c])
AlwaysHeeds == [][\A c \in Clients : Declined(c) => Packet(c).ip \in Reserved(leases')]_vars
=============================================================================
