----------------------------- MODULE DhcpClient -----------------------------
(***************************************************************************)
(* udhcpc of BusyBox, run with -R, as ifup does, and some clients with -a  *)
(* (they probe an address before they take it up); not with -n, -b or -q.  *)
(* There is one server, so that its id is always the right one.            *)
(***************************************************************************)
EXTENDS DhcpNet

CONSTANTS
  ArpClients,       \* clients with -a
  DiscoverRetries,  \* -t
  TryAgain          \* -A, in ticks

ASSUME ClientConstants ==
  /\ ArpClients \subseteq Clients
  /\ DiscoverRetries \in Nat \ {0} /\ TryAgain \in Nat \ {0}

VARIABLE client

DiscoverTimeout == 1   \* three seconds
Thirty == 10           \* thirty seconds
Forever == -1

States == {"gone", "INIT_SELECTING", "REQUESTING", "BOUND", "RENEWING", "RENEW_REQUESTED",
           "REBINDING", "RELEASED"}
Client == [state : States, timeout : Int, packet_num : Nat, lease_remaining : Nat,
           requested_ip : Ips \cup {NoIp}]
Gone == [state |-> "gone", timeout |-> Forever, packet_num |-> 0, lease_remaining |-> 0,
         requested_ip |-> NoIp]
(* Without a lease, lease_remaining is not read any more; it is 0 here.    *)
Restarted(timeout, ip) == [Gone EXCEPT !.state = "INIT_SELECTING", !.timeout = timeout,
                                       !.requested_ip = ip]

Is(c, states) == client[c].state \in states
Has(c, k) == client' = [client EXCEPT ![c] = k]
Deconfig(c) == interface' = [interface EXCEPT ![c] = NoIp]

-----------------------------------------------------------------------------
(* The timeout is over.                                                    *)

Due(c, states) == client[c].timeout = 0 /\ Is(c, states)

Sent(k) == [k EXCEPT !.packet_num = @ + 1, !.timeout = DiscoverTimeout]

Discover(c) ==
  LET k == client[c] IN
  /\ Due(c, {"INIT_SELECTING"})
  /\ k.packet_num < DiscoverRetries
  /\ IF k.packet_num = 0 THEN SendNew(c, "discover", k.requested_ip)
                         ELSE Send(c, "discover", k.requested_ip)
  /\ Has(c, Sent(k))
  /\ UNCHANGED <<interface, strangers, cut, events>>

Select(c) ==
  LET k == client[c] IN
  /\ Due(c, {"REQUESTING"})
  /\ k.packet_num < 3
  /\ Send(c, "select", k.requested_ip)
  /\ Has(c, Sent(k))
  /\ UNCHANGED <<interface, strangers, cut, events>>

\* mutation: the packets go on being counted
CountsOn(k) == [k EXCEPT !.state = "INIT_SELECTING", !.timeout = TryAgain]
Afresh(k) == Restarted(TryAgain, k.requested_ip)

LeaseFail(c) ==
  /\ \/ Due(c, {"INIT_SELECTING"}) /\ client[c].packet_num >= DiscoverRetries
     \/ Due(c, {"REQUESTING"}) /\ client[c].packet_num >= 3
  /\ Has(c, Afresh(client[c]))
  /\ Silent
  /\ UNCHANGED <<interface, strangers, cut, events>>

BOUND_for_half_lease(k) ==
  [k EXCEPT !.state = "BOUND", !.timeout = k.lease_remaining \div 2, !.packet_num = 0]

Rebinds(k) == k.lease_remaining > 0 /\ k.packet_num < 3

(* A broadcast to whatever server there is, up to three times; then, or if *)
(* the lease is over, the address is given up.                             *)
RebindOrLose(c, k) ==
  IF Rebinds(k)
  THEN /\ Send(c, "renew", k.requested_ip)
       /\ Has(c, Sent([k EXCEPT !.state = "REBINDING"]))
       /\ UNCHANGED interface
  ELSE /\ Deconfig(c)
       /\ Has(c, Restarted(0, k.requested_ip))
       /\ Silent

(* There is no answer to a renew request.                                  *)
Unrenewed(c, k) ==
  IF k.lease_remaining > Thirty
  THEN Has(c, BOUND_for_half_lease(k)) /\ Silent /\ UNCHANGED interface
  ELSE RebindOrLose(c, [k EXCEPT !.packet_num = 0])

(* Half of the lease is over, or SIGUSR1.  If the request cannot be sent,  *)
(* it goes on as if there had been no answer.                              *)
StartRenew(c, state, k) ==
  /\ Send(c, "renew", k.requested_ip)
  /\ Has(c, [k EXCEPT !.state = state, !.packet_num = 1, !.timeout = DiscoverTimeout])
  /\ UNCHANGED interface

Renew(c) ==
  /\ Due(c, {"BOUND"})
  /\ \/ StartRenew(c, "RENEWING", client[c]) /\ UNCHANGED events
     \/ Unrenewed(c, client[c]) /\ Event
  /\ UNCHANGED <<strangers, cut>>

NoAnswer(c) ==
  LET k == client[c] IN
  /\ \/ Due(c, {"RENEWING", "RENEW_REQUESTED"}) /\ Unrenewed(c, k)
     \/ /\ Due(c, {"REBINDING"})
        /\ RebindOrLose(c, k)
  /\ UNCHANGED <<strangers, cut, events>>

-----------------------------------------------------------------------------
(* Signals.                                                                *)

Signal == Event /\ UNCHANGED <<strangers, cut>>

\* mutation: thirty seconds are left, even if there are fewer
JustThirty(k) == Thirty
AtMostThirty(k) == IF k.lease_remaining > Thirty THEN Thirty ELSE k.lease_remaining

(* SIGUSR1: renew; a second one, or one after SIGUSR2: start over.         *)
SIGUSR1(c) ==
  LET k == client[c] IN
  /\ Signal
  /\ \/ /\ Is(c, {"BOUND", "RENEWING"})
        /\ LET n == [k EXCEPT !.lease_remaining = AtMostThirty(k)]
           IN  StartRenew(c, "RENEW_REQUESTED", n) \/ Unrenewed(c, n)
     \/ /\ Is(c, {"RENEW_REQUESTED", "RELEASED"})
        /\ Deconfig(c)
        /\ Has(c, Restarted(0, k.requested_ip))
        /\ Silent

perform_release(c, state) ==
  LET k == client[c] IN
  /\ IF Is(c, {"BOUND", "RENEWING", "RENEW_REQUESTED", "REBINDING"})
     THEN SendNew(c, "release", k.requested_ip)
     ELSE Silent
  /\ Deconfig(c)
  /\ Has(c, [Gone EXCEPT !.state = state,
                         !.requested_ip = IF state = "gone" THEN NoIp ELSE k.requested_ip])

SIGUSR2(c) == Signal /\ ~Is(c, {"gone"}) /\ perform_release(c, "RELEASED")
SIGTERM(c) == Signal /\ ~Is(c, {"gone"}) /\ perform_release(c, "gone")

(* The machine of the client goes down.                                    *)
Fail(c) == Signal /\ ~Is(c, {"gone"}) /\ Silent /\ Deconfig(c) /\ Has(c, Gone)

Start(c) == Signal /\ Is(c, {"gone"}) /\ Silent /\ Deconfig(c) /\ Has(c, Restarted(0, NoIp))

-----------------------------------------------------------------------------
(* Packets.  In the other states there is no socket to receive one.        *)

Arrives(c, types) ==
  /\ c \notin cut /\ toClient[c] # <<>>
  /\ Head(toClient[c]).type \in types

Taken(c) == toClient' = [toClient EXCEPT ![c] = Tail(@)]

Offer(c) ==
  /\ Arrives(c, {"offer"})
  /\ Is(c, {"INIT_SELECTING"}) /\ client[c].packet_num > 0
  /\ Has(c, [client[c] EXCEPT !.state = "REQUESTING", !.timeout = 0, !.packet_num = 0,
                              !.requested_ip = Head(toClient[c]).ip])
  /\ Taken(c)
  /\ UNCHANGED <<toServer, interface, strangers, cut, events>>

Awaits(c) == Is(c, {"REQUESTING", "RENEWING", "RENEW_REQUESTED", "REBINDING"})

(* Less than thirty seconds count as thirty.                               *)
Sane(lease) == IF lease < Thirty THEN Thirty ELSE lease

Ack(c) ==
  LET ip == Head(toClient[c]).ip
      k == [client[c] EXCEPT !.requested_ip = ip, !.lease_remaining = Sane(Lease)]
  IN /\ Arrives(c, {"ack"})
     /\ Awaits(c)
     /\ IF c \in ArpClients /\ InUse(ip, c)
        THEN /\ SendNew(c, "decline", ip)
             /\ Deconfig(c)
             /\ Has(c, Restarted(TryAgain, NoIp))
        ELSE /\ interface' = [interface EXCEPT ![c] = ip]
             /\ Has(c, BOUND_for_half_lease(k))
             /\ Taken(c) /\ UNCHANGED toServer
     /\ UNCHANGED <<strangers, cut, events>>

(* It sleeps for three seconds before it starts over.                      *)
Nak(c) ==
  /\ Arrives(c, {"nak"})
  /\ Awaits(c)
  /\ Deconfig(c)
  /\ Has(c, Restarted(1, NoIp))
  /\ Taken(c)
  /\ UNCHANGED <<toServer, strangers, cut, events>>

Ignored(c) ==
  /\ Arrives(c, {"offer", "ack", "nak"})
  /\ ~Awaits(c) /\ ~(Is(c, {"INIT_SELECTING"}) /\ client[c].packet_num > 0 /\ Arrives(c, {"offer"}))
  /\ Taken(c)
  /\ UNCHANGED <<toServer, interface, strangers, cut, events, client>>

ClientTimeout(c) == Discover(c) \/ Select(c) \/ LeaseFail(c) \/ Renew(c) \/ NoAnswer(c)
ClientReceives(c) == Offer(c) \/ Ack(c) \/ Nak(c) \/ Ignored(c)
ClientSignal(c) == SIGUSR1(c) \/ SIGUSR2(c) \/ SIGTERM(c) \/ Fail(c) \/ Start(c)
=============================================================================
