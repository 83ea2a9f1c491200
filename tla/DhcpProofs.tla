----------------------------- MODULE DhcpProofs -----------------------------
(***************************************************************************)
(* An address that a client uses is leased to it, in the server's table    *)
(* and in its file: proofs for any number of clients and addresses and any *)
(* times.                                                                  *)
(***************************************************************************)
EXTENDS Dhcp, SequenceTheorems, TLAPS

Bound == {"BOUND", "RENEWING", "RENEW_REQUESTED", "REBINDING"}
IpOrNone == Ips \cup {NoIp}

(* Packets on their way: a request by which a client claims ip, such a     *)
(* request with the number the client uses now, an ACK.                    *)
Claim(p, ip) == p.type \in {"select", "renew"} /\ p.ip = ip
Claiming(s, ip) == \A i \in 1 .. Len(s) : Claim(s[i], ip)
Fresh(s, ip) == \E i \in 1 .. Len(s) : s[i].xid /\ Claim(s[i], ip)
Acked(s, ip) == \E i \in 1 .. Len(s) : s[i].type = "ack" /\ s[i].ip = ip

(* A DECLINE of ip is on its way; there are only claims of ip before it.   *)
Declining(s, ip) == \E i \in 1 .. Len(s) : s[i].type = "decline" /\ s[i].ip = ip
DeclinesLast(s) ==
  \A i, j \in 1 .. Len(s) : i < j /\ s[j].type = "decline" => Claim(s[i], s[j].ip)

(* Behind a claim with the right number there are only claims of the same  *)
(* address.                                                                *)
Ordered(s) ==
  \A i, j \in 1 .. Len(s) : i <= j /\ s[i].xid /\ s[i].type \in {"select", "renew"}
                              => Claim(s[j], s[i].ip)

(* A client that still has an answer to a claim of ip to come, or could:   *)
(* it wants ip, or it has given up and will use a new number.              *)
Live(k, ip) ==
  /\ k.state = "INIT_SELECTING" => k.packet_num = 0
  /\ k.state \in Bound \cup {"REQUESTING"} => k.requested_ip = ip

(* The lease is not over before the next timeout.                          *)
Timing(k) ==
  /\ k.timeout >= 0 /\ k.timeout <= k.lease_remaining /\ k.lease_remaining <= Lease
  /\ k.state = "BOUND" => k.timeout + 2 <= k.lease_remaining
  /\ k.state = "RENEWING" => k.timeout + 1 <= k.lease_remaining

(* What a client, its interface and its packets have to do with each other.*)
Local(k, a, s, r) ==
  /\ a # NoIp => k.state \in Bound /\ k.requested_ip = a /\ Timing(k) /\ Claiming(s, a)
  /\ \A ip \in IpOrNone : Acked(r, ip) => ip \in Ips /\ Live(k, ip) /\ Claiming(s, ip)
  /\ \A ip \in IpOrNone : Fresh(s, ip) => Live(k, ip)
  /\ Ordered(s) /\ DeclinesLast(s)
LocalOf(c) == Local(client[c], interface[c], toServer[c], toClient[c])

(* What the server has to know of: a client uses ip, is about to use it or *)
(* to decline it, and may do so for n ticks.                               *)
Needs(c, ip, n) ==
  \/ interface[c] # NoIp /\ ip = interface[c] /\ n = client[c].lease_remaining
  \/ Acked(toClient[c], ip) /\ n = Lease
  \/ Declining(toServer[c], ip) /\ n = 0
Good(t, c, ip, n) == ip \in Ips /\ Some(t, ip) /\ t[ip].mac = c /\ t[ip].left >= n
Covered(t, c) == \A ip \in IpOrNone, n \in Nat : Needs(c, ip, n) => Good(t, c, ip, n)

IInv ==
  /\ TypeOK
  /\ \A c \in Clients : LocalOf(c)
  /\ \A c \in Clients \ lost : /\ Covered(leases, c)
                               /\ c \notin unsaved => Covered(file, c)

-----------------------------------------------------------------------------
(* Sequences of packets.                                                   *)

(* What a request at the end adds to the claims that are on their way.     *)
LEMMA Appended ==
  ASSUME NEW s \in Seq(Request), NEW p \in Request
  PROVE  /\ Append(s, p) \in Seq(Request)
         /\ \A ip \in IpOrNone : Claiming(s, ip) /\ Claim(p, ip) => Claiming(Append(s, p), ip)
         /\ \A ip \in IpOrNone : Fresh(Append(s, p), ip) => Fresh(s, ip) \/ (p.xid /\ Claim(p, ip))
         /\ Ordered(s) /\ (\A ip \in IpOrNone : Fresh(s, ip) => Claim(p, ip)) => Ordered(Append(s, p))
         /\ DeclinesLast(s) /\ (p.type = "decline" => Claiming(s, p.ip)) => DeclinesLast(Append(s, p))
         /\ \A ip \in IpOrNone : Declining(Append(s, p), ip) =>
              Declining(s, ip) \/ (p.type = "decline" /\ p.ip = ip)
<1> DEFINE t == Append(s, p)
<1>1. /\ t \in Seq(Request) /\ Len(s) \in Nat /\ Len(t) = Len(s) + 1
      /\ \A i \in 1 .. Len(s) : t[i] = s[i] /\ s[i] \in Request
      /\ t[Len(s) + 1] = p
  BY AppendProperties, ElementOfSeq, LenProperties
<1>2. \A i \in 1 .. Len(t) : i \in 1 .. Len(s) \/ (i = Len(s) + 1 /\ t[i] = p)
  BY <1>1
<1> HIDE DEF t
<1>3. \A ip \in IpOrNone : Claiming(s, ip) /\ Claim(p, ip) => Claiming(t, ip)
  BY <1>1, <1>2 DEF Claiming
<1>4. \A ip \in IpOrNone : Fresh(t, ip) => Fresh(s, ip) \/ (p.xid /\ Claim(p, ip))
  BY <1>1, <1>2 DEF Fresh
<1>5. ASSUME Ordered(s), \A ip \in IpOrNone : Fresh(s, ip) => Claim(p, ip) PROVE Ordered(t)
  <2> SUFFICES ASSUME NEW i \in 1 .. Len(t), NEW j \in 1 .. Len(t), i <= j, t[i].xid,
                      t[i].type \in {"select", "renew"}
               PROVE  Claim(t[j], t[i].ip)
    BY DEF Ordered
  <2>1. CASE i \in 1 .. Len(s) /\ j \in 1 .. Len(s)
    BY <2>1, <1>1, <1>5 DEF Ordered
  <2>2. CASE i \in 1 .. Len(s) /\ t[j] = p
    <3>1. s[i].ip \in IpOrNone /\ Fresh(s, s[i].ip)
      BY <2>2, <1>1 DEF Fresh, Claim, Request, IpOrNone
    <3> QED BY <3>1, <2>2, <1>1, <1>5
  <2>3. CASE i = Len(s) + 1
    BY <2>3, <1>1, <1>2 DEF Claim
  <2> QED BY <2>1, <2>2, <2>3, <1>2
<1>6. ASSUME DeclinesLast(s), p.type = "decline" => Claiming(s, p.ip) PROVE DeclinesLast(t)
  <2> SUFFICES ASSUME NEW i \in 1 .. Len(t), NEW j \in 1 .. Len(t), i < j, t[j].type = "decline"
               PROVE  Claim(t[i], t[j].ip)
    BY DEF DeclinesLast
  <2>1. i \in 1 .. Len(s) /\ t[i] = s[i]
    BY <1>1, <1>2
  <2> QED BY <2>1, <1>1, <1>2, <1>6 DEF DeclinesLast, Claiming
<1>7. \A ip \in IpOrNone : Declining(t, ip) => Declining(s, ip) \/ (p.type = "decline" /\ p.ip = ip)
  BY <1>1, <1>2 DEF Declining
<1> QED BY <1>1, <1>3, <1>4, <1>5, <1>6, <1>7 DEF t

(* A new number: nothing on its way is a claim that would be answered.     *)
LEMMA RenumberedSeq ==
  ASSUME NEW s \in Seq(Request)
  PROVE  /\ Renumbered(s) \in Seq(Request)
         /\ \A ip \in IpOrNone : ~Fresh(Renumbered(s), ip)
         /\ Ordered(Renumbered(s))
         /\ \A ip \in IpOrNone : Claiming(s, ip) => Claiming(Renumbered(s), ip)
         /\ DeclinesLast(s) => DeclinesLast(Renumbered(s))
         /\ \A ip \in IpOrNone : Declining(Renumbered(s), ip) => Declining(s, ip)
<1> DEFINE t == Renumbered(s)
<1>1. Len(s) \in Nat /\ \A i \in 1 .. Len(s) : s[i] \in Request
  BY ElementOfSeq, LenProperties
<1>2. \A i \in 1 .. Len(s) : [s[i] EXCEPT !.xid = FALSE] \in Request
  BY <1>1 DEF Request
<1>3. t \in Seq(Request) /\ Len(t) = Len(s)
  BY <1>1, <1>2, SMT DEF Renumbered
<1>4. \A i \in 1 .. Len(t) : t[i].xid = FALSE
  BY <1>1, <1>3 DEF Renumbered, Request
<1>5. \A i \in 1 .. Len(t) : t[i].type = s[i].type /\ t[i].ip = s[i].ip
  BY <1>1, <1>3 DEF Renumbered, Request
<1> HIDE DEF t
<1>6. \A ip \in IpOrNone : Claiming(s, ip) => Claiming(t, ip)
  BY <1>3, <1>5 DEF Claiming, Claim
<1>7. DeclinesLast(s) => DeclinesLast(t)
  BY <1>3, <1>5 DEF DeclinesLast, Claim
<1>8. \A ip \in IpOrNone : Declining(t, ip) => Declining(s, ip)
  BY <1>3, <1>5 DEF Declining
<1> QED BY <1>3, <1>4, <1>6, <1>7, <1>8 DEF t, Fresh, Ordered

(* The first packet is taken.                                              *)
LEMMA TailSeq ==
  ASSUME NEW s \in Seq(Request), s # <<>>
  PROVE  /\ Tail(s) \in Seq(Request) /\ Head(s) \in Request
         /\ \A ip \in IpOrNone : Claiming(s, ip) => Claiming(Tail(s), ip) /\ Claim(Head(s), ip)
         /\ \A ip \in IpOrNone : Fresh(Tail(s), ip) => Fresh(s, ip)
         /\ Ordered(s) => Ordered(Tail(s))
         /\ Ordered(s) /\ Head(s).xid /\ Head(s).type \in {"select", "renew"}
              => Claiming(s, Head(s).ip) /\ Fresh(s, Head(s).ip)
         /\ DeclinesLast(s) => DeclinesLast(Tail(s))
         /\ Head(s).type = "decline" => Declining(s, Head(s).ip)
         /\ \A ip \in IpOrNone : DeclinesLast(s) /\ Declining(Tail(s), ip)
                                   => Declining(s, ip) /\ Claim(Head(s), ip)
<1> DEFINE t == Tail(s)
<1>1. /\ t \in Seq(Request) /\ Head(s) \in Request /\ Head(s) = s[1]
      /\ Len(s) \in Nat \ {0} /\ Len(t) = Len(s) - 1
      /\ \A i \in 1 .. Len(t) : t[i] = s[i + 1]
  BY HeadTailProperties, LenProperties, EmptySeq, SMT
<1>2. \A i \in 1 .. Len(t) : i + 1 \in 1 .. Len(s)
  BY <1>1
<1>3. 1 \in 1 .. Len(s) /\ \A i \in 1 .. Len(s) : 1 <= i
  BY <1>1
<1> HIDE DEF t
<1>4. \A ip \in IpOrNone : Claiming(s, ip) => Claiming(t, ip) /\ Claim(Head(s), ip)
  BY <1>1, <1>2, <1>3 DEF Claiming
<1>5. \A ip \in IpOrNone : Fresh(t, ip) => Fresh(s, ip)
  BY <1>1, <1>2 DEF Fresh
<1>6. ASSUME Ordered(s) PROVE Ordered(t)
  <2> SUFFICES ASSUME NEW i \in 1 .. Len(t), NEW j \in 1 .. Len(t), i <= j, t[i].xid,
                      t[i].type \in {"select", "renew"}
               PROVE  Claim(t[j], t[i].ip)
    BY DEF Ordered
  <2>1. i + 1 \in 1 .. Len(s) /\ j + 1 \in 1 .. Len(s) /\ i + 1 <= j + 1
    BY <1>1, <1>2
  <2> QED BY <1>1, <1>6, <2>1 DEF Ordered
<1>7. ASSUME Ordered(s), Head(s).xid, Head(s).type \in {"select", "renew"}
      PROVE  Claiming(s, Head(s).ip) /\ Fresh(s, Head(s).ip)
  BY <1>7, <1>1, <1>3 DEF Ordered, Claiming, Fresh, Claim
<1>8. DeclinesLast(s) => DeclinesLast(t)
  BY <1>1, <1>2 DEF DeclinesLast
<1>9. Head(s).type = "decline" => Declining(s, Head(s).ip)
  BY <1>1, <1>3 DEF Declining
<1>10. ASSUME NEW ip \in IpOrNone, DeclinesLast(s), Declining(t, ip)
       PROVE  Declining(s, ip) /\ Claim(Head(s), ip)
  <2>1. PICK i \in 1 .. Len(t) : t[i].type = "decline" /\ t[i].ip = ip
    BY <1>10 DEF Declining
  <2>2. i + 1 \in 1 .. Len(s) /\ 1 < i + 1 /\ s[i + 1] = t[i]
    BY <1>1, <1>2
  <2> QED BY <2>1, <2>2, <1>1, <1>3, <1>10 DEF Declining, DeclinesLast
<1> QED BY <1>1, <1>4, <1>5, <1>6, <1>7, <1>8, <1>9, <1>10 DEF t

LEMMA TailReplies ==
  ASSUME NEW r \in Seq(Reply), r # <<>>
  PROVE  /\ Tail(r) \in Seq(Reply) /\ Head(r) \in Reply
         /\ \A ip \in IpOrNone : Acked(Tail(r), ip) => Acked(r, ip)
         /\ Head(r).type = "ack" => Acked(r, Head(r).ip)
<1> DEFINE t == Tail(r)
<1>1. /\ t \in Seq(Reply) /\ Head(r) \in Reply /\ Head(r) = r[1]
      /\ Len(r) \in Nat \ {0} /\ Len(t) = Len(r) - 1
      /\ \A i \in 1 .. Len(t) : t[i] = r[i + 1]
  BY HeadTailProperties, LenProperties, EmptySeq, SMT
<1>2. 1 \in 1 .. Len(r) /\ \A i \in 1 .. Len(t) : i + 1 \in 1 .. Len(r)
  BY <1>1
<1> HIDE DEF t
<1> QED BY <1>1, <1>2 DEF t, Acked

(* The server answers with one packet.                                     *)
LEMMA AnsweredSeq ==
  ASSUME NEW r \in Seq(Reply), NEW q \in Reply
  PROVE  /\ r \o <<q>> \in Seq(Reply)
         /\ \A ip \in IpOrNone : Acked(r \o <<q>>, ip) => Acked(r, ip) \/ (q.type = "ack" /\ q.ip = ip)
<1> DEFINE t == r \o <<q>>
<1>1. <<q>> \in Seq(Reply) /\ Len(<<q>>) = 1 /\ <<q>>[1] = q
  OBVIOUS
<1>2. /\ t \in Seq(Reply) /\ Len(r) \in Nat /\ Len(t) = Len(r) + 1
      /\ \A i \in 1 .. Len(r) + 1 : t[i] = IF i <= Len(r) THEN r[i] ELSE <<q>>[i - Len(r)]
  BY <1>1, ConcatProperties, LenProperties
<1>3. \A i \in 1 .. Len(t) : (i \in 1 .. Len(r) /\ t[i] = r[i]) \/ t[i] = q
  BY <1>1, <1>2
<1> HIDE DEF t
<1> QED BY <1>2, <1>3 DEF t, Acked

LEMMA NoReply == ASSUME NEW r \in Seq(Reply) PROVE r \o <<>> = r
BY ConcatEmptySeq

(* Nothing is on its way.                                                  *)
LEMMA EmptyQueues ==
  /\ \A ip \in IpOrNone : /\ ~Fresh(<<>>, ip) /\ ~Acked(<<>>, ip) /\ ~Declining(<<>>, ip)
                          /\ Claiming(<<>>, ip)
  /\ Ordered(<<>>) /\ DeclinesLast(<<>>)
BY DEF Fresh, Acked, Declining, Claiming, Ordered, DeclinesLast
-----------------------------------------------------------------------------
(* Types.                                                                  *)

LEMMA ClientTypes ==
  ASSUME NEW k \in Client, NEW ip \in IpOrNone, NEW timeout \in Int
  PROVE  /\ Gone \in Client /\ Restarted(timeout, ip) \in Client /\ k.requested_ip \in IpOrNone
         /\ Sent(k) \in Client /\ [k EXCEPT !.packet_num = 0] \in Client
         /\ [k EXCEPT !.state = "REBINDING"] \in Client
         /\ BOUND_for_half_lease(k) \in Client
         /\ AtMostThirty(k) \in Nat
         /\ [k EXCEPT !.requested_ip = ip, !.lease_remaining = Sane(Lease)] \in Client
<1> USE DhcpConstants DEF Client, States, IpOrNone, NoIp, Forever, DiscoverTimeout, Thirty
<1>1. k.requested_ip \in IpOrNone /\ k.lease_remaining \in Nat /\ k.packet_num \in Nat
  OBVIOUS
<1>2. Gone \in Client
  BY DEF Gone
<1>3. Restarted(timeout, ip) \in Client
  BY <1>2 DEF Restarted
<1>4. Sent(k) \in Client
  <2>1. k.packet_num + 1 \in Nat /\ DiscoverTimeout \in Int
    BY <1>1
  <2>2. \A n \in Nat, t \in Int : [k EXCEPT !.packet_num = n, !.timeout = t] \in Client
    OBVIOUS
  <2> QED BY <2>1, <2>2 DEF Sent
<1>5. k.lease_remaining \div 2 \in Int
  BY <1>1, SMT
<1>6. BOUND_for_half_lease(k) \in Client
  BY <1>5 DEF BOUND_for_half_lease
<1>7. AtMostThirty(k) \in Nat /\ Sane(Lease) \in Nat
  BY <1>1 DEF AtMostThirty, Sane
<1>8. [k EXCEPT !.requested_ip = ip, !.lease_remaining = Sane(Lease)] \in Client
  BY <1>7
<1>9. [k EXCEPT !.packet_num = 0] \in Client /\ [k EXCEPT !.state = "REBINDING"] \in Client
  OBVIOUS
<1> QED BY <1>1, <1>2, <1>3, <1>4, <1>6, <1>7, <1>8, <1>9

(* The two ways to send a request.                                         *)
LEMMA SendTypes ==
  ASSUME TypeOK, NEW c \in Clients, NEW ip \in IpOrNone,
         NEW type \in {"discover", "select", "renew", "decline", "release"}
  PROVE  /\ [type |-> type, ip |-> ip, xid |-> TRUE] \in Request
         /\ Send(c, type, ip) \/ SendNew(c, type, ip)
              => toServer' \in [Clients -> Seq(Request)] /\ toClient' \in [Clients -> Seq(Reply)]
<1>1. [type |-> type, ip |-> ip, xid |-> TRUE] \in Request
  BY DEF Request, IpOrNone
<1>2. toServer[c] \in Seq(Request) /\ <<>> \in Seq(Reply)
  BY DEF TypeOK
<1>3. /\ Append(toServer[c], [type |-> type, ip |-> ip, xid |-> TRUE]) \in Seq(Request)
      /\ Append(Renumbered(toServer[c]), [type |-> type, ip |-> ip, xid |-> TRUE]) \in Seq(Request)
  BY <1>1, <1>2, AppendProperties, RenumberedSeq
<1> QED BY <1>1, <1>2, <1>3 DEF Send, SendNew, TypeOK

LEMMA TakenTypes ==
  ASSUME TypeOK, NEW c \in Clients, NEW types, Arrives(c, types)
  PROVE  /\ Head(toClient[c]) \in Reply /\ Head(toClient[c]).ip \in IpOrNone
         /\ Taken(c) => toClient' \in [Clients -> Seq(Reply)]
<1>1. toClient[c] \in Seq(Reply) /\ toClient[c] # <<>>
  BY DEF TypeOK, Arrives
<1>2. Head(toClient[c]) \in Reply /\ Tail(toClient[c]) \in Seq(Reply)
  BY <1>1, TailReplies
<1> QED BY <1>2 DEF Taken, TypeOK, Reply, IpOrNone

(* What a step of a client leaves alone, and the types of the rest.        *)
Typed ==
  /\ toServer' \in [Clients -> Seq(Request)] /\ toClient' \in [Clients -> Seq(Reply)]
  /\ interface' \in [Clients -> Ips \cup {NoIp}] /\ client' \in [Clients -> Client]
  /\ strangers' = strangers

LEMMA ClientStepTyped ==
  ASSUME TypeOK, NEW c \in Clients, ClientTimeout(c) \/ ClientReceives(c) \/ ClientSignal(c)
  PROVE  Typed
<1> DEFINE k == client[c]
<1>0. /\ k \in Client /\ k.requested_ip \in IpOrNone /\ NoIp \in IpOrNone /\ TryAgain \in Int
      /\ 0 \in Int /\ 1 \in Int /\ Gone \in Client
  <2>1. k \in Client /\ NoIp \in IpOrNone /\ TryAgain \in Int /\ 0 \in Int /\ 1 \in Int
    BY ClientConstants DEF TypeOK, IpOrNone
  <2> QED BY <2>1, ClientTypes
<1>1. ASSUME NEW d \in Client PROVE Has(c, d) => client' \in [Clients -> Client]
  BY DEF Has, TypeOK
<1>2. Deconfig(c) \/ UNCHANGED interface => interface' \in [Clients -> Ips \cup {NoIp}]
  BY DEF Deconfig, TypeOK
<1>3. Silent => toServer' \in [Clients -> Seq(Request)] /\ toClient' \in [Clients -> Seq(Reply)]
  BY DEF Silent, TypeOK
<1>4. \A n \in {0, 1, TryAgain} : \A ip \in IpOrNone : Restarted(n, ip) \in Client
  BY <1>0, ClientTypes
<1>5. \A d \in Client : /\ Sent(d) \in Client /\ [d EXCEPT !.packet_num = 0] \in Client
                        /\ [d EXCEPT !.state = "REBINDING"] \in Client
                        /\ BOUND_for_half_lease(d) \in Client
  BY <1>0, ClientTypes
<1>6. ASSUME NEW state \in States, NEW d \in Client, StartRenew(c, state, d), strangers' = strangers PROVE Typed
  <2>1. [d EXCEPT !.state = state, !.packet_num = 1, !.timeout = DiscoverTimeout] \in Client
    <3>1. \A t \in Int, n \in Nat : [d EXCEPT !.state = state, !.packet_num = n, !.timeout = t] \in Client
      BY <1>6 DEF Client
    <3>2. DiscoverTimeout \in Int /\ 1 \in Nat
      BY DEF DiscoverTimeout
    <3> QED BY <3>1, <3>2, Zenon
  <2>2. d.requested_ip \in IpOrNone
    BY <1>0, ClientTypes
  <2> QED BY <2>1, <2>2, <1>6, <1>1, <1>2, SendTypes DEF StartRenew, Typed
<1>7. ASSUME NEW d \in Client, RebindOrLose(c, d)
      PROVE  /\ toServer' \in [Clients -> Seq(Request)] /\ toClient' \in [Clients -> Seq(Reply)]
             /\ client' \in [Clients -> Client] /\ interface' \in [Clients -> Ips \cup {NoIp}]
  <2>1. d.requested_ip \in IpOrNone
    BY <1>7, ClientTypes, <1>0
  <2>2. Sent([d EXCEPT !.state = "REBINDING"]) \in Client /\ Restarted(0, d.requested_ip) \in Client
    BY <2>1, <1>4, <1>5
  <2> QED BY <1>7, <1>1, <1>2, <1>3, <2>1, <2>2, SendTypes DEF RebindOrLose
<1>8. ASSUME NEW state \in {"gone", "RELEASED"}, perform_release(c, state) PROVE Typed \/ strangers' # strangers
  <2>1. [Gone EXCEPT !.state = state,
                     !.requested_ip = IF state = "gone" THEN NoIp ELSE k.requested_ip] \in Client
    BY <1>0 DEF Client, States, Gone, IpOrNone
  <2> QED BY <2>1, <1>8, <1>0, <1>1, <1>2, <1>3, SendTypes DEF perform_release, Typed
<1>9. ASSUME NEW d \in Client, Unrenewed(c, d), strangers' = strangers PROVE Typed
  <2>1. [d EXCEPT !.packet_num = 0] \in Client /\ BOUND_for_half_lease(d) \in Client
    BY <1>5
  <2> QED BY <2>1, <1>9, <1>1, <1>2, <1>3, <1>7 DEF Unrenewed, Typed
<1> HIDE DEF k
<1>11. CASE Discover(c)
  BY <1>11, <1>0, <1>1, <1>2, <1>5, SendTypes DEF Discover, Typed, k
<1>12. CASE Select(c)
  BY <1>12, <1>0, <1>1, <1>2, <1>5, SendTypes DEF Select, Typed, k
<1>13. CASE LeaseFail(c)
  <2>1. Afresh(k) \in Client
    BY <1>0, <1>4 DEF Afresh
  <2> QED BY <1>13, <2>1, <1>1, <1>2, <1>3 DEF LeaseFail, Typed, k
<1>14. CASE Renew(c)
  <2>1. "RENEWING" \in States
    BY DEF States
  <2> QED BY <1>14, <2>1, <1>0, <1>6, <1>9 DEF Renew, k
<1>15. CASE NoAnswer(c)
  BY <1>15, <1>0, <1>7, <1>9 DEF NoAnswer, Typed, k
<1>16. CASE Offer(c)
  <2>1. Head(toClient[c]).ip \in IpOrNone /\ toClient' \in [Clients -> Seq(Reply)]
    BY <1>16, TakenTypes DEF Offer
  <2>2. [k EXCEPT !.state = "REQUESTING", !.timeout = 0, !.packet_num = 0,
                  !.requested_ip = Head(toClient[c]).ip] \in Client
    BY <2>1, <1>0 DEF Client, States, IpOrNone
  <2> QED BY <1>16, <2>1, <2>2, <1>1, <1>2 DEF Offer, Typed, TypeOK, k
<1>17. CASE Ack(c)
  <2> DEFINE ip == Head(toClient[c]).ip
             n == [k EXCEPT !.requested_ip = ip, !.lease_remaining = Sane(Lease)]
  <2>1. ip \in IpOrNone /\ (Taken(c) => toClient' \in [Clients -> Seq(Reply)])
    BY <1>17, TakenTypes DEF Ack
  <2>2. n \in Client
    BY <2>1, <1>0, ClientTypes
  <2>3. BOUND_for_half_lease(n) \in Client /\ Restarted(TryAgain, NoIp) \in Client
    BY <2>2, <1>0, <1>4, <1>5
  <2>4. CASE c \in ArpClients /\ InUse(ip, c)
    BY <2>4, <1>17, <2>1, <2>3, <1>1, <1>2, SendTypes DEF Ack, Typed
  <2>5. CASE ~(c \in ArpClients /\ InUse(ip, c))
    <3>1. Has(c, BOUND_for_half_lease(n)) /\ Taken(c) /\ UNCHANGED <<toServer, strangers>>
          /\ interface' = [interface EXCEPT ![c] = ip]
      BY <2>5, <1>17 DEF Ack, k
    <3>2. interface' \in [Clients -> Ips \cup {NoIp}]
      BY <3>1, <2>1 DEF TypeOK, IpOrNone
    <3> HIDE DEF n, ip
    <3> QED BY <3>1, <3>2, <2>1, <2>3, <1>1 DEF Typed, TypeOK
  <2> QED BY <2>4, <2>5
<1>18. CASE Nak(c)
  <2>1. toClient' \in [Clients -> Seq(Reply)]
    BY <1>18, TakenTypes DEF Nak
  <2> QED BY <1>18, <2>1, <1>0, <1>1, <1>2, <1>4 DEF Nak, Typed, TypeOK
<1>19. CASE Ignored(c)
  <2>1. toClient' \in [Clients -> Seq(Reply)]
    BY <1>19, TakenTypes DEF Ignored
  <2> QED BY <1>19, <2>1 DEF Ignored, Typed, TypeOK
<1>20. CASE SIGUSR1(c)
  <2> DEFINE n == [k EXCEPT !.lease_remaining = AtMostThirty(k)]
  <2>1. "RENEW_REQUESTED" \in States /\ AtMostThirty(k) \in Nat /\ n \in Client
    BY <1>0, ClientTypes DEF States, Client
  <2>2. CASE StartRenew(c, "RENEW_REQUESTED", n) \/ Unrenewed(c, n)
    <3> HIDE DEF n
    <3> QED BY <2>1, <2>2, <1>20, <1>6, <1>9 DEF SIGUSR1, Signal
  <2>3. CASE Deconfig(c) /\ Has(c, Restarted(0, k.requested_ip)) /\ Silent
    BY <2>3, <1>20, <1>0, <1>1, <1>2, <1>3, <1>4 DEF SIGUSR1, Signal, Typed
  <2> QED BY <1>20, <2>2, <2>3 DEF SIGUSR1, k
<1>21. CASE SIGUSR2(c) \/ SIGTERM(c)
  BY <1>21, <1>8 DEF SIGUSR2, SIGTERM, Signal
<1>22. CASE Fail(c) \/ Start(c)
  BY <1>22, <1>0, <1>1, <1>2, <1>3, <1>4 DEF Fail, Start, Signal, Typed
<1> QED BY <1>11, <1>12, <1>13, <1>14, <1>15, <1>16, <1>17, <1>18, <1>19, <1>20, <1>21, <1>22
     DEF ClientTimeout, ClientReceives, ClientSignal
-----------------------------------------------------------------------------
(* The tables of leases.                                                   *)

(* What u keeps of t: every lease that is not over and not c's.            *)
Keep(t, u, c) ==
  \A m \in (Clients \cup {Nobody}) \ {c} : \A ip \in IpOrNone, n \in Nat :
    Good(t, m, ip, n) => Good(u, m, ip, n)

LEMMA EntryTypes ==
  ASSUME NEW t \in Table, NEW ip \in Ips, Some(t, ip)
  PROVE  t[ip] \in Leases /\ t[ip].mac \in Clients \cup {Nobody} /\ t[ip].left \in Nat \cup {-1}
BY DEF Table, Some, Leases

LEMMA LeaseTypes ==
  ASSUME NEW m \in Clients \cup {Nobody}, NEW n \in Nat \cup {-1}
  PROVE  [mac |-> m, left |-> n] \in Leases /\ [mac |-> m, left |-> n] # NoLease
<1>1. [mac |-> m, left |-> n] \in Leases
  BY DEF Leases
<1> QED BY <1>1, LeaseConstants

(* An address that nobody but c has now may be given to c.                 *)
LEMMA AddedTable ==
  ASSUME NEW t \in Table, NEW c \in Clients, NEW ip \in Ips, NEW time \in Nat
  PROVE  /\ Added(t, c, ip, time) \in Table
         /\ Good(Added(t, c, ip, time), c, ip, time)
         /\ \A v : (\A m \in (Clients \cup {Nobody}) \ {c} : ~Good(v, m, ip, 0)) /\ Keep(v, t, c)
                  /\ v \in Table => Keep(v, Added(t, c, ip, time), c)
<1> DEFINE u == Added(t, c, ip, time)
           new == [mac |-> c, left |-> time]
<1>1. new \in Leases /\ new # NoLease /\ c # Nobody
  BY LeaseTypes, DhcpConstants
<1>2. \A i \in Ips : u[i] = IF i = ip THEN new
                             ELSE IF Some(t, i) /\ t[i].mac = c THEN NoLease ELSE t[i]
  BY <1>1 DEF Added
<1>3. u \in Table
  <2>1. \A i \in Ips : u[i] \in Leases \cup {NoLease}
    BY <1>1, <1>2 DEF Table
  <2>2. u = [i \in Ips |-> u[i]]
    BY DEF Added
  <2> HIDE DEF u
  <2> QED BY <2>1, <2>2 DEF Table
<1>4. Good(u, c, ip, time)
  BY <1>1, <1>2 DEF Good, Some
<1>5. ASSUME NEW v \in Table, \A m \in (Clients \cup {Nobody}) \ {c} : ~Good(v, m, ip, 0),
             Keep(v, t, c)
      PROVE  Keep(v, u, c)
  <2> HIDE DEF u, new
  <2> SUFFICES ASSUME NEW m \in (Clients \cup {Nobody}) \ {c}, NEW i \in IpOrNone, NEW n \in Nat,
                      Good(v, m, i, n)
               PROVE  Good(u, m, i, n)
    BY DEF Keep
  <2>1. i \in Ips /\ Some(v, i) /\ v[i].mac = m /\ v[i].left >= n /\ v[i].left \in Nat \cup {-1}
    BY EntryTypes DEF Good
  <2>2. Good(v, m, i, 0)
    BY <2>1 DEF Good
  <2>3. i # ip
    BY <2>2, <1>5
  <2>4. Good(t, m, i, n)
    BY <1>5 DEF Keep
  <2> QED BY <2>3, <2>4, <1>2 DEF Good, Some
<1> QED BY <1>3, <1>4, <1>5 DEF u

(* Conflict leases take the place of what is free or over.                 *)
LEMMA ConflictsTable ==
  ASSUME TypeOK, NEW c, NEW ips \in SUBSET Ips, \A ip \in ips : Some(leases, ip) => Expired(leases, ip)
  PROVE  Conflicts(ips) \in Table /\ Keep(leases, Conflicts(ips), c)
<1>0. leases \in Table /\ [mac |-> Nobody, left |-> ConflictTime] \in Leases
  BY LeaseTypes, ServerConstants DEF TypeOK
<1>1. Conflicts(ips) \in Table
  BY <1>0 DEF Conflicts, Table
<1>2. ASSUME NEW m \in (Clients \cup {Nobody}) \ {c}, NEW i \in IpOrNone, NEW n \in Nat,
             Good(leases, m, i, n)
      PROVE  Good(Conflicts(ips), m, i, n)
  <2>1. i \in Ips /\ Some(leases, i) /\ leases[i].left >= n /\ leases[i].left \in Nat \cup {-1}
    BY <1>0, <1>2, EntryTypes DEF Good
  <2>2. i \notin ips
    BY <2>1 DEF Expired
  <2> QED BY <1>2, <2>1, <2>2 DEF Conflicts, Good, Some
<1> QED BY <1>1, <1>2 DEF Keep

(* What send_offer chooses belongs to nobody else.                         *)
LEMMA ChoiceIsFree ==
  ASSUME TypeOK, NEW c \in Clients, NEW ip \in IpOrNone, NEW choice \in Choices(c, ip)
  PROVE  /\ choice.table \in Table /\ Keep(leases, choice.table, c)
         /\ choice.ip # NoIp => /\ choice.ip \in Ips
                                /\ Added(choice.table, c, choice.ip, OfferTime) \in Table
                                /\ Keep(leases, Added(choice.table, c, choice.ip, OfferTime), c)
<1> DEFINE Free0(i) == i \in Ips /\ \A m \in (Clients \cup {Nobody}) \ {c} : ~Good(leases, m, i, 0)
           Unchosen == {i \in Ips : Some(leases, i) => Expired(leases, i)}
           Chosen(i, t) == /\ i # NoIp => Free0(i)
                           /\ t = leases \/ \E ips \in SUBSET Unchosen : t = Conflicts(ips)
<1>0. leases \in Table /\ Keep(leases, leases, c)
  BY DEF TypeOK, Keep
<1>1. \A i \in Ips : (Some(leases, i) => Expired(leases, i)) => Free0(i)
  <2> SUFFICES ASSUME NEW i \in Ips, Some(leases, i) => Expired(leases, i),
                      NEW m \in (Clients \cup {Nobody}) \ {c}, Good(leases, m, i, 0)
               PROVE  FALSE
    OBVIOUS
  <2>1. Some(leases, i) /\ leases[i].left >= 0 /\ leases[i].left \in Nat \cup {-1}
    BY <1>0, EntryTypes DEF Good
  <2> QED BY <2>1 DEF Expired
<1>2. \A i \in Of(c) : Free0(i)
  BY DEF Of, Good
<1>3. Chosen(choice.ip, choice.table)
  <2>1. CASE choice \in {[ip |-> i, table |-> leases] : i \in Of(c)}
    BY <2>1, <1>2
  <2>2. CASE Available(ip) /\ choice \in {[ip |-> ip, table |-> leases]}
    BY <2>2, <1>1 DEF Available, IpOrNone
  <2>3. CASE choice \in Found(c)
    <3>1. /\ Free(c) \subseteq Unchosen /\ Tried(c) \subseteq Unchosen
          /\ Unleased \subseteq Unchosen /\ Oldest \subseteq Unchosen
      BY DEF Free, Tried, Unleased, Oldest
    <3>2. CASE Free(c) # {}
      <4>1. PICK i \in Free(c) : choice = [ip |-> i, table |-> Conflicts(Tried(c))]
        BY <2>3, <3>2 DEF Found
      <4> QED BY <4>1, <3>1, <1>1
    <3>3. CASE Free(c) = {} /\ Oldest = {}
      <4>1. choice = [ip |-> NoIp, table |-> Conflicts(Unleased)]
        BY <2>3, <3>3 DEF Found
      <4> QED BY <4>1, <3>1
    <3>4. CASE Free(c) = {} /\ Oldest # {}
      <4>1. PICK i \in Oldest :
              choice = IF InUse(i, c) THEN [ip |-> NoIp, table |-> Conflicts(Unleased \cup {i})]
                                      ELSE [ip |-> i, table |-> Conflicts(Unleased)]
        BY <2>3, <3>4 DEF Found
      <4>2. Unleased \cup {i} \subseteq Unchosen
        BY <3>1
      <4>3. CASE InUse(i, c)
        BY <4>1, <4>2, <4>3
      <4>4. CASE ~InUse(i, c)
        BY <4>1, <4>4, <3>1, <1>1
      <4> QED BY <4>3, <4>4
    <3> QED BY <3>2, <3>3, <3>4
  <2> QED BY <2>1, <2>2, <2>3 DEF Choices
<1>4. choice.table \in Table /\ Keep(leases, choice.table, c)
  BY <1>0, <1>3, ConflictsTable
<1>5. ASSUME choice.ip # NoIp
      PROVE  /\ choice.ip \in Ips
             /\ Added(choice.table, c, choice.ip, OfferTime) \in Table
             /\ Keep(leases, Added(choice.table, c, choice.ip, OfferTime), c)
  <2>1. choice.ip \in Ips /\ \A m \in (Clients \cup {Nobody}) \ {c} : ~Good(leases, m, choice.ip, 0)
    BY <1>3, <1>5
  <2> QED BY <2>1, <1>0, <1>4, AddedTable, ServerConstants
<1> QED BY <1>4, <1>5
LEMMA SavedTable ==
  ASSUME NEW t \in Table
  PROVE  /\ Saved(t) \in Table
         /\ \A m \in Clients \cup {Nobody} : \A ip \in IpOrNone, n \in Nat :
              Good(t, m, ip, n) => Good(Saved(t), m, ip, n)
<1>1. ASSUME NEW i \in Ips, Some(t, i) PROVE [t[i] EXCEPT !.left = 0] \in Leases
  BY <1>1, EntryTypes DEF Leases
<1>2. Saved(t) \in Table
  BY <1>1 DEF Saved, Table
<1>3. ASSUME NEW m \in Clients \cup {Nobody}, NEW i \in IpOrNone, NEW n \in Nat, Good(t, m, i, n)
      PROVE  Good(Saved(t), m, i, n)
  <2>1. i \in Ips /\ Some(t, i) /\ t[i].left >= n /\ t[i].left \in Nat \cup {-1}
    BY <1>3, EntryTypes DEF Good
  <2>2. ~Expired(t, i)
    BY <2>1 DEF Expired
  <2> QED BY <1>3, <2>1, <2>2 DEF Saved, Good, Some
<1> QED BY <1>2, <1>3

(* What a write of t brings into the file, for a client it does not miss.  *)
LEMMA Written ==
  ASSUME TypeOK, NEW t \in Table, NEW new \in SUBSET Clients, NEW w \in Writes(t, new)
  PROVE  /\ w.file \in Table /\ w.missing \subseteq Clients
         /\ \A d \in Clients \ w.missing :
              \/ \A ip \in IpOrNone, n \in Nat : Good(t, d, ip, n) => Good(w.file, d, ip, n)
              \/ w.file = file /\ d \notin unsaved \cup new
<1>0. Saved(t) \in Table /\ file \in Table /\ unsaved \subseteq Clients
  BY SavedTable DEF TypeOK
<1>1. CASE w = Unopened(new)
  BY <1>0, <1>1 DEF Unopened
<1>2. ASSUME NEW kept \in SUBSET Ips, w = Part(t, kept)
      PROVE  /\ w.file \in Table /\ w.missing \subseteq Clients
             /\ \A d \in Clients \ w.missing : \A ip \in IpOrNone, n \in Nat :
                  Good(t, d, ip, n) => Good(w.file, d, ip, n)
  <2>1. /\ w.file = [i \in Ips |-> IF i \in kept THEN Saved(t)[i] ELSE NoLease]
        /\ w.missing = Owners(t, Ips \ kept)
    BY <1>2 DEF Part
  <2>2. w.file \in Table /\ w.missing \subseteq Clients
    BY <1>0, <2>1 DEF Table, Owners
  <2>3. ASSUME NEW d \in Clients \ w.missing, NEW ip \in IpOrNone, NEW n \in Nat, Good(t, d, ip, n)
        PROVE  Good(w.file, d, ip, n)
    <3>1. ip \in kept
      BY <2>1, <2>3 DEF Owners, Good
    <3>2. Good(Saved(t), d, ip, n)
      BY <2>3, SavedTable
    <3>3. w.file[ip] = Saved(t)[ip] /\ ip \in Ips
      BY <2>1, <3>1
    <3> QED BY <3>2, <3>3 DEF Good, Some
  <2> QED BY <2>2, <2>3
<1> QED BY <1>1, <1>2 DEF Writes

LEMMA WholeTable ==
  ASSUME NEW t, NEW new
  PROVE  Whole(t) \in Writes(t, new)
BY DEF Whole, Writes

(* Only conflict leases are lost when the file is read.                    *)
LEMMA ReadTable ==
  ASSUME NEW t \in Table, NEW u \in Read(t)
  PROVE  /\ u \in Table
         /\ \A m \in Clients : \A ip \in IpOrNone, n \in Nat : Good(t, m, ip, n) => Good(u, m, ip, n)
<1>1. CASE Reserved(t) = {}
  BY <1>1 DEF Read
<1>2. CASE Reserved(t) # {}
  <2>1. PICK ip \in Reserved(t) : u = [i \in Ips |-> IF i \in Reserved(t) \ {ip} THEN NoLease ELSE t[i]]
    BY <1>2 DEF Read
  <2>2. u \in Table
    BY <2>1 DEF Table
  <2>3. ASSUME NEW m \in Clients, NEW i \in IpOrNone, NEW n \in Nat, Good(t, m, i, n)
        PROVE  Good(u, m, i, n)
    <3>1. i \in Ips /\ i \notin Reserved(t)
      BY <2>3, DhcpConstants DEF Good, Reserved
    <3> QED BY <3>1, <2>1, <2>3 DEF Good, Some
  <2> QED BY <2>2, <2>3
<1> QED BY <1>1, <1>2

LEMMA AgedTable ==
  ASSUME NEW t \in Table, NEW over \in {-1, 0}
  PROVE  /\ Aged(t, over) \in Table
         /\ \A m \in Clients : \A ip \in IpOrNone, n \in Nat : Good(t, m, ip, n + 1) => Good(Aged(t, over), m, ip, n)
         /\ Reserved(Aged(t, over)) = Reserved(t)
<1>1. \A i \in Ips : Some(t, i) => /\ t[i] \in Leases /\ t[i].mac \in Clients \cup {Nobody}
                                   /\ t[i].left \in Nat \cup {-1}
  BY EntryTypes
<1>2. \A n \in Nat \cup {-1} : Older(n, over) \in Nat \cup {-1}
  BY DEF Older
<1>3. \A i \in Ips : Some(t, i) => /\ [t[i] EXCEPT !.left = Older(t[i].left, over)] \in Leases
                                   /\ [t[i] EXCEPT !.left = Older(t[i].left, over)].mac = t[i].mac
                                   /\ [t[i] EXCEPT !.left = Older(t[i].left, over)].left = Older(t[i].left, over)
  BY <1>1, <1>2 DEF Leases
<1>4. Aged(t, over) \in Table
  BY <1>3 DEF Aged, Table
<1>5. ASSUME NEW i \in Ips PROVE /\ Some(Aged(t, over), i) <=> Some(t, i)
                                 /\ Some(t, i) => /\ Aged(t, over)[i].mac = t[i].mac
                                                  /\ Aged(t, over)[i].left = Older(t[i].left, over)
  <2>1. CASE Some(t, i)
    <3>1. Aged(t, over)[i] = [t[i] EXCEPT !.left = Older(t[i].left, over)]
      BY <2>1 DEF Aged
    <3> QED BY <3>1, <1>3, <2>1, LeaseConstants DEF Some
  <2>2. CASE ~Some(t, i)
    BY <2>2 DEF Aged, Some
  <2> QED BY <2>1, <2>2
<1>6. ASSUME NEW m \in Clients, NEW i \in IpOrNone, NEW n \in Nat, Good(t, m, i, n + 1)
      PROVE  Good(Aged(t, over), m, i, n)
  <2>1. i \in Ips /\ Some(t, i) /\ t[i].left >= n + 1 /\ t[i].left \in Nat \cup {-1}
    BY <1>1, <1>6 DEF Good
  <2>2. Older(t[i].left, over) >= n
    BY <2>1 DEF Older
  <2> QED BY <1>5, <1>6, <2>1, <2>2 DEF Good
<1>7. Reserved(Aged(t, over)) = Reserved(t)
  BY <1>5 DEF Reserved
<1> QED BY <1>4, <1>6, <1>7

-----------------------------------------------------------------------------
(* Steps of the server.                                                    *)

(* A packet of c is taken; the table changes for c only.                   *)
Serves(c) ==
  /\ toServer' \in [Clients -> Seq(Request)] /\ toClient' \in [Clients -> Seq(Reply)]
  /\ \A d \in Clients \ {c} : toServer'[d] = toServer[d] /\ toClient'[d] = toClient[d]
  /\ leases' \in Table /\ Keep(leases, leases', c)
  /\ \/ UNCHANGED <<file, unsaved, lost>>
     \/ /\ lost' = lost \ {c}
        /\ \E w \in Writes(leases', {c}) : WriteTo(w)
  /\ UNCHANGED <<interface, strangers>>

LEMMA AnswerTypes ==
  ASSUME TypeOK, NEW c \in Clients, NEW types, Gets(c, types), NEW replies,
         replies = <<>> \/ \E q \in Reply : replies = <<q>>, Answer(c, replies)
  PROVE  /\ toServer' \in [Clients -> Seq(Request)] /\ toClient' \in [Clients -> Seq(Reply)]
         /\ \A d \in Clients \ {c} : toServer'[d] = toServer[d] /\ toClient'[d] = toClient[d]
         /\ toServer'[c] = Tail(toServer[c])
         /\ toClient'[c] = IF Packet(c).xid THEN toClient[c] \o replies ELSE toClient[c]
<1>1. toServer[c] \in Seq(Request) /\ toServer[c] # <<>> /\ toClient[c] \in Seq(Reply)
  BY DEF TypeOK, Gets
<1>2. Tail(toServer[c]) \in Seq(Request)
  BY <1>1, TailSeq
<1>3. toClient[c] \o replies \in Seq(Reply)
  BY <1>1, AnsweredSeq, NoReply
<1> QED BY <1>2, <1>3 DEF Answer, TypeOK

LEMMA ServerReceivesKeeps ==
  ASSUME TypeOK, NEW c \in Clients, ServerReceives(c)
  PROVE  Serves(c)
<1>0. /\ leases \in Table /\ file \in Table /\ Keep(leases, leases, c)
      /\ \A i \in Of(c) : i \in Ips /\ Some(leases, i) /\ leases[i].mac = c
  BY DEF TypeOK, Keep, Of
<1>p. ASSUME NEW types, Gets(c, types) PROVE Packet(c) \in Request /\ Packet(c).ip \in IpOrNone
  <2>1. toServer[c] \in Seq(Request) /\ toServer[c] # <<>>
    BY <1>p DEF TypeOK, Gets
  <2>2. Packet(c) \in Request
    BY <2>1, TailSeq DEF Packet
  <2> QED BY <2>2 DEF Request, IpOrNone
<1>q. \A ip \in IpOrNone, type \in {"offer", "ack", "nak"} :
        /\ [type |-> type, ip |-> ip] \in Reply
        /\ \E q \in Reply : Reply1(type, ip) = <<q>>
  BY DEF Reply, Reply1, IpOrNone
<1>1. CASE send_offer(c)
  <2>1. PICK choice \in Choices(c, Packet(c).ip) :
          IF choice.ip = NoIp
          THEN leases' = choice.table /\ Answer(c, <<>>)
          ELSE /\ leases' = Added(choice.table, c, choice.ip, OfferTime)
               /\ Answer(c, Reply1("offer", choice.ip))
    BY <1>1 DEF send_offer
  <2>2. Gets(c, {"discover"}) /\ UNCHANGED <<interface, strangers, file, unsaved, lost>>
    BY <1>1 DEF send_offer
  <2>3. Packet(c).ip \in IpOrNone
    BY <2>2, <1>p
  <2>4. /\ choice.table \in Table /\ Keep(leases, choice.table, c)
        /\ choice.ip # NoIp => /\ choice.ip \in Ips
                               /\ Added(choice.table, c, choice.ip, OfferTime) \in Table
                               /\ Keep(leases, Added(choice.table, c, choice.ip, OfferTime), c)
    BY <2>3, ChoiceIsFree
  <2>5. CASE choice.ip = NoIp
    BY <2>1, <2>2, <2>4, <2>5, <1>0, AnswerTypes DEF Serves
  <2>6. CASE choice.ip # NoIp
    <3>1. choice.ip \in IpOrNone
      BY <2>4, <2>6 DEF IpOrNone
    <3>2. \E q \in Reply : Reply1("offer", choice.ip) = <<q>>
      BY <3>1, <1>q
    <3>3. Answer(c, Reply1("offer", choice.ip))
      BY <2>1, <2>6
    <3> QED BY <2>1, <2>2, <2>4, <2>6, <3>2, <3>3, <1>0, AnswerTypes DEF Serves
  <2> QED BY <2>5, <2>6
<1>2. CASE send_ACK(c)
  <2> DEFINE ip == Packet(c).ip
  <2>1. /\ Gets(c, {"select", "renew"}) /\ ip \in Of(c) /\ Answer(c, Reply1("ack", ip))
        /\ leases' = Added(leases, c, ip, Lease) /\ lost' = lost \ {c}
        /\ \E w \in Writes(leases', {c}) : WriteTo(w)
        /\ UNCHANGED <<interface, strangers>>
    BY <1>2, WholeTable DEF send_ACK, Own
  <2>2. ip \in Ips /\ \A m \in (Clients \cup {Nobody}) \ {c} : ~Good(leases, m, ip, 0)
    BY <2>1, <1>0 DEF Good
  <2>3. leases' \in Table /\ Keep(leases, leases', c)
    BY <2>1, <2>2, <1>0, AddedTable, DhcpConstants
  <2>4. \E q \in Reply : Reply1("ack", ip) = <<q>>
    BY <2>2, <1>q DEF IpOrNone
  <2> HIDE DEF ip
  <2> QED BY <2>1, <2>3, <2>4, AnswerTypes DEF Serves
<1>3. CASE send_NAK(c)
  <2> DEFINE replies == IF Packet(c).type = "select" THEN Reply1("nak", NoIp) ELSE <<>>
  <2>1. /\ Gets(c, {"select", "renew"}) /\ Answer(c, replies)
        /\ UNCHANGED <<interface, strangers, leases, file, unsaved, lost>>
    BY <1>3 DEF send_NAK
  <2>2. replies = <<>> \/ \E q \in Reply : replies = <<q>>
    BY <1>q DEF IpOrNone
  <2> HIDE DEF replies
  <2> QED BY <2>1, <2>2, <1>0, AnswerTypes DEF Serves
<1>4. CASE Declined(c)
  <2> DEFINE ip == Packet(c).ip
             new == [mac |-> Nobody, left |-> DeclineTime]
  <2>1. /\ Gets(c, {"decline"}) /\ Answer(c, <<>>)
        /\ leases' = IF Own(c, ip) THEN [leases EXCEPT ![ip] = new] ELSE leases
        /\ UNCHANGED <<interface, strangers, file, unsaved, lost>>
    BY <1>4 DEF Declined
  <2>2. new \in Leases
    BY LeaseTypes, ServerConstants
  <2>3. leases' \in Table /\ Keep(leases, leases', c)
    <3>1. CASE Own(c, ip)
      <4>1. leases' = [leases EXCEPT ![ip] = new] /\ ip \in Ips /\ leases[ip].mac = c
        BY <2>1, <3>1, <1>0 DEF Own
      <4> HIDE DEF ip, new
      <4>2. leases' \in Table
        BY <4>1, <2>2, <1>0 DEF Table
      <4>3. \A i \in Ips \ {ip} : leases'[i] = leases[i]
        BY <4>1, <1>0 DEF Table
      <4> QED BY <4>1, <4>2, <4>3 DEF Keep, Good, Some
    <3>2. CASE ~Own(c, ip)
      BY <2>1, <3>2, <1>0
    <3> QED BY <3>1, <3>2
  <2> QED BY <2>1, <2>3, <1>0, AnswerTypes DEF Serves
<1>5. CASE Released(c)
  <2> DEFINE ip == Packet(c).ip
  <2>1. /\ Gets(c, {"release"}) /\ Answer(c, <<>>)
        /\ leases' = IF Own(c, ip) THEN [leases EXCEPT ![ip].left = 0] ELSE leases
        /\ UNCHANGED <<interface, strangers, file, unsaved, lost>>
    BY <1>5 DEF Released
  <2>3. leases' \in Table /\ Keep(leases, leases', c)
    <3>1. CASE Own(c, ip)
      <4>1. leases' = [leases EXCEPT ![ip].left = 0] /\ ip \in Ips /\ leases[ip].mac = c /\ Some(leases, ip)
        BY <2>1, <3>1, <1>0 DEF Own
      <4> HIDE DEF ip
      <4>2. [leases[ip] EXCEPT !.left = 0] \in Leases
        BY <4>1, <1>0, EntryTypes DEF Leases
      <4>3. leases' \in Table
        BY <4>1, <4>2, <1>0 DEF Table
      <4>4. \A i \in Ips \ {ip} : leases'[i] = leases[i]
        BY <4>1, <1>0 DEF Table
      <4> QED BY <4>1, <4>3, <4>4 DEF Keep, Good, Some
    <3>2. CASE ~Own(c, ip)
      BY <2>1, <3>2, <1>0
    <3> QED BY <3>1, <3>2
  <2> QED BY <2>1, <2>3, <1>0, AnswerTypes DEF Serves
<1> QED BY <1>1, <1>2, <1>3, <1>4, <1>5 DEF ServerReceives
-----------------------------------------------------------------------------
(* The type invariant, and what is reserved.                               *)

(* udhcpd has been started again.                                          *)
LEMMA StartsTypes ==
  ASSUME TypeOK, NEW t \in Table, NEW new \in SUBSET Clients, NEW w \in Writes(t, new), StartsWith(w)
  PROVE  /\ leases' \in Table /\ file' \in Table /\ unsaved' \subseteq Clients /\ lost' \subseteq Clients
         /\ file' = w.file /\ leases' \in Read(w.file) /\ lost' = lost \cup w.missing
<1>1. w.file \in Table /\ w.missing \subseteq Clients /\ lost \subseteq Clients
  BY Written DEF TypeOK
<1>2. /\ file' = w.file /\ leases' \in Read(w.file) /\ unsaved' = {} /\ lost' = lost \cup w.missing
  BY DEF StartsWith
<1> QED BY <1>1, <1>2, ReadTable

LEMMA CrashInAckTypes ==
  ASSUME TypeOK, NEW c \in Clients, CrashInAck(c)
  PROVE  /\ toServer' \in [Clients -> Seq(Request)] /\ toClient' \in [Clients -> Seq(Reply)]
         /\ leases' \in Table /\ file' \in Table /\ unsaved' \subseteq Clients /\ lost' \subseteq Clients
         /\ UNCHANGED <<interface, strangers>>
<1> DEFINE ip == Packet(c).ip
           t == Added(leases, c, ip, Lease)
<1>1. /\ Gets(c, {"select", "renew"}) /\ ip \in Of(c) /\ Answer(c, Reply1("ack", ip))
      /\ \E w \in Writes(t, {c}) : StartsWith(w)
      /\ UNCHANGED <<interface, strangers>>
  BY DEF CrashInAck, Own
<1>2. ip \in Ips /\ leases \in Table
  BY <1>1 DEF Of, TypeOK
<1>3. t \in Table
  BY <1>2, AddedTable, DhcpConstants
<1>4. leases' \in Table /\ file' \in Table /\ unsaved' \subseteq Clients /\ lost' \subseteq Clients
  <2> HIDE DEF t
  <2> QED BY <1>1, <1>3, StartsTypes
<1>5. \E q \in Reply : Reply1("ack", ip) = <<q>>
  BY <1>2 DEF Reply, Reply1, IpOrNone
<1> QED BY <1>1, <1>4, <1>5, AnswerTypes

LEMMA TickTypes ==
  ASSUME TypeOK, Tick
  PROVE  TypeOK'
<1>1. ASSUME NEW c \in Clients PROVE client'[c] \in Client
  <2>1. client[c] \in Client /\ client[c].timeout \in Int /\ client[c].lease_remaining \in Nat
    BY DEF TypeOK, Client
  <2>2. Older(client[c].lease_remaining, 0) \in Nat
    BY <2>1 DEF Older
  <2>3. (IF client[c].timeout = Forever THEN client[c].timeout ELSE client[c].timeout - 1) \in Int
    BY <2>1
  <2>4. \A t \in Int, n \in Nat : [client[c] EXCEPT !.timeout = t, !.lease_remaining = n] \in Client
    BY <2>1 DEF Client
  <2> QED BY <2>2, <2>3, <2>4 DEF Tick
<1>2. client' \in [Clients -> Client]
  <2>1. client' = [c \in Clients |-> client'[c]]
    BY DEF Tick
  <2> QED BY <1>1, <2>1
<1>3. leases' \in Table /\ file' \in Table
  BY AgedTable DEF Tick, TypeOK
<1>4. <<>> \in Seq(Request) /\ <<>> \in Seq(Reply)
  BY EmptySeq
<1>5. toServer' \in [Clients -> Seq(Request)] /\ toClient' \in [Clients -> Seq(Reply)]
  BY <1>4 DEF Tick
<1> QED BY <1>2, <1>3, <1>5 DEF Tick, TypeOK

LEMMA FileSteps ==
  ASSUME TypeOK, write_leases \/ Terminate \/ Crash
  PROVE  /\ leases' \in Table /\ file' \in Table /\ unsaved' \subseteq Clients /\ lost' \subseteq Clients
         /\ UNCHANGED <<toServer, toClient, interface, strangers>>
<1>1. leases \in Table /\ lost \subseteq Clients
  BY DEF TypeOK
<1>2. CASE write_leases
  <2>1. PICK w \in Writes(leases, {}) : WriteTo(w)
    BY <1>2 DEF write_leases
  <2>2. w.file \in Table /\ w.missing \subseteq Clients
    BY <1>1, Written
  <2> QED BY <1>1, <1>2, <2>1, <2>2 DEF write_leases, WriteTo, segment
<1>3. CASE Terminate \/ Crash
  <2>1. PICK w \in Writes(leases, {}) : StartsWith(w)
    BY <1>3, WholeTable DEF Terminate, Crash
  <2> QED BY <1>1, <1>3, <2>1, StartsTypes DEF Terminate, Crash, segment
<1> QED BY <1>2, <1>3

LEMMA ServesTypes ==
  ASSUME TypeOK, NEW c \in Clients, Serves(c)
  PROVE  file' \in Table /\ unsaved' \subseteq Clients /\ lost' \subseteq Clients
<1>1. CASE UNCHANGED <<file, unsaved, lost>>
  BY <1>1 DEF TypeOK
<1>2. ASSUME lost' = lost \ {c}, NEW w \in Writes(leases', {c}), WriteTo(w)
      PROVE  file' \in Table /\ unsaved' \subseteq Clients /\ lost' \subseteq Clients
  <2>1. leases' \in Table /\ lost \subseteq Clients
    BY DEF Serves, TypeOK
  <2> QED BY <1>2, <2>1, Written DEF WriteTo
<1> QED BY <1>1, <1>2 DEF Serves

LEMMA StepTyped ==
  ASSUME TypeOK, [Next]_vars
  PROVE  TypeOK'
<1>1. ASSUME NEW c \in Clients,
             (ClientTimeout(c) \/ ClientReceives(c) \/ ClientSignal(c)) /\ UNCHANGED svars
      PROVE  TypeOK'
  BY <1>1, ClientStepTyped DEF Typed, TypeOK, svars
<1>2. ASSUME NEW c \in Clients, ServerReceives(c), UNCHANGED client PROVE TypeOK'
  BY <1>2, ServerReceivesKeeps, ServesTypes DEF Serves, TypeOK
<1>3. ASSUME NEW c \in Clients, CrashInAck(c), UNCHANGED client PROVE TypeOK'
  BY <1>3, CrashInAckTypes DEF TypeOK
<1>4. CASE (write_leases \/ Terminate \/ Crash) /\ UNCHANGED client
  BY <1>4, FileSteps DEF TypeOK
<1>5. CASE Tick
  BY <1>5, TickTypes
<1>6. ASSUME NEW ip \in Ips, Stranger(ip) PROVE TypeOK'
  BY <1>6 DEF Stranger, TypeOK, svars
<1>7. CASE StrangerLeaves
  BY <1>7 DEF StrangerLeaves, TypeOK, svars
<1>8. ASSUME NEW c \in Clients, Cut(c) PROVE TypeOK'
  BY <1>8 DEF Cut, TypeOK, svars
<1>9. CASE UNCHANGED vars
  BY <1>9 DEF vars, nvars, segment, svars, TypeOK
<1> QED BY <1>1, <1>2, <1>3, <1>4, <1>5, <1>6, <1>7, <1>8, <1>9
     DEF Next, ClientStep, ServerStep, ServerNext

LEMMA InitTyped == Init => TypeOK
<1> SUFFICES ASSUME Init PROVE TypeOK
  OBVIOUS
<1>1. Gone \in Client /\ Restarted(0, NoIp) \in Client
  <2>1. Gone \in Client
    BY DEF Client, Gone, States, Forever, NoIp
  <2>2. NoIp \in IpOrNone /\ 0 \in Int
    BY DEF IpOrNone
  <2> QED BY <2>1, <2>2, ClientTypes
<1>2. client \in [Clients -> Client]
  BY <1>1 DEF Init
<1>3. <<>> \in Seq(Request) /\ <<>> \in Seq(Reply)
  BY EmptySeq
<1>4. toServer \in [Clients -> Seq(Request)] /\ toClient \in [Clients -> Seq(Reply)]
  BY <1>3 DEF Init
<1>5. leases \in Table /\ file \in Table
  BY DEF Init, Table
<1> QED BY <1>2, <1>4, <1>5 DEF Init, TypeOK

(* The packets, leases and clients have their types (struct dyn_lease and  *)
(* client_data): a lease that is over does not get older, the file never   *)
(* holds anything else than leases.                                        *)
THEOREM DhcpTypeCorrect == Spec => []TypeOK
<1> QED BY InitTyped, StepTyped, PTL DEF Spec

-----------------------------------------------------------------------------
(* A client's own step.                                                    *)

Claimant(k) == k.state \in Bound \cup {"REQUESTING"}
Idle(k) == ~Claimant(k) /\ (k.state = "INIT_SELECTING" => k.packet_num = 0)
InterfaceTo(c, a) == interface'[c] = a /\ \A d \in Clients \ {c} : interface'[d] = interface[d]
OthersStay(c) ==
  \A d \in Clients \ {c} : /\ client'[d] = client[d] /\ interface'[d] = interface[d]
                           /\ toServer'[d] = toServer[d] /\ toClient'[d] = toClient[d]

(* The client still agrees with its packets, and uses an address no longer *)
(* than before or than the server has promised.                            *)
Moves(c) ==
  /\ OthersStay(c)
  /\ Local(client'[c], interface'[c], toServer'[c], toClient'[c])
  /\ interface'[c] # NoIp =>
       \/ interface'[c] = interface[c] /\ client'[c].lease_remaining <= client[c].lease_remaining
       \/ /\ Acked(toClient[c], interface'[c]) /\ interface'[c] \in Ips
          /\ client'[c].lease_remaining <= Lease
  /\ \A ip \in Ips : Acked(toClient'[c], ip) => Acked(toClient[c], ip)
  /\ \A ip \in IpOrNone : Declining(toServer'[c], ip)
                             => Declining(toServer[c], ip) \/ Acked(toClient[c], ip)

LEMMA Effects ==
  ASSUME TypeOK, NEW c \in Clients
  PROVE  /\ \A k : Has(c, k) => client'[c] = k /\ \A d \in Clients \ {c} : client'[d] = client[d]
         /\ Deconfig(c) => InterfaceTo(c, NoIp)
         /\ UNCHANGED interface => InterfaceTo(c, interface[c])
         /\ Silent => UNCHANGED <<toServer, toClient>>
         /\ Taken(c) => /\ toClient'[c] = Tail(toClient[c])
                        /\ \A d \in Clients \ {c} : toClient'[d] = toClient[d]
         /\ \A type, ip : Send(c, type, ip) =>
              /\ toServer'[c] = Append(toServer[c], [type |-> type, ip |-> ip, xid |-> TRUE])
              /\ \A d \in Clients \ {c} : toServer'[d] = toServer[d]
              /\ toClient' = toClient
         /\ \A type, ip : SendNew(c, type, ip) =>
              /\ toServer'[c] = Append(Renumbered(toServer[c]), [type |-> type, ip |-> ip, xid |-> TRUE])
              /\ toClient'[c] = <<>>
              /\ \A d \in Clients \ {c} : toServer'[d] = toServer[d] /\ toClient'[d] = toClient[d]
BY DEF TypeOK, Has, Deconfig, InterfaceTo, Silent, Taken, Send, SendNew

LEMMA QueuesTyped ==
  ASSUME TypeOK, NEW c \in Clients
  PROVE  /\ toServer[c] \in Seq(Request) /\ toClient[c] \in Seq(Reply)
         /\ client[c] \in Client /\ client[c].requested_ip \in IpOrNone
         /\ client[c].lease_remaining \in Nat /\ client[c].timeout \in Int
         /\ interface[c] \in IpOrNone
BY DEF TypeOK, Client, IpOrNone

(* The two steps that end in no address: with a new number, and without.   *)
LEMMA MovesAnew ==
  ASSUME TypeOK, NEW c \in Clients, LocalOf(c), NEW k, NEW type \in {"discover", "release", "decline"},
         NEW ip \in IpOrNone, type = "decline" => Acked(toClient[c], ip),
         Has(c, k), SendNew(c, type, ip), InterfaceTo(c, NoIp)
  PROVE  Moves(c)
<1> DEFINE p == [type |-> type, ip |-> ip, xid |-> TRUE]
           s == Renumbered(toServer[c])
<1>1. p \in Request /\ p.type = type /\ p.ip = ip /\ \A i : ~Claim(p, i)
  BY DEF Request, Claim, IpOrNone
<1>2. /\ toServer[c] \in Seq(Request) /\ DeclinesLast(toServer[c])
      /\ type = "decline" => Claiming(toServer[c], ip)
  BY QueuesTyped DEF LocalOf, Local
<1>3. /\ s \in Seq(Request) /\ Ordered(s) /\ \A i \in IpOrNone : ~Fresh(s, i)
      /\ DeclinesLast(s) /\ (type = "decline" => Claiming(s, ip))
      /\ \A i \in IpOrNone : Declining(s, i) => Declining(toServer[c], i)
  BY <1>2, RenumberedSeq
<1>4. /\ client'[c] = k /\ interface'[c] = NoIp /\ toServer'[c] = Append(s, p) /\ toClient'[c] = <<>>
      /\ OthersStay(c)
  BY Effects DEF InterfaceTo, OthersStay
<1> HIDE DEF p, s
<1>5. /\ Ordered(Append(s, p)) /\ DeclinesLast(Append(s, p))
      /\ \A i \in IpOrNone : ~Fresh(Append(s, p), i)
      /\ \A i \in IpOrNone : Declining(Append(s, p), i)
                                => Declining(toServer[c], i) \/ Acked(toClient[c], i)
  BY <1>1, <1>3, Appended
<1>6. \A i \in IpOrNone : ~Acked(<<>>, i)
  BY EmptyQueues
<1>7. Local(k, NoIp, Append(s, p), <<>>)
  BY <1>5, <1>6 DEF Local
<1> QED BY <1>4, <1>5, <1>6, <1>7 DEF Moves, IpOrNone

LEMMA MovesIdle ==
  ASSUME TypeOK, NEW c \in Clients, LocalOf(c), NEW k, Idle(k), Has(c, k), InterfaceTo(c, NoIp),
         Silent \/ (Taken(c) /\ toClient[c] # <<>> /\ UNCHANGED toServer)
  PROVE  Moves(c)
<1>1. /\ client'[c] = k /\ interface'[c] = NoIp /\ toServer'[c] = toServer[c] /\ OthersStay(c)
      /\ toClient'[c] = toClient[c] \/ (toClient'[c] = Tail(toClient[c]) /\ toClient[c] # <<>>)
  BY Effects DEF InterfaceTo, OthersStay
<1>2. \A ip \in IpOrNone : Acked(toClient'[c], ip) => Acked(toClient[c], ip)
  BY <1>1, QueuesTyped, TailReplies
<1>3. \A ip \in IpOrNone : Live(k, ip)
  BY DEF Live, Idle, Claimant
<1>4. Local(k, NoIp, toServer[c], toClient'[c])
  BY <1>2, <1>3 DEF Local, LocalOf
<1> QED BY <1>1, <1>2, <1>4 DEF Moves, IpOrNone

(* It asks for the address it has or was offered.                          *)
LEMMA MovesClaims ==
  ASSUME TypeOK, NEW c \in Clients, LocalOf(c), NEW k, NEW type \in {"select", "renew"},
         Claimant(client[c]), Claimant(k), k.requested_ip = client[c].requested_ip,
         interface[c] # NoIp => /\ k.state \in Bound /\ Timing(k)
                                /\ k.lease_remaining <= client[c].lease_remaining,
         Has(c, k), Send(c, type, client[c].requested_ip), UNCHANGED interface
  PROVE  Moves(c)
<1> DEFINE ip == client[c].requested_ip
           p == [type |-> type, ip |-> ip, xid |-> TRUE]
           s == toServer[c]
<1>1. p \in Request /\ p.type # "decline" /\ ip \in IpOrNone /\ \A i : Claim(p, i) <=> i = ip
  BY QueuesTyped DEF Request, Claim, IpOrNone
<1>2. s \in Seq(Request) /\ toClient[c] \in Seq(Reply) /\ interface[c] \in IpOrNone
  BY QueuesTyped
<1>3. /\ client'[c] = k /\ interface'[c] = interface[c] /\ toServer'[c] = Append(s, p)
      /\ toClient'[c] = toClient[c] /\ OthersStay(c)
  BY Effects DEF InterfaceTo, OthersStay
<1>4. \A i \in IpOrNone : (Live(client[c], i) => i = ip) /\ (Live(k, i) <=> i = ip)
  BY DEF Live, Claimant, Bound
<1> HIDE DEF p, s, ip
<1>5. Local(client[c], interface[c], s, toClient[c])
  BY DEF LocalOf, s
<1>6. /\ Ordered(Append(s, p)) /\ DeclinesLast(Append(s, p))
      /\ \A i \in IpOrNone : Declining(Append(s, p), i) => Declining(s, i)
  BY <1>1, <1>2, <1>4, <1>5, Appended DEF Local
<1>7. \A i \in IpOrNone : Fresh(Append(s, p), i) => Live(k, i)
  BY <1>1, <1>2, <1>4, <1>5, Appended DEF Local
<1>8. \A i \in IpOrNone : Acked(toClient[c], i) => i \in Ips /\ Live(k, i) /\ Claiming(Append(s, p), i)
  BY <1>1, <1>2, <1>4, <1>5, Appended DEF Local
<1>9. interface[c] # NoIp => /\ k.state \in Bound /\ k.requested_ip = interface[c] /\ Timing(k)
                             /\ Claiming(Append(s, p), interface[c])
  BY <1>1, <1>2, <1>5, Appended DEF Local, ip
<1>10. Local(k, interface[c], Append(s, p), toClient[c])
  BY <1>6, <1>7, <1>8, <1>9 DEF Local
<1> QED BY <1>3, <1>6, <1>10 DEF Moves, s

(* It waits for a time with the lease it has.                              *)
LEMMA MovesWaits ==
  ASSUME TypeOK, NEW c \in Clients, LocalOf(c), NEW k,
         Claimant(client[c]), k.state \in Bound, k.requested_ip = client[c].requested_ip,
         interface[c] # NoIp => Timing(k) /\ k.lease_remaining <= client[c].lease_remaining,
         Has(c, k), Silent, UNCHANGED interface
  PROVE  Moves(c)
<1>1. /\ client'[c] = k /\ interface'[c] = interface[c] /\ toServer'[c] = toServer[c]
      /\ toClient'[c] = toClient[c] /\ OthersStay(c)
  BY Effects DEF InterfaceTo, OthersStay
<1>2. \A i \in IpOrNone : Live(client[c], i) => Live(k, i)
  BY DEF Live, Claimant, Bound
<1>3. Local(k, interface[c], toServer[c], toClient[c])
  BY <1>2 DEF Local, LocalOf
<1> QED BY <1>1, <1>3 DEF Moves

(* While it looks for a server, nothing on its way is for it.              *)
LEMMA Searching ==
  ASSUME TypeOK, NEW c \in Clients, LocalOf(c),
         client[c].state = "INIT_SELECTING", client[c].packet_num # 0
  PROVE  /\ interface[c] = NoIp /\ Ordered(toServer[c]) /\ DeclinesLast(toServer[c])
         /\ \A ip \in IpOrNone : ~Acked(toClient[c], ip) /\ ~Fresh(toServer[c], ip)
BY DEF LocalOf, Local, Live, Bound
LEMMA HolderTiming ==
  ASSUME TypeOK, NEW c \in Clients, LocalOf(c), interface[c] # NoIp
  PROVE  client[c].state \in Bound /\ Timing(client[c])
BY DEF LocalOf, Local

LEMMA RebindMoves ==
  ASSUME TypeOK, NEW c \in Clients, LocalOf(c), Claimant(client[c]), Lease >= Thirty,
         NEW k \in Client, k.requested_ip = client[c].requested_ip,
         interface[c] # NoIp => k.lease_remaining <= client[c].lease_remaining,
         RebindOrLose(c, k)
  PROVE  Moves(c)
<1> DEFINE k2 == Sent([k EXCEPT !.state = "REBINDING"])
<1>1. CASE Rebinds(k)
  <2>1. /\ Send(c, "renew", client[c].requested_ip) /\ Has(c, k2) /\ UNCHANGED interface
        /\ k.lease_remaining > 0
    BY <1>1 DEF RebindOrLose, Rebinds
  <2>2. /\ k2.state = "REBINDING" /\ k2.timeout = 1 /\ k2.requested_ip = client[c].requested_ip
        /\ k2.lease_remaining = k.lease_remaining /\ k.lease_remaining \in Nat
    BY DEF Sent, Client, DiscoverTimeout
  <2> HIDE DEF k2
  <2>3. interface[c] # NoIp => Timing(k2)
    BY <2>1, <2>2, HolderTiming, QueuesTyped, DhcpConstants DEF Timing
  <2>4. interface[c] # NoIp => k2.lease_remaining <= client[c].lease_remaining
    BY <2>2
  <2> QED BY <2>1, <2>2, <2>3, <2>4, MovesClaims DEF Claimant, Bound
<1>2. CASE ~Rebinds(k)
  <2>1. /\ Deconfig(c) /\ Has(c, Restarted(0, k.requested_ip)) /\ Silent
    BY <1>2 DEF RebindOrLose
  <2>2. Idle(Restarted(0, k.requested_ip))
    BY DEF Idle, Claimant, Bound, Restarted, Gone
  <2> QED BY <2>1, <2>2, MovesIdle, Effects
<1> QED BY <1>1, <1>2

(* It goes on with the lease that it has.                                  *)
LEMMA UnrenewedMoves ==
  ASSUME TypeOK, NEW c \in Clients, LocalOf(c), Claimant(client[c]), Lease >= Thirty,
         NEW k \in Client, k.requested_ip = client[c].requested_ip,
         interface[c] # NoIp => k.lease_remaining <= client[c].lease_remaining,
         Unrenewed(c, k)
  PROVE  Moves(c)
<1>0. k.lease_remaining \in Nat
  BY DEF Client
<1>1. CASE k.lease_remaining > Thirty
  <2> DEFINE n == BOUND_for_half_lease(k)
  <2>1. /\ n.state = "BOUND" /\ n.requested_ip = k.requested_ip /\ n.lease_remaining = k.lease_remaining
        /\ n.timeout = k.lease_remaining \div 2
    BY DEF BOUND_for_half_lease, Client
  <2>2. k.lease_remaining \div 2 >= 0 /\ (k.lease_remaining \div 2) + 2 <= k.lease_remaining
    BY <1>0, <1>1, SMT DEF Thirty
  <2>3. Has(c, n) /\ Silent /\ UNCHANGED interface
    BY <1>1 DEF Unrenewed
  <2> HIDE DEF n
  <2>4. interface[c] # NoIp => Timing(n) /\ n.lease_remaining <= client[c].lease_remaining
    BY <1>0, <2>1, <2>2, HolderTiming, QueuesTyped, DhcpConstants DEF Timing
  <2> QED BY <2>1, <2>3, <2>4, MovesWaits DEF Bound
<1>2. CASE ~(k.lease_remaining > Thirty)
  <2>1. [k EXCEPT !.packet_num = 0] \in Client
    BY DEF Client
  <2>2. /\ [k EXCEPT !.packet_num = 0].requested_ip = client[c].requested_ip
        /\ [k EXCEPT !.packet_num = 0].lease_remaining = k.lease_remaining
    BY DEF Client
  <2>3. RebindOrLose(c, [k EXCEPT !.packet_num = 0])
    BY <1>2 DEF Unrenewed
  <2> QED BY <2>1, <2>2, <2>3, RebindMoves
<1> QED BY <1>1, <1>2

LEMMA ReleaseMoves ==
  ASSUME TypeOK, NEW c \in Clients, LocalOf(c), NEW state \in {"gone", "RELEASED"},
         perform_release(c, state)
  PROVE  Moves(c)
<1> DEFINE k == [Gone EXCEPT !.state = state,
                             !.requested_ip = IF state = "gone" THEN NoIp ELSE client[c].requested_ip]
<1>1. Has(c, k) /\ InterfaceTo(c, NoIp) /\ (SendNew(c, "release", client[c].requested_ip) \/ Silent)
  BY Effects DEF perform_release
<1>2. Idle(k)
  BY DEF Idle, Claimant, Bound, Gone
<1> HIDE DEF k
<1> QED BY <1>1, <1>2, MovesIdle, MovesAnew, QueuesTyped

(* An ACK ends in a lease that is over later than the next timeout.        *)
LEMMA AckMoves ==
  ASSUME TypeOK, NEW c \in Clients, LocalOf(c), Lease >= Thirty, Ack(c)
  PROVE  Moves(c)
<1> DEFINE ip == Head(toClient[c]).ip
           n == [client[c] EXCEPT !.requested_ip = ip, !.lease_remaining = Sane(Lease)]
           k == BOUND_for_half_lease(n)
<1>1. toClient[c] \in Seq(Reply) /\ toClient[c] # <<>> /\ Head(toClient[c]).type = "ack"
  BY QueuesTyped DEF Ack, Arrives
<1>2. /\ Acked(toClient[c], ip) /\ ip \in IpOrNone
      /\ \A i \in IpOrNone : Acked(Tail(toClient[c]), i) => Acked(toClient[c], i)
  BY <1>1, TailReplies DEF Reply, IpOrNone
<1>3. CASE c \in ArpClients /\ InUse(ip, c)
  BY <1>2, <1>3, Effects, MovesAnew DEF Ack
<1>4. CASE ~(c \in ArpClients /\ InUse(ip, c))
  <2>1. Has(c, k) /\ Taken(c) /\ toServer' = toServer /\ interface' = [interface EXCEPT ![c] = ip]
    BY <1>4 DEF Ack
  <2>2. InterfaceTo(c, ip)
    BY <2>1 DEF InterfaceTo, TypeOK
  <2>3. /\ client'[c] = k /\ toServer'[c] = toServer[c] /\ toClient'[c] = Tail(toClient[c])
        /\ OthersStay(c)
    <3> HIDE DEF k
    <3> QED BY <2>1, <2>2, Effects DEF InterfaceTo, OthersStay
  <2>4. /\ ip \in Ips /\ Live(client[c], ip) /\ Claiming(toServer[c], ip)
        /\ \A i \in IpOrNone : Acked(toClient[c], i) => Live(client[c], i)
        /\ \A i \in IpOrNone : Fresh(toServer[c], i) => Live(client[c], i)
        /\ Ordered(toServer[c]) /\ DeclinesLast(toServer[c])
    BY <1>2 DEF LocalOf, Local
  <2>5. Claimant(client[c])
    BY DEF Ack, Awaits, Is, Claimant, Bound
  <2>6. \A i \in IpOrNone : Live(client[c], i) => i = ip
    BY <2>4, <2>5 DEF Live, Claimant
  <2>7. k.state = "BOUND" /\ k.requested_ip = ip /\ k.lease_remaining = Lease /\ k.timeout = Lease \div 2
    <3>1. Sane(Lease) = Lease
      BY DhcpConstants DEF Sane, Thirty
    <3>2. /\ n.state = client[c].state /\ n.requested_ip = ip /\ n.lease_remaining = Lease
          /\ n \in [state : States, timeout : Int, packet_num : Nat, lease_remaining : {Lease}, requested_ip : {ip}]
      BY <3>1, QueuesTyped DEF Client
    <3> HIDE DEF n
    <3> QED BY <3>2 DEF BOUND_for_half_lease
  <2>8. Timing(k)
    <3>1. Lease \div 2 >= 0 /\ (Lease \div 2) + 2 <= Lease /\ Lease \in Nat
      BY DhcpConstants, SMT DEF Thirty
    <3> HIDE DEF k
    <3> QED BY <2>7, <3>1 DEF Timing
  <2> HIDE DEF k, ip, n
  <2>9. Live(k, ip)
    BY <2>7 DEF Live
  <2>10. Local(k, ip, toServer[c], Tail(toClient[c]))
    BY <1>2, <2>4, <2>6, <2>7, <2>8, <2>9 DEF Local, Bound
  <2> QED BY <1>2, <2>2, <2>3, <2>4, <2>7, <2>10, DhcpConstants DEF Moves, InterfaceTo, IpOrNone
<1> QED BY <1>3, <1>4

LEMMA ClientMoves ==
  ASSUME TypeOK, NEW c \in Clients, LocalOf(c), Lease >= Thirty,
         ClientTimeout(c) \/ ClientReceives(c) \/ ClientSignal(c)
  PROVE  Moves(c)
<1> DEFINE k == client[c]
<1>0. /\ k \in Client /\ k.requested_ip \in IpOrNone /\ k.lease_remaining \in Nat /\ NoIp \in IpOrNone
      /\ toServer[c] \in Seq(Request) /\ toClient[c] \in Seq(Reply)
  BY QueuesTyped DEF IpOrNone
<1>r. \A t, ip : Idle(Restarted(t, ip))
  BY DEF Idle, Claimant, Bound, Restarted, Gone
<1>h. /\ interface[c] # NoIp => Claimant(k)
      /\ interface[c] # NoIp => k.state \in Bound /\ k.timeout <= k.lease_remaining
  BY HolderTiming DEF Claimant, Timing
<1>s. ASSUME NEW state \in {"RENEWING", "RENEW_REQUESTED"}, NEW d \in Client, Claimant(k),
             d.requested_ip = k.requested_ip, StartRenew(c, state, d),
             interface[c] # NoIp => /\ d.lease_remaining <= k.lease_remaining /\ 1 <= d.lease_remaining
                                    /\ state = "RENEWING" => 2 <= d.lease_remaining
      PROVE  Moves(c)
  <2> DEFINE n == [d EXCEPT !.state = state, !.packet_num = 1, !.timeout = DiscoverTimeout]
  <2>1. /\ n.state = state /\ n.lease_remaining = d.lease_remaining /\ n.timeout = 1
        /\ n.requested_ip = k.requested_ip /\ d.lease_remaining \in Nat
    BY <1>s DEF Client, DiscoverTimeout
  <2>2. Has(c, n) /\ Send(c, "renew", client[c].requested_ip) /\ UNCHANGED interface
    BY <1>s DEF StartRenew
  <2> HIDE DEF n
  <2>3. interface[c] # NoIp => n.state \in Bound /\ Timing(n) /\ n.lease_remaining <= client[c].lease_remaining
    BY <1>0, <1>s, <2>1, HolderTiming, DhcpConstants DEF Timing, Bound
  <2> QED BY <1>s, <2>1, <2>2, <2>3, MovesClaims DEF Claimant, Bound
<1>1. CASE Discover(c)
  <2>1. interface[c] = NoIp /\ InterfaceTo(c, NoIp) /\ Has(c, Sent(k))
    BY <1>1, <1>h, Effects DEF Discover, Due, Is, Claimant, Bound
  <2>2. CASE k.packet_num = 0
    BY <1>0, <1>1, <2>1, <2>2, MovesAnew DEF Discover
  <2>3. CASE k.packet_num # 0
    <3> DEFINE p == [type |-> "discover", ip |-> k.requested_ip, xid |-> TRUE]
    <3>1. Send(c, "discover", k.requested_ip)
      BY <1>1, <2>3 DEF Discover
    <3>2. /\ Ordered(toServer[c]) /\ DeclinesLast(toServer[c])
          /\ \A i \in IpOrNone : ~Acked(toClient[c], i) /\ ~Fresh(toServer[c], i)
      BY <1>1, <2>3, Searching DEF Discover, Due, Is
    <3>3. p \in Request /\ p.type # "decline" /\ \A i : ~Claim(p, i)
      BY <1>0 DEF Request, Claim, IpOrNone
    <3>4. /\ client'[c] = Sent(k) /\ interface'[c] = NoIp /\ toServer'[c] = Append(toServer[c], p)
          /\ toClient'[c] = toClient[c] /\ OthersStay(c)
      BY <2>1, <3>1, Effects DEF InterfaceTo, OthersStay
    <3> HIDE DEF p, k
    <3>5. /\ Ordered(Append(toServer[c], p)) /\ DeclinesLast(Append(toServer[c], p))
          /\ \A i \in IpOrNone : /\ ~Fresh(Append(toServer[c], p), i)
                                 /\ Declining(Append(toServer[c], p), i) => Declining(toServer[c], i)
      BY <1>0, <3>2, <3>3, Appended
    <3>6. Local(Sent(k), NoIp, Append(toServer[c], p), toClient[c])
      BY <3>2, <3>5 DEF Local
    <3> QED BY <3>4, <3>5, <3>6 DEF Moves
  <2> QED BY <2>2, <2>3
<1>2. CASE Select(c)
  <2>1. k.state = "REQUESTING" /\ interface[c] = NoIp
    BY <1>2, <1>h DEF Select, Due, Is, Bound
  <2>2. Sent(k).state = "REQUESTING" /\ Sent(k).requested_ip = k.requested_ip
    BY <1>0, <2>1 DEF Sent, Client
  <2>3. Has(c, Sent(k)) /\ Send(c, "select", client[c].requested_ip) /\ UNCHANGED interface
    BY <1>2 DEF Select
  <2> QED BY <2>1, <2>2, <2>3, MovesClaims DEF Claimant
<1>3. CASE LeaseFail(c)
  <2>1. interface[c] = NoIp
    BY <1>3, <1>h DEF LeaseFail, Due, Is, Bound
  <2> QED BY <1>3, <2>1, <1>r, MovesIdle, Effects DEF LeaseFail, Afresh
<1>4. CASE Renew(c)
  <2>1. k.state = "BOUND" /\ k.timeout = 0
    BY <1>4 DEF Renew, Due, Is
  <2>2. interface[c] # NoIp => 2 <= k.lease_remaining
    BY <2>1, HolderTiming DEF Timing
  <2>3. StartRenew(c, "RENEWING", k) \/ Unrenewed(c, k)
    BY <1>4 DEF Renew
  <2>4. Claimant(k)
    BY <2>1 DEF Claimant, Bound
  <2>5. k.requested_ip = client[c].requested_ip /\ k.lease_remaining <= client[c].lease_remaining
    BY <1>0
  <2> HIDE DEF k
  <2>6. CASE StartRenew(c, "RENEWING", k)
    BY <1>0, <1>s, <2>2, <2>4, <2>6
  <2>7. CASE Unrenewed(c, k)
    BY <1>0, <2>4, <2>5, <2>7, UnrenewedMoves DEF k
  <2> QED BY <2>3, <2>6, <2>7
<1>5. CASE NoAnswer(c)
  <2>1. Claimant(k)
    BY <1>5 DEF NoAnswer, Due, Is, Claimant, Bound
  <2> QED BY <1>0, <1>5, <2>1, RebindMoves, UnrenewedMoves DEF NoAnswer
<1>6. CASE Offer(c)
  <2> DEFINE n == [k EXCEPT !.state = "REQUESTING", !.timeout = 0, !.packet_num = 0,
                            !.requested_ip = Head(toClient[c]).ip]
  <2>1. /\ interface[c] = NoIp /\ Ordered(toServer[c]) /\ DeclinesLast(toServer[c])
        /\ \A i \in IpOrNone : ~Acked(toClient[c], i) /\ ~Fresh(toServer[c], i)
    BY <1>0, <1>6, Searching DEF Offer, Is, Client
  <2>2. Has(c, n) /\ Taken(c) /\ UNCHANGED <<toServer, interface>> /\ toClient[c] # <<>>
    BY <1>6 DEF Offer, Arrives
  <2> HIDE DEF n
  <2>3. /\ client'[c] = n /\ interface'[c] = NoIp /\ toServer'[c] = toServer[c]
        /\ toClient'[c] = Tail(toClient[c]) /\ OthersStay(c)
    BY <2>1, <2>2, Effects DEF OthersStay
  <2>4. \A i \in IpOrNone : ~Acked(Tail(toClient[c]), i)
    BY <1>0, <2>1, <2>2, TailReplies
  <2>5. Local(n, NoIp, toServer[c], Tail(toClient[c]))
    BY <2>1, <2>4 DEF Local
  <2> QED BY <2>3, <2>4, <2>5 DEF Moves, IpOrNone
<1>7. CASE Ack(c)
  BY <1>7, AckMoves
<1>8. CASE Nak(c)
  BY <1>8, <1>r, MovesIdle, Effects DEF Nak, Arrives
<1>9. CASE Ignored(c)
  <2>1. Taken(c) /\ UNCHANGED <<toServer, interface, client>> /\ toClient[c] # <<>>
    BY <1>9 DEF Ignored, Arrives
  <2>2. /\ client'[c] = k /\ interface'[c] = interface[c] /\ toServer'[c] = toServer[c]
        /\ toClient'[c] = Tail(toClient[c]) /\ OthersStay(c)
    BY <2>1, Effects DEF OthersStay
  <2>3. \A i \in IpOrNone : Acked(Tail(toClient[c]), i) => Acked(toClient[c], i)
    BY <1>0, <2>1, TailReplies
  <2>4. Local(k, interface[c], toServer[c], Tail(toClient[c]))
    BY <2>3 DEF LocalOf, Local
  <2> QED BY <1>0, <2>2, <2>3, <2>4 DEF Moves, IpOrNone
<1>10. CASE SIGUSR1(c)
  <2> DEFINE n == [k EXCEPT !.lease_remaining = AtMostThirty(k)]
  <2>1. CASE Is(c, {"BOUND", "RENEWING"}) /\ (StartRenew(c, "RENEW_REQUESTED", n) \/ Unrenewed(c, n))
    <3>1. Claimant(k)
      BY <2>1 DEF Is, Claimant, Bound
    <3>2. AtMostThirty(k) \in Nat /\ AtMostThirty(k) <= k.lease_remaining
      BY <1>0 DEF AtMostThirty, Thirty
    <3>3. n \in Client /\ n.requested_ip = k.requested_ip /\ n.lease_remaining = AtMostThirty(k)
      BY <1>0, <3>2 DEF Client
    <3>4. interface[c] # NoIp => 1 <= AtMostThirty(k)
      BY <1>0, <2>1, HolderTiming, QueuesTyped DEF Is, Timing, AtMostThirty, Thirty
    <3> HIDE DEF n
    <3>5. CASE StartRenew(c, "RENEW_REQUESTED", n)
      BY <3>1, <3>2, <3>3, <3>4, <3>5, <1>s
    <3>6. CASE Unrenewed(c, n)
      BY <1>0, <3>1, <3>2, <3>3, <3>6, UnrenewedMoves
    <3> QED BY <2>1, <3>5, <3>6
  <2>2. CASE Deconfig(c) /\ Has(c, Restarted(0, k.requested_ip)) /\ Silent
    BY <2>2, <1>r, MovesIdle, Effects
  <2> QED BY <1>10, <2>1, <2>2 DEF SIGUSR1
<1>11. CASE SIGUSR2(c) \/ SIGTERM(c)
  BY <1>11, ReleaseMoves DEF SIGUSR2, SIGTERM
<1>12. CASE Fail(c) \/ Start(c)
  <2>1. Idle(Gone)
    BY DEF Idle, Claimant, Bound, Gone
  <2> QED BY <1>12, <2>1, <1>r, MovesIdle, Effects DEF Fail, Start
<1> QED BY <1>1, <1>2, <1>3, <1>4, <1>5, <1>6, <1>7, <1>8, <1>9, <1>10, <1>11, <1>12
     DEF ClientTimeout, ClientReceives, ClientSignal
(* A lease for longer does for a shorter time.                             *)
LEMMA GoodForLess ==
  ASSUME NEW t \in Table, NEW c \in Clients, NEW ip \in IpOrNone, NEW m \in Nat, NEW n \in Nat, n <= m,
         Good(t, c, ip, m)
  PROVE  Good(t, c, ip, n)
<1>1. ip \in Ips /\ Some(t, ip) /\ t[ip].mac = c /\ t[ip].left >= m /\ t[ip].left \in Nat \cup {-1}
  BY EntryTypes DEF Good
<1>2. t[ip].left >= n
  BY <1>1
<1> QED BY <1>1, <1>2 DEF Good

LEMMA MovesKeeps ==
  ASSUME IInv, TypeOK', NEW c \in Clients, Moves(c), UNCHANGED svars
  PROVE  IInv'
<1>1. /\ TypeOK /\ \A d \in Clients : LocalOf(d)
      /\ leases' = leases /\ file' = file /\ lost' = lost /\ unsaved' = unsaved
      /\ leases \in Table /\ file \in Table
  BY DEF IInv, svars, TypeOK
<1>2. ASSUME NEW d \in Clients PROVE LocalOf(d)'
  BY <1>1 DEF Moves, OthersStay, LocalOf
<1>3. ASSUME NEW d \in Clients, NEW ip \in IpOrNone, NEW n \in Nat, Needs(d, ip, n)'
      PROVE  \E m \in Nat : Needs(d, ip, m) /\ n <= m
  <2>1. CASE d # c
    BY <1>3, <2>1 DEF Moves, OthersStay, Needs
  <2>2. CASE d = c
    <3>0. client[c].lease_remaining \in Nat /\ Lease \in Nat
      BY <1>1, QueuesTyped, DhcpConstants
    <3>1. CASE interface'[c] # NoIp /\ ip = interface'[c] /\ n = client'[c].lease_remaining
      BY <2>2, <3>0, <3>1 DEF Moves, Needs
    <3>2. CASE Acked(toClient'[c], ip) /\ n = Lease
      <4>1. ip \in Ips
        BY <1>2, <2>2, <3>2 DEF LocalOf, Local
      <4> QED BY <3>0, <3>2, <4>1, <2>2 DEF Moves, Needs
    <3>3. CASE Declining(toServer'[c], ip) /\ n = 0
      BY <3>0, <3>3, <2>2 DEF Moves, Needs
    <3> QED BY <1>3, <2>2, <3>1, <3>2, <3>3 DEF Needs
  <2> QED BY <2>1, <2>2
<1>4. ASSUME NEW d \in Clients, NEW t \in Table, Covered(t, d), NEW ip \in IpOrNone, NEW n \in Nat,
             Needs(d, ip, n)'
      PROVE  Good(t, d, ip, n)
  <2>1. PICK m \in Nat : Needs(d, ip, m) /\ n <= m
    BY <1>3, <1>4
  <2> QED BY <1>4, <2>1, GoodForLess DEF Covered
<1>5. ASSUME NEW d \in Clients \ lost'
      PROVE  Covered(leases, d)' /\ (d \notin unsaved' => Covered(file, d)')
  <2>1. Covered(leases, d) /\ (d \notin unsaved => Covered(file, d))
    BY <1>1, <1>5 DEF IInv
  <2> QED BY <1>1, <1>4, <2>1 DEF Covered
<1> QED BY <1>2, <1>5 DEF IInv
-----------------------------------------------------------------------------
(* A step of the server, and time.                                         *)

(* The only replies that a client could take for an ACK of its claim.      *)
Answers(c, q) ==
  q \in Reply /\ (q.type = "ack" => /\ q.ip = Packet(c).ip /\ q.ip \in Ips
                                    /\ Packet(c).type \in {"select", "renew"})

LEMMA ServedLocal ==
  ASSUME TypeOK, NEW c \in Clients, LocalOf(c), NEW types, Gets(c, types), NEW replies,
         Answer(c, replies), replies = <<>> \/ \E q : Answers(c, q) /\ replies = <<q>>
  PROVE  /\ Local(client[c], interface[c], toServer'[c], toClient'[c])
         /\ \A ip \in IpOrNone : Acked(toClient'[c], ip) =>
              \/ Acked(toClient[c], ip)
              \/ \E q : Answers(c, q) /\ replies = <<q>> /\ q.type = "ack" /\ q.ip = ip
         /\ \A ip \in IpOrNone : Claiming(toServer[c], ip) => Claim(Packet(c), ip)
         /\ \A ip \in IpOrNone : Declining(toServer'[c], ip)
                                    => Declining(toServer[c], ip) /\ Claim(Packet(c), ip)
<1> DEFINE s == toServer[c]
           r == toClient[c]
           k == client[c]
<1>1. s \in Seq(Request) /\ s # <<>> /\ r \in Seq(Reply) /\ Packet(c) = Head(s)
  BY QueuesTyped DEF Gets, Packet
<1>2. toServer'[c] = Tail(s) /\ toClient'[c] = (IF Packet(c).xid THEN r \o replies ELSE r)
  BY AnswerTypes DEF Answers
<1>3. Local(k, interface[c], s, r)
  BY DEF LocalOf
<1> DEFINE New(ip) == Packet(c).xid /\ \E q : Answers(c, q) /\ replies = <<q>> /\ q.type = "ack" /\ q.ip = ip
<1>4. \A ip \in IpOrNone : Acked(toClient'[c], ip) => Acked(r, ip) \/ New(ip)
  <2>1. CASE ~Packet(c).xid \/ replies = <<>>
    BY <2>1, <1>1, <1>2, NoReply
  <2>2. CASE Packet(c).xid /\ \E q : Answers(c, q) /\ replies = <<q>>
    <3>1. PICK q : Answers(c, q) /\ replies = <<q>>
      BY <2>2
    <3>2. q \in Reply /\ toClient'[c] = r \o <<q>>
      BY <1>2, <2>2, <3>1 DEF Answers
    <3> HIDE DEF r
    <3> QED BY <1>1, <2>2, <3>1, <3>2, AnsweredSeq
  <2> QED BY <2>1, <2>2
<1>5. ASSUME NEW ip \in IpOrNone, New(ip) PROVE ip \in Ips /\ Fresh(s, ip) /\ Claiming(s, ip)
  BY <1>1, <1>3, <1>5, TailSeq DEF Answers, Local
<1> HIDE DEF New, s, r, k
<1>6. \A ip \in IpOrNone : Claiming(s, ip) => Claiming(Tail(s), ip) /\ Claim(Packet(c), ip)
  BY <1>1, TailSeq
<1>7. \A ip \in IpOrNone : Acked(toClient'[c], ip) => ip \in Ips /\ Live(k, ip) /\ Claiming(Tail(s), ip)
  BY <1>3, <1>4, <1>5, <1>6 DEF Local
<1>8. /\ Ordered(Tail(s)) /\ DeclinesLast(Tail(s))
      /\ \A ip \in IpOrNone : Fresh(Tail(s), ip) => Live(k, ip)
      /\ \A ip \in IpOrNone : Declining(Tail(s), ip) => Declining(s, ip) /\ Claim(Packet(c), ip)
  BY <1>1, <1>3, TailSeq DEF Local
<1>9. interface[c] # NoIp => /\ k.state \in Bound /\ k.requested_ip = interface[c] /\ Timing(k)
                             /\ Claiming(Tail(s), interface[c])
  BY <1>3, <1>6, QueuesTyped DEF Local
<1>10. Local(k, interface[c], Tail(s), toClient'[c])
  BY <1>7, <1>8, <1>9 DEF Local
<1> QED BY <1>2, <1>4, <1>6, <1>8, <1>10 DEF New, s, r, k

(* What the server does for one client leaves the others covered.          *)
LEMMA OthersCovered ==
  ASSUME IInv, NEW c \in Clients, Serves(c), UNCHANGED client,
         NEW d \in Clients \ {c}, d \notin lost'
  PROVE  Covered(leases, d)' /\ (d \notin unsaved' => Covered(file, d)')
<1>1. TypeOK /\ d \notin lost /\ Covered(leases, d) /\ (d \notin unsaved => Covered(file, d))
  BY DEF IInv, Serves
<1>2. \A ip \in IpOrNone, n \in Nat : Needs(d, ip, n)' => Needs(d, ip, n)
  BY DEF Serves, Needs
<1>3. \A ip \in IpOrNone, n \in Nat : Needs(d, ip, n)' => Good(leases', d, ip, n)
  BY <1>1, <1>2 DEF Serves, Keep, Covered
<1>4. ASSUME d \notin unsaved', NEW ip \in IpOrNone, NEW n \in Nat, Needs(d, ip, n)'
      PROVE  Good(file', d, ip, n)
  <2>1. CASE UNCHANGED <<file, unsaved, lost>>
    BY <1>1, <1>2, <1>4, <2>1 DEF Covered
  <2>2. ASSUME NEW w \in Writes(leases', {c}), WriteTo(w) PROVE Good(file', d, ip, n)
    <3>1. leases' \in Table /\ file' = w.file /\ d \notin w.missing
      BY <1>4, <2>2 DEF Serves, WriteTo
    <3>2. \/ Good(leases', d, ip, n) => Good(w.file, d, ip, n)
          \/ w.file = file /\ d \notin unsaved
      BY <1>1, <3>1, Written
    <3> QED BY <1>1, <1>2, <1>3, <1>4, <3>1, <3>2 DEF Covered
  <2> QED BY <2>1, <2>2 DEF Serves
<1> QED BY <1>3, <1>4 DEF Covered

(* An ACK for c: all that c needs from now on is the lease it is for.      *)
LEMMA AckNeeds ==
  ASSUME TypeOK, NEW c \in Clients, LocalOf(c), Gets(c, {"select", "renew"}), Packet(c).ip \in Of(c),
         Answer(c, Reply1("ack", Packet(c).ip)), UNCHANGED <<interface, client>>
  PROVE  /\ LocalOf(c)'
         /\ \A i \in IpOrNone, n \in Nat : Needs(c, i, n)' => i = Packet(c).ip /\ n <= Lease
<1> DEFINE ip == Packet(c).ip
           q == [type |-> "ack", ip |-> ip]
<1>1. Answer(c, <<q>>) /\ Answers(c, q) /\ ip \in Ips
  BY DEF Answers, Reply, Reply1, Gets, Packet, Of
<1>2. /\ Local(client[c], interface[c], toServer'[c], toClient'[c])
      /\ \A i \in IpOrNone : Claiming(toServer[c], i) => Claim(Packet(c), i)
      /\ \A i \in IpOrNone : Acked(toClient'[c], i) => Acked(toClient[c], i) \/ i = ip
      /\ \A i \in IpOrNone : Declining(toServer'[c], i) => Claim(Packet(c), i)
  BY <1>1, ServedLocal
<1>3. \A i \in IpOrNone : Claim(Packet(c), i) => i = ip
  BY DEF Claim
<1> HIDE DEF q, ip
<1>4. \A i \in IpOrNone : Acked(toClient'[c], i) \/ Declining(toServer'[c], i) => i = ip
  BY <1>2, <1>3 DEF LocalOf, Local
<1>5. interface[c] # NoIp => /\ interface[c] = ip /\ client[c].lease_remaining <= Lease
  BY <1>2, <1>3, QueuesTyped DEF LocalOf, Local, Timing
<1>6. Lease \in Nat
  BY DhcpConstants
<1>7. \A i \in IpOrNone, n \in Nat : Needs(c, i, n)' => i = ip /\ n <= Lease
  BY <1>4, <1>5, <1>6 DEF Needs
<1> QED BY <1>2, <1>7 DEF LocalOf, ip

LEMMA ServerKeeps ==
  ASSUME IInv, TypeOK', NEW c \in Clients, ServerReceives(c), UNCHANGED client
  PROVE  IInv'
<1>0. TypeOK /\ LocalOf(c) /\ Serves(c)
  BY ServerReceivesKeeps DEF IInv
<1> DEFINE Right(d) == Covered(leases, d)' /\ (d \notin unsaved' => Covered(file, d)')
<1>1. ASSUME NEW d \in Clients \ {c} PROVE LocalOf(d)' /\ (d \notin lost' => Right(d))
  <2>1. LocalOf(d)'
    BY <1>0 DEF IInv, Serves, LocalOf
  <2> QED BY <1>0, <2>1, OthersCovered
<1> DEFINE Stays == Local(client[c], interface[c], toServer'[c], toClient'[c])
           Front == \A ip \in IpOrNone : Claiming(toServer[c], ip) => Claim(Packet(c), ip)
<1>2. CASE send_ACK(c)
  <2> DEFINE ip == Packet(c).ip
  <2>1. /\ Gets(c, {"select", "renew"}) /\ ip \in Of(c) /\ Answer(c, Reply1("ack", ip))
        /\ leases' = Added(leases, c, ip, Lease) /\ UNCHANGED interface
        /\ \E w \in Writes(leases', {c}) : WriteTo(w)
    BY <1>2, WholeTable DEF send_ACK, Own
  <2>2. /\ LocalOf(c)' /\ ip \in Ips
        /\ \A i \in IpOrNone, n \in Nat : Needs(c, i, n)' => i = ip /\ n <= Lease
    BY <1>0, <2>1, AckNeeds DEF Of
  <2>3. leases \in Table /\ Lease \in Nat /\ ip \in IpOrNone
    BY <1>0, <2>2, DhcpConstants DEF TypeOK, IpOrNone
  <2>4. leases' \in Table /\ Good(leases', c, ip, Lease)
    BY <2>1, <2>2, <2>3, AddedTable
  <2> HIDE DEF ip
  <2>5. \A i \in IpOrNone, n \in Nat : Needs(c, i, n)' => Good(leases', c, i, n)
    BY <2>2, <2>3, <2>4, GoodForLess
  <2>6. ASSUME c \notin unsaved', NEW i \in IpOrNone, NEW n \in Nat, Needs(c, i, n)'
        PROVE  Good(file', c, i, n)
    <3>1. PICK w \in Writes(leases', {c}) : WriteTo(w)
      BY <2>1
    <3>2. c \notin w.missing /\ file' = w.file
      BY <2>6, <3>1 DEF WriteTo
    <3>3. Good(leases', c, i, n) => Good(w.file, c, i, n)
      BY <1>0, <2>4, <3>2, Written
    <3> QED BY <2>5, <2>6, <3>2, <3>3
  <2>7. Right(c)
    BY <2>5, <2>6 DEF Covered
  <2> QED BY <1>1, <2>2, <2>7 DEF IInv
<1>3. CASE send_NAK(c)
  <2> DEFINE replies == IF Packet(c).type = "select" THEN Reply1("nak", NoIp) ELSE <<>>
  <2>1. /\ Gets(c, {"select", "renew"}) /\ Answer(c, replies)
        /\ UNCHANGED <<interface, leases, file, unsaved, lost>>
    BY <1>3 DEF send_NAK
  <2>2. \A q : replies = <<q>> => q = [type |-> "nak", ip |-> NoIp]
    BY DEF Reply1
  <2>3. replies = <<>> \/ \E q : Answers(c, q) /\ replies = <<q>>
    BY DEF Reply1, Reply, Answers, IpOrNone
  <2> HIDE DEF replies
  <2>4. /\ Stays
        /\ \A ip \in IpOrNone : Declining(toServer'[c], ip) => Declining(toServer[c], ip)
        /\ \A ip \in IpOrNone : Acked(toClient'[c], ip) =>
                   \/ Acked(toClient[c], ip)
                   \/ \E q : Answers(c, q) /\ replies = <<q>> /\ q.type = "ack" /\ q.ip = ip
    BY <1>0, <2>1, <2>3, ServedLocal
  <2>5. \A ip \in IpOrNone, n \in Nat : Needs(c, ip, n)' => Needs(c, ip, n)
    BY <2>1, <2>2, <2>4 DEF Needs
  <2>6. LocalOf(c)' /\ (c \notin lost' => Right(c))
    BY <2>1, <2>4, <2>5 DEF IInv, Covered, LocalOf
  <2> QED BY <1>1, <2>6 DEF IInv
<1>4. CASE send_offer(c) \/ Declined(c) \/ Released(c)
  <2>1. PICK replies : /\ Gets(c, {"discover", "decline", "release"}) /\ Answer(c, replies)
                       /\ replies = <<>> \/ \E ip \in IpOrNone : replies = Reply1("offer", ip)
    <3>1. CASE send_offer(c)
      <4>1. Gets(c, {"discover"}) /\ Packet(c).ip \in IpOrNone
        <5>1. Gets(c, {"discover"})
          BY <3>1 DEF send_offer
        <5>2. toServer[c] \in Seq(Request) /\ toServer[c] # <<>>
          BY <1>0, <5>1, QueuesTyped DEF Gets
        <5>3. Packet(c) \in Request
          BY <5>2, TailSeq DEF Packet
        <5> QED BY <5>1, <5>3 DEF Request, IpOrNone
      <4>2. PICK choice \in Choices(c, Packet(c).ip) :
              Answer(c, IF choice.ip = NoIp THEN <<>> ELSE Reply1("offer", choice.ip))
        BY <3>1 DEF send_offer
      <4>3. choice.ip # NoIp => choice.ip \in IpOrNone
        BY <1>0, <4>1, ChoiceIsFree DEF IpOrNone
      <4>4. Gets(c, {"discover", "decline", "release"})
        BY <4>1 DEF Gets
      <4> QED BY <4>2, <4>3, <4>4
    <3>2. CASE Declined(c) \/ Released(c)
      BY <3>2 DEF Declined, Released, Gets
    <3> QED BY <1>4, <3>1, <3>2
  <2>2. \A q : replies = <<q>> => q.type # "ack"
    BY <2>1 DEF Reply1
  <2>3. replies = <<>> \/ \E q : Answers(c, q) /\ replies = <<q>>
    BY <2>1 DEF Reply1, Reply, Answers, IpOrNone
  <2>4. /\ Stays /\ Front
        /\ \A ip \in IpOrNone : Declining(toServer'[c], ip) => Claim(Packet(c), ip)
        /\ \A ip \in IpOrNone : Acked(toClient'[c], ip) =>
                   \/ Acked(toClient[c], ip)
                   \/ \E q : Answers(c, q) /\ replies = <<q>> /\ q.type = "ack" /\ q.ip = ip
    BY <1>0, <2>1, <2>3, ServedLocal
  <2>5. \A ip \in IpOrNone : ~Claiming(toServer[c], ip)
    BY <2>1, <2>4 DEF Gets, Packet, Claim
  <2>6. interface[c] = NoIp /\ \A ip \in IpOrNone : ~Acked(toClient[c], ip)
    BY <1>0, <2>5, QueuesTyped DEF LocalOf, Local
  <2>7. \A ip \in IpOrNone : ~Acked(toClient'[c], ip) /\ ~Declining(toServer'[c], ip)
    BY <2>1, <2>2, <2>4, <2>6 DEF Gets, Packet, Claim
  <2>8. interface' = interface
    BY <1>0 DEF Serves
  <2>9. LocalOf(c)' /\ \A ip \in IpOrNone, n \in Nat : ~Needs(c, ip, n)'
    BY <2>4, <2>6, <2>7, <2>8 DEF Needs, LocalOf
  <2>10. Right(c)
    BY <2>9 DEF Covered
  <2> QED BY <1>1, <2>9, <2>10 DEF IInv
<1> QED BY <1>2, <1>3, <1>4 DEF ServerReceives
(* A new start: the table is what the file holds.                          *)
LEMMA StartsKeeps ==
  ASSUME TypeOK, NEW t \in Table, NEW new \in SUBSET Clients, NEW w \in Writes(t, new), StartsWith(w),
         NEW d \in Clients \ lost',
         \A ip \in IpOrNone, n \in Nat : Needs(d, ip, n)' => Good(t, d, ip, n),
         d \notin unsaved \cup new =>
           \A ip \in IpOrNone, n \in Nat : Needs(d, ip, n)' => Good(file, d, ip, n)
  PROVE  Covered(leases, d)' /\ Covered(file, d)'
<1>1. file' = w.file /\ leases' \in Read(w.file) /\ w.file \in Table /\ d \notin w.missing
  BY StartsTypes, Written
<1>2. \A ip \in IpOrNone, n \in Nat : Needs(d, ip, n)' => Good(w.file, d, ip, n)
  BY <1>1, Written
<1>3. \A ip \in IpOrNone, n \in Nat : Needs(d, ip, n)' => Good(leases', d, ip, n)
  BY <1>1, <1>2, ReadTable
<1> QED BY <1>1, <1>2, <1>3 DEF Covered

LEMMA CrashInAckKeeps ==
  ASSUME IInv, TypeOK', NEW c \in Clients, CrashInAck(c), UNCHANGED client
  PROVE  IInv'
<1> DEFINE ip == Packet(c).ip
           t == Added(leases, c, ip, Lease)
<1>1. /\ Gets(c, {"select", "renew"}) /\ ip \in Of(c) /\ Answer(c, Reply1("ack", ip))
      /\ \E w \in Writes(t, {c}) : StartsWith(w)
      /\ UNCHANGED interface
  BY DEF CrashInAck, Own
<1>2. TypeOK /\ leases \in Table /\ Lease \in Nat /\ ip \in Ips /\ ip \in IpOrNone
  BY <1>1, DhcpConstants DEF IInv, TypeOK, Of, IpOrNone
<1>3. /\ LocalOf(c)'
      /\ \A i \in IpOrNone, n \in Nat : Needs(c, i, n)' => i = ip /\ n <= Lease
  BY <1>1, AckNeeds DEF IInv
<1>4. /\ toServer' \in [Clients -> Seq(Request)]
      /\ \A d \in Clients \ {c} : toServer'[d] = toServer[d] /\ toClient'[d] = toClient[d]
  <2>1. \E q \in Reply : Reply1("ack", ip) = <<q>>
    BY <1>2 DEF Reply, Reply1, IpOrNone
  <2> QED BY <1>1, <1>2, <2>1, AnswerTypes
<1>5. t \in Table /\ Good(t, c, ip, Lease) /\ Keep(leases, t, c)
  <2>1. \A m \in (Clients \cup {Nobody}) \ {c} : ~Good(leases, m, ip, 0)
    BY <1>1 DEF Of, Good
  <2>2. Keep(leases, leases, c)
    BY DEF Keep
  <2> QED BY <1>2, <2>1, <2>2, AddedTable
<1>6. PICK w \in Writes(t, {c}) : StartsWith(w)
  BY <1>1
<1> HIDE DEF t, ip
<1>7. lost' = lost \cup w.missing
  BY <1>6 DEF StartsWith
<1>8. ASSUME NEW d \in Clients PROVE LocalOf(d)'
  BY <1>1, <1>3, <1>4 DEF IInv, LocalOf
<1>9. ASSUME NEW d \in Clients \ lost' PROVE Covered(leases, d)' /\ Covered(file, d)'
  <2>1. CASE d = c
    <3>1. \A i \in IpOrNone, n \in Nat : Needs(c, i, n)' => Good(t, c, i, n)
      BY <1>2, <1>3, <1>5, GoodForLess
    <3> QED BY <1>2, <1>5, <1>6, <1>9, <2>1, <3>1, StartsKeeps
  <2>2. CASE d # c
    <3>1. \A i \in IpOrNone, n \in Nat : Needs(d, i, n)' => Needs(d, i, n)
      BY <1>1, <1>4, <2>2 DEF Needs
    <3>2. Covered(leases, d) /\ (d \notin unsaved => Covered(file, d))
      BY <1>7, <1>9 DEF IInv
    <3>3. \A i \in IpOrNone, n \in Nat : Needs(d, i, n)' => Good(t, d, i, n)
      BY <1>5, <2>2, <3>1, <3>2 DEF Covered, Keep
    <3>4. d \notin unsaved => \A i \in IpOrNone, n \in Nat : Needs(d, i, n)' => Good(file, d, i, n)
      BY <3>1, <3>2 DEF Covered
    <3> QED BY <1>2, <1>5, <1>6, <1>9, <3>3, <3>4, StartsKeeps
  <2> QED BY <2>1, <2>2
<1> QED BY <1>8, <1>9 DEF IInv

LEMMA FileKeeps ==
  ASSUME IInv, TypeOK', write_leases \/ Terminate \/ Crash, UNCHANGED client
  PROVE  IInv'
<1>0. TypeOK /\ leases \in Table /\ UNCHANGED <<toServer, toClient, interface>>
  BY FileSteps DEF IInv, TypeOK
<1>1. ASSUME NEW d \in Clients PROVE LocalOf(d)'
  BY <1>0 DEF IInv, LocalOf
<1>2. ASSUME NEW d \in Clients PROVE \A ip \in IpOrNone, n \in Nat : Needs(d, ip, n)' => Needs(d, ip, n)
  BY <1>0 DEF Needs
<1>3. CASE write_leases
  <2>1. PICK w \in Writes(leases, {}) : WriteTo(w)
    BY <1>3 DEF write_leases
  <2>2. leases' = leases /\ lost' = lost /\ file' = w.file /\ unsaved' = w.missing
    BY <1>3, <2>1 DEF write_leases, WriteTo
  <2>3. ASSUME NEW d \in Clients \ lost
        PROVE  Covered(leases, d)' /\ (d \notin w.missing => Covered(file, d)')
    <3>1. Covered(leases, d) /\ (d \notin unsaved => Covered(file, d))
      BY <2>3 DEF IInv
    <3>2. d \notin w.missing => \/ \A ip \in IpOrNone, n \in Nat : Good(leases, d, ip, n) => Good(w.file, d, ip, n)
                                \/ w.file = file /\ d \notin unsaved
      BY <1>0, <2>1, Written
    <3> QED BY <1>2, <2>2, <3>1, <3>2 DEF Covered
  <2> QED BY <1>1, <2>2, <2>3 DEF IInv
<1>4. CASE Terminate \/ Crash
  <2>1. PICK w \in Writes(leases, {}) : StartsWith(w)
    BY <1>4, WholeTable DEF Terminate, Crash
  <2>2. lost' = lost \cup w.missing
    BY <2>1 DEF StartsWith
  <2>3. ASSUME NEW d \in Clients \ lost' PROVE Covered(leases, d)' /\ Covered(file, d)'
    <3>1. Covered(leases, d) /\ (d \notin unsaved => Covered(file, d))
      BY <2>2, <2>3 DEF IInv
    <3>2. \A ip \in IpOrNone, n \in Nat : Needs(d, ip, n)' => Good(leases, d, ip, n)
      BY <1>2, <3>1 DEF Covered
    <3>3. d \notin unsaved => \A ip \in IpOrNone, n \in Nat : Needs(d, ip, n)' => Good(file, d, ip, n)
      BY <1>2, <3>1 DEF Covered
    <3> QED BY <1>0, <2>1, <2>3, <3>2, <3>3, StartsKeeps
  <2> QED BY <1>1, <2>3 DEF IInv
<1> QED BY <1>3, <1>4

LEMMA TickKeeps ==
  ASSUME IInv, TypeOK', Tick
  PROVE  IInv'
<1> SUFFICES ASSUME NEW c \in Clients
             PROVE  /\ LocalOf(c)'
                    /\ c \notin lost' => Covered(leases, c)' /\ (c \notin unsaved' => Covered(file, c)')
  BY DEF IInv
<1> DEFINE k == client[c]
           m == client'[c]
           a == interface[c]
<1>0. TypeOK /\ Local(k, a, toServer[c], toClient[c])
  BY DEF IInv, LocalOf
<1>1. /\ toServer'[c] = <<>> /\ toClient'[c] = <<>> /\ interface'[c] = a /\ k.timeout # 0
      /\ leases' = Aged(leases, -1) /\ file' = Aged(file, 0) /\ unsaved' = unsaved /\ lost' = lost
      /\ leases \in Table /\ file \in Table
  BY <1>0 DEF Tick, TypeOK
<1>2. k \in Client /\ k.timeout \in Int /\ k.lease_remaining \in Nat /\ a \in IpOrNone
  BY <1>0, QueuesTyped
<1>3. /\ m.state = k.state /\ m.requested_ip = k.requested_ip
      /\ m.timeout = IF k.timeout = Forever THEN Forever ELSE k.timeout - 1
      /\ m.lease_remaining = Older(k.lease_remaining, 0)
  BY <1>2 DEF Tick, Client
<1> HIDE DEF k, m, a
<1>4. a # NoIp => /\ m.state \in Bound /\ m.requested_ip = a /\ Timing(m)
                  /\ m.lease_remaining \in Nat /\ k.lease_remaining = m.lease_remaining + 1
  BY <1>0, <1>1, <1>2, <1>3, DhcpConstants DEF Local, Timing, Older, Forever
<1>5. Local(m, a, <<>>, <<>>)
  BY <1>2, <1>4, EmptyQueues DEF Local
<1>6. \A ip \in IpOrNone, n \in Nat : Needs(c, ip, n)' => Needs(c, ip, n + 1)
  <2>1. \A ip \in IpOrNone : ~Acked(toClient'[c], ip) /\ ~Declining(toServer'[c], ip)
    BY <1>1, EmptyQueues
  <2> QED BY <1>1, <1>4, <2>1 DEF Needs, a, k, m
<1>7. ASSUME NEW t \in Table, NEW over \in {-1, 0}, Covered(t, c), NEW ip \in IpOrNone, NEW n \in Nat,
             Needs(c, ip, n)'
      PROVE  Good(Aged(t, over), c, ip, n)
  <2>1. n + 1 \in Nat /\ Good(t, c, ip, n + 1)
    BY <1>6, <1>7 DEF Covered
  <2> QED BY <2>1, AgedTable
<1>8. ASSUME c \notin lost' PROVE Covered(leases, c)' /\ (c \notin unsaved' => Covered(file, c)')
  <2>1. Covered(leases, c) /\ (c \notin unsaved => Covered(file, c))
    BY <1>1, <1>8 DEF IInv
  <2> QED BY <1>1, <1>7, <2>1 DEF Covered
<1> QED BY <1>1, <1>5, <1>8 DEF LocalOf, m

LEMMA RestKeeps ==
  ASSUME IInv, TypeOK', UNCHANGED <<toServer, toClient, interface, client, svars>>
  PROVE  IInv'
BY DEF IInv, LocalOf, Covered, Needs, svars

LEMMA StepKeeps ==
  ASSUME Lease >= Thirty, IInv, [Next]_vars
  PROVE  IInv'
<1>0. TypeOK /\ TypeOK' /\ \A c \in Clients : LocalOf(c)
  BY StepTyped DEF IInv
<1>1. ASSUME NEW c \in Clients,
             (ClientTimeout(c) \/ ClientReceives(c) \/ ClientSignal(c)) /\ UNCHANGED svars
      PROVE  IInv'
  <2>1. Moves(c)
    BY <1>0, <1>1, ClientMoves
  <2> QED BY <1>0, <1>1, <2>1, MovesKeeps
<1>2. ASSUME NEW c \in Clients, ServerReceives(c), UNCHANGED client PROVE IInv'
  BY <1>0, <1>2, ServerKeeps
<1>3. ASSUME NEW c \in Clients, CrashInAck(c), UNCHANGED client PROVE IInv'
  BY <1>0, <1>3, CrashInAckKeeps
<1>4. CASE (write_leases \/ Terminate \/ Crash) /\ UNCHANGED client
  BY <1>0, <1>4, FileKeeps
<1>5. CASE Tick
  BY <1>0, <1>5, TickKeeps
<1>6. ASSUME NEW ip \in Ips, Stranger(ip) PROVE IInv'
  BY <1>0, <1>6, RestKeeps DEF Stranger
<1>7. CASE StrangerLeaves
  BY <1>0, <1>7, RestKeeps DEF StrangerLeaves
<1>8. ASSUME NEW c \in Clients, Cut(c) PROVE IInv'
  BY <1>0, <1>8, RestKeeps DEF Cut
<1>9. CASE UNCHANGED vars
  BY <1>0, <1>9, RestKeeps DEF vars, nvars, segment
<1> QED BY <1>1, <1>2, <1>3, <1>4, <1>5, <1>6, <1>7, <1>8, <1>9
     DEF Next, ClientStep, ServerStep, ServerNext

LEMMA InitKeeps == Init => IInv
<1> SUFFICES ASSUME Init PROVE IInv
  OBVIOUS
<1>1. ASSUME NEW c \in Clients PROVE LocalOf(c) /\ \A ip \in IpOrNone, n \in Nat : ~Needs(c, ip, n)
  <2>1. toServer[c] = <<>> /\ toClient[c] = <<>> /\ interface[c] = NoIp
    BY DEF Init
  <2> QED BY <2>1, EmptyQueues DEF LocalOf, Local, Needs, IpOrNone
<1> QED BY <1>1, InitTyped DEF IInv, Covered

(* A client's packets and its state agree, and the server's table and its  *)
(* file have the leases that the clients count on: see Local and Covered.  *)
(* Of the table this is so for each client whose lease has not been lost   *)
(* by a new start of udhcpd, of the file for each of these whose lease the *)
(* last writes have brought into it; writes may fail or be cut anywhere.   *)
THEOREM DhcpInvariant ==
  ASSUME Lease >= Thirty
  PROVE  Spec => []IInv
<1>1. IInv /\ [Next]_vars => IInv'
  BY StepKeeps
<1> QED BY <1>1, InitKeeps, PTL DEF Spec

(* If a lease is not shorter than the thirty seconds that a client takes   *)
(* it for at least (udhcpc_main), the address that a client uses is leased *)
(* to it for as long as the client believes, whatever packets are lost and *)
(* whoever is started again: but for the clients whose lease udhcpd has    *)
(* lost by a new start from a file that lacks it, since write_leases had   *)
(* failed or been cut, and whom it has sent no ACK since.                  *)
THEOREM UsedIsLeased ==
  ASSUME Lease >= Thirty
  PROVE  Spec => []HeldIsLeased
<1>1. IInv => HeldIsLeased
  <2> SUFFICES ASSUME IInv, NEW c \in Clients \ lost, interface[c] # NoIp
               PROVE  /\ Own(c, interface[c])
                      /\ leases[interface[c]].left >= client[c].lease_remaining
    BY DEF HeldIsLeased
  <2>1. interface[c] \in IpOrNone /\ client[c].lease_remaining \in Nat
    BY QueuesTyped DEF IInv
  <2>2. Good(leases, c, interface[c], client[c].lease_remaining)
    BY <2>1 DEF IInv, Covered, Needs
  <2> QED BY <2>2 DEF Good, Own, Of
<1> QED BY <1>1, DhcpInvariant, PTL

(* As long as udhcpd runs, an address that was found in use is given to    *)
(* nobody until the time for that is over; and when a client declines the  *)
(* address that it got, its lease is still there to be taken from it,      *)
(* unless that has been lost.                                              *)
THEOREM ReservedIsKept ==
  ASSUME Lease >= Thirty
  PROVE  Spec => ReservedStays
<1>1. ASSUME TypeOK, Next, Runs PROVE Keeps
  <2> SUFFICES ASSUME NEW ip \in Reserved(leases), leases[ip].left >= 0
               PROVE  ip \in Reserved(leases')
    BY DEF Keeps
  <2>1. leases \in Table /\ ip \in IpOrNone /\ Good(leases, Nobody, ip, 0)
    BY <1>1 DEF Reserved, Good, IpOrNone, TypeOK
  <2>2. CASE UNCHANGED leases
    BY <2>2
  <2>3. ASSUME NEW c \in Clients, ServerReceives(c) PROVE ip \in Reserved(leases')
    <3>1. Keep(leases, leases', c)
      BY <1>1, <2>3, ServerReceivesKeeps DEF Serves
    <3>2. Good(leases', Nobody, ip, 0)
      BY <2>1, <3>1, DhcpConstants DEF Keep
    <3> QED BY <3>2 DEF Reserved, Good
  <2>4. CASE Tick
    BY <2>4, <2>1, AgedTable DEF Tick
  <2> QED BY <1>1, <2>2, <2>3, <2>4
       DEF Runs, Next, ClientStep, ServerStep, ServerNext, Stranger, StrangerLeaves, Cut, svars, write_leases
<1>2. ASSUME IInv PROVE Heeds
  <2> SUFFICES ASSUME NEW c \in Clients \ lost, Declined(c) PROVE Packet(c).ip \in Reserved(leases')
    BY DEF Heeds
  <2> DEFINE ip == Packet(c).ip
             new == [mac |-> Nobody, left |-> DeclineTime]
  <2>1. /\ Gets(c, {"decline"}) /\ leases \in Table
        /\ leases' = IF Own(c, ip) THEN [leases EXCEPT ![ip] = new] ELSE leases
    BY <1>2 DEF Declined, IInv, TypeOK
  <2>2. Declining(toServer[c], ip) /\ ip \in IpOrNone
    <3>1. toServer[c] \in Seq(Request) /\ toServer[c] # <<>> /\ Packet(c) = Head(toServer[c])
      BY <1>2, <2>1, QueuesTyped DEF IInv, Gets, Packet
    <3>2. Packet(c) \in Request /\ Declining(toServer[c], ip)
      BY <2>1, <3>1, TailSeq DEF Gets, Packet
    <3> QED BY <3>2 DEF Request, IpOrNone
  <2> HIDE DEF ip
  <2>3. Good(leases, c, ip, 0)
    BY <1>2, <2>2 DEF IInv, Covered, Needs
  <2>4. ip \in Ips /\ Own(c, ip) /\ new # NoLease
    BY <2>3, LeaseTypes, ServerConstants DEF Good, Own, Of
  <2>5. leases'[ip] = new
    BY <2>1, <2>4 DEF Table
  <2> QED BY <2>4, <2>5 DEF Reserved, Some, ip
<1>3. IInv /\ [Next]_vars => [Runs => Keeps /\ Heeds]_vars
  BY <1>1, <1>2 DEF IInv
<1> QED BY <1>3, DhcpInvariant, PTL DEF Spec, ReservedStays
=============================================================================
