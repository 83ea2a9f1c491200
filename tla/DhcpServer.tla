----------------------------- MODULE DhcpServer -----------------------------
(***************************************************************************)
(* udhcpd of BusyBox: one packet after the other, a table of leases and a  *)
(* file of them from which it starts.  No static leases, BOOTP or INFORM,  *)
(* and max_leases is the number of addresses.                              *)
(*                                                                         *)
(* The table gives each address its lease.  Of expires only the time that  *)
(* is left counts, -1 when it is over.  The file is read within 12 hours.  *)
(***************************************************************************)
EXTENDS DhcpNet

CONSTANTS
  NoLease,
  OfferTime, ConflictTime, DeclineTime   \* in ticks

ASSUME ServerConstants ==
  OfferTime \in Nat /\ ConflictTime \in Nat /\ DeclineTime \in Nat

VARIABLES
  leases, file,
  unsaved,   \* clients whose lease is not in the file: a write failed
  lost       \* clients whose lease udhcpd has lost by a new start since

svars == <<leases, file, unsaved, lost>>

Leases == [mac : Clients \cup {Nobody}, left : Nat \cup {-1}]
ASSUME LeaseConstants == NoLease \notin Leases
Table == [Ips -> Leases \cup {NoLease}]

Some(t, ip) == t[ip] # NoLease
Expired(t, ip) == t[ip].left < 0
Of(c) == {ip \in Ips : Some(leases, ip) /\ leases[ip].mac = c}

(* add_lease: others of the same client are cleared, for a conflict none.  *)
Added(t, mac, ip, time) ==
  [i \in Ips |-> CASE i = ip -> [mac |-> mac, left |-> time]
                   [] i # ip /\ mac # Nobody /\ Some(t, i) /\ t[i].mac = mac -> NoLease
                   [] OTHER -> t[i]]

-----------------------------------------------------------------------------
(* find_free_or_expired_nip: the first address without a lease that is not *)
(* in use, or the one that is expired for the longest time, if it is not   *)
(* in use; what is in use becomes a conflict lease.                        *)

Unleased == {ip \in Ips : ~Some(leases, ip)}
Free(c) == {ip \in Unleased : ~InUse(ip, c) /\ \A j \in Unleased : j < ip => InUse(j, c)}
Conflicts(ips) == [i \in Ips |-> IF i \in ips THEN [mac |-> Nobody, left |-> ConflictTime]
                                              ELSE leases[i]]
Tried(c) == {ip \in Unleased : \A f \in Free(c) : ip < f}
\* mutation: the oldest lease is taken even if it is not over
NotNewest == {ip \in Ips : Some(leases, ip) /\ \A j \in Ips : Some(leases, j) => leases[ip].left <= leases[j].left}
Oldest == {ip \in Ips : Some(leases, ip) /\ Expired(leases, ip)}

(* The address for c, and the table with the conflicts that were found.    *)
Found(c) ==
  IF Free(c) # {} THEN {[ip |-> ip, table |-> Conflicts(Tried(c))] : ip \in Free(c)}
  ELSE IF Oldest = {} THEN {[ip |-> NoIp, table |-> Conflicts(Unleased)]}
  ELSE {IF InUse(ip, c) THEN [ip |-> NoIp, table |-> Conflicts(Unleased \cup {ip})]
                         ELSE [ip |-> ip, table |-> Conflicts(Unleased)] : ip \in Oldest}

Available(ip) == ip # NoIp /\ (Some(leases, ip) => Expired(leases, ip))
Choices(c, ip) ==
  CASE Of(c) # {}   -> {[ip |-> i, table |-> leases] : i \in Of(c)}
    [] Of(c) = {} /\ Available(ip) -> {[ip |-> ip, table |-> leases]}
    [] OTHER        -> Found(c)

-----------------------------------------------------------------------------
(* Packets.                                                                *)

Gets(c, types) == c \notin cut /\ toServer[c] # <<>> /\ Head(toServer[c]).type \in types
Packet(c) == Head(toServer[c])
Answer(c, replies) ==
  /\ toServer' = [toServer EXCEPT ![c] = Tail(@)]
  /\ toClient' = IF Packet(c).xid
                 THEN [toClient EXCEPT ![c] = @ \o replies]
                 ELSE toClient

Reply1(type, ip) == <<[type |-> type, ip |-> ip]>>

send_offer(c) ==
  /\ Gets(c, {"discover"})
  /\ \E choice \in Choices(c, Packet(c).ip) :
       IF choice.ip = NoIp
       THEN leases' = choice.table /\ Answer(c, <<>>)
       ELSE /\ leases' = Added(choice.table, c, choice.ip, OfferTime)
            /\ Answer(c, Reply1("offer", choice.ip))
  /\ UNCHANGED <<interface, strangers, cut, events, file, unsaved, lost>>

(* write_leases writes the time that is left.  It empties the file first   *)
(* and writes one lease after the other without a look at what write says: *)
(* any of them may be missing, or all if udhcpd ends before.  If the file  *)
(* cannot be opened it stays as it is.  A lease is written or not: half a  *)
(* lease, and what comes after it, is left out.                            *)
Saved(t) == [i \in Ips |-> IF Some(t, i) /\ Expired(t, i) THEN [t[i] EXCEPT !.left = 0] ELSE t[i]]
Owners(t, ips) == {c \in Clients : \E i \in ips : Some(t, i) /\ t[i].mac = c}
Part(t, kept) == [file    |-> [i \in Ips |-> IF i \in kept THEN Saved(t)[i] ELSE NoLease],
                  missing |-> Owners(t, Ips \ kept)]
Whole(t) == Part(t, Ips)
Unopened(new) == [file |-> file, missing |-> unsaved \cup new]   \* new: whose lease is new
Writes(t, new) == {Part(t, kept) : kept \in SUBSET Ips} \cup {Unopened(new)}

WriteTo(w) == file' = w.file /\ unsaved' = w.missing

\* mutation: it does not matter whose lease it is
Anybodys(c, ip) == ip \in Ips /\ Some(leases, ip)
Own(c, ip) == ip \in Of(c)

(* The ACK is sent, then the lease is added and written.                   *)
send_ACK(c) ==
  /\ Gets(c, {"select", "renew"})
  /\ Own(c, Packet(c).ip)
  /\ Answer(c, Reply1("ack", Packet(c).ip))
  /\ leases' = Added(leases, c, Packet(c).ip, Lease)
  /\ lost' = lost \ {c}
  /\ \/ WriteTo(Whole(leases')) /\ UNCHANGED events
     \/ Event /\ \E w \in Writes(leases', {c}) : WriteTo(w)
  /\ UNCHANGED <<interface, strangers, cut>>

(* A client that renews gets no answer if it has no lease.                 *)
send_NAK(c) ==
  /\ Gets(c, {"select", "renew"})
  /\ ~Own(c, Packet(c).ip)
  /\ Answer(c, IF Packet(c).type = "select" THEN Reply1("nak", NoIp) ELSE <<>>)
  /\ UNCHANGED <<interface, strangers, cut, events, leases, file, unsaved, lost>>

Declined(c) ==
  /\ Gets(c, {"decline"})
  /\ Answer(c, <<>>)
  /\ leases' = IF Own(c, Packet(c).ip)
               THEN [leases EXCEPT ![Packet(c).ip] = [mac |-> Nobody, left |-> DeclineTime]]
               ELSE leases
  /\ UNCHANGED <<interface, strangers, cut, events, file, unsaved, lost>>

Released(c) ==
  /\ Gets(c, {"release"})
  /\ Answer(c, <<>>)
  /\ leases' = IF Own(c, Packet(c).ip) THEN [leases EXCEPT ![Packet(c).ip].left = 0] ELSE leases
  /\ UNCHANGED <<interface, strangers, cut, events, file, unsaved, lost>>

ServerReceives(c) == send_offer(c) \/ send_ACK(c) \/ send_NAK(c) \/ Declined(c) \/ Released(c)

-----------------------------------------------------------------------------
(* The file.                                                               *)

(* Every auto_time seconds, and on SIGUSR1.                                *)
write_leases ==
  /\ Event
  /\ \E w \in Writes(leases, {}) : WriteTo(w)
  /\ UNCHANGED <<segment, leases, lost>>

(* read_leases clears, for each conflict lease, those it has read already  *)
(* (all of them have the same MAC): the last one stays.                    *)
Reserved(t) == {ip \in Ips : Some(t, ip) /\ t[ip].mac = Nobody}
Read(t) ==
  IF Reserved(t) = {} THEN {t}
  ELSE {[i \in Ips |-> IF i \in Reserved(t) \ {ip} THEN NoLease ELSE t[i]] : ip \in Reserved(t)}

(* udhcpd ends and is started again, by now.                               *)
StartsWith(w) ==
  /\ Event
  /\ file' = w.file /\ leases' \in Read(file')
  /\ unsaved' = {} /\ lost' = lost \cup w.missing

(* SIGTERM: it writes its leases first.                                    *)
Terminate == StartsWith(Whole(leases)) /\ UNCHANGED segment

(* It is killed, at any time or while it writes.                           *)
Crash == /\ \E w \in Writes(leases, {}) : StartsWith(w)
         /\ UNCHANGED segment

(* It is killed when it has sent an ACK: the lease is not added, not       *)
(* written yet, or the file is written in part.                            *)
CrashInAck(c) ==
  /\ Gets(c, {"select", "renew"})
  /\ Own(c, Packet(c).ip)
  /\ Answer(c, Reply1("ack", Packet(c).ip))
  /\ \E w \in Writes(Added(leases, c, Packet(c).ip, Lease), {c}) : StartsWith(w)
  /\ UNCHANGED <<interface, strangers, cut>>

ServerNext == (\E c \in Clients : ServerReceives(c) \/ CrashInAck(c))
                \/ write_leases \/ Terminate \/ Crash

\* mutation: time goes on when the lease is over
GoesOn(n, over) == n - 1
Older(n, over) == IF n > over THEN n - 1 ELSE over
Aged(t, over) == [i \in Ips |-> IF Some(t, i) THEN [t[i] EXCEPT !.left = Older(@, over)] ELSE NoLease]
=============================================================================
