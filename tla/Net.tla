--------------------------------- MODULE Net ---------------------------------
(* The network stack (net/): ARP resolution with its cache, ping, UDP send   *)
(* and poll, each a loop over try_recv with a deadline.  The network is      *)
(* external: what the stack sends may be lost, a host's reply may be delayed,*)
(* repeated, reordered or lost.                                              *)
EXTENDS Virtio

CONSTANTS Hosts,     \* addresses of other hosts
          HostMacs,  \* the pairs <<host, hardware address>> hosts announce
          ARP_MAX,   \* entries of ArpTable
          SEQ_MOD,   \* icmp_seq wraps here (2^16)
          Patience,  \* ticks until a deadline
          MaxPings   \* bound: pings; below SEQ_MOD

ASSUME NetAssumption ==
    /\ ARP_MAX \in Nat \ {0} /\ Patience \in Nat
    /\ HostMacs \subseteq Hosts \X (Nat \ {0})
    /\ MaxPings \in Nat /\ SEQ_MOD \in Nat /\ MaxPings < SEQ_MOD

VARIABLES arp,       \* arp_cache: sequence of <<ip, mac>>
          net_pc,    \* "idle", "arp" (arp_resolve) or "echo" (ping's second loop)
          target,    \* the host the running call asks for
          purpose,   \* and what for: "ping" or "udp"
          left,      \* ticks left before the deadline
          pings,     \* echo requests built so far; icmp_seq is pings % SEQ_MOD
          asked,     \* requests the stack put on the wire
          result,    \* what the last call returned: [ok, ping], ping = 0 for a datagram
          heard      \* history: host -> hardware address of its last ARP reply read

netVars == <<arp, net_pc, target, purpose, left, pings, asked, result, heard>>
Nothing == 0   \* no host, no address
Nobody == [ok |-> FALSE, ping |-> 0]

NetInit ==
    /\ arp = << >> /\ net_pc = "idle" /\ target = Nothing /\ purpose = "none"
    /\ left = 0 /\ pings = 0 /\ asked = {} /\ result = Nobody
    /\ heard = [h \in Hosts |-> Nothing]

----------------------------------------------------------------------------
(* ArpTable.                                                                *)

arp_lookup(t, ip) ==
    LET hits == {i \in 1 .. Len(t) : t[i][1] = ip}
    IN IF hits = {} THEN Nothing ELSE t[CHOOSE i \in hits : \A j \in hits : i <= j][2]

\* Updates the entry in place, appends, or pushes the oldest one out.
arp_insert(t, ip, mac) ==
    IF arp_lookup(t, ip) # Nothing
    THEN [i \in 1 .. Len(t) |-> IF t[i][1] = ip THEN <<ip, mac>> ELSE t[i]]
    ELSE Append(IF Len(t) < ARP_MAX THEN t ELSE Tail(t), <<ip, mac>>)

Learn(f) == /\ arp' = arp_insert(arp, f.ip, f.mac)
            /\ heard' = [heard EXCEPT ![f.ip] = f.mac]

----------------------------------------------------------------------------
(* Frames: ARP requests and replies, echo requests and replies, UDP.        *)

Packet(kind, ip, mac, ping) == [kind |-> kind, ip |-> ip, mac |-> mac, ping |-> ping]

\* What may arrive: a host's ARP reply to our request, a reply to an echo request
\* that reached it, and frames of other kinds (an ARP request, a datagram).
OnTheWire ==
    {Packet("arp_reply", a[1], a[2], 0) :
          a \in {b \in HostMacs : Packet("arp_request", b[1], 0, 0) \in asked}}
      \cup {Packet("echo_reply", f.ip, 0, f.ping) : f \in {g \in asked : g.kind = "echo_request"}}
      \cup {Packet("other", 0, 0, 0)}

NetReceive == \E f \in OnTheWire : DeviceReceive(f) /\ UNCHANGED netVars

----------------------------------------------------------------------------
(* The calls.  One step of a loop reads at most one frame and then looks at  *)
(* the clock.                                                                *)

\* The call is over: its locals are gone.
Return(r) == /\ net_pc' = "idle" /\ result' = r
             /\ left' = 0 /\ target' = Nothing /\ purpose' = "none"
Continue == UNCHANGED <<net_pc, result, left, target, purpose>>
OrGiveUp == IF left = 0 THEN Return(Nobody) ELSE Continue

\* What ping and udp_send do once they have the hardware address.  udp_send
\* returns whether the card took the frame in time, ping does not look.
WithMac(mac, what, ip) ==
    \/ /\ what = "ping" /\ net_pc' = "echo" /\ left' = Patience
       /\ target' = Nothing /\ purpose' = "none" /\ result' = Nobody
       /\ pings' = pings + 1
       /\ asked' = asked \cup {Packet("echo_request", ip, mac, pings + 1)}
    \/ /\ what = "udp" /\ \E sent \in BOOLEAN : Return([ok |-> sent, ping |-> 0])
       /\ UNCHANGED <<pings, asked>>

\* ping and udp_send up to arp_resolve's cache arp_lookup and its request.
Call(what, ip) ==
    /\ net_pc = "idle" /\ (what = "ping" => pings < MaxPings)
    /\ \/ arp_lookup(arp, ip) # Nothing /\ WithMac(arp_lookup(arp, ip), what, ip)
       \/ /\ arp_lookup(arp, ip) = Nothing
          /\ net_pc' = "arp" /\ left' = Patience /\ target' = ip /\ purpose' = what
          /\ asked' = asked \cup {Packet("arp_request", ip, 0, 0)}
          /\ result' = Nobody /\ UNCHANGED pings
    /\ UNCHANGED <<arp, heard, rxVars>>

\* arp_resolve's loop: anything but an ARP reply is thrown away.
arp_resolve ==
    /\ net_pc = "arp"
    /\ \/ /\ HasFrame /\ NextFrame.kind = "arp_reply" /\ try_recv /\ Learn(NextFrame)
          /\ \/ NextFrame.ip = target /\ WithMac(NextFrame.mac, purpose, target)
             \/ NextFrame.ip # target /\ OrGiveUp /\ UNCHANGED <<pings, asked>>
       \/ /\ HasFrame /\ NextFrame.kind # "arp_reply" /\ try_recv /\ OrGiveUp
          /\ UNCHANGED <<arp, heard, pings, asked>>
       \/ /\ ~HasFrame /\ left = 0 /\ Return(Nobody)
          /\ UNCHANGED <<arp, heard, pings, asked, rxVars>>

\* parse_frame learns from an ARP reply.  Its answer to an ARP request for our
\* address makes no host reply, so nothing of it is kept.
parse_frame(f) ==
    \/ f.kind = "arp_reply" /\ Learn(f)
    \/ f.kind # "arp_reply" /\ UNCHANGED <<arp, heard>>

\* A plausible bug: any echo reply will do.
IsReply_AnySeq(f) == f.kind = "echo_reply"

\* The reply ping waits for: the sequence number of this call.
IsReply(f) == f.kind = "echo_reply" /\ f.ping % SEQ_MOD = pings % SEQ_MOD

\* ping's second loop.
ping ==
    /\ net_pc = "echo"
    /\ \/ /\ HasFrame /\ try_recv /\ parse_frame(NextFrame)
          /\ \/ IsReply(NextFrame) /\ Return([ok |-> TRUE, ping |-> NextFrame.ping])
             \/ ~IsReply(NextFrame) /\ OrGiveUp
       \/ ~HasFrame /\ left = 0 /\ Return(Nobody) /\ UNCHANGED <<arp, heard, rxVars>>
    /\ UNCHANGED <<pings, asked>>

\* poll: one frame, between calls.
poll ==
    /\ net_pc = "idle" /\ HasFrame /\ try_recv /\ parse_frame(NextFrame)
    /\ UNCHANGED <<net_pc, target, purpose, left, pings, asked, result>>

\* The timer interrupt, as far as the deadlines see it.
NetTick ==
    /\ net_pc # "idle" /\ left > 0 /\ left' = left - 1
    /\ UNCHANGED <<arp, net_pc, target, purpose, pings, asked, result, heard, rxVars>>

NetNext ==
    \/ \E what \in {"ping", "udp"}, ip \in Hosts : Call(what, ip)
    \/ arp_resolve \/ ping \/ poll \/ NetTick \/ NetReceive

NetSpec == post_rx_all /\ NetInit /\ [][NetNext]_<<rxVars, netVars>>

----------------------------------------------------------------------------
(* A ping succeeds only on a reply to its own echo request, however late the *)
(* replies to earlier pings come.                                            *)
PingsMatchReplies ==
    result.ok /\ result.ping # 0 => result.ping = pings

(* The cache holds each host once, with the address of the last ARP reply    *)
(* the stack read from it, whichever of the loops read it.                   *)
ArpCacheTruthful ==
    /\ Len(arp) <= ARP_MAX
    /\ \A i \in 1 .. Len(arp) : arp[i][2] = heard[arp[i][1]]
    /\ \A i, j \in 1 .. Len(arp) : arp[i][1] = arp[j][1] => i = j

(* Every call returns, whatever the network does: the deadline ends both     *)
(* loops as long as the timer ticks and the loop runs.                       *)
NetCallsReturn == net_pc # "idle" ~> net_pc = "idle"

(* The stack believes only what a host said: answers belong to their         *)
(* questions, and the cache to the last answer.                              *)
AnswersAreGenuine == PingsMatchReplies /\ ArpCacheTruthful
=============================================================================
