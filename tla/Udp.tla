--------------------------------- MODULE Udp ---------------------------------
(***************************************************************************)
(* stdlib/runtime_ffi.c sections 18b, 18b-ii and 18c: UDP handles over     *)
(* IPv4, IPv6 and dual-stack sockets, the family-independent peer address  *)
(* NurlUdpAddr with its two conversions, and the lists a lookup returns.   *)
(*                                                                         *)
(* A host has one IPv4 and one IPv6 address (and port); the kernel's side  *)
(* (which sockaddr a socket may send to, and how a source is reported) is  *)
(* modelled from how the code uses it: a fresh AF_INET6 socket can be made *)
(* to serve IPv4 too.  Left out: the text of the last peer a handle keeps  *)
(* (connect, recv_from).                                                   *)
(***************************************************************************)
EXTENDS Integers, Sequences, FiniteSets, SequencesExt

CONSTANTS
    Sockets,      \* the handles of the program, one host each
    Answers,      \* bound: the addresses a lookup may return, as sequences
    MaxSends      \* bound: datagrams sent

VARIABLES
    strict,    \* the kernel takes a sockaddr of the socket's own family only
    noV6,      \* the kernel has no IPv6
    sk,        \* sk[u]: the kernel's socket
    h,         \* h[u]: the NurlUdp
    inbox,     \* inbox[u]: datagrams queued: [from, over, sa]
    known,     \* known[u]: the NurlUdpAddr u was given last, if any
    answer,    \* the addresses a resolver gave, in its order
    lines,     \* what nurl_dns_resolve made of them
    sends

vars == <<strict, noV6, sk, h, inbox, known, answer, lines, sends>>

NoSocket == [fam |-> 0, wild |-> FALSE, v6only |-> TRUE, to |-> "none"]
NewHandle == [open |-> FALSE, freed |-> FALSE, err |-> "other", family |-> 0]

Init ==
    /\ strict \in BOOLEAN /\ noV6 \in BOOLEAN
    /\ sk = [u \in Sockets |-> NoSocket] /\ h = [u \in Sockets |-> NewHandle]
    /\ inbox = [u \in Sockets |-> <<>>] /\ known = [u \in Sockets |-> {}]
    /\ answer = <<>> /\ lines = <<>> /\ sends = 0

\* A sockaddr: its family, whose address, of which IP version (a 4 in an
\* AF_INET6 sockaddr is a v4-mapped address).
Sa(fam, who, ip) == [fam |-> fam, who |-> who, ip |-> ip]

-----------------------------------------------------------------------------
(* The kernel, as the code relies on it.                                   *)

\* The traffic a socket may send to `sa` is IPv4 or IPv6; 0: sendto fails.
Route(u, sa) ==
    CASE sk[u].fam = 4 -> IF sa.fam = 4 THEN 4 ELSE 0
      [] sk[u].fam = 6 /\ sa.fam = 6 -> IF sa.ip = 6 THEN 6 ELSE IF sk[u].v6only THEN 0 ELSE 4
      [] sk[u].fam = 6 /\ sa.fam = 4 -> IF strict \/ sk[u].v6only THEN 0 ELSE 4
      [] OTHER -> 0
Hears(w, over) == sk[w].fam = over \/ (sk[w].fam = 6 /\ ~sk[w].v6only)
\* A source as the receiving socket reports it.
Source(u, over, w) == Sa(sk[w].fam, u, over)

-----------------------------------------------------------------------------
(* The address codec.                                                      *)

\* A v4-mapped source kept as the IPv6 address it looks like.
RawFromSa(sa) == [family |-> sa.fam, who |-> sa.who, ip |-> sa.ip]
\* nurl__udp_addr_from_sa: a v4-mapped source is an IPv4 one.
FromSa(sa) == [family |-> sa.ip, who |-> sa.who, ip |-> sa.ip]

\* An IPv4 address handed to any socket as it is.
PlainToSa(a, family) == IF a.family = 6 /\ family = 4 THEN {} ELSE {Sa(a.family, a.who, a.ip)}
\* nurl__udp_addr_to_sa: mapped for an AF_INET6 socket; none for an IPv6
\* address on an IPv4 socket.
ToSa(a, family) ==
    CASE a.family = 4 -> {Sa(IF family = 6 THEN 6 ELSE 4, a.who, a.ip)}
      [] a.family = 6 /\ family = 4 -> {}
      [] OTHER -> {Sa(6, a.who, a.ip)}

-----------------------------------------------------------------------------
(* nurl_udp_bind.                                                          *)

Bound(u, fam, wild, v6only) ==
    /\ sk' = [sk EXCEPT ![u] = [NoSocket EXCEPT !.fam = fam, !.wild = wild, !.v6only = v6only]]
    /\ h' = [h EXCEPT ![u] = [@ EXCEPT !.open = TRUE, !.err = "ok", !.family = fam]]

\* A wildcard bind that leaves IPV6_V6ONLY as the system has it.
V6onlyBind(u) ==
    /\ ~h[u].open /\ ~h[u].freed /\ h[u].err = "other"
    /\ IF noV6 THEN Bound(u, 4, TRUE, TRUE) ELSE Bound(u, 6, TRUE, TRUE)
    /\ UNCHANGED <<strict, noV6, inbox, known, answer, lines, sends>>
\* The wildcard: one AF_INET6 socket for both families, or the IPv4
\* wildcard where there is no IPv6 or its bind fails; a literal: its own family.
BindWildcard(u) ==
    /\ ~h[u].open /\ ~h[u].freed /\ h[u].err = "other"
    /\ \/ ~noV6 /\ Bound(u, 6, TRUE, FALSE)
       \/ Bound(u, 4, TRUE, TRUE)
       \/ h' = [h EXCEPT ![u].err = "bind"] /\ UNCHANGED sk
    /\ UNCHANGED <<strict, noV6, inbox, known, answer, lines, sends>>
BindLiteral(u, fam) ==
    /\ ~h[u].open /\ ~h[u].freed /\ h[u].err = "other"
    /\ IF fam = 6 /\ noV6
       THEN h' = [h EXCEPT ![u].err = "bind"] /\ UNCHANGED sk
       ELSE Bound(u, fam, FALSE, TRUE)
    /\ UNCHANGED <<strict, noV6, inbox, known, answer, lines, sends>>

-----------------------------------------------------------------------------
(* Sending and receiving.  An operation on a closed handle fails.          *)

Fails(u, why) == h' = [h EXCEPT ![u].err = why]
Closed(u) == /\ ~h[u].open /\ ~h[u].freed /\ h[u].err \in {"ok", "closed", "write", "bind"}
             /\ Fails(u, "closed")
             /\ UNCHANGED <<strict, noV6, sk, inbox, known, answer, lines, sends>>

\* sendto: lost, or queued at every socket that hears it and is not
\* connected elsewhere.
SendSa(u, sa) ==
    LET over == Route(u, sa) IN
    IF over = 0 THEN Fails(u, "write") /\ UNCHANGED inbox
    ELSE /\ h' = [h EXCEPT ![u].err = "ok"]
         /\ \/ UNCHANGED inbox
            \/ /\ Hears(sa.who, over) /\ h[sa.who].open /\ sk[sa.who].to \in {"none", u}
               /\ inbox' = [inbox EXCEPT ![sa.who] =
                              Append(@, [from |-> u, over |-> over, sa |-> Source(u, over, sa.who)])]
Sending(u) == /\ h[u].open /\ sends < MaxSends /\ sends' = sends + 1
              /\ UNCHANGED <<strict, noV6, sk, known, answer, lines>>

\* nurl_udp_send_to: the first address the resolver has, of either family.
SendTo(u, v, ip) == Sending(u) /\ SendSa(u, Sa(ip, v, ip))
\* nurl_udp_send on a connected socket.
Send(u) == Sending(u) /\ sk[u].to # "none"
           /\ SendSa(u, Sa(sk[u].fam, sk[u].to, IF Hears(sk[u].to, 4) /\ ~(sk[u].fam = 6 /\ sk[u].v6only) THEN 4 ELSE 6))
\* nurl_udp_send_addr, to an address the program was given.
SendAddr(u, a) ==
    /\ Sending(u)
    /\ IF ToSa(a, h[u].family) = {} THEN Fails(u, "write") /\ UNCHANGED inbox
       ELSE \E sa \in ToSa(a, h[u].family) : SendSa(u, sa)

\* nurl_udp_connect; a refused one leaves the socket as it was.
Connect(u, v, ip) ==
    /\ h[u].open /\ u # v
    /\ IF Route(u, Sa(ip, v, ip)) = 0 THEN Fails(u, "other") /\ UNCHANGED sk
       ELSE /\ sk' = [sk EXCEPT ![u].to = v]
            /\ h' = [h EXCEPT ![u].err = "ok"]
    /\ UNCHANGED <<strict, noV6, inbox, known, answer, lines, sends>>

\* recvfrom takes the oldest datagram; nurl_udp_recv_into also hands out
\* its source as a NurlUdpAddr.
Taken(u) ==
    /\ h[u].open /\ inbox[u] # <<>>
    /\ inbox' = [inbox EXCEPT ![u] = Tail(@)] /\ h' = [h EXCEPT ![u].err = "ok"]
    /\ UNCHANGED <<strict, noV6, sk, answer, lines, sends>>
RecvFrom(u) == Taken(u) /\ UNCHANGED known
RecvInto(u) == Taken(u) /\ known' = [known EXCEPT ![u] = {FromSa(Head(inbox[u]).sa)}]
\* nurl_udp_addr_resolve: a peer's address by name, of either family.
AddrResolve(u, v, ip) ==
    /\ h[u].open /\ known' = [known EXCEPT ![u] = {FromSa(Sa(ip, v, ip))}]
    /\ UNCHANGED <<strict, noV6, sk, h, inbox, answer, lines, sends>>

\* nurl_udp_join_group / leave_group: on a closed handle the error is Other.
JoinGroup(u) ==
    /\ ~h[u].freed /\ h[u].err # "other"
    /\ IF h[u].open THEN \E e \in {"ok", "other"} : Fails(u, e) ELSE Fails(u, "other")
    /\ UNCHANGED <<strict, noV6, sk, inbox, known, answer, lines, sends>>

\* nurl_udp_shutdown closes the descriptor and keeps the handle, which
\* nurl_udp_close frees.
Shutdown(u) ==
    /\ h[u].open /\ h' = [h EXCEPT ![u].open = FALSE, ![u].err = "closed"]
    /\ sk' = [sk EXCEPT ![u] = NoSocket] /\ inbox' = [inbox EXCEPT ![u] = <<>>]
    /\ UNCHANGED <<strict, noV6, known, answer, lines, sends>>
Close(u) ==
    /\ ~h[u].freed /\ h' = [h EXCEPT ![u] = [NewHandle EXCEPT !.freed = TRUE]]
    /\ sk' = [sk EXCEPT ![u] = NoSocket] /\ inbox' = [inbox EXCEPT ![u] = <<>>]
    /\ UNCHANGED <<strict, noV6, known, answer, lines, sends>>

-----------------------------------------------------------------------------
(* nurl_dns_resolve, nurl_dns_resolve_port.                                *)

\* A duplicate kept when another address comes between.
AdjacentSeen(out, a) == out # <<>> /\ Last(out) = a
\* nurl__dns_seen
Seen(out, a) == a \in ToSet(out)
DnsLines(addrs) == FoldLeft(LAMBDA out, a : IF Seen(out, a) THEN out ELSE Append(out, a), <<>>, addrs)
DnsResolve ==
    /\ answer = <<>> /\ sends = 0 /\ (\A u \in Sockets : h[u] = NewHandle)
    /\ \E s \in Answers : answer' = s /\ lines' = DnsLines(s)
    /\ UNCHANGED <<strict, noV6, sk, h, inbox, known, sends>>

Next ==
    \/ DnsResolve
    \/ answer = <<>> /\ \E u \in Sockets :
         \/ BindWildcard(u) \/ (\E f \in {4, 6} : BindLiteral(u, f)) \/ Closed(u)
         \/ Send(u) \/ JoinGroup(u) \/ Shutdown(u) \/ Close(u)
         \/ (\E a \in known[u] : SendAddr(u, a)) \/ RecvFrom(u) \/ RecvInto(u)
         \/ \E v \in Sockets \ {u}, ip \in {4, 6} : SendTo(u, v, ip) \/ Connect(u, v, ip) \/ AddrResolve(u, v, ip)

Spec == Init /\ [][Next]_vars

-----------------------------------------------------------------------------
\* The address of a datagram's source, given back to send_addr on the same
\* socket, reaches the sender: on IPv4, IPv6 and dual-stack sockets alike.
ReplyReachesSender ==
    \A u \in Sockets : \A d \in ToSet(inbox[u]) :
        \E sa \in ToSa(FromSa(d.sa), h[u].family) : sa.who = d.from /\ Route(u, sa) = d.over

\* "The address a program sees never depends on which socket family
\* happened to receive it": a source's NurlUdpAddr is the one a lookup of the
\* peer gives.  The text of a handle's peer is not so: it is made of
\* the sockaddr, and names an IPv4 peer of a dual-stack socket in mapped form.
OnePeerOneAddr ==
    \A u \in Sockets : \A d \in ToSet(inbox[u]), a \in known[u] :
        (a.who = d.from /\ a.ip = d.over) => a = FromSa(d.sa)

\* A wildcard bind that succeeded serves the IPv4 peers too.
WildcardServesIPv4 == \A u \in Sockets : sk[u].wild => Hears(u, 4)

\* A lookup lists every address once, at its first place in the answer.
DnsListExact ==
    /\ ToSet(lines) = ToSet(answer)
    /\ \A i, j \in DOMAIN lines : i < j =>
         \E k \in DOMAIN answer : answer[k] = lines[i]
                                  /\ \A n \in DOMAIN answer : answer[n] = lines[j] => k < n
    /\ Len(lines) = Cardinality(ToSet(answer))

\* "A later call on it reports NetClosed": after udp_close.
ClosedReported == \A u \in Sockets : (~h[u].open /\ ~h[u].freed) => h[u].err # "other" \/ h[u] = NewHandle
=============================================================================
