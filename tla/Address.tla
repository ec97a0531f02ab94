------------------------------ MODULE Address ------------------------------
(***************************************************************************)
(* Two functions on bytes: which target address the client reads from a    *)
(* socks5 request (Socks5Client.ParseHeader), and which addresses count as *)
(* private (checkAddrPrivite): those the client visits itself and the      *)
(* server declines.  Beside them stands what they should compute: what a   *)
(* socks5 request and the three private networks are defined to be.        *)
(***************************************************************************)
EXTENDS Integers, Sequences

Byte == {n \in Nat : n < 256}
Port16 == {n \in Nat : n < 65536}

-----------------------------------------------------------------------------
(* Private addresses.                                                      *)

IPv4 == [1 .. 4 -> Byte]

\* bytes.Compare(x, y) <= 0.  Both are 16 bytes long; the first twelve are the
\* same for all IPv4 addresses.
NotAbove(x, y) ==
  \/ x = y
  \/ \E k \in 1 .. 4 : x[k] < y[k] /\ \A j \in 1 .. k - 1 : x[j] = y[j]

priviteIps ==
  {[ip1 |-> <<10, 0, 0, 0>>, ip2 |-> <<10, 255, 255, 255>>],
   [ip1 |-> <<172, 16, 0, 0>>, ip2 |-> <<172, 31, 255, 255>>],
   [ip1 |-> <<192, 168, 0, 0>>, ip2 |-> <<192, 168, 255, 255>>]}

\* ip is an IPv4 address, or anything else for an IPv6 address.
checkIpPrivite(ip) ==
  \/ ip = <<127, 0, 0, 1>>
  \/ /\ ip \in IPv4
     /\ \E p \in priviteIps : NotAbove(p.ip1, ip) /\ NotAbove(ip, p.ip2)

\* upIPs: what net.LookupIP returns for the host.
checkAddrPrivite(upIPs) == \E ip \in upIPs : checkIpPrivite(ip)

\* The networks 10.0.0.0/8, 172.16.0.0/12 and 192.168.0.0/16.
InPrivateNet(ip) ==
  \/ ip[1] = 10
  \/ ip[1] = 172 /\ ip[2] \div 16 = 1
  \/ ip[1] = 192 /\ ip[2] = 168

-----------------------------------------------------------------------------
(* The socks5 request.                                                     *)

BufferSize == 1024

\* The array that conn.Read filled with the bytes r.
Buffer(r) == [i \in 0 .. BufferSize - 1 |-> IF i < Len(r) THEN r[i + 1] ELSE 0]

\* Where DST.ADDR starts, and how long it is, by ATYP (buffer[3]).
AddrStart(b) == IF b[3] = 3 THEN 5 ELSE 4
AddrLen(b) ==
  IF b[3] = 1 THEN 4 ELSE IF b[3] = 4 THEN 16 ELSE IF b[3] = 3 THEN b[4] ELSE 0

\* The bytes of the host, and the port, which is taken from the end of what was
\* read; fewer than six bytes are "not a socks protocol".
Host(r) == [j \in 1 .. AddrLen(Buffer(r)) |-> Buffer(r)[AddrStart(Buffer(r)) + j - 1]]
Port(r) == Buffer(r)[Len(r) - 2] * 256 + Buffer(r)[Len(r) - 1]
ParseHeader(r) ==
  IF Len(r) < 6 THEN [err |-> "not a socks protocol"]
                ELSE [err |-> "nil", host |-> Host(r), port |-> Port(r)]

\* A request to connect, as RFC 1928 lays it out.
Request(atyp, addr, port) ==
  (IF atyp = 3 THEN <<5, 1, 0, 3, Len(addr)>> ELSE <<5, 1, 0, atyp>>)
    \o addr \o <<port \div 256, port % 256>>

\* The addresses of each type.
Addr(atyp) ==
  {a \in Seq(Byte) :
     /\ atyp = 1 => Len(a) = 4
     /\ atyp = 4 => Len(a) = 16
     /\ atyp = 3 => Len(a) \in Byte \ {0}}
=============================================================================
