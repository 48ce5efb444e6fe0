---------------------------- MODULE WGAddresses ----------------------------
(***************************************************************************)
(* Socket addresses and name lookups of Sources/Win32/wg_winsock.c.        *)
(*                                                                         *)
(* Windows and BSD lay a sockaddr out differently: a family of two bytes   *)
(* at offset 0 there, a length byte and a family byte here; the port and   *)
(* the address lie at the same offsets.  A sockaddr is modelled as its     *)
(* first two bytes and what follows them.                                  *)
(*                                                                         *)
(* A lookup writes its results into a scratch region of guest memory, from *)
(* the same base each time.  Memory is a function from the addresses       *)
(* written so far to the structures written there.                         *)
(***************************************************************************)
EXTENDS Integers, Sequences

CONSTANTS
    HostAddresses,  \* port and address, opaque
    MaxResults,     \* bound: results of one lookup
    MaxBuffer       \* bound: bytes of a guest buffer

ASSUME AddressesAssumption == MaxResults \in Nat /\ MaxBuffer \in Nat

VARIABLES
    scratch,        \* guest memory of the region
    found,          \* history: what the host's resolver returned last
    hostent,        \* history: the address gethostbyname resolved last, or <<>>
    peer,           \* the sockaddr of the host's socket
    guestBuffer     \* what getpeername left in the guest's buffer

addrVars == <<scratch, found, hostent, peer, guestBuffer>>

WIN_AF_INET  == 2
WIN_AF_INET6 == 23
AF_INET      == 2
AF_INET6     == 30
WG_GAI_BASE  == 11534336    \* 0x00B00000
HB           == 12517376    \* 0x00BF0000
Loopback     == "127.0.0.1"

SizeOf(family) == IF family = AF_INET6 THEN 28 ELSE 16
Families       == {AF_INET, AF_INET6}

\* A sockaddr of the host, and of the guest (little-endian family).
BsdSockaddr(family, rest) == [b0 |-> SizeOf(family), b1 |-> family, rest |-> rest]
WinFamily(sa)             == sa.b0 + 256 * sa.b1

-----------------------------------------------------------------------------
(* Conversion.                                                             *)

\* Mutant of read_sockaddr: the copy alone, without the family.
read_sockaddr_raw(sa) == sa

\* The bytes are copied; then the two known families get the BSD length and
\* family, any other its low byte as the family.
read_sockaddr(sa) ==
    CASE WinFamily(sa) = WIN_AF_INET  -> [sa EXCEPT !.b0 = 16, !.b1 = AF_INET]
      [] WinFamily(sa) = WIN_AF_INET6 -> [sa EXCEPT !.b0 = 28, !.b1 = AF_INET6]
      [] OTHER                        -> [sa EXCEPT !.b1 = WinFamily(sa) % 256]

\* The Windows layout of a host sockaddr.
ToWindows(sa) ==
    CASE sa.b1 = AF_INET  -> [sa EXCEPT !.b0 = WIN_AF_INET, !.b1 = 0]
      [] sa.b1 = AF_INET6 -> [sa EXCEPT !.b0 = WIN_AF_INET6, !.b1 = 0]
      [] OTHER            -> sa

\* getpeername and getsockname: as much as fits is copied, and the guest is told
\* the whole length.
write_sockaddr(sa, buflen) ==
    LET wlen == SizeOf(sa.b1)
    IN  guestBuffer' = [sockaddr |-> ToWindows(sa), told |-> wlen,
                        copied |-> IF wlen < buflen THEN wlen ELSE buflen]

getpeername(buflen) ==
    /\ write_sockaddr(peer, buflen)
    /\ UNCHANGED <<scratch, found, hostent, peer>>

\* connect, ConnectEx and bind with what the guest holds in its buffer.
connectAddress ==
    /\ guestBuffer.copied = guestBuffer.told
    /\ peer' = read_sockaddr(guestBuffer.sockaddr)
    /\ UNCHANGED <<scratch, found, hostent, guestBuffer>>

-----------------------------------------------------------------------------
(* Lookups.                                                                *)

Align4(n) == ((n + 3) \div 4) * 4

\* Where the i-th addrinfo is written: each is 32 bytes, its sockaddr behind it.
NodeBase(list, i) ==
    LET ptr[k \in 0 .. Len(list)] ==
            IF k = 0 THEN WG_GAI_BASE ELSE ptr[k - 1] + 32 + Align4(SizeOf(list[k].b1))
    IN  ptr[i - 1]

WinFamilyOf(family) == IF family = AF_INET6 THEN WIN_AF_INET6 ELSE family

Addrinfo(list, i) ==
    [family |-> WinFamilyOf(list[i].b1), addrlen |-> SizeOf(list[i].b1),
     addr |-> NodeBase(list, i) + 32,
     next |-> IF i < Len(list) THEN NodeBase(list, i + 1) ELSE 0]

\* The list is written node by node, over whatever the region held.
getaddrinfo(list) ==
    LET nodes     == {NodeBase(list, i) : i \in DOMAIN list}
        sockaddrs == {n + 32 : n \in nodes}
        Nth(n)    == CHOOSE i \in DOMAIN list : NodeBase(list, i) = n
    IN  /\ scratch' = [a \in DOMAIN scratch \cup nodes \cup sockaddrs |->
                           IF a \in nodes THEN Addrinfo(list, Nth(a))
                           ELSE IF a \in sockaddrs THEN ToWindows(list[Nth(a - 32)])
                           ELSE scratch[a]]
        /\ found' = list
        /\ UNCHANGED <<hostent, peer, guestBuffer>>

\* The resolver finds nothing: the region keeps what it holds.
getaddrinfoFails == UNCHANGED addrVars

\* Memory after a structure is written at an address.
Poke(mem, at, struct) ==
    [a \in DOMAIN mem \cup {at} |-> IF a = at THEN struct ELSE mem[a]]

\* gethostbyname: the local names and a failed lookup give the loopback address.
gethostbyname(name, resolved) ==
    LET ip == IF name = "local" \/ resolved = <<>> THEN Loopback ELSE resolved[1]
    IN  /\ scratch' = Poke(Poke(Poke(Poke(scratch,
                           HB, [name |-> HB + 16, aliases |-> HB + 96, list |-> HB + 104]),
                           HB + 96, 0),
                           HB + 104, <<HB + 120, 0>>),
                           HB + 120, ip)
        /\ hostent' = IF name = "local" THEN <<>> ELSE resolved
        /\ UNCHANGED <<found, peer, guestBuffer>>

-----------------------------------------------------------------------------
Sockaddrs == {BsdSockaddr(f, r) : f \in Families, r \in HostAddresses}

AddressesInit ==
    /\ scratch = [a \in {HB + 120} |-> Loopback]
    /\ found = <<>>
    /\ hostent = <<>>
    /\ peer \in Sockaddrs
    /\ guestBuffer = [sockaddr |-> ToWindows(peer), told |-> 0, copied |-> MaxBuffer]

AddressesNext ==
    \/ \E n \in 1 .. MaxResults : \E list \in [1 .. n -> Sockaddrs] : getaddrinfo(list)
    \/ getaddrinfoFails
    \/ \E name \in {"local", "remote"}, r \in {<<>>} \cup {<<a>> : a \in HostAddresses} :
         gethostbyname(name, r)
    \/ \E buflen \in {0, 16, MaxBuffer} : getpeername(buflen)
    \/ connectAddress

AddressesSpec == AddressesInit /\ [][AddressesNext]_addrVars

-----------------------------------------------------------------------------
(* Properties.                                                             *)

\* Where a guest is that follows ai_next k times.
Walk(k) ==
    LET node[j \in 0 .. k] == IF j = 0 THEN WG_GAI_BASE ELSE scratch[node[j - 1]].next
    IN  node[k]

\* After any sequence of lookups, of any lengths, the guest that follows the list
\* of the last getaddrinfo finds the host's results, in order and in the Windows
\* layout; and the hostent of gethostbyname is not written over (getaddrinfo,
\* gethostbyname, which share one region).
LookupsFaithful ==
    /\ found # <<>> =>
         /\ \A i \in DOMAIN found :
              LET ai == scratch[Walk(i - 1)]
              IN  /\ ai.family = WinFamilyOf(found[i].b1) /\ ai.addrlen = SizeOf(found[i].b1)
                  /\ scratch[ai.addr] = ToWindows(found[i])
         /\ Walk(Len(found)) = 0
    /\ scratch[HB + 120] = IF hostent = <<>> THEN Loopback ELSE hostent[1]

\* An address that the guest was given and gives back is the host's own: the two
\* conversions are inverse, for both families (read_sockaddr, write_sockaddr).
AddressesSurvive == peer \in Sockaddrs /\ guestBuffer.sockaddr = ToWindows(peer)

\* What getaddrinfo and gethostbyname leave in guest memory, and the sockaddr of
\* getpeername, bind and connect, mean to the guest what they mean to the host.
AddressesRight == LookupsFaithful /\ AddressesSurvive

=============================================================================
