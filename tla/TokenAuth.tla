----------------------------- MODULE TokenAuth -----------------------------
(***************************************************************************)
(* The authorisation of AddPortMapping and AddAnyPortMapping by a signed   *)
(* token (jwtauth.c, jwtauthutils.c, upnpsoapauth.c). The token says for   *)
(* which internal addresses and external ports its owner may ask, and has  *)
(* the owner's key, with which the request is signed. Cryptography and     *)
(* base64 are taken for what they decide. Numbers are as wide as the       *)
(* constants say; a part of a string that is no number is -1.              *)
(***************************************************************************)
EXTENDS Integers, Sequences, FiniteSets

CONSTANTS
    OctetBits, Octets,   \* of an address: 8 and 4
    PortBits,            \* of a port: 16
    Tokens,              \* what comes in the Authorization header, see TokenFor
    Targets,             \* addresses that are asked for, as they are written
    AskedPorts           \* external ports that are asked for

ASSUME TokenAuthAssumption ==
    /\ {OctetBits, Octets, PortBits} \subseteq Nat \ {0}
    /\ \A token \in Tokens : /\ token.ports.list \in Seq(Seq(Int))
                             /\ token.addrs.list \in Seq([parts : Seq(Int), mask : Int])
    /\ Targets \subseteq Seq(Int) \ {<<>>} /\ AskedPorts \subseteq Nat

VARIABLES verdict, tries   \* the last answer, [code, token, addr, port]; requests so far

tvars == <<verdict, tries>>

AddrBits == OctetBits * Octets
Invalid == -1

Pow2[n \in 0 .. AddrBits + PortBits] == IF n = 0 THEN 1 ELSE 2 * Pow2[n - 1]

\* An address below this one, and its bits
AddrEnd == Pow2[AddrBits]
Bits(address) == {i \in 0 .. AddrBits - 1 : (address \div Pow2[i]) % 2 = 1}

-----------------------------------------------------------------------------
\* One of the four numbers; one too many is let through
GoodOctet(n) == 0 <= n /\ n <= Pow2[OctetBits]

\* _parseIpAddress(): what is too large carries into the next octet
ParseAddress(parts) ==
    LET sum[i \in 0 .. Octets] ==
            IF i = 0 THEN 0 ELSE (sum[i - 1] * Pow2[OctetBits] + parts[i]) % AddrEnd
    IN  IF Len(parts) >= Octets /\ \A i \in 1 .. Octets : GoodOctet(parts[i]) THEN sum[Octets]
        ELSE Invalid

\* ParseIpAddress() works on a copy without the zero at its end: what follows it in
\* memory may be read as digits of its last number and as more numbers
ReadPast(parts) ==
    LET n == Len(parts)
        longer == IF parts[n] = Invalid THEN {Invalid} ELSE parts[n] .. Pow2[OctetBits] + 1
    IN  {parts} \cup
        {[i \in 1 .. Octets |-> IF i < n THEN parts[i] ELSE IF i = n THEN last ELSE more] :
            last \in longer, more \in 0 .. Pow2[OctetBits]}

\* ParseIpMaskString(): an address and the length of its prefix
ParseIpMaskString(range) ==
    LET address == ParseAddress(range.parts)
    IN  IF address # Invalid /\ 0 <= range.mask /\ range.mask <= AddrBits
        THEN << [address |-> address, mask |-> range.mask] >> ELSE <<>>

\* Mutant of PrefixMask: one bit too many
PrefixMaskWide(length) == (AddrEnd - 1) - (Pow2[AddrBits - length + 1] - 1)

PrefixMask(length) == (AddrEnd - 1) - (Pow2[AddrBits - length] - 1)

\* ContainIp()
ContainIp(range, target) ==
    \/ range.mask = 0
    \/ LET mask == Bits(PrefixMask(range.mask))
       IN  Bits(range.address) \cap mask = Bits(target) \cap mask

-----------------------------------------------------------------------------
\* retrieveJsonArrayFromJsonObj() and the loop over its entries: one entry that
\* cannot be read makes all of it invalid
AllRead(field, read) ==
    IF field.array /\ \A i \in DOMAIN read : read[i] # <<>>
    THEN << [i \in DOMAIN read |-> read[i][1]] >> ELSE <<>>

\* An entry of pub_port_range: two numbers above 0, kept as unsigned short
ReadPortRange(entry) ==
    IF Len(entry) = 2 /\ entry[1] > 0 /\ entry[2] > 0
    THEN << [start |-> entry[1] % Pow2[PortBits], end |-> entry[2] % Pow2[PortBits]] >>
    ELSE <<>>

RetrievePortRange(field) ==
    AllRead(field, [i \in DOMAIN field.list |-> ReadPortRange(field.list[i])])

RetrieveIpRange(field) ==
    AllRead(field, [i \in DOMAIN field.list |-> ParseIpMaskString(field.list[i])])

\* The checks before the ranges are read: three parts that are base64, signed
\* with the key of the authority; JSON with a public key; a request that is
\* signed with this one
Verified(token) == token.whole /\ token.ca /\ token.json /\ token.key /\ token.signed

\* VerifyAndExtractAuthToken(): the permission, or <<>> for -1
VerifyAndExtractAuthToken(token) ==
    LET ports == RetrievePortRange(token.ports)
        addrs == RetrieveIpRange(token.addrs)
    IN  IF Verified(token) /\ ports # <<>> /\ addrs # <<>>
        THEN << [pub_port_range |-> ports[1], int_ip_range |-> addrs[1]] >> ELSE <<>>

-----------------------------------------------------------------------------
AddressAllowed(perm, addr) ==
    \E i \in DOMAIN perm.int_ip_range : ContainIp(perm.int_ip_range[i], addr)

PortAllowed(perm, eport) ==
    \E i \in DOMAIN perm.pub_port_range :
        perm.pub_port_range[i].start <= eport /\ eport <= perm.pub_port_range[i].end

\* VeridyAddPortMappingAuth()
VerifyAddPortMapping(perm, addr, eport) == AddressAllowed(perm, addr) /\ PortAllowed(perm, eport)

\* VeridyAddAnyPortMappingAuth(): 0 stands for any port
VerifyAddAnyPortMapping(perm, addr, eport) ==
    /\ AddressAllowed(perm, addr)
    /\ (eport = 0 /\ perm.pub_port_range # <<>>) \/ PortAllowed(perm, eport)

Decide(code, token, addr, port) ==
    verdict' = [code |-> code, token |-> token, addr |-> addr, port |-> port]

\* The authorisation in AddPortMapping() and AddAnyPortMapping(), before the
\* mapping is made
Authorise(token, target, eport, any) ==
    LET perm == VerifyAndExtractAuthToken(token)
    IN  \E read \in ReadPast(target) :
          LET addr == ParseAddress(read)
          IN  CASE perm = <<>> -> Decide(606, token, addr, eport)
                [] perm # <<>> /\ addr = Invalid -> Decide(402, token, addr, eport)
                [] perm # <<>> /\ addr # Invalid ->
                   IF ~ IF any THEN VerifyAddAnyPortMapping(perm[1], addr, eport)
                        ELSE VerifyAddPortMapping(perm[1], addr, eport)
                   THEN Decide(606, token, addr, eport)
                   ELSE Decide(0, token, addr, IF eport = 0 THEN perm[1].pub_port_range[1].start
                                               ELSE eport)

AskAddPortMapping(token, target, eport) ==
    eport # 0 /\ Authorise(token, target, eport, FALSE)

AskAddAnyPortMapping(token, target, eport) ==
    Authorise(token, target, eport, TRUE)

TInit == verdict = [code |-> Invalid, addr |-> Invalid] /\ tries = 0

TNext ==
    /\ tries = 0 /\ tries' = 1
    /\ \E token \in Tokens, target \in Targets, eport \in AskedPorts :
          \/ AskAddPortMapping(token, target, eport)
          \/ AskAddAnyPortMapping(token, target, eport)

TSpec == TInit /\ [][TNext]_tvars

-----------------------------------------------------------------------------
\* The address that four numbers below 256 stand for, and its first bits
Written(parts) == LET value[i \in 0 .. Octets] ==
                          IF i = 0 THEN 0 ELSE value[i - 1] * Pow2[OctetBits] + parts[i]
                  IN  value[Octets]

Prefix(addr, length) == addr \div Pow2[AddrBits - length]

\* A token as the authority means it: numbers in their range, and ports from the
\* lower to the upper
Proper(token) ==
    /\ \A i \in DOMAIN token.ports.list :
          /\ Len(token.ports.list[i]) = 2
          /\ 0 < token.ports.list[i][1] /\ token.ports.list[i][1] <= token.ports.list[i][2]
          /\ token.ports.list[i][2] < Pow2[PortBits]
    /\ \A i \in DOMAIN token.addrs.list :
          /\ token.addrs.list[i].mask \in 0 .. AddrBits
          /\ Len(token.addrs.list[i].parts) = Octets
          /\ \A k \in 1 .. Octets : token.addrs.list[i].parts[k] \in 0 .. Pow2[OctetBits] - 1

\* What a token is good for
Covered(token, addr, port) ==
    /\ token.whole /\ token.ca /\ token.json /\ token.key /\ token.signed
    /\ token.ports.array /\ token.addrs.array
    /\ \E i \in DOMAIN token.addrs.list :
          LET net == token.addrs.list[i]
          IN  Prefix(addr, net.mask) = Prefix(Written(net.parts), net.mask)
    /\ \E i \in DOMAIN token.ports.list :
          token.ports.list[i][1] <= port /\ port <= token.ports.list[i][2]

\* A request is let through with a proper token, and with no other than one of the
\* authority whose owner signed it, for an address that, as it was read, has the
\* first bits of one of its networks and for a port of one of its ranges, asked for
\* or chosen: the mask that ContainIp() works out compares these bits and no
\* others, at 0 and at all bits too.
TokenCovers ==
    verdict.code \in {0, 606} /\ verdict.addr # Invalid /\ Proper(verdict.token) =>
        (verdict.code = 0 <=> Covered(verdict.token, verdict.addr, verdict.port))

=============================================================================
