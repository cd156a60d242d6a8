---------------------------- MODULE Permissions ----------------------------
(***************************************************************************)
(* Permission rules (upnppermissions.c): which external ports a host may   *)
(* have mapped to which of its ports. The first rule that matches decides, *)
(* and a mapping that no rule matches is accepted. An address is the set   *)
(* of its bits, and a mask the set of the bits that count.                 *)
(***************************************************************************)
EXTENDS Integers, Sequences, FiniteSets, SequencesExt

CONSTANTS
    TopPort,    \* 65535
    WordBits    \* ports in one word of the table of permitted ports: 32

ASSUME PermissionsAssumption ==
    /\ TopPort \in Nat \ {0} /\ WordBits \in Nat \ {0}
    /\ (TopPort + 1) % WordBits = 0

Ports == 0 .. TopPort

UPNPPERM_ALLOW == 1
UPNPPERM_DENY == 2

-----------------------------------------------------------------------------
\* A range of ports as it is written: one number, or two with a dash; a number
\* that is missing after the dash is read as 0, and <<>> is no number at all
GoodRange(range) ==
    /\ range # <<>>
    /\ \A i \in DOMAIN range : range[i] <= TopPort
    /\ range[1] <= Last(range)

\* read_permission_line(): the rule, or <<>> for -1. A line has its four tokens
\* parsed; all bits count if it has no mask, and good says that the address and
\* the mask are such
ReadPermissionLine(line) ==
    IF /\ line.type \in {"allow", "deny"}
       /\ GoodRange(line.eport)
       /\ line.good
       /\ GoodRange(line.iport)
    THEN << [type      |-> IF line.type = "allow" THEN UPNPPERM_ALLOW ELSE UPNPPERM_DENY,
             eport_min |-> line.eport[1], eport_max |-> Last(line.eport),
             address   |-> line.address, mask |-> line.mask,
             iport_min |-> line.iport[1], iport_max |-> Last(line.iport)] >>
    ELSE <<>>

\* The rules of a configuration file: a line that cannot be read is left out
PermList(lines) == FlattenSeq([i \in DOMAIN lines |-> ReadPermissionLine(lines[i])])

-----------------------------------------------------------------------------
MatchAddress(perm, address) == address \cap perm.mask = perm.address \cap perm.mask

MatchInternal(perm, address, iport) ==
    perm.iport_min <= iport /\ iport <= perm.iport_max /\ MatchAddress(perm, address)

\* match_permission()
MatchPermission(perm, eport, address, iport) ==
    perm.eport_min <= eport /\ eport <= perm.eport_max /\ MatchInternal(perm, address, iport)

\* check_upnp_rule_against_permissions()
CheckPermissions(perms, eport, address, iport) ==
    LET matched == SelectInSeq(perms, LAMBDA perm : MatchPermission(perm, eport, address, iport))
    IN  matched = 0 \/ perms[matched].type = UPNPPERM_ALLOW

-----------------------------------------------------------------------------
\* Mutant of AtOnce: a word is set though the range ends one port before its end
AtOnceShort(perm, j) == j % WordBits = 0 /\ perm.eport_max >= j + WordBits - 2

\* The word of port j lies in the range as a whole
AtOnce(perm, j) == j % WordBits = 0 /\ perm.eport_max >= j + WordBits - 1

\* The ports of the loop from eport_min to eport_max that a rule sets: in a word
\* at once, or one after the other
SetPorts(perm) ==
    LET set[j \in 0 .. TopPort + 1] ==
            IF j > perm.eport_max THEN {}
            ELSE IF AtOnce(perm, j)
                 THEN (j .. j + WordBits - 1) \cup
                      (IF j + WordBits <= TopPort + 1 THEN set[j + WordBits] ELSE {})
                 ELSE {j} \cup set[j + 1]
    IN  set[perm.eport_min]

\* get_permitted_ext_ports(): the rules from the last to the first
PermittedExtPorts(perms, address, iport) ==
    LET n == Len(perms)
        allowed[i \in 1 .. n + 1] ==
            IF i = n + 1 THEN Ports
            ELSE IF ~ MatchInternal(perms[i], address, iport) THEN allowed[i + 1]
            ELSE IF perms[i].type = UPNPPERM_ALLOW
                 THEN allowed[i + 1] \cup SetPorts(perms[i])
                 ELSE allowed[i + 1] \ SetPorts(perms[i])
    IN  allowed[1]

=============================================================================
