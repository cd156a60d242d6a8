------------------------------ MODULE Pinholes ------------------------------
(***************************************************************************)
(* IPv6 pinholes: the WANIPv6FirewallControl actions of upnpsoap.c, the    *)
(* layer below them (upnppinhole.c) and its three back ends, for ip6tables *)
(* (netfilter/iptpinhole.c), pf (pf/pfpinhole.c) and nftables              *)
(* (netfilter_nft/nftpinhole.c). The daemon is built for one of them.      *)
(*                                                                         *)
(* A hole is [raddr, rport, iaddr, iport, proto]; 0 is any remote host or  *)
(* port. pf and nftables write the number of a pinhole and the end of its  *)
(* lease into the label of the kernel's rule, so rules there have a uid    *)
(* and ts; for ip6tables these are in a list of the daemon. The kernel may *)
(* refuse to add ("add") or to remove ("del") a rule.                      *)
(***************************************************************************)
EXTENDS NftRdr, FiniteSets

CONSTANTS
    PhKinds,    \* back ends, of "ipt", "pf" and "nft"
    Holes,      \* pinholes that are asked for
    Senders,    \* control points, by address
    Leases,     \* lease times that are asked for
    UidTop,     \* 65535
    UidGap,     \* 32000, from clean_pinhole_list()
    MaxHoles,   \* bound on the pinholes
    MaxNow      \* bound on the clock

ASSUME PinholesAssumption ==
    /\ PhKinds \subseteq {"ipt", "pf", "nft"}
    /\ UidTop \in Nat \ {0} /\ UidGap \in Nat
    /\ MaxHoles \in Nat /\ MaxHoles < UidTop - 1 /\ Leases \subseteq Nat

VARIABLES
    phKind,    \* the back end
    rules,     \* the kernel's rules, in order
    list,      \* ip6tables: the daemon's list
    next_uid,
    now,
    phReply    \* the last call: by whom, whether it was answered with success, and
               \* what the clean-up wrote to next_timestamp

phvars == <<phKind, rules, list, next_uid, now, phReply>>

\* A state for the operators, as in BsdRdr
PhState == [rules |-> rules, list |-> list, next |-> next_uid]

Hole(e) == [raddr |-> e.raddr, rport |-> e.rport, iaddr |-> e.iaddr,
            iport |-> e.iport, proto |-> e.proto]

ASSUME HolesAssumption == \A h \in Holes : h = Hole(h)

Labelled(h, uid, ts) == [raddr |-> h.raddr, rport |-> h.rport, iaddr |-> h.iaddr,
                         iport |-> h.iport, proto |-> h.proto, uid |-> uid, ts |-> ts]

Drop(q, i) == IF i = 0 THEN q ELSE RemoveAt(q, i)

ByUid(q, uid) == SelectInSeq(q, LAMBDA e : e.uid = uid)

ByHole(q, h) == SelectInSeq(q, LAMBDA e : Hole(e) = h)

\* The least end of a lease, or 0: next_timestamp is left alone then
Earliest(q) == IF q = <<>> THEN 0 ELSE Min({q[i].ts : i \in 1 .. Len(q)})

-----------------------------------------------------------------------------
\* ip6tables: numbers go round
NextUid(uid) == IF uid + 1 > UidTop THEN 1 ELSE uid + 1

\* A new number is one that no pinhole has
IptUid(s) ==
    LET turn[n \in 0 .. Len(s.list)] == IF n = 0 THEN s.next ELSE NextUid(turn[n - 1])
    IN  turn[Min({n \in 0 .. Len(s.list) : ByUid(s.list, turn[n]) = 0})]

\* The list grows at its head
IptAdd(s, h, ts, fails) ==
    IF "add" \in fails THEN Out(s, -1)
    ELSE On(IptUid(s), LAMBDA uid :
            Out([rules |-> Append(s.rules, h),
                 list  |-> <<Labelled(h, uid, ts)>> \o s.list,
                 next  |-> NextUid(uid)], uid))

IptFind(s, h) == LET i == ByHole(s.list, h) IN IF i = 0 THEN -2 ELSE s.list[i].uid

\* Mutant of IptDelete: the entry goes although the kernel kept the rule
IptDeleteForgets(s, uid, fails) ==
    LET i == ByUid(s.list, uid)
        j == SelectInSeq(s.rules, LAMBDA e : e = Hole(s.list[i]))
    IN  IF i = 0 THEN Out(s, -2)
        ELSE Out([s EXCEPT !.list = Drop(@, i),
                           !.rules = IF "del" \in fails THEN @ ELSE Drop(@, j)],
                 IF "del" \in fails THEN -1 ELSE 0)

\* A rule that is gone from the kernel takes the entry with it
IptDelete(s, uid, fails) ==
    LET i == ByUid(s.list, uid)
        j == SelectInSeq(s.rules, LAMBDA e : e = Hole(s.list[i]))
    IN  IF i = 0 THEN Out(s, -2)
        ELSE IF "del" \in fails THEN Out(s, -1)
        ELSE Out([s EXCEPT !.list = Drop(@, i), !.rules = Drop(@, j)],
                 IF j = 0 THEN -2 ELSE 0)

IptUpdate(s, uid, ts) ==
    LET i == ByUid(s.list, uid)
    IN  IF i = 0 THEN Out(s, -2) ELSE Out([s EXCEPT !.list[i].ts = ts], 0)

IptInfo(s, uid) == LET i == ByUid(s.list, uid) IN IF i = 0 THEN <<>> ELSE <<s.list[i]>>

\* The entries are visited from the head until a deletion fails, the n-th of
\* them here, or none when n is 0. What is visited later does not count for the
\* next time.
IptClean(s, n) ==
    LET expired == Those(s.list, LAMBDA e : e.ts <= now)
        stop    == n \in 1 .. Len(expired)
        last    == IF stop THEN ByUid(s.list, expired[n].uid) - 1 ELSE Len(s.list)
        gone    == {e.uid : e \in Range(IF stop THEN SubSeq(expired, 1, n - 1) ELSE expired)}
        visited == Those(SubSeq(s.list, 1, last), LAMBDA e : e.ts > now)
        holes   == {Hole(s.list[i]) : i \in {j \in 1 .. Len(s.list) : s.list[j].uid \in gone}}
    IN  [s  |-> [s EXCEPT !.list = Those(@, LAMBDA e : e.uid \notin gone),
                          !.rules = Those(@, LAMBDA e : e \notin holes)],
         ts |-> Earliest(visited)]

-----------------------------------------------------------------------------
\* pf and nftables take the next number, whoever has it
LabelUid(uid) == IF uid + 1 >= UidTop THEN 1 ELSE uid + 1

PfHoleAdd(s, h, ts, fails) ==
    IF "add" \in fails THEN Out(s, -1)
    ELSE Out([s EXCEPT !.rules = Append(@, Labelled(h, s.next, ts)),
                       !.next = LabelUid(@)], s.next)

PfHoleFind(s, h) == LET i == ByHole(s.rules, h) IN IF i = 0 THEN -2 ELSE s.rules[i].uid

PfHoleDelete(s, uid, fails) ==
    LET i == ByUid(s.rules, uid)
    IN  IF i = 0 THEN Out(s, -2)
        ELSE IF "del" \in fails THEN Out(s, -1)
        ELSE Out([s EXCEPT !.rules = RemoveAt(@, i)], 0)

PfHoleInfo(s, uid) == LET i == ByUid(s.rules, uid) IN IF i = 0 THEN <<>> ELSE <<s.rules[i]>>

\* The numbers in use as clean_pinhole_list() meets them: a number that is a
\* new greatest one is not taken for the least
UidRange(q) ==
    FoldLeft(LAMBDA r, e : IF e.uid > r.max THEN [r EXCEPT !.max = e.uid]
                           ELSE IF e.uid < r.min THEN [r EXCEPT !.min = e.uid] ELSE r,
             [max |-> -1, min |-> 2 * UidTop + UidGap], q)

\* The next number jumps over those in use
Adjusted(next, q) ==
    LET r    == UidRange(q)
        over == IF r.min - UidGap <= next /\ next <= r.max THEN r.max + 1 ELSE next
    IN  IF r.max <= 0 THEN next ELSE IF over >= UidTop THEN 1 ELSE over

\* Mutant of PfHoleClean: the rules are visited upwards, and after one that was
\* removed the next is passed over
PfHoleCleanUp(s, n) ==
    LET skip == SelectInSeq(s.rules, LAMBDA e : e.ts <= now) + 1
        left == Those(s.rules, LAMBDA e : e.ts > now)
    IN  [s |-> [s EXCEPT !.rules = IF skip \in 2 .. Len(@) /\ s.rules[skip].ts <= now
                                   THEN <<s.rules[skip]>> \o left ELSE left],
         ts |-> Earliest(left)]

\* From the last rule to the first; nothing more is done when one stays
PfHoleClean(s, n) ==
    LET down    == Reverse(s.rules)
        expired == Those(down, LAMBDA e : e.ts <= now)
        stop    == n \in 1 .. Len(expired)
        gone    == {expired[i] : i \in 1 .. IF stop THEN n - 1 ELSE Len(expired)}
        left    == Those(s.rules, LAMBDA e : e \notin gone)
    IN  IF stop THEN [s |-> [s EXCEPT !.rules = left], ts |-> 0]
        ELSE [s  |-> [s EXCEPT !.rules = left, !.next = Adjusted(@, Reverse(left))],
              ts |-> Earliest(left)]

-----------------------------------------------------------------------------
\* nftables: what is read back of the rule for a hole
NftSeen(h) ==
    LET r == ReadExprs("filter", RuleSetFilter6(h.proto, h.raddr, h.iaddr, h.iport, h.rport))
    IN  [raddr |-> r.rhost6, rport |-> r.rport, iaddr |-> r.iaddr6, iport |-> r.eport,
         proto |-> r.proto]

NftListed(s) == Reverse(s.rules)

NftHoleFind(s, h) ==
    LET i == SelectInSeq(NftListed(s), LAMBDA e : NftSeen(Hole(e)) = h)
    IN  IF i = 0 THEN -2 ELSE NftListed(s)[i].uid

NftPlace(s, uid) == SelectLastInSeq(s.rules, LAMBDA e : e.uid = uid)

\* The answer of the kernel is not looked at
NftHoleDelete(s, uid, fails) ==
    IF NftPlace(s, uid) = 0 THEN Out(s, -2)
    ELSE Out(IF "del" \in fails THEN s
             ELSE [s EXCEPT !.rules = RemoveAt(@, NftPlace(s, uid))], 0)

\* The rule is removed and added again with what was read back of it
NftHoleUpdate(s, uid, ts, fails) ==
    LET i == NftPlace(s, uid)
        h == NftSeen(Hole(s.rules[i]))
        without == [s EXCEPT !.rules = RemoveAt(@, i)]
    IN  IF i = 0 THEN Out(s, -2)
        ELSE IF "del" \in fails THEN Out(s, -1)
        ELSE IF "add" \in fails THEN Out(without, -1)
        ELSE Out([without EXCEPT !.rules = Append(@, Labelled(h, uid, ts))], 0)

\* Not finding the pinhole is no error, and nothing is written
NftHoleInfo(s, uid) ==
    IF NftPlace(s, uid) = 0 THEN <<>> ELSE <<s.rules[NftPlace(s, uid)]>>

\* All rules are visited; one that stays is visited again the next time
NftHoleClean(s, n) ==
    LET expired == Those(NftListed(s), LAMBDA e : e.ts <= now)
        left == Those(s.rules, LAMBDA e : e.ts > now)
        kept == Those(s.rules,
                          LAMBDA e : e.ts > now \/ (n \in 1 .. Len(expired) /\ e = expired[n]))
    IN  [s  |-> [s EXCEPT !.rules = kept, !.next = Adjusted(@, Reverse(left))],
         ts |-> Earliest(left)]

-----------------------------------------------------------------------------
\* upnppinhole.c
FindInbound(s, h) == CASE phKind = "ipt" -> IptFind(s, h)
                       [] phKind = "pf"  -> PfHoleFind(s, h)
                       [] phKind = "nft" -> NftHoleFind(s, h)

\* update_pinhole() is not implemented for pf
UpdateInbound(s, uid, leasetime, fails) ==
    CASE phKind = "ipt" -> IptUpdate(s, uid, now + leasetime)
      [] phKind = "pf"  -> Out(s, -42)
      [] phKind = "nft" -> NftHoleUpdate(s, uid, now + leasetime, fails)

\* For a pinhole that is there already the end of the lease is passed where a
\* lease time is wanted
AddInbound(s, h, leasetime, fails) ==
    LET timestamp == now + leasetime
        uid == FindInbound(s, h)
        added(out) == Out(out.s, IF out.r >= 0 THEN 1 ELSE -1)
    IN  IF uid >= 0
        THEN On(UpdateInbound(s, uid, timestamp, fails), LAMBDA up :
                Out(up.s, IF up.r >= 0 THEN 1 ELSE up.r))
        ELSE added(IF phKind = "ipt" THEN IptAdd(s, h, timestamp, fails)
                   ELSE PfHoleAdd(s, h, timestamp, fails))

DeleteInbound(s, uid, fails) == CASE phKind = "ipt" -> IptDelete(s, uid, fails)
                                  [] phKind = "pf"  -> PfHoleDelete(s, uid, fails)
                                  [] phKind = "nft" -> NftHoleDelete(s, uid, fails)

\* upnp_get_pinhole_info(): the pinhole, if it wrote one
GetInfo(s, uid) == CASE phKind = "ipt" -> IptInfo(s, uid)
                     [] phKind = "pf"  -> PfHoleInfo(s, uid)
                     [] phKind = "nft" -> NftHoleInfo(s, uid)

CleanExpired(s, n) == CASE phKind = "ipt" -> IptClean(s, n)
                        [] phKind = "pf"  -> PfHoleClean(s, n)
                        [] phKind = "nft" -> NftHoleClean(s, n)

-----------------------------------------------------------------------------
\* upnpsoap.c. PinholeVerification(): the sender's own address, and no privileged port
PinholeVerification(sender, int_ip, int_port) == sender = int_ip /\ int_port >= 1024

\* The checks of AddPinhole, in their order; 200 is for none of them
AddPinholeCheck(sender, h, ltime) ==
    IF h.proto = "none" THEN 402
    ELSE IF h.iport = 0 THEN 706
    ELSE IF h.iaddr = 0 THEN 708
    ELSE IF h.proto = "any" THEN 707
    ELSE IF h.proto \notin {"TCP", "UDP"} THEN 705
    ELSE IF ltime \notin 1 .. 86400 THEN 402
    ELSE IF ~PinholeVerification(sender, h.iaddr, h.iport) THEN 606
    ELSE 200

PhDone(s, code) ==
    /\ rules' = s.rules /\ list' = s.list /\ next_uid' = s.next
    /\ phReply' = [who |-> "host", ok |-> code = 200, ts |-> 0]
    /\ UNCHANGED <<phKind, now>>

\* A refused step is asked for only where there is one
PhFails == {{}, {"add"}, {"del"}}

AddPinhole(c, h, ltime, fails) ==
    /\ Len(rules) < MaxHoles
    /\ LET check == AddPinholeCheck(c, h, ltime)
           out   == AddInbound(PhState, h, ltime, fails)
       IN  IF check # 200 THEN fails = {} /\ PhDone(PhState, check)
           ELSE PhDone(out.s, CASE out.r = 1 -> 200 [] out.r = -1 -> 701 [] OTHER -> 501)

\* What the actions that name a pinhole do before anything else. nftables
\* leaves the address uninitialised when there is none, and whatever it holds
\* ends in an error.
Refused(c, uid) ==
    LET info == GetInfo(PhState, uid)
    IN  IF info = <<>> THEN (IF phKind = "nft" THEN {402, 606, 501} ELSE {704})
        ELSE IF PinholeVerification(c, info[1].iaddr, info[1].iport) THEN {} ELSE {606}

UpdatePinhole(c, uid, ltime, fails) ==
    \/ \E code \in IF ltime <= 0 THEN {402} ELSE Refused(c, uid) :
           fails = {} /\ PhDone(PhState, code)
    \/ /\ ltime > 0 /\ Refused(c, uid) = {}
       /\ LET out == UpdateInbound(PhState, uid, ltime, fails)
          IN  PhDone(out.s, CASE out.r = -1 -> 704 [] out.r < -1 -> 501 [] OTHER -> 200)

DeletePinhole(c, uid, fails) ==
    \/ \E code \in Refused(c, uid) : fails = {} /\ PhDone(PhState, code)
    \/ /\ Refused(c, uid) = {}
       /\ LET out == DeleteInbound(PhState, uid, fails)
          IN  PhDone(out.s, IF out.r < 0 THEN 501 ELSE 200)

\* The kernel's count of packets decides
CheckPinholeWorking(c, uid) ==
    \E code \in IF Refused(c, uid) = {} THEN {709, 200} ELSE Refused(c, uid) :
        PhDone(PhState, code)

\* A pinhole that is not there has had no packets
GetPinholePackets(c, uid) ==
    \E code \in IF Refused(c, uid) \subseteq {704} THEN {200} ELSE Refused(c, uid) :
        PhDone(PhState, code)

\* MAP of the PCP server for an IPv6 client
CreatePCPMap_FW(h, lifetime, fails) ==
    /\ Len(rules) < MaxHoles
    /\ h.raddr = 0 /\ h.rport = 0 /\ h.iaddr \in Senders /\ h.proto \in {"TCP", "UDP"}
    /\ LET uid == FindInbound(PhState, h)
           out == IF uid >= 0 THEN UpdateInbound(PhState, uid, lifetime, fails)
                  ELSE AddInbound(PhState, h, lifetime, fails)
       IN  PhDone(out.s, IF out.r >= 0 THEN 200 ELSE 501)

\* The main loop, once a turn; the n-th deletion is refused
CleanPinholes(n) ==
    LET out == CleanExpired(PhState, n)
    IN  /\ rules' = out.s.rules /\ list' = out.s.list /\ next_uid' = out.s.next
        /\ phReply' = [who |-> "loop", ok |-> n = 0, ts |-> out.ts]
        /\ UNCHANGED <<phKind, now>>

PhTick == /\ now < MaxNow
          /\ now' = now + 1
          /\ phReply' = [who |-> "host", ok |-> TRUE, ts |-> 0]
          /\ UNCHANGED <<phKind, rules, list, next_uid>>

PhInit ==
    /\ phKind \in PhKinds
    /\ rules = <<>> /\ list = <<>>
    /\ next_uid = 1 /\ now = 1
    /\ phReply = [who |-> "host", ok |-> TRUE, ts |-> 0]

PhNext ==
    \/ \E c \in Senders, h \in Holes, t \in Leases \cup {0}, f \in PhFails : AddPinhole(c, h, t, f)
    \/ \E c \in Senders, u \in 1 .. UidTop, t \in Leases \cup {0}, f \in PhFails :
           UpdatePinhole(c, u, t, f)
    \/ \E c \in Senders, u \in 1 .. UidTop, f \in PhFails : DeletePinhole(c, u, f)
    \/ \E c \in Senders, u \in 1 .. UidTop : CheckPinholeWorking(c, u)
    \/ \E c \in Senders, u \in 1 .. UidTop : GetPinholePackets(c, u)
    \/ \E h \in Holes, t \in Leases, f \in PhFails : CreatePCPMap_FW(h, t, f)
    \/ \E n \in 0 .. MaxHoles : CleanPinholes(n)
    \/ PhTick

PhSpec == PhInit /\ [][PhNext]_phvars

-----------------------------------------------------------------------------
\* The pinholes there are, with their labels
Open == IF phKind = "ipt" THEN list ELSE rules

\* Numbers of pinholes stay numbers that AddPinhole can answer with
PhTypeOK ==
    /\ phKind \in PhKinds /\ next_uid \in 1 .. UidTop /\ now \in 1 .. MaxNow
    /\ \A i \in 1 .. Len(Open) : Open[i].uid \in 1 .. UidTop
    /\ Len(rules) <= MaxHoles

\* ip6tables: the daemon's list and the kernel's chain hold the same pinholes,
\* each of them once, whichever steps were refused; and their numbers differ, also
\* after these went round, so a control point that names one means one.
ListMatchesChain ==
    phKind = "ipt" =>
        /\ Len(list) = Len(rules)
        /\ {Hole(list[i]) : i \in 1 .. Len(list)} = Range(rules)
        /\ \A i, j \in 1 .. Len(list) : list[i].uid = list[j].uid => i = j

\* A clean-up that nothing stopped leaves no pinhole whose lease has ended, and
\* wakes the main loop for the next of those that are left.
CleanComplete ==
    [][phReply'.who = "loop" /\ phReply'.ok =>
          LET left == {Open'[i].ts : i \in 1 .. Len(Open')}
          IN  /\ \A t \in left : t > now
              /\ phReply'.ts = IF left = {} THEN 0 ELSE Min(left)]_phvars

=============================================================================
