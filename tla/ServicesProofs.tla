--------------------------- MODULE ServicesProofs ---------------------------
(***************************************************************************)
(* Proofs about the permissions and the servers that go by them            *)
(* (Permissions, MapServers), for any number of ports, of ports in a word  *)
(* and of mappings, any rules and any requests; about the STUN client      *)
(* (Stun), the tokens (TokenAuth) and the tables of json-c (JsonStore).    *)
(*                                                                         *)
(* get_permitted_ext_ports() fills its table by two loops, which are       *)
(* recursive functions here. For each the function that the loop computes  *)
(* is written down, shown to fit the recursion, and shown by induction to  *)
(* be the only one that does.                                              *)
(*                                                                         *)
(* The searches for a port and the deletions go turn by turn. What holds   *)
(* after every turn (Searched, Swept, PcpSearched, AnySearched) is kept by *)
(* one turn; that the last turn has it gives what the request leaves and   *)
(* what it answers. The invariant of the servers (ServersInv) is that no   *)
(* port is mapped twice unless a deletion has failed, and that even then   *)
(* it is mapped to one host only.                                          *)
(*                                                                         *)
(* perform_stun() (Stun) tells the truth because parse_stun_response()     *)
(* prefers an attribute that no router changes (ParsedTo, by induction     *)
(* over the attributes), because a response is kept for the request whose  *)
(* transaction it carries only (Answered), and because forwarding stays    *)
(* enabled only if there are as many responses as requests.                *)
(*                                                                         *)
(* The tables of json-c find their keys (TableFinds) because the places    *)
(* from that of a key's hash to its own were never empty (GoodTable). The  *)
(* references are counted (Counts, RefCounts) because no value reaches     *)
(* itself: a value that loses something is not changed by putting it. A    *)
(* token covers what is let through (TokenCovers) because the bits of the  *)
(* mask are those of the prefix (MaskBits), and two addresses have these   *)
(* in common when they have the quotient in common (SameBits).             *)
(***************************************************************************)
EXTENDS MapServers, Stun, TokenAuth, JsonStore, CallsProofs

\* Both constants are what an array of words needs.
LEMMA Words == /\ TopPort \in Nat /\ WordBits \in Nat /\ WordBits >= 1
  BY PermissionsAssumption

-----------------------------------------------------------------------------
(***************************************************************************)
(* The ports that a rule sets.                                             *)
(***************************************************************************)
\* set is the function that the loop over the ports of perm computes
Sets(set, perm) ==
    set = [j \in 0 .. TopPort + 1 |->
              IF j > perm.eport_max THEN {}
              ELSE IF AtOnce(perm, j)
                   THEN (j .. j + WordBits - 1) \cup
                        (IF j + WordBits <= TopPort + 1 THEN set[j + WordBits] ELSE {})
                   ELSE {j} \cup set[j + 1]]

\* The loop of a rule sets the ports of its range: whole words at once and the
\* others one by one leave out none and add none.
LEMMA SetPortsRange ==
    ASSUME NEW perm, perm.eport_min \in Ports, perm.eport_max \in Ports
    PROVE  SetPorts(perm) = perm.eport_min .. perm.eport_max
  <1> DEFINE top == TopPort + 1
             max == perm.eport_max
             range == [j \in 0 .. top |-> j .. max]
             set == CHOOSE f : Sets(f, perm)
  <1>1. TopPort \in Nat /\ WordBits \in Nat /\ WordBits >= 1 /\ top \in Nat
    BY Words
  <1>2. max \in Nat /\ max < top /\ perm.eport_min \in 0 .. top
    BY <1>1 DEF Ports
  <1>3. SetPorts(perm) = set[perm.eport_min]
    BY DEF SetPorts, Sets
  <1>4. Sets(range, perm)
    <2>1. ASSUME NEW j \in 0 .. top
          PROVE  range[j] = IF j > max THEN {}
                            ELSE IF AtOnce(perm, j)
                                 THEN (j .. j + WordBits - 1) \cup
                                      (IF j + WordBits <= top THEN range[j + WordBits] ELSE {})
                                 ELSE {j} \cup range[j + 1]
      <3>1. j \in Nat
        BY <1>1
      <3>2. CASE j > max
        BY <1>2, <3>1, <3>2
      <3>3. CASE j <= max /\ AtOnce(perm, j)
        <4>1. max >= j + WordBits - 1
          BY <3>3 DEF AtOnce
        <4>2. j + WordBits \in 0 .. top
          BY <1>1, <1>2, <3>1, <4>1
        <4>3. range[j + WordBits] = (j + WordBits) .. max
          BY <4>2
        <4>4. j .. max = (j .. j + WordBits - 1) \cup ((j + WordBits) .. max)
          BY <1>1, <1>2, <3>1, <4>1
        <4>5. range[j] = j .. max /\ ~(j > max) /\ j + WordBits <= top
          BY <1>1, <1>2, <3>1, <3>3, <4>2
        <4> HIDE DEF range, max, top
        <4>6. range[j] = (j .. j + WordBits - 1) \cup range[j + WordBits]
          BY <4>3, <4>4, <4>5, Zenon
        <4> QED  BY <3>3, <4>5, <4>6, Zenon
      <3>4. CASE j <= max /\ ~AtOnce(perm, j)
        <4>1. j + 1 \in 0 .. top
          BY <1>1, <1>2, <3>1, <3>4
        <4>2. range[j + 1] = (j + 1) .. max
          BY <4>1
        <4>3. j .. max = {j} \cup ((j + 1) .. max)
          BY <1>2, <3>1, <3>4
        <4>4. range[j] = j .. max /\ ~(j > max)
          BY <1>2, <3>1, <3>4
        <4> HIDE DEF range, max, top
        <4>5. range[j] = {j} \cup range[j + 1]
          BY <4>2, <4>3, <4>4, Zenon
        <4> QED  BY <3>4, <4>4, <4>5, Zenon
      <3> QED  BY <1>2, <3>1, <3>2, <3>3, <3>4
    <2>2. range = [j \in 0 .. top |-> range[j]]
      OBVIOUS
    <2> HIDE DEF range
    <2> QED  BY <2>1, <2>2 DEF Sets
  <1>5. Sets(set, perm)
    BY <1>4
  <1> HIDE DEF set
  <1> DEFINE Left == {k \in Nat : k <= top => \A j \in 0 .. top : j >= top - k => set[j] = j .. max}
  <1>6. 0 \in Left
    <2> SUFFICES ASSUME NEW j \in 0 .. top, j >= top PROVE set[j] = j .. max
      BY <1>1
    <2>1. j = top /\ j > max
      BY <1>1, <1>2
    <2> QED  BY <1>2, <1>5, <2>1 DEF Sets
  <1>7. ASSUME NEW k \in Nat, k \in Left PROVE k + 1 \in Left
    <2> SUFFICES ASSUME k + 1 <= top, NEW j \in 0 .. top, j >= top - (k + 1)
                 PROVE  set[j] = j .. max
      BY <1>7
    <2>1. j \in Nat /\ \A i \in 0 .. top : i > j => set[i] = i .. max
      BY <1>1, <1>7
    <2>2. set[j] = IF j > max THEN {}
                   ELSE IF AtOnce(perm, j)
                        THEN (j .. j + WordBits - 1) \cup
                             (IF j + WordBits <= top THEN set[j + WordBits] ELSE {})
                        ELSE {j} \cup set[j + 1]
      BY <1>5 DEF Sets
    <2>3. range[j] = IF j > max THEN {}
                     ELSE IF AtOnce(perm, j)
                          THEN (j .. j + WordBits - 1) \cup
                               (IF j + WordBits <= top THEN range[j + WordBits] ELSE {})
                          ELSE {j} \cup range[j + 1]
      BY <1>4 DEF Sets
    <2>4. j <= max => j + 1 \in 0 .. top /\ j + 1 > j
      BY <1>1, <1>2, <2>1
    <2>5. j + WordBits <= top => j + WordBits \in 0 .. top /\ j + WordBits > j
      BY <1>1, <2>1
    <2>6. \A i \in 0 .. top : i > j => set[i] = range[i]
      BY <2>1
    <2> HIDE DEF range
    <2>7. set[j] = range[j]
      <3> HIDE DEF max, top
      <3>1. CASE j > max
        BY <2>2, <2>3, <3>1, Zenon
      <3>2. CASE ~(j > max) /\ AtOnce(perm, j)
        <4>1. (IF j + WordBits <= top THEN set[j + WordBits] ELSE {})
                = (IF j + WordBits <= top THEN range[j + WordBits] ELSE {})
          BY <2>5, <2>6, Zenon
        <4> QED  BY <2>2, <2>3, <3>2, <4>1, Zenon
      <3>3. CASE ~(j > max) /\ ~AtOnce(perm, j)
        <4>1. j <= max
          BY <1>2, <2>1, <3>3
        <4>2. set[j + 1] = range[j + 1]
          BY <2>4, <2>6, <4>1, Zenon
        <4> QED  BY <2>2, <2>3, <3>3, <4>2, Zenon
      <3> QED  BY <3>1, <3>2, <3>3
    <2> QED  BY <2>7 DEF range
  <1> HIDE DEF Left
  <1>8. top \in Left
    BY <1>1, <1>6, <1>7, AllNaturals
  <1> QED  BY <1>1, <1>2, <1>3, <1>8 DEF Left

-----------------------------------------------------------------------------
(***************************************************************************)
(* The rules, one after the other.                                         *)
(***************************************************************************)
\* A list of rules as read_permission_line() leaves it
Rules(list) == /\ Len(list) \in Nat
               /\ \A i \in 1 .. Len(list) : list[i].eport_min \in Ports /\ list[i].eport_max \in Ports

Matches(list, i, eport, address, iport) == MatchPermission(list[i], eport, address, iport)

\* The rules from number i on accept the port: none matches, or the first one
\* that does allows it
Accepts(list, i, eport, address, iport) ==
    \/ \A k \in i .. Len(list) : ~Matches(list, k, eport, address, iport)
    \/ \E m \in i .. Len(list) :
          /\ Matches(list, m, eport, address, iport)
          /\ list[m].type = UPNPPERM_ALLOW
          /\ \A k \in i .. Len(list) : k < m => ~Matches(list, k, eport, address, iport)

\* check_upnp_rule_against_permissions() asks the rules from the first on.
LEMMA CheckIsAccepts ==
    ASSUME NEW list, Rules(list), NEW eport, NEW address, NEW iport
    PROVE  CheckPermissions(list, eport, address, iport) <=> Accepts(list, 1, eport, address, iport)
  <1> DEFINE M(i) == Matches(list, i, eport, address, iport)
             n == Len(list)
             I == {i \in 1 .. n : M(i)}
             first == SelectInSeq(list, LAMBDA perm : MatchPermission(perm, eport, address, iport))
  <1>1. n \in Nat
    BY DEF Rules
  <1>2. first = IF I # {} THEN Min(I) ELSE 0
    BY DEF SelectInSeq, Matches
  <1>3. CheckPermissions(list, eport, address, iport)
           <=> first = 0 \/ list[first].type = UPNPPERM_ALLOW
    BY DEF CheckPermissions
  <1> HIDE DEF n, M, first
  <1>4. CASE I = {}
    <2>1. first = 0
      BY <1>2, <1>4
    <2>2. \A k \in 1 .. n : ~M(k)
      BY <1>4
    <2> QED  BY <1>3, <2>1, <2>2 DEF Accepts, n, M
  <1>5. CASE I # {}
    <2>1. I \subseteq Nat
      BY <1>1
    <2>2. \E m \in I : \A k \in I : m <= k
      BY <1>5, <2>1, LeastNatural
    <2>3. Min(I) \in I /\ \A k \in I : Min(I) <= k
      BY <2>2 DEF Min
    <2>4. first \in I /\ \A k \in I : first <= k
      BY <1>2, <1>5, <2>3
    <2>5. first \in 1 .. n /\ M(first) /\ first # 0
      BY <1>1, <2>4
    <2>6. \A k \in 1 .. n : k < first => ~M(k)
      BY <1>1, <2>4, <2>5
    <2>7. ASSUME NEW m \in 1 .. n, M(m), \A k \in 1 .. n : k < m => ~M(k)
          PROVE  m = first
      BY <1>1, <2>5, <2>6, <2>7
    <2>8. Accepts(list, 1, eport, address, iport) <=> list[first].type = UPNPPERM_ALLOW
      BY <2>5, <2>6, <2>7 DEF Accepts, n, M
    <2> QED  BY <1>3, <2>5, <2>8
  <1> QED  BY <1>4, <1>5

\* The rule i decides if it matches, and the later ones if it does not.
LEMMA AcceptsNext ==
    ASSUME NEW list, Rules(list), NEW i \in 1 .. Len(list), NEW eport, NEW address, NEW iport
    PROVE  Accepts(list, i, eport, address, iport)
              <=> IF Matches(list, i, eport, address, iport) THEN list[i].type = UPNPPERM_ALLOW
                  ELSE Accepts(list, i + 1, eport, address, iport)
  <1> DEFINE M(k) == Matches(list, k, eport, address, iport)
             n == Len(list)
  <1>1. n \in Nat /\ i \in Nat /\ i \in i .. n
    BY DEF Rules
  <1>2. \A k : k \in i .. n <=> k = i \/ k \in (i + 1) .. n
    BY <1>1
  <1>3. \A k \in (i + 1) .. n : i < k /\ ~(k < i) /\ k # i
    BY <1>1
  <1>4. ~(i < i)
    BY <1>1
  <1>5. Accepts(list, i, eport, address, iport)
           <=> \/ \A k \in i .. n : ~M(k)
               \/ \E m \in i .. n : M(m) /\ list[m].type = UPNPPERM_ALLOW
                                    /\ \A k \in i .. n : k < m => ~M(k)
    BY DEF Accepts
  <1>6. Accepts(list, i + 1, eport, address, iport)
           <=> \/ \A k \in (i + 1) .. n : ~M(k)
               \/ \E m \in (i + 1) .. n : M(m) /\ list[m].type = UPNPPERM_ALLOW
                                          /\ \A k \in (i + 1) .. n : k < m => ~M(k)
    BY DEF Accepts
  <1> HIDE DEF n, M
  <1>7. CASE M(i)
    <2>1. ASSUME NEW m \in i .. n, \A k \in i .. n : k < m => ~M(k) PROVE m = i
      BY <1>1, <1>2, <1>3, <1>7, <2>1
    <2>2. \A k \in i .. n : k < i => ~M(k)
      BY <1>2, <1>3, <1>4
    <2> QED  BY <1>1, <1>5, <1>7, <2>1, <2>2 DEF M
  <1>8. CASE ~M(i)
    <2>1. (\A k \in i .. n : ~M(k)) <=> \A k \in (i + 1) .. n : ~M(k)
      BY <1>2, <1>8
    <2>2. \A m : (\A k \in i .. n : k < m => ~M(k)) <=> \A k \in (i + 1) .. n : k < m => ~M(k)
      BY <1>2, <1>8
    <2>3. \A m : m \in i .. n /\ M(m) <=> m \in (i + 1) .. n /\ M(m)
      BY <1>2, <1>8
    <2> QED  BY <1>5, <1>6, <1>8, <2>1, <2>2, <2>3 DEF M
  <1> QED  BY <1>7, <1>8

\* allowed is the function that the loop over the rules computes, from the last
\* to the first
Allows(allowed, list, address, iport) ==
    allowed = [i \in 1 .. Len(list) + 1 |->
                 IF i = Len(list) + 1 THEN Ports
                 ELSE IF ~ MatchInternal(list[i], address, iport) THEN allowed[i + 1]
                 ELSE IF list[i].type = UPNPPERM_ALLOW
                      THEN allowed[i + 1] \cup SetPorts(list[i])
                      ELSE allowed[i + 1] \ SetPorts(list[i])]

Accepted(list, i, address, iport) ==
    {eport \in Ports : Accepts(list, i, eport, address, iport)}

\* One turn of that loop has the ports that the rules from i on accept, if the
\* turn before it had those that the later rules accept.
LEMMA AcceptedNext ==
    ASSUME NEW list, Rules(list), NEW i \in 1 .. Len(list), NEW address, NEW iport
    PROVE  Accepted(list, i, address, iport) =
              IF ~ MatchInternal(list[i], address, iport) THEN Accepted(list, i + 1, address, iport)
              ELSE IF list[i].type = UPNPPERM_ALLOW
                   THEN Accepted(list, i + 1, address, iport) \cup SetPorts(list[i])
                   ELSE Accepted(list, i + 1, address, iport) \ SetPorts(list[i])
  <1> DEFINE perm == list[i]
  <1>1. perm.eport_min \in Ports /\ perm.eport_max \in Ports
    BY DEF Rules
  <1>2. SetPorts(perm) = perm.eport_min .. perm.eport_max
    BY <1>1, SetPortsRange
  <1>3. TopPort \in Nat
    BY Words
  <1>4. SetPorts(perm) \subseteq Ports
    BY <1>1, <1>2, <1>3 DEF Ports
  <1>5. ASSUME NEW eport \in Ports
        PROVE  Matches(list, i, eport, address, iport)
                  <=> eport \in SetPorts(perm) /\ MatchInternal(perm, address, iport)
    <2>1. eport \in Int
      BY <1>3 DEF Ports
    <2>2. eport \in SetPorts(perm) <=> perm.eport_min <= eport /\ eport <= perm.eport_max
      BY <1>1, <1>2, <1>3, <2>1 DEF Ports
    <2> QED  BY <2>2 DEF Matches, MatchPermission
  <1>6. ASSUME NEW eport \in Ports
        PROVE  Accepts(list, i, eport, address, iport)
                  <=> IF Matches(list, i, eport, address, iport) THEN perm.type = UPNPPERM_ALLOW
                      ELSE Accepts(list, i + 1, eport, address, iport)
    BY AcceptsNext
  <1> HIDE DEF perm
  <1>7. CASE ~ MatchInternal(perm, address, iport)
    <2>1. Accepted(list, i, address, iport) = Accepted(list, i + 1, address, iport)
      BY <1>5, <1>6, <1>7 DEF Accepted
    <2> QED  BY <1>7, <2>1 DEF perm
  <1>8. CASE MatchInternal(perm, address, iport) /\ perm.type = UPNPPERM_ALLOW
    <2>1. Accepted(list, i, address, iport)
             = Accepted(list, i + 1, address, iport) \cup SetPorts(perm)
      BY <1>4, <1>5, <1>6, <1>8 DEF Accepted
    <2> QED  BY <1>8, <2>1 DEF perm
  <1>9. CASE MatchInternal(perm, address, iport) /\ perm.type # UPNPPERM_ALLOW
    <2>1. Accepted(list, i, address, iport)
             = Accepted(list, i + 1, address, iport) \ SetPorts(perm)
      BY <1>4, <1>5, <1>6, <1>9 DEF Accepted
    <2> QED  BY <1>9, <2>1 DEF perm
  <1> QED  BY <1>7, <1>8, <1>9

\* get_permitted_ext_ports() has the ports that the rules accept.
LEMMA PermittedIsAccepted ==
    ASSUME NEW list, Rules(list), NEW address, NEW iport
    PROVE  PermittedExtPorts(list, address, iport) = Accepted(list, 1, address, iport)
  <1> DEFINE n == Len(list)
             Acc(i) == Accepted(list, i, address, iport)
             Turn(i, later) == IF ~ MatchInternal(list[i], address, iport) THEN later
                               ELSE IF list[i].type = UPNPPERM_ALLOW
                                    THEN later \cup SetPorts(list[i])
                                    ELSE later \ SetPorts(list[i])
             accepted == [i \in 1 .. n + 1 |-> Acc(i)]
             allowed == CHOOSE f : Allows(f, list, address, iport)
  <1>1. n \in Nat
    BY DEF Rules
  <1>2. PermittedExtPorts(list, address, iport) = allowed[1]
    BY DEF PermittedExtPorts, Allows
  <1>3. \A f : Allows(f, list, address, iport)
                 <=> f = [i \in 1 .. n + 1 |-> IF i = n + 1 THEN Ports ELSE Turn(i, f[i + 1])]
    BY DEF Allows
  <1>4. \A i \in 1 .. n : Acc(i) = Turn(i, Acc(i + 1))
    BY AcceptedNext
  <1>5. Acc(n + 1) = Ports
    <2>1. (n + 1) .. n = {}
      BY <1>1
    <2> HIDE DEF n
    <2>2. \A eport : Accepts(list, n + 1, eport, address, iport)
      BY <2>1 DEF Accepts, n
    <2> QED  BY <2>2 DEF Accepted
  <1> HIDE DEF n, Acc, Turn
  <1>6. Allows(accepted, list, address, iport)
    <2>1. ASSUME NEW i \in 1 .. n + 1
          PROVE  accepted[i] = IF i = n + 1 THEN Ports ELSE Turn(i, accepted[i + 1])
      <3>1. CASE i = n + 1
        BY <1>5, <3>1
      <3>2. CASE i # n + 1
        <4>1. i \in 1 .. n /\ i + 1 \in 1 .. n + 1
          BY <1>1, <3>2
        <4> QED  BY <1>4, <3>2, <4>1
      <3> QED  BY <3>1, <3>2
    <2>2. accepted = [i \in 1 .. n + 1 |-> accepted[i]]
      OBVIOUS
    <2> HIDE DEF accepted
    <2>3. accepted = [i \in 1 .. n + 1 |-> IF i = n + 1 THEN Ports ELSE Turn(i, accepted[i + 1])]
      BY <2>1, <2>2
    <2> QED  BY <1>3, <2>3
  <1>7. Allows(allowed, list, address, iport)
    BY <1>6
  <1> HIDE DEF allowed
  <1>8. \A i \in 1 .. n + 1 : allowed[i] = IF i = n + 1 THEN Ports ELSE Turn(i, allowed[i + 1])
    BY <1>3, <1>7
  <1> DEFINE S == {k \in Nat : k <= n => allowed[n + 1 - k] = Acc(n + 1 - k)}
  <1>9. 0 \in S
    <2>1. n + 1 - 0 = n + 1 /\ n + 1 \in 1 .. n + 1
      BY <1>1
    <2> QED  BY <1>5, <1>8, <2>1
  <1>10. ASSUME NEW k \in Nat, k \in S PROVE k + 1 \in S
    <2> SUFFICES ASSUME k + 1 <= n PROVE allowed[n + 1 - (k + 1)] = Acc(n + 1 - (k + 1))
      BY <1>10
    <2>1. PICK i \in 1 .. n : i = n - k
      BY <1>1
    <2>2. n + 1 - (k + 1) = i /\ n + 1 - k = i + 1 /\ i # n + 1 /\ i \in 1 .. n + 1 /\ k <= n
      BY <1>1, <2>1
    <2>3. allowed[i + 1] = Acc(i + 1)
      BY <1>10, <2>2
    <2> QED  BY <1>4, <1>8, <2>2, <2>3
  <1> HIDE DEF S
  <1>11. n \in S
    BY <1>1, <1>9, <1>10, AllNaturals
  <1>12. n + 1 - n = 1
    BY <1>1
  <1>13. allowed[1] = Acc(1)
    BY <1>1, <1>11, <1>12 DEF S
  <1> QED  BY <1>2, <1>13 DEF Acc

-----------------------------------------------------------------------------
(***************************************************************************)
(* The configuration, and the server.                                      *)
(***************************************************************************)
\* The rules of a configuration file have ports: the others are not read.
LEMMA PermListRules ==
    ASSUME NEW lines \in PermLists
    PROVE  Rules(PermList(lines))
  <1> DEFINE n == Len(lines)
             Read(i) == ReadPermissionLine(lines[i])
             T == {r \in {Read(i)[1] : i \in 1 .. n} : r.eport_min \in Ports /\ r.eport_max \in Ports}
             seqs == [i \in 1 .. n |-> Read(i)]
  <1>1. n \in Nat /\ DOMAIN lines = 1 .. n /\ \A i \in 1 .. n : lines[i].eport \in Seq(Nat)
    BY PermListsAssumption
  <1>2. ASSUME NEW i \in 1 .. n PROVE Read(i) \in Seq(T)
    <2> DEFINE line == lines[i]
               rule == [type      |-> IF line.type = "allow" THEN UPNPPERM_ALLOW ELSE UPNPPERM_DENY,
                        eport_min |-> line.eport[1], eport_max |-> Last(line.eport),
                        address   |-> line.address, mask |-> line.mask,
                        iport_min |-> line.iport[1], iport_max |-> Last(line.iport)]
    <2>1. \/ Read(i) = <<>>
          \/ GoodRange(line.eport) /\ Read(i) = <<rule>>
      BY DEF ReadPermissionLine
    <2>2. CASE Read(i) = <<>>
      BY <2>2
    <2>3. CASE GoodRange(line.eport) /\ Read(i) = <<rule>>
      <3>1. line.eport \in Seq(Nat) /\ line.eport # <<>>
            /\ \A j \in DOMAIN line.eport : line.eport[j] <= TopPort
        BY <1>1, <2>3 DEF GoodRange
      <3>2. 1 \in DOMAIN line.eport /\ Len(line.eport) \in DOMAIN line.eport
        BY <3>1
      <3>3. line.eport[1] \in Ports /\ Last(line.eport) \in Ports
        BY <3>1, <3>2, Words DEF Ports, Last
      <3>4. rule.eport_min \in Ports /\ rule.eport_max \in Ports
        BY <3>3
      <3> HIDE DEF rule, Read
      <3>5. Read(i)[1] = rule
        BY <2>3
      <3>6. rule \in T
        BY <3>4, <3>5
      <3> HIDE DEF T
      <3>7. <<rule>> \in Seq(T)
        BY <3>6
      <3> QED  BY <2>3, <3>7
    <2> QED  BY <2>1, <2>2, <2>3
  <1>3. PermList(lines) = FlattenSeq(seqs)
    BY <1>1 DEF PermList
  <1> HIDE DEF Read
  <1>4. seqs \in [1 .. n -> Seq(T)]
    BY <1>2
  <1>5. \A r \in T : r.eport_min \in Ports /\ r.eport_max \in Ports
    OBVIOUS
  <1> HIDE DEF seqs, T
  <1>6. PermList(lines) \in Seq(T)
    BY <1>1, <1>3, <1>4, FlattenTyped
  <1> QED  BY <1>5, <1>6 DEF Rules

\* What a request or an answer does leaves the configuration as it is.
LEMMA PermsStay == [MsNext]_msvars => UNCHANGED perms
  <1> SUFFICES ASSUME [MsNext]_msvars PROVE UNCHANGED perms
    OBVIOUS
  <1>1. ASSUME NEW s, NEW answer, Finish(s, answer) PROVE UNCHANGED perms
    BY <1>1 DEF Finish
  <1>2. ASSUME NEW req, NEW t, Natpmp(req, t) PROVE UNCHANGED perms
    BY <1>1, <1>2 DEF Natpmp
  <1>3. ASSUME NEW req, NEW t, Pcp(req, t) PROVE UNCHANGED perms
    BY <1>1, <1>3 DEF Pcp, PcpMapOrPeer
  <1>4. ASSUME NEW req, NEW eport, NEW t, AddAnyPortMapping(req, eport, t) PROVE UNCHANGED perms
    BY <1>1, <1>4 DEF AddAnyPortMapping
  <1>5. ASSUME NEW req, List(req) PROVE UNCHANGED perms
    BY <1>1, <1>5 DEF List
  <1>6. CASE Send
    BY <1>6 DEF Send
  <1>7. CASE UNCHANGED msvars
    BY <1>7 DEF msvars
  <1> QED  BY <1>2, <1>3, <1>4, <1>5, <1>6, <1>7 DEF MsNext

\* Filled word by word from the last rule to the first, the table of permitted
\* ports of AddAnyPortMapping has the ports that the rules allow when each is
\* checked by itself: for any configuration, any host and any number of ports.
THEOREM TableIsPermitted == MsSpec => []PermittedSame
  <1>1. MsInit => Rules(perms)
    BY PermListRules DEF MsInit
  <1>2. Rules(perms) /\ [MsNext]_msvars => Rules(perms)'
    BY PermsStay DEF Rules
  <1>3. Rules(perms) => PermittedSame
    <2> SUFFICES ASSUME Rules(perms), NEW address, NEW iport
                 PROVE  PermittedExtPorts(perms, address, iport)
                           = {eport \in Ports : CheckPermissions(perms, eport, address, iport)}
      BY DEF PermittedSame
    <2>1. \A eport : CheckPermissions(perms, eport, address, iport)
                        <=> Accepts(perms, 1, eport, address, iport)
      BY CheckIsAccepts
    <2>2. PermittedExtPorts(perms, address, iport) = Accepted(perms, 1, address, iport)
      BY PermittedIsAccepted
    <2> QED  BY <2>1, <2>2 DEF Accepted
  <1> QED  BY <1>1, <1>2, <1>3, PTL DEF MsSpec

-----------------------------------------------------------------------------
(***************************************************************************)
(* The table: places, a mapping more, a mapping less.                      *)
(***************************************************************************)
Listed(q) == \E T : q \in Seq(T)

Has(q, m) == \E i \in 1 .. Len(q) : q[i] = m

SameKey(a, b) == a.eport = b.eport /\ a.proto = b.proto

\* No port is mapped twice; and if one is, then to the same host
KeysDiffer(q) == \A i, j \in 1 .. Len(q) : SameKey(q[i], q[j]) => i = j
HostsSame(q) == \A i, j \in 1 .. Len(q) : SameKey(q[i], q[j]) => q[i].iaddr = q[j].iaddr

\* No member of q has the key.
FreeAt(q, eport, proto) == \A i \in 1 .. Len(q) : ~ IsKey(q[i], eport, proto)

\* w is q without the member at k.
Cut(w, q, k) ==
    /\ Listed(w)
    /\ \E f : /\ \A i \in 1 .. Len(w) : f[i] \in 1 .. Len(q) /\ f[i] # k /\ w[i] = q[f[i]]
              /\ \A i, j \in 1 .. Len(w) : f[i] = f[j] => i = j
              /\ \A m \in 1 .. Len(q) : m # k => \E i \in 1 .. Len(w) : f[i] = m

\* The place that the search finds
LEMMA FindFinds ==
    ASSUME NEW q, Listed(q), NEW eport, NEW proto
    PROVE  /\ Find(q, eport, proto) = 0 => FreeAt(q, eport, proto)
           /\ Find(q, eport, proto) # 0 => /\ Find(q, eport, proto) \in 1 .. Len(q)
                                           /\ IsKey(q[Find(q, eport, proto)], eport, proto)
  <1> DEFINE I == {i \in 1 .. Len(q) : IsKey(q[i], eport, proto)}
  <1>1. Find(q, eport, proto) = IF I # {} THEN Min(I) ELSE 0
    BY DEF Find, SelectInSeq
  <1>2. I \subseteq Nat
    BY DEF Listed
  <1>3. I # {} => Min(I) \in I
    <2> SUFFICES ASSUME I # {} PROVE Min(I) \in I
      OBVIOUS
    <2>1. \E m \in I : \A k \in I : m <= k
      BY <1>2, LeastNatural
    <2> QED  BY <2>1 DEF Min
  <1>4. I = {} => FreeAt(q, eport, proto)
    BY DEF FreeAt
  <1>5. 0 \notin 1 .. Len(q)
    BY DEF Listed
  <1> QED  BY <1>1, <1>3, <1>4, <1>5

\* One member is taken out.
LEMMA RemovedIsCut ==
    ASSUME NEW q, Listed(q), NEW k \in 1 .. Len(q)
    PROVE  Cut(RemoveAt(q, k), q, k)
  <1>1. PICK T : q \in Seq(T)
    BY DEF Listed
  <1>2. RemoveAt(q, k) \in Seq(T) /\ \E f : Thinned(RemoveAt(q, k), q, f, {k})
    BY <1>1, CutThinned
  <1>3. PICK f : Thinned(RemoveAt(q, k), q, f, {k})
    BY <1>2
  <1>4. /\ \A i \in 1 .. Len(RemoveAt(q, k)) :
              f[i] \in 1 .. Len(q) /\ f[i] # k /\ RemoveAt(q, k)[i] = q[f[i]]
        /\ \A i, j \in 1 .. Len(RemoveAt(q, k)) : f[i] = f[j] => i = j
        /\ \A m \in 1 .. Len(q) : m # k => \E i \in 1 .. Len(RemoveAt(q, k)) : f[i] = m
    BY <1>3 DEF Thinned
  <1> QED  BY <1>2, <1>4 DEF Cut, Listed

\* What a list with a member less still is
LEMMA CutKeeps ==
    ASSUME NEW q, NEW k, NEW w, Cut(w, q, k)
    PROVE  /\ Listed(w)
           /\ KeysDiffer(q) => KeysDiffer(w)
           /\ HostsSame(q) => HostsSame(w)
           /\ \A i \in 1 .. Len(w) : Has(q, w[i])
           /\ \A i \in 1 .. Len(q) : q[i] # q[k] => Has(w, q[i])
           /\ KeysDiffer(q) /\ k \in 1 .. Len(q) => FreeAt(w, q[k].eport, q[k].proto)
  <1>1. PICK f : /\ \A i \in 1 .. Len(w) : f[i] \in 1 .. Len(q) /\ f[i] # k /\ w[i] = q[f[i]]
                 /\ \A i, j \in 1 .. Len(w) : f[i] = f[j] => i = j
                 /\ \A m \in 1 .. Len(q) : m # k => \E i \in 1 .. Len(w) : f[i] = m
    BY DEF Cut
  <1>2. Listed(w)
    BY DEF Cut
  <1>3. KeysDiffer(q) => KeysDiffer(w)
    <2> SUFFICES ASSUME KeysDiffer(q), NEW i \in 1 .. Len(w), NEW j \in 1 .. Len(w),
                        SameKey(w[i], w[j])
                 PROVE  i = j
      BY DEF KeysDiffer
    <2>1. w[i] = q[f[i]] /\ w[j] = q[f[j]] /\ f[i] \in 1 .. Len(q) /\ f[j] \in 1 .. Len(q)
      BY <1>1
    <2>2. f[i] = f[j]
      BY <2>1 DEF KeysDiffer
    <2> QED  BY <1>1, <2>2
  <1>4. HostsSame(q) => HostsSame(w)
    <2> SUFFICES ASSUME HostsSame(q), NEW i \in 1 .. Len(w), NEW j \in 1 .. Len(w),
                        SameKey(w[i], w[j])
                 PROVE  w[i].iaddr = w[j].iaddr
      BY DEF HostsSame
    <2>1. w[i] = q[f[i]] /\ w[j] = q[f[j]] /\ f[i] \in 1 .. Len(q) /\ f[j] \in 1 .. Len(q)
      BY <1>1
    <2> QED  BY <2>1 DEF HostsSame
  <1>5. \A i \in 1 .. Len(w) : Has(q, w[i])
    BY <1>1 DEF Has
  <1>6. ASSUME NEW i \in 1 .. Len(q), q[i] # q[k] PROVE Has(w, q[i])
    <2>1. PICK j \in 1 .. Len(w) : f[j] = i
      BY <1>1, <1>6
    <2> QED  BY <1>1, <2>1 DEF Has
  <1>7. KeysDiffer(q) /\ k \in 1 .. Len(q) => FreeAt(w, q[k].eport, q[k].proto)
    <2> SUFFICES ASSUME KeysDiffer(q), k \in 1 .. Len(q), NEW i \in 1 .. Len(w),
                        IsKey(w[i], q[k].eport, q[k].proto)
                 PROVE  FALSE
      BY DEF FreeAt
    <2>1. w[i] = q[f[i]] /\ f[i] \in 1 .. Len(q) /\ f[i] # k
      BY <1>1
    <2>2. SameKey(q[f[i]], q[k])
      BY <2>1 DEF IsKey, SameKey
    <2> QED  BY <2>1, <2>2 DEF KeysDiffer
  <1> QED  BY <1>2, <1>3, <1>4, <1>5, <1>6, <1>7

\* One member is added.
LEMMA OneMore ==
    ASSUME NEW q, Listed(q), NEW m
    PROVE  /\ Listed(Append(q, m)) /\ Has(Append(q, m), m)
           /\ \A i \in 1 .. Len(q) : Has(Append(q, m), q[i])
           /\ KeysDiffer(q) /\ FreeAt(q, m.eport, m.proto) => KeysDiffer(Append(q, m))
           /\ HostsSame(q) /\ (\A i \in 1 .. Len(q) : SameKey(q[i], m) => q[i].iaddr = m.iaddr)
                => HostsSame(Append(q, m))
  <1> DEFINE w == Append(q, m)
             n == Len(q)
  <1>1. PICK T : q \in Seq(T)
    BY DEF Listed
  <1>2. PICK U : U = T \cup {m}
    OBVIOUS
  <1>3. q \in Seq(U) /\ m \in U
    BY <1>1, <1>2
  <1>4. /\ w \in Seq(U) /\ Len(w) = n + 1 /\ n \in Nat
        /\ w[n + 1] = m /\ \A i \in 1 .. n : w[i] = q[i]
    BY <1>3
  <1> HIDE DEF w, n
  <1>5. \A i \in 1 .. Len(w) : (i \in 1 .. n /\ w[i] = q[i]) \/ (i = n + 1 /\ w[i] = m)
    <2> SUFFICES ASSUME NEW i \in 1 .. n + 1
                 PROVE  (i \in 1 .. n /\ w[i] = q[i]) \/ (i = n + 1 /\ w[i] = m)
      BY <1>4
    <2>1. CASE i = n + 1
      BY <1>4, <2>1
    <2>2. CASE i # n + 1
      <3>1. i \in 1 .. n
        BY <1>4, <2>2
      <3>2. w[i] = q[i]
        BY <1>4, <3>1
      <3> QED  BY <3>1, <3>2
    <2> QED  BY <2>1, <2>2
  <1>6. n + 1 \in 1 .. Len(w) /\ \A i \in 1 .. n : i \in 1 .. Len(w)
    BY <1>4
  <1>7. KeysDiffer(q) /\ FreeAt(q, m.eport, m.proto) => KeysDiffer(w)
    BY <1>5 DEF KeysDiffer, FreeAt, IsKey, SameKey, n
  <1>8. HostsSame(q) /\ (\A i \in 1 .. Len(q) : SameKey(q[i], m) => q[i].iaddr = m.iaddr)
          => HostsSame(w)
    BY <1>5 DEF HostsSame, SameKey, n
  <1>9. Listed(w) /\ Has(w, m) /\ \A i \in 1 .. Len(q) : Has(w, q[i])
    BY <1>4, <1>6 DEF Listed, Has, n
  <1> QED  BY <1>7, <1>8, <1>9 DEF w

\* One member is replaced by another with the same key and host.
LEMMA OneChanged ==
    ASSUME NEW q, Listed(q), NEW k \in 1 .. Len(q), NEW m, SameKey(q[k], m), q[k].iaddr = m.iaddr
    PROVE  /\ Listed([q EXCEPT ![k] = m]) /\ Has([q EXCEPT ![k] = m], m)
           /\ \A i \in 1 .. Len(q) : i # k => Has([q EXCEPT ![k] = m], q[i])
           /\ KeysDiffer(q) => KeysDiffer([q EXCEPT ![k] = m])
           /\ HostsSame(q) => HostsSame([q EXCEPT ![k] = m])
  <1> DEFINE w == [q EXCEPT ![k] = m]
  <1>1. PICK T : q \in Seq(T)
    BY DEF Listed
  <1>2. PICK U : U = T \cup {m}
    OBVIOUS
  <1>3. q \in Seq(U) /\ m \in U
    BY <1>1, <1>2
  <1>4. /\ w \in Seq(U) /\ Len(w) = Len(q)
        /\ \A i \in 1 .. Len(q) : w[i] = IF i = k THEN m ELSE q[i]
    BY <1>3
  <1> HIDE DEF w
  <1>5. Listed(w) /\ Has(w, m) /\ \A i \in 1 .. Len(q) : i # k => Has(w, q[i])
    BY <1>4 DEF Listed, Has
  <1>6. KeysDiffer(q) => KeysDiffer(w)
    BY <1>4 DEF KeysDiffer, SameKey
  <1>7. HostsSame(q) => HostsSame(w)
    BY <1>4 DEF HostsSame, SameKey
  <1> QED  BY <1>5, <1>6, <1>7 DEF w

-----------------------------------------------------------------------------
(***************************************************************************)
(* What a request works on.                                                *)
(***************************************************************************)
State(s) ==
    /\ s = [table |-> s.table, peers |-> s.peers, dels |-> s.dels, unsure |-> s.unsure]
    /\ s.unsure \in BOOLEAN
    /\ Listed(s.table) /\ HostsSame(s.table)
    /\ ~ unsure /\ ~ s.unsure => KeysDiffer(s.table)

\* The mappings of the other hosts are there.
OthersStay(s, iaddr) == \A i \in 1 .. Len(table) : Has(s.table, table[i]) \/ table[i].iaddr = iaddr

\* The members of v are members of w, but for what is gone.
Within(v, w) == \A m : Has(v, m) => Has(w, m)
AllBut(v, w, gone) == \A m : Has(w, m) => Has(v, m) \/ m \in gone

\* A deletion takes one mapping, and leaves none with the port if it succeeds.
LEMMA DeletesOne ==
    ASSUME unsure \in BOOLEAN, NEW s, State(s), NEW eport, NEW proto, NEW t,
           NEW out, out = DeleteRedir(s, eport, proto, t), NEW k, k = Find(s.table, eport, proto)
    PROVE  /\ State(out.s)
           /\ Within(out.s.table, s.table)
           /\ AllBut(out.s.table, s.table, IF k = 0 THEN {} ELSE {s.table[k]})
           /\ s.unsure => out.s.unsure
           /\ ~ unsure /\ ~ out.s.unsure => /\ FreeAt(out.s.table, eport, proto) /\ out.r = 0
                                            /\ out.s.table = Without(s.table, k)
  <1> DEFINE trouble == t.at = s.dels + 1
             stays == trouble /\ ~ t.gone
             q == s.table
             w == Without(q, k)
             v == Without(s.peers, Find(s.peers, eport, proto))
             n == out.s
  <1>1. /\ n.table = IF stays THEN q ELSE w
        /\ n.unsure = (s.unsure \/ trouble)
        /\ n.peers = IF stays THEN s.peers ELSE v
        /\ n.dels = s.dels + 1
        /\ n = [table |-> n.table, peers |-> n.peers, dels |-> n.dels, unsure |-> n.unsure]
        /\ out.r = IF trouble THEN t.r ELSE 0
    <2> HIDE DEF w, v
    <2>1. DeleteRedir(s, eport, proto, t) =
            Out([s EXCEPT !.dels = @ + 1, !.unsure = @ \/ trouble,
                          !.table = IF stays THEN @ ELSE w,
                          !.peers = IF stays THEN @ ELSE v],
                IF trouble THEN t.r ELSE 0)
      BY DEF DeleteRedir, w, v
    <2> HIDE DEF trouble, stays
    <2>2. \A a, b : Out(a, b).s = a /\ Out(a, b).r = b
      BY DEF Out
    <2> HIDE DEF n
    <2>3. /\ n = [s EXCEPT !.dels = @ + 1, !.unsure = @ \/ trouble,
                          !.table = IF stays THEN @ ELSE w,
                          !.peers = IF stays THEN @ ELSE v]
          /\ out.r = IF trouble THEN t.r ELSE 0
      BY <2>1, <2>2 DEF n
    <2>4. s = [table |-> s.table, peers |-> s.peers, dels |-> s.dels, unsure |-> s.unsure]
      BY DEF State
    <2>5. /\ n.table = IF stays THEN q ELSE w
          /\ n.unsure = (s.unsure \/ trouble)
          /\ n.peers = IF stays THEN s.peers ELSE v
          /\ n.dels = s.dels + 1
      BY <2>3, <2>4
    <2>6. n = [table |-> n.table, peers |-> n.peers, dels |-> n.dels, unsure |-> n.unsure]
      BY <2>3, <2>4
    <2> QED  BY <2>3, <2>5, <2>6
  <1>2. Listed(q) /\ HostsSame(q) /\ (~ unsure /\ ~ s.unsure => KeysDiffer(q)) /\ s.unsure \in BOOLEAN
    BY DEF State
  <1>3. k = 0 => w = q /\ FreeAt(q, eport, proto)
    BY <1>2, FindFinds DEF Without
  <1>4. k # 0 => k \in 1 .. Len(q) /\ q[k].eport = eport /\ q[k].proto = proto /\ Cut(w, q, k)
    BY <1>2, FindFinds, RemovedIsCut DEF Without, IsKey
  <1> HIDE DEF w, v, q, n
  <1>5. k # 0 => /\ Listed(w) /\ HostsSame(w) /\ (KeysDiffer(q) => KeysDiffer(w))
                 /\ \A i \in 1 .. Len(w) : Has(q, w[i])
                 /\ \A i \in 1 .. Len(q) : q[i] # q[k] => Has(w, q[i])
                 /\ KeysDiffer(q) => FreeAt(w, eport, proto)
    BY <1>2, <1>4, CutKeeps
  <1>6. /\ \A m : Has(w, m) => Has(q, m)
        /\ \A m : Has(q, m) => Has(w, m) \/ (k # 0 /\ m = q[k])
    <2>1. CASE k = 0
      BY <1>3, <2>1
    <2>2. CASE k # 0
      <3>1. ASSUME NEW m, Has(w, m) PROVE Has(q, m)
        BY <1>5, <2>2, <3>1 DEF Has
      <3>2. ASSUME NEW m, Has(q, m), m # q[k] PROVE Has(w, m)
        BY <1>5, <2>2, <3>2 DEF Has
      <3> QED  BY <2>2, <3>1, <3>2
    <2> QED  BY <2>1, <2>2
  <1>7. Listed(w) /\ HostsSame(w) /\ (KeysDiffer(q) => KeysDiffer(w) /\ FreeAt(w, eport, proto))
    BY <1>2, <1>3, <1>5
  <1>8. n.unsure \in BOOLEAN /\ n.table \in {q, w} /\ (s.unsure => n.unsure)
        /\ (~ n.unsure => ~ s.unsure /\ n.table = w /\ out.r = 0)
    <2> HIDE DEF trouble
    <2>1. trouble \in BOOLEAN
      BY DEF trouble
    <2> QED  BY <1>1, <1>2, <2>1
  <1>9. State(n)
    BY <1>1, <1>2, <1>7, <1>8 DEF State
  <1>10. ~ unsure /\ ~ n.unsure => FreeAt(n.table, eport, proto) /\ out.r = 0 /\ n.table = w
    BY <1>2, <1>7, <1>8
  <1>11. Within(n.table, q) /\ AllBut(n.table, q, IF k = 0 THEN {} ELSE {q[k]})
    BY <1>6, <1>8 DEF Within, AllBut
  <1> QED  BY <1>8, <1>9, <1>10, <1>11 DEF n, q, w

\* What is added is there when the back end says so.
LEMMA AddsOne ==
    ASSUME unsure \in BOOLEAN, NEW s, State(s), NEW m, NEW t,
           \A i \in 1 .. Len(s.table) : SameKey(s.table[i], m) => s.table[i].iaddr = m.iaddr,
           ~ unsure /\ ~ s.unsure => FreeAt(s.table, m.eport, m.proto),
           NEW out, out = RedirectInternal(s, m, t)
    PROVE  /\ State(out.s)
           /\ Within(s.table, out.s.table)
           /\ out.s.unsure = s.unsure
           /\ out.r \in {0, -1}
           /\ out.r = 0 => Has(out.s.table, m)
  <1> DEFINE w == Append(s.table, m)
             added == [s EXCEPT !.table = Append(@, m)]
  <1>1. Listed(s.table) /\ HostsSame(s.table) /\ (~ unsure /\ ~ s.unsure => KeysDiffer(s.table))
    BY DEF State
  <1>2. /\ Listed(w) /\ HostsSame(w) /\ Has(w, m)
        /\ \A i \in 1 .. Len(s.table) : Has(w, s.table[i])
        /\ ~ unsure /\ ~ s.unsure => KeysDiffer(w)
    BY <1>1, OneMore
  <1> HIDE DEF w
  <1>3. /\ added.table = w /\ added.unsure = s.unsure
        /\ added = [table |-> added.table, peers |-> added.peers, dels |-> added.dels,
                    unsure |-> added.unsure]
    BY DEF State, w
  <1> HIDE DEF added
  <1>4. State(added) /\ added.table = w /\ added.unsure = s.unsure
    BY <1>2, <1>3 DEF State
  <1>5. /\ out.s = IF t.add = "refused" THEN s ELSE added
        /\ out.r = IF t.add = "ok" THEN 0 ELSE -1
    BY DEF RedirectInternal, Out, added
  <1>6. Within(s.table, w) /\ Within(s.table, s.table)
    BY <1>2 DEF Has, Within
  <1>7. out.r = 0 => out.s = added
    BY <1>5
  <1> QED  BY <1>2, <1>4, <1>5, <1>6, <1>7

\* One that is there for the same host is replaced.
LEMMA ReplacesOwn ==
    ASSUME unsure \in BOOLEAN, NEW s, State(s), NEW m, NEW t,
           NEW k, k = Find(s.table, m.eport, m.proto), k # 0, s.table[k].iaddr = m.iaddr,
           OthersStay(s, m.iaddr),
           NEW del, del = DeleteRedir(s, m.eport, m.proto, t),
           NEW out, out = RedirectInternal(del.s, m, t)
    PROVE  /\ State(del.s) /\ OthersStay(del.s, m.iaddr)
           /\ State(out.s) /\ OthersStay(out.s, m.iaddr)
           /\ s.unsure => del.s.unsure
           /\ out.s.unsure = del.s.unsure
           /\ ~ unsure /\ ~ del.s.unsure => del.r = 0
           /\ out.r \in {0, -1}
           /\ out.r = 0 => Has(out.s.table, m)
  <1>1. /\ State(del.s)
        /\ Within(del.s.table, s.table)
        /\ AllBut(del.s.table, s.table, IF k = 0 THEN {} ELSE {s.table[k]})
        /\ s.unsure => del.s.unsure
        /\ ~ unsure /\ ~ del.s.unsure => FreeAt(del.s.table, m.eport, m.proto) /\ del.r = 0
    BY DeletesOne
  <1>2. OthersStay(del.s, m.iaddr)
    <2> SUFFICES ASSUME NEW i \in 1 .. Len(table), table[i].iaddr # m.iaddr
                 PROVE  Has(del.s.table, table[i])
      BY DEF OthersStay
    <2>1. Has(s.table, table[i])
      BY DEF OthersStay
    <2> QED  BY <1>1, <2>1 DEF AllBut
  <1>3. k \in 1 .. Len(s.table) /\ SameKey(s.table[k], m)
    BY FindFinds DEF State, IsKey, SameKey
  <1>4. \A i \in 1 .. Len(del.s.table) : SameKey(del.s.table[i], m) => del.s.table[i].iaddr = m.iaddr
    <2> SUFFICES ASSUME NEW i \in 1 .. Len(del.s.table), SameKey(del.s.table[i], m)
                 PROVE  del.s.table[i].iaddr = m.iaddr
      OBVIOUS
    <2>1. Has(s.table, del.s.table[i])
      BY <1>1 DEF Has, Within
    <2>2. PICK j \in 1 .. Len(s.table) : s.table[j] = del.s.table[i]
      BY <2>1 DEF Has
    <2>3. SameKey(s.table[j], s.table[k])
      BY <1>3, <2>2 DEF SameKey
    <2>4. s.table[j].iaddr = s.table[k].iaddr
      BY <1>3, <2>3 DEF State, HostsSame
    <2> QED  BY <2>2, <2>4
  <1>5. /\ State(out.s)
        /\ Within(del.s.table, out.s.table)
        /\ out.s.unsure = del.s.unsure /\ out.r \in {0, -1}
        /\ out.r = 0 => Has(out.s.table, m)
    BY <1>1, <1>4, AddsOne
  <1>6. OthersStay(out.s, m.iaddr)
    BY <1>2, <1>5 DEF OthersStay, Within
  <1> QED  BY <1>1, <1>2, <1>5, <1>6

-----------------------------------------------------------------------------
(***************************************************************************)
(* The way round the ports.                                                *)
(***************************************************************************)
\* The port that is tried at turn i
At(first, i) == IF first + i - 1 <= TopPort THEN first + i - 1 ELSE first + i - 1 - TopPort

\* From any port on, the next port each time comes by every port and back to the first.
LEMMA WayRound ==
    ASSUME NEW first \in 1 .. TopPort
    PROVE  /\ At(first, 1) = first
           /\ \A i \in 1 .. TopPort : At(first, i + 1) = NextPort(At(first, i))
           /\ \A i \in 1 .. TopPort + 1 : i > 1 /\ At(first, i) = first => i = TopPort + 1
           /\ At(first, TopPort + 1) = first /\ TopPort + 1 > 1
           /\ \A eport \in Ports \ {0} : \E i \in 1 .. TopPort : At(first, i) = eport
  <1>1. TopPort \in Nat /\ TopPort >= 1 /\ first \in Nat
    BY PermissionsAssumption
  <1>2. ASSUME NEW i \in 1 .. TopPort PROVE At(first, i + 1) = NextPort(At(first, i))
    BY <1>1 DEF At, NextPort
  <1>3. ASSUME NEW eport \in Ports \ {0} PROVE \E i \in 1 .. TopPort : At(first, i) = eport
    <2> DEFINE i == IF eport >= first THEN eport - first + 1 ELSE eport - first + 1 + TopPort
    <2>1. eport \in Nat /\ 1 <= eport /\ eport <= TopPort
      BY <1>1 DEF Ports
    <2>2. i \in 1 .. TopPort
      BY <1>1, <2>1
    <2>3. At(first, i) = eport
      BY <1>1, <2>1 DEF At
    <2> HIDE DEF i
    <2> QED  BY <2>2, <2>3
  <1> QED  BY <1>1, <1>2, <1>3 DEF At

-----------------------------------------------------------------------------
(***************************************************************************)
(* One turn after the other.                                               *)
(***************************************************************************)
\* One turn of the loop what
Turn(what, x, i, req, t) ==
    CASE what = "natpmp" -> NatpmpTry(x, i, req, t)
      [] what = "delete" -> NatpmpDeleteStep(x, req, t)
      [] what = "pcp" -> PcpTry(x, i, req, t)
      [] what = "any" -> AnyTry(x, PermittedExtPorts(perms, req.iaddr, req.iport), req, t)

Follows(f, what, x, n, req, t) ==
    f = [i \in 0 .. n |-> IF i = 0 THEN x ELSE Turn(what, f[i - 1], i, req, t)]

\* What the loop goes through
LEMMA TurnsExist ==
    ASSUME NEW what, NEW x, NEW n \in Nat, NEW req, NEW t
    PROVE  \E f : Follows(f, what, x, n, req, t)
  <1> DEFINE F(f, k) == f = [i \in 0 .. k |-> IF i = 0 THEN x ELSE Turn(what, f[i - 1], i, req, t)]
             S == {k \in Nat : \E f : F(f, k)}
  <1>1. 0 \in S
    <2> DEFINE f == [i \in 0 .. 0 |-> x]
    <2>1. F(f, 0)
      OBVIOUS
    <2> QED  BY <2>1
  <1>2. ASSUME NEW k \in Nat, k \in S PROVE k + 1 \in S
    <2>1. PICK f : F(f, k)
      BY <1>2
    <2> DEFINE h == [i \in 0 .. k + 1 |-> IF i <= k THEN f[i] ELSE Turn(what, f[k], i, req, t)]
    <2>2. ASSUME NEW i \in 0 .. k + 1
          PROVE  h[i] = IF i = 0 THEN x ELSE Turn(what, h[i - 1], i, req, t)
      <3>1. CASE i = 0
        BY <2>1, <3>1
      <3>2. CASE i # 0 /\ i <= k
        <4>1. i \in 0 .. k /\ i - 1 \in 0 .. k + 1 /\ i - 1 <= k
          BY <3>2
        <4>2. f[i] = Turn(what, f[i - 1], i, req, t)
          BY <2>1, <3>2, <4>1
        <4> QED  BY <3>2, <4>1, <4>2
      <3>3. CASE i = k + 1
        <4>1. ~ (i <= k) /\ i - 1 = k /\ k \in 0 .. k + 1 /\ i # 0
          BY <3>3
        <4> QED  BY <3>3, <4>1
      <3> QED  BY <3>1, <3>2, <3>3
    <2>3. F(h, k + 1)
      <3>1. h = [i \in 0 .. k + 1 |-> h[i]]
        OBVIOUS
      <3> HIDE DEF h
      <3> QED  BY <2>2, <3>1
    <2> HIDE DEF F
    <2> QED  BY <2>3
  <1> HIDE DEF S
  <1>3. n \in S
    BY <1>1, <1>2, AllNaturals
  <1> QED  BY <1>3 DEF S, Follows

\* The turns from the first to the last
LEMMA TurnByTurn ==
    ASSUME NEW f, NEW what, NEW x, NEW n \in Nat, NEW req, NEW t, Follows(f, what, x, n, req, t)
    PROVE  f[0] = x /\ \A i \in 1 .. n : f[i] = Turn(what, f[i - 1], i, req, t)
  <1>1. \A i \in 0 .. n : f[i] = IF i = 0 THEN x ELSE Turn(what, f[i - 1], i, req, t)
    BY DEF Follows
  <1>2. 0 \in 0 .. n /\ \A i \in 1 .. n : i \in 0 .. n /\ i # 0
    OBVIOUS
  <1> QED  BY <1>1, <1>2

\* A set of turns that has the first and with each the next has all.
LEMMA ByTurns ==
    ASSUME NEW n \in Nat, NEW S, 0 \in S, \A i \in 1 .. n : i - 1 \in S => i \in S
    PROVE  n \in S
  <1> DEFINE R == {i \in Nat : i <= n => i \in S}
  <1>1. 0 \in R
    OBVIOUS
  <1>2. ASSUME NEW i \in Nat, i \in R PROVE i + 1 \in R
    <2> SUFFICES ASSUME i + 1 <= n PROVE i + 1 \in S
      OBVIOUS
    <2>1. i + 1 \in 1 .. n /\ (i + 1) - 1 = i /\ i \in S
      BY <1>2
    <2> QED  BY <2>1
  <1> HIDE DEF R
  <1>3. n \in R
    BY <1>1, <1>2, AllNaturals
  <1> QED  BY <1>3 DEF R

-----------------------------------------------------------------------------
(***************************************************************************)
(* NAT-PMP: a mapping for a port that is free or the client's own.         *)
(***************************************************************************)
\* The table as the requests leave it
TableInv ==
    /\ unsure \in BOOLEAN
    /\ Listed(table) /\ HostsSame(table)
    /\ ~ unsure => KeysDiffer(table)

FirstPort(req) == IF req.eport = 0 THEN req.iport ELSE req.eport

\* A request begins with the table as it is.
LEMMA NowIsState ==
    ASSUME TableInv, NEW iaddr
    PROVE  /\ State(Now) /\ OthersStay(Now, iaddr) /\ Now.table = table /\ ~ Now.unsure
  <1>1. /\ Now = [table |-> Now.table, peers |-> Now.peers, dels |-> Now.dels, unsure |-> Now.unsure]
        /\ Now.table = table /\ Now.unsure = FALSE
    BY DEF Now
  <1>2. \A i \in 1 .. Len(table) : Has(table, table[i])
    BY DEF Has
  <1> QED  BY <1>1, <1>2 DEF TableInv, State, OthersStay

NatpmpStart(req) ==
    [s |-> Now, port |-> FirstPort(req), first |-> FirstPort(req),
     any |-> FALSE, done |-> FALSE, code |-> 0]

\* The mapping that a request is for
NatpmpMap(req, port) ==
    Mapping(port, NatpmpProto(req.opcode), req.iaddr, req.iport, NatpmpDesc, req.lifetime)

NothingFor(req, proto) == \A eport \in Ports \ {0} : ~ Available(eport, proto, req)

\* What the search has done after turn i
Searched(x, i, req) ==
    /\ x = [s |-> x.s, port |-> x.port, first |-> x.first, any |-> x.any, done |-> x.done,
            code |-> x.code]
    /\ State(x.s) /\ OthersStay(x.s, req.iaddr)
    /\ x.done \in BOOLEAN /\ x.first = FirstPort(req)
    /\ ~ x.done => /\ x.s = Now /\ x.code = 0
                   /\ i \in 0 .. TopPort /\ x.port = At(FirstPort(req), i + 1)
                   /\ \A k \in 1 .. i : ~ Available(At(FirstPort(req), k), NatpmpProto(req.opcode), req)
    /\ x.done /\ x.code = 0 /\ ~ unsure /\ ~ x.s.unsure
         => /\ Has(x.s.table, NatpmpMap(req, x.port))
            /\ CheckPermissions(perms, x.port, req.iaddr, req.iport)
    /\ x.done /\ x.code \in {2, 4} => NothingFor(req, NatpmpProto(req.opcode))

\* One turn of the search
LEMMA NatpmpTurn ==
    ASSUME TableInv, NEW req, FirstPort(req) \in 1 .. TopPort, NEW t,
           NEW i \in 1 .. TopPort + 1, NEW x, Searched(x, i - 1, req),
           NEW y, y = NatpmpTry(x, i, req, t)
    PROVE  Searched(y, i, req)
  <1> DEFINE first == FirstPort(req)
             proto == NatpmpProto(req.opcode)
             m == NatpmpMap(req, x.port)
             old == Find(x.s.table, x.port, proto)
             del == DeleteRedir(x.s, x.port, proto, t)
             new == RedirectInternal(x.s, m, t)
             again == RedirectInternal(del.s, m, t)
             next == [x EXCEPT !.port = NextPort(@)]
             taken == PortInUse(x.port, proto, req.iaddr, req.iport)
                        \/ (old # 0 /\ ~ Own(x.s.table[old], req))
             Added(out) == [x EXCEPT !.s = out.s, !.done = TRUE, !.code = IF out.r < 0 THEN 3 ELSE 0]
  <1>1. y = IF x.done THEN x
            ELSE IF i > 1 /\ x.port = x.first
            THEN [x EXCEPT !.done = TRUE, !.code = IF x.any THEN 4 ELSE 2]
            ELSE IF ~ CheckPermissions(perms, x.port, req.iaddr, req.iport) THEN next
            ELSE IF taken THEN [next EXCEPT !.any = TRUE]
            ELSE IF old = 0 THEN Added(new)
            ELSE IF del.r < 0 THEN [x EXCEPT !.s = del.s, !.done = TRUE] ELSE Added(again)
    BY DEF NatpmpTry, On, NatpmpMap
  <1>2. /\ x = [s |-> x.s, port |-> x.port, first |-> x.first, any |-> x.any, done |-> x.done,
                code |-> x.code]
        /\ State(x.s) /\ OthersStay(x.s, req.iaddr)
        /\ x.done \in BOOLEAN /\ x.first = first
        /\ ~ x.done => /\ x.s = Now /\ x.code = 0 /\ x.port = At(first, i)
                       /\ \A k \in 1 .. i - 1 : ~ Available(At(first, k), proto, req)
    <2>1. (i - 1) + 1 = i
      OBVIOUS
    <2> QED  BY <2>1 DEF Searched
  <1>3. /\ m.eport = x.port /\ m.proto = proto /\ m.iaddr = req.iaddr
        /\ unsure \in BOOLEAN /\ Listed(x.s.table) /\ TopPort \in Nat
    BY <1>2, PermissionsAssumption DEF NatpmpMap, Mapping, TableInv, State
  <1>4. CASE x.done
    BY <1>1, <1>4 DEF Searched
  <1>5. ASSUME ~ x.done, NEW out, y = Added(out), State(out.s), OthersStay(out.s, req.iaddr),
               out.r \in {0, -1}, out.r = 0 => Has(out.s.table, m),
               CheckPermissions(perms, x.port, req.iaddr, req.iport)
        PROVE  Searched(y, i, req)
    <2> HIDE DEF m
    <2>1. /\ y = [s |-> y.s, port |-> y.port, first |-> y.first, any |-> y.any, done |-> y.done,
                  code |-> y.code]
          /\ y.s = out.s /\ y.done = TRUE /\ y.first = x.first /\ y.port = x.port
          /\ y.code = IF out.r < 0 THEN 3 ELSE 0
      BY <1>2, <1>5
    <2>2. m = NatpmpMap(req, y.port)
      BY <2>1 DEF m
    <2>3. y.code \notin {2, 4} /\ (y.code = 0 => out.r = 0)
      BY <1>5, <2>1
    <2> QED  BY <1>2, <1>5, <2>1, <2>2, <2>3 DEF Searched
  <1>6. ASSUME ~ x.done, ~ (i > 1 /\ x.port = x.first),
               y \in {next, [next EXCEPT !.any = TRUE]}, ~ Available(x.port, proto, req)
        PROVE  Searched(y, i, req)
    <2>1. /\ y = [s |-> y.s, port |-> y.port, first |-> y.first, any |-> y.any, done |-> y.done,
                  code |-> y.code]
          /\ y.s = x.s /\ y.done = x.done /\ y.first = x.first /\ y.port = NextPort(x.port)
          /\ y.code = x.code
      BY <1>2, <1>6
    <2>2. i \in 1 .. TopPort
      <3>1. i # TopPort + 1
        BY <1>2, <1>6, WayRound
      <3> QED  BY <1>3, <3>1
    <2>3. y.port = At(first, i + 1) /\ i \in 0 .. TopPort
      BY <1>2, <1>3, <1>6, <2>1, <2>2, WayRound
    <2>4. \A k \in 1 .. i : ~ Available(At(first, k), proto, req)
      <3> SUFFICES ASSUME NEW k \in 1 .. i PROVE ~ Available(At(first, k), proto, req)
        OBVIOUS
      <3>1. k = i \/ k \in 1 .. i - 1
        OBVIOUS
      <3> QED  BY <1>2, <1>6, <3>1
    <2> QED  BY <1>2, <1>6, <2>1, <2>3, <2>4 DEF Searched
  <1>7. ASSUME ~ x.done, i > 1, x.port = x.first
        PROVE  Searched(y, i, req)
    <2>1. y = [x EXCEPT !.done = TRUE, !.code = IF x.any THEN 4 ELSE 2]
      BY <1>1, <1>7
    <2>2. /\ y = [s |-> y.s, port |-> y.port, first |-> y.first, any |-> y.any, done |-> y.done,
                  code |-> y.code]
          /\ y.s = x.s /\ y.done = TRUE /\ y.first = x.first
          /\ y.code = IF x.any THEN 4 ELSE 2
      BY <1>2, <2>1
    <2>3. y.code # 0
      BY <2>2
    <2>4. i = TopPort + 1
      BY <1>2, <1>7, WayRound
    <2>5. i - 1 = TopPort
      BY <1>3, <2>4
    <2>6. NothingFor(req, proto)
      <3> SUFFICES ASSUME NEW eport \in Ports \ {0} PROVE ~ Available(eport, proto, req)
        BY DEF NothingFor
      <3>1. PICK k \in 1 .. TopPort : At(first, k) = eport
        BY WayRound
      <3> QED  BY <1>2, <1>7, <2>5, <3>1
    <2> QED  BY <1>2, <2>2, <2>3, <2>6 DEF Searched
  <1>8. ASSUME ~ x.done, ~ (i > 1 /\ x.port = x.first),
               ~ CheckPermissions(perms, x.port, req.iaddr, req.iport)
        PROVE  Searched(y, i, req)
    <2>1. y = next
      BY <1>1, <1>8
    <2>2. ~ Available(x.port, proto, req)
      BY <1>8 DEF Available
    <2> HIDE DEF next
    <2> QED  BY <1>6, <1>8, <2>1, <2>2
  <1>9. ASSUME ~ x.done, ~ (i > 1 /\ x.port = x.first),
               CheckPermissions(perms, x.port, req.iaddr, req.iport), taken
        PROVE  Searched(y, i, req)
    <2>1. y = [next EXCEPT !.any = TRUE]
      BY <1>1, <1>9
    <2>2. ~ Available(x.port, proto, req)
      <3>1. x.s.table = table
        BY <1>2, <1>9 DEF Now
      <3> QED  BY <1>9, <3>1 DEF Available
    <2> HIDE DEF next
    <2> QED  BY <1>6, <1>9, <2>1, <2>2
  <1>10. ASSUME ~ x.done, ~ (i > 1 /\ x.port = x.first),
                CheckPermissions(perms, x.port, req.iaddr, req.iport), ~ taken, old = 0
         PROVE  Searched(y, i, req)
    <2>1. y = Added(new)
      BY <1>1, <1>10
    <2>2. FreeAt(x.s.table, m.eport, m.proto)
      BY <1>3, <1>10, FindFinds
    <2>3. \A k \in 1 .. Len(x.s.table) : SameKey(x.s.table[k], m) => x.s.table[k].iaddr = m.iaddr
      BY <2>2 DEF FreeAt, SameKey, IsKey
    <2> HIDE DEF m, Added
    <2>4. /\ State(new.s) /\ Within(x.s.table, new.s.table)
          /\ new.r \in {0, -1} /\ (new.r = 0 => Has(new.s.table, m))
      BY <1>2, <1>3, <2>2, <2>3, AddsOne
    <2>5. OthersStay(new.s, req.iaddr)
      BY <1>2, <2>4 DEF OthersStay, Within
    <2> HIDE DEF new
    <2> QED  BY <1>5, <1>10, <2>1, <2>4, <2>5
  <1>11. ASSUME ~ x.done, ~ (i > 1 /\ x.port = x.first),
                CheckPermissions(perms, x.port, req.iaddr, req.iport), ~ taken, old # 0
         PROVE  Searched(y, i, req)
    <2>1. y = IF del.r < 0 THEN [x EXCEPT !.s = del.s, !.done = TRUE] ELSE Added(again)
      BY <1>1, <1>11
    <2>2. x.s.table[old].iaddr = m.iaddr /\ old = Find(x.s.table, m.eport, m.proto)
      BY <1>3, <1>11 DEF Own
    <2>3. del = DeleteRedir(x.s, m.eport, m.proto, t)
      BY <1>3
    <2> HIDE DEF m, Added, old, del, again
    <2>4. again = RedirectInternal(del.s, m, t)
      BY DEF again
    <2>5. OthersStay(x.s, m.iaddr)
      BY <1>2, <1>3
    <2>6. /\ State(del.s) /\ OthersStay(del.s, m.iaddr)
          /\ State(again.s) /\ OthersStay(again.s, m.iaddr)
          /\ ~ unsure /\ ~ del.s.unsure => del.r = 0
          /\ again.r \in {0, -1}
          /\ again.r = 0 => Has(again.s.table, m)
      BY <1>2, <1>3, <1>11, <2>2, <2>3, <2>4, <2>5, ReplacesOwn
    <2>7. CASE del.r < 0
      <3>1. /\ y = [s |-> y.s, port |-> y.port, first |-> y.first, any |-> y.any,
                    done |-> y.done, code |-> y.code]
            /\ y.s = del.s /\ y.done = TRUE /\ y.first = x.first /\ y.code = 0
        BY <1>2, <1>11, <2>1, <2>7
      <3>2. ~ (~ unsure /\ ~ del.s.unsure)
        BY <2>6, <2>7
      <3>3. y.code \notin {2, 4}
        BY <3>1
      <3> QED  BY <1>2, <1>3, <2>6, <3>1, <3>2, <3>3 DEF Searched
    <2>8. CASE ~ (del.r < 0)
      BY <1>3, <1>5, <1>11, <2>1, <2>6, <2>8
    <2> QED  BY <2>7, <2>8
  <1> QED  BY <1>4, <1>7, <1>8, <1>9, <1>10, <1>11

\* What NAT-PMP's search for a port leaves and answers
LEMMA NatpmpSearches ==
    ASSUME TableInv, NEW req, FirstPort(req) \in 1 .. TopPort, NEW t
    PROVE  \E i \in Nat : Searched(NatpmpAdd(req, t), i, req) /\ NatpmpAdd(req, t).done
  <1> DEFINE x == NatpmpStart(req)
             n == TopPort + 1
             F(f) == f = [i \in 0 .. n |-> IF i = 0 THEN x ELSE NatpmpTry(f[i - 1], i, req, t)]
             f0 == CHOOSE f : F(f)
  <1>1. TopPort \in Nat /\ n \in Nat /\ ~ (n \in 0 .. TopPort)
    BY PermissionsAssumption
  <1>2. NatpmpAdd(req, t) = f0[n]
    BY DEF NatpmpAdd, Steps, NatpmpStart, FirstPort
  <1>3. Searched(x, 0, req)
    <2>1. /\ x = [s |-> x.s, port |-> x.port, first |-> x.first, any |-> x.any, done |-> x.done,
                  code |-> x.code]
          /\ x.s = Now /\ x.done = FALSE /\ x.code = 0 /\ x.first = FirstPort(req)
          /\ x.port = FirstPort(req)
      BY DEF NatpmpStart
    <2>2. State(Now) /\ OthersStay(Now, req.iaddr)
      BY NowIsState
    <2>3. x.port = At(FirstPort(req), 0 + 1) /\ 0 \in 0 .. TopPort
      BY <1>1, <2>1, WayRound
    <2>4. ~ x.done /\ x.done \in BOOLEAN
      BY <2>1
    <2>5. \A k \in 1 .. 0 : FALSE
      OBVIOUS
    <2> HIDE DEF x
    <2> QED  BY <2>1, <2>2, <2>3, <2>4, <2>5 DEF Searched
  <1> HIDE DEF x, n
  <1>4. PICK f : Follows(f, "natpmp", x, n, req, t)
    BY <1>1, TurnsExist
  <1>5. \A g : F(g) <=> Follows(g, "natpmp", x, n, req, t)
    BY DEF Follows, Turn
  <1> HIDE DEF F
  <1>6. F(f0)
    BY <1>4, <1>5
  <1> HIDE DEF f0
  <1>7. Follows(f0, "natpmp", x, n, req, t)
    BY <1>5, <1>6
  <1>8. f0[0] = x /\ \A i \in 1 .. n : f0[i] = NatpmpTry(f0[i - 1], i, req, t)
    BY <1>1, <1>7, TurnByTurn DEF Turn
  <1> DEFINE S == {i \in 0 .. n : Searched(f0[i], i, req)}
  <1>9. 0 \in S
    BY <1>1, <1>3, <1>8
  <1>10. \A i \in 1 .. n : i - 1 \in S => i \in S
    <2> SUFFICES ASSUME NEW i \in 1 .. n, Searched(f0[i - 1], i - 1, req)
                 PROVE  i \in 0 .. n /\ Searched(f0[i], i, req)
      OBVIOUS
    <2>1. i \in 1 .. TopPort + 1 /\ i \in 0 .. n
      BY <1>1 DEF n
    <2>2. f0[i] = NatpmpTry(f0[i - 1], i, req, t)
      BY <1>8
    <2> QED  BY <2>1, <2>2, NatpmpTurn
  <1> HIDE DEF S
  <1>11. n \in S
    BY <1>1, <1>9, <1>10, ByTurns
  <1>12. Searched(f0[n], n, req)
    BY <1>11 DEF S
  <1>13. f0[n].done
    BY <1>1, <1>12 DEF Searched
  <1> QED  BY <1>1, <1>2, <1>12, <1>13

-----------------------------------------------------------------------------
(***************************************************************************)
(* NAT-PMP: the mappings that a client has deleted.                        *)
(***************************************************************************)
\* A deletion by the port of a mapping takes none of another host.
LEMMA DeletesOwn ==
    ASSUME unsure \in BOOLEAN, NEW s, State(s), NEW m, Has(s.table, m), OthersStay(s, m.iaddr),
           NEW t, NEW del, del = DeleteRedir(s, m.eport, m.proto, t)
    PROVE  State(del.s) /\ OthersStay(del.s, m.iaddr)
  <1> DEFINE k == Find(s.table, m.eport, m.proto)
  <1>1. State(del.s) /\ AllBut(del.s.table, s.table, IF k = 0 THEN {} ELSE {s.table[k]})
    BY DeletesOne
  <1>2. k # 0 => s.table[k].iaddr = m.iaddr
    <2> SUFFICES ASSUME k # 0 PROVE s.table[k].iaddr = m.iaddr
      OBVIOUS
    <2>1. k \in 1 .. Len(s.table) /\ SameKey(s.table[k], m)
      BY FindFinds DEF State, IsKey, SameKey
    <2> HIDE DEF k
    <2>2. PICK j \in 1 .. Len(s.table) : s.table[j] = m
      BY DEF Has
    <2> QED  BY <2>1, <2>2 DEF State, HostsSame
  <1> HIDE DEF k
  <1>3. OthersStay(del.s, m.iaddr)
    <2> SUFFICES ASSUME NEW i \in 1 .. Len(table), table[i].iaddr # m.iaddr
                 PROVE  Has(del.s.table, table[i])
      BY DEF OthersStay
    <2>1. Has(s.table, table[i])
      BY DEF OthersStay
    <2> QED  BY <1>1, <1>2, <2>1 DEF AllBut
  <1> QED  BY <1>1, <1>3

\* What the loop has done after turn i. As long as no deletion fails, each turn
\* brings the index nearer to the end of the table.
Swept(x, i, req) ==
    /\ x = [s |-> x.s, code |-> x.code, index |-> x.index]
    /\ State(x.s) /\ OthersStay(x.s, req.iaddr)
    /\ x.index \in Nat \ {0}
    /\ ~ unsure /\ ~ x.s.unsure =>
          /\ x.code = 0
          /\ \A k \in 1 .. Len(x.s.table) : k < x.index => ~ NatpmpMatches(x.s.table[k], req)
          /\ x.index > Len(x.s.table) \/ Len(x.s.table) - x.index + 1 + i <= Len(table)

\* One turn of the loop
LEMMA NatpmpDeleteTurn ==
    ASSUME TableInv, NEW req, NEW t, NEW i \in Nat \ {0}, NEW x, Swept(x, i - 1, req),
           NEW y, y = NatpmpDeleteStep(x, req, t)
    PROVE  Swept(y, i, req)
  <1> DEFINE q == x.s.table
             m == q[x.index]
             del == DeleteRedir(x.s, m.eport, m.proto, t)
             sure == ~ unsure /\ ~ x.s.unsure
  <1>1. y = IF x.code # 0 \/ x.index > Len(q) THEN x
            ELSE IF ~ NatpmpMatches(m, req) THEN [x EXCEPT !.index = @ + 1]
            ELSE [x EXCEPT !.s = del.s, !.code = IF del.r < 0 THEN 2 ELSE 0]
    <2>1. CASE x.code # 0 \/ x.index > Len(q)
      BY <2>1 DEF NatpmpDeleteStep
    <2>2. CASE ~ (x.code # 0 \/ x.index > Len(q)) /\ ~ NatpmpMatches(m, req)
      BY <2>2 DEF NatpmpDeleteStep
    <2>3. CASE ~ (x.code # 0 \/ x.index > Len(q)) /\ NatpmpMatches(m, req)
      <3>1. y = CHOOSE v \in {[x EXCEPT !.s = d.s, !.code = IF d.r < 0 THEN 2 ELSE 0] : d \in {del}} : TRUE
        BY <2>3 DEF NatpmpDeleteStep, On
      <3> HIDE DEF del, m, q
      <3> QED  BY <2>3, <3>1
    <2> QED  BY <2>1, <2>2, <2>3
  <1>2. /\ x = [s |-> x.s, code |-> x.code, index |-> x.index]
        /\ State(x.s) /\ OthersStay(x.s, req.iaddr)
        /\ x.index \in Nat \ {0} /\ Len(q) \in Nat /\ Len(table) \in Nat /\ unsure \in BOOLEAN
        /\ sure => /\ x.code = 0
                   /\ \A k \in 1 .. Len(q) : k < x.index => ~ NatpmpMatches(q[k], req)
                   /\ x.index > Len(q) \/ Len(q) - x.index + i <= Len(table)
    <2>1. \A n \in Int : n + 1 + (i - 1) = n + i
      OBVIOUS
    <2>2. Len(q) \in Nat /\ Len(table) \in Nat
      BY DEF Swept, State, Listed, TableInv
    <2>3. Len(q) - x.index \in Int
      BY <2>2 DEF Swept
    <2> QED  BY <2>1, <2>2, <2>3 DEF Swept, TableInv
  <1>3. CASE x.code # 0 \/ x.index > Len(q)
    BY <1>1, <1>2, <1>3 DEF Swept
  <1>4. CASE x.code = 0 /\ x.index <= Len(q) /\ ~ NatpmpMatches(m, req)
    <2>1. y = [x EXCEPT !.index = @ + 1]
      BY <1>1, <1>2, <1>4
    <2>2. /\ y = [s |-> y.s, code |-> y.code, index |-> y.index]
          /\ y.s = x.s /\ y.code = x.code /\ y.index = x.index + 1
      BY <1>2, <2>1
    <2>3. \A k \in 1 .. Len(q) : k < x.index + 1 => k < x.index \/ k = x.index
      BY <1>2
    <2>4. sure => \A k \in 1 .. Len(q) : k < y.index => ~ NatpmpMatches(q[k], req)
      BY <1>2, <1>4, <2>2, <2>3
    <2>5. sure => Len(q) - (x.index + 1) + 1 + i <= Len(table)
      BY <1>2, <1>4
    <2> QED  BY <1>2, <2>2, <2>4, <2>5 DEF Swept
  <1>5. CASE x.code = 0 /\ x.index <= Len(q) /\ NatpmpMatches(m, req)
    <2>1. y = [x EXCEPT !.s = del.s, !.code = IF del.r < 0 THEN 2 ELSE 0]
      BY <1>1, <1>2, <1>5
    <2>2. /\ y = [s |-> y.s, code |-> y.code, index |-> y.index]
          /\ y.s = del.s /\ y.code = (IF del.r < 0 THEN 2 ELSE 0) /\ y.index = x.index
      BY <1>2, <2>1
    <2>3. m.iaddr = req.iaddr
      BY <1>5 DEF NatpmpMatches
    <2>4. Has(q, m) /\ x.index \in 1 .. Len(q)
      BY <1>2, <1>5 DEF Has
    <2>5. State(del.s) /\ OthersStay(del.s, req.iaddr)
      BY <1>2, <2>3, <2>4, DeletesOwn
    <2>6. /\ x.s.unsure => del.s.unsure
          /\ ~ unsure /\ ~ del.s.unsure =>
                del.r = 0 /\ del.s.table = Without(q, Find(q, m.eport, m.proto))
      <3> DEFINE k == Find(q, m.eport, m.proto)
      <3> HIDE DEF m, del, k
      <3>1. k = Find(x.s.table, m.eport, m.proto) /\ del = DeleteRedir(x.s, m.eport, m.proto, t)
        BY DEF k, del
      <3>2. /\ State(del.s) /\ Within(del.s.table, x.s.table)
            /\ AllBut(del.s.table, x.s.table, IF k = 0 THEN {} ELSE {x.s.table[k]})
            /\ x.s.unsure => del.s.unsure
            /\ ~ unsure /\ ~ del.s.unsure =>
                  /\ FreeAt(del.s.table, m.eport, m.proto) /\ del.r = 0
                  /\ del.s.table = Without(x.s.table, k)
        <4>1. State(x.s) /\ unsure \in BOOLEAN
          BY <1>2
        <4> HIDE DEF q, sure
        <4> QED  BY <3>1, <4>1, DeletesOne
      <3> QED  BY <3>1, <3>2
    <2>7. ASSUME ~ unsure, ~ del.s.unsure
          PROVE  /\ y.code = 0
                 /\ \A k \in 1 .. Len(y.s.table) :
                        k < y.index => ~ NatpmpMatches(y.s.table[k], req)
                 /\ y.index > Len(y.s.table) \/ Len(y.s.table) - y.index + 1 + i <= Len(table)
      <3>1. sure /\ KeysDiffer(q)
        BY <1>2, <2>6, <2>7 DEF State
      <3>2. Find(q, m.eport, m.proto) = x.index
        <4> DEFINE k == Find(q, m.eport, m.proto)
        <4>1. ~ FreeAt(q, m.eport, m.proto)
          BY <2>4 DEF FreeAt, IsKey
        <4>2. k \in 1 .. Len(q) /\ SameKey(q[k], m)
          BY <1>2, <4>1, FindFinds DEF State, IsKey, SameKey
        <4> HIDE DEF k
        <4> QED  BY <2>4, <3>1, <4>2 DEF KeysDiffer, k
      <3>3. del.s.table = RemoveAt(q, x.index)
        BY <1>2, <2>6, <2>7, <3>2 DEF Without
      <3> DEFINE w == RemoveAt(q, x.index)
      <3>4. /\ Len(w) = Len(q) - 1
            /\ \A k \in 1 .. Len(q) - 1 : w[k] = IF k < x.index THEN q[k] ELSE q[k + 1]
        <4>1. PICK T : q \in Seq(T)
          BY <1>2 DEF State, Listed
        <4> QED  BY <2>4, <4>1, RemovedAt
      <3> HIDE DEF w, del, m, q, sure
      <3>5. y.s.table = w /\ del.r = 0
        BY <2>2, <2>6, <2>7, <3>3 DEF w
      <3>6. ASSUME NEW k \in 1 .. Len(w), k < x.index PROVE ~ NatpmpMatches(w[k], req)
        <4>1. k \in 1 .. Len(q) - 1 /\ k \in 1 .. Len(q)
          BY <1>2, <3>4
        <4>2. w[k] = q[k]
          BY <3>4, <3>6, <4>1
        <4> QED  BY <1>2, <3>1, <3>6, <4>1, <4>2
      <3>7. (Len(q) - 1) - x.index + 1 + i = Len(q) - x.index + i
        BY <1>2
      <3>8. Len(q) - x.index + i <= Len(table)
        BY <1>2, <1>5, <3>1
      <3>9. Len(w) - x.index + 1 + i <= Len(table)
        BY <3>4, <3>7, <3>8
      <3>10. y.code = 0
        BY <2>2, <3>5
      <3> QED  BY <2>2, <3>5, <3>6, <3>9, <3>10
    <2> HIDE DEF del, m, q, sure
    <2> QED  BY <1>2, <2>2, <2>5, <2>7 DEF Swept
  <1>6. x.code = 0 => x.index > Len(q) \/ x.index <= Len(q)
    BY <1>2
  <1> QED  BY <1>3, <1>4, <1>5, <1>6

\* What NAT-PMP's deletion leaves and answers
LEMMA NatpmpDeletes ==
    ASSUME TableInv, NEW req, NEW t, NEW out, out = NatpmpDelete(req, t)
    PROVE  /\ State(out.s) /\ OthersStay(out.s, req.iaddr)
           /\ ~ unsure /\ ~ out.s.unsure
                => \A k \in 1 .. Len(out.s.table) : ~ NatpmpMatches(out.s.table[k], req)
  <1> DEFINE x == [s |-> Now, code |-> 0, index |-> 1]
             n == 2 * Len(table) + 1
             F(f) == f = [i \in 0 .. n |-> IF i = 0 THEN x ELSE NatpmpDeleteStep(f[i - 1], req, t)]
             f0 == CHOOSE f : F(f)
             end == f0[n]
  <1>1. n \in Nat /\ n > Len(table) /\ Len(table) \in Nat
    BY DEF TableInv, Listed
  <1>2. out.s = end.s
    BY DEF NatpmpDelete, Steps
  <1>3. Swept(x, 0, req)
    <2>1. /\ x = [s |-> x.s, code |-> x.code, index |-> x.index]
          /\ x.s = Now /\ x.code = 0 /\ x.index = 1
      OBVIOUS
    <2>2. State(Now) /\ OthersStay(Now, req.iaddr) /\ Now.table = table
      BY NowIsState
    <2>3. \A k \in 1 .. Len(table) : ~ (k < 1)
      OBVIOUS
    <2>4. Len(table) - 1 + 1 + 0 <= Len(table)
      BY <1>1
    <2> HIDE DEF x
    <2> QED  BY <2>1, <2>2, <2>3, <2>4 DEF Swept
  <1> HIDE DEF x, n
  <1>4. PICK f : Follows(f, "delete", x, n, req, t)
    BY <1>1, TurnsExist
  <1>5. \A g : F(g) <=> Follows(g, "delete", x, n, req, t)
    BY DEF Follows, Turn
  <1> HIDE DEF F
  <1>6. F(f0)
    BY <1>4, <1>5
  <1> HIDE DEF f0
  <1>7. Follows(f0, "delete", x, n, req, t)
    BY <1>5, <1>6
  <1>8. f0[0] = x /\ \A i \in 1 .. n : f0[i] = NatpmpDeleteStep(f0[i - 1], req, t)
    BY <1>1, <1>7, TurnByTurn DEF Turn
  <1> DEFINE S == {i \in 0 .. n : Swept(f0[i], i, req)}
  <1>9. 0 \in S
    BY <1>1, <1>3, <1>8
  <1>10. \A i \in 1 .. n : i - 1 \in S => i \in S
    <2> SUFFICES ASSUME NEW i \in 1 .. n, Swept(f0[i - 1], i - 1, req)
                 PROVE  i \in 0 .. n /\ Swept(f0[i], i, req)
      OBVIOUS
    <2>1. i \in Nat \ {0} /\ i \in 0 .. n
      BY <1>1
    <2>2. f0[i] = NatpmpDeleteStep(f0[i - 1], req, t)
      BY <1>8
    <2> QED  BY <2>1, <2>2, NatpmpDeleteTurn
  <1> HIDE DEF S
  <1>11. n \in S
    BY <1>1, <1>9, <1>10, ByTurns
  <1>12. Swept(end, n, req)
    BY <1>11 DEF S
  <1> HIDE DEF end
  <1>13. State(end.s) /\ OthersStay(end.s, req.iaddr)
    BY <1>12 DEF Swept
  <1>14. ASSUME ~ unsure, ~ end.s.unsure
         PROVE  \A k \in 1 .. Len(end.s.table) : ~ NatpmpMatches(end.s.table[k], req)
    <2>1. end.index \in Nat /\ Len(end.s.table) \in Nat
      BY <1>12 DEF Swept, State, Listed
    <2>2. end.index > Len(end.s.table) \/ Len(end.s.table) - end.index + 1 + n <= Len(table)
      BY <1>12, <1>14 DEF Swept
    <2>3. end.index > Len(end.s.table)
      BY <1>1, <2>1, <2>2
    <2>4. \A k \in 1 .. Len(end.s.table) : k < end.index
      BY <2>1, <2>3
    <2> QED  BY <1>12, <1>14, <2>4 DEF Swept
  <1> QED  BY <1>2, <1>13, <1>14

-----------------------------------------------------------------------------
(***************************************************************************)
(* PCP: mappings made and deleted.                                         *)
(***************************************************************************)
PcpMap(req, port) ==
    Mapping(port, req.proto, req.iaddr, req.iport, PcpDesc(req), req.lifetime)

PcpStart(req, pfailure) ==
    [s |-> Now, port |-> FirstPort(req), first |-> FirstPort(req), any |-> FALSE,
     pfailure |-> pfailure, done |-> FirstPort(req) = 0,
     code |-> IF FirstPort(req) = 0 THEN PCP_ERR_MALFORMED_REQUEST ELSE PCP_SUCCESS]

\* What the search has done after turn i
PcpSearched(x, i, req) ==
    /\ x = [s |-> x.s, port |-> x.port, first |-> x.first, any |-> x.any, pfailure |-> x.pfailure,
            done |-> x.done, code |-> x.code]
    /\ State(x.s) /\ OthersStay(x.s, req.iaddr)
    /\ x.done \in BOOLEAN /\ x.first = FirstPort(req)
    /\ ~ x.done => /\ FirstPort(req) \in 1 .. TopPort
                   /\ i \in 0 .. TopPort /\ x.port = At(FirstPort(req), i + 1)
    /\ x.done /\ x.code = 0 /\ ~ unsure /\ ~ x.s.unsure
         => /\ Has(x.s.table, PcpMap(req, x.port))
            /\ CheckPermissions(perms, x.port, req.iaddr, req.iport)

\* One turn of the search
LEMMA PcpTurn ==
    ASSUME TableInv, NEW req, NEW t, NEW i \in 1 .. TopPort + 1, NEW x, PcpSearched(x, i - 1, req),
           NEW y, y = PcpTry(x, i, req, t)
    PROVE  PcpSearched(y, i, req)
  <1> DEFINE first == FirstPort(req)
             m == PcpMap(req, x.port)
             old == Find(x.s.table, x.port, req.proto)
             del == DeleteRedir(x.s, x.port, req.proto, t)
             new == RedirectInternal(x.s, m, t)
             again == RedirectInternal(del.s, m, t)
             next == [x EXCEPT !.port = NextPort(@)]
             End(s, code) == [x EXCEPT !.s = s, !.done = TRUE, !.code = code]
             Added(out) == End(out.s, IF out.r < 0 THEN PCP_ERR_NO_RESOURCES ELSE PCP_SUCCESS)
  <1>1. y = IF x.done THEN x
            ELSE IF i > 1 /\ x.port = x.first
            THEN End(x.s, IF x.any THEN PCP_ERR_NO_RESOURCES ELSE PCP_ERR_NOT_AUTHORIZED)
            ELSE IF ~ CheckPermissions(perms, x.port, req.iaddr, req.iport)
            THEN IF x.pfailure THEN End(x.s, PCP_ERR_CANNOT_PROVIDE_EXTERNAL) ELSE next
            ELSE IF PortInUse(x.port, req.proto, req.iaddr, req.iport)
            THEN [next EXCEPT !.any = TRUE]
            ELSE IF old = 0 THEN Added(new)
            ELSE IF ~ Own(x.s.table[old], req)
            THEN IF x.pfailure THEN End(x.s, PCP_ERR_CANNOT_PROVIDE_EXTERNAL)
                 ELSE [next EXCEPT !.any = TRUE]
            ELSE IF del.r = 0 THEN Added(again)
            ELSE IF x.pfailure THEN End(del.s, PCP_ERR_CANNOT_PROVIDE_EXTERNAL)
            ELSE [next EXCEPT !.any = TRUE, !.s = del.s]
    BY DEF PcpTry, On, PcpMap
  <1>2. /\ x = [s |-> x.s, port |-> x.port, first |-> x.first, any |-> x.any,
                pfailure |-> x.pfailure, done |-> x.done, code |-> x.code]
        /\ State(x.s) /\ OthersStay(x.s, req.iaddr)
        /\ x.done \in BOOLEAN /\ x.first = first
        /\ ~ x.done => first \in 1 .. TopPort /\ x.port = At(first, i)
    <2>1. (i - 1) + 1 = i
      OBVIOUS
    <2> QED  BY <2>1 DEF PcpSearched
  <1>3. /\ m.eport = x.port /\ m.proto = req.proto /\ m.iaddr = req.iaddr
        /\ unsure \in BOOLEAN /\ Listed(x.s.table) /\ TopPort \in Nat
    BY <1>2, PermissionsAssumption DEF PcpMap, Mapping, TableInv, State
  <1>4. CASE x.done
    BY <1>1, <1>4 DEF PcpSearched
  <1>5. ASSUME ~ x.done, NEW s, NEW code, y = End(s, code), State(s), OthersStay(s, req.iaddr),
               code = 0 => /\ Has(s.table, m)
                           /\ CheckPermissions(perms, x.port, req.iaddr, req.iport)
        PROVE  PcpSearched(y, i, req)
    <2> HIDE DEF m
    <2>1. /\ y = [s |-> y.s, port |-> y.port, first |-> y.first, any |-> y.any,
                  pfailure |-> y.pfailure, done |-> y.done, code |-> y.code]
          /\ y.s = s /\ y.done = TRUE /\ y.first = x.first /\ y.port = x.port /\ y.code = code
      BY <1>2, <1>5
    <2>2. m = PcpMap(req, y.port)
      BY <2>1 DEF m
    <2> QED  BY <1>2, <1>5, <2>1, <2>2 DEF PcpSearched
  <1>6. ASSUME ~ x.done, ~ (i > 1 /\ x.port = x.first), NEW s, State(s), OthersStay(s, req.iaddr),
               /\ y = [s |-> y.s, port |-> y.port, first |-> y.first, any |-> y.any,
                       pfailure |-> y.pfailure, done |-> y.done, code |-> y.code]
               /\ y.s = s /\ y.done = x.done /\ y.first = x.first /\ y.port = NextPort(x.port)
        PROVE  PcpSearched(y, i, req)
    <2>1. i \in 1 .. TopPort
      <3>1. i # TopPort + 1
        BY <1>2, <1>6, WayRound
      <3> QED  BY <1>3, <3>1
    <2>2. y.port = At(first, i + 1) /\ i \in 0 .. TopPort
      BY <1>2, <1>3, <1>6, <2>1, WayRound
    <2> QED  BY <1>2, <1>6, <2>2 DEF PcpSearched
  <1>7. ASSUME ~ x.done, ~ (i > 1 /\ x.port = x.first), y = next
        PROVE  PcpSearched(y, i, req)
    <2>1. /\ y = [s |-> y.s, port |-> y.port, first |-> y.first, any |-> y.any,
                  pfailure |-> y.pfailure, done |-> y.done, code |-> y.code]
          /\ y.s = x.s /\ y.done = x.done /\ y.first = x.first /\ y.port = NextPort(x.port)
      BY <1>2, <1>7
    <2> QED  BY <1>2, <1>6, <1>7, <2>1
  <1>8. ASSUME ~ x.done, ~ (i > 1 /\ x.port = x.first), y = [next EXCEPT !.any = TRUE]
        PROVE  PcpSearched(y, i, req)
    <2>1. /\ y = [s |-> y.s, port |-> y.port, first |-> y.first, any |-> y.any,
                  pfailure |-> y.pfailure, done |-> y.done, code |-> y.code]
          /\ y.s = x.s /\ y.done = x.done /\ y.first = x.first /\ y.port = NextPort(x.port)
      BY <1>2, <1>8
    <2> QED  BY <1>2, <1>6, <1>8, <2>1
  <1>9. /\ PCP_SUCCESS = 0 /\ PCP_ERR_NO_RESOURCES # 0 /\ PCP_ERR_NOT_AUTHORIZED # 0
        /\ PCP_ERR_CANNOT_PROVIDE_EXTERNAL # 0
    BY DEF PCP_SUCCESS, PCP_ERR_NO_RESOURCES, PCP_ERR_NOT_AUTHORIZED,
           PCP_ERR_CANNOT_PROVIDE_EXTERNAL
  <1>10. CASE ~ x.done /\ i > 1 /\ x.port = x.first
    <2> DEFINE code == IF x.any THEN PCP_ERR_NO_RESOURCES ELSE PCP_ERR_NOT_AUTHORIZED
    <2>1. y = End(x.s, code)
      BY <1>1, <1>10
    <2>2. code # 0
      BY <1>9
    <2> HIDE DEF End, code
    <2> QED  BY <1>2, <1>5, <1>10, <2>1, <2>2
  <1>11. CASE /\ ~ x.done /\ ~ (i > 1 /\ x.port = x.first)
              /\ \/ ~ CheckPermissions(perms, x.port, req.iaddr, req.iport)
                 \/ PortInUse(x.port, req.proto, req.iaddr, req.iport)
                 \/ old # 0 /\ ~ Own(x.s.table[old], req)
    <2>1. \/ y = End(x.s, PCP_ERR_CANNOT_PROVIDE_EXTERNAL)
          \/ y = next
          \/ y = [next EXCEPT !.any = TRUE]
      <3> HIDE DEF End, next, old
      <3> QED  BY <1>1, <1>11
    <2> HIDE DEF End, next
    <2> QED  BY <1>2, <1>5, <1>7, <1>8, <1>9, <1>11, <2>1
  <1>12. CASE /\ ~ x.done /\ ~ (i > 1 /\ x.port = x.first)
              /\ CheckPermissions(perms, x.port, req.iaddr, req.iport)
              /\ ~ PortInUse(x.port, req.proto, req.iaddr, req.iport) /\ old = 0
    <2>1. y = Added(new)
      <3> HIDE DEF Added, old, new
      <3> QED  BY <1>1, <1>12
    <2>2. FreeAt(x.s.table, m.eport, m.proto)
      BY <1>3, <1>12, FindFinds
    <2>3. \A k \in 1 .. Len(x.s.table) : SameKey(x.s.table[k], m) => x.s.table[k].iaddr = m.iaddr
      BY <2>2 DEF FreeAt, SameKey, IsKey
    <2> HIDE DEF m, End
    <2>4. /\ State(new.s) /\ Within(x.s.table, new.s.table)
          /\ new.r \in {0, -1} /\ (new.r = 0 => Has(new.s.table, m))
      BY <1>2, <1>3, <2>2, <2>3, AddsOne
    <2>5. OthersStay(new.s, req.iaddr)
      BY <1>2, <2>4 DEF OthersStay, Within
    <2> HIDE DEF new
    <2>6. (IF new.r < 0 THEN PCP_ERR_NO_RESOURCES ELSE PCP_SUCCESS) = 0 => new.r = 0
      BY <1>9, <2>4
    <2> QED  BY <1>5, <1>12, <2>1, <2>4, <2>5, <2>6
  <1>13. CASE /\ ~ x.done /\ ~ (i > 1 /\ x.port = x.first)
              /\ CheckPermissions(perms, x.port, req.iaddr, req.iport)
              /\ ~ PortInUse(x.port, req.proto, req.iaddr, req.iport) /\ old # 0
              /\ Own(x.s.table[old], req)
    <2>1. \/ y = Added(again)
          \/ y = End(del.s, PCP_ERR_CANNOT_PROVIDE_EXTERNAL)
          \/ y = [next EXCEPT !.any = TRUE, !.s = del.s]
      <3> HIDE DEF Added, End, next, old, del, again
      <3> QED  BY <1>1, <1>13
    <2>2. x.s.table[old].iaddr = m.iaddr /\ old = Find(x.s.table, m.eport, m.proto)
      BY <1>3, <1>13 DEF Own
    <2>3. del = DeleteRedir(x.s, m.eport, m.proto, t)
      BY <1>3
    <2> HIDE DEF m, End, old, del, again
    <2>4. again = RedirectInternal(del.s, m, t)
      BY DEF again
    <2>5. OthersStay(x.s, m.iaddr)
      BY <1>2, <1>3
    <2>6. /\ State(del.s) /\ OthersStay(del.s, m.iaddr)
          /\ State(again.s) /\ OthersStay(again.s, m.iaddr)
          /\ ~ unsure /\ ~ del.s.unsure => del.r = 0
          /\ again.r \in {0, -1}
          /\ again.r = 0 => Has(again.s.table, m)
      <3>1. old # 0 /\ State(x.s) /\ unsure \in BOOLEAN
        BY <1>2, <1>3, <1>13
      <3> QED  BY <2>2, <2>3, <2>4, <2>5, <3>1, ReplacesOwn
    <2>7. CASE y = Added(again)
      <3>1. (IF again.r < 0 THEN PCP_ERR_NO_RESOURCES ELSE PCP_SUCCESS) = 0 => again.r = 0
        BY <1>9, <2>6
      <3> QED  BY <1>3, <1>5, <1>13, <2>6, <2>7, <3>1
    <2>8. CASE y = End(del.s, PCP_ERR_CANNOT_PROVIDE_EXTERNAL)
      BY <1>3, <1>5, <1>9, <1>13, <2>6, <2>8
    <2>9. CASE y = [next EXCEPT !.any = TRUE, !.s = del.s]
      <3>1. /\ y = [s |-> y.s, port |-> y.port, first |-> y.first, any |-> y.any,
                    pfailure |-> y.pfailure, done |-> y.done, code |-> y.code]
            /\ y.s = del.s /\ y.done = x.done /\ y.first = x.first /\ y.port = NextPort(x.port)
        BY <1>2, <2>9
      <3> QED  BY <1>3, <1>6, <1>13, <2>6, <3>1
    <2> QED  BY <2>1, <2>7, <2>8, <2>9
  <1> QED  BY <1>2, <1>4, <1>10, <1>11, <1>12, <1>13

\* What PCP's search for a port leaves and answers
LEMMA PcpSearches ==
    ASSUME TableInv, NEW req, FirstPort(req) \in 0 .. TopPort, NEW t, NEW pfailure,
           NEW out, out = CreatePCPMap(req, pfailure, t)
    PROVE  out.done /\ \E i \in Nat : PcpSearched(out, i, req)
  <1> DEFINE x == PcpStart(req, pfailure)
             n == TopPort + 1
             F(f) == f = [i \in 0 .. n |-> IF i = 0 THEN x ELSE PcpTry(f[i - 1], i, req, t)]
             f0 == CHOOSE f : F(f)
  <1>1. TopPort \in Nat /\ n \in Nat /\ ~ (n \in 0 .. TopPort)
    BY PermissionsAssumption
  <1>2. out = f0[n]
    BY DEF CreatePCPMap, Steps, PcpStart, FirstPort
  <1>3. PcpSearched(x, 0, req)
    <2>1. /\ x = [s |-> x.s, port |-> x.port, first |-> x.first, any |-> x.any,
                  pfailure |-> x.pfailure, done |-> x.done, code |-> x.code]
          /\ x.s = Now /\ x.done = (FirstPort(req) = 0) /\ x.first = FirstPort(req)
          /\ x.port = FirstPort(req)
          /\ FirstPort(req) = 0 => x.code = PCP_ERR_MALFORMED_REQUEST
      BY DEF PcpStart
    <2>2. State(Now) /\ OthersStay(Now, req.iaddr)
      BY NowIsState
    <2>3. FirstPort(req) # 0 => /\ FirstPort(req) \in 1 .. TopPort /\ 0 \in 0 .. TopPort
                                /\ x.port = At(FirstPort(req), 0 + 1)
      BY <1>1, <2>1, WayRound
    <2> HIDE DEF x
    <2>4. x.done \in BOOLEAN /\ (x.done => x.code # 0) /\ (~ x.done => FirstPort(req) # 0)
      <3>1. PCP_ERR_MALFORMED_REQUEST # 0
        BY DEF PCP_ERR_MALFORMED_REQUEST
      <3>2. x.done <=> FirstPort(req) = 0
        BY <2>1
      <3>3. x.done \in BOOLEAN
        BY <2>1
      <3> QED  BY <2>1, <3>1, <3>2, <3>3
    <2> QED  BY <2>1, <2>2, <2>3, <2>4 DEF PcpSearched
  <1> HIDE DEF x, n
  <1>4. PICK f : Follows(f, "pcp", x, n, req, t)
    BY <1>1, TurnsExist
  <1>5. \A g : F(g) <=> Follows(g, "pcp", x, n, req, t)
    BY DEF Follows, Turn
  <1> HIDE DEF F
  <1>6. F(f0)
    BY <1>4, <1>5
  <1> HIDE DEF f0
  <1>7. Follows(f0, "pcp", x, n, req, t)
    BY <1>5, <1>6
  <1>8. f0[0] = x /\ \A i \in 1 .. n : f0[i] = PcpTry(f0[i - 1], i, req, t)
    BY <1>1, <1>7, TurnByTurn DEF Turn
  <1> DEFINE S == {i \in 0 .. n : PcpSearched(f0[i], i, req)}
  <1>9. 0 \in S
    BY <1>1, <1>3, <1>8
  <1>10. \A i \in 1 .. n : i - 1 \in S => i \in S
    <2> SUFFICES ASSUME NEW i \in 1 .. n, PcpSearched(f0[i - 1], i - 1, req)
                 PROVE  i \in 0 .. n /\ PcpSearched(f0[i], i, req)
      OBVIOUS
    <2>1. i \in 1 .. TopPort + 1 /\ i \in 0 .. n
      BY <1>1 DEF n
    <2>2. f0[i] = PcpTry(f0[i - 1], i, req, t)
      BY <1>8
    <2> QED  BY <2>1, <2>2, PcpTurn
  <1> HIDE DEF S
  <1>11. n \in S
    BY <1>1, <1>9, <1>10, ByTurns
  <1>12. PcpSearched(f0[n], n, req)
    BY <1>11 DEF S
  <1>13. f0[n].done
    BY <1>1, <1>12 DEF PcpSearched
  <1> QED  BY <1>1, <1>2, <1>12, <1>13

\* PCP deletes a mapping of the client that knows its nonce.
LEMMA PcpDeletes ==
    ASSUME TableInv, NEW req, NEW t, NEW out, out = DeletePCPMap(req, t)
    PROVE  /\ State(out.s) /\ OthersStay(out.s, req.iaddr)
           /\ ~ unsure => \A i \in 1 .. Len(table) :
                              Has(out.s.table, table[i]) \/ table[i].desc = PcpDesc(req)
  <1> DEFINE I == {i \in 1 .. Len(table) : DeleteMatches(table[i], req)}
             at == SelectInSeq(table, LAMBDA m : DeleteMatches(m, req))
             m == table[at]
             del == DeleteRedir(Now, m.eport, m.proto, t)
             k == Find(table, m.eport, m.proto)
  <1>1. State(Now) /\ OthersStay(Now, req.iaddr) /\ Now.table = table /\ unsure \in BOOLEAN
    BY NowIsState DEF TableInv
  <1>2. \/ out.s = Now
        \/ at # 0 /\ m.desc = PcpDesc(req) /\ out.s = del.s
    <2> DEFINE none == [s |-> Now, code |-> PCP_ERR_NO_RESOURCES]
               other == [s |-> Now, code |-> PCP_ERR_NOT_AUTHORIZED]
               gone == [s |-> del.s, code |-> IF del.r >= 0 THEN PCP_SUCCESS ELSE PCP_ERR_NO_RESOURCES]
    <2>1. out = IF at = 0 THEN none ELSE IF NonceError(m, req) THEN other ELSE gone
      <3>1. CASE at = 0
        BY <3>1 DEF DeletePCPMap
      <3>2. CASE at # 0 /\ NonceError(m, req)
        BY <3>2 DEF DeletePCPMap
      <3>3. CASE at # 0 /\ ~ NonceError(m, req)
        <4>1. out = CHOOSE v \in {[s |-> x.s, code |-> IF x.r >= 0 THEN PCP_SUCCESS
                                                        ELSE PCP_ERR_NO_RESOURCES] : x \in {del}} : TRUE
          BY <3>3 DEF DeletePCPMap, On
        <4> HIDE DEF del
        <4> QED  BY <3>3, <4>1
      <3> QED  BY <3>1, <3>2, <3>3
    <2>2. none.s = Now /\ other.s = Now /\ gone.s = del.s
      OBVIOUS
    <2> HIDE DEF none, other, gone, at, del, m
    <2>3. \/ out = none \/ out = other
          \/ at # 0 /\ ~ NonceError(m, req) /\ out = gone
      BY <2>1
    <2> QED  BY <2>2, <2>3 DEF NonceError
  <1>3. CASE out.s = Now
    <2>1. \A i \in 1 .. Len(table) : Has(table, table[i])
      BY DEF Has
    <2> QED  BY <1>1, <1>3, <2>1
  <1>4. CASE at # 0 /\ m.desc = PcpDesc(req) /\ out.s = del.s
    <2>1. at \in I
      <3>1. at = IF I # {} THEN Min(I) ELSE 0
        BY DEF SelectInSeq
      <3>2. I \subseteq Nat
        BY DEF TableInv, Listed
      <3> HIDE DEF I, at
      <3>3. I # {}
        BY <1>4, <3>1
      <3>4. \E x \in I : \A y \in I : x <= y
        BY <3>2, <3>3, LeastNatural
      <3> QED  BY <3>1, <3>3, <3>4 DEF Min
    <2>2. at \in 1 .. Len(table) /\ m.iaddr = req.iaddr
      BY <2>1 DEF DeleteMatches
    <2> HIDE DEF at, I
    <2>3. Has(Now.table, m)
      BY <1>1, <2>2 DEF Has
    <2>4. State(del.s) /\ OthersStay(del.s, req.iaddr)
      BY <1>1, <2>2, <2>3, DeletesOwn
    <2>5. AllBut(del.s.table, table, IF k = 0 THEN {} ELSE {table[k]})
      <3> HIDE DEF m, k, del
      <3>1. k = Find(Now.table, m.eport, m.proto) /\ del = DeleteRedir(Now, m.eport, m.proto, t)
        BY <1>1 DEF k, del
      <3>2. AllBut(del.s.table, Now.table, IF k = 0 THEN {} ELSE {Now.table[k]})
        BY <1>1, <3>1, DeletesOne
      <3> QED  BY <1>1, <3>2
    <2>6. ASSUME ~ unsure, k # 0 PROVE table[k].desc = PcpDesc(req)
      <3>1. k \in 1 .. Len(table) /\ SameKey(table[k], m)
        BY <2>6, FindFinds DEF TableInv, IsKey, SameKey
      <3> HIDE DEF k
      <3>2. k = at
        BY <2>2, <2>6, <3>1 DEF TableInv, KeysDiffer
      <3> QED  BY <1>4, <3>2
    <2> HIDE DEF k, m, del
    <2>7. ~ unsure => \A i \in 1 .. Len(table) :
                          Has(del.s.table, table[i]) \/ table[i].desc = PcpDesc(req)
      <3> SUFFICES ASSUME ~ unsure, NEW i \in 1 .. Len(table), ~ Has(del.s.table, table[i])
                   PROVE  table[i].desc = PcpDesc(req)
        OBVIOUS
      <3>1. Has(table, table[i])
        BY DEF Has
      <3> QED  BY <2>5, <2>6, <3>1 DEF AllBut
    <2> QED  BY <1>4, <2>4, <2>7
  <1> QED  BY <1>2, <1>3, <1>4

-----------------------------------------------------------------------------
(***************************************************************************)
(* PCP: rules for PEER. They are no mappings, but what is deleted by their *)
(* port may be one.                                                        *)
(***************************************************************************)
\* PEER leaves a table as the requests do.
LEMMA PeerKeeps ==
    ASSUME TableInv, NEW req, NEW t
    PROVE  State(CreatePCPPeer(req, t).s) /\ State(DeletePCPPeer(req, t).s)
  <1>1. State(Now) /\ unsure \in BOOLEAN
    BY NowIsState DEF TableInv
  <1>2. State(CreatePCPPeer(req, t).s)
    <2> DEFINE out == CreatePCPPeer(req, t)
    <2>1. out.s = Now \/ \E p : out.s = [Now EXCEPT !.peers = p]
      BY DEF CreatePCPPeer
    <2> HIDE DEF out
    <2>2. ASSUME NEW p, out.s = [Now EXCEPT !.peers = p] PROVE State(out.s)
      <3> DEFINE w == out.s
      <3>1. Now = [table |-> Now.table, peers |-> Now.peers, dels |-> Now.dels, unsure |-> Now.unsure]
        BY <1>1 DEF State
      <3>2. w = [Now EXCEPT !.peers = p]
        BY <2>2
      <3> HIDE DEF w
      <3>3. /\ w.table = Now.table /\ w.unsure = Now.unsure
            /\ w = [table |-> w.table, peers |-> w.peers, dels |-> w.dels, unsure |-> w.unsure]
        BY <3>1, <3>2
      <3>4. State(w)
        BY <1>1, <3>3 DEF State
      <3> QED  BY <3>4 DEF w
    <2>3. State(out.s)
      BY <1>1, <2>1, <2>2
    <2> QED  BY <2>3 DEF out
  <1>3. State(DeletePCPPeer(req, t).s)
    <2> DEFINE out == DeletePCPPeer(req, t)
    <2>1. out.s = Now \/ \E eport, proto : out.s = DeleteRedir(Now, eport, proto, t).s
      BY DEF DeletePCPPeer
    <2> HIDE DEF out
    <2>2. ASSUME NEW eport, NEW proto PROVE State(DeleteRedir(Now, eport, proto, t).s)
      BY <1>1, DeletesOne
    <2>3. State(out.s)
      BY <1>1, <2>1, <2>2
    <2> QED  BY <2>3 DEF out
  <1> QED  BY <1>2, <1>3

-----------------------------------------------------------------------------
(***************************************************************************)
(* The IGD: any port, or the one asked for.                                *)
(***************************************************************************)
AnyMap(req, port) ==
    Mapping(port, req.proto, req.iaddr, req.iport, [by |-> "IGD", nonce |-> 0], req.life)

\* One port, if it is available
LEMMA UpnpRedirects ==
    ASSUME unsure \in BOOLEAN, NEW s, State(s), NEW req, OthersStay(s, req.iaddr),
           NEW eport, NEW t, NEW out, out = UpnpRedirect(s, req, eport, t)
    PROVE  /\ State(out.s) /\ OthersStay(out.s, req.iaddr)
           /\ out.r \in {0, -1, -2, -3, -4}
           /\ out.r = 0 => /\ Has(out.s.table, AnyMap(req, eport))
                           /\ CheckPermissions(perms, eport, req.iaddr, req.iport)
           /\ out.r \in {-2, -3, -4} =>
                 out.s = s /\ (s = Now => ~ Available(eport, req.proto, req))
  <1> DEFINE old == Find(s.table, eport, req.proto)
             m == AnyMap(req, eport)
             w == [s EXCEPT !.table[old] = m]
             new == RedirectInternal(s, m, t)
             ok == CheckPermissions(perms, eport, req.iaddr, req.iport)
             inuse == PortInUse(eport, req.proto, req.iaddr, req.iport)
  <1>1. out = IF ~ ok THEN Out(s, -3)
              ELSE IF old # 0
              THEN IF s.table[old].iaddr # req.iaddr THEN Out(s, -2)
                   ELSE IF t.add = "ok" THEN Out(w, 0) ELSE Out(s, -1)
              ELSE IF inuse THEN Out(s, -4)
              ELSE new
    BY DEF UpnpRedirect, AnyMap
  <1>2. \A a, b : Out(a, b).s = a /\ Out(a, b).r = b
    BY DEF Out
  <1>3. /\ m.eport = eport /\ m.proto = req.proto /\ m.iaddr = req.iaddr
        /\ Listed(s.table) /\ Now.table = table
    BY DEF AnyMap, Mapping, State, Now
  <1>4. CASE ~ ok
    <2>1. out = Out(s, -3)
      <3> HIDE DEF ok, old, w, new, m
      <3> QED  BY <1>1, <1>4
    <2>2. ~ Available(eport, req.proto, req)
      BY <1>4 DEF Available
    <2>3. out.s = s /\ out.r = -3
      BY <1>2, <2>1
    <2> QED  BY <2>2, <2>3
  <1>5. CASE ok /\ old # 0 /\ s.table[old].iaddr # req.iaddr
    <2>1. out = Out(s, -2)
      <3> HIDE DEF ok, old, w, new, m
      <3> QED  BY <1>1, <1>5
    <2>2. s = Now => ~ Available(eport, req.proto, req)
      BY <1>3, <1>5 DEF Available, Own
    <2>3. out.s = s /\ out.r = -2
      BY <1>2, <2>1
    <2> QED  BY <2>2, <2>3
  <1>6. CASE ok /\ old # 0 /\ s.table[old].iaddr = req.iaddr /\ t.add # "ok"
    <2>1. out = Out(s, -1)
      <3> HIDE DEF ok, old, w, new, m
      <3> QED  BY <1>1, <1>6
    <2>2. out.s = s /\ out.r = -1
      BY <1>2, <2>1
    <2> QED  BY <2>2
  <1>7. CASE ok /\ old # 0 /\ s.table[old].iaddr = req.iaddr /\ t.add = "ok"
    <2>1. out = Out(w, 0)
      <3> HIDE DEF ok, old, w, new, m
      <3> QED  BY <1>1, <1>7
    <2>2. out.s = w /\ out.r = 0
      BY <1>2, <2>1
    <2>3. old \in 1 .. Len(s.table) /\ SameKey(s.table[old], m) /\ s.table[old].iaddr = m.iaddr
      BY <1>3, <1>7, FindFinds DEF IsKey, SameKey
    <2> DEFINE q == [s.table EXCEPT ![old] = m]
    <2> HIDE DEF old, m
    <2>4. /\ Listed(q) /\ Has(q, m)
          /\ \A i \in 1 .. Len(s.table) : i # old => Has(q, s.table[i])
          /\ KeysDiffer(s.table) => KeysDiffer(q)
          /\ HostsSame(s.table) => HostsSame(q)
      BY <1>3, <2>3, OneChanged
    <2>5. /\ w.table = q /\ w.unsure = s.unsure
          /\ w = [table |-> w.table, peers |-> w.peers, dels |-> w.dels, unsure |-> w.unsure]
      <3> DEFINE v == w
      <3>1. s = [table |-> s.table, peers |-> s.peers, dels |-> s.dels, unsure |-> s.unsure]
        BY DEF State
      <3>2. v = [s EXCEPT !.table[old] = m]
        OBVIOUS
      <3> HIDE DEF v
      <3>3. /\ v.table = q /\ v.unsure = s.unsure
            /\ v = [table |-> v.table, peers |-> v.peers, dels |-> v.dels, unsure |-> v.unsure]
        BY <3>1, <3>2
      <3> QED  BY <3>3 DEF v
    <2> HIDE DEF w, q
    <2>6. State(w)
      BY <2>4, <2>5 DEF State
    <2>7. OthersStay(w, req.iaddr)
      <3> SUFFICES ASSUME NEW i \in 1 .. Len(table), table[i].iaddr # req.iaddr
                   PROVE  Has(q, table[i])
        BY <2>5 DEF OthersStay
      <3>1. PICK j \in 1 .. Len(s.table) : s.table[j] = table[i]
        BY DEF OthersStay, Has
      <3>2. j # old
        BY <1>7, <3>1
      <3> QED  BY <2>4, <3>1, <3>2
    <2>8. Has(w.table, AnyMap(req, eport))
      BY <2>4, <2>5 DEF m
    <2> QED  BY <1>7, <2>2, <2>6, <2>7, <2>8
  <1>8. CASE ok /\ old = 0 /\ inuse
    <2>1. out = Out(s, -4)
      <3> HIDE DEF ok, old, w, new, m, inuse
      <3> QED  BY <1>1, <1>8
    <2>2. ~ Available(eport, req.proto, req)
      BY <1>8 DEF Available
    <2>3. out.s = s /\ out.r = -4
      BY <1>2, <2>1
    <2> QED  BY <2>2, <2>3
  <1>9. CASE ok /\ old = 0 /\ ~ inuse
    <2>1. out = new
      <3> HIDE DEF ok, old, w, new, m, inuse
      <3> QED  BY <1>1, <1>9
    <2>2. FreeAt(s.table, m.eport, m.proto)
      BY <1>3, <1>9, FindFinds
    <2>3. \A k \in 1 .. Len(s.table) : SameKey(s.table[k], m) => s.table[k].iaddr = m.iaddr
      BY <2>2 DEF FreeAt, SameKey, IsKey
    <2> HIDE DEF m
    <2>4. /\ State(new.s) /\ Within(s.table, new.s.table)
          /\ new.r \in {0, -1} /\ (new.r = 0 => Has(new.s.table, m))
      BY <1>3, <2>2, <2>3, AddsOne
    <2>5. OthersStay(new.s, req.iaddr)
      BY <2>4 DEF OthersStay, Within
    <2> HIDE DEF new
    <2> QED  BY <1>9, <2>1, <2>4, <2>5 DEF m
  <1> QED  BY <1>4, <1>5, <1>6, <1>7, <1>8, <1>9

-----------------------------------------------------------------------------
(***************************************************************************)
(* AddAnyPortMapping: the ports on both sides of the first one.            *)
(***************************************************************************)
\* What the search has done: the ports from below to above are not available
AnySearched(x, req) ==
    /\ x = [s |-> x.s, r |-> x.r, port |-> x.port, below |-> x.below, above |-> x.above]
    /\ State(x.s) /\ OthersStay(x.s, req.iaddr)
    /\ x.r \in {0, -1, -2, -3, -4, 1}
    /\ x.r = 0 => /\ Has(x.s.table, AnyMap(req, x.port))
                  /\ CheckPermissions(perms, x.port, req.iaddr, req.iport)
    /\ x.r \notin {-1, 0, 1} =>
          /\ x.s = Now
          /\ x.below \in 1 .. TopPort /\ x.above \in 1 .. TopPort
          /\ \A eport \in x.below .. x.above : ~ Available(eport, req.proto, req)
    /\ x.r = 1 => NothingFor(req, req.proto)

\* The next port is next to those that were tried.
LEMMA AnyMoves ==
    ASSUME NEW x, x = [s |-> x.s, r |-> x.r, port |-> x.port, below |-> x.below, above |-> x.above],
           x.below \in 1 .. TopPort, x.above \in 1 .. TopPort, ~ AnyTried(x),
           NEW y, y = AnyMove(x)
    PROVE  /\ y = [s |-> y.s, r |-> y.r, port |-> y.port, below |-> y.below, above |-> y.above]
           /\ y.s = x.s /\ y.r = x.r
           /\ y.below \in 1 .. TopPort /\ y.above \in 1 .. TopPort
           /\ \A eport \in y.below .. y.above : eport \in x.below .. x.above \/ eport = y.port
  <1>1. TopPort \in Nat /\ x.below \in Nat /\ x.above \in Nat
    BY PermissionsAssumption
  <1> DEFINE down == x.above = TopPort \/ (x.port > x.below /\ x.below > 1)
  <1>2. CASE down
    <2>1. y = [x EXCEPT !.below = @ - 1, !.port = x.below - 1]
      BY <1>2 DEF AnyMove
    <2>2. /\ y = [s |-> y.s, r |-> y.r, port |-> y.port, below |-> y.below, above |-> y.above]
          /\ y.s = x.s /\ y.r = x.r /\ y.below = x.below - 1 /\ y.above = x.above
          /\ y.port = x.below - 1
      BY <2>1
    <2>3. x.below > 1
      BY <1>1, <1>2 DEF AnyTried
    <2> QED  BY <1>1, <2>2, <2>3
  <1>3. CASE ~ down
    <2>1. y = [x EXCEPT !.above = @ + 1, !.port = x.above + 1]
      BY <1>3 DEF AnyMove
    <2>2. /\ y = [s |-> y.s, r |-> y.r, port |-> y.port, below |-> y.below, above |-> y.above]
          /\ y.s = x.s /\ y.r = x.r /\ y.below = x.below /\ y.above = x.above + 1
          /\ y.port = x.above + 1
      BY <2>1
    <2>3. x.above # TopPort
      BY <1>3
    <2> QED  BY <1>1, <2>2, <2>3
  <1> QED  BY <1>2, <1>3

\* The ports that the table of AddAnyPortMapping leaves out are denied.
LEMMA NotAllowed ==
    ASSUME Rules(perms), NEW address, NEW iport, NEW eport \in Ports,
           eport \notin PermittedExtPorts(perms, address, iport)
    PROVE  ~ CheckPermissions(perms, eport, address, iport)
  BY PermittedIsAccepted, CheckIsAccepts DEF Accepted

\* One turn of the search
LEMMA AnyTurn ==
    ASSUME TableInv, Rules(perms), NEW req, NEW t, NEW x, AnySearched(x, req),
           NEW y, y = AnyTry(x, PermittedExtPorts(perms, req.iaddr, req.iport), req, t)
    PROVE  AnySearched(y, req)
  <1> DEFINE allowed == PermittedExtPorts(perms, req.iaddr, req.iport)
             next == AnyMove(x)
             out == UpnpRedirect(next.s, req, next.port, t)
  <1>1. y = IF x.r \in {-1, 0, 1} THEN x
            ELSE IF AnyTried(x) THEN [x EXCEPT !.r = 1]
            ELSE IF next.port \notin allowed THEN next
            ELSE [next EXCEPT !.s = out.s, !.r = out.r]
    BY DEF AnyTry, On
  <1>2. /\ x = [s |-> x.s, r |-> x.r, port |-> x.port, below |-> x.below, above |-> x.above]
        /\ State(x.s) /\ OthersStay(x.s, req.iaddr)
        /\ x.r \notin {-1, 0, 1} =>
              /\ x.s = Now
              /\ x.below \in 1 .. TopPort /\ x.above \in 1 .. TopPort
              /\ \A eport \in x.below .. x.above : ~ Available(eport, req.proto, req)
        /\ unsure \in BOOLEAN /\ TopPort \in Nat
    BY PermissionsAssumption DEF AnySearched, TableInv
  <1>3. CASE x.r \in {-1, 0, 1}
    BY <1>1, <1>3
  <1>4. CASE x.r \notin {-1, 0, 1} /\ AnyTried(x)
    <2>1. y = [x EXCEPT !.r = 1]
      BY <1>1, <1>4
    <2>2. /\ y = [s |-> y.s, r |-> y.r, port |-> y.port, below |-> y.below, above |-> y.above]
          /\ y.s = x.s /\ y.r = 1
      BY <1>2, <2>1
    <2>3. x.below = 1 /\ x.above = TopPort
      BY <1>2, <1>4 DEF AnyTried
    <2>4. NothingFor(req, req.proto)
      BY <1>2, <1>4, <2>3 DEF NothingFor, Ports
    <2> QED  BY <1>2, <2>2, <2>4 DEF AnySearched
  <1>5. CASE x.r \notin {-1, 0, 1} /\ ~ AnyTried(x)
    <2> HIDE DEF next, allowed, out
    <2>1. /\ next = [s |-> next.s, r |-> next.r, port |-> next.port, below |-> next.below,
                     above |-> next.above]
          /\ next.s = x.s /\ next.r = x.r
          /\ next.below \in 1 .. TopPort /\ next.above \in 1 .. TopPort
          /\ \A eport \in next.below .. next.above : eport \in x.below .. x.above \/ eport = next.port
      <3>1. next = AnyMove(x)
        BY DEF next
      <3> QED  BY <1>2, <1>5, <3>1, AnyMoves
    <2>2. CASE next.port \notin allowed
      <3>1. y = next
        BY <1>1, <1>5, <2>2
      <3>2. ASSUME NEW eport \in next.below .. next.above PROVE ~ Available(eport, req.proto, req)
        <4>1. CASE eport \in x.below .. x.above
          BY <1>2, <1>5, <4>1
        <4>2. CASE eport = next.port
          <5>1. eport \in Ports
            BY <1>2, <2>1 DEF Ports
          <5>2. ~ CheckPermissions(perms, eport, req.iaddr, req.iport)
            BY <2>2, <4>2, <5>1, NotAllowed DEF allowed
          <5> QED  BY <5>2 DEF Available
        <4> QED  BY <2>1, <4>1, <4>2
      <3>3. x.r \in {-2, -3, -4}
        BY <1>5 DEF AnySearched
      <3> QED  BY <1>2, <1>5, <2>1, <3>1, <3>2, <3>3 DEF AnySearched
    <2>3. CASE next.port \in allowed
      <3>1. y = [next EXCEPT !.s = out.s, !.r = out.r]
        BY <1>1, <1>5, <2>3
      <3>2. /\ y = [s |-> y.s, r |-> y.r, port |-> y.port, below |-> y.below, above |-> y.above]
            /\ y.s = out.s /\ y.r = out.r /\ y.port = next.port
            /\ y.below = next.below /\ y.above = next.above
        BY <2>1, <3>1
      <3>3. next.s = Now /\ State(next.s) /\ OthersStay(next.s, req.iaddr)
        BY <1>2, <1>5, <2>1
      <3>4. /\ State(out.s) /\ OthersStay(out.s, req.iaddr)
            /\ out.r \in {0, -1, -2, -3, -4}
            /\ out.r = 0 => /\ Has(out.s.table, AnyMap(req, next.port))
                            /\ CheckPermissions(perms, next.port, req.iaddr, req.iport)
            /\ out.r \in {-2, -3, -4} =>
                  out.s = next.s /\ (next.s = Now => ~ Available(next.port, req.proto, req))
        <4>1. out = UpnpRedirect(next.s, req, next.port, t)
          BY DEF out
        <4> QED  BY <1>2, <3>3, <4>1, UpnpRedirects
      <3>5. ASSUME out.r \in {-2, -3, -4}, NEW eport \in next.below .. next.above
            PROVE  ~ Available(eport, req.proto, req)
        BY <1>2, <1>5, <2>1, <3>3, <3>4, <3>5
      <3>6. out.r \notin {-1, 0, 1} => out.r \in {-2, -3, -4}
        BY <3>4
      <3>7. out.r # 1
        BY <3>4
      <3> QED  BY <2>1, <3>2, <3>3, <3>4, <3>5, <3>6, <3>7 DEF AnySearched
    <2> QED  BY <2>2, <2>3
  <1> QED  BY <1>3, <1>4, <1>5

\* What AddAnyPortMapping's search leaves and answers
LEMMA AnySearches ==
    ASSUME TableInv, Rules(perms), NEW req, NEW t, NEW eport \in Ports \ {0},
           NEW out, out = AnySearch(req, eport, t)
    PROVE  AnySearched(out, req)
  <1> DEFINE start == UpnpRedirect(Now, req, eport, t)
             allowed == PermittedExtPorts(perms, req.iaddr, req.iport)
             X(o) == [s |-> o.s, r |-> o.r, port |-> eport, below |-> eport, above |-> eport]
             x == X(start)
             n == TopPort + 1
             F(f, o) == f = [i \in 0 .. n |-> IF i = 0 THEN X(o)
                                              ELSE AnyTry(f[i - 1], allowed, req, t)]
             End(o) == (CHOOSE f : F(f, o))[n]
             f0 == CHOOSE f : F(f, start)
  <1>1. TopPort \in Nat /\ n \in Nat
    BY PermissionsAssumption
  <1>2. out = f0[n]
    <2>1. out = CHOOSE v \in {End(o) : o \in {start}} : TRUE
      BY DEF AnySearch, On, Steps
    <2> HIDE DEF End, start
    <2>2. {End(o) : o \in {start}} = {End(start)}
      OBVIOUS
    <2>3. out = End(start)
      BY <2>1, <2>2
    <2> QED  BY <2>3 DEF End
  <1>3. AnySearched(x, req)
    <2>1. /\ x = [s |-> x.s, r |-> x.r, port |-> x.port, below |-> x.below, above |-> x.above]
          /\ x.s = start.s /\ x.r = start.r /\ x.port = eport /\ x.below = eport /\ x.above = eport
      OBVIOUS
    <2>2. eport \in 1 .. TopPort
      BY <1>1 DEF Ports
    <2>3. State(Now) /\ OthersStay(Now, req.iaddr) /\ unsure \in BOOLEAN
      BY NowIsState DEF TableInv
    <2> HIDE DEF start
    <2>4. /\ State(start.s) /\ OthersStay(start.s, req.iaddr)
          /\ start.r \in {0, -1, -2, -3, -4}
          /\ start.r = 0 => /\ Has(start.s.table, AnyMap(req, eport))
                            /\ CheckPermissions(perms, eport, req.iaddr, req.iport)
          /\ start.r \in {-2, -3, -4} =>
                start.s = Now /\ (Now = Now => ~ Available(eport, req.proto, req))
      <3>1. start = UpnpRedirect(Now, req, eport, t)
        BY DEF start
      <3> QED  BY <2>3, <3>1, UpnpRedirects
    <2>5. \A e \in eport .. eport : e = eport
      BY <2>2
    <2>6. start.r \notin {-1, 0, 1} => start.r \in {-2, -3, -4}
      BY <2>4
    <2>7. start.r # 1
      BY <2>4
    <2> HIDE DEF x
    <2> QED  BY <2>1, <2>2, <2>4, <2>5, <2>6, <2>7 DEF AnySearched
  <1>4. \A g : F(g, start) <=> Follows(g, "any", x, n, req, t)
    BY DEF Follows, Turn
  <1> HIDE DEF x, n, F
  <1>5. PICK f : Follows(f, "any", x, n, req, t)
    BY <1>1, TurnsExist
  <1>6. F(f0, start)
    BY <1>4, <1>5
  <1> HIDE DEF f0
  <1>7. Follows(f0, "any", x, n, req, t)
    BY <1>4, <1>6
  <1>8. f0[0] = x /\ \A i \in 1 .. n : f0[i] = AnyTry(f0[i - 1], allowed, req, t)
    BY <1>1, <1>7, TurnByTurn DEF Turn
  <1> DEFINE S == {i \in 0 .. n : AnySearched(f0[i], req)}
  <1>9. 0 \in S
    BY <1>1, <1>3, <1>8
  <1>10. \A i \in 1 .. n : i - 1 \in S => i \in S
    <2> SUFFICES ASSUME NEW i \in 1 .. n, AnySearched(f0[i - 1], req)
                 PROVE  i \in 0 .. n /\ AnySearched(f0[i], req)
      OBVIOUS
    <2>1. i \in 0 .. n
      BY <1>1
    <2>2. f0[i] = AnyTry(f0[i - 1], allowed, req, t)
      BY <1>8
    <2> QED  BY <2>1, <2>2, AnyTurn
  <1> HIDE DEF S
  <1>11. n \in S
    BY <1>1, <1>9, <1>10, ByTurns
  <1> QED  BY <1>2, <1>11 DEF S

-----------------------------------------------------------------------------
(***************************************************************************)
(* The steps of the servers.                                               *)
(***************************************************************************)
\* The bodies of OnlyOwnMaps, DeletesAll and NoneLeftOut
OwnStep ==
    \A i \in DOMAIN table :
        \/ \E j \in DOMAIN table' : table'[j] = table[i]
        \/ reply'.op = "pcp" /\ reply'.req.opcode = "PEER"
        \/ /\ reply'.req.iaddr = table[i].iaddr
           /\ reply'.op = "pcp" /\ reply'.req.lifetime = 0 /\ ~ unsure
              => table[i].desc = PcpDesc(reply'.req)

DeleteStep ==
    reply'.op = "natpmp" /\ reply'.code = 0 /\ reply'.req.version = 0 /\ ~ unsure'
         /\ reply'.req.opcode \in {1, 2} /\ reply'.req.lifetime = 0
       => \A i \in DOMAIN table' : ~ NatpmpMatches(table'[i], reply'.req)

LeftStep ==
    \/ reply'.op = "natpmp" /\ reply'.req.version = 0 /\ reply'.req.opcode \in {1, 2}
         /\ reply'.req.lifetime # 0 /\ reply'.req.iport # 0 /\ reply'.code \in {2, 4}
    \/ reply'.op = "any" /\ reply'.code = 728
    => LET proto == IF reply'.op = "natpmp" THEN NatpmpProto(reply'.req.opcode)
                    ELSE reply'.req.proto
       IN  \A eport \in Ports \ {0} : ~ Available(eport, proto, reply'.req)

\* A port that is granted is that of one mapping.
LEMMA GrantedBy ==
    ASSUME TableInv', perms' = perms, NEW m,
           Grants' /\ ~ unsure' =>
              /\ Has(table', m) /\ Own(m, reply'.req) /\ m.life = reply'.life
              /\ m.eport = reply'.port /\ m.proto = GrantedProto'
              /\ CheckPermissions(perms, reply'.port, reply'.req.iaddr, reply'.req.iport)
              /\ reply'.op = "pcp" => MinLifetime <= reply'.life /\ reply'.life <= MaxLifetime
    PROVE  Granted'
  <1> SUFFICES ASSUME Grants', ~ unsure'
               PROVE  /\ \E i \in DOMAIN table' :
                            /\ Own(table'[i], reply'.req) /\ table'[i].life = reply'.life
                            /\ {j \in DOMAIN table' :
                                  IsKey(table'[j], reply'.port, GrantedProto')} = {i}
                      /\ CheckPermissions(perms', reply'.port, reply'.req.iaddr, reply'.req.iport)
                      /\ reply'.op = "pcp" =>
                            MinLifetime <= reply'.life /\ reply'.life <= MaxLifetime
    BY DEF Granted
  <1>1. DOMAIN table' = 1 .. Len(table') /\ KeysDiffer(table')
    BY DEF TableInv, Listed
  <1>2. PICK i \in 1 .. Len(table') : table'[i] = m
    BY DEF Has
  <1>3. \A j \in 1 .. Len(table') : IsKey(table'[j], m.eport, m.proto) <=> j = i
    BY <1>1, <1>2 DEF KeysDiffer, SameKey, IsKey
  <1>4. {j \in DOMAIN table' : IsKey(table'[j], reply'.port, GrantedProto')} = {i}
    BY <1>1, <1>3
  <1> QED  BY <1>1, <1>2, <1>4

\* The table after a request
LEMMA Finished ==
    ASSUME TableInv, NEW s, NEW answer, State(s), Finish(s, answer)
    PROVE  /\ TableInv'
           /\ table' = s.table /\ reply' = answer /\ perms' = perms
           /\ unsure' = (unsure \/ s.unsure)
  BY DEF TableInv, State, Finish

\* A host's request takes no mapping of another.
LEMMA OthersStayed ==
    ASSUME TableInv, NEW s, OthersStay(s, reply'.req.iaddr), table' = s.table, Listed(table'),
           reply'.op = "pcp" /\ reply'.req.lifetime = 0 /\ ~ unsure =>
              \A i \in 1 .. Len(table) :
                  Has(s.table, table[i]) \/ table[i].desc = PcpDesc(reply'.req)
    PROVE  OwnStep
  <1>1. DOMAIN table = 1 .. Len(table) /\ DOMAIN table' = 1 .. Len(table')
    BY DEF TableInv, Listed
  <1>2. ASSUME NEW i \in 1 .. Len(table), Has(s.table, table[i])
        PROVE  \E j \in DOMAIN table' : table'[j] = table[i]
    BY <1>1, <1>2 DEF Has
  <1> QED  BY <1>1, <1>2 DEF OwnStep, OthersStay

\* A request that is turned down, or that changes nothing
LEMMA Quiet ==
    ASSUME TableInv, NEW answer, Finish(Now, answer), ~ Grants'
    PROVE  TableInv' /\ Granted' /\ OwnStep /\ reply' = answer /\ table' = table
  <1>1. State(Now) /\ Now.table = table
    BY NowIsState
  <1>2. TableInv' /\ table' = table /\ reply' = answer
    BY <1>1, Finished
  <1>3. Granted'
    BY DEF Granted
  <1>4. OwnStep
    BY <1>2 DEF OwnStep
  <1> QED  BY <1>2, <1>3, <1>4

\* NAT-PMP
LEMMA NatpmpKeeps ==
    ASSUME TableInv, NEW req \in NatpmpRequests, NEW t, Natpmp(req, t)
    PROVE  TableInv' /\ Granted' /\ OwnStep /\ DeleteStep /\ LeftStep
  <1>1. req.iport \in Ports /\ req.eport \in Ports /\ req.lifetime \in Nat
    BY RequestsAssumption
  <1>2. ASSUME NEW code, NEW port, reply' = NatpmpReply(req, code, port)
        PROVE  /\ reply'.op = "natpmp" /\ reply'.req = req /\ reply'.code = code
               /\ reply'.port = port /\ reply'.life = req.lifetime
    BY <1>2 DEF NatpmpReply
  <1>3. ASSUME NEW code, NEW port, Finish(Now, NatpmpReply(req, code, port)),
               code = 0 => req.opcode \notin {1, 2},
               code \in {2, 4} => req.version # 0 \/ req.opcode \notin {1, 2} \/ req.iport = 0
        PROVE  TableInv' /\ Granted' /\ OwnStep /\ DeleteStep /\ LeftStep
    <2>1. reply' = NatpmpReply(req, code, port)
      BY <1>3 DEF Finish
    <2>2. /\ reply'.op = "natpmp" /\ reply'.req = req /\ reply'.code = code
          /\ reply'.life = req.lifetime
      BY <1>2, <2>1
    <2>3. ~ Grants'
      BY <1>3, <2>2 DEF Grants
    <2>4. TableInv' /\ Granted' /\ OwnStep
      BY <1>3, <2>3, Quiet
    <2> QED  BY <1>3, <2>2, <2>4 DEF DeleteStep, LeftStep
  <1>4. PublicAddress(t) \in {0, 3}
    BY DEF PublicAddress
  <1>5. CASE req.version > 0
    <2>1. Finish(Now, NatpmpReply(req, 1, 0))
      BY <1>5 DEF Natpmp
    <2> QED  BY <1>3, <2>1
  <1>6. CASE ~ (req.version > 0) /\ req.opcode = 0
    <2>1. Finish(Now, NatpmpReply(req, PublicAddress(t), 0))
      BY <1>6 DEF Natpmp
    <2> QED  BY <1>3, <1>4, <1>6, <2>1
  <1>7. CASE ~ (req.version > 0) /\ req.opcode # 0 /\ req.opcode > 2
    <2>1. Finish(Now, NatpmpReply(req, 5, 0))
      BY <1>7 DEF Natpmp
    <2> QED  BY <1>3, <2>1
  <1>8. CASE ~ (req.version > 0) /\ req.opcode # 0 /\ ~ (req.opcode > 2) /\ req.lifetime = 0
    <2> DEFINE out == NatpmpDelete(req, t)
    <2>1. Finish(out.s, NatpmpReply(req, out.code, out.port))
      BY <1>8 DEF Natpmp
    <2> HIDE DEF out
    <2>2. /\ State(out.s) /\ OthersStay(out.s, req.iaddr)
          /\ ~ unsure /\ ~ out.s.unsure
               => \A k \in 1 .. Len(out.s.table) : ~ NatpmpMatches(out.s.table[k], req)
      BY NatpmpDeletes DEF out
    <2>3. /\ TableInv' /\ table' = out.s.table /\ perms' = perms
          /\ reply' = NatpmpReply(req, out.code, out.port)
          /\ unsure' = (unsure \/ out.s.unsure)
      BY <2>1, <2>2, Finished
    <2>4. reply'.op = "natpmp" /\ reply'.req = req /\ reply'.life = 0
      BY <1>2, <1>8, <2>3
    <2>5. Granted'
      BY <2>4 DEF Granted, Grants
    <2>6. Listed(table') /\ DOMAIN table' = 1 .. Len(table')
      BY <2>3 DEF TableInv, Listed
    <2>7. OwnStep
      BY <2>2, <2>3, <2>4, <2>6, OthersStayed
    <2>8. DeleteStep
      BY <2>2, <2>3, <2>4, <2>6 DEF DeleteStep
    <2>9. LeftStep
      BY <1>8, <2>4 DEF LeftStep
    <2> QED  BY <2>3, <2>5, <2>7, <2>8, <2>9
  <1>9. CASE /\ ~ (req.version > 0) /\ req.opcode # 0 /\ ~ (req.opcode > 2) /\ req.lifetime # 0
             /\ req.iport = 0
    <2>1. Finish(Now, NatpmpReply(req, 2, req.eport))
      BY <1>9 DEF Natpmp
    <2> QED  BY <1>3, <1>9, <2>1
  <1>10. CASE /\ ~ (req.version > 0) /\ req.opcode # 0 /\ ~ (req.opcode > 2) /\ req.lifetime # 0
              /\ req.iport # 0
    <2> DEFINE out == NatpmpAdd(req, t)
    <2>1. Finish(out.s, NatpmpReply(req, out.code, out.port))
      BY <1>10 DEF Natpmp
    <2>2. FirstPort(req) \in 1 .. TopPort
      BY <1>1, <1>10, PermissionsAssumption DEF FirstPort, Ports
    <2>3. \E i \in Nat : Searched(out, i, req) /\ out.done
      BY <2>2, NatpmpSearches
    <2> HIDE DEF out
    <2>4. /\ State(out.s) /\ OthersStay(out.s, req.iaddr)
          /\ out.code = 0 /\ ~ unsure /\ ~ out.s.unsure
               => /\ Has(out.s.table, NatpmpMap(req, out.port))
                  /\ CheckPermissions(perms, out.port, req.iaddr, req.iport)
          /\ out.code \in {2, 4} => NothingFor(req, NatpmpProto(req.opcode))
      BY <2>3 DEF Searched
    <2>5. /\ TableInv' /\ table' = out.s.table /\ perms' = perms
          /\ reply' = NatpmpReply(req, out.code, out.port)
          /\ unsure' = (unsure \/ out.s.unsure)
      BY <2>1, <2>4, Finished
    <2>6. /\ reply'.op = "natpmp" /\ reply'.req = req /\ reply'.code = out.code
          /\ reply'.port = out.port /\ reply'.life = req.lifetime
      BY <1>2, <2>5
    <2>7. Granted'
      <3> DEFINE m == NatpmpMap(req, out.port)
      <3>1. /\ m.iaddr = req.iaddr /\ m.iport = req.iport /\ m.life = req.lifetime
            /\ m.eport = out.port /\ m.proto = NatpmpProto(req.opcode)
        BY DEF NatpmpMap, Mapping
      <3>2. GrantedProto' = NatpmpProto(req.opcode)
        BY <2>6 DEF GrantedProto
      <3>3. Grants' => reply'.code = 0
        BY DEF Grants
      <3> HIDE DEF m
      <3>4. Grants' /\ ~ unsure' =>
              /\ Has(table', m) /\ Own(m, reply'.req) /\ m.life = reply'.life
              /\ m.eport = reply'.port /\ m.proto = GrantedProto'
              /\ CheckPermissions(perms, reply'.port, reply'.req.iaddr, reply'.req.iport)
              /\ reply'.op = "pcp" => MinLifetime <= reply'.life /\ reply'.life <= MaxLifetime
        BY <2>4, <2>5, <2>6, <3>1, <3>2, <3>3 DEF Own, m
      <3> QED  BY <2>5, <3>4, GrantedBy
    <2>8. Listed(table')
      BY <2>5 DEF TableInv
    <2>9. OwnStep
      BY <2>4, <2>5, <2>6, <2>8, OthersStayed
    <2>10. DeleteStep
      BY <1>10, <2>6 DEF DeleteStep
    <2>11. LeftStep
      BY <2>4, <2>6 DEF LeftStep, NothingFor
    <2> QED  BY <2>5, <2>7, <2>9, <2>10, <2>11
  <1> QED  BY <1>5, <1>6, <1>7, <1>8, <1>9, <1>10

\* AddAnyPortMapping
LEMMA AnyKeeps ==
    ASSUME TableInv, Rules(perms), NEW req, NEW eport \in Ports \ {0}, NEW t,
           AddAnyPortMapping(req, eport, t)
    PROVE  TableInv' /\ Granted' /\ OwnStep /\ DeleteStep /\ LeftStep
  <1>1. ASSUME NEW code, NEW port, reply' = AnyReply(req, code, port)
        PROVE  /\ reply'.op = "any" /\ reply'.req = req /\ reply'.code = code
               /\ reply'.port = port /\ reply'.life = req.life
    BY <1>1 DEF AnyReply
  <1>2. CASE \E code \in {402, 606} : Finish(Now, AnyReply(req, code, 0))
    <2>1. PICK code \in {402, 606} : Finish(Now, AnyReply(req, code, 0))
      BY <1>2
    <2>2. reply'.op = "any" /\ reply'.code = code
      BY <1>1, <2>1 DEF Finish
    <2>3. ~ Grants'
      BY <2>2 DEF Grants
    <2>4. TableInv' /\ Granted' /\ OwnStep
      BY <2>1, <2>3, Quiet
    <2> QED  BY <2>2, <2>4 DEF DeleteStep, LeftStep
  <1> DEFINE out == AnySearch(req, eport, t)
             code == CASE out.r = 1 -> 728 [] out.r = 0 -> 0 [] OTHER -> 501
  <1>3. CASE Finish(out.s, AnyReply(req, code, out.port))
    <2>1. AnySearched(out, req)
      BY AnySearches
    <2> HIDE DEF out
    <2>2. /\ State(out.s) /\ OthersStay(out.s, req.iaddr)
          /\ out.r = 0 => /\ Has(out.s.table, AnyMap(req, out.port))
                          /\ CheckPermissions(perms, out.port, req.iaddr, req.iport)
          /\ out.r = 1 => NothingFor(req, req.proto)
      BY <2>1 DEF AnySearched
    <2>3. (code = 0 => out.r = 0) /\ (code = 728 => out.r = 1)
      OBVIOUS
    <2> HIDE DEF code
    <2>4. /\ TableInv' /\ table' = out.s.table /\ perms' = perms
          /\ reply' = AnyReply(req, code, out.port)
          /\ unsure' = (unsure \/ out.s.unsure)
      BY <1>3, <2>2, Finished
    <2>5. /\ reply'.op = "any" /\ reply'.req = req /\ reply'.code = code
          /\ reply'.port = out.port /\ reply'.life = req.life
      BY <1>1, <2>4
    <2>6. Granted'
      <3> DEFINE m == AnyMap(req, out.port)
      <3>1. /\ m.iaddr = req.iaddr /\ m.iport = req.iport /\ m.life = req.life
            /\ m.eport = out.port /\ m.proto = req.proto
        BY DEF AnyMap, Mapping
      <3>2. GrantedProto' = req.proto
        BY <2>5 DEF GrantedProto
      <3>3. Grants' => reply'.code = 0
        BY DEF Grants
      <3> HIDE DEF m
      <3>4. Grants' /\ ~ unsure' =>
              /\ Has(table', m) /\ Own(m, reply'.req) /\ m.life = reply'.life
              /\ m.eport = reply'.port /\ m.proto = GrantedProto'
              /\ CheckPermissions(perms, reply'.port, reply'.req.iaddr, reply'.req.iport)
              /\ reply'.op = "pcp" => MinLifetime <= reply'.life /\ reply'.life <= MaxLifetime
        BY <2>2, <2>3, <2>4, <2>5, <3>1, <3>2, <3>3 DEF Own, m
      <3> QED  BY <2>4, <3>4, GrantedBy
    <2>7. Listed(table')
      BY <2>4 DEF TableInv
    <2>8. OwnStep
      BY <2>2, <2>4, <2>5, <2>7, OthersStayed
    <2>9. DeleteStep
      BY <2>5 DEF DeleteStep
    <2>10. LeftStep
      BY <2>2, <2>3, <2>5 DEF LeftStep, NothingFor
    <2> QED  BY <2>4, <2>6, <2>8, <2>9, <2>10
  <1>4. \/ \E c \in {402, 606} : Finish(Now, AnyReply(req, c, 0))
        \/ Finish(out.s, AnyReply(req, code, out.port))
    BY DEF AddAnyPortMapping
  <1> QED  BY <1>2, <1>3, <1>4

-----------------------------------------------------------------------------
\* The lifetime of a request that is valid
LEMMA Clamped ==
    ASSUME NEW lifetime \in Nat
    PROVE  ClampLifetime(lifetime) # 0 =>
              MinLifetime <= ClampLifetime(lifetime) /\ ClampLifetime(lifetime) <= MaxLifetime
  BY MapServersAssumption DEF ClampLifetime

\* PCP, for a mapped or peered host: served is the request as the server reads it
LEMMA PcpServes ==
    ASSUME TableInv, NEW served, served.opcode \in {"MAP", "PEER"},
           served.iport \in Ports, served.eport \in Ports,
           served.lifetime # 0 => MinLifetime <= served.lifetime /\ served.lifetime <= MaxLifetime,
           NEW t, NEW pfailure, NEW more, NEW out \in PcpServe(served, pfailure, t),
           Finish(out.s, PcpReply(served, out.code, out.port, more))
    PROVE  TableInv' /\ Granted' /\ OwnStep /\ DeleteStep /\ LeftStep
  <1>1. State(Now) /\ OthersStay(Now, served.iaddr) /\ Now.table = table
    BY NowIsState
  <1>2. reply' = PcpReply(served, out.code, out.port, more)
    BY DEF Finish
  <1>3. /\ reply'.op = "pcp" /\ reply'.req = served /\ reply'.code = out.code
        /\ reply'.port = out.port /\ reply'.life = AnswerLife(out.code, served.lifetime)
    BY <1>2 DEF PcpReply
  <1>4. DeleteStep /\ LeftStep
    BY <1>3 DEF DeleteStep, LeftStep
  <1>5. CASE served.opcode = "PEER"
    <2>1. ~ Grants'
      BY <1>3, <1>5 DEF Grants
    <2>2. State(out.s)
      <3>1. CASE served.v6
        <4>1. out = [s |-> Now, code |-> PCP_ERR_UNSUPP_OPCODE, port |-> served.eport]
          BY <1>5, <3>1 DEF PcpServe
        <4>2. out.s = Now
          BY <4>1
        <4> QED  BY <1>1, <4>2
      <3>2. CASE ~ served.v6
        <4> DEFINE peer == DeletePCPPeer(served, t)
                   at == [s |-> peer.s, code |-> peer.code, port |-> served.eport]
                   new == CreatePCPPeer(served, t)
        <4>1. out = IF served.lifetime = 0 THEN at ELSE new
          BY <1>5, <3>2 DEF PcpServe
        <4>2. at.s = peer.s
          OBVIOUS
        <4>3. State(peer.s) /\ State(new.s)
          BY PeerKeeps
        <4> HIDE DEF at, new, peer
        <4> QED  BY <4>1, <4>2, <4>3
      <3> QED  BY <3>1, <3>2
    <2>3. TableInv'
      BY <2>2, Finished
    <2>4. OwnStep
      BY <1>3, <1>5 DEF OwnStep
    <2>5. Granted'
      BY <2>1 DEF Granted
    <2> QED  BY <1>4, <2>3, <2>4, <2>5
  <1>6. CASE served.opcode = "MAP" /\ served.v6
    <2>1. ~ Grants'
      BY <1>3, <1>6 DEF Grants
    <2>2. out \in PinholeAnswers(served)
      BY <1>6 DEF PcpServe
    <2>3. out.s = Now
      BY <2>2 DEF PinholeAnswers
    <2>4. Finish(Now, PcpReply(served, out.code, out.port, more))
      BY <2>3
    <2> QED  BY <1>4, <2>1, <2>4, Quiet
  <1>7. CASE served.opcode = "MAP" /\ ~ served.v6 /\ served.lifetime = 0
    <2> DEFINE gone == DeletePCPMap(served, t)
    <2>1. out = [s |-> gone.s, code |-> gone.code, port |-> served.eport]
      BY <1>7 DEF PcpServe
    <2>2. out.s = gone.s
      BY <2>1
    <2>3. /\ State(gone.s) /\ OthersStay(gone.s, served.iaddr)
          /\ ~ unsure => \A i \in 1 .. Len(table) :
                             Has(gone.s.table, table[i]) \/ table[i].desc = PcpDesc(served)
      BY PcpDeletes
    <2> HIDE DEF gone
    <2>4. TableInv' /\ table' = out.s.table
      BY <2>2, <2>3, Finished
    <2>5. ~ Grants'
      <3>1. reply'.code = 0 => reply'.life = 0
        BY <1>3, <1>7 DEF AnswerLife, PCP_SUCCESS, PCP_ERR_NETWORK_FAILURE, PCP_ERR_NO_RESOURCES,
                          PCP_ERR_USER_EX_QUOTA
      <3> QED  BY <1>3, <3>1 DEF Grants
    <2>6. Granted'
      BY <2>5 DEF Granted
    <2>7. Listed(table')
      BY <2>4 DEF TableInv
    <2>8. OwnStep
      BY <1>3, <2>2, <2>3, <2>4, <2>7, OthersStayed
    <2> QED  BY <1>4, <2>4, <2>6, <2>8
  <1>8. CASE served.opcode = "MAP" /\ ~ served.v6 /\ served.lifetime # 0
    <2>1. out = CreatePCPMap(served, pfailure, t)
      BY <1>8 DEF PcpServe
    <2>2. FirstPort(served) \in 0 .. TopPort
      BY DEF FirstPort, Ports
    <2>3. out.done /\ \E i \in Nat : PcpSearched(out, i, served)
      BY <2>1, <2>2, PcpSearches
    <2>4. /\ State(out.s) /\ OthersStay(out.s, served.iaddr)
          /\ out.code = 0 /\ ~ unsure /\ ~ out.s.unsure
               => /\ Has(out.s.table, PcpMap(served, out.port))
                  /\ CheckPermissions(perms, out.port, served.iaddr, served.iport)
      BY <2>3 DEF PcpSearched
    <2>5. /\ TableInv' /\ table' = out.s.table /\ perms' = perms
          /\ unsure' = (unsure \/ out.s.unsure)
      BY <2>4, Finished
    <2>6. Granted'
      <3> DEFINE m == PcpMap(served, out.port)
      <3>1. /\ m.iaddr = served.iaddr /\ m.iport = served.iport /\ m.life = served.lifetime
            /\ m.eport = out.port /\ m.proto = served.proto
        BY DEF PcpMap, Mapping
      <3>2. GrantedProto' = served.proto
        BY <1>3 DEF GrantedProto
      <3>3. Grants' => reply'.code = 0
        BY DEF Grants
      <3>4. reply'.code = 0 => reply'.life = served.lifetime
        BY <1>3 DEF AnswerLife, PCP_SUCCESS, PCP_ERR_NETWORK_FAILURE, PCP_ERR_NO_RESOURCES,
                          PCP_ERR_USER_EX_QUOTA
      <3> HIDE DEF m
      <3>5. Grants' /\ ~ unsure' =>
              /\ Has(table', m) /\ Own(m, reply'.req) /\ m.life = reply'.life
              /\ m.eport = reply'.port /\ m.proto = GrantedProto'
              /\ CheckPermissions(perms, reply'.port, reply'.req.iaddr, reply'.req.iport)
              /\ reply'.op = "pcp" => MinLifetime <= reply'.life /\ reply'.life <= MaxLifetime
        BY <1>3, <1>8, <2>4, <2>5, <3>1, <3>2, <3>3, <3>4 DEF Own, m
      <3> QED  BY <2>5, <3>5, GrantedBy
    <2>7. Listed(table')
      BY <2>5 DEF TableInv
    <2>8. OwnStep
      BY <1>3, <1>8, <2>4, <2>5, <2>7, OthersStayed
    <2> QED  BY <1>4, <2>5, <2>6, <2>8
  <1> QED  BY <1>5, <1>6, <1>7, <1>8

\* PCP
LEMMA PcpKeeps ==
    ASSUME TableInv, NEW req \in PcpRequests, NEW t, Pcp(req, t)
    PROVE  TableInv' /\ Granted' /\ OwnStep /\ DeleteStep /\ LeftStep
  <1>1. req.iport \in Ports /\ req.eport \in Ports /\ req.lifetime \in Nat
        /\ {"iaddr", "lifetime", "opcode", "iport", "eport"} \subseteq DOMAIN req
    BY RequestsAssumption
  <1>2. ASSUME NEW code, NEW port, NEW more, Finish(Now, PcpReply(req, code, port, more)),
               code # 0 \/ req.opcode # "MAP"
        PROVE  TableInv' /\ Granted' /\ OwnStep /\ DeleteStep /\ LeftStep
    <2>1. reply' = PcpReply(req, code, port, more)
      BY <1>2 DEF Finish
    <2>2. reply'.op = "pcp" /\ reply'.req = req /\ reply'.code = code
      BY <2>1 DEF PcpReply
    <2>3. ~ Grants'
      BY <1>2, <2>2 DEF Grants
    <2>4. TableInv' /\ Granted' /\ OwnStep
      BY <1>2, <2>3, Quiet
    <2> QED  BY <2>2, <2>4 DEF DeleteStep, LeftStep
  <1>3. /\ PCP_SUCCESS = 0 /\ PCP_ERR_MALFORMED_REQUEST # 0 /\ PCP_ERR_UNSUPP_VERSION # 0
        /\ PCP_ERR_UNSUPP_OPCODE # 0
    BY DEF PCP_SUCCESS, PCP_ERR_MALFORMED_REQUEST, PCP_ERR_UNSUPP_VERSION, PCP_ERR_UNSUPP_OPCODE
  <1>4. CASE PcpMapOrPeer(req, t) /\ req.opcode \in {"MAP", "PEER"}
    <2> DEFINE x == PcpInfo(req)
               error == PcpError(x, req, t)
               served == [req EXCEPT !.iaddr = x.mapped, !.lifetime = ClampLifetime(@)]
    <2>1. \/ Finish(Now, PcpReply(req, PCP_ERR_MALFORMED_REQUEST, req.eport, <<>>))
          \/ error # PCP_SUCCESS /\ Finish(Now, PcpReply(req, error, req.eport, <<>>))
          \/ \E out \in PcpServe(served, x.pfailure, t) :
                Finish(out.s, PcpReply(served, out.code, out.port, [pfailure |-> x.pfailure]))
      BY <1>4 DEF PcpMapOrPeer
    <2> HIDE DEF x, error
    <2>2. /\ served.opcode = req.opcode /\ served.iport = req.iport /\ served.eport = req.eport
          /\ served.lifetime = ClampLifetime(req.lifetime)
      BY <1>1
    <2> HIDE DEF served
    <2>3. served.lifetime # 0 => MinLifetime <= served.lifetime /\ served.lifetime <= MaxLifetime
      BY <1>1, <2>2, Clamped
    <2>4. ASSUME NEW out \in PcpServe(served, x.pfailure, t),
                 Finish(out.s, PcpReply(served, out.code, out.port, [pfailure |-> x.pfailure]))
          PROVE  TableInv' /\ Granted' /\ OwnStep /\ DeleteStep /\ LeftStep
      <3>1. served.opcode \in {"MAP", "PEER"} /\ served.iport \in Ports /\ served.eport \in Ports
        BY <1>1, <1>4, <2>2
      <3> QED  BY <2>3, <2>4, <3>1, PcpServes
    <2> QED  BY <1>2, <1>3, <2>1, <2>4
  <1>5. \/ PcpMapOrPeer(req, t) /\ req.opcode \in {"MAP", "PEER"}
        \/ Finish(Now, PcpReply(req, PCP_ERR_MALFORMED_REQUEST, 0, <<>>))
        \/ Finish(Now, PcpReply(req, PCP_ERR_UNSUPP_VERSION, 0, <<>>))
        \/ Finish(Now, PcpReply(req, PCP_ERR_UNSUPP_OPCODE, 0, <<>>))
        \/ req.opcode = "ANNOUNCE" /\ Finish(Now, PcpReply(req, PCP_SUCCESS, 0, <<>>))
        \/ /\ req.opcode = "SADSCP"
           /\ Finish(Now, PcpReply(req, SadscpError(req), 0, DscpValue(req)))
    BY DEF Pcp
  <1> QED  BY <1>2, <1>3, <1>4, <1>5

\* What every step of the servers does
LEMMA ServersKeep ==
    ASSUME TableInv, Rules(perms), Granted, [MsNext]_msvars
    PROVE  /\ TableInv' /\ Rules(perms)' /\ Granted'
           /\ OwnStep \/ UNCHANGED msvars
           /\ DeleteStep \/ UNCHANGED msvars
           /\ LeftStep \/ UNCHANGED msvars
  <1>1. Rules(perms)'
    BY PermsStay DEF Rules
  <1>2. ASSUME NEW req \in NatpmpRequests, NEW t, Natpmp(req, t)
        PROVE  TableInv' /\ Granted' /\ OwnStep /\ DeleteStep /\ LeftStep
    BY <1>2, NatpmpKeeps
  <1>3. ASSUME NEW req \in PcpRequests, NEW t, Pcp(req, t)
        PROVE  TableInv' /\ Granted' /\ OwnStep /\ DeleteStep /\ LeftStep
    BY <1>3, PcpKeeps
  <1>4. ASSUME NEW req, NEW eport \in Ports \ {0}, NEW t, AddAnyPortMapping(req, eport, t)
        PROVE  TableInv' /\ Granted' /\ OwnStep /\ DeleteStep /\ LeftStep
    BY <1>4, AnyKeeps
  <1>5. ASSUME NEW req, List(req)
        PROVE  TableInv' /\ Granted' /\ OwnStep /\ DeleteStep /\ LeftStep
    <2>1. PICK answer : Finish(Now, answer) /\ answer.op = "list"
      <3>1. GetGenericPortMappingEntry(req).op = "list"
        BY DEF GetGenericPortMappingEntry, NoEntries
      <3>2. GetListOfPortMappings(req).op = "list"
        BY DEF GetListOfPortMappings, NoEntries
      <3> QED  BY <1>5, <3>1, <3>2 DEF List
    <2>2. reply'.op = "list"
      BY <2>1 DEF Finish
    <2>3. ~ Grants'
      BY <2>2 DEF Grants
    <2>4. TableInv' /\ Granted' /\ OwnStep
      BY <2>1, <2>3, Quiet
    <2> QED  BY <2>2, <2>4 DEF DeleteStep, LeftStep
  <1>6. CASE Send
    <2>1. reply'.op = "none" /\ table' = table /\ unsure' = unsure
      BY <1>6 DEF Send, NoReply
    <2>2. TableInv' /\ OwnStep
      BY <2>1 DEF TableInv, OwnStep
    <2>3. Granted'
      BY <2>1 DEF Granted, Grants
    <2> QED  BY <1>1, <2>1, <2>2, <2>3 DEF DeleteStep, LeftStep
  <1>7. CASE UNCHANGED msvars
    <2>1. /\ perms' = perms /\ table' = table /\ unsure' = unsure /\ reply' = reply
      BY <1>7 DEF msvars
    <2>2. TableInv'
      BY <2>1 DEF TableInv
    <2>3. Granted'
      BY <2>1 DEF Granted, Grants, GrantedProto
    <2> QED  BY <1>1, <1>7, <2>2, <2>3
  <1> QED  BY <1>1, <1>2, <1>3, <1>4, <1>5, <1>6, <1>7 DEF MsNext

-----------------------------------------------------------------------------
\* The configuration has rules, the table maps no port twice as long as no
\* deletion has failed, and what the last answer grants is there.
ServersInv == TableInv /\ Rules(perms) /\ Granted

\* The requests keep it.
LEMMA ServersInvHolds == MsSpec => []ServersInv
  <1>1. MsInit => ServersInv
    <2> SUFFICES ASSUME MsInit PROVE ServersInv
      OBVIOUS
    <2>1. Rules(perms)
      BY PermListRules DEF MsInit
    <2>2. Listed(<<>>) /\ Len(<<>>) = 0
      <3>1. <<>> \in Seq({})
        OBVIOUS
      <3> QED  BY <3>1 DEF Listed
    <2>3. TableInv
      <3>1. unsure = FALSE /\ Listed(table) /\ Len(table) = 0
        BY <2>2 DEF MsInit
      <3>2. HostsSame(table) /\ KeysDiffer(table)
        BY <3>1 DEF HostsSame, KeysDiffer
      <3> QED  BY <3>1, <3>2 DEF TableInv
    <2>4. reply.op = "none"
      BY DEF MsInit, NoReply
    <2>5. Granted
      BY <2>4 DEF Granted, Grants
    <2> QED  BY <2>1, <2>3, <2>5 DEF ServersInv
  <1>2. ServersInv /\ [MsNext]_msvars => ServersInv'
    BY ServersKeep DEF ServersInv
  <1> QED  BY <1>1, <1>2, PTL DEF MsSpec

\* What NAT-PMP, PCP and AddAnyPortMapping answer as granted is mapped to the
\* host and port that asked and to no other, is permitted, and lasts as long as
\* the answer says (Granted): for any number of ports, hosts, requests and
\* mappings, as long as no deletion has failed.
THEOREM GrantsMapped == MsSpec => []Granted
  <1>1. ServersInv => Granted
    BY DEF ServersInv
  <1> QED  BY <1>1, ServersInvHolds, PTL

\* A request takes mappings from no other host, and a deletion by PCP none that
\* was made with another nonce (OnlyOwnMaps).
THEOREM OthersKeep == MsSpec => OnlyOwnMaps
  <1>1. ServersInv /\ [MsNext]_msvars => [OwnStep]_msvars
    BY ServersKeep DEF ServersInv
  <1>2. MsSpec => [][OwnStep]_msvars
    BY <1>1, ServersInvHolds, PTL DEF MsSpec
  <1>3. OnlyOwnMaps <=> [][OwnStep]_msvars
    BY DEF OnlyOwnMaps, OwnStep
  <1> QED  BY <1>2, <1>3

\* When NAT-PMP answers a deletion, nothing of what it was for is left
\* (DeletesAll): however long the table and wherever in it the rules go.
THEOREM DeletionsEnd == MsSpec => DeletesAll
  <1>1. ServersInv /\ [MsNext]_msvars => [DeleteStep]_msvars
    BY ServersKeep DEF ServersInv
  <1>2. MsSpec => [][DeleteStep]_msvars
    BY <1>1, ServersInvHolds, PTL DEF MsSpec
  <1>3. DeletesAll <=> [][DeleteStep]_msvars
    BY DEF DeletesAll, DeleteStep
  <1> QED  BY <1>2, <1>3

\* The searches of NAT-PMP and AddAnyPortMapping leave out no port before they
\* answer that there is none (NoneLeftOut), with any number of ports.
THEOREM SearchesAll == MsSpec => NoneLeftOut
  <1>1. ServersInv /\ [MsNext]_msvars => [LeftStep]_msvars
    BY ServersKeep DEF ServersInv
  <1>2. MsSpec => [][LeftStep]_msvars
    BY <1>1, ServersInvHolds, PTL DEF MsSpec
  <1>3. NoneLeftOut <=> [][LeftStep]_msvars
    BY DEF NoneLeftOut, LeftStep
  <1> QED  BY <1>2, <1>3

-----------------------------------------------------------------------------
(***************************************************************************)
(* STUN.                                                                   *)
(***************************************************************************)
\* An address and port of an answer, or none
Ats == {None} \cup [addr : {"ext", "ext2", "inner"}, port : Reqs \cup {9}]

Parsed == [have : BOOLEAN, xor : BOOLEAN, stop : BOOLEAN, at : Ats]

\* The first k attributes of an answer have the address as the router leaves it
Seen(k) == \E j \in 1 .. k : style[j] = "XOR" /\ \A m \in 1 .. j : style[m] # "cut"

\* The external address and port of socket i, or what the router makes of them
\* where the answers have no other form
TrueAt(at, i) ==
    /\ at.port = Outside(nat, i).port
    /\ at.addr = Outside(nat, i).addr \/ (at.addr = "inner" /\ Hidden)

\* x is what the first k attributes of the answer to request i come to
ParsedTo(x, k, i) ==
    /\ x \in Parsed
    /\ x.stop => \E j \in 1 .. k : style[j] = "cut"
    /\ ~ x.xor => ~ Seen(k)
    /\ x.xor => x.have
    /\ x.have => \/ x.at = Outside(nat, i)
                 \/ /\ x.at = [addr |-> "inner", port |-> Outside(nat, i).port]
                    /\ nat.rewrites /\ ~ x.xor

\* An answer of this run
Answered(i) == /\ responses[i] = Answer(i)
               /\ i \in nat.pass
               /\ i = 0 => peer0 = IF nat.moved THEN "other" ELSE "server"

\* The invariant of a run
StunInv ==
    /\ nat \in NatType /\ style \in Seq(STRING)
    /\ responses = [i \in Reqs |-> responses[i]]
    /\ spc # "idle" => \A i \in Reqs : responses[i] # None => Answered(i)
    /\ StunTrue

\* What a NAT makes of an address and port.
LEMMA OutsideTyped ==
    ASSUME nat \in NatType, NEW i \in Reqs
    PROVE  /\ Outside(nat, i) \in [addr : {"ext", "ext2"}, port : Reqs \cup {9}]
           /\ Outside(nat, i) = [addr |-> Outside(nat, i).addr, port |-> Outside(nat, i).port]
           /\ [Outside(nat, i) EXCEPT !.addr = "inner"]
                = [addr |-> "inner", port |-> Outside(nat, i).port]
  <1>1. PICK a \in {"ext", "ext2"}, p \in Reqs \cup {9} : Outside(nat, i) = [addr |-> a, port |-> p]
    BY DEF Outside, NatType
  <1> QED  BY <1>1

\* One attribute after the other.
LEMMA AttributeParsed ==
    ASSUME nat \in NatType, style \in Seq(STRING), NEW i \in Reqs,
           NEW k \in 1 .. Len(style), NEW x, ParsedTo(x, k - 1, i)
    PROVE  ParsedTo(ParseAttribute(x, Attribute(style[k], i)), k, i)
  <1> DEFINE a == Attribute(style[k], i)
             out == Outside(nat, i)
             inner == [addr |-> "inner", port |-> out.port]
             y == ParseAttribute(x, a)
  <1>1. /\ a.type = style[k]
        /\ a.at = IF style[k] = "MAPPED" /\ nat.rewrites THEN inner ELSE out
    BY OutsideTyped DEF Attribute
  <1>2. k \in Int /\ k >= 1 /\ k - 1 \in Int /\ \A j \in 1 .. k - 1 : j \in 1 .. k
    OBVIOUS
  <1>3. out \in Ats /\ inner \in Ats
    BY OutsideTyped DEF Ats
  <1>4. PICK h \in BOOLEAN, xor \in BOOLEAN, stop \in BOOLEAN, at \in Ats :
          x = [have |-> h, xor |-> xor, stop |-> stop, at |-> at]
    BY DEF ParsedTo, Parsed
  <1>5. /\ stop => \E j \in 1 .. k - 1 : style[j] = "cut"
        /\ ~ xor => ~ Seen(k - 1)
        /\ xor => h
        /\ h => \/ at = out
                \/ at = inner /\ nat.rewrites /\ ~ xor
    BY <1>4 DEF ParsedTo
  <1>6. Seen(k) => Seen(k - 1) \/ (style[k] = "XOR" /\ \A m \in 1 .. k : style[m] # "cut")
    <2> SUFFICES ASSUME NEW j \in 1 .. k, style[j] = "XOR", \A m \in 1 .. j : style[m] # "cut"
                 PROVE  Seen(k - 1) \/ (style[k] = "XOR" /\ \A m \in 1 .. k : style[m] # "cut")
      BY DEF Seen
    <2>1. CASE j = k
      BY <2>1
    <2>2. CASE j # k
      <3>1. j \in 1 .. k - 1
        BY <1>2, <2>2
      <3> QED  BY <3>1 DEF Seen
    <2> QED  BY <2>1, <2>2
  <1> SUFFICES ParsedTo(y, k, i)
    OBVIOUS
  <1>y. y = ParseAttribute(x, a)
    OBVIOUS
  <1> HIDE DEF a, out, inner, y
  <1>7. CASE stop \/ a.type = "cut"
    <2>1. y = [have |-> h, xor |-> xor, stop |-> TRUE, at |-> at]
      BY <1>y, <1>4, <1>7 DEF ParseAttribute
    <2>2. PICK j \in 1 .. k : style[j] = "cut"
      <3>1. k \in 1 .. k
        BY <1>2
      <3> QED  BY <1>1, <1>2, <1>5, <1>7, <3>1
    <2>3. ~ xor => ~ Seen(k)
      BY <1>5, <1>6, <2>2
    <2> QED  BY <1>5, <2>1, <2>2, <2>3 DEF ParsedTo, Parsed, out, inner
  <1>8. CASE ~ stop /\ a.type \in {"MAPPED", "XOR"}
    <2>1. a.type # "cut"
      BY <1>8
    <2>2. y = [have |-> TRUE, xor |-> xor \/ a.type = "XOR", stop |-> FALSE,
               at |-> IF xor THEN at ELSE a.at]
      BY <1>y, <1>4, <1>8, <2>1 DEF ParseAttribute
    <2>3. ~ (xor \/ a.type = "XOR") => ~ Seen(k)
      BY <1>1, <1>5, <1>6
    <2> QED  BY <1>1, <1>3, <1>5, <1>8, <2>2, <2>3 DEF ParsedTo, Parsed, out, inner
  <1>9. CASE ~ stop /\ a.type \notin {"cut", "MAPPED", "XOR"}
    <2>1. y = x
      BY <1>y, <1>4, <1>9 DEF ParseAttribute
    <2>2. ~ Seen(k - 1) => ~ Seen(k)
      BY <1>1, <1>6, <1>9
    <2> QED  BY <1>2, <1>4, <1>5, <2>1, <2>2 DEF ParsedTo, Parsed, out, inner
  <1> QED  BY <1>7, <1>8, <1>9

\* parse_stun_response() keeps its result in form.
LEMMA AttributeTyped ==
    ASSUME nat \in NatType, NEW i \in Reqs, NEW type, NEW x \in Parsed
    PROVE  ParseAttribute(x, Attribute(type, i)) \in Parsed
  <1> DEFINE a == Attribute(type, i)
  <1>1. a.at \in Ats /\ a.type = type
    BY OutsideTyped DEF Attribute, Ats
  <1>2. PICK h \in BOOLEAN, xor \in BOOLEAN, stop \in BOOLEAN, at \in Ats :
          x = [have |-> h, xor |-> xor, stop |-> stop, at |-> at]
    BY DEF Parsed
  <1>3. a = Attribute(type, i)
    OBVIOUS
  <1> HIDE DEF a
  <1>4. ParseAttribute(x, a) \in Parsed
    <2>1. CASE stop \/ a.type = "cut"
      BY <1>2, <2>1 DEF ParseAttribute, Parsed
    <2>2. CASE ~ stop /\ a.type \in {"MAPPED", "XOR"}
      BY <1>1, <1>2, <2>2 DEF ParseAttribute, Parsed
    <2>3. CASE ~ stop /\ a.type \notin {"cut", "MAPPED", "XOR"}
      BY <1>2, <2>3 DEF ParseAttribute, Parsed
    <2> QED  BY <2>1, <2>2, <2>3
  <1> QED  BY <1>3, <1>4

\* What parse_stun_response() finds in the answer to request i.
LEMMA AnswerParsed ==
    ASSUME nat \in NatType, style \in Seq(STRING), NEW i \in Reqs
    PROVE  ParseStunResponse(Answer(i)).have => TrueAt(ParseStunResponse(Answer(i)).at, i)
  <1> DEFINE n == Len(style)
             x0 == [have |-> FALSE, xor |-> FALSE, stop |-> FALSE, at |-> None]
             Op(x, k) == ParseAttribute(x, Answer(i)[k])
             Fits(f) == f = [k \in 0 .. n |-> IF k = 0 THEN x0 ELSE Op(f[k - 1], k)]
             after == CHOOSE f : Fits(f)
             g == [k \in 1 .. n |-> [x \in Parsed |-> Op(x, k)]]
  <1>1. n \in Nat /\ DOMAIN style = 1 .. n
    OBVIOUS
  <1>2. Len(Answer(i)) = n /\ \A k \in 1 .. n : Answer(i)[k] = Attribute(style[k], i)
    <2>1. Answer(i) = [k \in 1 .. n |-> Attribute(style[k], i)]
      BY <1>1 DEF Answer
    <2> QED  BY <1>1, <2>1
  <1>3. ParseStunResponse(Answer(i)) = after[n]
    <2>1. ParseStunResponse(Answer(i)) = Steps(x0, Len(Answer(i)), Op)
      BY DEF ParseStunResponse
    <2> QED  BY <1>2, <2>1 DEF Steps
  <1>4. \A x \in Parsed, k \in 1 .. n : Op(x, k) = ParseAttribute(x, Attribute(style[k], i))
    BY <1>2
  <1>5. \A x \in Parsed, k \in 1 .. n : Op(x, k) \in Parsed
    BY <1>4, AttributeTyped
  <1>6. x0 \in Parsed
    BY DEF Parsed, Ats
  <1>7. ParsedTo(x0, 0, i)
    BY <1>6 DEF ParsedTo, Seen
  <1> HIDE DEF n, x0, Op
  <1>8. g \in [1 .. n -> [Parsed -> Parsed]]
    BY <1>5
  <1>9. PICK f \in [0 .. n -> Parsed] : Applies(f, x0, n, g)
    <2> HIDE DEF g
    <2> QED  BY <1>1, <1>6, <1>8, StepsExist
  <1>10. Fits(f)
    <2>1. ASSUME NEW k \in 0 .. n PROVE f[k] = IF k = 0 THEN x0 ELSE Op(f[k - 1], k)
      <3>1. CASE k = 0
        BY <1>9, <3>1 DEF Applies
      <3>2. CASE k # 0
        <4>1. k \in 1 .. n /\ k - 1 \in 0 .. n
          BY <1>1, <3>2
        <4> QED  BY <1>9, <3>2, <4>1 DEF Applies
      <3> QED  BY <3>1, <3>2
    <2> QED  BY <1>9, <2>1 DEF Applies
  <1>11. Fits(after)
    BY <1>10
  <1> HIDE DEF after
  <1> DEFINE S == {k \in Nat : k <= n => ParsedTo(after[k], k, i)}
  <1>12. 0 \in S
    <2>1. after[0] = x0
      BY <1>1, <1>11
    <2> QED  BY <1>7, <2>1
  <1>13. ASSUME NEW k \in Nat, k \in S PROVE k + 1 \in S
    <2> SUFFICES ASSUME k + 1 <= n PROVE ParsedTo(after[k + 1], k + 1, i)
      OBVIOUS
    <2>1. PICK m \in 1 .. n : m = k + 1 /\ m - 1 = k
      BY <1>1
    <2>2. after[m] = Op(after[k], m)
      BY <1>1, <1>11, <2>1
    <2>3. ParsedTo(after[k], m - 1, i) /\ after[k] \in Parsed
      <3>1. ParsedTo(after[k], k, i)
        BY <1>1, <1>13
      <3> QED  BY <2>1, <3>1 DEF ParsedTo
    <2>4. ParsedTo(after[m], m, i)
      BY <1>4, <2>2, <2>3, AttributeParsed DEF n
    <2> QED  BY <2>1, <2>4
  <1> HIDE DEF S
  <1>14. ParsedTo(after[n], n, i)
    <2>1. n \in S
      BY <1>1, <1>12, <1>13, AllNaturals
    <2> QED  BY <1>1, <2>1 DEF S
  <1> DEFINE r == ParseStunResponse(Answer(i))
  <1>15. ParsedTo(r, n, i)
    BY <1>3, <1>14
  <1> HIDE DEF r
  <1>16. ASSUME r.have PROVE TrueAt(r.at, i)
    <2>1. CASE r.at = Outside(nat, i)
      BY <2>1 DEF TrueAt
    <2>2. CASE r.at = [addr |-> "inner", port |-> Outside(nat, i).port] /\ nat.rewrites /\ ~ r.xor
      <3>1. Hidden
        BY <1>1, <1>15, <2>2 DEF Hidden, ParsedTo, Seen, n
      <3> QED  BY <2>2, <3>1 DEF TrueAt
    <2> QED  BY <1>15, <1>16, <2>1, <2>2 DEF ParsedTo
  <1> QED  BY <1>16 DEF r

-----------------------------------------------------------------------------
\* What Close makes of the answers.
LEMMA MappedTrue ==
    ASSUME nat \in NatType, style \in Seq(STRING),
           \A i \in Reqs : responses[i] # None => Answered(i)
    PROVE  \A i \in Mapped : /\ i \in Reqs /\ Answered(i) /\ TrueAt(MappedAt(i), i)
  <1> TAKE i \in Mapped
  <1>1. i \in Reqs /\ responses[i] # None /\ ParseStunResponse(responses[i]).have
    BY DEF Mapped
  <1>2. Answered(i) /\ responses[i] = Answer(i)
    BY <1>1 DEF Answered
  <1>3. ParseStunResponse(Answer(i)).have
    BY <1>1, <1>2
  <1> QED  BY <1>1, <1>2, <1>3, AnswerParsed DEF MappedAt

\* The external address is that of an answer.
LEMMA ExtAddrTrue ==
    ASSUME nat \in NatType, style \in Seq(STRING),
           \A i \in Reqs : responses[i] # None => Answered(i), Mapped # {}
    PROVE  ExtAddr \in {"ext", "ext2"} \/ Hidden
  <1>1. Mapped \subseteq Nat
    BY DEF Mapped, Reqs
  <1>2. PICK m \in Mapped : \A j \in Mapped : m <= j
    BY <1>1, LeastNatural
  <1> DEFINE l == CHOOSE i \in Mapped : \A j \in Mapped : i <= j
  <1>3. l \in Mapped
    BY <1>2
  <1>4. ExtAddr = MappedAt(l).addr
    BY DEF ExtAddr
  <1> HIDE DEF l
  <1>5. TrueAt(MappedAt(l), l) /\ l \in Reqs
    BY <1>3, MappedTrue
  <1>6. Outside(nat, l).addr \in {"ext", "ext2"}
    BY DEF Outside
  <1> QED  BY <1>4, <1>5, <1>6 DEF TrueAt

\* Where forwarding stays enabled, all answers came and none was changed.
LEMMA OpenTrue ==
    ASSUME nat \in NatType, style \in Seq(STRING),
           \A i \in Reqs : responses[i] # None => Answered(i),
           NEW from \in IF peer0 = "unset" THEN {"server", "other"} ELSE {peer0},
           ~ Restrictive(from)
    PROVE  nat.pass = Reqs /\ nat.kept /\ ~ nat.moved /\ (nat.one \/ Hidden)
  <1>1. IsFiniteSet(Reqs) /\ Cardinality(Reqs) = 4
    <2>1. PICK a \in Int, b \in Int : a = 0 /\ b = 3
      OBVIOUS
    <2>2. IsFiniteSet(a .. b) /\ Cardinality(a .. b) = IF a > b THEN 0 ELSE b - a + 1
      BY FS_Interval
    <2> QED  BY <2>1, <2>2 DEF Reqs
  <1>2. Mapped \in SUBSET Reqs
    BY DEF Mapped
  <1>3. IsFiniteSet(Mapped) /\ Cardinality(Mapped) <= 4 /\ (Cardinality(Mapped) = 4 => Mapped = Reqs)
    BY <1>1, <1>2, FS_Subset
  <1>4. Cardinality(Mapped) \in Nat
    BY <1>3, FS_CardinalityType
  <1>5. ~ (Cardinality(Mapped) < 4) /\ from = "server"
        /\ \A i \in Mapped : MappedAt(i) = [addr |-> ExtAddr, port |-> i]
    BY DEF Restrictive
  <1>6. Mapped = Reqs
    BY <1>3, <1>4, <1>5
  <1>7. \A i \in Reqs : Answered(i) /\ TrueAt(MappedAt(i), i)
    BY <1>6, MappedTrue
  <1>8. 0 \in Reqs /\ 1 \in Reqs
    BY DEF Reqs
  <1>9. nat.pass = Reqs
    <2>1. nat.pass \subseteq Reqs
      BY DEF NatType
    <2> QED  BY <1>7, <2>1 DEF Answered
  <1>10. ~ nat.moved
    <2>1. peer0 = IF nat.moved THEN "other" ELSE "server"
      BY <1>7, <1>8 DEF Answered
    <2> QED  BY <1>5, <2>1
  <1>11. \A i \in Reqs : MappedAt(i).port = i /\ MappedAt(i).addr = ExtAddr
    BY <1>5, <1>6
  <1>12. nat.kept
    <2>1. Outside(nat, 1).port = 1
      BY <1>7, <1>8, <1>11 DEF TrueAt
    <2>2. nat.kept \in BOOLEAN
      BY DEF NatType
    <2>3. Outside(nat, 1).port = IF nat.kept THEN 1 ELSE 9
      BY DEF Outside
    <2> QED  BY <2>1, <2>2, <2>3
  <1>13. nat.one \/ Hidden
    <2> SUFFICES ASSUME ~ nat.one, ~ Hidden PROVE FALSE
      OBVIOUS
    <2>1. Outside(nat, 0).addr = "ext" /\ Outside(nat, 1).addr = "ext2"
      BY DEF Outside
    <2>2. MappedAt(0).addr = "ext" /\ MappedAt(1).addr = "ext2"
      BY <1>7, <1>8, <2>1 DEF TrueAt
    <2> QED  BY <1>8, <1>11, <2>2
  <1> QED  BY <1>9, <1>10, <1>12, <1>13

-----------------------------------------------------------------------------
\* Before the first run nothing is claimed.
LEMMA StunStart == SInit => StunInv
  <1> SUFFICES ASSUME SInit PROVE StunInv
    OBVIOUS
  <1>1. nat \in Nats /\ style \in Styles
    BY StunAssumption DEF SInit
  <1>2. nat \in NatType /\ style \in Seq(STRING)
    BY <1>1, StunAssumption
  <1> QED  BY <1>2 DEF SInit, StunInv, StunTrue

\* A step that keeps the run and its answers, and does not end it.
LEMMA RunKept ==
    ASSUME StunInv, spc # "idle", spc' # "idle", UNCHANGED <<nat, style, responses, peer0>>
    PROVE  StunInv'
  <1>1. \A i \in Reqs : Answered(i)' <=> Answered(i)
    BY DEF Answered, Answer, Attribute
  <1> QED  BY <1>1 DEF StunInv, StunTrue

\* perform_stun() opens its sockets, or fails before that.
LEMMA StartKept ==
    ASSUME StunInv, Start
    PROVE  StunInv'
  <1>1. nat' \in NatType /\ style' \in Seq(STRING)
    BY StunAssumption DEF Start
  <1>2. CASE FailEarly
    BY <1>1, <1>2 DEF Start, FailEarly, StunInv, StunTrue
  <1>3. CASE Prepare
    <2>1. \A i \in Reqs : responses'[i] = None
      BY <1>3 DEF Prepare
    <2> QED  BY <1>1, <1>3, <2>1 DEF Prepare, StunInv, StunTrue
  <1> QED  BY <1>2, <1>3 DEF Start

\* Answers that come in are the server's own; strays and errors are not kept.
LEMMA ReceiveKept ==
    ASSUME StunInv, Receive
    PROVE  StunInv'
  <1> DEFINE Got(ready, kinds) ==
               LET now == [i \in Reqs |-> IF i \in ready THEN Received(i, kinds[i])
                                          ELSE responses[i]]
               IN  /\ \A i \in ready : kinds[i] \in Coming(i)
                   /\ responses' = now
                   /\ peer0' = IF 0 \in ready THEN PeerAfter(kinds[0]) ELSE peer0
                   /\ spc' = IF AllIn(now) THEN "close" ELSE "wait"
  <1>0. PICK ready \in SUBSET Reqs \ {{}} :
               \E kinds \in [ready -> {"answer", "stray", "error"}] : Got(ready, kinds)
    BY DEF Receive
  <1>1. PICK kinds \in [ready -> {"answer", "stray", "error"}] : Got(ready, kinds)
    BY <1>0
  <1>2. UNCHANGED <<nat, style>> /\ spc = "wait" /\ spc' # "idle"
    BY <1>1 DEF Receive
  <1>3. \A i \in Reqs : responses'[i] = IF i \in ready THEN Received(i, kinds[i]) ELSE responses[i]
    BY <1>1
  <1>4. responses' = [i \in Reqs |-> responses'[i]]
    BY <1>1, <1>3
  <1>5. \A i : Answer(i)' = Answer(i)
    BY <1>2 DEF Answer, Attribute
  <1>6. ASSUME NEW i \in Reqs, responses'[i] # None PROVE Answered(i)'
    <2>1. CASE i \in ready
      <3>1. kinds[i] = "answer" /\ responses'[i] = Answer(i)
        BY <1>3, <1>6, <2>1 DEF Received
      <3>2. i \in nat.pass
        BY <1>1, <2>1, <3>1 DEF Coming
      <3>3. i = 0 => peer0' = IF nat.moved THEN "other" ELSE "server"
        BY <1>1, <2>1, <3>1 DEF PeerAfter
      <3> QED  BY <1>2, <1>5, <3>1, <3>2, <3>3 DEF Answered
    <2>2. CASE i \notin ready
      <3>1. responses'[i] = responses[i] /\ responses[i] # None
        BY <1>3, <1>6, <2>2
      <3>2. Answered(i)
        BY <1>2, <3>1 DEF StunInv
      <3>3. i = 0 => peer0' = peer0
        BY <1>1, <2>2
      <3> QED  BY <1>2, <1>5, <3>1, <3>2, <3>3 DEF Answered
    <2> QED  BY <2>1, <2>2
  <1> QED  BY <1>2, <1>4, <1>6 DEF StunInv, StunTrue

\* The end of a run: what it tells is true of the NAT.
LEMMA CloseKept ==
    ASSUME StunInv, Close
    PROVE  StunInv'
  <1>1. \A i \in Reqs : responses[i] # None => Answered(i)
    BY DEF Close, StunInv
  <1>2. nat \in NatType /\ style \in Seq(STRING)
    BY DEF StunInv
  <1>3. UNCHANGED <<nat, style, responses, peer0>> /\ spc' = "idle" /\ rules' = {} /\ socks' = {}
    BY DEF Close
  <1>4. Hidden' <=> Hidden
    BY <1>3 DEF Hidden
  <1>5. CASE Mapped = {}
    <2>1. result' = -1
      BY <1>5 DEF Close
    <2> QED  BY <1>3, <2>1 DEF StunInv, StunTrue
  <1>6. CASE Mapped # {}
    <2>1. use_ext_ip_addr' \in {"ext", "ext2"} \/ Hidden
      BY <1>1, <1>2, <1>6, ExtAddrTrue DEF Close
    <2>2. PICK from \in IF peer0 = "unset" THEN {"server", "other"} ELSE {peer0} :
             disable_port_forwarding' = Restrictive(from)
      BY <1>6 DEF Close
    <2>3. ~ disable_port_forwarding'
            => nat.pass = Reqs /\ nat.kept /\ ~ nat.moved /\ (nat.one \/ Hidden)
      BY <1>1, <1>2, <2>2, OpenTrue
    <2> QED  BY <1>3, <1>4, <2>1, <2>3 DEF StunInv, StunTrue
  <1> QED  BY <1>5, <1>6

\* Every step keeps the invariant.
LEMMA StunStep == StunInv /\ [SNext]_svars => StunInv'
  <1> SUFFICES ASSUME StunInv, [SNext]_svars PROVE StunInv'
    OBVIOUS
  <1>1. CASE Start
    BY <1>1, StartKept
  <1>2. CASE SendRequests
    BY <1>2, RunKept DEF SendRequests
  <1>3. CASE Receive
    BY <1>3, ReceiveKept
  <1>4. CASE NextRound
    <2>1. spc # "idle" /\ spc' # "idle" /\ UNCHANGED <<nat, style, responses, peer0>>
      BY <1>4 DEF NextRound
    <2> QED  BY <2>1, RunKept
  <1>5. CASE SelectFails
    BY <1>5, RunKept DEF SelectFails
  <1>6. CASE Close
    BY <1>6, CloseKept
  <1>7. CASE UNCHANGED svars
    <2>1. \A i : Answered(i)' <=> Answered(i)
      BY <1>7 DEF svars, Answered, Answer, Attribute
    <2> QED  BY <1>7, <2>1 DEF svars, StunInv, StunTrue, Hidden
  <1> QED  BY <1>1, <1>2, <1>3, <1>4, <1>5, <1>6, <1>7 DEF SNext

\* Whatever the NAT does to addresses and ports, whichever of the server's
\* attributes the answers have and however many are lost, cut or strays:
\* perform_stun() tells an external address, and it leaves port forwarding enabled
\* only behind a NAT that lets all packets in and keeps addresses and ports; only an
\* address in the one form that the router rewrites can deceive it. No socket and no
\* firewall rule of it is left.
THEOREM StunIsTrue == SSpec => []StunTrue
  <1>1. StunInv => StunTrue
    BY DEF StunInv
  <1> QED  BY <1>1, StunStart, StunStep, PTL DEF SSpec

-----------------------------------------------------------------------------
(***************************************************************************)
(* Functions by recursion: that there is one that fits is shown once, for  *)
(* a step that is a function.                                              *)
(***************************************************************************)
Iterates(f, n, a, g) ==
    /\ f \in [0 .. n -> Nat]
    /\ f[0] = a /\ \A i \in 1 .. n : f[i] = g[i][f[i - 1]]

\* There is a function by recursion.
LEMMA IteratesExist ==
    ASSUME NEW n \in Nat, NEW a \in Nat, NEW g, \A i \in 1 .. n : g[i] \in [Nat -> Nat]
    PROVE  \E f : Iterates(f, n, a, g)
  <1> DEFINE S == {k \in Nat : k <= n => \E f : Iterates(f, k, a, g)}
  <1>1. 0 \in S
    <2> DEFINE f == [i \in 0 .. 0 |-> a]
    <2>1. Iterates(f, 0, a, g)
      BY DEF Iterates
    <2> QED  BY <2>1
  <1>2. ASSUME NEW k \in Nat, k \in S PROVE k + 1 \in S
    <2> SUFFICES ASSUME k + 1 <= n PROVE \E f : Iterates(f, k + 1, a, g)
      OBVIOUS
    <2>1. PICK f : Iterates(f, k, a, g)
      BY <1>2
    <2> DEFINE h == [i \in 0 .. k + 1 |-> IF i <= k THEN f[i] ELSE g[k + 1][f[k]]]
    <2>2. \A i \in 0 .. k : i \in 0 .. k + 1 /\ i <= k /\ h[i] = f[i] /\ f[i] \in Nat
      BY <2>1 DEF Iterates
    <2>3. k + 1 \in 0 .. k + 1 /\ ~ (k + 1 <= k) /\ k + 1 \in 1 .. n /\ k \in 0 .. k
      OBVIOUS
    <2>4. h[k + 1] = g[k + 1][h[k]] /\ h[k + 1] \in Nat
      <3>1. h[k + 1] = g[k + 1][f[k]] /\ h[k] = f[k] /\ f[k] \in Nat
        BY <2>2, <2>3
      <3>2. g[k + 1] \in [Nat -> Nat]
        BY <2>3
      <3> HIDE DEF h
      <3> QED  BY <3>1, <3>2
    <2>5. \A i \in 0 .. k + 1 : h[i] \in Nat
      <3>1. \A i \in 0 .. k + 1 : i = k + 1 \/ i \in 0 .. k
        OBVIOUS
      <3> QED  BY <2>2, <2>4, <3>1
    <2>6. h \in [0 .. k + 1 -> Nat]
      <3>1. h = [i \in 0 .. k + 1 |-> h[i]]
        OBVIOUS
      <3> HIDE DEF h
      <3> QED  BY <2>5, <3>1
    <2> HIDE DEF h
    <2>7. ASSUME NEW i \in 1 .. k + 1 PROVE h[i] = g[i][h[i - 1]]
      <3>1. CASE i = k + 1
        BY <2>4, <3>1
      <3>2. CASE i # k + 1
        <4>1. i \in 1 .. k /\ i \in 0 .. k /\ i - 1 \in 0 .. k
          BY <3>2
        <4>2. f[i] = g[i][f[i - 1]]
          BY <2>1, <4>1 DEF Iterates
        <4> QED  BY <2>2, <4>1, <4>2
      <3> QED  BY <3>1, <3>2
    <2>8. h[0] = a
      <3>1. 0 \in 0 .. k /\ f[0] = a
        BY <2>1 DEF Iterates
      <3> QED  BY <2>2, <3>1
    <2>9. Iterates(h, k + 1, a, g)
      BY <2>6, <2>7, <2>8 DEF Iterates
    <2> QED  BY <2>9
  <1> HIDE DEF S
  <1>3. n \in S
    BY <1>1, <1>2, AllNaturals
  <1> QED  BY <1>3 DEF S

-----------------------------------------------------------------------------
(***************************************************************************)
(* json-c: the tables of objects find their keys.                          *)
(*                                                                         *)
(* What has to be kept is that the places from that of a key's hash up to  *)
(* the key's own were never empty, for an empty one ends a lookup: a       *)
(* deletion leaves a mark, and a growth puts every key anew. An insertion  *)
(* finds a place because the list of those in use, which has none of them  *)
(* twice, is shorter than the table.                                       *)
(***************************************************************************)
Places(t) == 0 .. t.size - 1

TableOf(size, k, v, order, count) ==
    [size |-> size, k |-> k, v |-> v, order |-> order, count |-> count]

TableShape(t) == t = TableOf(t.size, t.k, t.v, t.order, t.count)

\* The key at place n is met before an empty place
Met(t, key, n) ==
    \E i \in Places(t) : /\ Place(t, key, i) = n
                         /\ \A j \in 0 .. i - 1 : t.k[Place(t, key, j)] \notin {EMPTY, key}

TableTyped(t) ==
    /\ TableShape(t) /\ t.size \in 1 .. TopSize
    /\ t.k \in [Places(t) -> Keys \cup {EMPTY, FREED}] /\ t.v \in [Places(t) -> Nat]
    /\ t.order \in Seq(Places(t)) /\ t.count = Len(t.order)

\* The list has the places with a key, each of them once
ListTrue(t) ==
    /\ \A n \in Places(t) : t.k[n] \in Keys <=> \E i \in 1 .. Len(t.order) : t.order[i] = n
    /\ \A i, j \in 1 .. Len(t.order) : t.order[i] = t.order[j] => i = j

KeysOnce(t) == \A m, n \in Places(t) : t.k[m] \in Keys /\ t.k[m] = t.k[n] => m = n

KeysMet(t) == \A n \in Places(t) : t.k[n] \in Keys => Met(t, t.k[n], n)

GoodTable(t) == TableTyped(t) /\ ListTrue(t) /\ KeysOnce(t) /\ KeysMet(t)

HasKey(t, key) == \E n \in Places(t) : t.k[n] = key

\* A table with new keys, values, list and count
Changed(t, k, v, order, count) ==
    [t EXCEPT !.k = k, !.v = v, !.order = order, !.count = count]

\* What such a table has.
LEMMA ChangedTable ==
    ASSUME NEW t, TableShape(t), NEW k, NEW v, NEW order, NEW count
    PROVE  Changed(t, k, v, order, count) = TableOf(t.size, k, v, order, count)
  <1> DEFINE a == [t EXCEPT !.k = k]
             b == [a EXCEPT !.v = v]
             c == [b EXCEPT !.order = order]
  <1>1. Changed(t, k, v, order, count) = [c EXCEPT !.count = count]
    BY DEF Changed
  <1>2. a = TableOf(t.size, k, t.v, t.order, t.count)
    BY DEF TableShape, TableOf
  <1> HIDE DEF a
  <1>3. b = TableOf(t.size, k, v, t.order, t.count)
    BY <1>2 DEF TableOf
  <1> HIDE DEF b
  <1>4. c = TableOf(t.size, k, v, order, t.count)
    BY <1>3 DEF TableOf
  <1> HIDE DEF c
  <1>5. [c EXCEPT !.count = count] = TableOf(t.size, k, v, order, count)
    BY <1>4 DEF TableOf
  <1> QED  BY <1>1, <1>5

\* The parts of a table
LEMMA TableParts ==
    ASSUME NEW size, NEW k, NEW v, NEW order, NEW count, NEW t, t = TableOf(size, k, v, order, count)
    PROVE  /\ TableShape(t)
           /\ t.size = size /\ t.k = k /\ t.v = v /\ t.order = order /\ t.count = count
  <1>1. t.size = size /\ t.k = k /\ t.v = v /\ t.order = order /\ t.count = count
    BY DEF TableOf
  <1> QED  BY <1>1 DEF TableShape

\* The marks are no keys.
LEMMA MarksNoKeys == EMPTY \notin Keys /\ FREED \notin Keys /\ EMPTY # FREED /\ EMPTY \in Nat
  BY JsonStoreAssumption DEF EMPTY, FREED

\* A division has a quotient and a remainder.
LEMMA Divided ==
    ASSUME NEW s \in Nat, s >= 1, NEW x \in Nat
    PROVE  x % s \in 0 .. s - 1 /\ x = s * (x \div s) + (x % s) /\ x \div s \in Nat
  <1>1. x % s \in 0 .. s - 1 /\ x = s * (x \div s) + (x % s) /\ x \div s \in Int
    OBVIOUS
  <1>2. PICK d \in Int, r \in 0 .. s - 1 : d = x \div s /\ r = x % s /\ x = s * d + r
    BY <1>1
  <1>3. s * d > -s
    BY <1>2
  <1>4. ~ (d <= -1)
    BY <1>3
  <1> QED  BY <1>1, <1>2, <1>4

\* What the remainder is.
LEMMA ModIs ==
    ASSUME NEW s \in Nat, s >= 1, NEW q \in Nat, NEW m \in 0 .. s - 1
    PROVE  (s * q + m) % s = m
  <1>1. PICK x \in Nat : x = s * q + m
    OBVIOUS
  <1>2. x % s \in 0 .. s - 1 /\ x = s * (x \div s) + (x % s) /\ x \div s \in Int
    BY <1>1
  <1>3. PICK d \in Int, r \in 0 .. s - 1 : d = x \div s /\ r = x % s /\ x = s * d + r
    BY <1>2
  <1>4. s * (d - q) = m - r
    BY <1>1, <1>3
  <1>5. PICK e \in Int : e = d - q
    OBVIOUS
  <1>6. s * e < s /\ s * e > -s
    BY <1>3, <1>4, <1>5
  <1>7. e = 0
    <2>1. ~ (e >= 1)
      BY <1>6
    <2>2. ~ (e <= -1)
      BY <1>6
    <2> QED  BY <1>5, <2>1, <2>2
  <1> QED  BY <1>1, <1>3, <1>4, <1>5, <1>7

\* A lookup comes by every place.
LEMMA EveryPlace ==
    ASSUME NEW t, t.size \in Nat, t.size >= 1, NEW key \in Keys
    PROVE  /\ \A i \in Nat : Place(t, key, i) \in Places(t)
           /\ \A m \in Places(t) : \E i \in Places(t) : Place(t, key, i) = m
  <1>1. PICK s \in Nat : s = t.size /\ s >= 1
    OBVIOUS
  <1>2. PICK h \in Nat : h = Hash[key]
    BY JsonStoreAssumption
  <1>3. \A i \in Nat : (h + i) % s \in 0 .. s - 1
    <2> TAKE i \in Nat
    <2>1. PICK x \in Nat : x = h + i
      OBVIOUS
    <2> QED  BY <1>1, <2>1
  <1>4. ASSUME NEW m \in 0 .. s - 1 PROVE \E i \in 0 .. s - 1 : (h + i) % s = m
    <2>1. h % s \in 0 .. s - 1 /\ h = s * (h \div s) + (h % s) /\ h \div s \in Nat
      BY <1>1, Divided
    <2>2. PICK d \in Nat, r \in 0 .. s - 1 : h = s * d + r
      BY <2>1
    <2>3. CASE m >= r
      <3>1. PICK i \in 0 .. s - 1 : i = m - r
        BY <2>2, <2>3
      <3>2. h + i = s * d + m
        BY <2>2, <3>1
      <3>3. (s * d + m) % s = m
        BY <1>1, ModIs
      <3> QED  BY <3>1, <3>2, <3>3
    <2>4. CASE ~ (m >= r)
      <3>1. PICK i \in 0 .. s - 1 : i = (m - r) + s
        BY <2>2, <2>4
      <3>2. h + i = s * (d + 1) + m
        <4>1. s * (d + 1) = s * d + s
          OBVIOUS
        <4> QED  BY <2>2, <3>1, <4>1
      <3>3. (s * (d + 1) + m) % s = m
        <4>1. d + 1 \in Nat
          OBVIOUS
        <4> QED  BY <1>1, <4>1, ModIs
      <3> QED  BY <3>1, <3>2, <3>3
    <2> QED  BY <2>3, <2>4
  <1> QED  BY <1>1, <1>2, <1>3, <1>4 DEF Place, Places

\* A lookup finds a key where it is, and nothing where it is not.
LEMMA LookupFinds ==
    ASSUME NEW t, GoodTable(t), NEW key \in Keys
    PROVE  /\ ~ HasKey(t, key) => TableLookup(t, key) = -1
           /\ \A n \in Places(t) : t.k[n] = key => TableLookup(t, key) = n
  <1> DEFINE at == {i \in 0 .. t.size - 1 :
                      /\ t.k[Place(t, key, i)] = key
                      /\ \A j \in 0 .. i - 1 : t.k[Place(t, key, j)] \notin {EMPTY, key}}
             i == CHOOSE i \in at : TRUE
  <1>1. TableLookup(t, key) = IF at = {} THEN -1 ELSE Place(t, key, i)
    BY DEF TableLookup
  <1>2. t.size \in Nat /\ t.size >= 1
    BY JsonStoreAssumption DEF GoodTable, TableTyped
  <1>3. \A m \in at : Place(t, key, m) \in Places(t) /\ t.k[Place(t, key, m)] = key
    BY <1>2, EveryPlace
  <1>4. ASSUME NEW n \in Places(t), t.k[n] = key PROVE TableLookup(t, key) = n
    <2>1. Met(t, key, n)
      BY <1>4 DEF GoodTable, KeysMet
    <2>2. PICK m \in Places(t) : /\ Place(t, key, m) = n
                                 /\ \A j \in 0 .. m - 1 : t.k[Place(t, key, j)] \notin {EMPTY, key}
      BY <2>1 DEF Met
    <2>3. m \in at
      BY <1>4, <2>2 DEF Places
    <2>4. i \in at
      BY <2>3
    <2> HIDE DEF i, at
    <2>5. Place(t, key, i) \in Places(t) /\ t.k[Place(t, key, i)] = key
      BY <1>3, <2>4
    <2>6. Place(t, key, i) = n
      BY <1>4, <2>5 DEF GoodTable, KeysOnce
    <2> QED  BY <1>1, <2>3, <2>6
  <1>5. ASSUME ~ HasKey(t, key) PROVE TableLookup(t, key) = -1
    <2>1. at = {}
      <3> SUFFICES ASSUME NEW m \in at PROVE FALSE
        OBVIOUS
      <3> HIDE DEF at
      <3> QED  BY <1>3, <1>5 DEF HasKey
    <2> QED  BY <1>1, <2>1
  <1> QED  BY <1>4, <1>5

\* There are no more places in the list than in the table, and while there are
\* fewer, one is not in use.
LEMMA PlaceLeft ==
    ASSUME NEW t, GoodTable(t)
    PROVE  /\ Len(t.order) \in Nat /\ Len(t.order) <= t.size
           /\ Len(t.order) < t.size => \E n \in Places(t) : t.k[n] \in {EMPTY, FREED}
  <1>1. PICK s \in Nat : s = t.size /\ s >= 1
    BY JsonStoreAssumption DEF GoodTable, TableTyped
  <1>2. t.order \in Seq(0 .. s - 1) /\ t.k \in [0 .. s - 1 -> Keys \cup {EMPTY, FREED}]
    BY <1>1 DEF GoodTable, TableTyped, Places
  <1>3. PICK l \in Nat : l = Len(t.order)
    BY <1>2
  <1> DEFINE A == 1 .. l
             B == 0 .. s - 1
  <1>4. PICK f \in [A -> B] : f = t.order
    BY <1>2, <1>3
  <1>5. \A i, j \in 1 .. l : f[i] = f[j] => i = j
    BY <1>3, <1>4 DEF GoodTable, ListTrue
  <1>6. IsFiniteSet(A) /\ Cardinality(A) = l
    BY PlacesCounted
  <1>7. IsFiniteSet(B) /\ Cardinality(B) = s
    <2>1. /\ IsFiniteSet(0 .. s - 1)
          /\ Cardinality(0 .. s - 1) = IF 0 > s - 1 THEN 0 ELSE (s - 1) - 0 + 1
      BY FS_Interval
    <2> QED  BY <1>1, <2>1
  <1>8. l <= s
    <2> HIDE DEF A, B
    <2>1. f \in Injection(A, B)
      BY <1>5 DEF Injection, IsInjective, A
    <2>2. Cardinality(A) <= Cardinality(B)
      BY <1>7, <2>1, FS_Injection
    <2> QED  BY <1>6, <1>7, <2>2
  <1>9. ASSUME l < s PROVE \E n \in 0 .. s - 1 : t.k[n] \in {EMPTY, FREED}
    <2> SUFFICES ASSUME \A n \in 0 .. s - 1 : t.k[n] \in Keys PROVE FALSE
      BY <1>2
    <2>1. \A n \in 0 .. s - 1 : \E i \in 1 .. l : f[i] = n
      BY <1>1, <1>3, <1>4 DEF GoodTable, ListTrue, Places
    <2> HIDE DEF A, B
    <2>2. f \in Surjection(A, B)
      BY <2>1 DEF Surjection, A, B
    <2>3. Cardinality(B) <= Cardinality(A)
      BY <1>6, <2>2, FS_Surjection
    <2> QED  BY <1>6, <1>7, <1>9, <2>3
  <1> QED  BY <1>1, <1>3, <1>8, <1>9 DEF Places

\* A key is put at the first place on its way that is not in use.
LEMMA PlaceForIs ==
    ASSUME NEW t, GoodTable(t), Len(t.order) < t.size, NEW key \in Keys
    PROVE  /\ PlaceFor(t, key) \in Places(t) /\ t.k[PlaceFor(t, key)] \in {EMPTY, FREED}
           /\ \E i \in Places(t) :
                /\ Place(t, key, i) = PlaceFor(t, key)
                /\ \A j \in 0 .. i - 1 : t.k[Place(t, key, j)] \notin {EMPTY, FREED}
  <1> DEFINE F(i) == /\ t.k[Place(t, key, i)] \in {EMPTY, FREED}
                     /\ \A j \in 0 .. i - 1 : t.k[Place(t, key, j)] \notin {EMPTY, FREED}
             c == CHOOSE i \in 0 .. t.size - 1 : F(i)
             S == {i \in 0 .. t.size - 1 : t.k[Place(t, key, i)] \in {EMPTY, FREED}}
  <1>1. t.size \in Nat /\ t.size >= 1
    BY JsonStoreAssumption DEF GoodTable, TableTyped
  <1>2. PICK n \in Places(t) : t.k[n] \in {EMPTY, FREED}
    BY PlaceLeft
  <1>3. PICK m \in Places(t) : Place(t, key, m) = n
    BY <1>1, EveryPlace
  <1>4. S # {} /\ S \subseteq Nat
    BY <1>1, <1>2, <1>3 DEF Places
  <1>5. PICK i \in S : \A j \in S : i <= j
    <2> HIDE DEF S
    <2> QED  BY <1>4, LeastNatural
  <1>6. F(i) /\ i \in 0 .. t.size - 1
    <2>1. \A j \in 0 .. i - 1 : j \notin S /\ j \in 0 .. t.size - 1
      BY <1>1, <1>5
    <2> QED  BY <1>1, <1>5, <2>1
  <1>7. c \in 0 .. t.size - 1 /\ F(c)
    <2> HIDE DEF F
    <2> QED  BY <1>6
  <1>8. PlaceFor(t, key) = Place(t, key, c)
    BY DEF PlaceFor
  <1> HIDE DEF c
  <1>9. Place(t, key, c) \in Places(t)
    BY <1>1, <1>7, EveryPlace
  <1> QED  BY <1>7, <1>8, <1>9 DEF Places

\* A table to which a key was put at a place
FilledAt(w, t, n, key, val) ==
    /\ TableShape(w)
    /\ w.size = t.size /\ w.k = [t.k EXCEPT ![n] = key] /\ w.v = [t.v EXCEPT ![n] = val]
    /\ w.order = Append(t.order, n) /\ w.count = t.count + 1

\* An insertion puts it at the place for it.
LEMMA FilledParts ==
    ASSUME NEW t, TableShape(t), NEW key, NEW val
    PROVE  FilledAt(Filled(t, key, val), t, PlaceFor(t, key), key, val)
  <1> DEFINE n == PlaceFor(t, key)
             w == Filled(t, key, val)
             k == [t.k EXCEPT ![n] = key]
             v == [t.v EXCEPT ![n] = val]
             order == Append(t.order, n)
             count == t.count + 1
  <1>1. w = Changed(t, k, v, order, count)
    BY DEF Filled, Changed
  <1> HIDE DEF w, k, v, order, count
  <1>2. w = TableOf(t.size, k, v, order, count)
    BY <1>1, ChangedTable
  <1>3. /\ TableShape(w) /\ w.size = t.size /\ w.k = k /\ w.v = v
        /\ w.order = order /\ w.count = count
    BY <1>2, TableParts
  <1> QED  BY <1>3 DEF FilledAt, w, k, v, order, count

\* A key that is new is put into the table, and no other is lost.
LEMMA FilledGood ==
    ASSUME NEW t, GoodTable(t), Len(t.order) < t.size,
           NEW key \in Keys, ~ HasKey(t, key), NEW val \in Nat
    PROVE  /\ GoodTable(Filled(t, key, val)) /\ Filled(t, key, val).size = t.size
           /\ Len(Filled(t, key, val).order) = Len(t.order) + 1
           /\ \A x \in Keys : HasKey(Filled(t, key, val), x) <=> HasKey(t, x) \/ x = key
  <1> DEFINE n == PlaceFor(t, key)
             w == Filled(t, key, val)
             P == Places(t)
  <1>1. /\ TableShape(t) /\ t.size \in 1 .. TopSize
        /\ t.k \in [P -> Keys \cup {EMPTY, FREED}] /\ t.v \in [P -> Nat]
        /\ t.order \in Seq(P) /\ t.count = Len(t.order)
    BY DEF GoodTable, TableTyped
  <1>2. n \in P /\ t.k[n] \in {EMPTY, FREED}
    BY PlaceForIs
  <1>3. /\ TableShape(w)
        /\ w.size = t.size /\ w.k = [t.k EXCEPT ![n] = key] /\ w.v = [t.v EXCEPT ![n] = val]
        /\ w.order = Append(t.order, n) /\ w.count = t.count + 1
    <2>1. FilledAt(w, t, n, key, val)
      BY <1>1, FilledParts
    <2> HIDE DEF w, n
    <2> QED  BY <2>1 DEF FilledAt
  <1>4. PICK l \in Nat : l = Len(t.order)
    BY <1>1
  <1>5. Places(w) = P /\ \A x, i : Place(w, x, i) = Place(t, x, i)
    BY <1>3 DEF Places, Place
  <1>6. PICK i \in P : /\ Place(t, key, i) = n
                       /\ \A j \in 0 .. i - 1 : t.k[Place(t, key, j)] \notin {EMPTY, FREED}
    BY PlaceForIs
  <1> HIDE DEF w, n
  <1>7. /\ w.order \in Seq(P) /\ Len(w.order) = l + 1 /\ w.order[l + 1] = n
        /\ \A m \in 1 .. l : w.order[m] = t.order[m]
    BY <1>1, <1>2, <1>3, <1>4
  <1>8. w.k \in [P -> Keys \cup {EMPTY, FREED}] /\ w.v \in [P -> Nat]
    BY <1>1, <1>2, <1>3
  <1>9. TableTyped(w)
    BY <1>1, <1>3, <1>4, <1>5, <1>7, <1>8 DEF TableTyped
  <1>10. /\ \A m \in P : w.k[m] = IF m = n THEN key ELSE t.k[m]
         /\ \A m \in P : t.k[m] # key
         /\ t.k[n] \notin Keys
    BY <1>1, <1>2, <1>3, MarksNoKeys DEF HasKey
  <1>11. ListTrue(w)
    <2>1. /\ \A m \in P : t.k[m] \in Keys <=> \E j \in 1 .. l : t.order[j] = m
          /\ \A j, m \in 1 .. l : t.order[j] = t.order[m] => j = m
      BY <1>4 DEF GoodTable, ListTrue
    <2>2. \A j \in 1 .. l + 1 : j = l + 1 \/ j \in 1 .. l
      BY <1>4
    <2>3. \A j \in 1 .. l : j \in 1 .. l + 1 /\ t.order[j] # n
      BY <1>2, <1>10, <2>1
    <2>4. l + 1 \in 1 .. l + 1
      OBVIOUS
    <2>5. ASSUME NEW m \in P PROVE w.k[m] \in Keys <=> \E j \in 1 .. l + 1 : w.order[j] = m
      <3>1. CASE m = n
        BY <1>7, <1>10, <2>4, <3>1
      <3>2. CASE m # n
        BY <1>7, <1>10, <2>1, <2>2, <2>3, <3>2
      <3> QED  BY <3>1, <3>2
    <2>6. ASSUME NEW j \in 1 .. l + 1, NEW m \in 1 .. l + 1, w.order[j] = w.order[m] PROVE j = m
      BY <1>7, <2>1, <2>2, <2>3, <2>6
    <2> QED  BY <1>5, <1>7, <2>5, <2>6 DEF ListTrue
  <1>12. KeysOnce(w)
    <2>1. \A a, b \in P : t.k[a] \in Keys /\ t.k[a] = t.k[b] => a = b
      BY DEF GoodTable, KeysOnce
    <2>2. ASSUME NEW a \in P, NEW b \in P, w.k[a] \in Keys, w.k[a] = w.k[b] 
          PROVE  a = b
      BY <1>10, <2>1, <2>2
    <2> QED  BY <1>5, <2>2 DEF KeysOnce
  <1>13. KeysMet(w)
    <2> SUFFICES ASSUME NEW m \in P, w.k[m] \in Keys PROVE Met(w, w.k[m], m)
      BY <1>5 DEF KeysMet
    <2>1. t.size \in Nat /\ t.size >= 1
      BY <1>1
    <2>2. \A x \in Keys, j \in Nat : Place(t, x, j) \in P
      BY <2>1, EveryPlace
    <2>3. \A a \in P : \A b \in 0 .. a - 1 : b \in Nat
      OBVIOUS
    <2>4. CASE m = n
      <3>1. w.k[m] = key
        BY <1>10, <2>4
      <3>2. \A j \in 0 .. i - 1 : Place(t, key, j) \in P /\ Place(t, key, j) # n
        BY <1>2, <1>6, <2>2, <2>3
      <3>3. \A j \in 0 .. i - 1 : w.k[Place(t, key, j)] \notin {EMPTY, key}
        BY <1>6, <1>10, <3>2
      <3> QED  BY <1>5, <1>6, <2>4, <3>1, <3>3 DEF Met
    <2>5. CASE m # n
      <3>1. w.k[m] = t.k[m]
        BY <1>10, <2>5
      <3>2. PICK x \in Keys : x = t.k[m] /\ x # key
        BY <1>10, <3>1
      <3>3. Met(t, x, m)
        BY <3>1, <3>2 DEF GoodTable, KeysMet
      <3>4. PICK a \in P : /\ Place(t, x, a) = m
                           /\ \A j \in 0 .. a - 1 : t.k[Place(t, x, j)] \notin {EMPTY, x}
        BY <3>3 DEF Met
      <3>5. \A j \in 0 .. a - 1 : w.k[Place(t, x, j)] \notin {EMPTY, x}
        <4> SUFFICES ASSUME NEW j \in 0 .. a - 1 PROVE w.k[Place(t, x, j)] \notin {EMPTY, x}
          OBVIOUS
        <4>1. PICK b \in P : b = Place(t, x, j)
          BY <2>2, <2>3
        <4>2. t.k[b] \notin {EMPTY, x}
          BY <3>4, <4>1
        <4> QED  BY <1>10, <3>2, <4>1, <4>2, MarksNoKeys
      <3> QED  BY <1>5, <3>1, <3>2, <3>4, <3>5 DEF Met
    <2> QED  BY <2>4, <2>5
  <1>14. \A x \in Keys : HasKey(w, x) <=> HasKey(t, x) \/ x = key
    <2> SUFFICES ASSUME NEW x \in Keys
                 PROVE  (\E m \in P : w.k[m] = x) <=> (\E m \in P : t.k[m] = x) \/ x = key
      BY <1>5 DEF HasKey
    <2>1. (\E m \in P : w.k[m] = x) => (\E m \in P : t.k[m] = x) \/ x = key
      BY <1>10
    <2>2. x = key => \E m \in P : w.k[m] = x
      BY <1>2, <1>10
    <2>3. ASSUME NEW m \in P, t.k[m] = x PROVE \E a \in P : w.k[a] = x
      BY <1>10, <2>3
    <2> QED  BY <2>1, <2>2, <2>3
  <1> QED  BY <1>3, <1>4, <1>7, <1>9, <1>11, <1>12, <1>13, <1>14 DEF GoodTable, w

\* The values in a table
LEMMA ValuesAre ==
    ASSUME NEW t, t.order \in Seq(Nat)
    PROVE  /\ Len(TableValues(t)) = Len(t.order) /\ DOMAIN TableValues(t) = 1 .. Len(t.order)
           /\ \A i \in 1 .. Len(t.order) : TableValues(t)[i] = t.v[t.order[i]]
           /\ \A T : (\A i \in 1 .. Len(t.order) : t.v[t.order[i]] \in T) => TableValues(t) \in Seq(T)
  <1>1. PICK n \in Nat : n = Len(t.order) /\ DOMAIN t.order = 1 .. n
    OBVIOUS
  <1>2. TableValues(t) = [i \in 1 .. n |-> t.v[t.order[i]]]
    BY <1>1 DEF TableValues
  <1> DEFINE w == [i \in 1 .. n |-> t.v[t.order[i]]]
  <1>3. Len(w) = n /\ DOMAIN w = 1 .. n
    OBVIOUS
  <1>4. ASSUME NEW T, \A i \in 1 .. n : t.v[t.order[i]] \in T PROVE w \in Seq(T)
    BY <1>4
  <1> QED  BY <1>1, <1>2, <1>3, <1>4

\* Those of a good table are numbers.
LEMMA GoodValues ==
    ASSUME NEW t, GoodTable(t)
    PROVE  /\ t.order \in Seq(Nat) /\ TableValues(t) \in Seq(Nat)
           /\ Len(TableValues(t)) = Len(t.order) /\ Len(t.order) \in Nat
           /\ \A i \in 1 .. Len(t.order) : /\ TableValues(t)[i] = t.v[t.order[i]]
                                           /\ t.order[i] \in Places(t) /\ t.k[t.order[i]] \in Keys
  <1>1. /\ t.order \in Seq(Places(t)) /\ t.v \in [Places(t) -> Nat]
        /\ \A n \in Places(t) : t.k[n] \in Keys <=> \E i \in 1 .. Len(t.order) : t.order[i] = n
    BY DEF GoodTable, TableTyped, ListTrue
  <1>2. t.order \in Seq(Nat)
    <2>1. Places(t) \subseteq Nat
      BY JsonStoreAssumption DEF GoodTable, TableTyped, Places
    <2> QED  BY <1>1, <2>1
  <1>3. \A i \in 1 .. Len(t.order) : t.order[i] \in Places(t) /\ t.k[t.order[i]] \in Keys
    BY <1>1
  <1>4. \A i \in 1 .. Len(t.order) : t.v[t.order[i]] \in Nat
    BY <1>1, <1>3
  <1>5. TableValues(t) \in Seq(Nat)
    BY <1>2, <1>4, ValuesAre
  <1> QED  BY <1>2, <1>3, <1>5, ValuesAre

\* A list to which a value was added
Added(q, w, val) ==
    /\ q \in Seq(Nat) /\ w \in Seq(Nat) /\ Len(w) = Len(q) + 1 /\ w[Len(q) + 1] = val
    /\ \A i \in 1 .. Len(q) : w[i] = q[i]

\* A key that is put into a table adds its value.
LEMMA FilledValues ==
    ASSUME NEW t, GoodTable(t), Len(t.order) < t.size,
           NEW key \in Keys, ~ HasKey(t, key), NEW val \in Nat
    PROVE  Added(TableValues(t), TableValues(Filled(t, key, val)), val)
  <1>1. PICK w : w = Filled(t, key, val)
    OBVIOUS
  <1>2. PICK n : n = PlaceFor(t, key)
    OBVIOUS
  <1>3. PICK l \in Nat : l = Len(t.order)
    BY PlaceLeft
  <1>4. n \in Places(t) /\ t.k[n] \in {EMPTY, FREED}
    BY <1>2, PlaceForIs
  <1>5. GoodTable(w) /\ Len(w.order) = l + 1
    BY <1>1, <1>3, FilledGood
  <1>6. w.v = [t.v EXCEPT ![n] = val] /\ w.order = Append(t.order, n)
    <2>1. TableShape(t)
      BY DEF GoodTable, TableTyped
    <2>2. FilledAt(Filled(t, key, val), t, PlaceFor(t, key), key, val)
      BY <2>1, FilledParts
    <2>3. FilledAt(w, t, n, key, val)
      BY <1>1, <1>2, <2>2
    <2> QED  BY <2>3 DEF FilledAt
  <1>7. t.order \in Seq(Nat) /\ t.v \in [Places(t) -> Nat]
    BY GoodValues DEF GoodTable, TableTyped
  <1>8. w.order[l + 1] = n /\ \A i \in 1 .. l : w.order[i] = t.order[i]
    BY <1>3, <1>6, <1>7
  <1>9. /\ TableValues(t) \in Seq(Nat) /\ Len(TableValues(t)) = l
        /\ TableValues(w) \in Seq(Nat) /\ Len(TableValues(w)) = l + 1
    BY <1>3, <1>5, GoodValues
  <1>10. /\ \A i \in 1 .. l : /\ TableValues(t)[i] = t.v[t.order[i]]
                               /\ t.order[i] \in Places(t) /\ t.k[t.order[i]] \in Keys
         /\ \A i \in 1 .. l + 1 : TableValues(w)[i] = w.v[w.order[i]]
    BY <1>3, <1>5, GoodValues
  <1>11. TableValues(w)[l + 1] = val
    <2>1. l + 1 \in 1 .. l + 1
      OBVIOUS
    <2> QED  BY <1>4, <1>6, <1>7, <1>8, <1>10, <2>1
  <1>12. ASSUME NEW i \in 1 .. l PROVE TableValues(w)[i] = TableValues(t)[i]
    <2>1. i \in 1 .. l + 1 /\ w.order[i] = t.order[i]
      BY <1>8
    <2>2. t.order[i] # n
      BY <1>4, <1>10, MarksNoKeys
    <2>3. w.v[t.order[i]] = t.v[t.order[i]]
      BY <1>6, <1>7, <1>10, <2>2
    <2> QED  BY <1>10, <2>1, <2>3
  <1> QED  BY <1>1, <1>9, <1>11, <1>12 DEF Added

\* A new table is good.
LEMMA NewGood ==
    ASSUME NEW size \in 1 .. TopSize
    PROVE  /\ GoodTable(TableNew(size)) /\ TableNew(size).size = size
           /\ TableNew(size).order = <<>> /\ \A x \in Keys : ~ HasKey(TableNew(size), x)
  <1> DEFINE t == TableNew(size)
  <1>1. /\ t = TableOf(t.size, t.k, t.v, t.order, t.count)
        /\ t.size = size /\ t.order = <<>> /\ t.count = 0
        /\ t.k = [n \in 0 .. size - 1 |-> EMPTY] /\ t.v = [n \in 0 .. size - 1 |-> NULL]
    BY DEF TableNew, TableOf
  <1> HIDE DEF t
  <1>2. /\ t.k \in [Places(t) -> Keys \cup {EMPTY, FREED}] /\ t.v \in [Places(t) -> Nat]
        /\ \A n \in Places(t) : t.k[n] \notin Keys
    BY <1>1, MarksNoKeys DEF Places, NULL
  <1>3. TableTyped(t)
    BY <1>1, <1>2 DEF TableTyped, TableShape
  <1>4. ListTrue(t) /\ KeysOnce(t) /\ KeysMet(t)
    <2>1. Len(t.order) = 0
      BY <1>1
    <2> QED  BY <1>2, <2>1 DEF ListTrue, KeysOnce, KeysMet
  <1> QED  BY <1>1, <1>2, <1>3, <1>4 DEF GoodTable, HasKey, t

\* The tables of a size
TablesOf(size) ==
    {t \in [size : {size}, k : [0 .. size - 1 -> Keys \cup {EMPTY, FREED}],
            v : [0 .. size - 1 -> Nat], order : Seq(0 .. size - 1), count : Nat] : GoodTable(t)}

\* A good table is one of those of its size.
LEMMA OfItsSize ==
    ASSUME NEW t
    PROVE  /\ GoodTable(t) => t \in TablesOf(t.size)
           /\ \A size : t \in TablesOf(size) => GoodTable(t) /\ t.size = size
  <1>1. ASSUME GoodTable(t) PROVE t \in TablesOf(t.size)
    <2>1. /\ t = TableOf(t.size, t.k, t.v, t.order, t.count)
          /\ t.k \in [0 .. t.size - 1 -> Keys \cup {EMPTY, FREED}]
          /\ t.v \in [0 .. t.size - 1 -> Nat] /\ t.order \in Seq(0 .. t.size - 1)
          /\ t.count = Len(t.order)
      BY <1>1 DEF GoodTable, TableTyped, TableShape, Places
    <2>2. t.count \in Nat
      BY <2>1
    <2> QED  BY <1>1, <2>1, <2>2 DEF TablesOf, TableOf
  <1> QED  BY <1>1 DEF TablesOf

\* The first i entries of t are in new
Moved(new, t, i) ==
    /\ Len(new.order) = i /\ \A j \in 1 .. i : TableValues(new)[j] = t.v[t.order[j]]
    /\ \A x \in Keys : HasKey(new, x) <=> \E j \in 1 .. i : t.k[t.order[j]] = x

\* A table that grows keeps its keys, and their values in order.
LEMMA ResizeGood ==
    ASSUME NEW t, GoodTable(t), t.size # TopSize
    PROVE  /\ GoodTable(TableResize(t)) /\ Len(TableResize(t).order) = Len(t.order)
           /\ Len(t.order) < TableResize(t).size
           /\ \A j \in 1 .. Len(t.order) : TableValues(TableResize(t))[j] = t.v[t.order[j]]
           /\ \A x \in Keys : HasKey(TableResize(t), x) <=> HasKey(t, x)
  <1> DEFINE size == NewSize(t)
             n == Len(t.order)
             T == TablesOf(size)
             s == TableNew(size)
             fill(new, i) == Filled(new, t.k[t.order[i]], t.v[t.order[i]])
             g == [i \in 1 .. n |->
                     [new \in T |-> IF Moved(new, t, i - 1) THEN fill(new, i) ELSE new]]
             Fits(f) == f = [i \in 0 .. n |-> IF i = 0 THEN s ELSE fill(f[i - 1], i)]
             after == CHOOSE f : Fits(f)
  <1>1. t.size \in 1 .. TopSize /\ TopSize \in Nat
    BY JsonStoreAssumption DEF GoodTable, TableTyped
  <1>2. size \in 1 .. TopSize /\ t.size < size
    <2>1. PICK z \in Nat, top \in Nat : z = t.size /\ top = TopSize /\ z >= 1 /\ z < top
      BY <1>1
    <2>2. top \div 2 \in Nat /\ 2 * (top \div 2) <= top
      OBVIOUS
    <2>3. size = IF z > top \div 2 THEN top ELSE z * 2
      BY <2>1 DEF NewSize
    <2> QED  BY <2>1, <2>2, <2>3
  <1>3. n \in Nat /\ n <= t.size
    BY PlaceLeft
  <1> HIDE DEF size
  <1>4. GoodTable(s) /\ s.size = size /\ s.order = <<>> /\ \A x \in Keys : ~ HasKey(s, x)
    BY <1>2, NewGood
  <1>5. s \in T /\ Moved(s, t, 0)
    <2>1. s \in T
      BY <1>4, OfItsSize
    <2>2. Len(s.order) = 0
      BY <1>4
    <2>3. \A x \in Keys : ~ \E j \in 1 .. 0 : t.k[t.order[j]] = x
      OBVIOUS
    <2>4. \A j \in 1 .. 0 : TableValues(s)[j] = t.v[t.order[j]]
      OBVIOUS
    <2> QED  BY <1>4, <2>1, <2>2, <2>3, <2>4 DEF Moved
  <1> HIDE DEF s, T, n
  <1>6. ASSUME NEW i \in 1 .. n
        PROVE  t.order[i] \in Places(t) /\ t.k[t.order[i]] \in Keys /\ t.v[t.order[i]] \in Nat
    <2>1. t.order[i] \in Places(t)
      BY <1>6 DEF n, GoodTable, TableTyped
    <2> QED  BY <1>6, <2>1 DEF n, GoodTable, TableTyped, ListTrue
  <1>7. ASSUME NEW i \in 1 .. n, NEW new \in T, Moved(new, t, i - 1)
        PROVE  fill(new, i) \in T /\ Moved(fill(new, i), t, i)
    <2> DEFINE key == t.k[t.order[i]]
               val == t.v[t.order[i]]
    <2>1. key \in Keys /\ val \in Nat
      BY <1>6
    <2>2. GoodTable(new) /\ new.size = size /\ Len(new.order) = i - 1
      BY <1>7, OfItsSize DEF T, Moved
    <2>3. ~ HasKey(new, key)
      <3> SUFFICES ASSUME HasKey(new, key) PROVE FALSE
        OBVIOUS
      <3>1. PICK j \in 1 .. i - 1 : t.k[t.order[j]] = key
        BY <1>7, <2>1 DEF Moved
      <3>2. j \in 1 .. n /\ i \in 1 .. n /\ j # i
        BY <1>3
      <3>3. t.order[j] = t.order[i]
        BY <1>6, <2>1, <3>1, <3>2 DEF GoodTable, KeysOnce
      <3> QED  BY <3>2, <3>3 DEF GoodTable, ListTrue, n
    <2>4. Len(new.order) < new.size
      BY <1>1, <1>2, <1>3, <2>2
    <2> HIDE DEF key, val
    <2>5. /\ GoodTable(Filled(new, key, val)) /\ Filled(new, key, val).size = new.size
          /\ Len(Filled(new, key, val).order) = Len(new.order) + 1
          /\ \A x \in Keys : HasKey(Filled(new, key, val), x) <=> HasKey(new, x) \/ x = key
      BY <2>1, <2>2, <2>3, <2>4, FilledGood
    <2>6. Filled(new, key, val) \in T
      BY <2>2, <2>5, OfItsSize DEF T
    <2>7. Moved(Filled(new, key, val), t, i)
      <3>1. Len(Filled(new, key, val).order) = i
        BY <2>2, <2>5
      <3>2. \A j : j \in 1 .. i <=> j \in 1 .. i - 1 \/ j = i
        OBVIOUS
      <3>3. \A x \in Keys : HasKey(new, x) <=> \E j \in 1 .. i - 1 : t.k[t.order[j]] = x
        BY <1>7 DEF Moved
      <3>4. t.k[t.order[i]] = key /\ t.v[t.order[i]] = val
        BY DEF key, val
      <3>5. Added(TableValues(new), TableValues(Filled(new, key, val)), val)
        BY <2>1, <2>2, <2>3, <2>4, FilledValues
      <3>6. Len(TableValues(new)) = i - 1
        BY <2>2, GoodValues
      <3>7. \A j \in 1 .. i : TableValues(Filled(new, key, val))[j] = t.v[t.order[j]]
        <4>1. \A j \in 1 .. i - 1 : TableValues(new)[j] = t.v[t.order[j]]
          BY <1>7 DEF Moved
        <4>2. TableValues(Filled(new, key, val))[i - 1 + 1] = val /\ i - 1 + 1 = i
          BY <3>5, <3>6 DEF Added
        <4> QED  BY <3>2, <3>4, <3>5, <3>6, <4>1, <4>2 DEF Added
      <3> QED  BY <2>5, <3>1, <3>2, <3>3, <3>4, <3>7 DEF Moved
    <2> QED  BY <2>6, <2>7 DEF key, val
  <1>8. g \in [1 .. n -> [T -> T]]
    <2> HIDE DEF fill
    <2>1. \A i \in 1 .. n, new \in T :
            (IF Moved(new, t, i - 1) THEN fill(new, i) ELSE new) \in T
      BY <1>7
    <2> QED  BY <2>1
  <1>9. PICK f \in [0 .. n -> T] : Applies(f, s, n, g)
    <2> HIDE DEF g
    <2> QED  BY <1>3, <1>5, <1>8, StepsExist DEF n
  <1> HIDE DEF fill
  <1>10. ASSUME NEW i \in 1 .. n, Moved(f[i - 1], t, i - 1)
         PROVE  f[i] = fill(f[i - 1], i) /\ Moved(f[i], t, i)
    <2>1. i \in 0 .. n /\ i - 1 \in 0 .. n /\ i # 0 /\ f[i - 1] \in T
      BY <1>3, <1>9 DEF n
    <2>2. f[i] = g[i][f[i - 1]]
      <3> HIDE DEF g
      <3> QED  BY <1>9, <2>1 DEF Applies
    <2>3. f[i] = fill(f[i - 1], i)
      BY <1>10, <2>1, <2>2
    <2> QED  BY <1>7, <1>10, <2>1, <2>3
  <1> DEFINE I == {i \in 0 .. n : Moved(f[i], t, i)}
  <1>11. 0 \in 0 .. n /\ f[0] = s
    <2>1. 0 \in 0 .. n
      BY <1>3 DEF n
    <2> HIDE DEF g
    <2> QED  BY <1>9, <2>1 DEF Applies
  <1>12. \A i \in 0 .. n : i \in I
    <2>1. [i \in 0 .. n |-> i][0] \in I
      BY <1>5, <1>11
    <2>2. \A i \in 1 .. n : i - 1 \in I => i \in I
      <3> SUFFICES ASSUME NEW i \in 1 .. n, i - 1 \in I PROVE i \in I
        OBVIOUS
      <3>1. i \in 0 .. n
        OBVIOUS
      <3> QED  BY <1>10, <3>1
    <2>3. n \in Nat
      BY <1>3 DEF n
    <2> DEFINE id == [i \in 0 .. n |-> i]
    <2>4. id[0] \in I /\ \A i \in 1 .. n : id[i - 1] \in I => id[i] \in I
      <3>1. \A i \in 1 .. n : i \in 0 .. n /\ i - 1 \in 0 .. n
        BY <2>3
      <3> HIDE DEF I
      <3> QED  BY <2>1, <2>2, <3>1
    <2>5. \A i \in 0 .. n : id[i] \in I
      <3> HIDE DEF id, I
      <3> QED  BY <2>3, <2>4, KeptBySteps
    <2> HIDE DEF I
    <2> QED  BY <2>5
  <1>13. Fits(f)
    <2>1. \A i \in 0 .. n : f[i] = IF i = 0 THEN s ELSE fill(f[i - 1], i)
      <3> SUFFICES ASSUME NEW i \in 0 .. n, i # 0 PROVE f[i] = fill(f[i - 1], i)
        BY <1>11
      <3>1. i \in 1 .. n /\ i - 1 \in 0 .. n
        BY <1>3 DEF n
      <3> QED  BY <1>10, <1>12, <3>1
    <2>2. f = [i \in 0 .. n |-> f[i]]
      OBVIOUS
    <2> QED  BY <2>1, <2>2
  <1>14. Fits(after)
    <2> HIDE DEF Fits
    <2> QED  BY <1>13
  <1> HIDE DEF after
  <1> DEFINE J == {i \in 0 .. n : after[i] = f[i]}
  <1>15. after[n] \in T /\ Moved(after[n], t, n)
    <2>1. \A i \in 0 .. n : after[i] = IF i = 0 THEN s ELSE fill(after[i - 1], i)
      BY <1>14
    <2>2. n \in Nat
      BY <1>3 DEF n
    <2> DEFINE id == [i \in 0 .. n |-> i]
    <2>3. \A i \in 1 .. n : i \in 0 .. n /\ i - 1 \in 0 .. n /\ i # 0
      BY <2>2
    <2>4. id[0] \in J /\ \A i \in 1 .. n : id[i - 1] \in J => id[i] \in J
      <3>1. 0 \in J
        BY <1>11, <2>1
      <3>2. ASSUME NEW i \in 1 .. n, i - 1 \in J PROVE i \in J
        <4>1. after[i - 1] = f[i - 1]
          BY <3>2
        <4>2. after[i] = fill(after[i - 1], i)
          BY <2>1, <2>3
        <4>3. f[i] = fill(f[i - 1], i)
          BY <1>10, <1>12, <2>3
        <4> QED  BY <2>3, <4>1, <4>2, <4>3
      <3> HIDE DEF J
      <3> QED  BY <1>11, <2>3, <3>1, <3>2
    <2>5. \A i \in 0 .. n : id[i] \in J
      <3> HIDE DEF id, J
      <3> QED  BY <2>2, <2>4, KeptBySteps
    <2>6. n \in 0 .. n
      BY <2>2
    <2>7. n \in J
      <3> HIDE DEF J
      <3> QED  BY <2>5, <2>6
    <2> QED  BY <1>9, <1>12, <2>6, <2>7
  <1>16. TableResize(t) = [after[n] EXCEPT !.count = t.count]
    BY DEF TableResize, Steps, after, s, size, n, fill
  <1>17. GoodTable(after[n]) /\ after[n].size = size /\ Len(after[n].order) = n
    BY <1>15, OfItsSize DEF T, Moved
  <1>18. TableResize(t) = after[n]
    <2>1. after[n].count = t.count /\ TableShape(after[n])
      BY <1>17 DEF GoodTable, TableTyped, n
    <2> QED  BY <1>16, <2>1 DEF TableShape, TableOf
  <1>19. ASSUME NEW x \in Keys PROVE (\E j \in 1 .. n : t.k[t.order[j]] = x) <=> HasKey(t, x)
    <2>1. \A m \in Places(t) : t.k[m] \in Keys <=> \E j \in 1 .. n : t.order[j] = m
      BY DEF GoodTable, ListTrue, n
    <2> QED  BY <1>6, <2>1 DEF HasKey
  <1>20. n < size
    BY <1>1, <1>2, <1>3 DEF n
  <1> QED  BY <1>15, <1>17, <1>18, <1>19, <1>20 DEF Moved, n

\* An insertion of a new key leaves a good table.
LEMMA InsertGood ==
    ASSUME NEW t, GoodTable(t), NEW key \in Keys, ~ HasKey(t, key), NEW val \in Nat, NEW nomem,
           TableInsert(t, key, val, nomem) # <<>>
    PROVE  GoodTable(TableInsert(t, key, val, nomem)[1])
  <1>1. CASE ~ TableFull(t)
    <2>1. Len(t.order) < t.size
      <3>1. t.count = Len(t.order) /\ t.size \in Nat /\ t.size >= 1
        BY JsonStoreAssumption DEF GoodTable, TableTyped
      <3>2. Len(t.order) \in Nat
        BY PlaceLeft
      <3> QED  BY <1>1, <3>1, <3>2 DEF TableFull
    <2>2. GoodTable(Filled(t, key, val))
      BY <2>1, FilledGood
    <2>3. TableInsert(t, key, val, nomem)[1] = Filled(t, key, val)
      BY <1>1 DEF TableInsert
    <2> QED  BY <2>2, <2>3
  <1>2. CASE TableFull(t)
    <2> DEFINE w == TableResize(t)
    <2>1. t.size # TopSize /\ TableInsert(t, key, val, nomem) = << Filled(w, key, val) >>
      BY <1>2 DEF TableInsert
    <2>2. GoodTable(w) /\ Len(w.order) < w.size /\ ~ HasKey(w, key)
      BY <2>1, ResizeGood
    <2> HIDE DEF w
    <2>3. GoodTable(Filled(w, key, val))
      BY <2>2, FilledGood
    <2> QED  BY <2>1, <2>3
  <1> QED  BY <1>1, <1>2

\* A deletion leaves a mark that lookups go past.
LEMMA DeleteGood ==
    ASSUME NEW t, GoodTable(t), NEW n \in Places(t), t.k[n] \in Keys
    PROVE  GoodTable(TableDelete(t, n))
  <1> DEFINE w == TableDelete(t, n)
             P == Places(t)
             at == CHOOSE i \in 1 .. Len(t.order) : t.order[i] = n
  <1>1. /\ TableShape(t) /\ t.size \in 1 .. TopSize
        /\ t.k \in [P -> Keys \cup {EMPTY, FREED}] /\ t.v \in [P -> Nat]
        /\ t.order \in Seq(P) /\ t.count = Len(t.order)
    BY DEF GoodTable, TableTyped
  <1>2. /\ TableShape(w)
        /\ w.size = t.size /\ w.k = [t.k EXCEPT ![n] = FREED] /\ w.v = [t.v EXCEPT ![n] = NULL]
        /\ w.order = RemoveAt(t.order, at) /\ w.count = t.count - 1
    <2> DEFINE k == [t.k EXCEPT ![n] = FREED]
               v == [t.v EXCEPT ![n] = NULL]
    <2>1. w = Changed(t, k, v, Unlinked(t, n), t.count - 1)
      BY DEF TableDelete, Changed
    <2>2. Unlinked(t, n) = RemoveAt(t.order, at)
      BY DEF Unlinked
    <2> HIDE DEF w, k, v, at
    <2>3. w = TableOf(t.size, k, v, Unlinked(t, n), t.count - 1)
      BY <1>1, <2>1, ChangedTable
    <2> QED  BY <2>2, <2>3, TableParts DEF k, v
  <1>3. /\ \A m \in P : t.k[m] \in Keys <=> \E j \in 1 .. Len(t.order) : t.order[j] = m
        /\ \A j, m \in 1 .. Len(t.order) : t.order[j] = t.order[m] => j = m
    BY DEF GoodTable, ListTrue
  <1>4. at \in 1 .. Len(t.order) /\ t.order[at] = n
    <2>1. \E i \in 1 .. Len(t.order) : t.order[i] = n
      BY <1>3
    <2> QED  BY <2>1
  <1>5. Places(w) = P /\ \A x, i : Place(w, x, i) = Place(t, x, i)
    BY <1>2 DEF Places, Place
  <1> HIDE DEF w, at
  <1>6. /\ w.order \in Seq(P) /\ Len(w.order) = Len(t.order) - 1
        /\ \E f : Thinned(w.order, t.order, f, {at})
    <2>1. /\ RemoveAt(t.order, at) \in Seq(P) /\ Len(RemoveAt(t.order, at)) = Len(t.order) - 1
      BY <1>1, <1>4, RemovedAt
    <2>2. \E f : Thinned(RemoveAt(t.order, at), t.order, f, {at})
      BY <1>1, <1>4, CutThinned
    <2> QED  BY <1>2, <2>1, <2>2
  <1>7. PICK f : Thinned(w.order, t.order, f, {at})
    BY <1>6
  <1>8. /\ \A i \in 1 .. Len(w.order) : f[i] \in 1 .. Len(t.order)
        /\ \A i, j \in 1 .. Len(w.order) : f[i] = f[j] => i = j
        /\ \A i \in 1 .. Len(w.order) : w.order[i] = t.order[f[i]] /\ f[i] # at
        /\ \A m \in 1 .. Len(t.order) : m # at => \E i \in 1 .. Len(w.order) : f[i] = m
    BY <1>7 DEF Thinned
  <1>9. w.k \in [P -> Keys \cup {EMPTY, FREED}] /\ w.v \in [P -> Nat]
    BY <1>1, <1>2 DEF NULL
  <1>10. TableTyped(w)
    BY <1>1, <1>2, <1>5, <1>6, <1>9 DEF TableTyped
  <1>11. \A m \in P : w.k[m] = IF m = n THEN FREED ELSE t.k[m]
    BY <1>1, <1>2
  <1>12. ListTrue(w)
    <2>1. ASSUME NEW m \in P
          PROVE  w.k[m] \in Keys <=> \E j \in 1 .. Len(w.order) : w.order[j] = m
      <3>1. CASE m = n
        <4>1. w.k[m] \notin Keys
          BY <1>11, <3>1, MarksNoKeys
        <4>2. ASSUME NEW j \in 1 .. Len(w.order), w.order[j] = n PROVE FALSE
          <5>1. f[j] \in 1 .. Len(t.order) /\ t.order[f[j]] = n /\ f[j] # at
            BY <1>8, <4>2
          <5> QED  BY <1>3, <1>4, <5>1
        <4> QED  BY <3>1, <4>1, <4>2
      <3>2. CASE m # n
        <4>1. w.k[m] \in Keys <=> \E j \in 1 .. Len(t.order) : t.order[j] = m
          BY <1>3, <1>11, <3>2
        <4>2. ASSUME NEW j \in 1 .. Len(t.order), t.order[j] = m
              PROVE  \E i \in 1 .. Len(w.order) : w.order[i] = m
          <5>1. j # at
            BY <1>4, <3>2, <4>2
          <5> QED  BY <1>8, <4>2, <5>1
        <4>3. ASSUME NEW i \in 1 .. Len(w.order), w.order[i] = m
              PROVE  \E j \in 1 .. Len(t.order) : t.order[j] = m
          BY <1>8, <4>3
        <4> QED  BY <4>1, <4>2, <4>3
      <3> QED  BY <3>1, <3>2
    <2>2. ASSUME NEW i \in 1 .. Len(w.order), NEW j \in 1 .. Len(w.order),
                 w.order[i] = w.order[j]
          PROVE  i = j
      <3>1. t.order[f[i]] = t.order[f[j]]
        BY <1>8, <2>2
      <3>2. f[i] = f[j]
        BY <1>3, <1>8, <3>1
      <3> QED  BY <1>8, <3>2
    <2> QED  BY <1>5, <2>1, <2>2 DEF ListTrue
  <1>13. KeysOnce(w)
    <2>1. \A a, b \in P : t.k[a] \in Keys /\ t.k[a] = t.k[b] => a = b
      BY DEF GoodTable, KeysOnce
    <2>2. ASSUME NEW a \in P, NEW b \in P, w.k[a] \in Keys, w.k[a] = w.k[b] 
          PROVE  a = b
      BY <1>11, <2>1, <2>2, MarksNoKeys
    <2> QED  BY <1>5, <2>2 DEF KeysOnce
  <1>14. KeysMet(w)
    <2> SUFFICES ASSUME NEW m \in P, w.k[m] \in Keys PROVE Met(w, w.k[m], m)
      BY <1>5 DEF KeysMet
    <2>1. t.size \in Nat /\ t.size >= 1
      BY <1>1, JsonStoreAssumption
    <2>2. \A x \in Keys, j \in Nat : Place(t, x, j) \in P
      BY <2>1, EveryPlace
    <2>3. \A a \in P : \A b \in 0 .. a - 1 : b \in Nat
      OBVIOUS
    <2>4. w.k[m] = t.k[m]
      BY <1>11, MarksNoKeys
    <2>5. PICK x \in Keys : x = t.k[m]
      BY <2>4
    <2>6. Met(t, x, m)
      BY <2>5 DEF GoodTable, KeysMet
    <2>7. PICK a \in P : /\ Place(t, x, a) = m
                         /\ \A j \in 0 .. a - 1 : t.k[Place(t, x, j)] \notin {EMPTY, x}
      BY <2>6 DEF Met
    <2>8. \A j \in 0 .. a - 1 : w.k[Place(t, x, j)] \notin {EMPTY, x}
      <3> SUFFICES ASSUME NEW j \in 0 .. a - 1 PROVE w.k[Place(t, x, j)] \notin {EMPTY, x}
        OBVIOUS
      <3>1. PICK b \in P : b = Place(t, x, j)
        BY <2>2, <2>3
      <3>2. t.k[b] \notin {EMPTY, x}
        BY <2>7, <3>1
      <3> QED  BY <1>11, <3>1, <3>2, MarksNoKeys
    <2> QED  BY <1>5, <2>4, <2>5, <2>7, <2>8 DEF Met
  <1> QED  BY <1>10, <1>12, <1>13, <1>14 DEF GoodTable, w

\* A value in the table may be replaced.
LEMMA ReplaceGood ==
    ASSUME NEW t, GoodTable(t), NEW n, NEW val \in Nat
    PROVE  GoodTable([t EXCEPT !.v[n] = val])
  <1> DEFINE w == [t EXCEPT !.v[n] = val]
  <1>1. /\ TableShape(w)
        /\ w.size = t.size /\ w.k = t.k /\ w.order = t.order /\ w.count = t.count
        /\ w.v = [t.v EXCEPT ![n] = val]
    <2> DEFINE v == [t.v EXCEPT ![n] = val]
    <2>1. t = TableOf(t.size, t.k, t.v, t.order, t.count)
      BY DEF GoodTable, TableTyped, TableShape
    <2>2. w = [t EXCEPT !.v = v]
      OBVIOUS
    <2> HIDE DEF w, v
    <2>3. w = TableOf(t.size, t.k, v, t.order, t.count)
      BY <2>1, <2>2 DEF TableOf
    <2>4. TableShape(w) /\ w.size = t.size /\ w.k = t.k /\ w.order = t.order
          /\ w.count = t.count /\ w.v = v
      BY <2>3, TableParts
    <2> QED  BY <2>4 DEF v
  <1> HIDE DEF w
  <1>2. Places(w) = Places(t) /\ \A x, i : Place(w, x, i) = Place(t, x, i)
    BY <1>1 DEF Places, Place
  <1>3. w.v \in [Places(t) -> Nat]
    BY <1>1 DEF GoodTable, TableTyped
  <1>4. TableTyped(w)
    BY <1>1, <1>2, <1>3 DEF GoodTable, TableTyped
  <1>5. ListTrue(w) /\ KeysOnce(w)
    BY <1>1, <1>2 DEF GoodTable, ListTrue, KeysOnce
  <1>6. KeysMet(w)
    BY <1>1, <1>2 DEF GoodTable, KeysMet, Met
  <1> QED  BY <1>4, <1>5, <1>6 DEF GoodTable, w

-----------------------------------------------------------------------------
(***************************************************************************)
(* The values. json_object_put() takes values off the heap and counts down *)
(* references; in those that stay it changes no table and no array.        *)
(***************************************************************************)
ArrayShape(a) == a = [size |-> a.size, list |-> a.list]

GoodArray(a) ==
    ArrayShape(a) /\ a.size \in Nat /\ a.list \in Seq(Nat) /\ Len(a.list) <= a.size

ValueShape(x) == x = [type |-> x.type, refs |-> x.refs, table |-> x.table, array |-> x.array]

GoodValue(x) ==
    /\ ValueShape(x) /\ TableShape(x.table) /\ ArrayShape(x.array)
    /\ x.type = "object" => GoodTable(x.table)
    /\ x.type = "array" => GoodArray(x.array)

Heaped(h) == h = [p \in Blocks |-> h[p]] /\ \A p \in Blocks : GoodValue(h[p])

\* What a value has stays, unless it goes
SameInside(x, y) == y.type = "free" \/ (y.type = x.type /\ y.table = x.table /\ y.array = x.array)

\* The heap after some values were put
PutFrom(g, h) == Heaped(g) /\ \A p \in Blocks : SameInside(h[p], g[p])

\* A freed block has the shape of a value.
LEMMA FreeGood == GoodValue(Free)
  BY DEF GoodValue, ValueShape, TableShape, TableOf, ArrayShape, Free, NoTable, NoArray

\* The values that are to be put, and the heap
Puts(h, todo) == [heap |-> h, todo |-> todo]

PutsWith(x, h, todo) == [x EXCEPT !.heap = h, !.todo = todo]

\* Both are replaced.
LEMMA PutsChanged ==
    ASSUME NEW g, NEW q, NEW x, x = Puts(g, q), NEW h, NEW todo
    PROVE  PutsWith(x, h, todo) = Puts(h, todo)
  <1> DEFINE y == [x EXCEPT !.heap = h]
  <1>1. PutsWith(x, h, todo) = [y EXCEPT !.todo = todo]
    BY DEF PutsWith
  <1>2. y = Puts(h, q)
    BY DEF Puts
  <1> HIDE DEF y
  <1>3. [y EXCEPT !.todo = todo] = Puts(h, todo)
    BY <1>2 DEF Puts
  <1> QED  BY <1>1, <1>3

\* One value is counted down, or goes.
LEMMA PutStepKeeps ==
    ASSUME NEW x, x = Puts(x.heap, x.todo), NEW h, PutFrom(x.heap, h)
    PROVE  /\ PutStep(x) = Puts(PutStep(x).heap, PutStep(x).todo)
           /\ PutFrom(PutStep(x).heap, h)
  <1> DEFINE p == Head(x.todo)
             y == PutStep(x)
             left == [x EXCEPT !.todo = Tail(@), !.heap[p].refs = @ - 1]
             less == [x.heap EXCEPT ![p].refs = @ - 1]
  <1>1. left = Puts(less, Tail(x.todo))
    <2>1. left = [x EXCEPT !.todo = Tail(x.todo), !.heap = less]
      OBVIOUS
    <2> HIDE DEF left, less
    <2> QED  BY <2>1 DEF Puts
  <1>2. /\ y = Puts(y.heap, y.todo)
        /\ y.heap = x.heap \/ y.heap = less \/ y.heap = [less EXCEPT ![p] = Free]
    <2> DEFINE gone == [less EXCEPT ![p] = Free]
               more == Tail(x.todo) \o Inside(x.heap[p])
    <2>1. [left EXCEPT !.heap[p] = Free, !.todo = @ \o Inside(x.heap[p])] = Puts(gone, more)
      <3> HIDE DEF left, less, p
      <3>1. left.heap = less /\ left.todo = Tail(x.todo)
        BY <1>1 DEF Puts
      <3>2. [left EXCEPT !.heap[p] = Free, !.todo = @ \o Inside(x.heap[p])]
              = [left EXCEPT !.heap = gone, !.todo = more]
        BY <3>1
      <3>3. [left EXCEPT !.heap = gone, !.todo = more] = PutsWith(left, gone, more)
        BY DEF PutsWith
      <3> HIDE DEF gone, more
      <3>4. PutsWith(left, gone, more) = Puts(gone, more)
        BY <1>1, PutsChanged
      <3> QED  BY <3>2, <3>3, <3>4
    <2>2. /\ x.todo = <<>> => y = x
          /\ x.todo # <<>> /\ p = NULL => y = [x EXCEPT !.todo = Tail(@)]
          /\ x.todo # <<>> /\ p # NULL /\ x.heap[p].refs > 1 => y = left
          /\ x.todo # <<>> /\ p # NULL /\ ~ (x.heap[p].refs > 1)
               => y = [left EXCEPT !.heap[p] = Free, !.todo = @ \o Inside(x.heap[p])]
      BY DEF PutStep
    <2>3. [x EXCEPT !.todo = Tail(@)] = Puts(x.heap, Tail(x.todo))
      <3> DEFINE q == Tail(x.todo)
      <3>1. [x EXCEPT !.todo = Tail(@)] = [x EXCEPT !.todo = q]
        OBVIOUS
      <3> HIDE DEF q
      <3>2. [x EXCEPT !.todo = q] = Puts(x.heap, q)
        BY DEF Puts
      <3> QED  BY <3>1, <3>2 DEF q
    <2>4. \A a, q : Puts(a, q).heap = a /\ Puts(a, q).todo = q
      BY DEF Puts
    <2> HIDE DEF y, p, left, less, gone, more
    <2>5. \/ y = x \/ y = Puts(x.heap, Tail(x.todo)) \/ y = Puts(less, Tail(x.todo))
          \/ y = Puts(gone, more)
      BY <1>1, <2>1, <2>2, <2>3
    <2> QED  BY <2>4, <2>5 DEF gone
  <1>3. x.heap = [q \in Blocks |-> x.heap[q]]
    BY DEF PutFrom, Heaped
  <1>4. PutFrom(less, h)
    <2>1. less = [q \in Blocks |-> less[q]]
      BY <1>3
    <2>2. \A q \in Blocks : /\ q # p => less[q] = x.heap[q]
                            /\ q = p => less[q] = [x.heap[q] EXCEPT !.refs = @ - 1]
      BY <1>3
    <2> HIDE DEF less
    <2>3. ASSUME NEW q \in Blocks PROVE GoodValue(less[q]) /\ SameInside(h[q], less[q])
      <3>1. GoodValue(x.heap[q]) /\ SameInside(h[q], x.heap[q])
        BY DEF PutFrom, Heaped
      <3>2. CASE q # p
        BY <2>2, <3>1, <3>2
      <3>3. CASE q = p
        <4> DEFINE a == x.heap[q]
                   b == less[q]
        <4>1. /\ b = [type |-> b.type, refs |-> b.refs, table |-> b.table, array |-> b.array]
              /\ b.type = a.type /\ b.table = a.table /\ b.array = a.array
          BY <2>2, <3>1, <3>3 DEF GoodValue, ValueShape
        <4> HIDE DEF a, b
        <4>2. GoodValue(b)
          BY <3>1, <4>1 DEF GoodValue, ValueShape, a
        <4>3. SameInside(h[q], b)
          <5>1. SameInside(h[q], a)
            BY <3>1 DEF a
          <5> QED  BY <4>1, <5>1 DEF SameInside
        <4> QED  BY <4>2, <4>3 DEF b
      <3> QED  BY <3>2, <3>3
    <2> QED  BY <2>1, <2>3 DEF PutFrom, Heaped
  <1>5. PutFrom([less EXCEPT ![p] = Free], h)
    <2> HIDE DEF less
    <2>1. less = [q \in Blocks |-> less[q]]
      BY <1>4 DEF PutFrom, Heaped
    <2> DEFINE gone == [less EXCEPT ![p] = Free]
    <2>2. gone = [q \in Blocks |-> gone[q]]
      BY <2>1
    <2>3. \A q \in Blocks : gone[q] = IF q = p THEN Free ELSE less[q]
      BY <2>1
    <2> HIDE DEF gone
    <2>4. \A q \in Blocks : GoodValue(gone[q]) /\ SameInside(h[q], gone[q])
      <3>1. Free.type = "free"
        BY DEF Free
      <3> QED  BY <1>4, <2>3, <3>1, FreeGood DEF PutFrom, Heaped, SameInside
    <2>5. PutFrom(gone, h)
      BY <2>2, <2>4 DEF PutFrom, Heaped
    <2> QED  BY <2>5 DEF gone
  <1> HIDE DEF y
  <1> QED  BY <1>2, <1>4, <1>5 DEF y

\* What json_object_put() goes through, value by value
PutsFollow(f, x, n) == f = [i \in 0 .. n |-> IF i = 0 THEN x ELSE PutStep(f[i - 1])]

\* There is such a function of the values.
LEMMA PutsExist ==
    ASSUME NEW x, NEW n \in Nat
    PROVE  \E f : PutsFollow(f, x, n)
  <1> DEFINE F(f, k) == f = [i \in 0 .. k |-> IF i = 0 THEN x ELSE PutStep(f[i - 1])]
             S == {k \in Nat : \E f : F(f, k)}
  <1>1. 0 \in S
    <2> DEFINE f == [i \in 0 .. 0 |-> x]
    <2>1. F(f, 0)
      OBVIOUS
    <2> QED  BY <2>1
  <1>2. ASSUME NEW k \in Nat, k \in S PROVE k + 1 \in S
    <2>1. PICK f : F(f, k)
      BY <1>2
    <2> DEFINE h == [i \in 0 .. k + 1 |-> IF i <= k THEN f[i] ELSE PutStep(f[k])]
    <2>2. ASSUME NEW i \in 0 .. k + 1 PROVE h[i] = IF i = 0 THEN x ELSE PutStep(h[i - 1])
      <3>1. CASE i = 0
        BY <2>1, <3>1
      <3>2. CASE i # 0 /\ i <= k
        <4>1. i \in 0 .. k /\ i - 1 \in 0 .. k + 1 /\ i - 1 <= k
          BY <3>2
        <4>2. f[i] = PutStep(f[i - 1])
          BY <2>1, <3>2, <4>1
        <4> QED  BY <3>2, <4>1, <4>2
      <3>3. CASE i = k + 1
        <4>1. ~ (i <= k) /\ i - 1 = k /\ k \in 0 .. k + 1 /\ i # 0
          BY <3>3
        <4> QED  BY <3>3, <4>1
      <3> QED  BY <3>1, <3>2, <3>3
    <2>3. F(h, k + 1)
      <3>1. h = [i \in 0 .. k + 1 |-> h[i]]
        OBVIOUS
      <3> HIDE DEF h
      <3> QED  BY <2>2, <3>1
    <2> HIDE DEF F
    <2> QED  BY <2>3
  <1> HIDE DEF S
  <1>3. n \in S
    BY <1>1, <1>2, AllNaturals
  <1> QED  BY <1>3 DEF S, PutsFollow

\* json_object_put() changes nothing in the values that stay.
LEMMA PutAllKeeps ==
    ASSUME NEW h, Heaped(h), NEW todo
    PROVE  PutFrom(PutAll(h, todo), h)
  <1> DEFINE n == Cardinality(Blocks) * (TopSize + MaxIndex + 2)
             x == [heap |-> h, todo |-> todo]
             after == CHOOSE f : PutsFollow(f, x, n)
             S == {i \in 0 .. n : after[i] = Puts(after[i].heap, after[i].todo)
                                  /\ PutFrom(after[i].heap, h)}
  <1>1. n \in Nat
    <2>1. Cardinality(Blocks) \in Nat
      BY JsonStoreAssumption, FS_CardinalityType
    <2>2. PICK a \in Nat, b \in Nat : a = Cardinality(Blocks) /\ b = TopSize + MaxIndex + 2
      BY <2>1, JsonStoreAssumption
    <2> QED  BY <2>2
  <1>2. PutAll(h, todo) = after[n].heap
    BY DEF PutAll, Steps, PutsFollow
  <1> HIDE DEF n
  <1>3. PutsFollow(after, x, n)
    BY <1>1, PutsExist
  <1> HIDE DEF after
  <1>4. \A i \in 0 .. n : after[i] = IF i = 0 THEN x ELSE PutStep(after[i - 1])
    <2> HIDE DEF x
    <2> QED  BY <1>3 DEF PutsFollow
  <1>5. 0 \in S
    <2>1. 0 \in 0 .. n /\ after[0] = Puts(h, todo)
      BY <1>1, <1>4 DEF Puts
    <2>2. after[0].heap = h /\ after[0].todo = todo
      BY <2>1 DEF Puts
    <2>3. PutFrom(h, h)
      BY DEF PutFrom, SameInside
    <2> QED  BY <2>1, <2>2, <2>3
  <1>6. ASSUME NEW i \in 1 .. n, i - 1 \in S PROVE i \in S
    <2>1. i \in 0 .. n /\ after[i] = PutStep(after[i - 1])
      BY <1>1, <1>4
    <2>2. PICK y : y = after[i - 1]
      OBVIOUS
    <2>3. y = Puts(y.heap, y.todo) /\ PutFrom(y.heap, h)
      BY <1>6, <2>2
    <2>4. PutStep(y) = Puts(PutStep(y).heap, PutStep(y).todo) /\ PutFrom(PutStep(y).heap, h)
      BY <2>3, PutStepKeeps
    <2> QED  BY <2>1, <2>2, <2>4
  <1> HIDE DEF S
  <1>7. n \in S
    BY <1>1, <1>5, <1>6, ByTurns
  <1> QED  BY <1>2, <1>7 DEF S

-----------------------------------------------------------------------------
(***************************************************************************)
(* The operations.                                                         *)
(***************************************************************************)
\* A value on the heap may be replaced by a good one.
LEMMA HeapSet ==
    ASSUME NEW h, Heaped(h), NEW p \in Blocks, NEW x, GoodValue(x)
    PROVE  Heaped([h EXCEPT ![p] = x])
  <1> DEFINE g == [h EXCEPT ![p] = x]
  <1>1. g = [q \in Blocks |-> g[q]] /\ \A q \in Blocks : g[q] = IF q = p THEN x ELSE h[q]
    BY DEF Heaped
  <1> HIDE DEF g
  <1>2. Heaped(g)
    BY <1>1 DEF Heaped
  <1> QED  BY <1>2 DEF g

\* So may its table, and its array.
LEMMA PartSet ==
    ASSUME NEW h, Heaped(h), NEW p \in Blocks
    PROVE  /\ \A t : TableShape(t) /\ (h[p].type = "object" => GoodTable(t))
                       => Heaped([h EXCEPT ![p].table = t])
           /\ \A a : ArrayShape(a) /\ (h[p].type = "array" => GoodArray(a))
                       => Heaped([h EXCEPT ![p].array = a])
           /\ \A r : Heaped([h EXCEPT ![p].refs = r])
  <1> DEFINE x == h[p]
  <1>1. GoodValue(x)
    BY DEF Heaped
  <1>2. ASSUME NEW t, TableShape(t), x.type = "object" => GoodTable(t)
        PROVE  Heaped([h EXCEPT ![p].table = t])
    <2> DEFINE y == [x EXCEPT !.table = t]
    <2>1. [h EXCEPT ![p].table = t] = [h EXCEPT ![p] = y]
      OBVIOUS
    <2> HIDE DEF x
    <2>2. /\ y = [type |-> y.type, refs |-> y.refs, table |-> y.table, array |-> y.array]
          /\ y.type = x.type /\ y.table = t /\ y.array = x.array
      BY <1>1 DEF GoodValue, ValueShape
    <2> HIDE DEF y
    <2>3. GoodValue(y)
      BY <1>1, <1>2, <2>2 DEF GoodValue, ValueShape
    <2>4. Heaped([h EXCEPT ![p] = y])
      BY <2>3, HeapSet
    <2> QED  BY <2>1, <2>4
  <1>3. ASSUME NEW a, ArrayShape(a), x.type = "array" => GoodArray(a)
        PROVE  Heaped([h EXCEPT ![p].array = a])
    <2> DEFINE y == [x EXCEPT !.array = a]
    <2>1. [h EXCEPT ![p].array = a] = [h EXCEPT ![p] = y]
      OBVIOUS
    <2> HIDE DEF x
    <2>2. /\ y = [type |-> y.type, refs |-> y.refs, table |-> y.table, array |-> y.array]
          /\ y.type = x.type /\ y.table = x.table /\ y.array = a
      BY <1>1 DEF GoodValue, ValueShape
    <2> HIDE DEF y
    <2>3. GoodValue(y)
      BY <1>1, <1>3, <2>2 DEF GoodValue, ValueShape
    <2>4. Heaped([h EXCEPT ![p] = y])
      BY <2>3, HeapSet
    <2> QED  BY <2>1, <2>4
  <1>4. ASSUME NEW r PROVE Heaped([h EXCEPT ![p].refs = r])
    <2> DEFINE y == [x EXCEPT !.refs = r]
    <2>1. [h EXCEPT ![p].refs = r] = [h EXCEPT ![p] = y]
      OBVIOUS
    <2> HIDE DEF x
    <2>2. /\ y = [type |-> y.type, refs |-> y.refs, table |-> y.table, array |-> y.array]
          /\ y.type = x.type /\ y.table = x.table /\ y.array = x.array
      BY <1>1 DEF GoodValue, ValueShape
    <2> HIDE DEF y
    <2>3. GoodValue(y)
      BY <1>1, <2>2 DEF GoodValue, ValueShape
    <2>4. Heaped([h EXCEPT ![p] = y])
      BY <2>3, HeapSet
    <2> QED  BY <2>1, <2>4
  <1> QED  BY <1>2, <1>3, <1>4

\* The shape of a table stays when a value is replaced or an entry deleted.
LEMMA ShapesStay ==
    ASSUME NEW t, TableShape(t), NEW n, NEW val
    PROVE  TableShape([t EXCEPT !.v[n] = val]) /\ TableShape(TableDelete(t, n))
  <1>1. TableShape([t EXCEPT !.v[n] = val])
    <2> DEFINE v == [t.v EXCEPT ![n] = val]
               w == [t EXCEPT !.v[n] = val]
    <2>1. t = TableOf(t.size, t.k, t.v, t.order, t.count)
      BY DEF TableShape
    <2>2. w = [t EXCEPT !.v = v]
      OBVIOUS
    <2> HIDE DEF v, w
    <2>3. w = TableOf(t.size, t.k, v, t.order, t.count)
      BY <2>1, <2>2 DEF TableOf
    <2>4. TableShape(w)
      BY <2>3, TableParts
    <2> QED  BY <2>4 DEF w
  <1>2. TableShape(TableDelete(t, n))
    <2> DEFINE k == [t.k EXCEPT ![n] = FREED]
               v == [t.v EXCEPT ![n] = NULL]
               w == TableDelete(t, n)
               count == t.count - 1
    <2>1. w = Changed(t, k, v, Unlinked(t, n), count)
      BY DEF TableDelete, Changed
    <2> HIDE DEF w, k, v, count
    <2>2. w = TableOf(t.size, k, v, Unlinked(t, n), count)
      BY <2>1, ChangedTable
    <2>3. TableShape(w)
      BY <2>2, TableParts
    <2> QED  BY <2>3 DEF w
  <1> QED  BY <1>1, <1>2

\* The room of an array
ArrayOf(size, list) == [size |-> size, list |-> list]

\* An array grows by as much as is asked for.
LEMMA ExpandGood ==
    ASSUME NEW a, ArrayShape(a), NEW max
    PROVE  /\ ArrayShape(Expand(a, max)) /\ Expand(a, max).list = a.list
           /\ GoodArray(a) /\ max \in Nat
                => Expand(a, max).size \in Nat /\ max <= Expand(a, max).size
                   /\ a.size <= Expand(a, max).size
  <1> DEFINE size == IF 2 * a.size < max THEN max ELSE 2 * a.size
             b == [a EXCEPT !.size = size]
  <1>1. Expand(a, max) = IF max < a.size THEN a ELSE b
    BY DEF Expand
  <1>2. ArrayShape(b) /\ b.list = a.list /\ b.size = size
    <2> HIDE DEF size
    <2> QED  BY DEF ArrayShape
  <1> HIDE DEF b
  <1>3. ASSUME GoodArray(a), max \in Nat
        PROVE  Expand(a, max).size \in Nat /\ max <= Expand(a, max).size
               /\ a.size <= Expand(a, max).size
    <2>1. a.size \in Nat
      BY <1>3 DEF GoodArray
    <2>2. size \in Nat /\ max <= size /\ a.size <= size
      BY <1>3, <2>1
    <2> HIDE DEF size
    <2> QED  BY <1>1, <1>2, <1>3, <2>1, <2>2
  <1> QED  BY <1>1, <1>2, <1>3

\* A value that is put into an array has room.
LEMMA ArrayPutGood ==
    ASSUME NEW a, ArrayShape(a), NEW idx \in Nat, NEW val \in Nat
    PROVE  /\ ArrayShape(ArrayPut(a, idx, val))
           /\ GoodArray(a) => GoodArray(ArrayPut(a, idx, val))
  <1> DEFINE b == Expand(a, idx + 1)
             n == IF Len(b.list) <= idx THEN idx + 1 ELSE Len(b.list)
             list == [i \in 1 .. n |-> IF i = idx + 1 THEN val
                                       ELSE IF i <= Len(b.list) THEN b.list[i] ELSE NULL]
             w == ArrayPut(a, idx, val)
  <1>1. w = [b EXCEPT !.list = list]
    BY DEF ArrayPut
  <1>2. idx + 1 \in Nat
    OBVIOUS
  <1>3. /\ ArrayShape(b) /\ b.list = a.list
        /\ GoodArray(a) => b.size \in Nat /\ idx + 1 <= b.size /\ a.size <= b.size
    BY <1>2, ExpandGood
  <1> HIDE DEF b, list, w
  <1>4. ArrayShape(w) /\ w.size = b.size /\ w.list = list
    BY <1>1, <1>3 DEF ArrayShape
  <1>5. ASSUME GoodArray(a) PROVE GoodArray(w)
    <2>1. /\ b.list \in Seq(Nat) /\ Len(b.list) \in Nat /\ Len(b.list) <= b.size
          /\ b.size \in Nat /\ idx + 1 <= b.size
      BY <1>3, <1>5 DEF GoodArray
    <2>2. n \in Nat /\ n <= b.size
      BY <2>1
    <2> HIDE DEF n
    <2>3. list \in Seq(Nat) /\ Len(list) = n
      <3>1. \A i \in 1 .. n : i <= Len(b.list) => b.list[i] \in Nat
        BY <2>1
      <3>2. list \in [1 .. n -> Nat]
        BY <3>1 DEF list, NULL
      <3> QED  BY <2>2, <3>2
    <2> QED  BY <1>4, <2>1, <2>2, <2>3 DEF GoodArray
  <1> QED  BY <1>4, <1>5 DEF w

\* An array that loses values is shorter.
LEMMA ArrayCutGood ==
    ASSUME NEW a, ArrayShape(a), NEW idx \in Nat, NEW count \in Nat
    PROVE  /\ ArrayShape(ArrayCut(a, idx, count))
           /\ GoodArray(a) /\ idx + count <= Len(a.list) => GoodArray(ArrayCut(a, idx, count))
  <1> DEFINE q == a.list
             l == SubSeq(q, 1, idx)
             r == SubSeq(q, idx + count + 1, Len(q))
             list == l \o r
             w == ArrayCut(a, idx, count)
  <1>1. w = [a EXCEPT !.list = list]
    BY DEF ArrayCut
  <1> HIDE DEF list, w
  <1>2. ArrayShape(w) /\ w.size = a.size /\ w.list = list
    BY <1>1 DEF ArrayShape
  <1>3. ASSUME GoodArray(a), idx + count <= Len(q) PROVE GoodArray(w)
    <2>1. q \in Seq(Nat) /\ a.size \in Nat /\ Len(q) <= a.size
      BY <1>3 DEF GoodArray
    <2>2. PICK n \in Nat : n = Len(q)
      BY <2>1
    <2> HIDE DEF q
    <2>3. l \in Seq(Nat) /\ Len(l) = idx
      BY <1>3, <2>1, <2>2
    <2>4. r \in Seq(Nat) /\ Len(r) = n - (idx + count)
      BY <1>3, <2>1, <2>2
    <2> HIDE DEF l, r
    <2>5. list \in Seq(Nat) /\ Len(list) = idx + (n - (idx + count))
      BY <2>3, <2>4 DEF list
    <2> QED  BY <1>2, <2>1, <2>2, <2>5 DEF GoodArray
  <1> QED  BY <1>2, <1>3 DEF w

\* An array that is shrunk keeps room for its values.
LEMMA ShrinkGood ==
    ASSUME NEW a, GoodArray(a), NEW empty \in Nat
    PROVE  GoodArray(ArrayShrink(a, empty))
  <1> DEFINE n == Len(a.list) + empty
             size == IF n = 0 THEN 1 ELSE n
             b == [a EXCEPT !.size = size]
             c == Expand(a, n)
  <1>1. /\ ArrayShape(a) /\ a.size \in Nat /\ a.list \in Seq(Nat) /\ Len(a.list) <= a.size
        /\ Len(a.list) \in Nat
    BY DEF GoodArray
  <1>2. ArrayShrink(a, empty) = IF n > a.size THEN c ELSE b
    BY DEF ArrayShrink
  <1>3. n \in Nat /\ Len(a.list) <= n /\ size \in Nat /\ Len(a.list) <= size
    BY <1>1
  <1> HIDE DEF n
  <1>4. ArrayShape(c) /\ c.list = a.list /\ c.size \in Nat /\ a.size <= c.size
    BY <1>1, <1>3, ExpandGood
  <1> HIDE DEF c, size
  <1>5. ArrayShape(b) /\ b.list = a.list /\ b.size = size
    BY <1>1 DEF ArrayShape
  <1> HIDE DEF b
  <1>6. GoodArray(c)
    BY <1>1, <1>4 DEF GoodArray
  <1>7. GoodArray(b)
    BY <1>1, <1>3, <1>5 DEF GoodArray
  <1> QED  BY <1>2, <1>6, <1>7

\* The numbers of the values, and the types
LEMMA StoreSizes ==
    /\ Blocks \subseteq Nat /\ MaxIndex \in Nat /\ NULL \in Nat
    /\ TableSize \in 1 .. TopSize /\ ArraySize \in Nat
  BY JsonStoreAssumption DEF NULL

\* json_object_new()
LEMMA NewKeeps ==
    ASSUME Heaped(heap), NEW p \in Blocks, NEW type, New(p, type)
    PROVE  Heaped(heap')
  <1> DEFINE tab == IF type = "object" THEN TableNew(TableSize) ELSE NoTable
             array == IF type = "array" THEN [size |-> ArraySize, list |-> <<>>] ELSE NoArray
             x == [type |-> type, refs |-> 1, table |-> tab, array |-> array]
  <1>1. heap' = [heap EXCEPT ![p] = x]
    BY DEF New
  <1>2. GoodTable(TableNew(TableSize))
    BY StoreSizes, NewGood
  <1>3. TableShape(tab) /\ (type = "object" => GoodTable(tab))
    <2>1. TableShape(NoTable)
      BY DEF TableShape, TableOf, NoTable
    <2> QED  BY <1>2, <2>1 DEF GoodTable, TableTyped
  <1>4. ArrayShape(array) /\ (type = "array" => GoodArray(array))
    <2>1. Len(<<>>) = 0 /\ <<>> \in Seq(Nat)
      OBVIOUS
    <2> QED  BY <2>1, StoreSizes DEF ArrayShape, GoodArray, NoArray
  <1> HIDE DEF tab, array
  <1>5. GoodValue(x)
    BY <1>3, <1>4 DEF GoodValue, ValueShape
  <1> HIDE DEF x
  <1>6. Heaped([heap EXCEPT ![p] = x])
    BY <1>5, HeapSet
  <1> QED  BY <1>1, <1>6

\* json_object_object_add_ex()
LEMMA ObjectAddKeeps ==
    ASSUME Heaped(heap), NEW p \in Live("object"), NEW key \in Keys,
           NEW val \in {NULL} \cup Blocks, NEW nomem, ObjectAdd(p, key, val, nomem)
    PROVE  Heaped(heap')
  <1> DEFINE t == heap[p].table
             n == TableLookup(t, key)
             new == TableInsert(t, key, val, nomem)
             g == Replaced(heap, t.v[n])
  <1>1. p \in Blocks /\ heap[p].type = "object" /\ val \in Nat
    BY StoreSizes DEF Live
  <1>2. GoodTable(t) /\ GoodValue(heap[p])
    BY <1>1 DEF Heaped, GoodValue
  <1>3. CASE n # -1
    <2>1. heap' = [g EXCEPT ![p].table.v[n] = val]
      BY <1>3 DEF ObjectAdd
    <2>2. PutFrom(g, heap)
      BY PutAllKeeps DEF Replaced
    <2> HIDE DEF g, n
    <2> DEFINE w == [g[p].table EXCEPT !.v[n] = val]
    <2>3. heap' = [g EXCEPT ![p].table = w]
      BY <2>1
    <2>4. Heaped(g) /\ GoodValue(g[p]) /\ SameInside(heap[p], g[p])
      BY <1>1, <2>2 DEF PutFrom, Heaped
    <2>5. TableShape(w)
      BY <2>4, ShapesStay DEF GoodValue
    <2>6. ASSUME g[p].type = "object" PROVE GoodTable(w)
      <3>1. g[p].table = t
        BY <2>4, <2>6 DEF SameInside
      <3>2. GoodTable(g[p].table)
        BY <1>2, <3>1
      <3> QED  BY <1>1, <3>2, ReplaceGood
    <2> HIDE DEF w
    <2>7. Heaped([g EXCEPT ![p].table = w])
      BY <1>1, <2>4, <2>5, <2>6, PartSet
    <2> QED  BY <2>3, <2>7
  <1>4. CASE ~ (n # -1) /\ new = <<>>
    BY <1>4 DEF ObjectAdd, jvars
  <1>5. CASE ~ (n # -1) /\ new # <<>>
    <2>1. heap' = [heap EXCEPT ![p].table = new[1]]
      BY <1>5 DEF ObjectAdd
    <2>2. ~ HasKey(t, key)
      <3> SUFFICES ASSUME HasKey(t, key) PROVE FALSE
        OBVIOUS
      <3>1. PICK m \in Places(t) : t.k[m] = key
        BY DEF HasKey
      <3>2. TableLookup(t, key) = m
        BY <1>2, <3>1, LookupFinds
      <3>3. m # -1
        BY DEF Places
      <3> QED  BY <1>5, <3>2, <3>3
    <2> HIDE DEF t
    <2>3. GoodTable(new[1])
      BY <1>1, <1>2, <1>5, <2>2, InsertGood
    <2>4. TableShape(new[1])
      BY <2>3 DEF GoodTable, TableTyped
    <2> HIDE DEF new
    <2>5. Heaped([heap EXCEPT ![p].table = new[1]])
      BY <1>1, <2>3, <2>4, PartSet
    <2> QED  BY <2>1, <2>5
  <1> QED  BY <1>3, <1>4, <1>5

\* json_object_object_del()
LEMMA ObjectDelKeeps ==
    ASSUME Heaped(heap), NEW p \in Live("object"), NEW key \in Keys, ObjectDel(p, key)
    PROVE  Heaped(heap')
  <1> DEFINE t == heap[p].table
             n == TableLookup(t, key)
             g == PutAll(heap, <<t.v[n]>>)
             w == TableDelete(g[p].table, n)
  <1>1. p \in Blocks /\ heap[p].type = "object"
    BY DEF Live
  <1>2. GoodTable(t)
    BY <1>1 DEF Heaped, GoodValue
  <1>3. n # -1 /\ heap' = [g EXCEPT ![p].table = TableDelete(@, n)]
    BY DEF ObjectDel
  <1>4. n \in Places(t) /\ t.k[n] = key
    <2>1. HasKey(t, key)
      BY <1>2, <1>3, LookupFinds
    <2>2. PICK m \in Places(t) : t.k[m] = key
      BY <2>1 DEF HasKey
    <2>3. n = m
      BY <1>2, <2>2, LookupFinds
    <2> QED  BY <2>2, <2>3
  <1>5. PutFrom(g, heap)
    BY PutAllKeeps
  <1> HIDE DEF g, n
  <1>6. heap' = [g EXCEPT ![p].table = w]
    BY <1>3
  <1>7. Heaped(g) /\ GoodValue(g[p]) /\ SameInside(heap[p], g[p])
    BY <1>1, <1>5 DEF PutFrom, Heaped
  <1>8. TableShape(w)
    BY <1>7, ShapesStay DEF GoodValue
  <1>9. ASSUME g[p].type = "object" PROVE GoodTable(w)
    <2>1. g[p].table = t
      BY <1>7, <1>9 DEF SameInside
    <2> HIDE DEF t
    <2>2. GoodTable(TableDelete(t, n))
      BY <1>2, <1>4, DeleteGood
    <2> QED  BY <2>1, <2>2
  <1> HIDE DEF w
  <1>10. Heaped([g EXCEPT ![p].table = w])
    BY <1>1, <1>7, <1>8, <1>9, PartSet
  <1> QED  BY <1>6, <1>10

\* json_object_array_put_idx()
LEMMA ArrayPutKeeps ==
    ASSUME Heaped(heap), NEW p \in Live("array"), NEW idx \in 0 .. MaxIndex,
           NEW val \in {NULL} \cup Blocks, NEW nomem, ArrayPutIdx(p, idx, val, nomem)
    PROVE  Heaped(heap')
  <1> DEFINE a == heap[p].array
             old == IF idx < Len(a.list) THEN a.list[idx + 1] ELSE NULL
             g == Replaced(heap, old)
             w == ArrayPut(g[p].array, idx, val)
  <1>1. p \in Blocks /\ heap[p].type = "array" /\ val \in Nat /\ idx \in Nat
    BY StoreSizes DEF Live
  <1>2. GoodArray(a)
    BY <1>1 DEF Heaped, GoodValue
  <1>3. CASE nomem /\ idx + 1 >= a.size
    BY <1>3 DEF ArrayPutIdx, jvars
  <1>4. CASE ~ (nomem /\ idx + 1 >= a.size)
    <2>1. heap' = [g EXCEPT ![p].array = ArrayPut(@, idx, val)]
      BY <1>4 DEF ArrayPutIdx
    <2>2. PutFrom(g, heap)
      BY PutAllKeeps DEF Replaced
    <2> HIDE DEF g
    <2>3. heap' = [g EXCEPT ![p].array = w]
      BY <2>1
    <2>4. Heaped(g) /\ GoodValue(g[p]) /\ SameInside(heap[p], g[p])
      BY <1>1, <2>2 DEF PutFrom, Heaped
    <2>5. ArrayShape(g[p].array) /\ (g[p].type = "array" => g[p].array = a)
      BY <2>4 DEF GoodValue, SameInside
    <2>6. ArrayShape(w) /\ (g[p].type = "array" => GoodArray(w))
      BY <1>1, <1>2, <2>5, ArrayPutGood
    <2> HIDE DEF w
    <2>7. Heaped([g EXCEPT ![p].array = w])
      BY <1>1, <2>4, <2>6, PartSet
    <2> QED  BY <2>3, <2>7
  <1> QED  BY <1>3, <1>4

\* json_object_array_del_idx()
LEMMA ArrayDelKeeps ==
    ASSUME Heaped(heap), NEW p \in Live("array"), NEW idx \in 0 .. MaxIndex,
           NEW count \in 1 .. 2, ArrayDelIdx(p, idx, count)
    PROVE  Heaped(heap')
  <1> DEFINE a == heap[p].array
             g == PutAll(heap, SubSeq(a.list, idx + 1, idx + count))
             w == ArrayCut(g[p].array, idx, count)
  <1>1. p \in Blocks /\ heap[p].type = "array" /\ count \in Nat /\ idx \in Nat
    BY StoreSizes DEF Live
  <1>2. GoodArray(a)
    BY <1>1 DEF Heaped, GoodValue
  <1>3. /\ idx + count <= Len(a.list)
        /\ heap' = [g EXCEPT ![p].array = ArrayCut(@, idx, count)]
    BY DEF ArrayDelIdx
  <1>4. PutFrom(g, heap)
    BY PutAllKeeps
  <1> HIDE DEF g
  <1>5. heap' = [g EXCEPT ![p].array = w]
    BY <1>3
  <1>6. Heaped(g) /\ GoodValue(g[p]) /\ SameInside(heap[p], g[p])
    BY <1>1, <1>4 DEF PutFrom, Heaped
  <1>7. ArrayShape(g[p].array) /\ (g[p].type = "array" => g[p].array = a)
    BY <1>6 DEF GoodValue, SameInside
  <1>8. ArrayShape(w) /\ (g[p].type = "array" => GoodArray(w))
    BY <1>1, <1>2, <1>3, <1>7, ArrayCutGood
  <1> HIDE DEF w
  <1>9. Heaped([g EXCEPT ![p].array = w])
    BY <1>1, <1>6, <1>8, PartSet
  <1> QED  BY <1>5, <1>9

\* json_object_array_shrink()
LEMMA ShrinkKeeps ==
    ASSUME Heaped(heap), NEW p \in Live("array"), NEW empty \in 0 .. MaxIndex, Shrink(p, empty)
    PROVE  Heaped(heap')
  <1> DEFINE w == ArrayShrink(heap[p].array, empty)
  <1>1. p \in Blocks /\ heap[p].type = "array" /\ empty \in Nat
    BY StoreSizes DEF Live
  <1>2. GoodArray(heap[p].array)
    BY <1>1 DEF Heaped, GoodValue
  <1>3. heap' = [heap EXCEPT ![p].array = w]
    BY DEF Shrink
  <1>4. GoodArray(w)
    BY <1>1, <1>2, ShrinkGood
  <1> HIDE DEF w
  <1>5. Heaped([heap EXCEPT ![p].array = w])
    BY <1>1, <1>4, PartSet DEF GoodArray
  <1> QED  BY <1>3, <1>5

\* No step leaves a table or an array that is not good.
LEMMA NextHeaped == Heaped(heap) /\ [JNext]_jvars => Heaped(heap')
  <1> SUFFICES ASSUME Heaped(heap), [JNext]_jvars PROVE Heaped(heap')
    OBVIOUS
  <1>1. ASSUME NEW p \in Blocks, New(p, TypeOf[p]) PROVE Heaped(heap')
    BY <1>1, NewKeeps
  <1>2. ASSUME NEW p \in Blocks, Get(p) PROVE Heaped(heap')
    <2> DEFINE r == heap[p].refs + 1
    <2>1. heap' = [heap EXCEPT ![p].refs = r]
      BY <1>2 DEF Get
    <2> HIDE DEF r
    <2>2. Heaped([heap EXCEPT ![p].refs = r])
      BY PartSet
    <2> QED  BY <2>1, <2>2
  <1>3. ASSUME NEW p \in Blocks, Put(p) PROVE Heaped(heap')
    <2>1. heap' = PutAll(heap, <<p>>)
      BY <1>3 DEF Put
    <2>2. PutFrom(PutAll(heap, <<p>>), heap)
      BY PutAllKeeps
    <2> QED  BY <2>1, <2>2 DEF PutFrom
  <1>4. ASSUME NEW p \in Live("object"), NEW key \in Keys, NEW val \in {NULL} \cup Blocks,
               NEW nomem \in BOOLEAN, ObjectAdd(p, key, val, nomem)
        PROVE  Heaped(heap')
    BY <1>4, ObjectAddKeeps
  <1>5. ASSUME NEW p \in Live("object"), NEW key \in Keys, ObjectDel(p, key) PROVE Heaped(heap')
    BY <1>5, ObjectDelKeeps
  <1>6. ASSUME NEW p \in Live("array"), NEW idx \in 0 .. MaxIndex, NEW val \in {NULL} \cup Blocks,
               NEW nomem \in BOOLEAN, ArrayPutIdx(p, idx, val, nomem)
        PROVE  Heaped(heap')
    BY <1>6, ArrayPutKeeps
  <1>7. ASSUME NEW p \in Live("array"), NEW idx \in 0 .. MaxIndex, NEW count \in 1 .. 2,
               ArrayDelIdx(p, idx, count)
        PROVE  Heaped(heap')
    BY <1>7, ArrayDelKeeps
  <1>8. ASSUME NEW p \in Live("array"), NEW idx \in 0 .. MaxIndex, Shrink(p, idx)
        PROVE  Heaped(heap')
    BY <1>8, ShrinkKeeps
  <1>9. CASE UNCHANGED jvars
    BY <1>9 DEF jvars
  <1> QED  BY <1>1, <1>2, <1>3, <1>4, <1>5, <1>6, <1>7, <1>8, <1>9 DEF JNext

\* Good tables find their keys.
LEMMA GoodFinds == Heaped(heap) => TableFinds
  <1> SUFFICES ASSUME Heaped(heap) PROVE TableFinds
    OBVIOUS
  <1>1. ASSUME NEW p \in Live("object"), NEW t, t = heap[p].table
        PROVE  /\ \A key \in Keys :
                    {n \in Range(t.order) : t.k[n] = key} = {TableLookup(t, key)} \ {-1}
               /\ t.count = Len(t.order) /\ IsInjective(t.order)
    <2>1. GoodTable(t)
      BY <1>1 DEF Live, Heaped, GoodValue
    <2>2. /\ t.count = Len(t.order) /\ t.order \in Seq(Places(t))
          /\ \A i, j \in 1 .. Len(t.order) : t.order[i] = t.order[j] => i = j
          /\ \A n \in Places(t) : t.k[n] \in Keys <=> \E i \in 1 .. Len(t.order) : t.order[i] = n
      BY <2>1 DEF GoodTable, TableTyped, ListTrue
    <2>3. DOMAIN t.order = 1 .. Len(t.order)
      BY <2>2
    <2>4. IsInjective(t.order)
      BY <2>2, <2>3 DEF IsInjective
    <2>5. \A n : n \in Range(t.order) <=> n \in Places(t) /\ t.k[n] \in Keys
      BY <2>2, <2>3 DEF Range
    <2>6. ASSUME NEW key \in Keys
          PROVE  {n \in Range(t.order) : t.k[n] = key} = {TableLookup(t, key)} \ {-1}
      <3>1. CASE HasKey(t, key)
        <4>1. PICK m \in Places(t) : t.k[m] = key
          BY <3>1 DEF HasKey
        <4>2. TableLookup(t, key) = m /\ m # -1
          BY <2>1, <4>1, LookupFinds DEF Places
        <4>3. \A n \in Places(t) : t.k[n] = key => TableLookup(t, key) = n
          BY <2>1, LookupFinds
        <4>4. \A n : (n \in Range(t.order) /\ t.k[n] = key) <=> n = m
          BY <2>5, <4>1, <4>2, <4>3
        <4> QED  BY <4>2, <4>4
      <3>2. CASE ~ HasKey(t, key)
        <4>1. TableLookup(t, key) = -1
          BY <2>1, <3>2, LookupFinds
        <4>2. \A n : ~ (n \in Range(t.order) /\ t.k[n] = key)
          BY <2>5, <3>2 DEF HasKey
        <4> QED  BY <4>1, <4>2
      <3> QED  BY <3>1, <3>2
    <2> QED  BY <2>2, <2>4, <2>6
  <1>2. ASSUME NEW p \in Live("array") PROVE Len(heap[p].array.list) <= heap[p].array.size
    BY <1>2 DEF Live, Heaped, GoodValue, GoodArray
  <1> QED  BY <1>1, <1>2 DEF TableFinds

\* After any insertions, deletions and growth, with memory running out anywhere, the
\* tables of json-c find exactly their keys, the counts are those of the lists, and
\* arrays fit in their memory (linkhash.c, arraylist.c).
THEOREM TablesFind == JSpec => []TableFinds
  <1>1. JInit => Heaped(heap)
    <2> SUFFICES ASSUME JInit PROVE Heaped(heap)
      OBVIOUS
    <2>1. heap = [p \in Blocks |-> Free]
      BY DEF JInit
    <2>2. \A p \in Blocks : heap[p] = Free
      BY <2>1
    <2>3. heap = [p \in Blocks |-> heap[p]]
      BY <2>1
    <2> QED  BY <2>2, <2>3, FreeGood DEF Heaped
  <1>2. Heaped(heap) /\ [JNext]_jvars => Heaped(heap)'
    BY NextHeaped DEF Heaped, GoodValue, GoodTable, TableTyped, ListTrue, KeysOnce, KeysMet, Met
  <1> QED  BY <1>1, <1>2, GoodFinds, PTL DEF JSpec

-----------------------------------------------------------------------------
(***************************************************************************)
(* json-c: the references are counted. First sums over the blocks, which   *)
(* the number of references to a value is one of.                          *)
(***************************************************************************)
Number == Cardinality(Blocks)

\* F are the partial sums of f
Adds(F, f) == /\ F \in [0 .. Number -> Nat] /\ F[0] = 0
              /\ \A p \in Blocks : F[p] = F[p - 1] + f[p]

SumOver(f) == (CHOOSE F : Adds(F, f))[Number]

\* The blocks have the numbers from 1 on.
LEMMA BlocksAre ==
    /\ Number \in Nat /\ Blocks = 1 .. Number /\ IsFiniteSet(Blocks) /\ Blocks \subseteq Nat
    /\ NULL \notin Blocks /\ \A p \in Blocks : p \in 0 .. Number /\ p - 1 \in 0 .. Number
  BY JsonStoreAssumption, FS_CardinalityType DEF Number, NULL

\* There are partial sums.
LEMMA AddsExist ==
    ASSUME NEW f \in [Blocks -> Nat]
    PROVE  \E F : Adds(F, f)
  <1> DEFINE g == [i \in Blocks |-> [m \in Nat |-> m + f[i]]]
  <1>1. Number \in Nat /\ Blocks = 1 .. Number
    BY BlocksAre
  <1>2. \A i \in 1 .. Number : g[i] \in [Nat -> Nat]
    BY <1>1
  <1>3. \A i \in 1 .. Number, m \in Nat : g[i][m] = m + f[i]
    BY <1>1
  <1> HIDE DEF g
  <1>4. PICK F : Iterates(F, Number, 0, g)
    BY <1>1, <1>2, IteratesExist
  <1>5. /\ F \in [0 .. Number -> Nat] /\ F[0] = 0
        /\ \A i \in 1 .. Number : F[i] = g[i][F[i - 1]] /\ F[i - 1] \in Nat
    <2>1. \A i \in 1 .. Number : i - 1 \in 0 .. Number
      BY <1>1
    <2> QED  BY <1>4, <2>1 DEF Iterates
  <1>6. Adds(F, f)
    BY <1>1, <1>3, <1>5 DEF Adds
  <1> QED  BY <1>6

\* The last of them is the sum.
LEMMA SumIs ==
    ASSUME NEW f \in [Blocks -> Nat]
    PROVE  /\ SumOver(f) \in Nat /\ \E F : Adds(F, f)
           /\ \A F : Adds(F, f) => F[Number] = SumOver(f)
  <1> DEFINE G == CHOOSE F : Adds(F, f)
  <1>1. Adds(G, f)
    BY AddsExist
  <1>2. SumOver(f) = G[Number]
    BY DEF SumOver
  <1> HIDE DEF G
  <1>3. Number \in Nat /\ Number \in 0 .. Number /\ 0 \in 0 .. Number /\ Blocks = 1 .. Number
    BY BlocksAre
  <1>4. ASSUME NEW F, Adds(F, f) PROVE F[Number] = G[Number]
    <2> DEFINE S == {i \in 0 .. Number : F[i] = G[i]}
    <2>1. 0 \in S
      BY <1>1, <1>3, <1>4 DEF Adds
    <2>2. \A i \in 1 .. Number : i - 1 \in S => i \in S
      BY <1>1, <1>3, <1>4 DEF Adds
    <2> HIDE DEF S
    <2>3. Number \in S
      BY <1>3, <2>1, <2>2, ByTurns
    <2> QED  BY <2>3 DEF S
  <1> QED  BY <1>1, <1>2, <1>3, <1>4 DEF Adds

\* One member changes.
LEMMA SumChange ==
    ASSUME NEW f \in [Blocks -> Nat], NEW g \in [Blocks -> Nat], NEW p \in Blocks,
           \A q \in Blocks : q # p => g[q] = f[q]
    PROVE  SumOver(g) + f[p] = SumOver(f) + g[p]
  <1>1. PICK F : Adds(F, f) /\ F[Number] = SumOver(f)
    BY SumIs
  <1>2. PICK G : Adds(G, g) /\ G[Number] = SumOver(g)
    BY SumIs
  <1>3. /\ Number \in Nat /\ Blocks = 1 .. Number /\ p \in 1 .. Number /\ f[p] \in Nat /\ g[p] \in Nat
        /\ 0 \in 0 .. Number
    BY BlocksAre
  <1> DEFINE S == {i \in 0 .. Number : /\ i < p => G[i] = F[i]
                                       /\ i >= p => G[i] + f[p] = F[i] + g[p]}
  <1>4. 0 \in S
    BY <1>1, <1>2, <1>3 DEF Adds
  <1>5. ASSUME NEW i \in 1 .. Number, i - 1 \in S PROVE i \in S
    <2>1. /\ F[i] = F[i - 1] + f[i] /\ G[i] = G[i - 1] + g[i]
          /\ F[i - 1] \in Nat /\ G[i - 1] \in Nat /\ f[i] \in Nat /\ g[i] \in Nat
      <3>1. i \in Blocks /\ i - 1 \in 0 .. Number
        BY <1>3
      <3> QED  BY <1>1, <1>2, <3>1 DEF Adds
    <2>2. i # p => g[i] = f[i]
      BY <1>3
    <2>3. PICK a \in Nat, b \in Nat, u \in Nat, v \in Nat :
             /\ a = F[i - 1] /\ b = G[i - 1] /\ u = f[p] /\ v = g[p]
             /\ F[i] = a + f[i] /\ G[i] = b + g[i] /\ f[i] \in Nat /\ g[i] \in Nat
      BY <1>3, <2>1
    <2>4. (i - 1 < p => b = a) /\ (i - 1 >= p => b + u = a + v)
      BY <1>5, <2>3
    <2>5. i \in Nat /\ p \in Nat /\ i \in 0 .. Number
      BY <1>3
    <2>6. CASE i < p
      BY <2>2, <2>3, <2>4, <2>5, <2>6
    <2>7. CASE i = p
      BY <2>3, <2>4, <2>5, <2>7
    <2>8. CASE i > p
      <3>1. i - 1 >= p /\ i # p /\ i >= p /\ ~ (i < p)
        BY <2>5, <2>8
      <3> QED  BY <2>2, <2>3, <2>4, <2>5, <3>1
    <2> QED  BY <2>5, <2>6, <2>7, <2>8
  <1> HIDE DEF S
  <1>6. Number \in S
    BY <1>3, <1>4, <1>5, ByTurns
  <1> QED  BY <1>1, <1>2, <1>3, <1>6 DEF S

\* A sum of n members none of which is more than c
LEMMA SumBound ==
    ASSUME NEW f \in [Blocks -> Nat], NEW c \in Nat, \A p \in Blocks : f[p] <= c
    PROVE  SumOver(f) <= Number * c
  <1>1. PICK F : Adds(F, f) /\ F[Number] = SumOver(f)
    BY SumIs
  <1>2. Number \in Nat /\ Blocks = 1 .. Number /\ 0 \in 0 .. Number
    BY BlocksAre
  <1> DEFINE S == {i \in 0 .. Number : F[i] <= i * c}
  <1>3. 0 \in S
    BY <1>1, <1>2 DEF Adds
  <1>4. ASSUME NEW i \in 1 .. Number, i - 1 \in S PROVE i \in S
    <2>1. PICK a \in Nat, b \in Nat, k \in Nat :
             a = F[i - 1] /\ b = f[i] /\ k = i - 1 /\ F[i] = a + b /\ b <= c
      <3>1. i \in Blocks /\ i - 1 \in 0 .. Number /\ i - 1 \in Nat
        BY <1>2
      <3> QED  BY <1>1, <3>1 DEF Adds
    <2>2. a <= k * c
      BY <1>4, <2>1
    <2>3. (k + 1) * c = k * c + c /\ k * c \in Nat
      OBVIOUS
    <2>4. i = k + 1 /\ i \in 0 .. Number
      BY <1>2, <2>1
    <2>5. a + b <= (k + 1) * c
      <3>1. PICK d \in Nat, e \in Nat : d = k * c /\ e = (k + 1) * c
        BY <2>3
      <3> QED  BY <2>1, <2>2, <2>3, <3>1
    <2> QED  BY <2>1, <2>4, <2>5
  <1> HIDE DEF S
  <1>5. Number \in S
    BY <1>2, <1>3, <1>4, ByTurns
  <1> QED  BY <1>1, <1>5 DEF S

\* None of its members is more than the sum.
LEMMA SumMember ==
    ASSUME NEW f \in [Blocks -> Nat], NEW p \in Blocks
    PROVE  f[p] <= SumOver(f)
  <1> DEFINE g == [f EXCEPT ![p] = 0]
  <1>1. g \in [Blocks -> Nat] /\ g[p] = 0 /\ \A q \in Blocks : q # p => g[q] = f[q]
    OBVIOUS
  <1> HIDE DEF g
  <1>2. SumOver(g) + f[p] = SumOver(f) + g[p]
    BY <1>1, SumChange
  <1>3. SumOver(f) \in Nat /\ SumOver(g) \in Nat /\ f[p] \in Nat
    BY <1>1, SumIs
  <1> QED  BY <1>1, <1>2, <1>3

-----------------------------------------------------------------------------
(***************************************************************************)
(* The references in a list.                                               *)
(***************************************************************************)
One(x, p) == IF x = p THEN 1 ELSE 0

\* They are a number, as for any list of members of a set.
LEMMA RefsAre ==
    ASSUME NEW T, NEW q \in Seq(T), NEW p
    PROVE  RefsIn(q, p) = Tally(q, {p}) /\ RefsIn(q, p) \in Nat /\ Len(q) \in Nat
  <1>1. {i \in DOMAIN q : q[i] = p} = PlacesIn(q, {p})
    BY DEF PlacesIn
  <1>2. RefsIn(q, p) = Tally(q, {p})
    BY <1>1 DEF RefsIn, Tally
  <1>3. Tally(q, {p}) \in Nat
    BY TallyTyped
  <1> QED  BY <1>2, <1>3

\* A list has a member or not, by either name.
LEMMA OneIs ==
    ASSUME NEW x, NEW p
    PROVE  OneIn(x, {p}) = One(x, p) /\ One(x, p) \in 0 .. 1
  BY DEF OneIn, One

\* Two lists, one after the other
LEMMA RefsJoin ==
    ASSUME NEW T, NEW a \in Seq(T), NEW b \in Seq(T), NEW p
    PROVE  RefsIn(a \o b, p) = RefsIn(a, p) + RefsIn(b, p)
  <1>1. PICK m \in Nat, k \in Nat : m = Len(a) /\ k = Len(b)
    OBVIOUS
  <1> DEFINE w == a \o b
             A == {i \in 1 .. m : a[i] = p}
             B == {i \in 1 .. k : b[i] = p}
             C == {i \in m + 1 .. m + k : w[i] = p}
             f == [i \in B |-> i + m]
  <1>2. /\ w \in Seq(T) /\ Len(w) = m + k
        /\ \A i \in 1 .. m : w[i] = a[i]
        /\ \A i \in 1 .. k : w[m + i] = b[i]
    BY <1>1
  <1>3. RefsIn(a, p) = Cardinality(A) /\ RefsIn(b, p) = Cardinality(B)
    <2>1. {i \in DOMAIN a : a[i] = p} = A /\ {i \in DOMAIN b : b[i] = p} = B
      BY <1>1
    <2> QED  BY <2>1 DEF RefsIn
  <1>4. {i \in DOMAIN w : w[i] = p} = A \cup C
    <2>1. DOMAIN w = 1 .. m + k
      BY <1>2
    <2>2. \A i : i \in 1 .. m + k <=> i \in 1 .. m \/ i \in m + 1 .. m + k
      OBVIOUS
    <2> HIDE DEF w
    <2> QED  BY <1>2, <2>1, <2>2
  <1> HIDE DEF w
  <1>5. IsFiniteSet(A) /\ IsFiniteSet(B)
    <2>1. IsFiniteSet(1 .. m) /\ IsFiniteSet(1 .. k)
      BY PlacesCounted
    <2>2. A \in SUBSET (1 .. m) /\ B \in SUBSET (1 .. k)
      OBVIOUS
    <2> QED  BY <2>1, <2>2, FS_Subset
  <1>6. ExistsBijection(B, C)
    <2>1. f \in [B -> C]
      <3>1. ASSUME NEW i \in B PROVE i + m \in C
        <4>1. i + m = m + i /\ i + m \in m + 1 .. m + k
          BY <1>1
        <4> QED  BY <1>2, <4>1
      <3> QED  BY <3>1
    <2>2. \A i, j \in B : f[i] = f[j] => i = j
      BY <1>1
    <2>3. ASSUME NEW j \in C PROVE \E i \in B : f[i] = j
      <3>1. j - m \in 1 .. k /\ m + (j - m) = j /\ (j - m) + m = j
        BY <1>1
      <3>2. b[j - m] = w[j]
        BY <1>2, <3>1
      <3>3. j - m \in B
        BY <3>1, <3>2
      <3> QED  BY <3>1, <3>3
    <2> HIDE DEF f, B, C
    <2>4. f \in Bijection(B, C)
      BY <2>1, <2>2, <2>3 DEF Bijection, Injection, Surjection, IsInjective
    <2> QED  BY <2>4 DEF ExistsBijection
  <1>7. IsFiniteSet(C) /\ Cardinality(C) = Cardinality(B)
    BY <1>5, <1>6, FS_Bijection
  <1>8. A \cap C = {}
    BY <1>1
  <1>9. RefsIn(w, p) = Cardinality(A \cup C)
    BY <1>4 DEF RefsIn
  <1> HIDE DEF A, B, C
  <1>10. Cardinality(A \cup C) = Cardinality(A) + Cardinality(C) - Cardinality(A \cap C)
    BY <1>5, <1>7, FS_Union
  <1>11. Cardinality(A) \in Nat /\ Cardinality(C) \in Nat /\ Cardinality(A \cap C) = 0
    BY <1>5, <1>7, <1>8, FS_CardinalityType, FS_EmptySet
  <1> QED  BY <1>3, <1>7, <1>9, <1>10, <1>11 DEF w

\* Lists with the same members in the same places
LEMMA SameList ==
    ASSUME NEW T, NEW a \in Seq(T), NEW b \in Seq(T), Len(a) = Len(b),
           \A j \in 1 .. Len(a) : a[j] = b[j]
    PROVE  a = b
  OBVIOUS

\* The first of a list, and the rest
LEMMA RefsFirst ==
    ASSUME NEW T, NEW q \in Seq(T), q # <<>>, NEW p
    PROVE  /\ Tail(q) \in Seq(T) /\ Head(q) \in T /\ Len(Tail(q)) = Len(q) - 1
           /\ RefsIn(q, p) = RefsIn(Tail(q), p) + One(Head(q), p)
  <1>1. Tail(q) \in Seq(T) /\ Len(Tail(q)) = Len(q) - 1 /\ Len(q) \in Nat /\ Len(q) >= 1
        /\ \A i \in 1 .. Len(q) - 1 : Tail(q)[i] = q[i + 1]
        /\ Head(q) = q[1] /\ 1 \in 1 .. Len(q)
    OBVIOUS
  <1>2. /\ RemoveAt(q, 1) \in Seq(T) /\ Len(RemoveAt(q, 1)) = Len(q) - 1
        /\ \A j \in 1 .. Len(q) - 1 : RemoveAt(q, 1)[j] = IF j < 1 THEN q[j] ELSE q[j + 1]
    <2>1. PICK i \in 1 .. Len(q) : i = 1
      BY <1>1
    <2>2. /\ RemoveAt(q, i) \in Seq(T) /\ Len(RemoveAt(q, i)) = Len(q) - 1
          /\ \A j \in 1 .. Len(q) - 1 : RemoveAt(q, i)[j] = IF j < i THEN q[j] ELSE q[j + 1]
      BY RemovedAt
    <2> QED  BY <2>1, <2>2
  <1>3. Tail(q) = RemoveAt(q, 1)
    <2> DEFINE a == Tail(q)
               b == RemoveAt(q, 1)
    <2>1. \A j \in 1 .. Len(q) - 1 : a[j] = b[j]
      BY <1>1, <1>2
    <2> HIDE DEF a, b
    <2>2. a \in Seq(T) /\ b \in Seq(T) /\ Len(a) = Len(b) /\ Len(a) = Len(q) - 1
      BY <1>1, <1>2 DEF a, b
    <2>3. \A j \in 1 .. Len(a) : a[j] = b[j]
      BY <2>1, <2>2
    <2>4. a = b
      BY <2>2, <2>3, SameList
    <2> QED  BY <2>4 DEF a, b
  <1>4. Tally(RemoveAt(q, 1), {p}) = Tally(q, {p}) - OneIn(q[1], {p})
    BY <1>1, TallyCut
  <1>5. RefsIn(q, p) = Tally(q, {p}) /\ RefsIn(q, p) \in Nat
        /\ RefsIn(Tail(q), p) = Tally(Tail(q), {p}) /\ RefsIn(Tail(q), p) \in Nat
    BY <1>1, RefsAre
  <1>6. q[1] \in T
    BY <1>1
  <1>7. OneIn(q[1], {p}) = One(q[1], p) /\ One(q[1], p) \in 0 .. 1
    BY OneIs
  <1>8. PICK a \in Nat, b \in Nat, c \in Nat :
           a = Tally(q, {p}) /\ b = Tally(Tail(q), {p}) /\ c = One(q[1], p)
    BY <1>5, <1>7
  <1>9. b = a - c
    BY <1>3, <1>4, <1>7, <1>8
  <1>10. RefsIn(q, p) = RefsIn(Tail(q), p) + One(Head(q), p)
    <2>1. RefsIn(q, p) = a /\ RefsIn(Tail(q), p) = b /\ One(Head(q), p) = c
      BY <1>1, <1>5, <1>8
    <2> QED  BY <1>8, <1>9, <2>1
  <1> QED  BY <1>1, <1>6, <1>10

\* A list in which one place changed, and which may be longer
Rewritten(q, w, j) ==
    /\ q \in Seq(Nat) /\ w \in Seq(Nat) /\ Len(q) <= Len(w) /\ j \in 1 .. Len(w)
    /\ \A i \in 1 .. Len(w) : i # j => w[i] = IF i <= Len(q) THEN q[i] ELSE NULL

\* What was in the place is no more in the list, and what is there now is.
LEMMA RefsRewritten ==
    ASSUME NEW q, NEW w, NEW j, Rewritten(q, w, j), NEW p, p # NULL
    PROVE  RefsIn(w, p) + One(IF j <= Len(q) THEN q[j] ELSE NULL, p) = RefsIn(q, p) + One(w[j], p)
  <1>1. PICK m \in Nat, n \in Nat : m = Len(q) /\ n = Len(w)
    BY DEF Rewritten
  <1>2. /\ q \in Seq(Nat) /\ w \in Seq(Nat) /\ m <= n /\ j \in 1 .. n
        /\ \A i \in 1 .. n : i # j => w[i] = IF i <= m THEN q[i] ELSE NULL
    BY <1>1 DEF Rewritten
  <1>3. /\ IsFiniteSet(PlacesIn(q, {p})) /\ Tally(q, {p}) \in Nat
        /\ \A i \in 1 .. m : /\ Cardinality(PlacesIn(q, {p}) \ {i}) \in Nat
                             /\ Tally(q, {p}) = Cardinality(PlacesIn(q, {p}) \ {i}) + OneIn(q[i], {p})
    BY <1>1, <1>2, TallyTyped
  <1>4. /\ Tally(w, {p}) \in Nat /\ Cardinality(PlacesIn(w, {p}) \ {j}) \in Nat
        /\ Tally(w, {p}) = Cardinality(PlacesIn(w, {p}) \ {j}) + OneIn(w[j], {p})
    BY <1>1, <1>2, TallyTyped
  <1>5. PlacesIn(w, {p}) \ {j} = PlacesIn(q, {p}) \ {j}
    <2>1. \A i : (i \in 1 .. n /\ w[i] = p /\ i # j) <=> (i \in 1 .. m /\ q[i] = p /\ i # j)
      <3>1. ASSUME NEW i, i \in 1 .. n, w[i] = p, i # j PROVE i \in 1 .. m /\ q[i] = p
        BY <1>1, <1>2, <3>1
      <3>2. ASSUME NEW i, i \in 1 .. m, q[i] = p, i # j PROVE i \in 1 .. n /\ w[i] = p
        <4>1. i \in 1 .. n /\ i <= m
          BY <1>1, <1>2, <3>2
        <4> QED  BY <1>2, <3>2, <4>1
      <3> QED  BY <3>1, <3>2
    <2> QED  BY <1>1, <2>1 DEF PlacesIn
  <1>6. RefsIn(q, p) = Tally(q, {p}) /\ RefsIn(w, p) = Tally(w, {p})
    BY <1>2, RefsAre
  <1>9. OneIn(w[j], {p}) = One(w[j], p) /\ OneIn(q[j], {p}) = One(q[j], p) /\ One(NULL, p) = 0
        /\ One(w[j], p) \in Nat /\ One(q[j], p) \in Nat
    BY OneIs DEF One
  <1>7. CASE j <= m
    <2>1. j \in 1 .. m
      BY <1>1, <1>2, <1>7
    <2>2. PICK a \in Nat, b \in Nat, c \in Nat :
             a = Cardinality(PlacesIn(q, {p}) \ {j}) /\ b = One(q[j], p) /\ c = One(w[j], p)
      BY <1>3, <1>9, <2>1
    <2>3. RefsIn(q, p) = a + b /\ RefsIn(w, p) = a + c
      BY <1>3, <1>4, <1>5, <1>6, <1>9, <2>1, <2>2
    <2>4. (IF j <= Len(q) THEN q[j] ELSE NULL) = q[j]
      BY <1>1, <1>7
    <2> QED  BY <2>2, <2>3, <2>4
  <1>8. CASE ~ (j <= m)
    <2>1. PlacesIn(q, {p}) \ {j} = PlacesIn(q, {p})
      BY <1>1, <1>8 DEF PlacesIn
    <2>2. Tally(q, {p}) = Cardinality(PlacesIn(q, {p}))
      BY DEF Tally
    <2>3. PICK a \in Nat, c \in Nat : a = Tally(q, {p}) /\ c = One(w[j], p)
      BY <1>3, <1>9
    <2>4. RefsIn(q, p) = a /\ RefsIn(w, p) = a + c
      BY <1>3, <1>4, <1>5, <1>6, <1>9, <2>1, <2>2, <2>3
    <2>5. (IF j <= Len(q) THEN q[j] ELSE NULL) = NULL
      BY <1>1, <1>8
    <2> QED  BY <1>9, <2>3, <2>4, <2>5
  <1> QED  BY <1>7, <1>8

-----------------------------------------------------------------------------
(***************************************************************************)
(* The references that the values on a heap have.                          *)
(***************************************************************************)
Refd == {NULL} \cup Blocks

HeldIn(h, p) == SumOver([q \in Blocks |-> RefsIn(Inside(h[q]), p)])

\* How much all of them have
Weight(h) == SumOver([q \in Blocks |-> Len(Inside(h[q]))])

Lists(h) == \A q \in Blocks : Inside(h[q]) \in Seq(Refd)

\* Both are numbers.
LEMMA HeldTyped ==
    ASSUME NEW h, Lists(h), NEW p
    PROVE  /\ HeldIn(h, p) \in Nat /\ Weight(h) \in Nat
           /\ [q \in Blocks |-> RefsIn(Inside(h[q]), p)] \in [Blocks -> Nat]
           /\ [q \in Blocks |-> Len(Inside(h[q]))] \in [Blocks -> Nat]
  <1> DEFINE f == [q \in Blocks |-> RefsIn(Inside(h[q]), p)]
             g == [q \in Blocks |-> Len(Inside(h[q]))]
  <1>1. \A q \in Blocks : RefsIn(Inside(h[q]), p) \in Nat /\ Len(Inside(h[q])) \in Nat
    <2> SUFFICES ASSUME NEW q \in Blocks
                 PROVE  RefsIn(Inside(h[q]), p) \in Nat /\ Len(Inside(h[q])) \in Nat
      OBVIOUS
    <2>1. Inside(h[q]) \in Seq(Refd)
      BY DEF Lists
    <2> QED  BY <2>1, RefsAre
  <1>2. f \in [Blocks -> Nat] /\ g \in [Blocks -> Nat]
    BY <1>1
  <1>3. SumOver(f) \in Nat /\ SumOver(g) \in Nat
    <2> HIDE DEF f, g
    <2> QED  BY <1>2, SumIs
  <1> QED  BY <1>2, <1>3 DEF HeldIn, Weight

\* What one value has changes.
LEMMA HeldChange ==
    ASSUME NEW h, Lists(h), NEW g, Lists(g), NEW p \in Blocks,
           \A q \in Blocks : q # p => Inside(g[q]) = Inside(h[q]), NEW x
    PROVE  /\ HeldIn(g, x) + RefsIn(Inside(h[p]), x) = HeldIn(h, x) + RefsIn(Inside(g[p]), x)
           /\ Weight(g) + Len(Inside(h[p])) = Weight(h) + Len(Inside(g[p]))
  <1> DEFINE a == [q \in Blocks |-> RefsIn(Inside(h[q]), x)]
             b == [q \in Blocks |-> RefsIn(Inside(g[q]), x)]
             c == [q \in Blocks |-> Len(Inside(h[q]))]
             d == [q \in Blocks |-> Len(Inside(g[q]))]
  <1>1. a \in [Blocks -> Nat] /\ b \in [Blocks -> Nat] /\ c \in [Blocks -> Nat] /\ d \in [Blocks -> Nat]
    BY HeldTyped
  <1>2. \A q \in Blocks : q # p => b[q] = a[q] /\ d[q] = c[q]
    OBVIOUS
  <1>3. /\ a[p] = RefsIn(Inside(h[p]), x) /\ b[p] = RefsIn(Inside(g[p]), x)
        /\ c[p] = Len(Inside(h[p])) /\ d[p] = Len(Inside(g[p]))
    OBVIOUS
  <1>4. HeldIn(h, x) = SumOver(a) /\ HeldIn(g, x) = SumOver(b) /\ Weight(h) = SumOver(c) /\ Weight(g) = SumOver(d)
    BY DEF HeldIn, Weight
  <1> HIDE DEF a, b, c, d
  <1>5. SumOver(b) + a[p] = SumOver(a) + b[p]
    BY <1>1, <1>2, SumChange
  <1>6. SumOver(d) + c[p] = SumOver(c) + d[p]
    BY <1>1, <1>2, SumChange
  <1> QED  BY <1>3, <1>4, <1>5, <1>6

\* It stays what it was.
LEMMA HeldSame ==
    ASSUME NEW h, NEW g, \A q \in Blocks : Inside(g[q]) = Inside(h[q]), NEW x
    PROVE  HeldIn(g, x) = HeldIn(h, x) /\ Weight(g) = Weight(h)
  <1>1. /\ [q \in Blocks |-> RefsIn(Inside(g[q]), x)] = [q \in Blocks |-> RefsIn(Inside(h[q]), x)]
        /\ [q \in Blocks |-> Len(Inside(g[q]))] = [q \in Blocks |-> Len(Inside(h[q]))]
    OBVIOUS
  <1> QED  BY <1>1 DEF HeldIn, Weight

\* No value has more references than there are.
LEMMA HeldMember ==
    ASSUME NEW h, Lists(h), NEW p \in Blocks, NEW x
    PROVE  RefsIn(Inside(h[p]), x) <= HeldIn(h, x) /\ RefsIn(Inside(h[p]), x) \in Nat
  <1> DEFINE f == [q \in Blocks |-> RefsIn(Inside(h[q]), x)]
  <1>1. f \in [Blocks -> Nat] /\ f[p] = RefsIn(Inside(h[p]), x) /\ HeldIn(h, x) = SumOver(f)
    BY HeldTyped DEF HeldIn
  <1> HIDE DEF f
  <1>2. f[p] <= SumOver(f) /\ f[p] \in Nat
    BY <1>1, SumMember
  <1> QED  BY <1>1, <1>2

\* The number that the property is about.
LEMMA HeldIs ==
    ASSUME Lists(heap), NEW p
    PROVE  Held(p) = HeldIn(heap, p)
  <1> DEFINE f == [q \in Blocks |-> RefsIn(Inside(heap[q]), p)]
             n == Number
             Fits(F) == F = [i \in 0 .. n |-> IF i = 0 THEN 0 ELSE F[i - 1] + RefsIn(Inside(heap[i]), p)]
             after == CHOOSE F : Fits(F)
  <1>1. f \in [Blocks -> Nat]
    BY HeldTyped
  <1>2. /\ n \in Nat /\ Blocks = 1 .. n /\ n \in 0 .. n /\ 0 \in 0 .. n
    BY BlocksAre
  <1>3. \A q \in Blocks : f[q] = RefsIn(Inside(heap[q]), p)
    OBVIOUS
  <1>4. Held(p) = after[n] /\ HeldIn(heap, p) = SumOver(f)
    BY DEF Held, HeldIn, Steps, Number
  <1> HIDE DEF f
  <1>5. PICK F : Adds(F, f) /\ F[n] = SumOver(f)
    BY <1>1, SumIs
  <1> HIDE DEF n
  <1>6. Fits(F)
    <2>1. /\ F \in [0 .. n -> Nat] /\ F[0] = 0 /\ \A q \in Blocks : F[q] = F[q - 1] + f[q]
      BY <1>5 DEF Adds, n
    <2>2. \A i \in 0 .. n : F[i] = IF i = 0 THEN 0 ELSE F[i - 1] + RefsIn(Inside(heap[i]), p)
      <3> SUFFICES ASSUME NEW i \in 0 .. n, i # 0 PROVE F[i] = F[i - 1] + RefsIn(Inside(heap[i]), p)
        BY <2>1
      <3>1. i \in Blocks
        BY <1>2
      <3> QED  BY <1>3, <2>1, <3>1
    <2>3. F = [i \in 0 .. n |-> F[i]]
      BY <2>1
    <2> QED  BY <2>2, <2>3
  <1>7. Fits(after)
    <2> HIDE DEF Fits
    <2> QED  BY <1>6
  <1> HIDE DEF after
  <1> DEFINE S == {i \in 0 .. n : after[i] = F[i]}
  <1>8. 0 \in S
    BY <1>2, <1>6, <1>7
  <1>9. ASSUME NEW i \in 1 .. n, i - 1 \in S PROVE i \in S
    <2>1. i \in 0 .. n /\ i # 0
      BY <1>2
    <2>2. after[i] = after[i - 1] + RefsIn(Inside(heap[i]), p) /\ F[i] = F[i - 1] + RefsIn(Inside(heap[i]), p)
      BY <1>6, <1>7, <2>1
    <2> QED  BY <1>9, <2>1, <2>2
  <1> HIDE DEF S
  <1>10. n \in S
    BY <1>2, <1>8, <1>9, ByTurns
  <1> QED  BY <1>4, <1>5, <1>10 DEF S

-----------------------------------------------------------------------------
(***************************************************************************)
(* The values.                                                             *)
(***************************************************************************)
Cell(y) ==
    /\ ValueShape(y) /\ y.refs \in Nat /\ (y.type = "free" <=> y.refs = 0)
    /\ (y.type = "free" => y = Free)
    /\ (y.type # "object" => y.table = NoTable) /\ (y.type # "array" => y.array = NoArray)
    /\ Inside(y) \in Seq(Refd)

\* A list and an empty one
LEMMA NothingMore ==
    ASSUME NEW T, NEW q \in Seq(T)
    PROVE  q \o <<>> = q /\ <<>> \o q = q
  OBVIOUS

\* What a value has, by its type
LEMMA InsideIs ==
    /\ Inside(Free) = <<>>
    /\ \A y, T : y.array = NoArray /\ TableValues(y.table) \in Seq(T) => Inside(y) = TableValues(y.table)
    /\ \A y, T : y.table = NoTable /\ y.array.list \in Seq(T) => Inside(y) = y.array.list
  <1>1. TableValues(NoTable) = <<>>
    BY DEF TableValues, NoTable
  <1>2. NoArray.list = <<>> /\ <<>> \in Seq({})
    BY DEF NoArray
  <1>3. Inside(Free) = <<>>
    BY <1>1, <1>2, NothingMore DEF Inside, Free
  <1>4. ASSUME NEW y, NEW T, y.array = NoArray, TableValues(y.table) \in Seq(T)
        PROVE  Inside(y) = TableValues(y.table)
    <2>1. Inside(y) = TableValues(y.table) \o <<>>
      BY <1>2, <1>4 DEF Inside
    <2> QED  BY <1>4, <2>1, NothingMore
  <1>5. ASSUME NEW y, NEW T, y.table = NoTable, y.array.list \in Seq(T)
        PROVE  Inside(y) = y.array.list
    <2>1. Inside(y) = <<>> \o y.array.list
      BY <1>1, <1>5 DEF Inside
    <2> QED  BY <1>5, <2>1, NothingMore
  <1> QED  BY <1>3, <1>4, <1>5

\* A free block is a value that has nothing.
LEMMA FreeCell == Cell(Free)
  <1>1. <<>> \in Seq(Refd)
    OBVIOUS
  <1> QED  BY <1>1, InsideIs DEF Cell, ValueShape, Free

\* Another count of the references
LEMMA CellCount ==
    ASSUME NEW y, Cell(y), y.type # "free", NEW r \in Nat, r # 0
    PROVE  /\ Cell([y EXCEPT !.refs = r]) /\ Inside([y EXCEPT !.refs = r]) = Inside(y)
           /\ [y EXCEPT !.refs = r].refs = r /\ SameInside(y, [y EXCEPT !.refs = r])
           /\ \A x : SameInside(x, y) => SameInside(x, [y EXCEPT !.refs = r])
  <1> DEFINE z == [y EXCEPT !.refs = r]
  <1>1. /\ ValueShape(z) /\ z.type = y.type /\ z.refs = r /\ z.table = y.table /\ z.array = y.array
    BY DEF Cell, ValueShape
  <1> HIDE DEF z
  <1>2. Inside(z) = Inside(y)
    BY <1>1 DEF Inside
  <1>3. Cell(z)
    BY <1>1, <1>2 DEF Cell
  <1>4. \A x : SameInside(x, y) => SameInside(x, z)
    BY <1>1 DEF SameInside
  <1> QED  BY <1>1, <1>2, <1>3, <1>4 DEF z, SameInside

-----------------------------------------------------------------------------
(***************************************************************************)
(* json_object_put(). Of the references that are counted, ext are those    *)
(* that neither a value nor the list of those to be put has. They may be   *)
(* one less than none for a value that f still has and will be taken from  *)
(* it: f is not reached from there (D).                                    *)
(***************************************************************************)
Kept(h, f, q) == IF f \in Blocks THEN RefsIn(Inside(h[f]), q) ELSE 0

Celled(h) == h = [q \in Blocks |-> h[q]] /\ \A q \in Blocks : Cell(h[q])

Setting(h, D, ext, f) ==
    /\ Celled(h) /\ D \subseteq Blocks /\ f \notin D /\ ext \in [Blocks -> Int]
    /\ \A q \in D : Inside(h[q]) \in Seq(D \cup {NULL})
    /\ \A q \in Blocks : ext[q] + Kept(h, f, q) >= 0

Putting(x, h, D, ext) ==
    /\ x = Puts(x.heap, x.todo) /\ Celled(x.heap) /\ x.todo \in Seq(D \cup {NULL})
    /\ \A q \in Blocks : SameInside(h[q], x.heap[q])
    /\ \A q \in Blocks \ D : x.heap[q] = h[q]
    /\ \A q \in Blocks : x.heap[q].refs = ext[q] + HeldIn(x.heap, q) + RefsIn(x.todo, q)

\* What the values have are lists.
LEMMA CellsList ==
    ASSUME NEW h, Celled(h)
    PROVE  Lists(h)
  BY DEF Celled, Lists, Cell

\* What is left of a value that goes or stays
LEMMA InsideLeft ==
    ASSUME NEW x, NEW y, SameInside(x, y), Cell(y)
    PROVE  Inside(y) = <<>> \/ Inside(y) = Inside(x)
  <1>1. CASE y.type = "free"
    BY <1>1, InsideIs DEF Cell
  <1>2. CASE y.type = x.type /\ y.table = x.table /\ y.array = x.array
    BY <1>2 DEF Inside
  <1> QED  BY <1>1, <1>2 DEF SameInside

\* The value that is put has one reference at least.
LEMMA PutHasOne ==
    ASSUME NEW h, NEW D, NEW ext, NEW f, Setting(h, D, ext, f), NEW x, Putting(x, h, D, ext),
           x.todo # <<>>, NEW p, p = Head(x.todo), p # NULL
    PROVE  p \in D /\ p \in Blocks /\ x.heap[p].refs >= 1 /\ x.heap[p].refs \in Nat /\ x.heap[p].type # "free"
  <1>1. x.todo \in Seq(D \cup {NULL}) /\ D \subseteq Blocks
    BY DEF Setting, Putting
  <1>2. /\ p \in D \cup {NULL} /\ RefsIn(x.todo, p) = RefsIn(Tail(x.todo), p) + One(p, p)
        /\ Tail(x.todo) \in Seq(D \cup {NULL})
    BY <1>1, RefsFirst
  <1>3. p \in D /\ p \in Blocks
    BY <1>1, <1>2
  <1>4. RefsIn(Tail(x.todo), p) \in Nat /\ RefsIn(x.todo, p) \in Nat
    BY <1>1, <1>2, RefsAre
  <1>5. Lists(x.heap) /\ HeldIn(x.heap, p) \in Nat
    BY CellsList, HeldTyped DEF Putting
  <1>6. Kept(h, f, p) <= HeldIn(x.heap, p) /\ Kept(h, f, p) \in Int
    <2>1. CASE f \in Blocks
      <3>1. x.heap[f] = h[f]
        BY <2>1 DEF Setting, Putting
      <3>2. RefsIn(Inside(x.heap[f]), p) <= HeldIn(x.heap, p) /\ RefsIn(Inside(x.heap[f]), p) \in Nat
        BY <1>5, <2>1, HeldMember
      <3> QED  BY <2>1, <3>1, <3>2 DEF Kept
    <2>2. CASE f \notin Blocks
      BY <1>5, <2>2 DEF Kept
    <2> QED  BY <2>1, <2>2
  <1>7. ext[p] + Kept(h, f, p) >= 0 /\ ext[p] \in Int
    BY <1>3 DEF Setting
  <1>8. x.heap[p].refs = ext[p] + HeldIn(x.heap, p) + RefsIn(x.todo, p)
    BY <1>3 DEF Putting
  <1>9. Cell(x.heap[p])
    BY <1>3 DEF Putting, Celled
  <1>10. x.heap[p].refs >= 1
    BY <1>2, <1>4, <1>5, <1>6, <1>7, <1>8 DEF One
  <1> QED  BY <1>3, <1>9, <1>10 DEF Cell

\* How much is still to be done
ToDo(x) == Len(x.todo) + Weight(x.heap)

\* NULL is nothing to put.
LEMMA PutNull ==
    ASSUME NEW h, NEW D, NEW ext, NEW f, Setting(h, D, ext, f), NEW x, Putting(x, h, D, ext),
           x.todo # <<>>, Head(x.todo) = NULL
    PROVE  /\ Putting(PutStep(x), h, D, ext) /\ ToDo(PutStep(x)) = ToDo(x) - 1
  <1> DEFINE rest == Tail(x.todo)
             y == PutStep(x)
  <1>1. x.todo \in Seq(D \cup {NULL}) /\ D \subseteq Blocks /\ x = Puts(x.heap, x.todo)
    BY DEF Setting, Putting
  <1>2. y = [x EXCEPT !.todo = rest]
    BY DEF PutStep
  <1>3. /\ rest \in Seq(D \cup {NULL}) /\ Len(rest) = Len(x.todo) - 1 /\ Len(x.todo) \in Nat
        /\ \A q : RefsIn(x.todo, q) = RefsIn(rest, q) + One(NULL, q)
        /\ \A q : RefsIn(rest, q) \in Nat
    <2>1. PICK list \in Seq(D \cup {NULL}) : list = x.todo /\ list # <<>>
      BY <1>1
    <2>2. ASSUME NEW q
          PROVE  /\ Tail(list) \in Seq(D \cup {NULL}) /\ Len(Tail(list)) = Len(list) - 1
                 /\ RefsIn(list, q) = RefsIn(Tail(list), q) + One(Head(list), q)
      BY <2>1, RefsFirst
    <2>3. ASSUME NEW q PROVE RefsIn(Tail(list), q) \in Nat
      BY <2>2, RefsAre
    <2> QED  BY <2>1, <2>2, <2>3
  <1> HIDE DEF rest
  <1>4. y = Puts(x.heap, rest)
    BY <1>1, <1>2 DEF Puts
  <1>5. y.heap = x.heap /\ y.todo = rest
    BY <1>4 DEF Puts
  <1>6. \A q \in Blocks : RefsIn(x.todo, q) = RefsIn(rest, q)
    BY <1>3, BlocksAre DEF One
  <1> HIDE DEF y
  <1>7. Putting(y, h, D, ext)
    BY <1>3, <1>4, <1>5, <1>6 DEF Putting
  <1>8. Weight(x.heap) \in Nat
    BY CellsList, HeldTyped DEF Putting
  <1>9. ToDo(y) = ToDo(x) - 1
    BY <1>3, <1>5, <1>8 DEF ToDo
  <1> QED  BY <1>7, <1>9 DEF y

\* A value of which one reference is left goes.
LEMMA PutLast ==
    ASSUME NEW h, NEW D, NEW ext, NEW f, Setting(h, D, ext, f), NEW x, Putting(x, h, D, ext),
           x.todo # <<>>, NEW p, p = Head(x.todo), p # NULL, ~ (x.heap[p].refs > 1),
           NEW y, y = Puts([x.heap EXCEPT ![p] = Free], Tail(x.todo) \o Inside(x.heap[p]))
    PROVE  Putting(y, h, D, ext) /\ ToDo(y) = ToDo(x) - 1
  <1> DEFINE rest == Tail(x.todo)
             in == Inside(x.heap[p])
             g == [x.heap EXCEPT ![p] = Free]
  <1>1. /\ x.todo \in Seq(D \cup {NULL}) /\ D \subseteq Blocks /\ x = Puts(x.heap, x.todo)
        /\ Celled(x.heap) /\ Celled(h) /\ ext \in [Blocks -> Int]
    BY DEF Setting, Putting
  <1>2. p \in D /\ p \in Blocks /\ x.heap[p].refs = 1
    <2>1. p \in D /\ p \in Blocks /\ x.heap[p].refs >= 1 /\ x.heap[p].refs \in Nat
      BY PutHasOne
    <2> QED  BY <2>1
  <1>3. /\ rest \in Seq(D \cup {NULL}) /\ Len(rest) = Len(x.todo) - 1 /\ Len(x.todo) \in Nat
        /\ \A q : RefsIn(x.todo, q) = RefsIn(rest, q) + One(p, q)
        /\ \A q : RefsIn(rest, q) \in Nat
    <2>1. PICK list \in Seq(D \cup {NULL}) : list = x.todo /\ list # <<>>
      BY <1>1
    <2>2. ASSUME NEW q
          PROVE  /\ Tail(list) \in Seq(D \cup {NULL}) /\ Len(Tail(list)) = Len(list) - 1
                 /\ RefsIn(list, q) = RefsIn(Tail(list), q) + One(Head(list), q)
      BY <2>1, RefsFirst
    <2>3. ASSUME NEW q PROVE RefsIn(Tail(list), q) \in Nat
      BY <2>2, RefsAre
    <2> QED  BY <2>1, <2>2, <2>3
  <1>4. in \in Seq(D \cup {NULL})
    <2>1. Cell(x.heap[p]) /\ SameInside(h[p], x.heap[p]) /\ Inside(h[p]) \in Seq(D \cup {NULL})
      BY <1>2 DEF Putting, Celled, Setting
    <2>2. Inside(x.heap[p]) = <<>> \/ Inside(x.heap[p]) = Inside(h[p])
      BY <2>1, InsideLeft
    <2>3. <<>> \in Seq(D \cup {NULL})
      OBVIOUS
    <2> QED  BY <2>1, <2>2, <2>3
  <1>5. /\ g = [q \in Blocks |-> g[q]]
        /\ \A q \in Blocks : g[q] = IF q = p THEN Free ELSE x.heap[q]
    BY <1>1 DEF Celled
  <1> HIDE DEF g, rest, in
  <1>6. Celled(g) /\ Lists(x.heap) /\ Lists(g)
    BY <1>1, <1>5, FreeCell, CellsList DEF Celled
  <1>7. y = Puts(g, rest \o in) /\ y.heap = g /\ y.todo = rest \o in
    BY DEF Puts, g, rest, in
  <1>8. /\ rest \o in \in Seq(D \cup {NULL}) /\ Len(rest \o in) = Len(rest) + Len(in) /\ Len(in) \in Nat
        /\ \A q : RefsIn(rest \o in, q) = RefsIn(rest, q) + RefsIn(in, q)
        /\ \A q : RefsIn(in, q) \in Nat
    <2>1. \A q : RefsIn(rest \o in, q) = RefsIn(rest, q) + RefsIn(in, q)
      BY <1>3, <1>4, RefsJoin
    <2>2. \A q : RefsIn(in, q) \in Nat
      BY <1>4, RefsAre
    <2>3. rest \o in \in Seq(D \cup {NULL}) /\ Len(rest \o in) = Len(rest) + Len(in) /\ Len(in) \in Nat
      BY <1>3, <1>4
    <2> QED  BY <2>1, <2>2, <2>3
  <1>9. Inside(g[p]) = <<>>
    BY <1>2, <1>5, InsideIs
  <1>10. ASSUME NEW q \in Blocks
         PROVE  /\ HeldIn(g, q) + RefsIn(in, q) = HeldIn(x.heap, q)
                /\ Weight(g) + Len(in) = Weight(x.heap)
    <2>1. \A r \in Blocks : r # p => Inside(g[r]) = Inside(x.heap[r])
      BY <1>5
    <2>2. /\ HeldIn(g, q) + RefsIn(Inside(x.heap[p]), q) = HeldIn(x.heap, q) + RefsIn(Inside(g[p]), q)
          /\ Weight(g) + Len(Inside(x.heap[p])) = Weight(x.heap) + Len(Inside(g[p]))
      BY <1>2, <1>6, <2>1, HeldChange
    <2>3. RefsIn(<<>>, q) = 0 /\ Len(<<>>) = 0
      BY FS_EmptySet DEF RefsIn
    <2>4. HeldIn(x.heap, q) \in Nat /\ Weight(x.heap) \in Nat
      BY <1>6, HeldTyped
    <2> QED  BY <1>9, <2>2, <2>3, <2>4 DEF in
  <1>11. \A q \in Blocks : HeldIn(g, q) \in Nat /\ HeldIn(x.heap, q) \in Nat /\ Weight(g) \in Nat
    BY <1>6, HeldTyped
  <1>12. ASSUME NEW q \in Blocks PROVE g[q].refs = ext[q] + HeldIn(g, q) + RefsIn(rest \o in, q)
    <2>1. x.heap[q].refs = ext[q] + HeldIn(x.heap, q) + RefsIn(x.todo, q)
      BY DEF Putting
    <2>2. g[q].refs = x.heap[q].refs - One(p, q)
      <3>1. Free.refs = 0
        BY DEF Free
      <3>2. x.heap[q].refs \in Nat
        BY <1>1 DEF Celled, Cell
      <3> QED  BY <1>2, <1>5, <3>1, <3>2 DEF One
    <2>3. ext[q] \in Int
      BY <1>1
    <2>4. RefsIn(x.todo, q) = RefsIn(rest, q) + One(p, q) /\ One(p, q) \in Nat /\ RefsIn(rest, q) \in Nat
      BY <1>3 DEF One
    <2>5. RefsIn(rest \o in, q) = RefsIn(rest, q) + RefsIn(in, q) /\ RefsIn(in, q) \in Nat
      BY <1>8
    <2> QED  BY <1>10, <1>11, <2>1, <2>2, <2>3, <2>4, <2>5
  <1>13. \A q \in Blocks : SameInside(h[q], g[q]) /\ (q \notin D => g[q] = h[q])
    <2>1. Free.type = "free"
      BY DEF Free
    <2> QED  BY <1>2, <1>5, <2>1 DEF Putting, SameInside
  <1>14. Putting(y, h, D, ext)
    BY <1>6, <1>7, <1>8, <1>12, <1>13 DEF Putting
  <1>15. Len(rest) \in Nat /\ Len(in) \in Nat /\ Weight(g) \in Nat /\ Weight(g) + Len(in) = Weight(x.heap)
    BY <1>2, <1>3, <1>8, <1>10, <1>11
  <1>16. ToDo(y) = ToDo(x) - 1
    <2>1. PICK a \in Nat, b \in Nat, c \in Nat :
             a = Len(rest) /\ b = Len(in) /\ c = Weight(g) /\ Weight(x.heap) = c + b
      BY <1>15
    <2>3. Len(x.todo) = a + 1
      BY <1>3, <2>1
    <2>4. Len(y.todo) = a + b
      BY <1>7, <1>8, <2>1
    <2>5. Weight(y.heap) = c
      BY <1>7, <2>1
    <2>2. Len(x.todo) = a + 1 /\ Len(y.todo) = a + b /\ Weight(y.heap) = c
      BY <2>3, <2>4, <2>5
    <2> QED  BY <2>1, <2>2 DEF ToDo
  <1> QED  BY <1>14, <1>16

\* A value of which more references are left stays.
LEMMA PutOne ==
    ASSUME NEW h, NEW D, NEW ext, NEW f, Setting(h, D, ext, f), NEW x, Putting(x, h, D, ext),
           x.todo # <<>>, NEW p, p = Head(x.todo), p # NULL, x.heap[p].refs > 1,
           NEW y, y = Puts([x.heap EXCEPT ![p].refs = @ - 1], Tail(x.todo))
    PROVE  Putting(y, h, D, ext) /\ ToDo(y) = ToDo(x) - 1
  <1> DEFINE rest == Tail(x.todo)
             a == x.heap[p]
             r == a.refs - 1
             b == [a EXCEPT !.refs = r]
             g == [x.heap EXCEPT ![p] = b]
  <1>1. /\ x.todo \in Seq(D \cup {NULL}) /\ D \subseteq Blocks /\ x = Puts(x.heap, x.todo)
        /\ Celled(x.heap) /\ Celled(h) /\ ext \in [Blocks -> Int]
    BY DEF Setting, Putting
  <1>2. p \in D /\ p \in Blocks /\ a.refs \in Nat /\ a.refs > 1 /\ Cell(a) /\ a.type # "free"
        /\ SameInside(h[p], a)
    <2>1. p \in D /\ p \in Blocks /\ x.heap[p].refs \in Nat /\ x.heap[p].type # "free"
      BY PutHasOne
    <2> QED  BY <1>1, <2>1 DEF Celled, Putting
  <1>3. /\ rest \in Seq(D \cup {NULL}) /\ Len(rest) = Len(x.todo) - 1 /\ Len(x.todo) \in Nat
        /\ \A q : RefsIn(x.todo, q) = RefsIn(rest, q) + One(p, q)
        /\ \A q : RefsIn(rest, q) \in Nat
    <2>1. PICK list \in Seq(D \cup {NULL}) : list = x.todo /\ list # <<>>
      BY <1>1
    <2>2. ASSUME NEW q
          PROVE  /\ Tail(list) \in Seq(D \cup {NULL}) /\ Len(Tail(list)) = Len(list) - 1
                 /\ RefsIn(list, q) = RefsIn(Tail(list), q) + One(Head(list), q)
      BY <2>1, RefsFirst
    <2>3. ASSUME NEW q PROVE RefsIn(Tail(list), q) \in Nat
      BY <2>2, RefsAre
    <2> QED  BY <2>1, <2>2, <2>3
  <1>4. y = Puts(g, rest)
    OBVIOUS
  <1> HIDE DEF rest
  <1>5. r \in Nat /\ r # 0 /\ a.refs = r + 1
    BY <1>2
  <1>6. \A q \in Blocks : x.heap[q] = IF q = p THEN a ELSE x.heap[q]
    OBVIOUS
  <1> HIDE DEF r, a
  <1>7. Cell(b) /\ Inside(b) = Inside(a) /\ b.refs = r /\ SameInside(h[p], b)
    BY <1>2, <1>5, CellCount
  <1> HIDE DEF b
  <1>8. /\ g = [q \in Blocks |-> g[q]]
        /\ \A q \in Blocks : g[q] = IF q = p THEN b ELSE x.heap[q]
    BY <1>1 DEF Celled
  <1> HIDE DEF g
  <1>9. y.heap = g /\ y.todo = rest
    BY <1>4 DEF Puts
  <1>10. Celled(g) /\ Lists(x.heap)
    BY <1>1, <1>7, <1>8, CellsList DEF Celled
  <1>11. \A q \in Blocks : Inside(g[q]) = Inside(x.heap[q])
    BY <1>7, <1>8 DEF a
  <1>12. \A q \in Blocks : HeldIn(g, q) = HeldIn(x.heap, q) /\ HeldIn(g, q) \in Nat
    <2>1. \A q \in Blocks : HeldIn(x.heap, q) \in Nat
      BY <1>10, HeldTyped
    <2>2. \A q \in Blocks : HeldIn(g, q) = HeldIn(x.heap, q)
      BY <1>11, HeldSame
    <2> QED  BY <2>1, <2>2
  <1>13. Weight(g) = Weight(x.heap) /\ Weight(x.heap) \in Nat
    BY <1>10, <1>11, HeldSame, HeldTyped
  <1>14. ASSUME NEW q \in Blocks PROVE g[q].refs = ext[q] + HeldIn(g, q) + RefsIn(rest, q)
    <2>1. x.heap[q].refs = ext[q] + HeldIn(x.heap, q) + RefsIn(x.todo, q)
      BY DEF Putting
    <2>2. g[q].refs = x.heap[q].refs - One(p, q) /\ x.heap[q].refs \in Nat
      <3>1. x.heap[q].refs \in Nat
        BY <1>1 DEF Celled, Cell
      <3> QED  BY <1>2, <1>5, <1>7, <1>8, <3>1 DEF One, a
    <2>3. ext[q] \in Int
      BY <1>1
    <2>4. RefsIn(x.todo, q) = RefsIn(rest, q) + One(p, q) /\ One(p, q) \in Nat /\ RefsIn(rest, q) \in Nat
      BY <1>3 DEF One
    <2> QED  BY <1>12, <2>1, <2>2, <2>3, <2>4
  <1>15. \A q \in Blocks : SameInside(h[q], g[q]) /\ (q \notin D => g[q] = h[q])
    BY <1>2, <1>7, <1>8 DEF Putting
  <1>16. Putting(y, h, D, ext)
    BY <1>3, <1>4, <1>9, <1>10, <1>14, <1>15 DEF Putting
  <1>17. ToDo(y) = ToDo(x) - 1
    BY <1>3, <1>9, <1>13 DEF ToDo
  <1> QED  BY <1>16, <1>17

\* One turn: the list and what it may become get shorter, or nothing is to be done.
LEMMA PutStepCounts ==
    ASSUME NEW h, NEW D, NEW ext, NEW f, Setting(h, D, ext, f), NEW x, Putting(x, h, D, ext)
    PROVE  /\ Putting(PutStep(x), h, D, ext)
           /\ x.todo = <<>> => PutStep(x) = x
           /\ x.todo # <<>> => ToDo(PutStep(x)) = ToDo(x) - 1
  <1> DEFINE p == Head(x.todo)
             left == [x EXCEPT !.todo = Tail(@), !.heap[p].refs = @ - 1]
             less == [x.heap EXCEPT ![p].refs = @ - 1]
             gone == [x.heap EXCEPT ![p] = Free]
             more == Tail(x.todo) \o Inside(x.heap[p])
  <1>1. x.todo = <<>> => PutStep(x) = x
    BY DEF PutStep
  <1>2. x = Puts(x.heap, x.todo) /\ x.heap = [q \in Blocks |-> x.heap[q]]
    BY DEF Putting, Celled
  <1>3. left = Puts(less, Tail(x.todo))
    <2>1. left = [x EXCEPT !.todo = Tail(x.todo), !.heap = less]
      OBVIOUS
    <2> HIDE DEF left, less
    <2> QED  BY <1>2, <2>1 DEF Puts
  <1>4. CASE x.todo # <<>> /\ p = NULL
    BY <1>4, PutNull
  <1>5. CASE x.todo # <<>> /\ p # NULL /\ x.heap[p].refs > 1
    <2>1. PutStep(x) = left
      BY <1>5 DEF PutStep
    <2> HIDE DEF left
    <2>2. /\ Putting(Puts(less, Tail(x.todo)), h, D, ext)
          /\ ToDo(Puts(less, Tail(x.todo))) = ToDo(x) - 1
      BY <1>5, PutOne
    <2> QED  BY <1>3, <1>5, <2>1, <2>2
  <1>6. CASE x.todo # <<>> /\ p # NULL /\ ~ (x.heap[p].refs > 1)
    <2>1. PutStep(x) = [left EXCEPT !.heap[p] = Free, !.todo = @ \o Inside(x.heap[p])]
      BY <1>6 DEF PutStep
    <2>2. [less EXCEPT ![p] = Free] = gone
      BY <1>2
    <2> HIDE DEF left, less, gone
    <2>3. left.heap = less /\ left.todo = Tail(x.todo)
      BY <1>3 DEF Puts
    <2>4. [left EXCEPT !.heap[p] = Free, !.todo = @ \o Inside(x.heap[p])] = PutsWith(left, gone, more)
      BY <2>2, <2>3 DEF PutsWith
    <2> HIDE DEF more
    <2>5. PutsWith(left, gone, more) = Puts(gone, more)
      BY <1>3, PutsChanged
    <2>6. Putting(Puts(gone, more), h, D, ext) /\ ToDo(Puts(gone, more)) = ToDo(x) - 1
      BY <1>6, PutLast DEF gone, more
    <2> QED  BY <1>6, <2>1, <2>4, <2>5, <2>6
  <1> QED  BY <1>1, <1>4, <1>5, <1>6

\* The heap after json_object_put(): what is counted are the references that are left.
After(g, h, D, ext) ==
    /\ Celled(g) /\ \A q \in Blocks : SameInside(h[q], g[q])
    /\ \A q \in Blocks \ D : g[q] = h[q]
    /\ \A q \in Blocks : g[q].refs = ext[q] + HeldIn(g, q)

\* All of the list are put, and what they had: the counts are true again.
LEMMA PutAllCounts ==
    ASSUME NEW h, NEW D, NEW ext, NEW f, Setting(h, D, ext, f), NEW todo \in Seq(D \cup {NULL}),
           \A q \in Blocks : h[q].refs = ext[q] + HeldIn(h, q) + RefsIn(todo, q),
           Len(todo) + Weight(h) <= Number * (TopSize + MaxIndex + 2)
    PROVE  After(PutAll(h, todo), h, D, ext)
  <1> DEFINE n == Cardinality(Blocks) * (TopSize + MaxIndex + 2)
             x == [heap |-> h, todo |-> todo]
             after == CHOOSE F : PutsFollow(F, x, n)
             S == {i \in 0 .. n : /\ Putting(after[i], h, D, ext)
                                  /\ after[i].todo = <<>> \/ ToDo(after[i]) + i = ToDo(x)}
  <1>1. n \in Nat
    <2>1. PICK a \in Nat, b \in Nat : a = Cardinality(Blocks) /\ b = TopSize + MaxIndex + 2
      BY BlocksAre, JsonStoreAssumption DEF Number
    <2> QED  BY <2>1
  <1>2. PutAll(h, todo) = after[n].heap
    BY DEF PutAll, Steps, PutsFollow
  <1>3. Len(todo) + Weight(h) <= n
    BY DEF Number
  <1> HIDE DEF n
  <1>4. PutsFollow(after, x, n)
    BY <1>1, PutsExist
  <1> HIDE DEF after
  <1>5. \A i \in 0 .. n : after[i] = IF i = 0 THEN x ELSE PutStep(after[i - 1])
    <2> HIDE DEF x
    <2> QED  BY <1>4 DEF PutsFollow
  <1>6. x = Puts(h, todo) /\ x.heap = h /\ x.todo = todo /\ ToDo(x) = Len(todo) + Weight(h)
    BY DEF Puts, ToDo
  <1> HIDE DEF x
  <1>7. ToDo(x) \in Nat /\ ToDo(x) <= n
    <2>1. Weight(h) \in Nat /\ Len(todo) \in Nat
      BY CellsList, HeldTyped DEF Setting
    <2> QED  BY <1>3, <1>6, <2>1
  <1>8. 0 \in S
    <2>1. 0 \in 0 .. n /\ after[0] = x
      BY <1>1, <1>5
    <2>2. Putting(x, h, D, ext)
      <3>1. \A q \in Blocks : SameInside(h[q], h[q])
        BY DEF SameInside
      <3> QED  BY <1>6, <3>1 DEF Putting, Setting
    <2> QED  BY <1>7, <2>1, <2>2
  <1>9. ASSUME NEW i \in 1 .. n, i - 1 \in S PROVE i \in S
    <2>1. i \in 0 .. n /\ after[i] = PutStep(after[i - 1])
      BY <1>1, <1>5
    <2>2. PICK y : y = after[i - 1]
      OBVIOUS
    <2>3. Putting(y, h, D, ext) /\ (y.todo = <<>> \/ ToDo(y) + (i - 1) = ToDo(x))
      BY <1>9, <2>2
    <2>4. /\ Putting(PutStep(y), h, D, ext)
          /\ y.todo = <<>> => PutStep(y) = y
          /\ y.todo # <<>> => ToDo(PutStep(y)) = ToDo(y) - 1
      BY <2>3, PutStepCounts
    <2>5. ToDo(y) \in Nat
      <3>1. Weight(y.heap) \in Nat
        BY <2>3, CellsList, HeldTyped DEF Putting
      <3>2. Len(y.todo) \in Nat
        BY <2>3 DEF Putting
      <3> QED  BY <3>1, <3>2 DEF ToDo
    <2>6. CASE y.todo = <<>>
      BY <2>1, <2>2, <2>3, <2>4, <2>6
    <2>7. CASE y.todo # <<>>
      <3>1. ToDo(PutStep(y)) + i = ToDo(x)
        BY <1>7, <2>3, <2>4, <2>5, <2>7
      <3> QED  BY <2>1, <2>2, <2>4, <3>1
    <2> QED  BY <2>6, <2>7
  <1> HIDE DEF S
  <1>10. n \in S
    BY <1>1, <1>8, <1>9, ByTurns
  <1>11. PICK y : y = after[n]
    OBVIOUS
  <1>12. Putting(y, h, D, ext) /\ (y.todo = <<>> \/ ToDo(y) + n = ToDo(x))
    BY <1>10, <1>11 DEF S
  <1>13. y.todo = <<>>
    <2> SUFFICES ASSUME y.todo # <<>> PROVE FALSE
      OBVIOUS
    <2>1. y.todo \in Seq(D \cup {NULL}) /\ Weight(y.heap) \in Nat
      BY <1>12, CellsList, HeldTyped DEF Putting
    <2>2. Len(y.todo) \in Nat /\ Len(y.todo) >= 1
      BY <2>1
    <2>3. ToDo(y) >= 1 /\ ToDo(y) \in Nat
      BY <2>1, <2>2 DEF ToDo
    <2> QED  BY <1>1, <1>7, <1>12, <2>3
  <1>14. \A q \in Blocks : y.heap[q].refs = ext[q] + HeldIn(y.heap, q)
    <2> SUFFICES ASSUME NEW q \in Blocks PROVE y.heap[q].refs = ext[q] + HeldIn(y.heap, q)
      OBVIOUS
    <2>1. y.heap[q].refs = ext[q] + HeldIn(y.heap, q) + RefsIn(<<>>, q)
      BY <1>12, <1>13 DEF Putting
    <2>2. RefsIn(<<>>, q) = 0
      BY FS_EmptySet DEF RefsIn
    <2>3. HeldIn(y.heap, q) \in Nat /\ ext[q] \in Int
      BY <1>12, CellsList, HeldTyped DEF Putting, Setting
    <2> QED  BY <2>1, <2>2, <2>3
  <1> QED  BY <1>2, <1>11, <1>12, <1>14 DEF After, Putting

\* There is a reference in a list when a place has it.
LEMMA RefsIf ==
    ASSUME NEW T, NEW q \in Seq(T)
    PROVE  /\ \A i \in 1 .. Len(q) : RefsIn(q, q[i]) > 0
           /\ \A p : RefsIn(q, p) > 0 => \E i \in 1 .. Len(q) : q[i] = p
  <1>1. ASSUME NEW p PROVE /\ RefsIn(q, p) = Tally(q, {p})
                           /\ \A i \in 1 .. Len(q) : q[i] \in {p} => Tally(q, {p}) > 0
                           /\ Tally(q, {p}) > 0 => \E i \in 1 .. Len(q) : q[i] \in {p}
    BY RefsAre, Tallied
  <1>2. ASSUME NEW i \in 1 .. Len(q) PROVE RefsIn(q, q[i]) > 0
    <2>1. PICK p : p = q[i]
      OBVIOUS
    <2> QED  BY <1>1, <2>1
  <1> QED  BY <1>1, <1>2

\* A list all of whose values are in a set
LEMMA RefsWithin ==
    ASSUME NEW T, NEW q \in Seq(T), NEW D, \A p \in T : RefsIn(q, p) > 0 => p \in D
    PROVE  q \in Seq(D)
  <1>1. \A i \in 1 .. Len(q) : q[i] \in D
    <2> SUFFICES ASSUME NEW i \in 1 .. Len(q) PROVE q[i] \in D
      OBVIOUS
    <2>1. RefsIn(q, q[i]) > 0
      BY RefsIf
    <2>2. q[i] \in T
      OBVIOUS
    <2> QED  BY <2>1, <2>2
  <1> QED  BY <1>1

\* The lists of one value and of none
LEMMA RefsOfOne ==
    ASSUME NEW p
    PROVE  RefsIn(<<>>, p) = 0 /\ \A x : RefsIn(<<x>>, p) = One(x, p)
  <1>1. RefsIn(<<>>, p) = 0
    BY FS_EmptySet DEF RefsIn
  <1>2. ASSUME NEW x PROVE RefsIn(<<x>>, p) = One(x, p)
    <2>1. DOMAIN <<x>> = {1} /\ <<x>>[1] = x
      OBVIOUS
    <2>2. CASE x = p
      <3>1. {i \in DOMAIN <<x>> : <<x>>[i] = p} = {1}
        BY <2>1, <2>2
      <3> QED  BY <2>2, <3>1, FS_Singleton DEF RefsIn, One
    <2>3. CASE x # p
      <3>1. {i \in DOMAIN <<x>> : <<x>>[i] = p} = {}
        BY <2>1, <2>3
      <3> QED  BY <2>3, <3>1, FS_EmptySet DEF RefsIn, One
    <2> QED  BY <2>2, <2>3
  <1> QED  BY <1>1, <1>2

-----------------------------------------------------------------------------
(***************************************************************************)
(* How much there is to put.                                               *)
(***************************************************************************)
Short(h) == \A q \in Blocks : Len(h[q].array.list) <= MaxIndex + 1

Most == IF TopSize > MaxIndex THEN TopSize ELSE MaxIndex + 1

\* A value has no more than its table or its array.
LEMMA InsideShort ==
    ASSUME NEW h, Heaped(h), Celled(h), Short(h), NEW q \in Blocks
    PROVE  Len(Inside(h[q])) <= Most /\ Len(Inside(h[q])) \in Nat
  <1>1. PICK y : y = h[q]
    OBVIOUS
  <1>2. Cell(y) /\ GoodValue(y) /\ Len(y.array.list) <= MaxIndex + 1
    BY <1>1 DEF Heaped, Celled, Short
  <1>3. TopSize \in Nat /\ MaxIndex \in Nat /\ Most \in Nat /\ TopSize <= Most /\ MaxIndex + 1 <= Most
    BY JsonStoreAssumption DEF Most
  <1>4. Inside(y) \in Seq(Refd) /\ Len(Inside(y)) \in Nat
    BY <1>2 DEF Cell
  <1>5. CASE y.type = "object"
    <2>1. GoodTable(y.table) /\ y.array = NoArray
      BY <1>2, <1>5 DEF GoodValue, Cell
    <2>2. PICK t : t = y.table
      OBVIOUS
    <2>3. Len(t.order) \in Nat /\ Len(t.order) <= t.size /\ t.size \in Nat /\ t.size <= TopSize
      <3>1. Len(t.order) \in Nat /\ Len(t.order) <= t.size
        BY <2>1, <2>2, PlaceLeft
      <3>2. t.size \in 1 .. TopSize
        BY <2>1, <2>2 DEF GoodTable, TableTyped
      <3> QED  BY <1>3, <3>1, <3>2
    <2>4. t.order \in Seq(Nat) /\ TableValues(t) \in Seq(Nat) /\ Len(TableValues(t)) = Len(t.order)
      <3>1. t.order \in Seq(Places(t)) /\ t.v \in [Places(t) -> Nat] /\ t.size \in Nat
        BY <2>1, <2>2, <2>3 DEF GoodTable, TableTyped
      <3>2. t.order \in Seq(Nat) /\ \A i \in 1 .. Len(t.order) : t.order[i] \in Places(t)
        BY <3>1 DEF Places
      <3> QED  BY <3>1, <3>2, ValuesAre
    <2>5. Inside(y) = TableValues(t)
      BY <2>1, <2>2, <2>4, InsideIs
    <2> QED  BY <1>1, <1>3, <1>4, <2>3, <2>4, <2>5
  <1>6. CASE y.type = "array"
    <2>1. y.table = NoTable /\ y.array.list \in Seq(Nat)
      BY <1>2, <1>6 DEF GoodValue, GoodArray, Cell
    <2>2. Inside(y) = y.array.list
      BY <2>1, InsideIs
    <2>3. Len(y.array.list) \in Nat
      BY <2>1
    <2> QED  BY <1>1, <1>2, <1>3, <1>4, <2>2, <2>3
  <1>7. CASE y.type # "object" /\ y.type # "array"
    <2>1. y.table = NoTable /\ y.array = NoArray
      BY <1>2, <1>7 DEF Cell
    <2>2. y.array.list = <<>> /\ <<>> \in Seq(Nat)
      BY <2>1 DEF NoArray
    <2>3. Inside(y) = <<>>
      BY <2>1, <2>2, InsideIs
    <2> QED  BY <1>1, <1>3, <2>3
  <1> QED  BY <1>5, <1>6, <1>7

\* A product
LEMMA Room ==
    ASSUME NEW n \in Nat, n >= 1, NEW m \in Nat, NEW c \in Nat, c >= m + 2,
           NEW w \in Nat, w <= n * m, NEW k \in Nat, k <= 2
    PROVE  k + w <= n * c
  <1>1. PICK d \in Nat : c = m + 2 + d
    <2>1. c - (m + 2) \in Nat /\ c = m + 2 + (c - (m + 2))
      OBVIOUS
    <2> QED  BY <2>1
  <1>2. n * c = n * m + n * 2 + n * d
    BY <1>1
  <1>3. PICK x \in Nat, y \in Nat, z \in Nat : x = n * m /\ y = n * 2 /\ z = n * d
    OBVIOUS
  <1>4. y >= 2
    BY <1>3
  <1>5. n * c = x + y + z /\ w <= x
    BY <1>2, <1>3
  <1> QED  BY <1>3, <1>4, <1>5

\* json_object_put() ends within its bound.
LEMMA PutsEnd ==
    ASSUME NEW h, Heaped(h), Celled(h), Short(h), NEW p \in Blocks, NEW k \in Nat, k <= 2
    PROVE  k + Weight(h) <= Number * (TopSize + MaxIndex + 2)
  <1> DEFINE f == [q \in Blocks |-> Len(Inside(h[q]))]
  <1>1. Lists(h)
    BY CellsList
  <1>2. f \in [Blocks -> Nat] /\ Weight(h) \in Nat
    BY <1>1, HeldTyped
  <1>3. \A q \in Blocks : f[q] <= Most
    BY InsideShort
  <1>4. Weight(h) = SumOver(f)
    BY DEF Weight
  <1> HIDE DEF f
  <1>5. TopSize \in Nat /\ TopSize >= 1 /\ MaxIndex \in Nat
    BY JsonStoreAssumption
  <1>6. PICK m \in Nat, c \in Nat : m = Most /\ c = TopSize + MaxIndex + 2 /\ c >= m + 2
    BY <1>5 DEF Most
  <1>7. Weight(h) <= Number * m
    BY <1>2, <1>3, <1>4, <1>6, SumBound
  <1>8. Number \in Nat /\ Number >= 1
    BY BlocksAre
  <1>9. k + Weight(h) <= Number * c
    BY <1>2, <1>6, <1>7, <1>8, Room
  <1> QED  BY <1>6, <1>9

-----------------------------------------------------------------------------
(***************************************************************************)
(* What is reached from a value, and the order that there are no loops in. *)
(***************************************************************************)
\* Nothing in C has a value that is not in C
Closed(h, C) ==
    \A q \in C \cap Blocks : \A r \in Blocks : RefsIn(Inside(h[q]), r) > 0 => r \in C

Reached(X) == X \cup UNION {Range(Inside(heap[q])) : q \in X \ {NULL}}

\* A set that is not closed gets larger, and one that is stays.
LEMMA ReachStep ==
    ASSUME Lists(heap), NEW X \in SUBSET Refd,
           NEW Y, Y = Reached(X)
    PROVE  /\ Y \in SUBSET Refd /\ X \subseteq Y
           /\ Closed(heap, X) => Y \cap Blocks = X \cap Blocks
           /\ ~ Closed(heap, X) => Cardinality(Y \cap Blocks) >= Cardinality(X \cap Blocks) + 1
  <1>1. ASSUME NEW q \in X \ {NULL}
        PROVE  q \in Blocks /\ Inside(heap[q]) \in Seq(Refd)
               /\ \A r : r \in Range(Inside(heap[q])) <=> \E i \in 1 .. Len(Inside(heap[q])) : Inside(heap[q])[i] = r
    <2>1. q \in Blocks /\ Inside(heap[q]) \in Seq(Refd)
      BY DEF Refd, Lists
    <2>2. DOMAIN Inside(heap[q]) = 1 .. Len(Inside(heap[q]))
      BY <2>1
    <2> QED  BY <2>1, <2>2 DEF Range
  <1>2. \A q \in X \ {NULL} : Range(Inside(heap[q])) \subseteq Refd
    <2> SUFFICES ASSUME NEW q \in X \ {NULL}, NEW r \in Range(Inside(heap[q])) PROVE r \in Refd
      OBVIOUS
    <2>1. PICK w \in Seq(Refd) : w = Inside(heap[q])
      BY <1>1
    <2>2. \E i \in 1 .. Len(w) : w[i] = r
      BY <1>1, <2>1
    <2> QED  BY <2>2
  <1>3. Y \in SUBSET Refd /\ X \subseteq Y
    BY <1>2 DEF Reached
  <1>4. ASSUME Closed(heap, X) PROVE Y \cap Blocks = X \cap Blocks
    <2> SUFFICES ASSUME NEW q \in X \ {NULL}, NEW r \in Blocks, r \in Range(Inside(heap[q])) PROVE r \in X
      BY <1>3 DEF Reached
    <2>1. PICK w \in Seq(Refd) : w = Inside(heap[q])
      BY <1>1
    <2>2. PICK i \in 1 .. Len(w) : w[i] = r
      BY <1>1, <2>1
    <2>3. RefsIn(w, r) > 0
      BY <2>2, RefsIf
    <2> QED  BY <1>1, <1>4, <2>1, <2>3 DEF Closed
  <1>5. ASSUME ~ Closed(heap, X) PROVE Cardinality(Y \cap Blocks) >= Cardinality(X \cap Blocks) + 1
    <2>1. PICK q \in X \cap Blocks, r \in Blocks : RefsIn(Inside(heap[q]), r) > 0 /\ r \notin X
      BY <1>5 DEF Closed
    <2>2. q \in X \ {NULL}
      BY <2>1, BlocksAre
    <2>3. PICK w \in Seq(Refd) : w = Inside(heap[q])
      BY <1>1, <2>2
    <2>4. r \in Range(Inside(heap[q]))
      <3>1. \E i \in 1 .. Len(w) : w[i] = r
        BY <2>1, <2>3, RefsIf
      <3> QED  BY <1>1, <2>2, <2>3, <3>1
    <2>5. r \in Y
      BY <2>2, <2>4 DEF Reached
    <2> DEFINE A == X \cap Blocks
               B == Y \cap Blocks
    <2>6. A \cup {r} \subseteq B /\ r \notin A /\ B \subseteq Blocks
      BY <1>3, <2>1, <2>5
    <2> HIDE DEF A, B
    <2>7. IsFiniteSet(B)
      BY <2>6, BlocksAre, FS_Subset
    <2>8. IsFiniteSet(A)
      BY <2>6, <2>7, FS_Subset
    <2>9. Cardinality(A \cup {r}) = Cardinality(A) + 1
      BY <2>6, <2>8, FS_AddElement
    <2>10. Cardinality(A \cup {r}) <= Cardinality(B)
      BY <2>6, <2>7, FS_Subset
    <2>11. Cardinality(A) \in Nat /\ Cardinality(B) \in Nat
      BY <2>7, <2>8, FS_CardinalityType
    <2> QED  BY <2>9, <2>10, <2>11 DEF A, B
  <1> QED  BY <1>3, <1>4, <1>5

\* As many steps as there are blocks reach everything.
LEMMA ReachClosed ==
    ASSUME Lists(heap), NEW p \in Blocks
    PROVE  p \in Reach(p) /\ Closed(heap, Reach(p))
  <1> DEFINE n == Number
             next(set) == Reached(set)
             Fits(F) == F = [i \in 0 .. n |-> IF i = 0 THEN {p} ELSE next(F[i - 1])]
             after == CHOOSE F : Fits(F)
             T == SUBSET Refd
             g == [i \in 1 .. n |-> [X \in T |-> next(X)]]
  <1>1. n \in Nat /\ {p} \in T /\ IsFiniteSet(Blocks) /\ Cardinality(Blocks) = n
    BY BlocksAre DEF Refd, Number
  <1>2. Reach(p) = after[n]
    BY DEF Reach, Reached, Steps, Number
  <1>3. \A X \in T : next(X) \in T
    <2> SUFFICES ASSUME NEW X \in SUBSET Refd PROVE next(X) \in SUBSET Refd
      OBVIOUS
    <2>1. PICK Y : Y = Reached(X)
      OBVIOUS
    <2>2. Y \in SUBSET Refd
      BY <2>1, ReachStep
    <2> QED  BY <2>1, <2>2
  <1>4. g \in [1 .. n -> [T -> T]]
    <2> HIDE DEF next, T
    <2> QED  BY <1>3
  <1>5. PICK F \in [0 .. n -> T] : Applies(F, {p}, n, g)
    <2> HIDE DEF g, T, n
    <2> QED  BY <1>1, <1>4, StepsExist
  <1>6. \A i \in 1 .. n : \A X \in T : g[i][X] = next(X)
    <2> HIDE DEF next
    <2> QED  OBVIOUS
  <1> HIDE DEF g, next, n, T
  <1>7. Fits(F)
    <2>1. \A i \in 0 .. n : F[i] = IF i = 0 THEN {p} ELSE g[i][F[i - 1]]
      BY <1>5 DEF Applies
    <2>2. \A i \in 0 .. n : F[i] = IF i = 0 THEN {p} ELSE next(F[i - 1])
      <3> SUFFICES ASSUME NEW i \in 0 .. n, i # 0 PROVE F[i] = next(F[i - 1])
        BY <2>1
      <3>1. i \in 1 .. n /\ i - 1 \in 0 .. n
        BY <1>1
      <3> QED  BY <1>6, <2>1, <3>1
    <2>3. F = [i \in 0 .. n |-> F[i]]
      OBVIOUS
    <2> QED  BY <2>2, <2>3
  <1>8. Fits(after)
    <2> HIDE DEF Fits
    <2> QED  BY <1>7
  <1>9. after[0] = {p} /\ \A i \in 1 .. n : after[i] = next(after[i - 1])
    <2>1. \A i \in 0 .. n : after[i] = IF i = 0 THEN {p} ELSE next(after[i - 1])
      BY <1>8
    <2>2. 0 \in 0 .. n /\ \A i \in 1 .. n : i \in 0 .. n /\ i # 0
      BY <1>1
    <2> QED  BY <2>1, <2>2
  <1> HIDE DEF after, Fits
  <1> DEFINE S == {i \in 0 .. n : /\ after[i] \in T /\ p \in after[i]
                                  /\ Closed(heap, after[i]) \/ Cardinality(after[i] \cap Blocks) >= i + 1}
  <1>10. 0 \in S
    <2>1. {p} \cap Blocks = {p} /\ Cardinality({p}) = 1
      BY FS_Singleton
    <2>2. 0 \in 0 .. n
      BY <1>1
    <2>3. after[0] \cap Blocks = {p} /\ p \in after[0]
      BY <1>9, <2>1
    <2>5. PICK Z : Z = after[0] \cap Blocks
      OBVIOUS
    <2>6. Cardinality(Z) = 1
      BY <2>1, <2>3, <2>5
    <2>4. Cardinality(after[0] \cap Blocks) >= 0 + 1
      BY <2>5, <2>6
    <2> QED  BY <1>1, <1>9, <2>2, <2>3, <2>4
  <1>11. ASSUME NEW i \in 1 .. n, i - 1 \in S PROVE i \in S
    <2>6. PICK X \in T : X = after[i - 1]
      BY <1>11
    <2>7. PICK Y : Y = after[i]
      OBVIOUS
    <2>1. X = after[i - 1] /\ Y = after[i] /\ Y = next(X)
      BY <1>9, <2>6, <2>7
    <2>2. /\ p \in X
          /\ Closed(heap, X) \/ Cardinality(X \cap Blocks) >= i - 1 + 1
      BY <1>11, <2>1
    <2>3. /\ Y \in SUBSET Refd /\ X \subseteq Y
          /\ Closed(heap, X) => Y \cap Blocks = X \cap Blocks
          /\ ~ Closed(heap, X) => Cardinality(Y \cap Blocks) >= Cardinality(X \cap Blocks) + 1
      BY <2>1, ReachStep DEF T, next
    <2>4. CASE Closed(heap, X)
      <3>1. Closed(heap, Y)
        BY <2>3, <2>4 DEF Closed
      <3>2. i \in 0 .. n
        BY <1>1
      <3> QED  BY <2>1, <2>2, <2>3, <3>1, <3>2 DEF T
    <2>5. CASE ~ Closed(heap, X)
      <3>1. X \cap Blocks \subseteq Blocks /\ Y \cap Blocks \subseteq Blocks
        OBVIOUS
      <3>2. Cardinality(X \cap Blocks) \in Nat /\ Cardinality(Y \cap Blocks) \in Nat
        BY <1>1, <3>1, FS_Subset, FS_CardinalityType
      <3>3. Cardinality(Y \cap Blocks) >= i + 1
        BY <2>2, <2>3, <2>5, <3>2
      <3>4. i \in 0 .. n
        BY <1>1
      <3> QED  BY <2>1, <2>2, <2>3, <3>3, <3>4 DEF T
    <2> QED  BY <2>4, <2>5
  <1> HIDE DEF S
  <1>12. n \in S
    BY <1>1, <1>10, <1>11, ByTurns
  <1>13. PICK Z : Z = after[n]
    OBVIOUS
  <1>14. p \in Z /\ (Closed(heap, Z) \/ Cardinality(Z \cap Blocks) >= n + 1)
    BY <1>12, <1>13 DEF S
  <1>15. Cardinality(Z \cap Blocks) <= n /\ Cardinality(Z \cap Blocks) \in Nat
    <2>1. Z \cap Blocks \subseteq Blocks
      OBVIOUS
    <2>2. IsFiniteSet(Z \cap Blocks) /\ Cardinality(Z \cap Blocks) <= Cardinality(Blocks)
      BY <1>1, <2>1, FS_Subset
    <2> QED  BY <1>1, <2>2, FS_CardinalityType
  <1> QED  BY <1>1, <1>2, <1>13, <1>14, <1>15

\* Every value ranks above those that it has
Ranks(rank, h) ==
    /\ rank \in [Blocks -> Nat]
    /\ \A q, r \in Blocks : RefsIn(Inside(h[q]), r) > 0 => rank[r] < rank[q]

Ranked(h) == \E rank : Ranks(rank, h)

\* A value that takes another one from which it is not reached makes no loop.
LEMMA RanksRaised ==
    ASSUME NEW h, NEW rank, Ranks(rank, h), NEW C, Closed(h, C), NEW val \in C \cap Blocks,
           NEW p \in Blocks, p \notin C,
           NEW g, \A q, r \in Blocks : RefsIn(Inside(g[q]), r) > 0 =>
                     RefsIn(Inside(h[q]), r) > 0 \/ (q = p /\ r = val)
    PROVE  Ranked(g)
  <1> DEFINE new == [q \in Blocks |-> IF q \in C THEN rank[q] ELSE rank[q] + rank[val] + 1]
  <1>1. rank \in [Blocks -> Nat] /\ \A q, r \in Blocks : RefsIn(Inside(h[q]), r) > 0 => rank[r] < rank[q]
    BY DEF Ranks
  <1>2. new \in [Blocks -> Nat]
    BY <1>1
  <1>3. ASSUME NEW q \in Blocks, NEW r \in Blocks, RefsIn(Inside(g[q]), r) > 0 PROVE new[r] < new[q]
    <2>1. rank[q] \in Nat /\ rank[r] \in Nat /\ rank[val] \in Nat
      BY <1>1
    <2>2. CASE RefsIn(Inside(h[q]), r) > 0
      <3>1. rank[r] < rank[q] /\ (q \in C => r \in C)
        BY <1>1, <2>2 DEF Closed
      <3> QED  BY <2>1, <3>1
    <2>3. CASE q = p /\ r = val
      BY <2>1, <2>3
    <2> QED  BY <1>3, <2>2, <2>3
  <1> HIDE DEF new
  <1>4. Ranks(new, g)
    BY <1>2, <1>3 DEF Ranks
  <1> QED  BY <1>4 DEF Ranked

\* Values that lose references are ranked as before.
LEMMA RanksStay ==
    ASSUME NEW h, Ranked(h), NEW g,
           \A q, r \in Blocks : RefsIn(Inside(g[q]), r) > 0 => RefsIn(Inside(h[q]), r) > 0
    PROVE  Ranked(g)
  BY DEF Ranked, Ranks

-----------------------------------------------------------------------------
(***************************************************************************)
(* What every step keeps.                                                  *)
(***************************************************************************)
Counts(h, own) ==
    /\ Celled(h) /\ Short(h) /\ Ranked(h) /\ own \in [Blocks -> Nat]
    /\ \A q \in Blocks : h[q].refs = own[q] + HeldIn(h, q)

\* While p still has the references of the list, they were put
Between(g, h, own, p, todo) ==
    /\ Celled(g) /\ g[p] = h[p] /\ \A q \in Blocks : SameInside(h[q], g[q])
    /\ \A q \in Blocks : g[q].refs + RefsIn(todo, q) = own[q] + HeldIn(g, q)

\* What is short, and has no loops, stays so when values go.
LEMMA LeftShort ==
    ASSUME NEW h, Celled(h), Short(h), NEW g, Celled(g), \A q \in Blocks : SameInside(h[q], g[q])
    PROVE  /\ Short(g)
           /\ \A q, r \in Blocks : RefsIn(Inside(g[q]), r) > 0 => RefsIn(Inside(h[q]), r) > 0
  <1>1. ASSUME NEW q \in Blocks
        PROVE  /\ Len(g[q].array.list) <= MaxIndex + 1
               /\ \A r \in Blocks : RefsIn(Inside(g[q]), r) > 0 => RefsIn(Inside(h[q]), r) > 0
    <2>1. PICK x, y : x = h[q] /\ y = g[q]
      OBVIOUS
    <2>2. Cell(y) /\ SameInside(x, y) /\ Len(x.array.list) <= MaxIndex + 1
      BY <2>1 DEF Celled, Short
    <2>3. Inside(y) = <<>> \/ Inside(y) = Inside(x)
      BY <2>2, InsideLeft
    <2>4. \A r \in Blocks : RefsIn(Inside(y), r) > 0 => RefsIn(Inside(x), r) > 0
      BY <2>3, RefsOfOne
    <2>5. Len(y.array.list) <= MaxIndex + 1
      <3>1. Len(<<>>) <= MaxIndex + 1
        BY JsonStoreAssumption
      <3>2. y.type = "free" => y.array.list = <<>>
        BY <2>2 DEF Cell, Free, NoArray
      <3> QED  BY <2>2, <3>1, <3>2 DEF SameInside
    <2> QED  BY <2>1, <2>4, <2>5
  <1> QED  BY <1>1 DEF Short

\* What a value has is put while it has it: it is not reached from there.
LEMMA PutInside ==
    ASSUME NEW h, Heaped(h), NEW own, Counts(h, own), NEW p \in Blocks, NEW todo \in Seq(Refd),
           Len(todo) <= 2, \A q \in Blocks : RefsIn(todo, q) <= RefsIn(Inside(h[p]), q)
    PROVE  Between(PutAll(h, todo), h, own, p, todo)
  <1>1. /\ Celled(h) /\ Short(h) /\ Ranked(h) /\ own \in [Blocks -> Nat] /\ Lists(h)
        /\ \A q \in Blocks : h[q].refs = own[q] + HeldIn(h, q)
    BY CellsList DEF Counts
  <1>2. PICK rank : Ranks(rank, h)
    BY <1>1 DEF Ranked
  <1>3. rank \in [Blocks -> Nat] /\ \A q, r \in Blocks : RefsIn(Inside(h[q]), r) > 0 => rank[r] < rank[q]
    BY <1>2 DEF Ranks
  <1> DEFINE D == {q \in Blocks : rank[q] < rank[p]}
             ext == [q \in Blocks |-> own[q] - RefsIn(todo, q)]
  <1>4. \A q \in Blocks : RefsIn(todo, q) \in Nat /\ RefsIn(Inside(h[p]), q) \in Nat /\ HeldIn(h, q) \in Nat
    <2>1. \A q : RefsIn(todo, q) \in Nat
      BY RefsAre
    <2>2. \A q : HeldIn(h, q) \in Nat
      BY <1>1, HeldTyped
    <2>3. \A q : RefsIn(Inside(h[p]), q) \in Nat
      BY <1>1, HeldMember
    <2> QED  BY <2>1, <2>2, <2>3
  <1>5. ext \in [Blocks -> Int] /\ \A q \in Blocks : ext[q] = own[q] - RefsIn(todo, q)
    BY <1>1, <1>4
  <1>6. D \subseteq Blocks /\ p \notin D
    BY <1>3
  <1>7. ASSUME NEW q \in Blocks, rank[q] <= rank[p] PROVE Inside(h[q]) \in Seq(D \cup {NULL})
    <2>1. PICK w \in Seq(Refd) : w = Inside(h[q])
      BY <1>1 DEF Lists
    <2>2. \A r \in Refd : RefsIn(w, r) > 0 => r \in D \cup {NULL}
      BY <1>3, <1>7, <2>1 DEF Refd
    <2> HIDE DEF D
    <2>3. w \in Seq(D \cup {NULL})
      BY <2>2, RefsWithin
    <2> QED  BY <2>1, <2>3
  <1>8. todo \in Seq(D \cup {NULL})
    <2>1. \A r \in Refd : RefsIn(todo, r) > 0 => r \in D \cup {NULL}
      <3> SUFFICES ASSUME NEW r \in Blocks, RefsIn(todo, r) > 0 PROVE rank[r] < rank[p]
        BY DEF Refd
      <3>1. RefsIn(Inside(h[p]), r) > 0
        BY <1>4
      <3> QED  BY <1>3, <3>1
    <2> HIDE DEF D
    <2> QED  BY <2>1, RefsWithin
  <1>9. \A q \in D : Inside(h[q]) \in Seq(D \cup {NULL})
    <2>1. \A q \in D : q \in Blocks /\ rank[q] <= rank[p]
      BY <1>3
    <2> HIDE DEF D
    <2> QED  BY <1>7, <2>1
  <1> HIDE DEF D, ext
  <1>10. \A q \in Blocks : ext[q] + Kept(h, p, q) >= 0
    BY <1>1, <1>4, <1>5 DEF Kept
  <1>11. Setting(h, D, ext, p)
    BY <1>1, <1>5, <1>6, <1>9, <1>10 DEF Setting
  <1>12. \A q \in Blocks : h[q].refs = ext[q] + HeldIn(h, q) + RefsIn(todo, q)
    BY <1>1, <1>4, <1>5
  <1>13. Len(todo) + Weight(h) <= Number * (TopSize + MaxIndex + 2)
    <2>1. Len(todo) \in Nat
      OBVIOUS
    <2> QED  BY <1>1, <2>1, PutsEnd
  <1>14. PICK g : g = PutAll(h, todo)
    OBVIOUS
  <1>15. After(g, h, D, ext)
    BY <1>8, <1>11, <1>12, <1>13, <1>14, PutAllCounts
  <1>16. /\ Celled(g) /\ \A q \in Blocks : SameInside(h[q], g[q])
         /\ \A q \in Blocks \ D : g[q] = h[q]
         /\ \A q \in Blocks : g[q].refs = ext[q] + HeldIn(g, q)
    BY <1>15 DEF After
  <1>17. \A q : HeldIn(g, q) \in Nat
    BY <1>16, CellsList, HeldTyped
  <1>18. \A q \in Blocks : g[q].refs + RefsIn(todo, q) = own[q] + HeldIn(g, q)
    <2> SUFFICES ASSUME NEW q \in Blocks PROVE g[q].refs + RefsIn(todo, q) = own[q] + HeldIn(g, q)
      OBVIOUS
    <2>1. PICK a \in Nat, b \in Nat, c \in Nat : a = RefsIn(todo, q) /\ b = own[q] /\ c = HeldIn(g, q)
      BY <1>1, <1>4, <1>17
    <2>2. g[q].refs = b - a + c
      BY <1>5, <1>16, <2>1
    <2> QED  BY <2>1, <2>2
  <1> QED  BY <1>6, <1>14, <1>16, <1>18 DEF Between

\* A reference of the caller is put.
LEMMA PutOwned ==
    ASSUME NEW h, Heaped(h), NEW own, Counts(h, own), NEW p \in Blocks, own[p] > 0,
           NEW less, less = [own EXCEPT ![p] = @ - 1]
    PROVE  Counts(PutAll(h, <<p>>), less)
  <1>1. /\ Celled(h) /\ Short(h) /\ Ranked(h) /\ own \in [Blocks -> Nat] /\ Lists(h)
        /\ \A q \in Blocks : h[q].refs = own[q] + HeldIn(h, q)
    BY CellsList DEF Counts
  <1>2. less \in [Blocks -> Nat] /\ \A q \in Blocks : less[q] = own[q] - One(p, q)
    BY <1>1 DEF One
  <1>3. Setting(h, Blocks, less, NULL)
    <2>1. Blocks \cup {NULL} = Refd
      BY DEF Refd
    <2>2. \A q \in Blocks : less[q] \in Int /\ less[q] + Kept(h, NULL, q) >= 0
      BY <1>2, BlocksAre DEF Kept
    <2>3. less \in [Blocks -> Int]
      BY <1>2
    <2> QED  BY <1>1, <2>1, <2>2, <2>3, BlocksAre DEF Setting, Lists
  <1> DEFINE todo == <<p>>
  <1>4. todo \in Seq(Blocks \cup {NULL}) /\ Len(todo) = 1
    OBVIOUS
  <1>5. \A q : RefsIn(todo, q) = One(p, q)
    BY RefsOfOne
  <1> HIDE DEF todo
  <1>6. \A q \in Blocks : h[q].refs = less[q] + HeldIn(h, q) + RefsIn(todo, q)
    <2>1. \A q : HeldIn(h, q) \in Nat
      BY <1>1, HeldTyped
    <2>2. \A q \in Blocks : One(p, q) \in Nat /\ own[q] \in Nat
      BY <1>1 DEF One
    <2> QED  BY <1>1, <1>2, <1>5, <2>1, <2>2
  <1>7. Len(todo) + Weight(h) <= Number * (TopSize + MaxIndex + 2)
    BY <1>1, <1>4, PutsEnd
  <1>8. PICK g : g = PutAll(h, todo)
    OBVIOUS
  <1>9. After(g, h, Blocks, less)
    BY <1>3, <1>4, <1>6, <1>7, <1>8, PutAllCounts
  <1>10. /\ Celled(g) /\ \A q \in Blocks : SameInside(h[q], g[q])
         /\ \A q \in Blocks : g[q].refs = less[q] + HeldIn(g, q)
    BY <1>9 DEF After
  <1>11. Short(g) /\ \A q, r \in Blocks : RefsIn(Inside(g[q]), r) > 0 => RefsIn(Inside(h[q]), r) > 0
    BY <1>1, <1>10, LeftShort
  <1>12. Ranked(g)
    BY <1>1, <1>11, RanksStay
  <1> QED  BY <1>2, <1>8, <1>10, <1>11, <1>12 DEF Counts, todo

\* What remains of the caller's references when it gives one away
Given(val) == IF val = NULL THEN owned ELSE [owned EXCEPT ![val] = @ - 1]

\* Where the references of the list were, p has one to val
Exchanged(h, g, p, todo, val) ==
    /\ h = [q \in Blocks |-> h[q]] /\ \A q \in Blocks : q # p => h[q] = g[q]
    /\ Cell(h[p]) /\ h[p].refs = g[p].refs /\ Len(h[p].array.list) <= MaxIndex + 1
    /\ \A q \in Blocks : RefsIn(Inside(h[p]), q) + RefsIn(todo, q)
                            = RefsIn(Inside(g[p]), q) + One(val, q)

\* The value gets what is given, for what was put.
LEMMA Contents ==
    ASSUME Counts(heap, owned), NEW p \in Blocks, NEW todo \in Seq(Refd), NEW g,
           Between(g, heap, owned, p, todo), NEW val \in Givable(p),
           NEW h, Exchanged(h, g, p, todo, val)
    PROVE  Counts(h, Given(val))
  <1>1. /\ Celled(heap) /\ Short(heap) /\ Ranked(heap) /\ owned \in [Blocks -> Nat] /\ Lists(heap)
    BY CellsList DEF Counts
  <1>2. /\ Celled(g) /\ \A q \in Blocks : SameInside(heap[q], g[q])
        /\ \A q \in Blocks : g[q].refs + RefsIn(todo, q) = owned[q] + HeldIn(g, q)
    BY DEF Between
  <1>3. Celled(h) /\ Lists(h) /\ Lists(g)
    BY <1>2, CellsList DEF Celled, Exchanged
  <1>4. val \in Refd /\ (val # NULL => val \in Blocks /\ owned[val] > 0 /\ p \notin Reach(val))
    BY DEF Givable, Refd
  <1>5. Given(val) \in [Blocks -> Nat] /\ \A q \in Blocks : Given(val)[q] = owned[q] - One(val, q)
    BY <1>1, <1>4, BlocksAre DEF Given, One
  <1>6. Short(g) /\ \A q, r \in Blocks : RefsIn(Inside(g[q]), r) > 0 => RefsIn(Inside(heap[q]), r) > 0
    BY <1>1, <1>2, LeftShort
  <1>7. Short(h)
    BY <1>6 DEF Short, Exchanged
  <1>8. \A q \in Blocks : /\ RefsIn(Inside(h[p]), q) \in Nat /\ RefsIn(todo, q) \in Nat
                          /\ RefsIn(Inside(g[p]), q) \in Nat /\ One(val, q) \in Nat
                          /\ HeldIn(g, q) \in Nat /\ HeldIn(h, q) \in Nat
    <2>1. \A q : RefsIn(Inside(h[p]), q) \in Nat /\ RefsIn(Inside(g[p]), q) \in Nat
      BY <1>3, HeldMember
    <2>2. \A q : RefsIn(todo, q) \in Nat /\ HeldIn(g, q) \in Nat /\ HeldIn(h, q) \in Nat
      BY <1>3, RefsAre, HeldTyped
    <2> QED  BY <2>1, <2>2 DEF One
  <1>9. ASSUME NEW q \in Blocks PROVE h[q].refs = Given(val)[q] + HeldIn(h, q)
    <2>1. \A r \in Blocks : r # p => Inside(h[r]) = Inside(g[r])
      BY DEF Exchanged
    <2>2. HeldIn(h, q) + RefsIn(Inside(g[p]), q) = HeldIn(g, q) + RefsIn(Inside(h[p]), q)
      BY <1>3, <2>1, HeldChange
    <2>3. h[q].refs = g[q].refs /\ g[q].refs \in Nat
      BY <1>2 DEF Celled, Cell, Exchanged
    <2>4. PICK a \in Nat, b \in Nat, c \in Nat, d \in Nat, e \in Nat, f \in Nat, o \in Nat, r \in Nat :
             /\ a = HeldIn(h, q) /\ b = RefsIn(Inside(g[p]), q) /\ c = HeldIn(g, q)
             /\ d = RefsIn(Inside(h[p]), q) /\ e = RefsIn(todo, q) /\ f = One(val, q)
             /\ o = owned[q] /\ r = g[q].refs
      BY <1>1, <1>8, <2>3
    <2>5. a + b = c + d
      BY <2>2, <2>4
    <2>6. d + e = b + f
      BY <2>4 DEF Exchanged
    <2>7. r + e = o + c
      BY <1>2, <2>4
    <2>8. Given(val)[q] = o - f
      BY <1>5, <2>4
    <2>9. r = (o - f) + a
      <3>1. a + e = c + f
        BY <2>5, <2>6
      <3> QED  BY <2>7, <3>1
    <2> QED  BY <2>3, <2>4, <2>8, <2>9
  <1>10. \A q, r \in Blocks : RefsIn(Inside(h[q]), r) > 0 =>
            RefsIn(Inside(heap[q]), r) > 0 \/ (q = p /\ r = val /\ val # NULL)
    <2> SUFFICES ASSUME NEW q \in Blocks, NEW r \in Blocks, RefsIn(Inside(h[q]), r) > 0,
                        ~ (q = p /\ r = val /\ val # NULL)
                 PROVE  RefsIn(Inside(heap[q]), r) > 0
      OBVIOUS
    <2>1. CASE q # p
      <3>1. h[q] = g[q]
        BY <2>1 DEF Exchanged
      <3> QED  BY <1>6, <3>1
    <2>2. CASE q = p
      <3>1. r # val
        BY <2>2, BlocksAre
      <3>2. One(val, r) = 0
        BY <3>1 DEF One
      <3>3. RefsIn(Inside(g[p]), r) > 0
        <4>1. PICK a \in Nat, b \in Nat, c \in Nat :
                 a = RefsIn(Inside(h[p]), r) /\ b = RefsIn(todo, r) /\ c = RefsIn(Inside(g[p]), r)
          BY <1>8
        <4>2. a + b = c + 0
          BY <3>2, <4>1 DEF Exchanged
        <4>3. a > 0
          BY <2>2, <4>1
        <4> QED  BY <4>1, <4>2, <4>3
      <3> QED  BY <1>6, <2>2, <3>3
    <2> QED  BY <2>1, <2>2
  <1>11. Ranked(h)
    <2>1. CASE val = NULL
      BY <1>1, <1>10, <2>1, RanksStay
    <2>2. CASE val # NULL
      <3>1. PICK rank : Ranks(rank, heap)
        BY <1>1 DEF Ranked
      <3>2. PICK C : C = Reach(val)
        OBVIOUS
      <3>3. val \in C \cap Blocks /\ Closed(heap, C) /\ p \notin C
        BY <1>1, <1>4, <2>2, <3>2, ReachClosed
      <3>4. \A q, r \in Blocks : RefsIn(Inside(h[q]), r) > 0 =>
               RefsIn(Inside(heap[q]), r) > 0 \/ (q = p /\ r = val)
        BY <1>10
      <3> QED  BY <3>1, <3>3, <3>4, RanksRaised
    <2> QED  BY <2>1, <2>2
  <1> QED  BY <1>3, <1>5, <1>7, <1>9, <1>11 DEF Counts

\* Nothing was put, so far.
LEMMA NothingPut ==
    ASSUME NEW h, NEW own, Counts(h, own), NEW p \in Blocks
    PROVE  Between(h, h, own, p, <<>>) /\ <<>> \in Seq(Refd)
  <1>1. \A q \in Blocks : h[q].refs + RefsIn(<<>>, q) = own[q] + HeldIn(h, q)
    <2>1. \A q \in Blocks : h[q].refs \in Nat
      BY DEF Counts, Celled, Cell
    <2> QED  BY <2>1, RefsOfOne DEF Counts
  <1>2. \A q \in Blocks : SameInside(h[q], h[q])
    BY DEF SameInside
  <1> QED  BY <1>1, <1>2 DEF Between, Counts

-----------------------------------------------------------------------------
(***************************************************************************)
(* What the operations on tables and arrays do to the values in them.      *)
(***************************************************************************)
\* Where the references of todo were, there is one to val
Changes(v, w, todo, val) ==
    /\ v \in Seq(Nat) /\ w \in Seq(Nat)
    /\ \A p \in Nat \ {NULL} : RefsIn(w, p) + RefsIn(todo, p) = RefsIn(v, p) + One(val, p)

\* There is nothing in the list that was not there or given.
LEMMA StaysRefd ==
    ASSUME NEW v, NEW w, NEW todo, NEW val \in Refd, Changes(v, w, todo, val), v \in Seq(Refd),
           todo \in Seq(Refd)
    PROVE  w \in Seq(Refd)
  <1>1. w \in Seq(Nat)
    BY DEF Changes
  <1>2. ASSUME NEW p \in Nat, RefsIn(w, p) > 0 PROVE p \in Refd
    <2>1. CASE p = NULL
      BY <2>1 DEF Refd
    <2>2. CASE p # NULL /\ p # val
      <3>1. RefsIn(w, p) + RefsIn(todo, p) = RefsIn(v, p) + 0
        BY <2>2 DEF Changes, One
      <3>2. RefsIn(w, p) \in Nat /\ RefsIn(todo, p) \in Nat /\ RefsIn(v, p) \in Nat
        BY <1>1, RefsAre
      <3>3. RefsIn(v, p) > 0
        BY <1>2, <3>1, <3>2
      <3>4. PICK i \in 1 .. Len(v) : v[i] = p
        BY <3>3, RefsIf
      <3> QED  BY <3>4
    <2>3. CASE p = val
      BY <2>3
    <2> QED  BY <2>1, <2>2, <2>3
  <1> QED  BY <1>1, <1>2, RefsWithin

\* A value is added.
LEMMA AddedChanges ==
    ASSUME NEW q, NEW w, NEW val, Added(q, w, val)
    PROVE  Changes(q, w, <<>>, val)
  <1>1. PICK j \in Nat : j = Len(q) + 1
    BY DEF Added
  <1>2. Rewritten(q, w, j)
    <2>1. PICK n \in Nat : n = Len(q) /\ Len(w) = n + 1 /\ j = n + 1
      BY <1>1 DEF Added
    <2>2. \A i \in 1 .. n + 1 : i # n + 1 => i \in 1 .. n
      OBVIOUS
    <2> QED  BY <2>1, <2>2 DEF Added, Rewritten
  <1>3. ~ (j <= Len(q)) /\ w[j] = val
    BY <1>1 DEF Added
  <1>4. ASSUME NEW p \in Nat \ {NULL}
        PROVE  RefsIn(w, p) + RefsIn(<<>>, p) = RefsIn(q, p) + One(val, p)
    <2>1. RefsIn(w, p) + One(IF j <= Len(q) THEN q[j] ELSE NULL, p) = RefsIn(q, p) + One(w[j], p)
      BY <1>2, RefsRewritten
    <2>2. One(NULL, p) = 0 /\ RefsIn(<<>>, p) = 0
      BY RefsOfOne DEF One
    <2> QED  BY <1>3, <2>1, <2>2
  <1> QED  BY <1>4 DEF Changes, Added

\* A place is rewritten.
LEMMA RewrittenChanges ==
    ASSUME NEW q, NEW w, NEW j, Rewritten(q, w, j), NEW old, old = IF j <= Len(q) THEN q[j] ELSE NULL,
           NEW val, val = w[j]
    PROVE  Changes(q, w, <<old>>, val)
  <1>1. ASSUME NEW p \in Nat \ {NULL}
        PROVE  RefsIn(w, p) + RefsIn(<<old>>, p) = RefsIn(q, p) + One(val, p)
    <2>1. RefsIn(w, p) + One(IF j <= Len(q) THEN q[j] ELSE NULL, p) = RefsIn(q, p) + One(w[j], p)
      BY RefsRewritten
    <2>2. RefsIn(<<old>>, p) = One(old, p)
      BY RefsOfOne
    <2> QED  BY <2>1, <2>2
  <1> QED  BY <1>1 DEF Changes, Rewritten

\* lh_table_insert()
LEMMA InsertChanges ==
    ASSUME NEW t, GoodTable(t), NEW key \in Keys, ~ HasKey(t, key), NEW val \in Nat, NEW nomem,
           TableInsert(t, key, val, nomem) # <<>>
    PROVE  Changes(TableValues(t), TableValues(TableInsert(t, key, val, nomem)[1]), <<>>, val)
  <1>1. CASE ~ TableFull(t)
    <2>1. Len(t.order) < t.size
      <3>1. t.count = Len(t.order) /\ t.size \in Nat /\ t.size >= 1
        BY JsonStoreAssumption DEF GoodTable, TableTyped
      <3>2. Len(t.order) \in Nat
        BY PlaceLeft
      <3> QED  BY <1>1, <3>1, <3>2 DEF TableFull
    <2>2. Added(TableValues(t), TableValues(Filled(t, key, val)), val)
      BY <2>1, FilledValues
    <2>3. TableInsert(t, key, val, nomem)[1] = Filled(t, key, val)
      BY <1>1 DEF TableInsert
    <2> QED  BY <2>2, <2>3, AddedChanges
  <1>2. CASE TableFull(t)
    <2> DEFINE w == TableResize(t)
    <2>1. t.size # TopSize /\ TableInsert(t, key, val, nomem) = << Filled(w, key, val) >>
      BY <1>2 DEF TableInsert
    <2>2. /\ GoodTable(w) /\ Len(w.order) < w.size /\ ~ HasKey(w, key) /\ Len(w.order) = Len(t.order)
          /\ \A j \in 1 .. Len(t.order) : TableValues(w)[j] = t.v[t.order[j]]
      BY <2>1, ResizeGood
    <2> HIDE DEF w
    <2>3. Added(TableValues(w), TableValues(Filled(w, key, val)), val)
      BY <2>2, FilledValues
    <2>4. /\ TableValues(t) \in Seq(Nat) /\ Len(TableValues(t)) = Len(t.order)
          /\ TableValues(w) \in Seq(Nat) /\ Len(TableValues(w)) = Len(w.order)
          /\ \A j \in 1 .. Len(t.order) : TableValues(t)[j] = t.v[t.order[j]]
      BY <2>2, GoodValues
    <2>5. TableValues(t) = TableValues(w)
      BY <2>2, <2>4, SameList
    <2> QED  BY <2>1, <2>3, <2>5, AddedChanges
  <1> QED  BY <1>1, <1>2

\* lh_table_delete_entry()
LEMMA DeleteChanges ==
    ASSUME NEW t, GoodTable(t), NEW n \in Places(t), t.k[n] \in Keys
    PROVE  /\ Changes(TableValues(t), TableValues(TableDelete(t, n)), <<t.v[n]>>, NULL)
           /\ \A p : RefsIn(<<t.v[n]>>, p) <= RefsIn(TableValues(t), p)
  <1> DEFINE w == TableDelete(t, n)
             v == TableValues(t)
             at == CHOOSE i \in 1 .. Len(t.order) : t.order[i] = n
  <1>1. PICK l \in Nat : l = Len(t.order)
    BY PlaceLeft
  <1>2. /\ t.order \in Seq(Places(t)) /\ v \in Seq(Nat) /\ Len(v) = l /\ t.v \in [Places(t) -> Nat]
        /\ \A i \in 1 .. l : v[i] = t.v[t.order[i]] /\ t.order[i] \in Places(t)
        /\ \A i, j \in 1 .. l : t.order[i] = t.order[j] => i = j
    BY <1>1, GoodValues DEF GoodTable, TableTyped, ListTrue
  <1>3. at \in 1 .. l /\ t.order[at] = n
    <2>1. \E i \in 1 .. Len(t.order) : t.order[i] = n
      BY DEF GoodTable, ListTrue
    <2> QED  BY <1>1, <2>1
  <1>4. w.v = [t.v EXCEPT ![n] = NULL] /\ w.order = RemoveAt(t.order, at) /\ GoodTable(w)
    <2> DEFINE k == [t.k EXCEPT ![n] = FREED]
               vv == [t.v EXCEPT ![n] = NULL]
               order == Unlinked(t, n)
               count == t.count - 1
    <2>1. w = Changed(t, k, vv, order, count)
      BY DEF TableDelete, Changed
    <2>2. order = RemoveAt(t.order, at)
      BY DEF Unlinked
    <2>3. GoodTable(w)
      BY DeleteGood
    <2>4. TableShape(t)
      BY DEF GoodTable, TableTyped
    <2> HIDE DEF w, k, vv, at, order, count
    <2>5. w = TableOf(t.size, k, vv, order, count)
      BY <2>1, <2>4, ChangedTable
    <2>6. w.v = vv /\ w.order = order
      BY <2>5, TableParts
    <2> QED  BY <2>2, <2>3, <2>6 DEF vv
  <1> HIDE DEF w, v, at
  <1>5. /\ RemoveAt(t.order, at) \in Seq(Places(t)) /\ Len(RemoveAt(t.order, at)) = l - 1
        /\ \A j \in 1 .. l - 1 : RemoveAt(t.order, at)[j] = IF j < at THEN t.order[j] ELSE t.order[j + 1]
    <2>1. PICK q \in Seq(Places(t)), i \in Nat : i \in 1 .. Len(q) /\ q = t.order /\ i = at
      BY <1>1, <1>2, <1>3
    <2>2. /\ RemoveAt(q, i) \in Seq(Places(t)) /\ Len(RemoveAt(q, i)) = Len(q) - 1
          /\ \A j \in 1 .. Len(q) - 1 : RemoveAt(q, i)[j] = IF j < i THEN q[j] ELSE q[j + 1]
      BY <2>1, RemovedAt
    <2> QED  BY <1>1, <2>1, <2>2
  <1>6. /\ RemoveAt(v, at) \in Seq(Nat) /\ Len(RemoveAt(v, at)) = l - 1
        /\ \A j \in 1 .. l - 1 : RemoveAt(v, at)[j] = IF j < at THEN v[j] ELSE v[j + 1]
    <2>1. PICK q \in Seq(Nat), i \in Nat : i \in 1 .. Len(q) /\ q = v /\ i = at
      BY <1>2, <1>3
    <2>2. /\ RemoveAt(q, i) \in Seq(Nat) /\ Len(RemoveAt(q, i)) = Len(q) - 1
          /\ \A j \in 1 .. Len(q) - 1 : RemoveAt(q, i)[j] = IF j < i THEN q[j] ELSE q[j + 1]
      BY <2>1, RemovedAt
    <2> QED  BY <1>2, <2>1, <2>2
  <1>7. TableValues(w) = RemoveAt(v, at)
    <2>1. /\ TableValues(w) \in Seq(Nat) /\ Len(TableValues(w)) = l - 1
          /\ \A j \in 1 .. l - 1 : TableValues(w)[j] = w.v[w.order[j]]
      <3>1. Len(w.order) = l - 1
        BY <1>4, <1>5
      <3>2. /\ TableValues(w) \in Seq(Nat) /\ Len(TableValues(w)) = Len(w.order)
            /\ \A i \in 1 .. Len(w.order) : TableValues(w)[i] = w.v[w.order[i]]
        BY <1>4, GoodValues
      <3> QED  BY <3>1, <3>2
    <2>2. ASSUME NEW j \in 1 .. l - 1 PROVE TableValues(w)[j] = RemoveAt(v, at)[j]
      <3>1. PICK i \in 1 .. l : i = (IF j < at THEN j ELSE j + 1) /\ i # at
        BY <1>3
      <3>2. w.order[j] = t.order[i] /\ RemoveAt(v, at)[j] = v[i]
        BY <1>4, <1>5, <1>6, <3>1
      <3>3. t.order[i] # n /\ t.order[i] \in Places(t)
        BY <1>2, <1>3, <3>1
      <3>4. w.v[t.order[i]] = t.v[t.order[i]]
        BY <1>2, <1>4, <3>3
      <3> QED  BY <1>2, <2>1, <3>2, <3>4
    <2> QED  BY <1>6, <2>1, <2>2, SameList
  <1>8. ASSUME NEW p
        PROVE  /\ RefsIn(TableValues(w), p) + RefsIn(<<t.v[n]>>, p) = RefsIn(v, p)
               /\ RefsIn(<<t.v[n]>>, p) <= RefsIn(v, p)
    <2>1. Tally(RemoveAt(v, at), {p}) = Tally(v, {p}) - OneIn(v[at], {p})
      BY <1>2, <1>3, TallyCut
    <2>2. /\ RefsIn(v, p) = Tally(v, {p}) /\ RefsIn(v, p) \in Nat
          /\ RefsIn(RemoveAt(v, at), p) = Tally(RemoveAt(v, at), {p})
          /\ RefsIn(RemoveAt(v, at), p) \in Nat
      BY <1>2, <1>6, RefsAre
    <2>3. OneIn(v[at], {p}) = One(v[at], p) /\ One(v[at], p) \in 0 .. 1
      BY OneIs
    <2>4. v[at] = t.v[n] /\ RefsIn(<<t.v[n]>>, p) = One(t.v[n], p)
      BY <1>2, <1>3, RefsOfOne
    <2>5. PICK a \in Nat, b \in Nat, c \in Nat :
             a = RefsIn(RemoveAt(v, at), p) /\ b = RefsIn(v, p) /\ c = RefsIn(<<t.v[n]>>, p)
      BY <2>2, <2>3, <2>4
    <2>6. a = b - c
      BY <2>1, <2>2, <2>3, <2>4, <2>5
    <2> QED  BY <1>7, <2>5, <2>6
  <1>9. \A p \in Nat \ {NULL} : One(NULL, p) = 0 /\ RefsIn(v, p) \in Nat
    BY <1>2, RefsAre DEF One
  <1>10. TableValues(w) \in Seq(Nat)
    BY <1>6, <1>7
  <1>11. \A p \in Nat \ {NULL} : RefsIn(TableValues(w), p) + RefsIn(<<t.v[n]>>, p) = RefsIn(v, p) + One(NULL, p)
    BY <1>8, <1>9
  <1> QED  BY <1>2, <1>8, <1>10, <1>11 DEF Changes, w, v

\* A value in a table is replaced.
LEMMA ReplaceChanges ==
    ASSUME NEW t, GoodTable(t), NEW n \in Places(t), t.k[n] \in Keys, NEW val \in Nat
    PROVE  /\ Changes(TableValues(t), TableValues([t EXCEPT !.v[n] = val]), <<t.v[n]>>, val)
           /\ \A p : RefsIn(<<t.v[n]>>, p) <= RefsIn(TableValues(t), p)
  <1> DEFINE w == [t EXCEPT !.v[n] = val]
             v == TableValues(t)
  <1>1. PICK l \in Nat : l = Len(t.order)
    BY PlaceLeft
  <1>2. /\ t.order \in Seq(Places(t)) /\ v \in Seq(Nat) /\ Len(v) = l /\ t.v \in [Places(t) -> Nat]
        /\ \A i \in 1 .. l : v[i] = t.v[t.order[i]] /\ t.order[i] \in Places(t)
        /\ \A i, j \in 1 .. l : t.order[i] = t.order[j] => i = j
    BY <1>1, GoodValues DEF GoodTable, TableTyped, ListTrue
  <1>3. PICK at \in 1 .. l : t.order[at] = n
    BY <1>1 DEF GoodTable, ListTrue
  <1>4. w.v = [t.v EXCEPT ![n] = val] /\ w.order = t.order /\ GoodTable(w)
    <2> DEFINE vv == [t.v EXCEPT ![n] = val]
    <2>1. t = TableOf(t.size, t.k, t.v, t.order, t.count)
      BY DEF GoodTable, TableTyped, TableShape
    <2>2. w = [t EXCEPT !.v = vv]
      OBVIOUS
    <2>3. GoodTable(w)
      BY ReplaceGood
    <2> HIDE DEF w, vv
    <2>4. w = TableOf(t.size, t.k, vv, t.order, t.count)
      BY <2>1, <2>2 DEF TableOf
    <2>5. w.v = vv /\ w.order = t.order
      BY <2>4, TableParts
    <2> QED  BY <2>3, <2>5 DEF vv
  <1> HIDE DEF w, v
  <1>5. /\ TableValues(w) \in Seq(Nat) /\ Len(TableValues(w)) = l
        /\ \A i \in 1 .. l : TableValues(w)[i] = w.v[t.order[i]]
    <2>1. Len(w.order) = l
      BY <1>1, <1>4
    <2>2. /\ TableValues(w) \in Seq(Nat) /\ Len(TableValues(w)) = Len(w.order)
          /\ \A i \in 1 .. Len(w.order) : TableValues(w)[i] = w.v[w.order[i]]
      BY <1>4, GoodValues
    <2> QED  BY <1>4, <2>1, <2>2
  <1>6. TableValues(w)[at] = val /\ v[at] = t.v[n]
    BY <1>2, <1>3, <1>4, <1>5
  <1>7. ASSUME NEW i \in 1 .. l, i # at PROVE TableValues(w)[i] = v[i]
    <2>1. t.order[i] # n /\ t.order[i] \in Places(t)
      BY <1>2, <1>3, <1>7
    <2>2. w.v[t.order[i]] = t.v[t.order[i]]
      BY <1>2, <1>4, <2>1
    <2> QED  BY <1>2, <1>5, <2>2
  <1>8. Rewritten(v, TableValues(w), at)
    BY <1>2, <1>5, <1>7 DEF Rewritten
  <1>9. t.v[n] = (IF at <= Len(v) THEN v[at] ELSE NULL)
    BY <1>2, <1>6
  <1>10. Changes(v, TableValues(w), <<t.v[n]>>, val)
    BY <1>6, <1>8, <1>9, RewrittenChanges
  <1>11. ASSUME NEW p PROVE RefsIn(<<t.v[n]>>, p) <= RefsIn(v, p)
    <2>1. RefsIn(<<t.v[n]>>, p) = One(t.v[n], p) /\ RefsIn(v, p) \in Nat
      BY <1>2, RefsOfOne, RefsAre
    <2>2. CASE t.v[n] = p
      <3>1. RefsIn(v, v[at]) > 0
        BY <1>2, <1>3, RefsIf
      <3> QED  BY <1>6, <2>1, <2>2, <3>1 DEF One
    <2>3. CASE t.v[n] # p
      BY <2>1, <2>3 DEF One
    <2> QED  BY <2>2, <2>3
  <1> QED  BY <1>10, <1>11 DEF w, v

\* array_list_put_idx()
LEMMA ArrayPutChanges ==
    ASSUME NEW a, GoodArray(a), NEW idx \in Nat, NEW val \in Nat,
           NEW old, old = IF idx < Len(a.list) THEN a.list[idx + 1] ELSE NULL
    PROVE  /\ Changes(a.list, ArrayPut(a, idx, val).list, <<old>>, val)
           /\ Len(ArrayPut(a, idx, val).list) = IF Len(a.list) <= idx THEN idx + 1 ELSE Len(a.list)
           /\ \A p : p # NULL => RefsIn(<<old>>, p) <= RefsIn(a.list, p)
  <1> DEFINE b == Expand(a, idx + 1)
             n == IF Len(b.list) <= idx THEN idx + 1 ELSE Len(b.list)
             list == [i \in 1 .. n |-> IF i = idx + 1 THEN val
                                       ELSE IF i <= Len(b.list) THEN b.list[i] ELSE NULL]
             w == ArrayPut(a, idx, val)
             q == a.list
  <1>1. w = [b EXCEPT !.list = list]
    BY DEF ArrayPut
  <1>2. ArrayShape(a) /\ q \in Seq(Nat)
    BY DEF GoodArray
  <1>3. ArrayShape(b) /\ b.list = q
    BY <1>2, ExpandGood
  <1>4. list = [i \in 1 .. n |-> IF i = idx + 1 THEN val ELSE IF i <= Len(q) THEN q[i] ELSE NULL]
        /\ n = IF Len(q) <= idx THEN idx + 1 ELSE Len(q)
    BY <1>3
  <1>5. PICK l \in Nat, j \in Nat : l = Len(q) /\ j = idx + 1
    BY <1>2
  <1> HIDE DEF b, list, w, q, n
  <1>6. w.list = list
    BY <1>1, <1>3 DEF ArrayShape
  <1>7. n \in Nat /\ l <= n /\ j \in 1 .. n
    BY <1>4, <1>5
  <1>8. \A i \in 1 .. n : list[i] = IF i = j THEN val ELSE IF i <= l THEN q[i] ELSE NULL
    BY <1>4, <1>5
  <1>9. list \in Seq(Nat) /\ Len(list) = n
    <2>1. \A i \in 1 .. n : i <= l => q[i] \in Nat
      BY <1>2, <1>5
    <2>2. \A i \in 1 .. n : list[i] \in Nat
      BY <1>8, <2>1 DEF NULL
    <2>3. list = [i \in 1 .. n |-> list[i]]
      BY <1>4
    <2> QED  BY <1>7, <2>2, <2>3
  <1>10. Rewritten(q, list, j)
    BY <1>2, <1>5, <1>7, <1>8, <1>9 DEF Rewritten
  <1>11. val = list[j] /\ old = IF j <= Len(q) THEN q[j] ELSE NULL
    <2>1. idx < Len(q) <=> j <= Len(q)
      BY <1>5
    <2> QED  BY <1>5, <1>7, <1>8, <2>1 DEF q
  <1>12. Changes(q, list, <<old>>, val)
    BY <1>10, <1>11, RewrittenChanges
  <1>13. ASSUME NEW p, p # NULL PROVE RefsIn(<<old>>, p) <= RefsIn(q, p)
    <2>1. RefsIn(<<old>>, p) = One(old, p) /\ RefsIn(q, p) \in Nat
      BY <1>2, RefsOfOne, RefsAre
    <2>2. CASE old = p
      <3>1. j \in 1 .. Len(q) /\ q[j] = p
        BY <1>5, <1>7, <1>11, <1>13, <2>2
      <3>2. RefsIn(q, q[j]) > 0
        BY <1>2, <3>1, RefsIf
      <3> QED  BY <2>1, <2>2, <3>1, <3>2 DEF One
    <2>3. CASE old # p
      BY <2>1, <2>3 DEF One
    <2> QED  BY <2>2, <2>3
  <1> QED  BY <1>4, <1>6, <1>9, <1>12, <1>13 DEF w, q

\* A part of a list
LEMMA PartOf ==
    ASSUME NEW T, NEW q \in Seq(T), NEW i \in Nat, NEW j \in Nat, i <= j, j <= Len(q)
    PROVE  /\ SubSeq(q, i + 1, j) \in Seq(T) /\ Len(SubSeq(q, i + 1, j)) = j - i
           /\ \A k \in 1 .. j - i : SubSeq(q, i + 1, j)[k] = q[i + k]
  <1>1. PICK n \in Nat : n = Len(q)
    OBVIOUS
  <1>2. \A k \in i + 1 .. j : k \in 1 .. n /\ q[k] \in T
    BY <1>1
  <1>3. SubSeq(q, i + 1, j) = [k \in 1 .. j - i |-> q[i + k]]
    <2>1. SubSeq(q, i + 1, j) = [k \in 1 .. (1 + j) - (i + 1) |-> q[(k + (i + 1)) - 1]]
      BY DEF SubSeq
    <2>2. (1 + j) - (i + 1) = j - i /\ \A k \in Nat : (k + (i + 1)) - 1 = i + k
      OBVIOUS
    <2> QED  BY <2>1, <2>2
  <1>4. \A k \in 1 .. j - i : q[i + k] \in T
    BY <1>2
  <1> QED  BY <1>3, <1>4

\* Two parts that follow each other in a list
LEMMA JoinedIs ==
    ASSUME NEW T, NEW x \in Seq(T), NEW y \in Seq(T), NEW q, NEW m, m = Len(x) + Len(y),
           \A k \in 1 .. Len(x) : x[k] = q[k], \A k \in 1 .. Len(y) : y[k] = q[Len(x) + k]
    PROVE  x \o y \in Seq(T) /\ Len(x \o y) = m /\ \A k \in 1 .. m : (x \o y)[k] = q[k]
  <1>1. PICK a \in Nat, b \in Nat : a = Len(x) /\ b = Len(y)
    OBVIOUS
  <1> DEFINE w == x \o y
  <1>2. /\ w \in Seq(T) /\ Len(w) = a + b
        /\ \A i \in 1 .. a : w[i] = x[i]
        /\ \A i \in 1 .. b : w[a + i] = y[i]
    BY <1>1
  <1> HIDE DEF w
  <1>3. ASSUME NEW k \in 1 .. a + b PROVE w[k] = q[k]
    <2>1. CASE k <= a
      BY <1>1, <1>2, <2>1
    <2>2. CASE k > a
      <3>1. PICK i \in 1 .. b : a + i = k
        <4>1. k - a \in 1 .. b /\ a + (k - a) = k
          BY <2>2
        <4> QED  BY <4>1
      <3> QED  BY <1>1, <1>2, <3>1
    <2> QED  BY <2>1, <2>2
  <1> QED  BY <1>1, <1>2, <1>3 DEF w

\* Three lists that make one
ThreeParts(q, x, y, z) ==
    /\ Len(q) = (Len(x) + Len(y)) + Len(z)
    /\ \A k \in 1 .. Len(x) : x[k] = q[k]
    /\ \A k \in 1 .. Len(y) : y[k] = q[Len(x) + k]
    /\ \A k \in 1 .. Len(z) : z[k] = q[(Len(x) + Len(y)) + k]

\* Three lists that make one, joined
LEMMA PartsJoin ==
    ASSUME NEW q \in Seq(Nat), NEW x \in Seq(Nat), NEW y \in Seq(Nat), NEW z \in Seq(Nat), ThreeParts(q, x, y, z)
    PROVE  (x \o y) \o z = q
  <1>1. PICK j \in Nat : j = Len(x) + Len(y)
    OBVIOUS
  <1>2. PICK n \in Nat : n = Len(q)
    OBVIOUS
  <1>3. PICK u : u = x \o y
    OBVIOUS
  <1>4. u \in Seq(Nat) /\ Len(u) = j /\ \A k \in 1 .. j : u[k] = q[k]
    <2>1. x \o y \in Seq(Nat) /\ Len(x \o y) = j /\ \A k \in 1 .. j : (x \o y)[k] = q[k]
      <3>1. (\A k \in 1 .. Len(x) : x[k] = q[k]) /\ (\A k \in 1 .. Len(y) : y[k] = q[Len(x) + k])
        BY DEF ThreeParts
      <3> QED  BY <1>1, <3>1, JoinedIs
    <2> QED  BY <1>3, <2>1
  <1>5. u \o z \in Seq(Nat) /\ Len(u \o z) = n /\ \A k \in 1 .. n : (u \o z)[k] = q[k]
    <2>1. (\A k \in 1 .. Len(u) : u[k] = q[k]) /\ (\A k \in 1 .. Len(z) : z[k] = q[Len(u) + k])
      BY <1>1, <1>4 DEF ThreeParts
    <2>2. n = Len(u) + Len(z)
      BY <1>1, <1>2, <1>4 DEF ThreeParts
    <2>3. u \in Seq(Nat)
      BY <1>4
    <2> QED  BY <2>1, <2>2, <2>3, JoinedIs
  <1>6. u \o z = q
    BY <1>2, <1>5, SameList
  <1> QED  BY <1>3, <1>6

\* A list without its middle part
LEMMA PartsChange ==
    ASSUME NEW q \in Seq(Nat), NEW x \in Seq(Nat), NEW y \in Seq(Nat), NEW z \in Seq(Nat), ThreeParts(q, x, y, z)
    PROVE  /\ Changes(q, x \o z, y, NULL) /\ Len(x \o z) <= Len(q)
           /\ \A p : RefsIn(y, p) <= RefsIn(q, p)
  <1>1. (x \o y) \o z = q
    BY PartsJoin
  <1>2. x \o y \in Seq(Nat) /\ x \o z \in Seq(Nat) /\ Len(x \o z) = Len(x) + Len(z)
    OBVIOUS
  <1>3. ASSUME NEW p
        PROVE  /\ RefsIn(x \o z, p) + RefsIn(y, p) = RefsIn(q, p) /\ RefsIn(y, p) <= RefsIn(q, p)
               /\ RefsIn(q, p) \in Nat
    <2>2. RefsIn((x \o y) \o z, p) = RefsIn(x \o y, p) + RefsIn(z, p)
      BY <1>2, RefsJoin
    <2>3. RefsIn(x \o y, p) = RefsIn(x, p) + RefsIn(y, p)
      BY RefsJoin
    <2>4. RefsIn(x \o z, p) = RefsIn(x, p) + RefsIn(z, p)
      BY RefsJoin
    <2>5. RefsIn(x, p) \in Nat /\ RefsIn(y, p) \in Nat /\ RefsIn(z, p) \in Nat
      BY RefsAre
    <2>6. PICK e \in Nat, f \in Nat, g \in Nat :
             e = RefsIn(x, p) /\ f = RefsIn(y, p) /\ g = RefsIn(z, p)
      BY <2>5
    <2>7. RefsIn(q, p) = (e + f) + g /\ RefsIn(x \o z, p) = e + g
      BY <1>1, <2>2, <2>3, <2>4, <2>6
    <2>8. (e + g) + f = (e + f) + g /\ f <= (e + f) + g /\ (e + f) + g \in Nat
      OBVIOUS
    <2> QED  BY <2>6, <2>7, <2>8
  <1>4. Len(x \o z) <= Len(q)
    <2>1. PICK e \in Nat, f \in Nat, g \in Nat : e = Len(x) /\ f = Len(y) /\ g = Len(z)
      OBVIOUS
    <2>2. Len(q) = (e + f) + g
      BY <2>1 DEF ThreeParts
    <2> QED  BY <1>2, <2>1, <2>2
  <1>5. \A p \in Nat \ {NULL} : RefsIn(x \o z, p) + RefsIn(y, p) = RefsIn(q, p) + One(NULL, p)
    BY <1>3 DEF One
  <1> QED  BY <1>2, <1>3, <1>4, <1>5 DEF Changes

\* The parts before a place, from it on and after them
LEMMA PartsAre ==
    ASSUME NEW q \in Seq(Nat), NEW i \in Nat, NEW j \in Nat, i <= j, j <= Len(q)
    PROVE  /\ SubSeq(q, 1, i) \in Seq(Nat) /\ SubSeq(q, i + 1, j) \in Seq(Nat)
           /\ SubSeq(q, j + 1, Len(q)) \in Seq(Nat) /\ Len(SubSeq(q, i + 1, j)) = j - i
           /\ ThreeParts(q, SubSeq(q, 1, i), SubSeq(q, i + 1, j), SubSeq(q, j + 1, Len(q)))
  <1>1. PICK n \in Nat : n = Len(q)
    OBVIOUS
  <1>2. PICK x : x = SubSeq(q, 1, i)
    OBVIOUS
  <1>3. PICK y : y = SubSeq(q, i + 1, j)
    OBVIOUS
  <1>4. PICK z : z = SubSeq(q, j + 1, n)
    OBVIOUS
  <1>5. x \in Seq(Nat) /\ Len(x) = i /\ \A k \in 1 .. i : x[k] = q[k]
    <2>1. 0 + 1 = 1 /\ i - 0 = i /\ 0 <= i /\ \A k \in 1 .. i : 0 + k = k
      OBVIOUS
    <2>2. i <= Len(q)
      BY <1>1
    <2>3. /\ SubSeq(q, 0 + 1, i) \in Seq(Nat) /\ Len(SubSeq(q, 0 + 1, i)) = i - 0
          /\ \A k \in 1 .. i - 0 : SubSeq(q, 0 + 1, i)[k] = q[0 + k]
      BY <2>1, <2>2, PartOf
    <2> QED  BY <1>2, <2>1, <2>3
  <1>6. y \in Seq(Nat) /\ Len(y) = j - i /\ \A k \in 1 .. j - i : y[k] = q[i + k]
    BY <1>3, PartOf
  <1>7. z \in Seq(Nat) /\ Len(z) = n - j /\ \A k \in 1 .. n - j : z[k] = q[j + k]
    <2>1. n <= Len(q) /\ j <= n
      BY <1>1
    <2> QED  BY <1>4, <2>1, PartOf
  <1>8. ThreeParts(q, x, y, z)
    <2>1. i + (j - i) = j /\ j + (n - j) = n
      OBVIOUS
    <2> QED  BY <1>1, <1>5, <1>6, <1>7, <2>1 DEF ThreeParts
  <1>9. z = SubSeq(q, j + 1, Len(q))
    BY <1>1, <1>4
  <1> QED  BY <1>2, <1>3, <1>5, <1>6, <1>7, <1>8, <1>9

\* array_list_del_idx()
LEMMA ArrayCutChanges ==
    ASSUME NEW a, GoodArray(a), NEW idx \in Nat, NEW count \in Nat, idx + count <= Len(a.list)
    PROVE  /\ Changes(a.list, ArrayCut(a, idx, count).list, SubSeq(a.list, idx + 1, idx + count), NULL)
           /\ Len(ArrayCut(a, idx, count).list) <= Len(a.list)
           /\ Len(SubSeq(a.list, idx + 1, idx + count)) = count
           /\ \A p : RefsIn(SubSeq(a.list, idx + 1, idx + count), p) <= RefsIn(a.list, p)
  <1>1. PICK q : q = a.list
    OBVIOUS
  <1>2. q \in Seq(Nat) /\ a = ArrayOf(a.size, q)
    BY <1>1 DEF GoodArray, ArrayShape, ArrayOf
  <1>3. PICK j \in Nat : j = idx + count /\ idx <= j /\ j - idx = count
    OBVIOUS
  <1>4. j <= Len(q)
    BY <1>1, <1>3
  <1>5. PICK x, y, z : x = SubSeq(q, 1, idx) /\ y = SubSeq(q, idx + 1, j) /\ z = SubSeq(q, j + 1, Len(q))
    OBVIOUS
  <1>6. /\ x \in Seq(Nat) /\ y \in Seq(Nat) /\ z \in Seq(Nat) /\ Len(y) = count
        /\ ThreeParts(q, x, y, z)
    <2>1. /\ SubSeq(q, 1, idx) \in Seq(Nat) /\ SubSeq(q, idx + 1, j) \in Seq(Nat)
          /\ SubSeq(q, j + 1, Len(q)) \in Seq(Nat) /\ Len(SubSeq(q, idx + 1, j)) = j - idx
          /\ ThreeParts(q, SubSeq(q, 1, idx), SubSeq(q, idx + 1, j), SubSeq(q, j + 1, Len(q)))
      BY <1>2, <1>3, <1>4, PartsAre
    <2> QED  BY <1>3, <1>5, <2>1
  <1>7. PICK w : w = x \o z
    OBVIOUS
  <1>8. ArrayCut(a, idx, count).list = w
    <2>1. ArrayCut(a, idx, count) = [a EXCEPT !.list = w]
      BY <1>1, <1>3, <1>5, <1>7 DEF ArrayCut
    <2> QED  BY <1>2, <2>1 DEF ArrayOf
  <1>9. /\ Changes(q, x \o z, y, NULL) /\ Len(x \o z) <= Len(q)
        /\ \A p : RefsIn(y, p) <= RefsIn(q, p)
    BY <1>2, <1>6, PartsChange
  <1>10. y = SubSeq(a.list, idx + 1, idx + count)
    BY <1>1, <1>3, <1>5
  <1>11. /\ Changes(a.list, ArrayCut(a, idx, count).list, y, NULL)
         /\ Len(ArrayCut(a, idx, count).list) <= Len(a.list) /\ Len(y) = count
         /\ \A p : RefsIn(y, p) <= RefsIn(a.list, p)
    BY <1>1, <1>6, <1>7, <1>8, <1>9
  <1> QED  BY <1>10, <1>11

-----------------------------------------------------------------------------
(***************************************************************************)
(* The operations keep the counts.                                         *)
(***************************************************************************)
TableSet(h, p, t) == [h EXCEPT ![p].table = t]

ArraySet(h, p, a) == [h EXCEPT ![p].array = a]

\* A value may be replaced by another one that has what it had, but for the references
\* of the list, and val.
LEMMA ExchangedBy ==
    ASSUME NEW g, Celled(g), NEW p \in Blocks, NEW x, x = g[p], NEW y, y.type = x.type, ValueShape(y),
           y.refs = x.refs, x.type # "free", y.type # "object" => y.table = NoTable,
           y.type # "array" => y.array = NoArray, Len(y.array.list) <= MaxIndex + 1,
           NEW todo \in Seq(Refd), NEW val \in Refd, Changes(Inside(x), Inside(y), todo, val),
           NEW h, h = [g EXCEPT ![p] = y]
    PROVE  Exchanged(h, g, p, todo, val)
  <1>1. h = [q \in Blocks |-> h[q]] /\ h[p] = y /\ \A q \in Blocks : q # p => h[q] = g[q]
    BY DEF Celled
  <1>2. Cell(x)
    BY DEF Celled
  <1>3. Inside(y) \in Seq(Refd)
    <2>1. Inside(x) \in Seq(Refd)
      BY <1>2 DEF Cell
    <2> QED  BY <2>1, StaysRefd
  <1>4. Cell(y)
    BY <1>2, <1>3 DEF Cell
  <1>5. \A q \in Blocks : RefsIn(Inside(y), q) + RefsIn(todo, q) = RefsIn(Inside(x), q) + One(val, q)
    <2>1. \A q \in Blocks : q \in Nat \ {NULL}
      BY BlocksAre DEF NULL
    <2> QED  BY <2>1 DEF Changes
  <1> QED  BY <1>1, <1>4, <1>5 DEF Exchanged

\* The table of an object changes.
LEMMA TableExchanged ==
    ASSUME NEW g, Celled(g), NEW p \in Blocks, g[p].type = "object", GoodTable(g[p].table),
           NEW t, GoodTable(t), NEW todo \in Seq(Refd), NEW val \in Refd,
           Changes(TableValues(g[p].table), TableValues(t), todo, val)
    PROVE  Exchanged(TableSet(g, p, t), g, p, todo, val)
  <1>1. PICK x : x = g[p]
    OBVIOUS
  <1>2. PICK h : h = TableSet(g, p, t)
    OBVIOUS
  <1>3. Cell(x) /\ x.type = "object" /\ x.array = NoArray /\ ValueShape(x)
    BY <1>1 DEF Celled, Cell
  <1> DEFINE y == [x EXCEPT !.table = t]
  <1>4. h = [g EXCEPT ![p] = y]
    BY <1>1, <1>2 DEF TableSet
  <1>5. ValueShape(y) /\ y.type = x.type /\ y.refs = x.refs /\ y.table = t /\ y.array = NoArray
    BY <1>3 DEF ValueShape
  <1> HIDE DEF y
  <1>6. Inside(x) = TableValues(x.table) /\ Inside(y) = TableValues(t)
    <2>1. TableValues(x.table) \in Seq(Nat) /\ TableValues(t) \in Seq(Nat)
      BY <1>1, GoodValues
    <2> QED  BY <1>3, <1>5, <2>1, InsideIs
  <1>7. Len(y.array.list) <= MaxIndex + 1
    <2>1. Len(<<>>) = 0 /\ MaxIndex \in Nat
      BY JsonStoreAssumption
    <2> QED  BY <1>5, <2>1 DEF NoArray
  <1>8. Changes(Inside(x), Inside(y), todo, val)
    BY <1>1, <1>6
  <1>9. Exchanged(h, g, p, todo, val)
    BY <1>1, <1>3, <1>4, <1>5, <1>7, <1>8, ExchangedBy
  <1> QED  BY <1>2, <1>9

\* The array of a value changes.
LEMMA ArrayExchanged ==
    ASSUME NEW g, Celled(g), NEW p \in Blocks, g[p].type = "array", GoodArray(g[p].array),
           NEW a, GoodArray(a), Len(a.list) <= MaxIndex + 1, NEW todo \in Seq(Refd), NEW val \in Refd,
           Changes(g[p].array.list, a.list, todo, val)
    PROVE  Exchanged(ArraySet(g, p, a), g, p, todo, val)
  <1>1. PICK x : x = g[p]
    OBVIOUS
  <1>2. PICK h : h = ArraySet(g, p, a)
    OBVIOUS
  <1>3. Cell(x) /\ x.type = "array" /\ x.table = NoTable /\ ValueShape(x)
    BY <1>1 DEF Celled, Cell
  <1> DEFINE y == [x EXCEPT !.array = a]
  <1>4. h = [g EXCEPT ![p] = y]
    BY <1>1, <1>2 DEF ArraySet
  <1>5. ValueShape(y) /\ y.type = x.type /\ y.refs = x.refs /\ y.table = NoTable /\ y.array = a
    BY <1>3 DEF ValueShape
  <1> HIDE DEF y
  <1>6. Inside(x) = x.array.list /\ Inside(y) = a.list
    <2>1. x.array.list \in Seq(Nat) /\ a.list \in Seq(Nat)
      BY <1>1 DEF GoodArray
    <2> QED  BY <1>3, <1>5, <2>1, InsideIs
  <1>7. Len(y.array.list) <= MaxIndex + 1
    BY <1>5
  <1>8. Changes(Inside(x), Inside(y), todo, val)
    BY <1>1, <1>6
  <1>9. Exchanged(h, g, p, todo, val)
    BY <1>1, <1>3, <1>4, <1>5, <1>7, <1>8, ExchangedBy
  <1> QED  BY <1>2, <1>9

\* What an object has
LEMMA ObjectIs ==
    ASSUME Heaped(heap), Counts(heap, owned), NEW p \in Live("object"), NEW t, t = heap[p].table
    PROVE  /\ p \in Blocks /\ heap[p].type = "object" /\ GoodTable(t)
           /\ Inside(heap[p]) = TableValues(t) /\ TableValues(t) \in Seq(Refd)
  <1>1. p \in Blocks /\ heap[p].type = "object"
    BY DEF Live
  <1>2. PICK x : x = heap[p]
    OBVIOUS
  <1>3. Cell(x) /\ x.array = NoArray /\ GoodTable(t)
    BY <1>1, <1>2 DEF Counts, Celled, Cell, Heaped, GoodValue
  <1>4. TableValues(t) \in Seq(Nat)
    BY <1>3, GoodValues
  <1>5. Inside(x) = TableValues(t)
    BY <1>2, <1>3, <1>4, InsideIs
  <1> QED  BY <1>1, <1>2, <1>3, <1>5 DEF Cell

\* What an array has
LEMMA ArrayIs ==
    ASSUME Heaped(heap), Counts(heap, owned), NEW p \in Live("array"), NEW a, a = heap[p].array
    PROVE  /\ p \in Blocks /\ heap[p].type = "array" /\ GoodArray(a) /\ Len(a.list) <= MaxIndex + 1
           /\ Inside(heap[p]) = a.list /\ a.list \in Seq(Refd)
  <1>1. p \in Blocks /\ heap[p].type = "array"
    BY DEF Live
  <1>2. PICK x : x = heap[p]
    OBVIOUS
  <1>3. Cell(x) /\ x.table = NoTable /\ GoodArray(a) /\ Len(a.list) <= MaxIndex + 1
    BY <1>1, <1>2 DEF Counts, Celled, Cell, Short, Heaped, GoodValue
  <1>4. a.list \in Seq(Nat)
    BY <1>3 DEF GoodArray
  <1>5. Inside(x) = a.list
    BY <1>2, <1>3, <1>4, InsideIs
  <1> QED  BY <1>1, <1>2, <1>3, <1>5 DEF Cell

\* An object takes what is given, for what was put.
LEMMA ObjectTakes ==
    ASSUME Heaped(heap), Counts(heap, owned), NEW p \in Live("object"), NEW todo \in Seq(Refd), NEW g,
           Between(g, heap, owned, p, todo), NEW val \in Givable(p), NEW t, GoodTable(t),
           Changes(TableValues(heap[p].table), TableValues(t), todo, val)
    PROVE  Counts(TableSet(g, p, t), Given(val))
  <1>1. p \in Blocks /\ heap[p].type = "object" /\ GoodTable(heap[p].table) /\ val \in Refd
    BY ObjectIs DEF Givable, Refd
  <1>2. Celled(g) /\ g[p] = heap[p]
    BY DEF Between
  <1>3. Exchanged(TableSet(g, p, t), g, p, todo, val)
    BY <1>1, <1>2, TableExchanged
  <1> QED  BY <1>1, <1>3, Contents

\* So does an array.
LEMMA ArrayTakes ==
    ASSUME Heaped(heap), Counts(heap, owned), NEW p \in Live("array"), NEW todo \in Seq(Refd), NEW g,
           Between(g, heap, owned, p, todo), NEW val \in Givable(p), NEW a, GoodArray(a),
           Len(a.list) <= MaxIndex + 1, Changes(heap[p].array.list, a.list, todo, val)
    PROVE  Counts(ArraySet(g, p, a), Given(val))
  <1>1. p \in Blocks /\ heap[p].type = "array" /\ GoodArray(heap[p].array) /\ val \in Refd
    BY ArrayIs DEF Givable, Refd
  <1>2. Celled(g) /\ g[p] = heap[p]
    BY DEF Between
  <1>3. Exchanged(ArraySet(g, p, a), g, p, todo, val)
    BY <1>1, <1>2, ArrayExchanged
  <1> QED  BY <1>1, <1>3, Contents

\* What another value has stays, when one that has nothing is made.
LEMMA NewCounts ==
    ASSUME Counts(heap, owned), NEW p \in Blocks, NEW type \in {"object", "array", "leaf"}, New(p, type)
    PROVE  Counts(heap', owned')
  <1> DEFINE tab == IF type = "object" THEN TableNew(TableSize) ELSE NoTable
             array == IF type = "array" THEN [size |-> ArraySize, list |-> <<>>] ELSE NoArray
             x == [type |-> type, refs |-> 1, table |-> tab, array |-> array]
  <1>1. heap' = [heap EXCEPT ![p] = x] /\ owned' = [owned EXCEPT ![p] = 1] /\ heap[p].type = "free"
    BY DEF New
  <1>2. /\ Celled(heap) /\ Short(heap) /\ Ranked(heap) /\ owned \in [Blocks -> Nat] /\ Lists(heap)
        /\ \A q \in Blocks : heap[q].refs = owned[q] + HeldIn(heap, q)
    BY CellsList DEF Counts
  <1>3. heap[p].refs = 0 /\ Inside(heap[p]) = <<>>
    BY <1>1, <1>2, InsideIs DEF Celled, Cell
  <1>4. TableValues(tab) = <<>> /\ (type # "object" => tab = NoTable)
    <2>1. TableNew(TableSize).order = <<>> /\ NoTable.order = <<>>
      BY StoreSizes, NewGood DEF NoTable
    <2> QED  BY <2>1 DEF TableValues
  <1>5. array.list = <<>> /\ (type # "array" => array = NoArray)
    BY DEF NoArray
  <1> HIDE DEF tab, array
  <1>6. /\ ValueShape(x) /\ x.type = type /\ x.refs = 1 /\ x.table = tab /\ x.array = array
        /\ Inside(x) = <<>>
    <2>1. <<>> \o <<>> = <<>>
      OBVIOUS
    <2> QED  BY <1>4, <1>5, <2>1 DEF ValueShape, Inside
  <1> HIDE DEF x
  <1>7. Cell(x)
    <2>1. <<>> \in Seq(Refd)
      OBVIOUS
    <2> QED  BY <1>4, <1>5, <1>6, <2>1 DEF Cell
  <1>8. PICK h : h = heap'
    OBVIOUS
  <1>9. h = [q \in Blocks |-> h[q]] /\ h[p] = x /\ \A q \in Blocks : q # p => h[q] = heap[q]
    BY <1>1, <1>2, <1>8 DEF Celled
  <1>10. Celled(h) /\ \A q \in Blocks : Inside(h[q]) = Inside(heap[q])
    BY <1>2, <1>3, <1>6, <1>7, <1>9 DEF Celled
  <1>11. Short(h)
    <2>1. Len(<<>>) = 0 /\ MaxIndex \in Nat
      BY JsonStoreAssumption
    <2> QED  BY <1>2, <1>5, <1>6, <1>9, <2>1 DEF Short
  <1>12. Ranked(h)
    BY <1>2, <1>10, RanksStay
  <1>13. \A q : HeldIn(h, q) = HeldIn(heap, q) /\ HeldIn(heap, q) \in Nat
    BY <1>2, <1>10, HeldSame, HeldTyped
  <1>14. owned[p] = 0 /\ HeldIn(heap, p) = 0
    <2>1. PICK a \in Nat, b \in Nat : a = owned[p] /\ b = HeldIn(heap, p)
      BY <1>2, <1>13
    <2>2. 0 = a + b
      BY <1>2, <1>3, <2>1
    <2> QED  BY <2>1, <2>2
  <1>15. owned' \in [Blocks -> Nat] /\ \A q \in Blocks : owned'[q] = IF q = p THEN 1 ELSE owned[q]
    BY <1>1, <1>2
  <1>16. ASSUME NEW q \in Blocks PROVE h[q].refs = owned'[q] + HeldIn(h, q)
    <2>1. CASE q = p
      <3>1. h[q].refs = 1 /\ owned'[q] = 1 /\ HeldIn(h, q) = 0
        BY <1>6, <1>9, <1>13, <1>14, <1>15, <2>1
      <3> QED  BY <3>1
    <2>2. CASE q # p
      BY <1>2, <1>9, <1>13, <1>15, <2>2
    <2> QED  BY <2>1, <2>2
  <1> QED  BY <1>8, <1>10, <1>11, <1>12, <1>15, <1>16 DEF Counts

\* json_object_get()
LEMMA GetCounts ==
    ASSUME Counts(heap, owned), NEW p \in Blocks, Get(p)
    PROVE  Counts(heap', owned')
  <1>1. /\ Celled(heap) /\ Short(heap) /\ Ranked(heap) /\ owned \in [Blocks -> Nat] /\ Lists(heap)
        /\ \A q \in Blocks : heap[q].refs = owned[q] + HeldIn(heap, q)
    BY CellsList DEF Counts
  <1>2. PICK x : x = heap[p]
    OBVIOUS
  <1>3. Cell(x) /\ x.type # "free" /\ x.refs \in Nat
    BY <1>1, <1>2 DEF Celled, Cell, Get
  <1>4. PICK r \in Nat : r = x.refs + 1 /\ r # 0
    BY <1>3
  <1> DEFINE y == [x EXCEPT !.refs = r]
  <1>5. Cell(y) /\ Inside(y) = Inside(x) /\ y.refs = r /\ SameInside(x, y)
    BY <1>3, <1>4, CellCount
  <1>6. heap' = [heap EXCEPT ![p] = y] /\ owned' = [owned EXCEPT ![p] = @ + 1]
    BY <1>2, <1>4 DEF Get
  <1>7. y.array = x.array
    BY <1>3 DEF Cell, ValueShape
  <1> HIDE DEF y
  <1>8. PICK h : h = heap'
    OBVIOUS
  <1>9. h = [q \in Blocks |-> h[q]] /\ h[p] = y /\ \A q \in Blocks : q # p => h[q] = heap[q]
    BY <1>1, <1>6, <1>8 DEF Celled
  <1>10. Celled(h) /\ \A q \in Blocks : Inside(h[q]) = Inside(heap[q])
    BY <1>1, <1>2, <1>5, <1>9 DEF Celled
  <1>11. Short(h)
    BY <1>1, <1>2, <1>7, <1>9 DEF Short
  <1>12. Ranked(h)
    BY <1>1, <1>10, RanksStay
  <1>13. \A q : HeldIn(h, q) = HeldIn(heap, q) /\ HeldIn(heap, q) \in Nat
    BY <1>1, <1>10, HeldSame, HeldTyped
  <1>14. owned' \in [Blocks -> Nat] /\ \A q \in Blocks : owned'[q] = IF q = p THEN owned[q] + 1 ELSE owned[q]
    BY <1>1, <1>6
  <1>15. ASSUME NEW q \in Blocks PROVE h[q].refs = owned'[q] + HeldIn(h, q)
    <2>1. PICK a \in Nat, b \in Nat : a = owned[q] /\ b = HeldIn(heap, q) /\ heap[q].refs = a + b
      BY <1>1, <1>13
    <2>2. CASE q = p
      <3>1. h[q].refs = (a + b) + 1 /\ owned'[q] = a + 1 /\ HeldIn(h, q) = b
        BY <1>2, <1>4, <1>5, <1>9, <1>13, <1>14, <2>1, <2>2
      <3> QED  BY <3>1
    <2>3. CASE q # p
      BY <1>9, <1>13, <1>14, <2>1, <2>3
    <2> QED  BY <2>2, <2>3
  <1> QED  BY <1>8, <1>10, <1>11, <1>12, <1>14, <1>15 DEF Counts

\* json_object_put()
LEMMA PutCounts ==
    ASSUME Heaped(heap), Counts(heap, owned), NEW p \in Blocks, Put(p)
    PROVE  Counts(heap', owned')
  <1>1. PICK less : less = owned'
    OBVIOUS
  <1>2. owned[p] > 0 /\ less = [owned EXCEPT ![p] = @ - 1] /\ heap' = PutAll(heap, <<p>>)
    BY <1>1 DEF Put
  <1>3. Counts(PutAll(heap, <<p>>), less)
    BY <1>2, PutOwned
  <1> QED  BY <1>1, <1>2, <1>3

\* json_object_object_add_ex(), where the object has the key
LEMMA ReplaceCounts ==
    ASSUME Heaped(heap), Counts(heap, owned), NEW p \in Live("object"), NEW val \in Givable(p),
           NEW n \in Places(heap[p].table), heap[p].table.k[n] \in Keys, NEW old, old = heap[p].table.v[n]
    PROVE  Counts([Replaced(heap, old) EXCEPT ![p].table.v[n] = val], Given(val))
  <1>1. PICK t : t = heap[p].table
    OBVIOUS
  <1>2. /\ p \in Blocks /\ GoodTable(t) /\ Inside(heap[p]) = TableValues(t)
        /\ TableValues(t) \in Seq(Refd)
    BY <1>1, ObjectIs
  <1>3. val \in Nat
    BY BlocksAre DEF Givable, NULL
  <1> DEFINE w == [t EXCEPT !.v[n] = val]
             todo == <<old>>
  <1>4. GoodTable(w)
    BY <1>1, <1>2, <1>3, ReplaceGood
  <1>5. Changes(TableValues(t), TableValues(w), todo, val) /\ \A q : RefsIn(todo, q) <= RefsIn(TableValues(t), q)
    BY <1>1, <1>2, <1>3, ReplaceChanges
  <1>6. todo \in Seq(Refd) /\ Len(todo) = 1
    <2>1. RefsIn(todo, old) = 1
      BY RefsOfOne DEF One
    <2>2. RefsIn(TableValues(t), old) > 0
      <3>1. RefsIn(TableValues(t), old) \in Nat
        BY <1>2, RefsAre
      <3> HIDE DEF todo
      <3> QED  BY <1>5, <2>1, <3>1
    <2>3. PICK i \in 1 .. Len(TableValues(t)) : TableValues(t)[i] = old
      BY <1>2, <2>2, RefsIf
    <2>4. old \in Refd
      BY <1>2, <2>3
    <2> QED  BY <2>4
  <1>7. PICK g : g = Replaced(heap, old)
    OBVIOUS
  <1>8. g = PutAll(heap, todo)
    BY <1>7 DEF Replaced
  <1> HIDE DEF todo
  <1>9. Between(g, heap, owned, p, todo)
    <2>1. \A q \in Blocks : RefsIn(todo, q) <= RefsIn(Inside(heap[p]), q)
      BY <1>2, <1>5
    <2>2. Len(todo) <= 2
      BY <1>6
    <2> QED  BY <1>2, <1>6, <1>8, <2>1, <2>2, PutInside
  <1>10. [g EXCEPT ![p].table.v[n] = val] = TableSet(g, p, w)
    <2>1. g[p] = heap[p]
      BY <1>9 DEF Between
    <2>2. [g EXCEPT ![p].table.v[n] = val] = [g EXCEPT ![p].table = [g[p].table EXCEPT !.v[n] = val]]
      OBVIOUS
    <2> QED  BY <1>1, <2>1, <2>2 DEF TableSet
  <1> HIDE DEF w
  <1>11. Counts(TableSet(g, p, w), Given(val))
    BY <1>1, <1>4, <1>5, <1>6, <1>9, ObjectTakes
  <1> QED  BY <1>7, <1>10, <1>11

\* json_object_object_add_ex()
LEMMA ObjectAddCounts ==
    ASSUME Heaped(heap), Counts(heap, owned), NEW p \in Live("object"), NEW key \in Keys,
           NEW val \in {NULL} \cup Blocks, NEW nomem, ObjectAdd(p, key, val, nomem)
    PROVE  Counts(heap', owned')
  <1>1. PICK t : t = heap[p].table
    OBVIOUS
  <1>2. p \in Blocks /\ GoodTable(t)
    BY <1>1, ObjectIs
  <1>3. val \in Givable(p) /\ val \in Nat
    BY BlocksAre DEF ObjectAdd, NULL
  <1>4. PICK n : n = TableLookup(t, key)
    OBVIOUS
  <1>5. PICK new : new = TableInsert(t, key, val, nomem)
    OBVIOUS
  <1>6. Give(val) => owned' = Given(val)
    BY DEF Give, Given
  <1>7. CASE n # -1
    <2>1. heap' = [Replaced(heap, t.v[n]) EXCEPT ![p].table.v[n] = val] /\ owned' = Given(val)
      BY <1>1, <1>4, <1>6, <1>7 DEF ObjectAdd
    <2>2. n \in Places(t) /\ t.k[n] \in Keys
      <3>1. HasKey(t, key)
        BY <1>2, <1>4, <1>7, LookupFinds
      <3>2. PICK m \in Places(t) : t.k[m] = key
        BY <3>1 DEF HasKey
      <3>3. n = m
        BY <1>2, <1>4, <3>2, LookupFinds
      <3> QED  BY <3>2, <3>3
    <2>3. Counts([Replaced(heap, t.v[n]) EXCEPT ![p].table.v[n] = val], Given(val))
      BY <1>1, <1>3, <2>2, ReplaceCounts
    <2> QED  BY <2>1, <2>3
  <1>8. CASE ~ (n # -1) /\ new = <<>>
    <2>1. heap' = heap /\ owned' = owned
      BY <1>1, <1>4, <1>5, <1>8 DEF ObjectAdd, jvars
    <2> QED  BY <2>1
  <1>9. CASE ~ (n # -1) /\ new # <<>>
    <2>1. heap' = TableSet(heap, p, new[1]) /\ owned' = Given(val)
      BY <1>1, <1>4, <1>5, <1>6, <1>9 DEF ObjectAdd, TableSet
    <2>2. ~ HasKey(t, key)
      <3> SUFFICES ASSUME HasKey(t, key) PROVE FALSE
        OBVIOUS
      <3>1. PICK m \in Places(t) : t.k[m] = key
        BY DEF HasKey
      <3>2. n = m
        BY <1>2, <1>4, <3>1, LookupFinds
      <3>3. m # -1
        BY DEF Places
      <3> QED  BY <1>9, <3>2, <3>3
    <2>3. GoodTable(new[1])
      BY <1>2, <1>3, <1>5, <1>9, <2>2, InsertGood
    <2>4. Changes(TableValues(t), TableValues(new[1]), <<>>, val)
      BY <1>2, <1>3, <1>5, <1>9, <2>2, InsertChanges
    <2>5. Between(heap, heap, owned, p, <<>>) /\ <<>> \in Seq(Refd)
      BY <1>2, NothingPut
    <2>6. Counts(TableSet(heap, p, new[1]), Given(val))
      BY <1>1, <1>3, <2>3, <2>4, <2>5, ObjectTakes
    <2> QED  BY <2>1, <2>6
  <1> QED  BY <1>7, <1>8, <1>9

\* json_object_object_del()
LEMMA ObjectDelCounts ==
    ASSUME Heaped(heap), Counts(heap, owned), NEW p \in Live("object"), NEW key \in Keys, ObjectDel(p, key)
    PROVE  Counts(heap', owned')
  <1>1. PICK t : t = heap[p].table
    OBVIOUS
  <1>2. /\ p \in Blocks /\ GoodTable(t) /\ Inside(heap[p]) = TableValues(t)
        /\ TableValues(t) \in Seq(Refd)
    BY <1>1, ObjectIs
  <1>3. PICK n : n = TableLookup(t, key)
    OBVIOUS
  <1>4. n \in Places(t) /\ t.k[n] \in Keys
    <2>1. n # -1
      BY <1>1, <1>3 DEF ObjectDel
    <2>2. HasKey(t, key)
      BY <1>2, <1>3, <2>1, LookupFinds
    <2>3. PICK m \in Places(t) : t.k[m] = key
      BY <2>2 DEF HasKey
    <2>4. n = m
      BY <1>2, <1>3, <2>3, LookupFinds
    <2> QED  BY <2>3, <2>4
  <1>5. PICK old : old = t.v[n]
    OBVIOUS
  <1> DEFINE w == TableDelete(t, n)
             todo == <<old>>
  <1>6. GoodTable(w)
    BY <1>2, <1>4, DeleteGood
  <1>7. Changes(TableValues(t), TableValues(w), todo, NULL) /\ \A q : RefsIn(todo, q) <= RefsIn(TableValues(t), q)
    BY <1>2, <1>4, <1>5, DeleteChanges
  <1>8. todo \in Seq(Refd) /\ Len(todo) <= 2
    <2>1. RefsIn(todo, old) = 1
      BY RefsOfOne DEF One
    <2>2. RefsIn(TableValues(t), old) > 0
      <3>1. RefsIn(TableValues(t), old) \in Nat
        BY <1>2, RefsAre
      <3> HIDE DEF todo
      <3> QED  BY <1>7, <2>1, <3>1
    <2>3. PICK i \in 1 .. Len(TableValues(t)) : TableValues(t)[i] = old
      BY <1>2, <2>2, RefsIf
    <2>4. old \in Refd
      BY <1>2, <2>3
    <2> QED  BY <2>4
  <1>9. PICK g : g = PutAll(heap, todo)
    OBVIOUS
  <1>10. heap' = [g EXCEPT ![p].table = TableDelete(@, n)] /\ owned' = owned
    BY <1>1, <1>3, <1>5, <1>9 DEF ObjectDel
  <1> HIDE DEF todo
  <1>11. Between(g, heap, owned, p, todo)
    <2>1. \A q \in Blocks : RefsIn(todo, q) <= RefsIn(Inside(heap[p]), q)
      BY <1>2, <1>7
    <2> QED  BY <1>2, <1>8, <1>9, <2>1, PutInside
  <1>12. heap' = TableSet(g, p, w)
    <2>1. g[p] = heap[p]
      BY <1>11 DEF Between
    <2>2. heap' = [g EXCEPT ![p].table = TableDelete(g[p].table, n)]
      BY <1>10
    <2> QED  BY <1>1, <2>1, <2>2 DEF TableSet
  <1> HIDE DEF w
  <1>13. NULL \in Givable(p) /\ Given(NULL) = owned
    BY DEF Givable, Given
  <1>14. Counts(TableSet(g, p, w), Given(NULL))
    BY <1>1, <1>6, <1>7, <1>8, <1>11, <1>13, ObjectTakes
  <1> QED  BY <1>10, <1>12, <1>13, <1>14

\* json_object_array_put_idx()
LEMMA ArrayPutCounts ==
    ASSUME Heaped(heap), Counts(heap, owned), NEW p \in Live("array"), NEW idx \in 0 .. MaxIndex,
           NEW val \in {NULL} \cup Blocks, NEW nomem, ArrayPutIdx(p, idx, val, nomem)
    PROVE  Counts(heap', owned')
  <1>1. PICK a : a = heap[p].array
    OBVIOUS
  <1>2. /\ p \in Blocks /\ GoodArray(a) /\ Len(a.list) <= MaxIndex + 1 /\ Inside(heap[p]) = a.list
        /\ a.list \in Seq(Refd)
    BY <1>1, ArrayIs
  <1>3. val \in Givable(p) /\ val \in Nat /\ idx \in Nat /\ idx <= MaxIndex /\ MaxIndex \in Nat
    BY BlocksAre, StoreSizes DEF ArrayPutIdx, NULL
  <1>4. CASE nomem /\ idx + 1 >= a.size
    <2>1. heap' = heap /\ owned' = owned
      BY <1>1, <1>4 DEF ArrayPutIdx, jvars
    <2> QED  BY <2>1
  <1>5. CASE ~ (nomem /\ idx + 1 >= a.size)
    <2>1. PICK old : old = IF idx < Len(a.list) THEN a.list[idx + 1] ELSE NULL
      OBVIOUS
    <2> DEFINE w == ArrayPut(a, idx, val)
               todo == <<old>>
    <2>2. GoodArray(w)
      BY <1>2, <1>3, ArrayPutGood DEF GoodArray
    <2>3. /\ Changes(a.list, w.list, todo, val)
          /\ Len(w.list) = IF Len(a.list) <= idx THEN idx + 1 ELSE Len(a.list)
          /\ \A q : q # NULL => RefsIn(todo, q) <= RefsIn(a.list, q)
      BY <1>2, <1>3, <2>1, ArrayPutChanges
    <2>4. todo \in Seq(Refd) /\ Len(todo) <= 2
      <3>1. CASE idx < Len(a.list)
        <4>1. idx + 1 \in 1 .. Len(a.list)
          BY <1>2, <1>3, <3>1
        <4>2. old \in Refd
          BY <1>2, <2>1, <3>1, <4>1
        <4> QED  BY <4>2
      <3>2. CASE ~ (idx < Len(a.list))
        <4>1. old \in Refd
          BY <2>1, <3>2 DEF Refd
        <4> QED  BY <4>1
      <3> QED  BY <3>1, <3>2
    <2>5. PICK g : g = PutAll(heap, todo)
      OBVIOUS
    <2>6. heap' = [g EXCEPT ![p].array = ArrayPut(@, idx, val)] /\ owned' = Given(val)
      BY <1>1, <1>5, <2>1, <2>5 DEF ArrayPutIdx, Replaced, Give, Given
    <2> HIDE DEF todo
    <2>7. Between(g, heap, owned, p, todo)
      <3>1. \A q \in Blocks : RefsIn(todo, q) <= RefsIn(Inside(heap[p]), q)
        BY <1>2, <2>3, BlocksAre
      <3> QED  BY <1>2, <2>4, <2>5, <3>1, PutInside
    <2>8. heap' = ArraySet(g, p, w)
      <3>1. g[p] = heap[p]
        BY <2>7 DEF Between
      <3>2. heap' = [g EXCEPT ![p].array = ArrayPut(g[p].array, idx, val)]
        BY <2>6
      <3> QED  BY <1>1, <3>1, <3>2 DEF ArraySet
    <2> HIDE DEF w
    <2>9. Len(w.list) <= MaxIndex + 1
      <3>1. Len(a.list) \in Nat
        BY <1>2
      <3> QED  BY <1>2, <1>3, <2>3, <3>1
    <2>10. Counts(ArraySet(g, p, w), Given(val))
      BY <1>1, <1>3, <2>2, <2>3, <2>4, <2>7, <2>9, ArrayTakes
    <2> QED  BY <2>6, <2>8, <2>10
  <1> QED  BY <1>4, <1>5

\* json_object_array_del_idx()
LEMMA ArrayDelCounts ==
    ASSUME Heaped(heap), Counts(heap, owned), NEW p \in Live("array"), NEW idx \in 0 .. MaxIndex,
           NEW count \in 1 .. 2, ArrayDelIdx(p, idx, count)
    PROVE  Counts(heap', owned')
  <1>1. PICK a : a = heap[p].array
    OBVIOUS
  <1>2. /\ p \in Blocks /\ GoodArray(a) /\ Len(a.list) <= MaxIndex + 1 /\ Inside(heap[p]) = a.list
        /\ a.list \in Seq(Refd)
    BY <1>1, ArrayIs
  <1>3. idx \in Nat /\ count \in Nat /\ count <= 2 /\ MaxIndex \in Nat
    BY StoreSizes
  <1>4. idx + count <= Len(a.list)
    BY <1>1 DEF ArrayDelIdx
  <1>5. PICK todo : todo = SubSeq(a.list, idx + 1, idx + count)
    OBVIOUS
  <1>6. PICK g : g = PutAll(heap, todo)
    OBVIOUS
  <1>7. heap' = [g EXCEPT ![p].array = ArrayCut(@, idx, count)] /\ owned' = owned
    BY <1>1, <1>5, <1>6 DEF ArrayDelIdx
  <1> DEFINE w == ArrayCut(a, idx, count)
  <1>8. GoodArray(w)
    BY <1>2, <1>3, <1>4, ArrayCutGood DEF GoodArray
  <1>9. /\ Changes(a.list, w.list, todo, NULL) /\ Len(w.list) <= Len(a.list) /\ Len(todo) = count
        /\ \A q : RefsIn(todo, q) <= RefsIn(a.list, q)
    BY <1>2, <1>3, <1>4, <1>5, ArrayCutChanges
  <1>10. todo \in Seq(Refd)
    <2>1. PICK j \in Nat : j = idx + count /\ idx <= j /\ j <= Len(a.list)
      BY <1>3, <1>4
    <2>2. SubSeq(a.list, idx + 1, j) \in Seq(Refd)
      BY <1>2, <1>3, <2>1, PartOf
    <2> QED  BY <1>5, <2>1, <2>2
  <1>11. Between(g, heap, owned, p, todo)
    <2>1. \A q \in Blocks : RefsIn(todo, q) <= RefsIn(Inside(heap[p]), q)
      BY <1>2, <1>9
    <2>2. Len(todo) <= 2
      BY <1>3, <1>9
    <2> QED  BY <1>2, <1>6, <1>10, <2>1, <2>2, PutInside
  <1>12. heap' = ArraySet(g, p, w)
    <2>1. g[p] = heap[p]
      BY <1>11 DEF Between
    <2>2. heap' = [g EXCEPT ![p].array = ArrayCut(g[p].array, idx, count)]
      BY <1>7
    <2> QED  BY <1>1, <2>1, <2>2 DEF ArraySet
  <1> HIDE DEF w
  <1>13. Len(w.list) <= MaxIndex + 1
    <2>1. Len(a.list) \in Nat /\ w.list \in Seq(Nat)
      BY <1>2, <1>8 DEF GoodArray
    <2> QED  BY <1>2, <1>3, <1>9, <2>1
  <1>14. NULL \in Givable(p) /\ Given(NULL) = owned
    BY DEF Givable, Given
  <1>15. Counts(ArraySet(g, p, w), Given(NULL))
    BY <1>1, <1>8, <1>9, <1>10, <1>11, <1>13, <1>14, ArrayTakes
  <1> QED  BY <1>7, <1>12, <1>14, <1>15

\* json_object_array_shrink()
LEMMA ShrinkCounts ==
    ASSUME Heaped(heap), Counts(heap, owned), NEW p \in Live("array"), NEW empty \in 0 .. MaxIndex,
           Shrink(p, empty)
    PROVE  Counts(heap', owned')
  <1>1. PICK a : a = heap[p].array
    OBVIOUS
  <1>2. p \in Blocks /\ GoodArray(a) /\ Len(a.list) <= MaxIndex + 1
    BY <1>1, ArrayIs
  <1>3. empty \in Nat
    BY StoreSizes
  <1> DEFINE w == ArrayShrink(a, empty)
  <1>4. heap' = ArraySet(heap, p, w) /\ owned' = owned
    BY <1>1 DEF Shrink, ArraySet
  <1>5. GoodArray(w)
    BY <1>2, <1>3, ShrinkGood
  <1>6. w.list = a.list
    <2> DEFINE n == Len(a.list) + empty
               size == IF n = 0 THEN 1 ELSE n
    <2>1. ArrayShape(a)
      BY <1>2 DEF GoodArray
    <2>2. w = IF n > a.size THEN Expand(a, n) ELSE [a EXCEPT !.size = size]
      BY DEF ArrayShrink
    <2> HIDE DEF n, size, w
    <2>3. Expand(a, n).list = a.list
      BY <2>1, ExpandGood
    <2>4. [a EXCEPT !.size = size].list = a.list
      BY <2>1 DEF ArrayShape
    <2> QED  BY <2>2, <2>3, <2>4
  <1> HIDE DEF w
  <1>7. Changes(a.list, w.list, <<>>, NULL)
    <2>1. a.list \in Seq(Nat)
      BY <1>2 DEF GoodArray
    <2>2. ASSUME NEW q \in Nat \ {NULL}
          PROVE  RefsIn(a.list, q) + RefsIn(<<>>, q) = RefsIn(a.list, q) + One(NULL, q)
      <3>1. RefsIn(<<>>, q) = 0 /\ One(NULL, q) = 0
        BY RefsOfOne DEF One
      <3> QED  BY <3>1
    <2> QED  BY <1>6, <2>1, <2>2 DEF Changes
  <1>8. Between(heap, heap, owned, p, <<>>) /\ <<>> \in Seq(Refd)
    BY <1>2, NothingPut
  <1>9. NULL \in Givable(p) /\ Given(NULL) = owned
    BY DEF Givable, Given
  <1>10. Counts(ArraySet(heap, p, w), Given(NULL))
    BY <1>1, <1>2, <1>5, <1>6, <1>7, <1>8, <1>9, ArrayTakes
  <1> QED  BY <1>4, <1>9, <1>10

\* No step changes the counts and the references apart.
LEMMA NextCounts == Heaped(heap) /\ Counts(heap, owned) /\ [JNext]_jvars => Counts(heap', owned')
  <1> SUFFICES ASSUME Heaped(heap), Counts(heap, owned), [JNext]_jvars PROVE Counts(heap', owned')
    OBVIOUS
  <1>1. ASSUME NEW p \in Blocks, New(p, TypeOf[p]) PROVE Counts(heap', owned')
    <2>1. TypeOf[p] \in {"object", "array", "leaf"}
      BY JsonStoreAssumption
    <2> QED  BY <1>1, <2>1, NewCounts
  <1>2. ASSUME NEW p \in Blocks, Get(p) PROVE Counts(heap', owned')
    BY <1>2, GetCounts
  <1>3. ASSUME NEW p \in Blocks, Put(p) PROVE Counts(heap', owned')
    BY <1>3, PutCounts
  <1>4. ASSUME NEW p \in Live("object"), NEW key \in Keys, NEW val \in {NULL} \cup Blocks,
               NEW nomem \in BOOLEAN, ObjectAdd(p, key, val, nomem)
        PROVE  Counts(heap', owned')
    BY <1>4, ObjectAddCounts
  <1>5. ASSUME NEW p \in Live("object"), NEW key \in Keys, ObjectDel(p, key) PROVE Counts(heap', owned')
    BY <1>5, ObjectDelCounts
  <1>6. ASSUME NEW p \in Live("array"), NEW idx \in 0 .. MaxIndex, NEW val \in {NULL} \cup Blocks,
               NEW nomem \in BOOLEAN, ArrayPutIdx(p, idx, val, nomem)
        PROVE  Counts(heap', owned')
    BY <1>6, ArrayPutCounts
  <1>7. ASSUME NEW p \in Live("array"), NEW idx \in 0 .. MaxIndex, NEW count \in 1 .. 2,
               ArrayDelIdx(p, idx, count)
        PROVE  Counts(heap', owned')
    BY <1>7, ArrayDelCounts
  <1>8. ASSUME NEW p \in Live("array"), NEW idx \in 0 .. MaxIndex, Shrink(p, idx)
        PROVE  Counts(heap', owned')
    BY <1>8, ShrinkCounts
  <1>9. CASE UNCHANGED jvars
    BY <1>9 DEF jvars
  <1> QED  BY <1>1, <1>2, <1>3, <1>4, <1>5, <1>6, <1>7, <1>8, <1>9 DEF JNext

\* At first there is no value.
LEMMA InitCounts == JInit => Counts(heap, owned)
  <1> SUFFICES ASSUME JInit PROVE Counts(heap, owned)
    OBVIOUS
  <1>1. /\ heap = [q \in Blocks |-> heap[q]] /\ \A q \in Blocks : heap[q] = Free
        /\ owned \in [Blocks -> Nat] /\ \A q \in Blocks : owned[q] = 0
    BY DEF JInit
  <1>2. Celled(heap) /\ Lists(heap) /\ \A q \in Blocks : Inside(heap[q]) = <<>>
    BY <1>1, FreeCell, InsideIs, CellsList DEF Celled
  <1>3. Short(heap)
    <2>1. Len(<<>>) = 0 /\ MaxIndex \in Nat
      BY JsonStoreAssumption
    <2> QED  BY <1>1, <2>1 DEF Short, Free, NoArray
  <1>4. \A q, r \in Blocks : ~ (RefsIn(Inside(heap[q]), r) > 0)
    BY <1>2, RefsOfOne
  <1>5. Ranked(heap)
    <2> DEFINE rank == [q \in Blocks |-> 0]
    <2>1. rank \in [Blocks -> Nat]
      OBVIOUS
    <2> HIDE DEF rank
    <2>2. Ranks(rank, heap)
      BY <1>4, <2>1 DEF Ranks
    <2> QED  BY <2>2 DEF Ranked
  <1>6. ASSUME NEW q \in Blocks PROVE heap[q].refs = owned[q] + HeldIn(heap, q)
    <2> DEFINE f == [r \in Blocks |-> RefsIn(Inside(heap[r]), q)]
    <2>1. f \in [Blocks -> Nat] /\ HeldIn(heap, q) = SumOver(f) /\ HeldIn(heap, q) \in Nat
      BY <1>2, HeldTyped DEF HeldIn
    <2>2. \A r \in Blocks : f[r] <= 0
      BY <1>2, RefsOfOne
    <2> HIDE DEF f
    <2>3. SumOver(f) <= Number * 0
      BY <2>1, <2>2, SumBound
    <2>4. Number * 0 = 0
      BY BlocksAre
    <2>5. HeldIn(heap, q) = 0
      BY <2>1, <2>3, <2>4
    <2>6. heap[q].refs = 0 /\ owned[q] = 0
      BY <1>1 DEF Free
    <2> QED  BY <2>5, <2>6
  <1> QED  BY <1>1, <1>2, <1>3, <1>5, <1>6 DEF Counts

JsonInv == Heaped(heap) /\ Counts(heap, owned)

\* The counts are those that the property is about.
LEMMA CountsAreTrue == JsonInv => RefCounts
  <1> SUFFICES ASSUME Heaped(heap), Counts(heap, owned), NEW p \in Blocks
               PROVE  /\ heap[p].refs = owned[p] + Held(p)
                      /\ heap[p].type = "free" <=> heap[p].refs = 0
    BY DEF JsonInv, RefCounts
  <1>1. Celled(heap) /\ Lists(heap) /\ heap[p].refs = owned[p] + HeldIn(heap, p)
    BY CellsList DEF Counts
  <1>2. Held(p) = HeldIn(heap, p)
    BY <1>1, HeldIs
  <1>3. heap[p].type = "free" <=> heap[p].refs = 0
    BY <1>1 DEF Celled, Cell
  <1> QED  BY <1>1, <1>2, <1>3

\* A value of json-c lives exactly as long as there is a reference to it, and its count
\* is that of the references: whatever is replaced, deleted or refused, with memory
\* running out anywhere (json_object_put() and the operations that take over or give
\* up a reference).
THEOREM RefsAreCounted == JSpec => []RefCounts
  <1>1. JInit => JsonInv
    <2> SUFFICES ASSUME JInit PROVE JsonInv
      OBVIOUS
    <2>1. heap = [p \in Blocks |-> Free]
      BY DEF JInit
    <2>2. (\A p \in Blocks : heap[p] = Free) /\ heap = [p \in Blocks |-> heap[p]]
      BY <2>1
    <2> QED  BY <2>2, FreeGood, InitCounts DEF Heaped, JsonInv
  <1>2. JsonInv /\ [JNext]_jvars => JsonInv'
    <2> SUFFICES ASSUME JsonInv, [JNext]_jvars PROVE JsonInv'
      OBVIOUS
    <2>1. Heaped(heap')
      BY NextHeaped DEF JsonInv
    <2>2. Counts(heap', owned')
      BY NextCounts DEF JsonInv
    <2>3. Heaped(heap)'
      BY <2>1 DEF Heaped, GoodValue, GoodTable, TableTyped, ListTrue, KeysOnce, KeysMet, Met
    <2>4. Counts(heap, owned)'
      BY <2>2 DEF Counts, Celled, Cell, Short, Ranked, Ranks, HeldIn, SumOver, Adds, Inside, RefsIn
    <2> QED  BY <2>3, <2>4 DEF JsonInv
  <1> QED  BY <1>1, <1>2, CountsAreTrue, PTL DEF JSpec

-----------------------------------------------------------------------------
(***************************************************************************)
(* Tokens: the powers of two and the numbers of an address, all three of   *)
(* them functions by recursion.                                            *)
(***************************************************************************)
\* The widths are numbers.
LEMMA Widths ==
    /\ OctetBits \in Nat \ {0} /\ Octets \in Nat \ {0} /\ PortBits \in Nat \ {0}
    /\ AddrBits \in Nat /\ AddrBits >= OctetBits /\ AddrBits >= 1
  <1>1. OctetBits \in Nat \ {0} /\ Octets \in Nat \ {0} /\ PortBits \in Nat \ {0}
    BY TokenAuthAssumption
  <1>2. PICK o \in Nat, c \in Nat : o = Octets /\ c = OctetBits /\ o >= 1 /\ c >= 1
    BY <1>1
  <1>3. c * o \in Nat /\ c * o >= c
    BY <1>2
  <1> QED  BY <1>1, <1>2, <1>3 DEF AddrBits

Powers(f) == f = [n \in 0 .. AddrBits + PortBits |-> IF n = 0 THEN 1 ELSE 2 * f[n - 1]]

\* What the powers are.
LEMMA Pow2Steps ==
    /\ Pow2[0] = 1
    /\ \A n \in 0 .. AddrBits + PortBits : Pow2[n] \in Nat /\ Pow2[n] >= 1
    /\ \A n \in 0 .. AddrBits + PortBits - 1 : Pow2[n + 1] = 2 * Pow2[n]
  <1> DEFINE top == AddrBits + PortBits
             double == [x \in Nat |-> 2 * x]
             g == [i \in 1 .. top |-> double]
  <1>1. top \in Nat
    BY Widths
  <1>2. double \in [Nat -> Nat] /\ \A x \in Nat : double[x] = 2 * x
    OBVIOUS
  <1>3. \A i \in 1 .. top : g[i] = double
    OBVIOUS
  <1> HIDE DEF double
  <1>4. \A i \in 1 .. top : g[i] \in [Nat -> Nat]
    BY <1>2, <1>3
  <1> HIDE DEF g, top
  <1>5. PICK f : Iterates(f, top, 1, g)
    BY <1>1, <1>4, IteratesExist
  <1>6. Powers(f)
    <2>1. ASSUME NEW n \in 0 .. top PROVE f[n] = IF n = 0 THEN 1 ELSE 2 * f[n - 1]
      <3>1. CASE n = 0
        BY <1>5, <3>1 DEF Iterates
      <3>2. CASE n # 0
        <4>1. n \in 1 .. top /\ n - 1 \in 0 .. top
          BY <1>1, <3>2
        <4>2. f[n] = g[n][f[n - 1]] /\ f[n - 1] \in Nat
          BY <1>5, <4>1 DEF Iterates
        <4>3. f[n] = double[f[n - 1]]
          BY <1>3, <4>1, <4>2
        <4>4. f[n] = 2 * f[n - 1]
          BY <1>2, <4>2, <4>3
        <4> QED  BY <3>2, <4>4
      <3> QED  BY <3>1, <3>2
    <2>2. f = [n \in 0 .. top |-> f[n]]
      BY <1>5 DEF Iterates
    <2> QED  BY <2>1, <2>2 DEF Powers, top
  <1>7. Powers(Pow2)
    <2>1. Powers(CHOOSE h : Powers(h))
      BY <1>6
    <2> QED  BY <2>1 DEF Pow2, Powers
  <1>8. Pow2[0] = 1
    <2>1. 0 \in 0 .. AddrBits + PortBits
      BY <1>1 DEF top
    <2> QED  BY <1>7, <2>1 DEF Powers
  <1>9. ASSUME NEW n \in Nat, n + 1 <= top PROVE Pow2[n + 1] = 2 * Pow2[n]
    <2>1. n + 1 \in 0 .. AddrBits + PortBits /\ n + 1 # 0 /\ (n + 1) - 1 = n
      BY <1>1, <1>9 DEF top
    <2> QED  BY <1>7, <2>1 DEF Powers
  <1> DEFINE S == {n \in Nat : n <= top => Pow2[n] \in Nat /\ Pow2[n] >= 1}
  <1>10. 0 \in S
    BY <1>8
  <1>11. ASSUME NEW n \in Nat, n \in S PROVE n + 1 \in S
    <2> SUFFICES ASSUME n + 1 <= top PROVE Pow2[n + 1] \in Nat /\ Pow2[n + 1] >= 1
      OBVIOUS
    <2>1. Pow2[n] \in Nat /\ Pow2[n] >= 1
      BY <1>1, <1>11
    <2>2. Pow2[n + 1] = 2 * Pow2[n]
      BY <1>9
    <2> QED  BY <2>1, <2>2
  <1> HIDE DEF S
  <1>12. \A n \in Nat : n \in S
    BY <1>10, <1>11, AllNaturals
  <1>13. \A n \in 0 .. top : Pow2[n] \in Nat /\ Pow2[n] >= 1
    BY <1>12 DEF S
  <1>14. \A n \in 0 .. top - 1 : n \in Nat /\ n + 1 <= top
    BY <1>1
  <1>15. \A n \in 0 .. AddrBits + PortBits : Pow2[n] \in Nat /\ Pow2[n] >= 1
    BY <1>13 DEF top
  <1>16. \A n \in 0 .. AddrBits + PortBits - 1 : Pow2[n + 1] = 2 * Pow2[n]
    <2> SUFFICES ASSUME NEW n \in 0 .. AddrBits + PortBits - 1 PROVE Pow2[n + 1] = 2 * Pow2[n]
      OBVIOUS
    <2>1. n \in Nat /\ n + 1 <= top
      BY Widths DEF top
    <2> QED  BY <1>9, <2>1
  <1> QED  BY <1>8, <1>15, <1>16, Zenon

\* One power
LEMMA Pow2Is ==
    ASSUME NEW n \in Nat, n <= AddrBits + PortBits
    PROVE  Pow2[n] \in Nat /\ Pow2[n] >= 1
  <1>1. n \in 0 .. AddrBits + PortBits
    BY Widths
  <1> QED  BY <1>1, Pow2Steps

\* The next power
LEMMA Pow2Next ==
    ASSUME NEW n \in Nat, n + 1 <= AddrBits + PortBits
    PROVE  Pow2[n + 1] = 2 * Pow2[n]
  <1>1. n \in 0 .. AddrBits + PortBits - 1
    BY Widths
  <1> QED  BY <1>1, Pow2Steps

\* The power of a sum is the product of the powers.
LEMMA Pow2Sum ==
    ASSUME NEW a \in Nat, NEW b \in Nat, a + b <= AddrBits + PortBits
    PROVE  Pow2[a + b] = Pow2[a] * Pow2[b]
  <1> DEFINE S == {n \in Nat : a + n <= AddrBits + PortBits => Pow2[a + n] = Pow2[a] * Pow2[n]}
  <1>1. 0 \in S
    <2> SUFFICES ASSUME a + 0 <= AddrBits + PortBits PROVE Pow2[a + 0] = Pow2[a] * Pow2[0]
      OBVIOUS
    <2>1. Pow2[a] \in Nat /\ Pow2[0] = 1 /\ a + 0 = a
      BY Pow2Is, Pow2Steps
    <2> QED  BY <2>1
  <1>2. ASSUME NEW n \in Nat, n \in S PROVE n + 1 \in S
    <2> SUFFICES ASSUME a + (n + 1) <= AddrBits + PortBits
                 PROVE  Pow2[a + (n + 1)] = Pow2[a] * Pow2[n + 1]
      OBVIOUS
    <2>1. a + n \in Nat /\ a + n <= AddrBits + PortBits /\ (a + n) + 1 = a + (n + 1)
          /\ n + 1 <= AddrBits + PortBits /\ a <= AddrBits + PortBits /\ n <= AddrBits + PortBits
      BY Widths
    <2>2. Pow2[a + n] = Pow2[a] * Pow2[n]
      BY <1>2, <2>1
    <2>3. Pow2[(a + n) + 1] = 2 * Pow2[a + n]
      BY <2>1, Pow2Next
    <2>4. Pow2[n + 1] = 2 * Pow2[n]
      BY <2>1, Pow2Next
    <2>5. PICK p \in Nat, q \in Nat : p = Pow2[a] /\ q = Pow2[n]
      BY <2>1, Pow2Is
    <2>6. 2 * (p * q) = p * (2 * q)
      OBVIOUS
    <2> QED  BY <2>1, <2>2, <2>3, <2>4, <2>5, <2>6
  <1> HIDE DEF S
  <1>3. b \in S
    BY <1>1, <1>2, AllNaturals
  <1> QED  BY <1>3 DEF S

\* A larger power is a multiple.
LEMMA Pow2Less ==
    ASSUME NEW a \in Nat, NEW b \in Nat, a <= b, b <= AddrBits + PortBits
    PROVE  Pow2[a] <= Pow2[b]
  <1>1. b - a \in Nat /\ a + (b - a) = b /\ a <= AddrBits + PortBits
        /\ b - a <= AddrBits + PortBits
    BY Widths
  <1>2. Pow2[b] = Pow2[a] * Pow2[b - a]
    BY <1>1, Pow2Sum
  <1>3. PICK p \in Nat, q \in Nat : p = Pow2[a] /\ q = Pow2[b - a] /\ q >= 1
    BY <1>1, Pow2Is
  <1>4. p * q >= p
    BY <1>3
  <1> QED  BY <1>2, <1>3, <1>4

-----------------------------------------------------------------------------
(***************************************************************************)
(* Tokens: the bits of a number, and the mask of a prefix.                 *)
(***************************************************************************)
\* There is one quotient and one remainder.
LEMMA DivIs ==
    ASSUME NEW s \in Nat, s >= 1, NEW q \in Nat, NEW m \in 0 .. s - 1
    PROVE  (s * q + m) \div s = q
  <1>1. PICK x \in Nat : x = s * q + m
    OBVIOUS
  <1>2. x % s \in 0 .. s - 1 /\ x = s * (x \div s) + (x % s) /\ x \div s \in Int
    BY <1>1
  <1>3. PICK d \in Int, r \in 0 .. s - 1 : d = x \div s /\ r = x % s /\ x = s * d + r
    BY <1>2
  <1>4. s * (d - q) = m - r
    BY <1>1, <1>3
  <1>5. PICK e \in Int : e = d - q
    OBVIOUS
  <1>6. s * e < s /\ s * e > -s
    BY <1>3, <1>4, <1>5
  <1>7. e = 0
    BY <1>6
  <1> QED  BY <1>1, <1>3, <1>5, <1>7

\* The bit of x at n
Bit(x, n) == (x \div Pow2[n]) % 2

HalfSplit(p, h, b, r) ==
    /\ 2 * p \in Nat /\ 2 * p >= 1 /\ p * b + r \in 0 .. 2 * p - 1
    /\ p * (2 * h + b) + r = (2 * p) * h + (p * b + r)

\* A number is the half of its quotient times the double, and a rest.
LEMMA HalfParts ==
    ASSUME NEW p \in Nat, p >= 1, NEW h \in Nat, NEW b \in 0 .. 1, NEW r \in 0 .. p - 1
    PROVE  HalfSplit(p, h, b, r)
  <1> USE DEF HalfSplit
  <1>1. b = 0 \/ b = 1
    OBVIOUS
  <1>2. PICK u \in Nat : u = p * h
    OBVIOUS
  <1>3. (2 * p) * h = 2 * u
    BY <1>2
  <1>4. CASE b = 0
    <2>1. p * b = 0
      BY <1>4
    <2>2. p * (2 * h + b) = 2 * u
      BY <1>2, <1>4
    <2> QED  BY <1>3, <2>1, <2>2
  <1>5. CASE b = 1
    <2>1. p * b = p
      BY <1>5
    <2>2. p * (2 * h + b) = 2 * u + p
      BY <1>2, <1>5
    <2> QED  BY <1>3, <2>1, <2>2
  <1> QED  BY <1>1, <1>4, <1>5

\* The last digit of a quotient is the bit, and the others are the next quotient.
LEMMA Halved ==
    ASSUME NEW x \in Nat, NEW n \in Nat, n + 1 <= AddrBits + PortBits
    PROVE  /\ Bit(x, n) \in 0 .. 1 /\ x \div Pow2[n] \in Nat /\ x \div Pow2[n + 1] \in Nat
           /\ x \div Pow2[n] = 2 * (x \div Pow2[n + 1]) + Bit(x, n)
  <1>1. n <= AddrBits + PortBits
    BY Widths
  <1>2. PICK p \in Nat : p = Pow2[n] /\ p >= 1
    BY <1>1, Pow2Is
  <1>3. Pow2[n + 1] = 2 * p
    BY <1>2, Pow2Next
  <1>4. x % p \in 0 .. p - 1 /\ x = p * (x \div p) + (x % p) /\ x \div p \in Nat
    BY <1>2, Divided
  <1>5. PICK q \in Nat, r \in 0 .. p - 1 : q = x \div p /\ r = x % p /\ x = p * q + r
    BY <1>4
  <1>6. q % 2 \in 0 .. 2 - 1 /\ q = 2 * (q \div 2) + (q % 2) /\ q \div 2 \in Nat
    BY Divided
  <1>7. PICK h \in Nat, b \in 0 .. 1 : h = q \div 2 /\ b = q % 2 /\ q = 2 * h + b
    BY <1>6
  <1> DEFINE s == 2 * p
             m == p * b + r
  <1>8. s \in Nat /\ s >= 1 /\ m \in 0 .. s - 1 /\ p * (2 * h + b) + r = s * h + m
    <2>1. HalfSplit(p, h, b, r)
      BY <1>2, HalfParts
    <2> QED  BY <2>1, Zenon DEF HalfSplit
  <1>9. x = s * h + m
    BY <1>5, <1>7, <1>8
  <1> HIDE DEF s, m
  <1>10. (s * h + m) \div s = h
    BY <1>8, DivIs
  <1>11. x \div Pow2[n + 1] = h
    BY <1>3, <1>9, <1>10 DEF s
  <1>12. Bit(x, n) = b /\ x \div Pow2[n] = q
    BY <1>2, <1>5, <1>7 DEF Bit
  <1> QED  BY <1>7, <1>11, <1>12

\* What an even quotient is: no bit.
LEMMA BitIs ==
    ASSUME NEW x, NEW n \in Nat, n + 1 <= AddrBits + PortBits,
           NEW h \in Nat, NEW b \in 0 .. 1, NEW r \in 0 .. Pow2[n] - 1,
           x = Pow2[n] * (2 * h + b) + r
    PROVE  Bit(x, n) = b
  <1>1. n <= AddrBits + PortBits
    BY Widths
  <1>2. PICK p \in Nat : p = Pow2[n] /\ p >= 1
    BY <1>1, Pow2Is
  <1> DEFINE q == 2 * h + b
  <1>3. q \in Nat /\ r \in 0 .. p - 1
    BY <1>2
  <1> HIDE DEF q
  <1>4. (p * q + r) \div p = q
    BY <1>2, <1>3, DivIs
  <1>5. x \div Pow2[n] = q
    BY <1>2, <1>4 DEF q
  <1>6. q % 2 = b
    BY DEF q
  <1> QED  BY <1>5, <1>6 DEF Bit

\* The mask of a prefix has the bits of the prefix and no others.
LEMMA MaskBits ==
    ASSUME NEW length \in 1 .. AddrBits
    PROVE  Bits(PrefixMask(length)) = AddrBits - length .. AddrBits - 1
  <1> DEFINE low == AddrBits - length
             x == PrefixMask(length)
  <1>1. low \in Nat /\ low <= AddrBits - 1 /\ AddrBits \in Nat /\ PortBits \in Nat
        /\ AddrBits <= AddrBits + PortBits /\ low <= AddrBits + PortBits
    BY Widths
  <1>2. PICK end \in Nat, p \in Nat : end = Pow2[AddrBits] /\ p = Pow2[low] /\ p >= 1
    BY <1>1, Pow2Is
  <1>3. x = end - p
    BY <1>2 DEF PrefixMask, AddrEnd
  <1> HIDE DEF x, low
  <1>4. ASSUME NEW n \in 0 .. AddrBits - 1, n < low PROVE Bit(x, n) = 0
    <2>1. n \in Nat /\ n + 1 <= AddrBits + PortBits /\ n + 1 <= AddrBits /\ n + 1 <= low
          /\ AddrBits - (n + 1) \in Nat /\ low - (n + 1) \in Nat
      BY <1>1, <1>4
    <2> DEFINE a == AddrBits - (n + 1)
               c == low - (n + 1)
    <2>2. a \in Nat /\ c \in Nat /\ (n + 1) + a = AddrBits /\ (n + 1) + c = low /\ c <= a
          /\ a <= AddrBits + PortBits /\ c <= AddrBits + PortBits
      BY <1>1, <2>1
    <2> HIDE DEF a, c
    <2>3. end = Pow2[n + 1] * Pow2[a] /\ p = Pow2[n + 1] * Pow2[c]
      <3>1. n + 1 \in Nat
        BY <2>1
      <3>2. Pow2[(n + 1) + a] = Pow2[n + 1] * Pow2[a]
        BY <1>1, <2>2, <3>1, Pow2Sum
      <3>3. Pow2[(n + 1) + c] = Pow2[n + 1] * Pow2[c]
        BY <1>1, <2>2, <3>1, Pow2Sum
      <3> QED  BY <1>2, <2>2, <3>2, <3>3
    <2>4. Pow2[n + 1] = 2 * Pow2[n]
      BY <2>1, Pow2Next
    <2>5. PICK u \in Nat, v \in Nat : u = Pow2[a] /\ v = Pow2[c]
      BY <2>2, Pow2Is
    <2>6. v <= u
      BY <2>2, <2>5, Pow2Less
    <2>7. PICK w \in Nat : w = Pow2[n] /\ w >= 1
      <3>1. n <= AddrBits + PortBits
        BY <1>1, <2>1
      <3> QED  BY <2>1, <3>1, Pow2Is
    <2> DEFINE h == u - v
    <2>8. h \in Nat /\ 0 \in 0 .. Pow2[n] - 1
      BY <2>6, <2>7
    <2>9. x = w * (2 * h + 0) + 0
      <3>1. (2 * w) * u - (2 * w) * v = w * (2 * (u - v) + 0) + 0
        BY <2>5, <2>7
      <3> QED  BY <1>3, <2>3, <2>4, <2>5, <2>7, <3>1
    <2> HIDE DEF h
    <2> QED  BY <2>1, <2>7, <2>8, <2>9, BitIs
  <1>5. ASSUME NEW n \in 0 .. AddrBits - 1, n >= low PROVE Bit(x, n) = 1
    <2> DEFINE a == AddrBits - (n + 1)
    <2>1. n \in Nat /\ n + 1 <= AddrBits + PortBits /\ a \in Nat /\ (n + 1) + a = AddrBits
          /\ a <= AddrBits + PortBits /\ n <= AddrBits + PortBits
      BY <1>1, <1>5
    <2> HIDE DEF a
    <2>2. end = Pow2[n + 1] * Pow2[a]
      <3>1. n + 1 \in Nat
        BY <2>1
      <3>2. Pow2[(n + 1) + a] = Pow2[n + 1] * Pow2[a]
        BY <1>1, <2>1, <3>1, Pow2Sum
      <3> QED  BY <1>2, <2>1, <3>2
    <2>3. Pow2[n + 1] = 2 * Pow2[n]
      BY <2>1, Pow2Next
    <2>4. PICK u \in Nat, w \in Nat : u = Pow2[a] /\ w = Pow2[n] /\ u >= 1 /\ w >= 1
      BY <2>1, Pow2Is
    <2>5. p <= w
      BY <1>1, <1>2, <1>5, <2>1, <2>4, Pow2Less
    <2> DEFINE h == u - 1
               r == w - p
    <2>6. h \in Nat /\ r \in 0 .. Pow2[n] - 1 /\ 1 \in 0 .. 1
      BY <1>2, <2>4, <2>5
    <2>7. x = w * (2 * h + 1) + r
      <3>1. (2 * w) * u - p = w * (2 * (u - 1) + 1) + (w - p)
        BY <1>2, <2>4
      <3> QED  BY <1>3, <2>2, <2>3, <2>4, <3>1
    <2> HIDE DEF h, r
    <2> QED  BY <2>1, <2>4, <2>6, <2>7, BitIs
  <1>6. \A n \in 0 .. AddrBits - 1 : Bit(x, n) = 1 <=> n >= low
    <2> SUFFICES ASSUME NEW n \in 0 .. AddrBits - 1 PROVE Bit(x, n) = 1 <=> n >= low
      OBVIOUS
    <2>1. n < low \/ n >= low
      BY <1>1
    <2>2. n < low => ~ (n >= low)
      BY <1>1
    <2> QED  BY <1>4, <1>5, <2>1, <2>2
  <1>7. Bits(x) = {n \in 0 .. AddrBits - 1 : n >= low}
    BY <1>6 DEF Bits, Bit
  <1> QED  BY <1>1, <1>7 DEF x, low

\* Two addresses have the same bits from n on as they have the same quotient.
LEMMA SameBits ==
    ASSUME NEW x \in Nat, x < AddrEnd, NEW y \in Nat, y < AddrEnd, NEW low \in 0 .. AddrBits
    PROVE  (\A n \in low .. AddrBits - 1 : Bit(x, n) = Bit(y, n))
             <=> x \div Pow2[low] = y \div Pow2[low]
  <1> DEFINE Same(n) == x \div Pow2[n] = y \div Pow2[n]
             Alike(n) == Bit(x, n) = Bit(y, n)
  <1>1. AddrBits \in Nat /\ PortBits \in Nat /\ AddrBits <= AddrBits + PortBits
        /\ PortBits >= 1 /\ low \in Nat
    BY Widths
  <1>2. ASSUME NEW n \in Nat, n + 1 <= AddrBits
        PROVE  Same(n) <=> (Same(n + 1) /\ Alike(n))
    <2>1. n + 1 <= AddrBits + PortBits
      BY <1>1, <1>2
    <2>2. PICK a \in Nat, b \in Nat, c \in 0 .. 1 :
             /\ a = x \div Pow2[n] /\ b = x \div Pow2[n + 1] /\ c = Bit(x, n) /\ a = 2 * b + c
      BY <2>1, Halved
    <2>3. PICK d \in Nat, e \in Nat, f \in 0 .. 1 :
             /\ d = y \div Pow2[n] /\ e = y \div Pow2[n + 1] /\ f = Bit(y, n) /\ d = 2 * e + f
      BY <2>1, Halved
    <2>4. a = d <=> (b = e /\ c = f)
      BY <2>2, <2>3
    <2> QED  BY <2>2, <2>3, <2>4
  <1>3. Same(AddrBits)
    <2>1. PICK p \in Nat : p = Pow2[AddrBits] /\ p >= 1
      BY <1>1, Pow2Is
    <2>2. x \in 0 .. p - 1 /\ y \in 0 .. p - 1 /\ 0 \in Nat
      BY <2>1 DEF AddrEnd
    <2>3. (p * 0 + x) \div p = 0 /\ (p * 0 + y) \div p = 0
      BY <2>1, <2>2, DivIs
    <2>4. p * 0 + x = x /\ p * 0 + y = y
      BY <2>1
    <2> QED  BY <2>1, <2>3, <2>4
  <1> HIDE DEF Same, Alike
  <1>4. ASSUME \A n \in low .. AddrBits - 1 : Alike(n) PROVE Same(low)
    <2> DEFINE S == {k \in Nat : low + k <= AddrBits => Same(AddrBits - k)}
    <2>1. 0 \in S
      BY <1>1, <1>3
    <2>2. ASSUME NEW k \in Nat, k \in S PROVE k + 1 \in S
      <3> SUFFICES ASSUME low + (k + 1) <= AddrBits PROVE Same(AddrBits - (k + 1))
        OBVIOUS
      <3> DEFINE n == AddrBits - (k + 1)
      <3>1. n \in Nat /\ n + 1 = AddrBits - k /\ n + 1 <= AddrBits /\ low + k <= AddrBits
            /\ n \in low .. AddrBits - 1
        BY <1>1
      <3>2. Same(AddrBits - k)
        BY <2>2, <3>1
      <3> HIDE DEF n
      <3>3. Same(n)
        BY <1>2, <1>4, <3>1, <3>2
      <3> QED  BY <3>3 DEF n
    <2> HIDE DEF S
    <2>3. AddrBits - low \in Nat /\ low + (AddrBits - low) = AddrBits
          /\ AddrBits - (AddrBits - low) = low
      BY <1>1
    <2>4. AddrBits - low \in S
      BY <2>1, <2>2, <2>3, AllNaturals
    <2> QED  BY <2>3, <2>4 DEF S
  <1>5. ASSUME Same(low) PROVE \A n \in low .. AddrBits - 1 : Alike(n)
    <2> DEFINE S == {k \in Nat : low + k <= AddrBits => Same(low + k)}
    <2>1. 0 \in S
      BY <1>1, <1>5
    <2>2. ASSUME NEW k \in Nat, k \in S PROVE k + 1 \in S
      <3> SUFFICES ASSUME low + (k + 1) <= AddrBits PROVE Same(low + (k + 1))
        OBVIOUS
      <3>1. low + k \in Nat /\ (low + k) + 1 = low + (k + 1) /\ (low + k) + 1 <= AddrBits
            /\ low + k <= AddrBits
        BY <1>1
      <3>2. Same(low + k)
        BY <2>2, <3>1
      <3>3. Same((low + k) + 1)
        BY <1>2, <3>1, <3>2
      <3> QED  BY <3>1, <3>3
    <2> HIDE DEF S
    <2> SUFFICES ASSUME NEW n \in low .. AddrBits - 1 PROVE Alike(n)
      OBVIOUS
    <2>3. n \in Nat /\ n - low \in Nat /\ low + (n - low) = n /\ n + 1 <= AddrBits
          /\ low + (n - low) <= AddrBits
      BY <1>1
    <2>4. n - low \in S
      BY <2>1, <2>2, <2>3, AllNaturals
    <2>5. Same(n)
      BY <2>3, <2>4 DEF S
    <2> QED  BY <1>2, <2>3, <2>5
  <1> QED  BY <1>4, <1>5 DEF Same, Alike

\* A quotient says the same of two addresses as the bits that ContainIp() compares.
LEMMA ContainsPrefix ==
    ASSUME NEW x \in Nat, x < AddrEnd, NEW y \in Nat, y < AddrEnd, NEW length \in 0 .. AddrBits
    PROVE  ContainIp([address |-> x, mask |-> length], y) <=> Prefix(x, length) = Prefix(y, length)
  <1> DEFINE range == [address |-> x, mask |-> length]
             low == AddrBits - length
  <1>1. AddrBits \in Nat /\ low \in 0 .. AddrBits
    BY Widths
  <1>2. (\A n \in low .. AddrBits - 1 : Bit(x, n) = Bit(y, n)) <=> Prefix(x, length) = Prefix(y, length)
    <2> HIDE DEF low
    <2>1. (\A n \in low .. AddrBits - 1 : Bit(x, n) = Bit(y, n))
             <=> x \div Pow2[low] = y \div Pow2[low]
      BY <1>1, SameBits
    <2> QED  BY <2>1 DEF Prefix, low
  <1>3. CASE length = 0
    <2>1. \A n \in low .. AddrBits - 1 : Bit(x, n) = Bit(y, n)
      BY <1>1, <1>3
    <2>2. ContainIp(range, y)
      BY <1>3 DEF ContainIp
    <2> QED  BY <1>2, <2>1, <2>2
  <1>4. CASE length # 0
    <2>1. length \in 1 .. AddrBits
      BY <1>1, <1>4
    <2>2. Bits(PrefixMask(length)) = low .. AddrBits - 1
      BY <2>1, MaskBits
    <2> DEFINE mask == Bits(PrefixMask(length))
    <2>3. ContainIp(range, y) <=> Bits(x) \cap mask = Bits(y) \cap mask
      BY <1>4 DEF ContainIp
    <2>4. Bits(x) \cap mask = Bits(y) \cap mask <=> \A n \in low .. AddrBits - 1 : Bit(x, n) = Bit(y, n)
      <3>1. ASSUME NEW n \in low .. AddrBits - 1 
            PROVE  /\ n \in 0 .. AddrBits - 1 /\ (n \in Bits(x) <=> Bit(x, n) = 1)
                   /\ (n \in Bits(y) <=> Bit(y, n) = 1)
        <4>1. n \in 0 .. AddrBits - 1
          BY <1>1
        <4> QED  BY <4>1 DEF Bits, Bit
      <3>2. ASSUME NEW n \in low .. AddrBits - 1
            PROVE  Bit(x, n) \in 0 .. 1 /\ Bit(y, n) \in 0 .. 1
        <4>1. n \in Nat /\ n + 1 <= AddrBits + PortBits
          BY <1>1, Widths
        <4> QED  BY <4>1, Halved
      <3>3. ASSUME NEW n \in low .. AddrBits - 1
            PROVE  Bit(x, n) = Bit(y, n) <=> (n \in Bits(x) <=> n \in Bits(y))
        <4>1. PICK a \in 0 .. 1, b \in 0 .. 1 : a = Bit(x, n) /\ b = Bit(y, n)
          BY <3>2
        <4>2. a = b <=> (a = 1 <=> b = 1)
          OBVIOUS
        <4> QED  BY <3>1, <4>1, <4>2
      <3>4. Bits(x) \cap mask = Bits(y) \cap mask
              <=> \A n \in low .. AddrBits - 1 : n \in Bits(x) <=> n \in Bits(y)
        <4> HIDE DEF low, mask
        <4>1. mask = low .. AddrBits - 1
          BY <2>2 DEF mask
        <4> DEFINE I == low .. AddrBits - 1
        <4> HIDE DEF I
        <4>2. Bits(x) \cap I = Bits(y) \cap I <=> \A n \in I : n \in Bits(x) <=> n \in Bits(y)
          OBVIOUS
        <4> QED  BY <4>1, <4>2 DEF I
      <3> HIDE DEF low, mask
      <3> QED  BY <3>3, <3>4
    <2> QED  BY <1>2, <2>3, <2>4
  <1> QED  BY <1>3, <1>4

-----------------------------------------------------------------------------
(***************************************************************************)
(* Tokens: what is read of them and of the request.                        *)
(***************************************************************************)
Sums(f, parts) ==
    f = [i \in 0 .. Octets |->
            IF i = 0 THEN 0 ELSE (f[i - 1] * Pow2[OctetBits] + parts[i]) % AddrEnd]

Values(f, parts) ==
    f = [i \in 0 .. Octets |-> IF i = 0 THEN 0 ELSE f[i - 1] * Pow2[OctetBits] + parts[i]]

\* The first Octets of them are numbers.
Numbers(parts) == \A i \in 1 .. Octets : parts[i] \in Nat

\* Sizes of an octet and of an address
LEMMA Ends ==
    /\ Octets \in Nat /\ OctetBits \in Nat
    /\ AddrEnd \in Nat /\ AddrEnd >= 1 /\ Pow2[OctetBits] \in Nat /\ Pow2[OctetBits] >= 1
    /\ Pow2[PortBits] \in Nat /\ Pow2[PortBits] >= 1
  <1>1. /\ AddrBits \in Nat /\ OctetBits \in Nat /\ PortBits \in Nat /\ Octets \in Nat
        /\ AddrBits <= AddrBits + PortBits /\ OctetBits <= AddrBits + PortBits
        /\ PortBits <= AddrBits + PortBits
    BY Widths
  <1>2. AddrEnd \in Nat /\ AddrEnd >= 1
    BY <1>1, Pow2Is DEF AddrEnd
  <1>3. Pow2[OctetBits] \in Nat /\ Pow2[OctetBits] >= 1
    BY <1>1, Pow2Is
  <1>4. Pow2[PortBits] \in Nat /\ Pow2[PortBits] >= 1
    BY <1>1, Pow2Is
  <1> QED  BY <1>1, <1>2, <1>3, <1>4

\* The sum that is worked out stays below the end.
LEMMA SumsExist ==
    ASSUME NEW parts, Numbers(parts)
    PROVE  \E f : Sums(f, parts) /\ \A i \in 0 .. Octets : f[i] \in Nat /\ f[i] < AddrEnd
  <1> DEFINE step(i) == [x \in Nat |-> (x * Pow2[OctetBits] + parts[i]) % AddrEnd]
             g == [i \in 1 .. Octets |-> step(i)]
  <1>1. PICK o \in Nat, end \in Nat : o = Pow2[OctetBits] /\ end = AddrEnd /\ end >= 1
    BY Ends
  <1>2. ASSUME NEW i \in 1 .. Octets, NEW x \in Nat
        PROVE  /\ (x * Pow2[OctetBits] + parts[i]) % AddrEnd \in Nat
               /\ (x * Pow2[OctetBits] + parts[i]) % AddrEnd < AddrEnd
    <2>1. PICK n \in Nat : n = parts[i]
      BY DEF Numbers
    <2>2. PICK m \in Nat : m = x * o + n
      <3>1. x * o \in Nat
        BY <1>1
      <3> QED  BY <3>1
    <2>3. m % end \in 0 .. end - 1
      BY <1>1, Divided
    <2> QED  BY <1>1, <2>1, <2>2, <2>3
  <1>3. \A i \in 1 .. Octets : g[i] = step(i)
    OBVIOUS
  <1>4. \A i \in 1 .. Octets : step(i) \in [Nat -> Nat]
    BY <1>2
  <1>5. \A i \in 1 .. Octets : g[i] \in [Nat -> Nat]
    BY <1>3, <1>4
  <1>6. \A i \in 1 .. Octets, x \in Nat : g[i][x] = (x * Pow2[OctetBits] + parts[i]) % AddrEnd
    BY <1>3
  <1> HIDE DEF g
  <1>7. PICK f : Iterates(f, Octets, 0, g)
    BY <1>5, Ends, IteratesExist
  <1>8. ASSUME NEW i \in 0 .. Octets
        PROVE  /\ f[i] = IF i = 0 THEN 0 ELSE (f[i - 1] * Pow2[OctetBits] + parts[i]) % AddrEnd
               /\ f[i] \in Nat /\ f[i] < AddrEnd
    <2>1. CASE i = 0
      BY <1>1, <1>7, <2>1 DEF Iterates
    <2>2. CASE i # 0
      <3>1. i \in 1 .. Octets /\ i - 1 \in 0 .. Octets
        BY <2>2, Ends
      <3>2. f[i] = g[i][f[i - 1]] /\ f[i - 1] \in Nat
        BY <1>7, <3>1 DEF Iterates
      <3>3. f[i] = (f[i - 1] * Pow2[OctetBits] + parts[i]) % AddrEnd
        BY <1>6, <3>1, <3>2
      <3> QED  BY <1>2, <2>2, <3>1, <3>2, <3>3
    <2> QED  BY <2>1, <2>2
  <1>9. f = [i \in 0 .. Octets |-> f[i]]
    BY <1>7 DEF Iterates
  <1>10. Sums(f, parts)
    BY <1>8, <1>9 DEF Sums
  <1> QED  BY <1>8, <1>10

\* The address that is worked out is one.
LEMMA ParsedIs ==
    ASSUME NEW parts, \A i \in 1 .. Octets : parts[i] \in Int, ParseAddress(parts) # Invalid
    PROVE  ParseAddress(parts) \in Nat /\ ParseAddress(parts) < AddrEnd
  <1> DEFINE sum == CHOOSE f : Sums(f, parts)
  <1>1. ParseAddress(parts) = IF Len(parts) >= Octets /\ \A i \in 1 .. Octets : GoodOctet(parts[i])
                              THEN sum[Octets] ELSE Invalid
    BY DEF ParseAddress, Sums
  <1>2. \A i \in 1 .. Octets : GoodOctet(parts[i])
    BY <1>1
  <1>3. Numbers(parts)
    BY <1>2 DEF Numbers, GoodOctet
  <1>4. PICK f : Sums(f, parts) /\ \A i \in 0 .. Octets : f[i] \in Nat /\ f[i] < AddrEnd
    BY <1>3, SumsExist
  <1>5. Sums(sum, parts)
    BY <1>4
  <1> HIDE DEF sum
  <1>6. Octets \in 1 .. Octets /\ Octets \in 0 .. Octets /\ Octets # 0
    BY Widths
  <1>7. ParseAddress(parts) = sum[Octets]
    BY <1>1
  <1>8. sum[Octets] = (sum[Octets - 1] * Pow2[OctetBits] + parts[Octets]) % AddrEnd
    BY <1>5, <1>6 DEF Sums
  <1> DEFINE S == {i \in Nat : i <= Octets => sum[i] = f[i]}
  <1>9. 0 \in S
    <2>1. 0 \in 0 .. Octets
      BY Ends
    <2> QED  BY <1>4, <1>5, <2>1 DEF Sums
  <1>10. ASSUME NEW i \in Nat, i \in S PROVE i + 1 \in S
    <2> SUFFICES ASSUME i + 1 <= Octets PROVE sum[i + 1] = f[i + 1]
      OBVIOUS
    <2>1. i + 1 \in 0 .. Octets /\ i + 1 # 0 /\ (i + 1) - 1 = i /\ i <= Octets
      BY Ends
    <2>2. sum[i + 1] = (sum[i] * Pow2[OctetBits] + parts[i + 1]) % AddrEnd
      BY <1>5, <2>1 DEF Sums
    <2>3. f[i + 1] = (f[i] * Pow2[OctetBits] + parts[i + 1]) % AddrEnd
      BY <1>4, <2>1 DEF Sums
    <2> QED  BY <1>10, <2>1, <2>2, <2>3
  <1> HIDE DEF S
  <1>11. Octets \in S
    BY <1>9, <1>10, Ends, AllNaturals
  <1>12. sum[Octets] = f[Octets]
    BY <1>11, Ends DEF S
  <1> QED  BY <1>4, <1>6, <1>7, <1>12

\* A number that is small enough is its own remainder.
LEMMA SmallMod ==
    ASSUME NEW end \in Nat, end >= 1, NEW m \in Nat, m < end
    PROVE  m % end = m
  <1>1. m \in 0 .. end - 1 /\ 0 \in Nat
    OBVIOUS
  <1>2. (end * 0 + m) % end = m
    BY <1>1, ModIs
  <1>3. end * 0 + m = m
    OBVIOUS
  <1> QED  BY <1>2, <1>3

\* A number with one more digit
LEMMA BelowProduct ==
    ASSUME NEW v \in Nat, NEW p \in Nat, v < p, NEW o \in Nat, o >= 1, NEW d \in Nat, d <= o - 1
    PROVE  v * o + d < p * o
  <1>1. PICK k \in Nat : p = v + 1 + k
    <2>1. p - (v + 1) \in Nat /\ p = v + 1 + (p - (v + 1))
      OBVIOUS
    <2> QED  BY <2>1
  <1>2. PICK a \in Nat, b \in Nat : a = v * o /\ b = k * o
    BY <1>1
  <1>3. (v + 1 + k) * o = v * o + o + k * o
    OBVIOUS
  <1>4. p * o = a + o + b
    BY <1>1, <1>2, <1>3
  <1> QED  BY <1>2, <1>4

\* The address that four numbers stand for is read as it is meant.
LEMMA ParsedAsWritten ==
    ASSUME NEW parts \in Seq(Int), Len(parts) = Octets,
           \A i \in 1 .. Octets : parts[i] \in 0 .. Pow2[OctetBits] - 1
    PROVE  /\ ParseAddress(parts) = Written(parts)
           /\ ParseAddress(parts) \in Nat /\ ParseAddress(parts) < AddrEnd
  <1> DEFINE sum == CHOOSE f : Sums(f, parts)
             value == CHOOSE f : Values(f, parts)
             octet == Pow2[OctetBits]
             step(i) == [x \in Nat |-> x * octet + parts[i]]
             g == [i \in 1 .. Octets |-> step(i)]
  <1>1. PICK o \in Nat : o = octet /\ o >= 1
    BY Ends
  <1>2. \A i \in 1 .. Octets : parts[i] \in Nat /\ parts[i] <= o - 1
    BY <1>1
  <1>3. Written(parts) = value[Octets]
    BY DEF Written, Values
  <1>4. \A i \in 1 .. Octets : GoodOctet(parts[i])
    BY <1>1, <1>2 DEF GoodOctet
  <1>5. ParseAddress(parts) = sum[Octets]
    <2>1. Len(parts) >= Octets
      BY Ends
    <2> QED  BY <1>4, <2>1 DEF ParseAddress, Sums
  <1>6. Sums(sum, parts)
    <2>1. Numbers(parts)
      BY <1>2 DEF Numbers
    <2>2. PICK f : Sums(f, parts)
      BY <2>1, SumsExist
    <2> QED  BY <2>2
  <1>7. Values(value, parts)
    <2>1. ASSUME NEW i \in 1 .. Octets, NEW x \in Nat PROVE x * octet + parts[i] \in Nat
      <3>1. x * o \in Nat
        BY <1>1
      <3> QED  BY <1>1, <1>2, <3>1
    <2>2. \A i \in 1 .. Octets : g[i] = step(i)
      OBVIOUS
    <2>3. \A i \in 1 .. Octets : step(i) \in [Nat -> Nat]
      BY <2>1
    <2>4. \A i \in 1 .. Octets : g[i] \in [Nat -> Nat]
      BY <2>2, <2>3
    <2>5. \A i \in 1 .. Octets, x \in Nat : g[i][x] = x * octet + parts[i]
      BY <2>2
    <2> HIDE DEF g
    <2>6. PICK f : Iterates(f, Octets, 0, g)
      BY <2>4, Ends, IteratesExist
    <2>7. ASSUME NEW i \in 0 .. Octets
          PROVE  f[i] = IF i = 0 THEN 0 ELSE f[i - 1] * octet + parts[i]
      <3>1. CASE i = 0
        BY <2>6, <3>1 DEF Iterates
      <3>2. CASE i # 0
        <4>1. i \in 1 .. Octets /\ i - 1 \in 0 .. Octets
          BY <3>2, Ends
        <4>2. f[i] = g[i][f[i - 1]] /\ f[i - 1] \in Nat
          BY <2>6, <4>1 DEF Iterates
        <4> QED  BY <2>5, <3>2, <4>1, <4>2
      <3> QED  BY <3>1, <3>2
    <2>8. f = [i \in 0 .. Octets |-> f[i]]
      BY <2>6 DEF Iterates
    <2>9. Values(f, parts)
      BY <2>7, <2>8 DEF Values
    <2> QED  BY <2>9
  <1> HIDE DEF sum, value
  <1> DEFINE S == {i \in Nat : i <= Octets => /\ sum[i] = value[i] /\ value[i] \in Nat
                                              /\ value[i] < Pow2[OctetBits * i]}
  <1>8. 0 \in S
    <2>1. 0 \in 0 .. Octets /\ OctetBits * 0 = 0
      BY Ends
    <2>2. sum[0] = 0 /\ value[0] = 0
      BY <1>6, <1>7, <2>1 DEF Sums, Values
    <2> QED  BY <2>1, <2>2, Pow2Steps
  <1>9. ASSUME NEW i \in Nat, i \in S PROVE i + 1 \in S
    <2> SUFFICES ASSUME i + 1 <= Octets
                 PROVE  /\ sum[i + 1] = value[i + 1] /\ value[i + 1] \in Nat
                        /\ value[i + 1] < Pow2[OctetBits * (i + 1)]
      OBVIOUS
    <2>1. i + 1 \in 0 .. Octets /\ i + 1 \in 1 .. Octets /\ i + 1 # 0 /\ (i + 1) - 1 = i
          /\ i <= Octets
      BY Ends
    <2>2. PICK v \in Nat : v = value[i] /\ v = sum[i] /\ v < Pow2[OctetBits * i]
      BY <1>9, <2>1
    <2>3. PICK d \in Nat : d = parts[i + 1] /\ d <= o - 1
      BY <1>2, <2>1
    <2>4. value[i + 1] = v * o + d
      BY <1>1, <1>7, <2>1, <2>2, <2>3 DEF Values
    <2>5. sum[i + 1] = (v * o + d) % AddrEnd
      BY <1>1, <1>6, <2>1, <2>2, <2>3 DEF Sums
    <2>6. PICK a \in Nat, b \in Nat :
             /\ a = OctetBits * i /\ b = OctetBits * (i + 1) /\ b = a + OctetBits
             /\ b <= AddrBits
      <3>1. PICK c \in Nat, n \in Nat : c = OctetBits /\ n = Octets
        BY Ends
      <3>2. c * i \in Nat /\ c * (i + 1) \in Nat /\ c * (i + 1) = c * i + c
        BY <3>1
      <3>3. c * (i + 1) <= c * n
        <4>1. PICK k \in Nat : n = (i + 1) + k
          <5>1. n - (i + 1) \in Nat /\ n = (i + 1) + (n - (i + 1))
            BY <3>1
          <5> QED  BY <5>1
        <4>2. c * n = c * (i + 1) + c * k /\ c * k \in Nat
          BY <3>1, <4>1
        <4> QED  BY <3>1, <3>2, <4>2
      <3> QED  BY <3>1, <3>2, <3>3 DEF AddrBits
    <2>7. AddrBits \in Nat /\ AddrBits <= AddrBits + PortBits /\ b <= AddrBits + PortBits
          /\ a <= AddrBits + PortBits /\ a + OctetBits <= AddrBits + PortBits
      BY <2>6, Widths
    <2>8. Pow2[b] = Pow2[a] * octet
      BY <2>6, <2>7, Ends, Pow2Sum
    <2>9. PICK p \in Nat : p = Pow2[a] /\ v < p
      BY <2>2, <2>6, <2>7, Pow2Is
    <2>10. v * o + d < p * o
      BY <1>1, <2>3, <2>9, BelowProduct
    <2>11. Pow2[b] <= AddrEnd
      BY <2>6, <2>7, Pow2Less DEF AddrEnd
    <2>12. PICK m \in Nat, end \in Nat : m = v * o + d /\ end = AddrEnd /\ end >= 1
      <3>1. v * o \in Nat
        BY <1>1
      <3> QED  BY <2>3, <3>1, Ends
    <2>13. Pow2[b] = p * o /\ p * o \in Nat
      BY <1>1, <2>8, <2>9
    <2>14. m < Pow2[b] /\ m < end
      BY <2>10, <2>11, <2>12, <2>13
    <2>15. m % end = m
      BY <2>12, <2>14, SmallMod
    <2> QED  BY <2>4, <2>5, <2>6, <2>12, <2>14, <2>15
  <1> HIDE DEF S
  <1>10. Octets \in S
    BY <1>8, <1>9, Ends, AllNaturals
  <1>11. sum[Octets] = value[Octets] /\ value[Octets] \in Nat /\ value[Octets] < Pow2[OctetBits * Octets]
    BY <1>10, Ends DEF S
  <1> QED  BY <1>3, <1>5, <1>11 DEF AddrEnd, AddrBits

\* The ports and the networks of a permission are those of the token.
PortsAre(ports, token) ==
    /\ ports = [i \in DOMAIN ports |-> ports[i]] /\ DOMAIN ports = DOMAIN token.ports.list
    /\ \A i \in DOMAIN ports : /\ ports[i].start = token.ports.list[i][1]
                               /\ ports[i].end = token.ports.list[i][2]

AddrsAre(addrs, token) ==
    /\ DOMAIN addrs = DOMAIN token.addrs.list
    /\ \A i \in DOMAIN addrs :
          addrs[i] = [address |-> Written(token.addrs.list[i].parts), mask |-> token.addrs.list[i].mask]

\* An entry of a list
LEMMA EntryIn ==
    ASSUME NEW S, NEW q \in Seq(S), NEW i \in DOMAIN q
    PROVE  q[i] \in S
  OBVIOUS

\* A list of which every entry is read is read.
LEMMA AllReadIs ==
    ASSUME NEW field, NEW read, \A i \in DOMAIN read : read[i] # <<>>
    PROVE  AllRead(field, read) = IF field.array THEN << [i \in DOMAIN read |-> read[i][1]] >> ELSE <<>>
  BY DEF AllRead

\* retrievePortRangeFromJsonObj()
LEMMA PortsRead ==
    ASSUME NEW token \in Tokens, Proper(token)
    PROVE  /\ ~ token.ports.array => RetrievePortRange(token.ports) = <<>>
           /\ token.ports.array => \E ports : /\ RetrievePortRange(token.ports) = << ports >>
                                              /\ PortsAre(ports, token)
  <1> DEFINE list == token.ports.list
             read == [i \in DOMAIN list |-> ReadPortRange(list[i])]
             ports == [i \in DOMAIN read |-> read[i][1]]
  <1>1. list \in Seq(Seq(Int))
    BY TokenAuthAssumption
  <1>2. ASSUME NEW i \in DOMAIN list
        PROVE  /\ ReadPortRange(list[i]) # <<>>
               /\ ReadPortRange(list[i])[1] = [start |-> list[i][1], end |-> list[i][2]]
    <2> DEFINE e == list[i]
    <2>1. e \in Seq(Int)
      BY <1>1
    <2>2. Len(e) = 2 /\ 0 < e[1] /\ e[1] <= e[2] /\ e[2] < Pow2[PortBits]
      BY DEF Proper
    <2> HIDE DEF e
    <2>3. e[1] \in Int /\ e[2] \in Int
      <3>1. 1 \in DOMAIN e /\ 2 \in DOMAIN e
        BY <2>1, <2>2
      <3> QED  BY <2>1, <3>1, EntryIn
    <2>4. PICK a \in Nat, b \in Nat, end \in Nat :
             /\ a = e[1] /\ b = e[2] /\ end = Pow2[PortBits] /\ end >= 1 /\ 0 < a /\ a < end
             /\ 0 < b /\ b < end
      BY <2>2, <2>3, Ends
    <2>5. a % end = a /\ b % end = b
      BY <2>4, SmallMod
    <2>6. ReadPortRange(e) = << [start |-> e[1], end |-> e[2]] >>
      BY <2>2, <2>4, <2>5 DEF ReadPortRange
    <2>7. ReadPortRange(e) # <<>> /\ ReadPortRange(e)[1] = [start |-> e[1], end |-> e[2]]
      BY <2>6
    <2> QED  BY <2>7 DEF e
  <1>3. DOMAIN read = DOMAIN list /\ \A i \in DOMAIN list : read[i] = ReadPortRange(list[i])
    OBVIOUS
  <1>4. RetrievePortRange(token.ports) = AllRead(token.ports, read)
    BY DEF RetrievePortRange
  <1> HIDE DEF read, list
  <1>5. \A i \in DOMAIN read : read[i] # <<>>
    BY <1>2, <1>3
  <1>6. RetrievePortRange(token.ports) = IF token.ports.array THEN << ports >> ELSE <<>>
    BY <1>4, <1>5, AllReadIs
  <1>7. PortsAre(ports, token)
    <2>1. DOMAIN ports = DOMAIN list
      BY <1>3
    <2>2. ASSUME NEW i \in DOMAIN ports PROVE ports[i].start = list[i][1] /\ ports[i].end = list[i][2]
      <3>1. ports[i] = [start |-> list[i][1], end |-> list[i][2]]
        BY <1>2, <1>3, <2>1
      <3> HIDE DEF ports
      <3> QED  BY <3>1
    <2>3. ports = [i \in DOMAIN ports |-> ports[i]]
      OBVIOUS
    <2> HIDE DEF ports
    <2> QED  BY <2>1, <2>2, <2>3 DEF PortsAre, list
  <1> HIDE DEF ports
  <1> QED  BY <1>6, <1>7

\* retrieveIpRangeFromJsonObj()
LEMMA AddrsRead ==
    ASSUME NEW token \in Tokens, Proper(token)
    PROVE  /\ ~ token.addrs.array => RetrieveIpRange(token.addrs) = <<>>
           /\ token.addrs.array => \E addrs : /\ RetrieveIpRange(token.addrs) = << addrs >>
                                              /\ AddrsAre(addrs, token)
  <1> DEFINE list == token.addrs.list
             read == [i \in DOMAIN list |-> ParseIpMaskString(list[i])]
             addrs == [i \in DOMAIN read |-> read[i][1]]
             net(i) == [address |-> Written(list[i].parts), mask |-> list[i].mask]
  <1>1. list \in Seq([parts : Seq(Int), mask : Int])
    BY TokenAuthAssumption
  <1>2. ASSUME NEW i \in DOMAIN list
        PROVE  ParseIpMaskString(list[i]) # <<>> /\ ParseIpMaskString(list[i])[1] = net(i)
    <2> DEFINE e == list[i]
               parts == e.parts
    <2>1. e \in [parts : Seq(Int), mask : Int]
      BY <1>1, EntryIn
    <2>2. /\ e.mask \in 0 .. AddrBits /\ Len(e.parts) = Octets
          /\ \A k \in 1 .. Octets : e.parts[k] \in 0 .. Pow2[OctetBits] - 1
      BY DEF Proper
    <2> HIDE DEF e
    <2>3. /\ parts \in Seq(Int) /\ Len(parts) = Octets
          /\ \A k \in 1 .. Octets : parts[k] \in 0 .. Pow2[OctetBits] - 1
      BY <2>1, <2>2
    <2> HIDE DEF parts
    <2>4. ParseAddress(parts) = Written(parts) /\ ParseAddress(parts) \in Nat
      BY <2>3, ParsedAsWritten
    <2>5. ParseAddress(parts) # Invalid /\ 0 <= e.mask /\ e.mask <= AddrBits
      BY <2>2, <2>4, Widths DEF Invalid
    <2>6. ParseIpMaskString(e) = << [address |-> Written(e.parts), mask |-> e.mask] >>
      BY <2>4, <2>5 DEF ParseIpMaskString, parts
    <2> DEFINE x == [address |-> Written(e.parts), mask |-> e.mask]
    <2> HIDE DEF x
    <2>7. ParseIpMaskString(e) = << x >>
      BY <2>6 DEF x
    <2>8. ParseIpMaskString(e) # <<>> /\ ParseIpMaskString(e)[1] = x
      BY <2>7
    <2> QED  BY <2>8 DEF x, e
  <1>3. DOMAIN read = DOMAIN list /\ \A i \in DOMAIN list : read[i] = ParseIpMaskString(list[i])
    OBVIOUS
  <1>4. RetrieveIpRange(token.addrs) = AllRead(token.addrs, read)
    BY DEF RetrieveIpRange
  <1> HIDE DEF read
  <1>5. \A i \in DOMAIN read : read[i] # <<>>
    BY <1>2, <1>3
  <1>6. RetrieveIpRange(token.addrs) = IF token.addrs.array THEN << addrs >> ELSE <<>>
    BY <1>4, <1>5, AllReadIs
  <1>7. DOMAIN addrs = DOMAIN list /\ \A i \in DOMAIN addrs : addrs[i] = net(i)
    BY <1>2, <1>3
  <1> HIDE DEF addrs
  <1>8. AddrsAre(addrs, token)
    BY <1>7 DEF AddrsAre
  <1> QED  BY <1>6, <1>8

\* Any reading of a target has numbers, if it is an address.
LEMMA TargetRead ==
    ASSUME NEW target \in Targets, NEW read \in ReadPast(target), ParseAddress(read) # Invalid
    PROVE  ParseAddress(read) \in Nat /\ ParseAddress(read) < AddrEnd
  <1>1. target \in Seq(Int) /\ target # <<>>
    BY TokenAuthAssumption
  <1> DEFINE n == Len(target)
             longer == IF target[n] = Invalid THEN {Invalid} ELSE target[n] .. Pow2[OctetBits] + 1
  <1>2. n \in Nat /\ n >= 1 /\ \A i \in 1 .. n : target[i] \in Int
    BY <1>1
  <1>3. CASE read = target
    <2>1. n >= Octets
      BY <1>3 DEF ParseAddress
    <2>2. \A i \in 1 .. Octets : target[i] \in Int
      BY <1>2, <2>1, Ends
    <2> QED  BY <1>3, <2>2, ParsedIs
  <1>4. CASE read # target
    <2>1. PICK last \in longer, more \in 0 .. Pow2[OctetBits] :
             read = [i \in 1 .. Octets |-> IF i < n THEN target[i] ELSE IF i = n THEN last ELSE more]
      BY <1>4 DEF ReadPast
    <2>2. last \in Int /\ more \in Int
      <3>1. target[n] \in Int
        BY <1>2
      <3>2. Pow2[OctetBits] \in Int
        BY Ends
      <3>3. CASE target[n] = Invalid
        BY <3>2, <3>3 DEF Invalid
      <3>4. CASE target[n] # Invalid
        BY <3>1, <3>2, <3>4
      <3> QED  BY <3>3, <3>4
    <2>3. ASSUME NEW i \in 1 .. Octets PROVE read[i] \in Int
      <3>1. i < n => target[i] \in Int
        BY <1>2
      <3>2. read[i] = IF i < n THEN target[i] ELSE IF i = n THEN last ELSE more
        BY <2>1
      <3> HIDE DEF n, longer
      <3> QED  BY <2>2, <3>1, <3>2
    <2> QED  BY <2>3, ParsedIs
  <1> QED  BY <1>3, <1>4

-----------------------------------------------------------------------------
(***************************************************************************)
(* Tokens: what is let through.                                            *)
(***************************************************************************)
\* The ranges allow what the token covers.
LEMMA RangesCover ==
    ASSUME NEW token \in Tokens, Proper(token), NEW ports, PortsAre(ports, token),
           NEW addrs, AddrsAre(addrs, token), NEW addr \in Nat, addr < AddrEnd, NEW port,
           Verified(token), token.ports.array, token.addrs.array
    PROVE  LET perm == [pub_port_range |-> ports, int_ip_range |-> addrs]
           IN  Covered(token, addr, port) <=> (AddressAllowed(perm, addr) /\ PortAllowed(perm, port))
  <1> DEFINE perm == [pub_port_range |-> ports, int_ip_range |-> addrs]
             nets == token.addrs.list
             list == token.ports.list
  <1>1. AddressAllowed(perm, addr)
          <=> \E i \in DOMAIN nets : Prefix(addr, nets[i].mask) = Prefix(Written(nets[i].parts), nets[i].mask)
    <2>1. nets \in Seq([parts : Seq(Int), mask : Int])
      BY TokenAuthAssumption
    <2>2. ASSUME NEW i \in DOMAIN nets
          PROVE  ContainIp(addrs[i], addr)
                   <=> Prefix(addr, nets[i].mask) = Prefix(Written(nets[i].parts), nets[i].mask)
      <3> DEFINE net == nets[i]
      <3>1. net \in [parts : Seq(Int), mask : Int]
        BY <2>1, EntryIn
      <3>2. /\ net.mask \in 0 .. AddrBits /\ Len(net.parts) = Octets
            /\ \A k \in 1 .. Octets : net.parts[k] \in 0 .. Pow2[OctetBits] - 1
        BY DEF Proper
      <3>3. addrs[i] = [address |-> Written(net.parts), mask |-> net.mask]
        BY DEF AddrsAre
      <3> HIDE DEF net
      <3>4. PICK parts \in Seq(Int), mask \in 0 .. AddrBits : parts = net.parts /\ mask = net.mask
        BY <3>1, <3>2
      <3>5. Written(parts) \in Nat /\ Written(parts) < AddrEnd
        BY <3>2, <3>4, ParsedAsWritten
      <3>6. ContainIp([address |-> Written(parts), mask |-> mask], addr)
              <=> Prefix(Written(parts), mask) = Prefix(addr, mask)
        BY <3>5, ContainsPrefix
      <3>7. ContainIp(addrs[i], addr) <=> Prefix(addr, net.mask) = Prefix(Written(net.parts), net.mask)
        BY <3>3, <3>4, <3>6
      <3> QED  BY <3>7 DEF net
    <2>3. perm.int_ip_range = addrs /\ DOMAIN addrs = DOMAIN nets
      BY DEF AddrsAre
    <2> HIDE DEF perm, nets
    <2> QED  BY <2>2, <2>3 DEF AddressAllowed
  <1>2. PortAllowed(perm, port)
          <=> \E i \in DOMAIN list : list[i][1] <= port /\ port <= list[i][2]
    <2>1. perm.pub_port_range = ports /\ DOMAIN ports = DOMAIN list
      BY DEF PortsAre
    <2>2. \A i \in DOMAIN list : ports[i].start = list[i][1] /\ ports[i].end = list[i][2]
      BY DEF PortsAre
    <2> HIDE DEF perm, list
    <2> QED  BY <2>1, <2>2 DEF PortAllowed
  <1>3. Covered(token, addr, port)
          <=> /\ \E i \in DOMAIN nets :
                    Prefix(addr, nets[i].mask) = Prefix(Written(nets[i].parts), nets[i].mask)
              /\ \E i \in DOMAIN list : list[i][1] <= port /\ port <= list[i][2]
    BY DEF Covered, Verified
  <1> QED  BY <1>1, <1>2, <1>3

\* A function of nothing is the empty list.
LEMMA EmptyFunction ==
    ASSUME NEW f, f = [i \in DOMAIN f |-> f[i]], DOMAIN f = {}
    PROVE  f = <<>>
  <1>1. DOMAIN <<>> = {} /\ <<>> = [i \in DOMAIN <<>> |-> <<>>[i]]
    OBVIOUS
  <1> QED  BY <1>1

\* What is decided is right.
Rightly(code, token, addr, port) ==
    code \in {0, 606} /\ addr # Invalid /\ Proper(token) => (code = 0 <=> Covered(token, addr, port))

\* VerifyAndExtractAuthToken()
LEMMA PermissionIs ==
    ASSUME NEW token \in Tokens, Proper(token)
    PROVE  \/ /\ VerifyAndExtractAuthToken(token) = <<>>
              /\ ~ (Verified(token) /\ token.ports.array /\ token.addrs.array)
           \/ /\ Verified(token) /\ token.ports.array /\ token.addrs.array
              /\ \E ports, addrs : /\ PortsAre(ports, token) /\ AddrsAre(addrs, token)
                                   /\ VerifyAndExtractAuthToken(token)
                                        = << [pub_port_range |-> ports, int_ip_range |-> addrs] >>
  <1> DEFINE p == RetrievePortRange(token.ports)
             a == RetrieveIpRange(token.addrs)
  <1>1. VerifyAndExtractAuthToken(token)
          = IF Verified(token) /\ p # <<>> /\ a # <<>>
            THEN << [pub_port_range |-> p[1], int_ip_range |-> a[1]] >> ELSE <<>>
    BY DEF VerifyAndExtractAuthToken
  <1>2. ~ token.ports.array => p = <<>>
    BY PortsRead
  <1>3. ~ token.addrs.array => a = <<>>
    BY AddrsRead
  <1>4. CASE Verified(token) /\ token.ports.array /\ token.addrs.array
    <2>1. PICK ports : p = << ports >> /\ PortsAre(ports, token)
      BY <1>4, PortsRead
    <2>2. PICK addrs : a = << addrs >> /\ AddrsAre(addrs, token)
      BY <1>4, AddrsRead
    <2> HIDE DEF p, a
    <2>3. p # <<>> /\ a # <<>> /\ p[1] = ports /\ a[1] = addrs
      BY <2>1, <2>2
    <2>4. VerifyAndExtractAuthToken(token) = << [pub_port_range |-> ports, int_ip_range |-> addrs] >>
      BY <1>1, <1>4, <2>3
    <2> QED  BY <1>4, <2>1, <2>2, <2>4
  <1>5. CASE ~ (Verified(token) /\ token.ports.array /\ token.addrs.array)
    <2> HIDE DEF p, a
    <2>1. VerifyAndExtractAuthToken(token) = <<>>
      BY <1>1, <1>2, <1>3, <1>5
    <2> QED  BY <1>5, <2>1
  <1> QED  BY <1>4, <1>5

\* One request
LEMMA AuthoriseRightly ==
    ASSUME NEW token \in Tokens, NEW target \in Targets, NEW eport \in AskedPorts,
           NEW any \in BOOLEAN, any \/ eport # 0, Authorise(token, target, eport, any)
    PROVE  TokenCovers'
  <1> DEFINE perm == VerifyAndExtractAuthToken(token)
  <1>1. PICK read \in ReadPast(target) :
           LET addr == ParseAddress(read)
           IN  CASE perm = <<>> -> Decide(606, token, addr, eport)
                 [] perm # <<>> /\ addr = Invalid -> Decide(402, token, addr, eport)
                 [] perm # <<>> /\ addr # Invalid ->
                    IF ~ IF any THEN VerifyAddAnyPortMapping(perm[1], addr, eport)
                         ELSE VerifyAddPortMapping(perm[1], addr, eport)
                    THEN Decide(606, token, addr, eport)
                    ELSE Decide(0, token, addr, IF eport = 0 THEN perm[1].pub_port_range[1].start
                                                ELSE eport)
    BY Zenon DEF Authorise
  <1> DEFINE addr == ParseAddress(read)
             good == IF any THEN VerifyAddAnyPortMapping(perm[1], addr, eport)
                     ELSE VerifyAddPortMapping(perm[1], addr, eport)
             port == IF eport = 0 THEN perm[1].pub_port_range[1].start ELSE eport
  <1>2. \/ perm = <<>> /\ Decide(606, token, addr, eport)
        \/ perm # <<>> /\ addr = Invalid /\ Decide(402, token, addr, eport)
        \/ perm # <<>> /\ addr # Invalid /\ ~ good /\ Decide(606, token, addr, eport)
        \/ perm # <<>> /\ addr # Invalid /\ good /\ Decide(0, token, addr, port)
    <2> HIDE DEF perm, addr
    <2>1. CASE perm = <<>>
      BY <1>1, <2>1 DEF addr
    <2>2. CASE perm # <<>> /\ addr = Invalid
      BY <1>1, <2>2 DEF addr
    <2>3. CASE perm # <<>> /\ addr # Invalid
      BY <1>1, <2>3 DEF addr
    <2> QED  BY <2>1, <2>2, <2>3
  <1>3. addr # Invalid => addr \in Nat /\ addr < AddrEnd
    BY TargetRead
  <1>4. eport \in Nat
    BY TokenAuthAssumption
  <1> HIDE DEF perm, addr, port, good
  <1>5. ASSUME NEW code, NEW p, Decide(code, token, addr, p), Rightly(code, token, addr, p)
        PROVE  TokenCovers'
    <2>1. verdict'.code = code /\ verdict'.token = token /\ verdict'.addr = addr /\ verdict'.port = p
      BY <1>5 DEF Decide
    <2> QED  BY <1>5, <2>1 DEF TokenCovers, Rightly
  <1>6. CASE ~ Proper(token) \/ addr = Invalid
    <2>1. \A code, p : Rightly(code, token, addr, p)
      BY <1>6 DEF Rightly
    <2> QED  BY <1>2, <1>5, <2>1
  <1>7. CASE Proper(token) /\ addr # Invalid
    <2>1. CASE perm = <<>>
      <3>1. ~ (Verified(token) /\ token.ports.array /\ token.addrs.array)
        <4>1. \A x : << x >> # <<>>
          OBVIOUS
        <4> QED  BY <1>7, <2>1, <4>1, PermissionIs DEF perm
      <3>2. Decide(606, token, addr, eport)
        BY <1>2, <2>1
      <3>3. ~ Covered(token, addr, eport)
        BY <3>1 DEF Covered, Verified
      <3>4. Rightly(606, token, addr, eport)
        BY <3>3 DEF Rightly
      <3> QED  BY <1>5, <3>2, <3>4
    <2>2. CASE perm # <<>>
      <3>1. /\ Verified(token) /\ token.ports.array /\ token.addrs.array
            /\ \E ports, addrs : /\ PortsAre(ports, token) /\ AddrsAre(addrs, token)
                                 /\ perm = << [pub_port_range |-> ports, int_ip_range |-> addrs] >>
        BY <1>7, <2>2, PermissionIs DEF perm
      <3>2. PICK ports, addrs :
               /\ PortsAre(ports, token) /\ AddrsAre(addrs, token)
               /\ perm = << [pub_port_range |-> ports, int_ip_range |-> addrs] >>
        BY <3>1
      <3> DEFINE is == [pub_port_range |-> ports, int_ip_range |-> addrs]
      <3>3. ASSUME NEW x
            PROVE  Covered(token, addr, x) <=> (AddressAllowed(is, addr) /\ PortAllowed(is, x))
        BY <1>3, <1>7, <3>1, <3>2, RangesCover
      <3>4. is.pub_port_range = ports
        OBVIOUS
      <3> HIDE DEF is
      <3>5. perm[1] = is
        BY <3>2 DEF is
      <3>7. token.ports.list \in Seq(Seq(Int))
        BY TokenAuthAssumption
      <3> DEFINE list == token.ports.list
      <3>8. ASSUME NEW i \in DOMAIN list
            PROVE  /\ list[i][1] \in Int /\ list[i][2] \in Int
                   /\ 0 < list[i][1] /\ list[i][1] <= list[i][2]
        <4> DEFINE e == list[i]
        <4>1. e \in Seq(Int)
          BY <3>7, EntryIn
        <4>2. Len(e) = 2 /\ 0 < e[1] /\ e[1] <= e[2]
          BY <1>7 DEF Proper
        <4> HIDE DEF e
        <4>3. 1 \in DOMAIN e /\ 2 \in DOMAIN e
          BY <4>1, <4>2
        <4>4. e[1] \in Int /\ e[2] \in Int
          BY <4>1, <4>3, EntryIn
        <4> QED  BY <4>2, <4>4 DEF e
      <3>9. ASSUME eport = 0 PROVE ~ PortAllowed(is, eport)
        <4> SUFFICES ASSUME NEW i \in DOMAIN ports, ports[i].start <= eport PROVE FALSE
          BY <3>4 DEF PortAllowed
        <4>1. i \in DOMAIN list /\ ports[i].start = list[i][1]
          BY <3>2 DEF PortsAre
        <4> HIDE DEF list
        <4>2. list[i][1] \in Int /\ 0 < list[i][1]
          BY <3>8, <4>1
        <4> QED  BY <3>9, <4>1, <4>2
      <3>10. CASE ~ good
        <4>1. ~ (AddressAllowed(is, addr) /\ PortAllowed(is, eport))
          BY <3>5, <3>10 DEF good, VerifyAddAnyPortMapping, VerifyAddPortMapping
        <4>2. Rightly(606, token, addr, eport)
          BY <3>3, <4>1 DEF Rightly
        <4> QED  BY <1>2, <1>5, <1>7, <2>2, <3>10, <4>2
      <3>11. CASE good
        <4>1. AddressAllowed(is, addr) /\ PortAllowed(is, port)
          <5>1. CASE eport # 0
            BY <3>5, <3>11, <5>1 DEF good, port, VerifyAddAnyPortMapping, VerifyAddPortMapping
          <5>2. CASE eport = 0
            <6>1. AddressAllowed(is, addr) /\ ports # <<>>
              BY <3>4, <3>5, <3>9, <3>11, <5>2 DEF good, VerifyAddAnyPortMapping, VerifyAddPortMapping
            <6>2. port = ports[1].start
              BY <3>4, <3>5, <5>2 DEF port
            <6>3. 1 \in DOMAIN ports
              <7>1. DOMAIN ports = 1 .. Len(list)
                BY <3>2, <3>7 DEF PortsAre
              <7>2. Len(list) \in Nat
                BY <3>7
              <7> HIDE DEF list
              <7>3. ASSUME Len(list) = 0 PROVE FALSE
                <8>1. DOMAIN ports = {} /\ ports = [i \in DOMAIN ports |-> ports[i]]
                  BY <3>2, <7>1, <7>3 DEF PortsAre
                <8>2. ports = <<>>
                  BY <8>1, EmptyFunction
                <8> QED  BY <6>1, <8>2
              <7> QED  BY <7>1, <7>2, <7>3
            <6>4. 1 \in DOMAIN list /\ ports[1].start = list[1][1] /\ ports[1].end = list[1][2]
              BY <3>2, <6>3 DEF PortsAre
            <6> HIDE DEF list
            <6>5. list[1][1] \in Int /\ list[1][2] \in Int /\ list[1][1] <= list[1][2]
              BY <3>8, <6>4
            <6>6. ports[1].start <= port /\ port <= ports[1].end
              BY <6>2, <6>4, <6>5
            <6> QED  BY <3>4, <6>1, <6>3, <6>6 DEF PortAllowed
          <5> QED  BY <5>1, <5>2
        <4>2. Rightly(0, token, addr, port)
          BY <3>3, <4>1 DEF Rightly
        <4> QED  BY <1>2, <1>5, <1>7, <2>2, <3>11, <4>2
      <3> QED  BY <3>10, <3>11
    <2> QED  BY <2>1, <2>2
  <1> QED  BY <1>6, <1>7

\* For any tokens, addresses and ports and any number of bits, a request is let
\* through, with a proper token, if and only if the token covers it (ContainIp(),
\* VeridyAddPortMappingAuth(), VeridyAddAnyPortMappingAuth()).
THEOREM TokensCover == TSpec => []TokenCovers
  <1>1. TInit => TokenCovers
    <2>1. TInit => verdict.code = Invalid
      BY DEF TInit
    <2>2. Invalid \notin {0, 606}
      BY DEF Invalid
    <2> QED  BY <2>1, <2>2 DEF TokenCovers
  <1>2. ASSUME TokenCovers, [TNext]_tvars PROVE TokenCovers'
    <2>1. CASE TNext
      <3>1. PICK token \in Tokens, target \in Targets, eport \in AskedPorts :
               \/ AskAddPortMapping(token, target, eport)
               \/ AskAddAnyPortMapping(token, target, eport)
        BY <2>1 DEF TNext
      <3>2. CASE AskAddPortMapping(token, target, eport)
        <4>1. eport # 0 /\ Authorise(token, target, eport, FALSE)
          BY <3>2 DEF AskAddPortMapping
        <4> QED  BY <4>1, AuthoriseRightly
      <3>3. CASE AskAddAnyPortMapping(token, target, eport)
        <4>1. Authorise(token, target, eport, TRUE)
          BY <3>3 DEF AskAddAnyPortMapping
        <4> QED  BY <4>1, AuthoriseRightly
      <3> QED  BY <3>1, <3>2, <3>3
    <2>2. CASE UNCHANGED tvars
      BY <1>2, <2>2 DEF tvars, TokenCovers
    <2> QED  BY <1>2, <2>1, <2>2
  <1> QED  BY <1>1, <1>2, PTL DEF TSpec

=============================================================================
