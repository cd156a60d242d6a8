------------------------------ MODULE Redirect ------------------------------
(***************************************************************************)
(* Port mappings of the netfilter build (upnpredirect.c without USE_SDN,   *)
(* with ENABLE_LEASEFILE): adding, overwriting and deleting mappings, the  *)
(* lease file, the clean-up of expired and of unused mappings that the     *)
(* main loop does, and what happens when the daemon stops and starts.      *)
(*                                                                         *)
(* The kernel's chains survive the daemon unless a script or a reboot      *)
(* empties them; the descriptions with the lease times, the time of the    *)
(* next clean-up and the list of unused rules do not; the lease file       *)
(* survives everything.                                                    *)
(***************************************************************************)
EXTENDS NetfilterRdr, FiniteSets

CONSTANTS
    Eports,       \* external ports
    Iaddrs,       \* internal addresses
    Iports,       \* internal ports
    Rhosts,       \* remote hosts
    AnyHost,      \* the wildcard
    Leases,       \* lease durations, 0 meaning infinite
    Faults,       \* "none", "crash": the daemon may die in the middle of a
                  \* handler, "any": a step of a handler may fail
    Keeps,        \* the chains may survive a restart of the daemon
    CleanUnused,  \* clean_ruleset_interval is set
    Threshold,    \* clean_ruleset_threshold
    MaxTime,      \* bound on the clock and on the ends of leases
    MaxPackets,   \* bound on the packets counted for a rule
    MaxRules      \* bound on the rules in a chain

ASSUME PortsAssumption == Eports \subseteq 1 .. 65535 /\ IsFiniteSet(Eports)
ASSUME HostAssumption == AnyHost \in Rhosts
ASSUME LeasesAssumption == Leases \subseteq Nat
ASSUME SwitchAssumption == /\ Faults \in {"none", "crash", "any"}
                           /\ Keeps \in BOOLEAN /\ CleanUnused \in BOOLEAN
ASSUME BoundsAssumption == /\ Threshold \in Nat /\ MaxTime \in Nat
                           /\ MaxPackets \in Nat /\ MaxRules \in Nat

VARIABLES
    gw,       \* chains, descriptions, lease file, clean-up time, rule_list
    phase,    \* "up", "reload" or "down"
    pending,  \* lines of the lease file not reloaded yet
    now,      \* unix time
    boot,     \* unix time of the last boot
    granted   \* history: the mapping a client was last told it has

vars == <<gw, phase, pending, now, boot, granted>>

-----------------------------------------------------------------------------
Mapping == [eport : Eports, iaddr : Iaddrs, iport : Iports, rhost : Rhosts,
            packets : 0 .. MaxPackets]

Line == [eport : Eports, iaddr : Iaddrs, iport : Iports, timestamp : Nat]

Gateway == [nat    : Seq(Mapping),
            filter : Seq([iaddr : Iaddrs, iport : Iports, rhost : Rhosts]),
            post   : Seq([eport : Eports, iaddr : Iaddrs, iport : Iports]),
            desc   : Seq([eport : Eports, timestamp : Nat]),
            lease  : Seq(Line),
            next   : Nat,
            list   : Seq([eport : Eports, packets : 0 .. MaxPackets])]


NoGrant == [iaddr |-> AnyHost, iport |-> 0, until |-> 0]

\* upnp_time() counts from the boot, time(NULL) does not
UpnpTime == now - boot

\* Which steps of a handler go wrong: a daemon that dies in a handler leaves
\* a prefix of its steps done. The choice is made per handler.
FaultSets(steps) ==
    CASE Faults = "none"  -> {{}}
      [] Faults = "crash" -> {{}} \cup {{steps[j] : j \in i .. Len(steps)} :
                                            i \in 1 .. Len(steps)}
      [] Faults = "any"   -> {{}} \cup {{steps[i]} : i \in 1 .. Len(steps)}

Dies(fails) == Faults = "crash" /\ fails # {}

-----------------------------------------------------------------------------
\* lease_file_add(): times in the file are unix times
LeaseAdd(s, m, timestamp, fails) ==
    IF "lease" \in fails THEN s
    ELSE [s EXCEPT !.lease = Append(@,
            [eport |-> m.eport, iaddr |-> m.iaddr, iport |-> m.iport,
             timestamp |-> IF timestamp = 0 THEN 0 ELSE timestamp - UpnpTime + now])]

\* The decimal text of a is the beginning of the decimal text of b
TextPrefix(a, b) == a \in {b, b \div 10, b \div 100, b \div 1000, b \div 10000}

\* lease_file_remove(): strncmp() with "TCP:<eport>", without the colon that
\* follows the port in a line
LeaseRemove(s, eport, fails) ==
    IF "unlease" \in fails THEN s
    ELSE [s EXCEPT !.lease = Those(@, LAMBDA l : ~TextPrefix(eport, l.eport))]

\* nextruletoclean_timestamp in upnp_redirect_internal()
Sooner(next, timestamp) ==
    IF timestamp > 0 /\ (next = 0 \/ timestamp < next) THEN timestamp ELSE next

\* upnp_redirect_internal(). On Linux nothing is undone when a step fails.
UpnpRedirectInternal(s, m, timestamp, fails) ==
    LET opened(open) ==
            IF open.r < 0 THEN Out(open.s, -1)
            ELSE Out([open.s EXCEPT !.next = Sooner(@, timestamp)], 0)
        redirected(rdr) ==
            IF rdr.r < 0 THEN Out(rdr.s, -1)
            ELSE On(AddFilterRule2(LeaseAdd(rdr.s, m, timestamp, fails), m, fails),
                    opened)
    IN  On(AddRedirectRule2(s, m, timestamp, fails), redirected)

\* The second of two calls in a row; its steps have names of their own
Second == [nat |-> "nat2", filter |-> "filter2", post |-> "post2"]
Again(fails) == {x \in DOMAIN Second : Second[x] \in fails}

\* The rule of an existing mapping is changed, twice over
Overwrite(s, m, iport_old, timestamp, fails) ==
    IF m.iport = iport_old
    THEN Out(UpdateDescTimestamp(s, m.eport, timestamp), 0)
    ELSE On(UpdatePortmapping(s, m.eport, m.iport, timestamp, fails), LAMBDA first :
            UpdatePortmapping(first.s, m.eport, m.iport, timestamp, Again(fails)))

\* Mutant of LeaseAgain: the line of an overwritten mapping is not written
LeaseAgainForgotten(s, m, timestamp, fails) == LeaseRemove(s, m.eport, fails)

LeaseAgain(s, m, timestamp, fails) ==
    LeaseAdd(LeaseRemove(s, m.eport, fails), m, timestamp, fails)

\* Mutant of Taken: a port is compared with its client only
TakenByOther(s, m, fails) ==
    "get" \notin fails /\ \E i \in 1 .. Len(s.nat) : s.nat[i] = m

\* get_redirect_rule() finds a rule for the port
Taken(s, m, fails) == "get" \notin fails /\ NatIndex(s, m.eport) # 0

\* upnp_redirect()
UpnpRedirect(s, m, duration, fails) ==
    LET timestamp == IF duration > 0 THEN UpnpTime + duration ELSE 0
        old == s.nat[NatIndex(s, m.eport)]
        leased(done) == IF done.r # 0 THEN done
                        ELSE Out(LeaseAgain(done.s, m, timestamp, fails), 0)
    IN  IF ~Taken(s, m, fails) THEN UpnpRedirectInternal(s, m, timestamp, fails)
        ELSE IF m.iaddr # old.iaddr \/ m.rhost # old.rhost THEN Out(s, -2)
        ELSE On(Overwrite(s, m, old.iport, timestamp, fails), leased)

\* The steps of upnp_redirect() in their order, whichever branch it takes
RedirectSteps(s, m) ==
    IF NatIndex(s, m.eport) = 0
    THEN <<"get", "nat", "post", "lease", "filter">>
    ELSE <<"get", "nat", "filter", "post", "nat2", "filter2", "post2",
           "unlease", "lease">>

\* Mutant of UpnpDeleteRedir: the line stays in the lease file
UpnpDeleteRedirKeepsLine(s, eport, fails) ==
    DeleteRedirectAndFilterRules(s, eport, fails)

\* _upnp_delete_redir()
UpnpDeleteRedir(s, eport, fails) ==
    On(DeleteRedirectAndFilterRules(s, eport, fails),
       LAMBDA del : Out(LeaseRemove(del.s, eport, fails), del.r))

DeleteSteps == <<"get", "init", "nat", "filter", "post", "unlease">>

\* _upnp_delete_redir() on each of a list of ports; `fails' is about the one
\* at position `at', and a daemon that dies there goes no further
DeleteEach(s, eports, at, fails) ==
    LET del[i \in 0 .. Len(eports)] ==
            IF i = 0 THEN s
            ELSE IF i > at /\ Dies(fails) THEN del[i - 1]
            ELSE On(del[i - 1], LAMBDA before :
                        UpnpDeleteRedir(before, eports[i],
                                        IF i = at THEN fails ELSE {}).s)
    IN  del[Len(eports)]

-----------------------------------------------------------------------------
\* The daemon's memory is gone
Forgotten(s) == [s EXCEPT !.desc = <<>>, !.next = 0, !.list = <<>>]

\* The end of a handler that leaves s, unless the daemon died in it
Ends(s, fails) ==
    /\ gw' = IF Dies(fails) THEN Forgotten(s) ELSE s
    /\ phase' = IF Dies(fails) THEN "down" ELSE phase
    /\ UNCHANGED <<now, boot>>

Until(duration) == IF duration = 0 THEN 0 ELSE now + duration

\* AddPortMapping, once the arguments were accepted
AddPortMapping(m, duration) ==
    /\ phase = "up"
    /\ Len(gw.nat) < MaxRules
    /\ now + duration <= MaxTime
    /\ \E fails \in FaultSets(RedirectSteps(gw, m)) :
        \E out \in {UpnpRedirect(gw, m, duration, fails)} :
            /\ Ends(out.s, fails)
            /\ granted' =
                 IF out.r # 0 \/ Dies(fails) THEN granted
                 ELSE [granted EXCEPT ![m.eport] =
                         [iaddr |-> m.iaddr, iport |-> m.iport,
                          until |-> Until(duration)]]
    /\ UNCHANGED pending

\* DeletePortMapping; whatever is answered, the client wants it no more
DeletePortMapping(eport) ==
    /\ phase = "up"
    /\ \E fails \in FaultSets(DeleteSteps) :
           Ends(UpnpDeleteRedir(gw, eport, fails).s, fails)
    /\ granted' = [granted EXCEPT ![eport] = NoGrant]
    /\ UNCHANGED pending

\* DeletePortMappingRange; the ports are collected first, 730 when there are none
DeletePortMappingRange(from, to) ==
    LET inRange == Those(gw.nat, LAMBDA e : e.eport \in from .. to)
        eports  == [i \in 1 .. Len(inRange) |-> inRange[i].eport]
    IN  /\ phase = "up"
        /\ eports # <<>>
        /\ \E at \in 1 .. Len(eports), fails \in FaultSets(DeleteSteps) :
               Ends(DeleteEach(gw, eports, at, fails), fails)
        /\ granted' = [e \in Eports |-> IF e \in from .. to THEN NoGrant ELSE granted[e]]
        /\ UNCHANGED pending

-----------------------------------------------------------------------------
Expired(s, eport) ==
    Timestamp(s, eport) > 0 /\ Timestamp(s, eport) <= UpnpTime

\* Mutant of NextToClean: what is still to come is forgotten
NextToCleanNone(s) == 0

\* nextruletoclean_timestamp as get_upnp_rules_state_list() leaves it
NextToClean(s) ==
    LET times == {Timestamp(s, s.nat[i].eport) : i \in 1 .. Len(s.nat)}
        later == {t \in times : t > UpnpTime}
    IN  IF later = {} THEN 0 ELSE Min(later)

\* The list is built backwards, and the expired rules are deleted in its order
ExpiredPorts(s) ==
    On(Those(Reverse(s.nat), LAMBDA e : Expired(s, e.eport)),
       LAMBDA dead : [i \in 1 .. Len(dead) |-> dead[i].eport])

Swept(s, at, fails) ==
    On(ExpiredPorts(s), LAMBDA dead :
       DeleteEach([s EXCEPT !.next = NextToClean(s)], dead, at, fails))

\* The rest of the list, or nothing when there are not enough rules
StateList(s, target) ==
    LET alive == Those(Reverse(s.nat), LAMBDA e : ~Expired(s, e.eport))
    IN  IF Len(alive) <= target THEN <<>>
        ELSE [i \in 1 .. Len(alive) |-> [eport   |-> alive[i].eport,
                                         packets |-> alive[i].packets]]

\* The position in the list a fault is about
Places(s) == 1 .. IF ExpiredPorts(s) = <<>> THEN 1 ELSE Len(ExpiredPorts(s))

\* The main loop calls get_upnp_rules_state_list(0) when a lease has ended
CleanExpired ==
    /\ phase = "up"
    /\ gw.next # 0
    /\ UpnpTime >= gw.next
    /\ \E at \in Places(gw), fails \in FaultSets(DeleteSteps) :
           Ends(Swept(gw, at, fails), fails)
    /\ UNCHANGED <<pending, granted>>

\* Every clean_ruleset_interval the main loop takes a list of the rules ...
ListRules ==
    /\ phase = "up"
    /\ CleanUnused
    /\ gw.list = <<>>
    /\ \E at \in Places(gw), fails \in FaultSets(DeleteSteps) :
           Ends([Swept(gw, at, fails) EXCEPT !.list = StateList(gw, Threshold)], fails)
    /\ UNCHANGED <<pending, granted>>

\* The rules of the list that counted nothing since
Unused(s, entry) ==
    LET i == NatIndex(s, entry.eport)
    IN  i # 0 /\ s.nat[i].packets = entry.packets

\* ... or goes through the last list with remove_unused_rules(). The port that
\* is deleted is tmp->eport, and tmp is not initialised for the first entry
\* and points to freed memory for the others: victim[i] may be any port.
RemoveUnusedRules(victim) ==
    LET del[i \in 0 .. Len(gw.list)] ==
            IF i = 0 THEN gw
            ELSE On(del[i - 1], LAMBDA before :
                        IF Unused(before, gw.list[i])
                        THEN UpnpDeleteRedir(before, victim[i], {}).s
                        ELSE before)
    IN  /\ phase = "up"
        /\ CleanUnused
        /\ gw.list # <<>>
        /\ Ends([del[Len(gw.list)] EXCEPT !.list = <<>>], {})
        /\ granted' = [e \in Eports |->
                         IF NatIndex(gw, e) # 0 /\ NatIndex(gw', e) = 0
                         THEN NoGrant ELSE granted[e]]
        /\ UNCHANGED pending

-----------------------------------------------------------------------------
\* A packet matches the port's first DNAT rule
Packet(eport) ==
    LET i == NatIndex(gw, eport)
    IN  /\ CleanUnused
        /\ i # 0
        /\ gw.nat[i].packets < MaxPackets
        /\ gw' = [gw EXCEPT !.nat[i].packets = @ + 1]
        /\ UNCHANGED <<phase, pending, now, boot, granted>>

\* The daemon is stopped, or dies: shutdown_redirect() does nothing. Dying
\* while the lease file is reloaded loses the lines that were not read.
Stop ==
    /\ \/ phase = "up"
       \/ phase = "reload" /\ Faults = "crash"
    /\ phase' = "down"
    /\ gw' = Forgotten(gw)
    /\ pending' = <<>>
    /\ UNCHANGED <<now, boot, granted>>

\* The daemon is started, in chains that a script or a reboot has emptied or
\* that are as they were; reload_from_lease_file() opens the lease file and
\* removes its name
Start(flushed, rebooted) ==
    /\ phase = "down"
    /\ ~Keeps => flushed
    /\ rebooted => flushed
    /\ phase' = "reload"
    /\ gw' = [IF flushed THEN [gw EXCEPT !.nat = <<>>, !.filter = <<>>, !.post = <<>>]
                         ELSE gw EXCEPT !.lease = <<>>]
    /\ pending' = gw.lease
    /\ boot' = IF rebooted THEN now ELSE boot
    /\ UNCHANGED <<now, granted>>

Reloaded(l) == [eport |-> l.eport, iaddr |-> l.iaddr, iport |-> l.iport,
                rhost |-> AnyHost, packets |-> 0]

\* One turn of the loop of reload_from_lease_file(). A remote host is not in
\* the file; a port that is taken keeps its line.
ReloadLine ==
    LET l == Head(pending)
        m == Reloaded(l)
        duration == IF l.timestamp = 0 THEN 0 ELSE l.timestamp - now
    IN  /\ phase = "reload"
        /\ pending # <<>>
        /\ pending' = Tail(pending)
        /\ IF l.timestamp # 0 /\ l.timestamp <= now THEN Ends(gw, {})
           ELSE \E fails \in IF Faults = "any" THEN FaultSets(RedirectSteps(gw, m))
                                               ELSE {{}} :
                  \E out \in {UpnpRedirect(gw, m, duration, fails)} :
                      LET ts == IF duration = 0 THEN 0 ELSE UpnpTime + duration
                      IN  Ends(IF out.r = -2 THEN LeaseAdd(out.s, m, ts, {}) ELSE out.s, fails)
        /\ UNCHANGED granted

ReloadDone ==
    /\ phase = "reload"
    /\ pending = <<>>
    /\ phase' = "up"
    /\ UNCHANGED <<gw, pending, now, boot, granted>>

\* Reloading takes no time
Tick ==
    /\ phase # "reload"
    /\ now < MaxTime
    /\ now' = now + 1
    /\ UNCHANGED <<gw, phase, pending, boot, granted>>

-----------------------------------------------------------------------------
Init ==
    /\ gw = [nat |-> <<>>, filter |-> <<>>, post |-> <<>>, desc |-> <<>>,
             lease |-> <<>>, next |-> 0, list |-> <<>>]
    /\ phase = "up"
    /\ pending = <<>>
    /\ now = 0
    /\ boot = 0
    /\ granted = [e \in Eports |-> NoGrant]

Requests ==
    \/ \E e \in Eports, a \in Iaddrs, p \in Iports, h \in Rhosts, d \in Leases :
           AddPortMapping([eport |-> e, iaddr |-> a, iport |-> p, rhost |-> h,
                           packets |-> 0], d)
    \/ \E e \in Eports : DeletePortMapping(e)
    \/ \E from, to \in Eports : from <= to /\ DeletePortMappingRange(from, to)

CleanUp ==
    \/ CleanExpired
    \/ ListRules
    \/ \E victim \in [1 .. Len(gw.list) -> Eports] : RemoveUnusedRules(victim)

Reload == ReloadLine \/ ReloadDone

Next ==
    \/ Requests
    \/ CleanUp
    \/ \E e \in Eports : Packet(e)
    \/ Stop
    \/ \E flushed, rebooted \in BOOLEAN : Start(flushed, rebooted)
    \/ Reload
    \/ Tick

Spec == Init /\ [][Next]_vars

\* Time passes, and the main loop wakes up when nextruletoclean_timestamp comes
FairSpec == Spec /\ WF_vars(CleanExpired) /\ WF_vars(Reload) /\ WF_vars(Tick)

-----------------------------------------------------------------------------
TypeOK ==
    /\ gw \in Gateway
    /\ gw.next <= MaxTime
    /\ phase \in {"up", "reload", "down"}
    /\ pending \in Seq(Line)
    /\ now \in 0 .. MaxTime
    /\ boot \in 0 .. now
    /\ granted \in [Eports -> [iaddr : Iaddrs \cup {AnyHost}, iport : Iports \cup {0},
                               until : Nat]]

Positions(q, Test(_)) == {i \in 1 .. Len(q) : Test(q[i])}

\* Nothing may depend on which rule of a port a search finds first: a port has
\* one DNAT rule at most, one description and one MASQUERADE rule, whatever
\* was added, overwritten, deleted, cleaned up and reloaded before.
OneRulePerPort ==
    \A e \in Eports :
        LET of(x) == x.eport = e
        IN  /\ Cardinality(Positions(gw.nat, of)) <= 1
            /\ Cardinality(Positions(gw.desc, of)) <= 1
            /\ Cardinality(Positions(gw.post, of)) <= 1

\* The three chains agree: each internal port is let through by as many filter
\* rules as there are mappings to it, also after update_portmapping() and
\* delete_redirect_and_filter_rules() picked one of several equal ones, and
\* each mapping has the MASQUERADE rule of its own client.
ChainsAgree ==
    phase = "up" =>
        /\ \A a \in Iaddrs, p \in Iports :
               LET to(x) == x.iaddr = a /\ x.iport = p
               IN  Cardinality(Positions(gw.nat, to)) =
                   Cardinality(Positions(gw.filter, to))
        /\ Len(gw.post) = Len(gw.nat)
        /\ \A i \in 1 .. Len(gw.nat) : \E j \in 1 .. Len(gw.post) :
               /\ gw.post[j].eport = gw.nat[i].eport
               /\ gw.post[j].iaddr = gw.nat[i].iaddr
               /\ gw.post[j].iport = gw.nat[i].iport

\* lease_file_remove() for another port takes this port's line with it
Exposed(e) == \E other \in Eports \ {e} : TextPrefix(other, e)

\* The lease file says what the gateway does: one line per mapping, with its
\* client and the end of its lease, and none for a port that has no mapping;
\* so a restart finds the mappings again.
LeaseFileMatches ==
    phase = "up" =>
        \A e \in {x \in Eports : ~Exposed(x)} :
            LET of(x) == x.eport = e
                lines == Positions(gw.lease, of)
                i     == NatIndex(gw, e)
                t     == Timestamp(gw, e)
            IN  IF i = 0 THEN lines = {}
                ELSE /\ Cardinality(lines) = 1
                     /\ \A j \in lines :
                           gw.lease[j] = [eport |-> e,
                                          iaddr |-> gw.nat[i].iaddr,
                                          iport |-> gw.nat[i].iport,
                                          timestamp |-> IF t = 0 THEN 0 ELSE t + boot]

LetIn(m, f) == /\ f.iaddr = m.iaddr /\ f.iport = m.iport
               /\ f.rhost \in {AnyHost, m.rhost}

\* The mapping's packets pass the filter
Open(m) == \E j \in 1 .. Len(gw.filter) : LetIn(m, gw.filter[j])

\* A client that was told of success has its mapping until it deletes it, the
\* lease ends or the clean-up of unused rules takes it, however often the
\* daemon is stopped and started meanwhile.
GrantKept ==
    phase = "up" =>
        \A e \in {x \in Eports : ~Exposed(x)} :
            granted[e] # NoGrant /\ (granted[e].until = 0 \/ granted[e].until > now) =>
                \E i \in 1 .. Len(gw.nat) :
                    /\ gw.nat[i].eport = e
                    /\ gw.nat[i].iaddr = granted[e].iaddr
                    /\ gw.nat[i].iport = granted[e].iport
                    /\ Open(gw.nat[i])

\* What the main loop's comment promises: a mapping goes when the lease it was
\* granted ends.
Overdue(e) == /\ phase = "up"
              /\ NatIndex(gw, e) # 0
              /\ granted[e].until # 0 /\ granted[e].until <= now

LeaseEnds == \A e \in Eports : Overdue(e) ~> ~Overdue(e)

\* What upnpredirect.h promises of upnp_redirect(), 0 on success, and its
\* comment on cleaning up after a failure: the mapping of a success is open.
\* It does not hold when single steps fail (Faults = "any").
AddOpens ==
    [][\A e \in Eports :
           granted'[e] \notin {granted[e], NoGrant} =>
               \E i \in 1 .. Len(gw'.nat) :
                   gw'.nat[i].eport = e /\ Open(gw.nat[i])']_vars

=============================================================================
