# A verification project for miniupnpd-sdn

miniupnpd is a UPnP Internet Gateway Device daemon: hosts of a local network ask it, over SOAP,
NAT-PMP or PCP, to map ports of the gateway to themselves, and subscribe to events about the
gateway's state. This fork adds a back end that keeps the mappings on an ONOS SDN controller instead
of in the gateway's own firewall, and an authorisation of SOAP requests by signed tokens.

The modules in this directory model the parts of the daemon that hold state over several steps, TLC
checks them on small instances, and TLAPS proves theorems about them for every instance.

Paths below are relative to `src/miniupnpd/`.

## 1. The system and its parts

One process, one thread, one `select()` loop (`miniupnpd.c`, `main()`). Everything else is called
from that loop, so interleaving comes from outside: peers, the kernel, the controller, signals,
crashes, and the order in which the loop meets what is ready.

| Part | State | Operations | Talks to |
| --- | --- | --- | --- |
| GENA events, `upnpevents.c` | list of subscribers, list of notify objects (one TCP connection each), pointers both ways | subscribe, renew, unsubscribe, a variable changed, `selectfds`, `processfds` | HTTP server (SUBSCRIBE), redirection layer (changes), subscribers' hosts |
| Redirection layer, `upnpredirect.c` | `nextruletoclean_timestamp` | `upnp_redirect`, `upnp_redirect_internal`, `_upnp_delete_redir`, counting, `get_upnp_rules_state_list`, `remove_unused_rules` | a back end, lease file, events |
| Lease file, `upnpredirect.c` | a text file, a line per mapping | add, remove, reload at start-up | redirection layer |
| SDN back end, `sdn/iptcrdr.c`, `sdn/onosclient.c` | none of its own but mongoose's list of connections | one HTTP request to the controller per operation, polled until `data.done` | ONOS controller |
| netfilter back end, `netfilter/iptcrdr.c` | DNAT, filter and MASQUERADE chains in the kernel, descriptions and lease ends in memory | add, update, delete, list | the kernel |
| pf, ipfilter, ipfw, nftables back ends, `pf/`, `ipf/`, `ipfw/`, `netfilter_nft/` | rules in the kernel, lease ends in memory, for nftables also cached lists of rules | the same | the kernel |
| SOAP actions, `upnpsoap.c` | none | AddPortMapping, AddAnyPortMapping, DeletePortMapping, DeletePortMappingRange, pinhole actions, queries | redirection layer, pinholes |
| HTTP server, `upnphttp.c` | list of connections, each with a state, buffers and flags | read a request, answer, SUBSCRIBE, UNSUBSCRIBE | SOAP actions, events, descriptions |
| Token authorisation, `upnpsoapauth.c`, `jwtauth.c`, `jwtauthutils.c` | none | verify and extract permissions of one request | SOAP actions, json-c |
| Permissions, `upnppermissions.c` | a list of rules, read at start-up | check one mapping, set of permitted ports | redirection layer, NAT-PMP, PCP |
| NAT-PMP, `natpmp.c`; PCP, `pcpserver.c` | none of their own | map, unmap, peer, announce | redirection layer, permissions, `portinuse.c` |
| Main loop and timers, `miniupnpd.c` | flags set by signals, times of the next announcement and clean-up | one turn around `select()`, shutdown | all parts |
| SSDP, `minissdp.c`; delayed datagrams, `asyncsendto.c` | a queue of datagrams with their times | announce, answer searches, retry, flush | the network |
| IPv6 pinholes, `upnppinhole.c`, three back ends | rules in the kernel, for ip6tables a list in memory | add, update, delete, look up, clean up | the kernel |
| Descriptions, `upnpdescgen.c` | constant tables, a growing buffer | root description, service descriptions, event values | HTTP server, events, SOAP actions (the same arguments) |
| STUN client, `upnpstun.c` | four sockets during a run | find the external address and whether ports are forwarded | a STUN server |
| json-c, `json/` (vendored) | reference-counted values, hash tables, arrays | get, put, add, delete, grow | tokens, SDN back end |
| Options, interface watchers, control tool | start-up data | - | - |

What is hard in it, and which property answers for it:

* **Blocks that point at each other** and are freed by different events in any order (a subscriber
  and its notify object; values of json-c): no pointer to a freed block (`NotifyPointsBack`,
  `SubscriberPointsBack`, `RefCounts`).
* **Messages in flight**: event keys and values must not go backwards (`SeqCarried`,
  `NeverBackwards`), a change is lost only where the code skips it (`StaleOnlyIfMissed`); a request
  and its answer come and go in pieces (`ActionOnce`, `WireOrdered`); answers are lost, doubled,
  late or someone else's (`StunTrue`).
* **Things that must end**: notifications, expired subscriptions, calls to the controller, leases,
  HTTP connections, queued datagrams, an address that clients have to be told (`NotifyEnds`,
  `ExpiredGoes`, `Answered`, `LeaseEnds`, `ConnectionEnds`, `QueueDrains`, `AddressTold`), and not
  too early or too late (`NotBeforeTime`, `WakesInTime`, `CleanComplete`).
* **A remote table behind a connection that may break**: a client is told of success only when it is
  one (`AddDone`, `ReadsTrue`, `OkNeedsAnswer`), and connections do not outlive their call
  (`NoConnectionLeft`).
* **Several tables that have to agree**, each changed by a step of its own: the three chains and the
  descriptions (`OneRulePerPort`, `ChainsAgree`), the chains and the lease file
  (`LeaseFileMatches`), what the client was told and what there is (`GrantKept`, `GrantedKept`), the
  kernel's rules and the daemon's lists (`ListMatchesChain`, `ListingTrue`), across crashes,
  restarts and refusals of the kernel; five firewalls have to look the same from above
  (`IsPortMaps`).
* **Searches and walks** over ports and rules that change meanwhile or wrap round (`NoneLeftOut`,
  `DeletesAll`, `TableFinds`), for several servers that share a table (`Granted`, `OnlyOwnMaps`).
* **The same thing said twice**: permissions as a list and as a table of bits (`PermittedSame`),
  masks as shifts and as prefixes (`TokenCovers`), tables by number and the tree they stand for
  (`DescribedWhole`), described and handled arguments (`SignaturesSame`).

`PROJECT.json` lists the hazards one by one at their lines.

## 2. The modules

| Module | Models |
| --- | --- |
| `UpnpEvents` | `upnpevents.c` inside the phases of the main loop |
| `UpnpEventsProofs` | theorems about `UpnpEvents` |
| `SdnRedirect` | SOAP actions, redirection layer and back end of the SDN build, with mongoose's connections and the controller |
| `NetfilterRdr` | operations of `netfilter/iptcrdr.c` as operators on a state |
| `Redirect` | the redirection layer of the netfilter build on top of `NetfilterRdr`: lease file, clean-up, stop, start, reload |
| `PortMaps` | abstract: what `commonrdr.h` and `upnpredirect.h` promise of a back end |
| `BsdRdr`, `NftRdr` | operations of the pf, ipfilter and ipfw back ends, and of the nftables one |
| `BackEnds` | the redirection layer on each of these four; implements `PortMaps` |
| `Pinholes` | pinhole actions, `upnppinhole.c` and its three back ends (nftables through `NftRdr`) |
| `HttpServer` | a connection of `upnphttp.c` and its peer |
| `MainLoop` | the turn of the main loop, signals, timers, SSDP, `asyncsendto.c`, shutdown |
| `Permissions` | `upnppermissions.c` as operators |
| `MapServers` | NAT-PMP, PCP, AddAnyPortMapping and the listing actions on one table, with `Permissions` and `portinuse.c` |
| `TokenAuth` | authorisation of a request by a token |
| `Stun` | `upnpstun.c`, with router, server and network |
| `JsonStore` | reference counts, hash tables and arrays of json-c |
| `DescGen` | `upnpdescgen.c`, and the arguments the SOAP handlers read and write |
| `Calls` | a C function as a value: the state it leaves and the number it returns; what loops do with lists |
| `SdnRedirectProofs`, `RedirectProofs`, `PinholesProofs`, `BackEndsProofs` | theorems about the modules they are named after |
| `DaemonProofs` | theorems about `HttpServer` and `MainLoop` |
| `ServicesProofs` | theorems about `MapServers` with `Permissions`, about `Stun`, `TokenAuth` and `JsonStore` |
| `CallsProofs` | lemmas that these share: the natural numbers, `Calls` and the loops over lists |
| `MC...` | what the configurations give to the constants, symmetry, and for `MCDaemon` and `MCServices` the parts side by side |

The parts in `MCDaemon` (pinholes, HTTP, loop) and in `MCServices` (map servers, STUN, tokens,
json-c, descriptions) share no variable in the code. The variable `part` chooses one of them at the
start; the others keep their first values. Every behaviour of each part is explored, and none is
multiplied with the others'.

Operators named "Mutant of X" in a comment are wrong variants of X, kept beside it; each property of
a passing run has one that breaks it.

### UpnpEvents

`subscriberlist` and `notifylist` are sets of *addresses*, and `sub` and `obj` the contents of the
blocks at them, so that a freed address can be handed out again and a pointer kept too long reaches
someone else's block. `net` is the peer's side of each object's socket. `phase` is the place in the
loop: `SelectFds` (connects new objects, chooses what to wait for), `SelectReturns` or
`SelectInterrupted`, `ProcessFds` (the three loops of `upnpevents_processfds()`: advance, reap, time
out), then the request handlers `AddSubscriber`, `RenewSubscription`, `RemoveSubscriber` and
`VarChange`, and `NextIteration`. A handler is one action: nothing in it can be interrupted.

Data: the version of a service's variables stands for the XML of a message; `delivered` and `missed`
are history variables. The event key is modulo `SeqMod` (2^32 in the code). The key wraps to 0, the
key of an initial message, where UPnP asks for 1; no text of the repository speaks of it.

Bounds: two subscribers and two notify objects (the smallest number with which a freed block can be
taken over while another is in use), `MaxChanges` 1 (one change before and one version after a
message was prepared), `MaxTime` 2 (a subscription of 1 that runs out and time after it).

| Run | Shows |
| --- | --- |
| `events_safety` | event keys, values and both pointer properties under all interleavings of requests, changes, peers, local failures and timeouts, which free blocks in any order |
| `events_live` | notifications end and expired subscribers go, if peers answer or close |

Fairness: the loop goes round (`select()` has a timeout and every handler returns), and a descriptor
that stays ready is served. `FairPeersSpec` adds that a peer answers or closes; the code does not
enforce that: a notify object has no timeout of its own, so without the assumption `ExpiredGoes`
does not hold (section 5).

### SdnRedirect

A SOAP request becomes a call (`Soap`), which makes a connection (`Connect`, or `ConnectFails` when
`socket()` or `connect()` fails inside `mg_http_connect()`) and polls: `Select` starts a pass over
`conns`, `Visit` handles one connection, `EndOfPass` looks at `data.done`, `Return` forms the
answer. The operators `AddResult` ... `GetByIndex` are the chains of return codes from the back end
through `upnpredirect.c` to the SOAP answer. `data` is a local variable of the call: a connection
that outlives its call keeps its address, so a later call of the same function receives its events
(`Mine`), and for any other function the access does nothing or kills the daemon (`Wild`).

The controller is external: `Runs` gives what it may do with a request as far as the daemon can
tell. It serves, refuses, drops connections, serves a request after its connection is gone
(`ServeOrphan`), and ends leases (`Expire`). Mappings are keyed by (remote host, port, protocol).
The build is `IGD_V2` with `secure_mode` off; the controller is given as an address, so no name is
resolved. Listing a range and the request for the external address read only, with the same
connection handling, and are left out.

| Run | Shows |
| --- | --- |
| `sdn_calls` | all six actions against a controller that refuses, drops and answers late: additions and answers to queries are true, the count is one the table had, no connection is left |
| `sdn_live` | with connections left behind by a failed `connect()`, every request is answered, counting ends while the table changes, and a success still needs an answer heard during the call |

Bounds: two keys and two clients (a conflict and a table that shrinks while it is counted), up to
`MaxConns` connections left when a request comes, `MaxOrphans` late requests. `sdn_live` has one key
and one client, one connection that may be left behind when a request comes, and of the operations
(`Asks`) an addition, a query and the count: the callbacks of the others are the same, and two that
differ are enough for a pointer into a frame that is something else (`Wild`). Fairness: the daemon
runs; the controller's host accepts or refuses, and serves or drops. `Answered` needs the latter:
the poll loop has no deadline, so a controller that is silent for ever blocks the daemon for ever.

### NetfilterRdr and Redirect

`gw` is a record: the chains `nat`, `filter` and `post` of the kernel, the descriptions `desc`, the
lease file, `next` (`nextruletoclean_timestamp`) and `list` (`rule_list` of the main loop). A search
takes the first rule that fits, as the loops over the chains do. Each operation of `iptcrdr.c` gives
a new state and the function's return value, and a parameter `fails` names the steps that fail, so
every error path is there. A handler is one action, with its steps in the order of the code.
`Faults` chooses: no faults; `"crash"`, the daemon dies between two steps of a handler, which leaves
a prefix of its steps; `"any"`, one step of a handler fails and the handler goes on as the code
does.

`Stop` loses what is in memory; `Start` empties the chains or keeps them (`Keeps`: the systemd unit
of the repository runs no script, so kept chains are real), with or without a reboot, which restarts
the daemon's clock (`upnp_time()` counts from boot, the lease file holds unix times); `ReloadLine`
is a turn of the loop of `reload_from_lease_file()`. `RemoveUnusedRules` takes the ports it deletes
as a parameter, because the code reads them through a pointer that is not initialised or freed.

Left out: one protocol stands for both (each search compares it first); requests refused by
permissions change nothing; a failing `malloc()`; `PCP_PEER`; `LEASEFILE_USE_REMAINING_TIME`.
Reloading takes no time. The end of a lease stays within `MaxTime`.

`lease_file_remove()` removes every line that *begins* with the protocol and port, so removing port
1 removes the line of port 12 too. The model has this (`TextPrefix`), the instances use ports 1 and
12, and the properties about the file exempt the longer port of such a pair (`Exposed`): for it the
line can really be lost.

| Run | Shows |
| --- | --- |
| `redirect_chains` | one rule per port; the chains agree; a granted mapping is there until its lease ends, across the clean-up of unused rules (whatever port it picks), stops, kept or emptied chains, reboots |
| `redirect_crash` | the daemon may die between any two steps, also of the reload: once it is up again in emptied chains, the file and the chains agree |
| `redirect_live` | with finite leases, a mapping goes after its lease |
| `redirect_never_expires` | finding: a permanent mapping renewed with a finite lease never goes |

Bounds: two external ports, one a textual prefix of the other; two internal addresses and ports (two
mappings to one internal port, and an overwrite with another one); times up to 2 (a lease granted,
ended, and the clock beyond it); a threshold of 1 rule, so that both ports have to be mapped before
a list of unused rules is kept, and one packet per rule. Fairness: time passes, and the main loop
wakes for `next`, because it shortens the timeout of `select()` to it.

### BsdRdr, NftRdr, BackEnds and PortMaps

`kind` is the firewall the daemon is built for and `fw` what its kernel and its back end hold:
sequences of redirections, filter rules, port-triggering rules and lease ends. For nftables a rule
is the list of expressions that goes to the kernel (`NftRdr`), and what the daemon knows of it is
what it can parse back from such a list; the cached lists and their validity are state. Each call of
a client (`upnp_redirect()`, `_upnp_delete_redir()`, a PCP PEER) is one action; it takes one step
that the kernel refuses, or none, from `Refusals`.

`PortMaps` is the promise: a table with at most one target per external port and protocol, answers
0, -2 and -1, and a failed call that leaves the old target, the new one or nothing at its own port
and touches no other. `table`, the refinement's abstract state, is what `get_redirect_rule()` finds,
and so a function of `fw`. The refinement is checked as `IsPortMaps`; the iptables back end has the
deeper model in `Redirect`.

| Run | Shows |
| --- | --- |
| `backends` | each of the four implements `PortMaps`, also with a refused step; its listings by index and by range are the table (`ListingTrue`, for nftables with the cache it trusts); filter, port triggering and lease end of a granted mapping stay (`GrantedKept`) |

Bounds: two keys, two internal addresses and two internal ports (two UDP mappings that share an
internal port, and an overwrite), lease ends 0 and 1, one refused step in a behaviour, one PEER
connection; addresses are symmetric. The kernel's list comes in pieces of `Chunk` 2, so that a piece
is full, short or empty. `AnyRefusal` leaves out refusals after which a back end answers 0 without
having done its work; section 5 lists them.

### Pinholes, HttpServer, MainLoop

`Pinholes`: `rules` is the kernel's chain and `list` what the ip6tables back end remembers; for pf
and nftables number and lease end are in the rule's label. The actions are AddPinhole,
UpdatePinhole, DeletePinhole, the two queries, the creation of a pinhole by PCP (`CreatePCPMap_FW`)
and the clean-up, with the `next_timestamp` it writes. The kernel may refuse to add or to remove a
rule.

`HttpServer`: `h` is a `struct upnphttp`, `peer` the other end: what it has sent, whether it closed
or reset, how much room the kernel has for what it has not read, and `wire`, all units that went to
it. `Process` is `Process_upnphttp()` in each of its states with the parsing, dispatch and sending
it leads to; `Delete` the loop's removal of finished connections. A read returns any part of what is
there; `send()` takes any part that there is room for.

`MainLoop`: `pc` is the place in the turn. Times are `struct timeval`s of seconds and ticks relative
to the current second, so that time goes on for ever in finitely many states. A turn takes the
signals' flags, tells the address, works out the timers and the sleep (`Timers`, including
`get_next_scheduled_send()`), wakes (`Wake`) and serves (`Work`); `Shutdown` and `FinalizeSendto`
end it. A datagram that the kernel has no room for waits in the queue in state EWAITREADY.

A new address is told in the order of the code, and a signal may come between any two steps: STUN is
asked if it is in use and may fail (`LearnAddress`), then NAT-PMP (`NotifyNatpmp`), the subscribers
(`NotifyEvents`) and PCP (`NotifyPcp`) are told, and the flag is reset (`ClearFlag`). `told` has the
address that NAT-PMP and PCP have last told. `missed` has which of the two do not know of the last
change because it came after their step and before the reset, or because STUN failed: these are what
`AddressTold` exempts, and the runs reach them, with changes that are told beside them.

| Run | Shows |
| --- | --- |
| `daemon` | pinholes: list and chain agree and numbers differ (`ListMatchesChain`), clean-up misses nothing (`CleanComplete`). HTTP: one action per request (`ActionOnce`), whole messages in order (`WireOrdered`), connections end (`ConnectionEnds`). Loop: no datagram early or late (`NotBeforeTime`, `WakesInTime`), all leave the queue (`QueueDrains`), the address is told (`AddressTold`) |

Bounds: pinhole numbers up to 4 with at most 2 pinholes and times up to 3, so that numbers go round
while a pinhole lives; headers of 2 units, responses of 3, a 100 Continue of 2 and room for 2, so
that each goes in pieces and none fits with another; a second of 3 ticks with a repeat of 2 and an
interval of one second, so that carries happen. The main loop runs in two parts: one with one search,
one interrupted datagram and one change of the address, without STUN, and one without the first two
but with two changes of the address, with and without STUN, so that the second one can come before,
between and after the notifications of the first.

Fairness: `Process` and `Delete` (the loop serves what is ready and removes what is finished),
`Loop` (it goes round, because `select()` has a timeout and every handler returns), `PassTick` (time
passes), `Unblock` (the kernel sends what it took), and of the peer `PeerSends` and `PeerReads`: it
sends its whole request or closes, and reads. The last two are assumptions: the HTTP server has no
timeout of its own, so a silent peer keeps its connection for ever.

### Permissions and MapServers

`Permissions` has the first-match check of one mapping and the table of permitted ports, filled word
by word from the last rule to the first. An address is the set of its bits. `MapServers` has one
`table` for three servers, as the daemon has one back end: `Natpmp`, `Pcp` (options, checks, MAP,
PEER, ANNOUNCE, SADSCP), `AddAnyPortMapping` and `List`. `Troubles` are the back end's failures that
callers have to expect: a deletion that answers -1 or 1 and did or did not delete, an addition that
is refused or stays half done, no external address. `Send` gives out `reply`. Properties that speak
of a request's effect relate the step's `table'` and `reply'` to the table before.

### Stun, TokenAuth, JsonStore, DescGen

`Stun`: four sockets, rounds of requests, datagrams that are lost, doubled, late or foreign, a
router from `Nats` between the daemon and the server, and what `update_ext_ip_addr_from_stun()`
makes of the result.

`TokenAuth`: a token is what its parts decide (does it decode, who signed it, does the request's
signature fit), its port ranges and its networks; numbers have the width of the C types. A mask is
the set of its bits, built by the shifts of the code; the reference `TokenCovers` is stated with
prefixes, as quotients of the addresses.

`JsonStore`: `Blocks` are addresses that `malloc()` gives again; every allocation may fail. Objects
are open-addressed tables with marks of freed places and a list of insertion order; arrays grow.

`DescGen`: the tables for every choice of build options, `genXML()` with its explicit stack,
`strcat_str()` with its growing buffer and a `realloc()` that may fail, the names of arguments, and
the event values. The text follows the buffer: an element of which a piece was refused is `Torn`. On
the other side are the arguments that each SOAP handler reads and writes. The reference for the root
description is the tree of devices and services, written as a tree; if a `realloc()` fails, the text
is that tree but for the one element that lost a piece. `SignaturesSame` leaves out the name of one
argument, which the run `described_names` is about.

| Run | Shows |
| --- | --- |
| `services` | map servers: a granted port is the requester's, permitted and for the time answered (`Granted`), the table of bits is the list of rules (`PermittedSame`), searches leave no port out (`NoneLeftOut`), NAT-PMP deletions are complete (`DeletesAll`), nobody loses a mapping to another's request (PEER apart, whose deletion goes by the external port alone), nor, until a deletion fails, to a PCP request with another nonce (`OnlyOwnMaps`). STUN: what is reported is true and nothing is left open (`StunTrue`). Tokens: a request passes exactly with a token that covers it (`TokenCovers`). json-c: counts are the references (`RefCounts`), tables find their keys (`TableFinds`). Descriptions: the whole tree within the buffer, but for the element that a failed `realloc()` tore (`DescribedWhole`), the handlers' own arguments (`SignaturesSame`) |
| `described_names` | finding: the port that AddAnyPortMapping answers with is described as NewExternalPort, and its name in the table's comment and in the response is NewReservedPort (`upnpdescgen.c:1105` asks for 13 characters of a name of 12) |

Bounds: ports 0 to 5 in words of 3, two hosts, two mappings at a time (a search that has to pass a
taken, a denied and a used port, and wraps at both ends); two rounds of STUN with one foreign
datagram and two runs, behind routers that differ in what they let in, keep, move and rewrite, with
answers that have the address in either form, in both, or cut off; addresses of two octets of two bits and ports of three bits, with every
length of prefix and one too long on both sides; three keys of which two collide, in a table of 2
that grows to 3; every sensible combination of the build's options, texts that are empty, fill the
buffer's quantum exactly, or are longer.

## 3. What is proved

Each theorem holds for every value of the constants that satisfies the named assumptions of the
modules, which say little more than that numbers are numbers and bounds are not negative. Where a
theorem needs more, the last column says so.

| Theorem | States | Needs |
| --- | --- | --- |
| `UpnpEventsProofs!TypeCorrect` | `Spec => []TypeOK` | |
| `NotifyPointersSafe`, `SubscriberPointersSafe` | `[]NotifyPointsBack`, `[]SubscriberPointsBack` | |
| `SeqIsCarried`, `StaleOnlyWhenMissed` | `[]SeqCarried`, `[]StaleOnlyIfMissed` | |
| `HearsInOrder` | the action property `NeverBackwards` | |
| `SdnRedirectProofs!TypeCorrect`, `OkHeard` | `[]TypeOK`, `[]OkNeedsAnswer` | |
| `ConnectionsEnd`, `AddsAreDone`, `ReadsAreTrue` | `[]NoConnectionLeft`, `[]AddDone`, `[]ReadsTrue` | `~SyncErrors` |
| `DaemonProofs!HttpTyped`, `ActionsOnce`, `WireIsInOrder` | `[]HttpTypeOK`, `[]ActionOnce`, `[]WireOrdered` | |
| `AlwaysWakesInTime`, `NothingBeforeTime` | `[]WakesInTime`, the action property `NotBeforeTime` | |
| `ServicesProofs!TableIsPermitted`, `GrantsMapped` | `[]PermittedSame`, `[]Granted` | |
| `OthersKeep`, `DeletionsEnd`, `SearchesAll` | the action properties `OnlyOwnMaps`, `DeletesAll`, `NoneLeftOut` | |
| `StunIsTrue` | `[]StunTrue` | |
| `TokensCover` | `[]TokenCovers` | |
| `TablesFind`, `RefsAreCounted` | `[]TableFinds`, `[]RefCounts` | |
| `BackEndsProofs!BackEndsArePortMaps` | `BackEnds` implements `PortMaps` (`IsPortMaps`) | pf, ipfilter or ipfw; `ListsRules` |
| `ListingsAreTrue` | `[]ListingTrue` | the same |
| `GrantsAreKept` | `[]GrantedKept` | the same and `AddsTriggers`; for pf, no remote hosts |
| `RedirectProofs!OneRule`, `AllChainsAgree` | `[]OneRulePerPort`, `[]ChainsAgree` | `Sound` |
| `FileMatches` | `[]LeaseFileMatches` | no step fails by itself; chains are emptied at a start |
| `GrantsKept` | `[]GrantKept` | no step fails, no death in a handler or a reload; one remote host, any |
| `AddsOpen` | the action property `AddOpens` | `Sound`; one remote host, any |
| `PinholesProofs!ChainIsListed` | `[]ListMatchesChain` | |
| `CleansAll` | the action property `CleanComplete` | |

`SyncErrors` is the constant that lets `connect()` fail at once. With it the three properties are
false, because a connection stays behind (`sdn_live` and section 5), so it is the weakest
hypothesis. `Sound` is: no faults, or deaths of the daemon after which the chains are emptied. It is
sharp as well: TLC finds a port with two rules in three steps when a step of a handler may fail by
itself, and in five when the daemon dies and starts again in chains that were kept.

`FileMatches` allows deaths anywhere and needs chains that do not outlive the daemon: a rule that was
kept has lost its description, so it never expires while its line has an end. `GrantsKept` is the
other way round. It holds in chains that are kept, flushed or lost in a reboot, in any order, and
needs that no handler is cut short: a daemon that dies in `upnp_redirect()` between removing the line
of an overwritten mapping and adding it again loses the mapping at the next flush. It needs that
mappings are for any remote host, too: with a second one TLC finds a deletion that takes the filter
rule of another mapping to the same internal port (section 5).

`ListsRules` is that no refusal is one of "get": the kernel tells its rules when it is asked.
`get_redirect_rule()` of these back ends answers -1 both for a port that is free and for one that
could not be looked up, so that with such a refusal `upnp_redirect()` takes a port that has a target
for a free one and gives it a second rule. Every other step may be refused, any number of times.
`AddsTriggers` is that no refusal is one of "nat", the port-triggering rule of a UDP mapping with pf,
whose failure the code does not look at. With remote hosts pf's `delete_filter_rule()` can take
the rule of another mapping to the same internal port, as iptables does (section 5).

### The arguments

`UpnpEvents`. Neither pointer property is inductive alone. That an object's subscriber is in the
list and points back survives `RemoveSubscriber` only because the subscriber clears the pointer of
*its* object, and that this is the only object with the subscriber's address is the other property;
likewise for the reaping loop and the other way round. So the inductive invariant is their
conjunction with `TypeOK` (`IInv`). Each action has a lemma of its own; `ProcessFds`, with three
loops in one action, is prepared by lemmas on `ProcessNotify` (advancing an object changes neither
`sub` nor whose it is) and on what the reaping loop leaves of a subscriber (`After`, `Kept`,
`Reaped`). The properties of keys and values rest on `CInv`, which adds that a finished
notification does not outlive the call that finished it, and the order in which values travel: what
a subscriber heard is no newer than what is under way to it, and that no newer than the variables
(`DeliveredInOrder`).

`SdnRedirect`. `TInv` is the type invariant and two facts about connections; `HInv` adds that an
answer the daemon holds came in during the call, which holds even for the answers of connections
that were left behind. `AInv` is the invariant of a daemon whose `connect()` does not fail at once:
the connection of the call under way, and no other, is in the list until `data.done` is set
(`OneConnection`), and every answer that is held or on its way is true of a table that the
controller had since the request came (`HistoryKept`, `Truthful`).

`HttpServer`. The number of units on the wire follows from the state of the connection and from
`res_sent` (`Along`), and the counters of the request from the headers that were parsed
(`Counted`); `HInv` is both, for a wire that is a beginning of the one that should be.

`MainLoop`. `LInv` has the types of the times, with the `usec` that `asyncsendto.c` may leave at a
whole second, and that nothing is marked for sending before its time. That the loop wakes in time
then comes from `get_next_scheduled_send()` finding the earliest of the queue and from the
subtraction with its borrow, which keeps the order of times.

`MapServers`. `get_permitted_ext_ports()` fills its table by two loops, over the ports of a rule,
whole words at once where it can, and over the rules from the last to the first. The inner one sets
the ports of the rule's range and no others (`SetPortsRange`); the outer one leaves what the
first-match check says of each port.

For the requests, `ServersInv` has beside `Granted` that no port is mapped twice as long as no
deletion has failed (`KeysDiffer`), and that even after one has, all the mappings of a port belong to
one host (`HostsSame`). The second is what keeps the others' mappings: every deletion goes by port
and takes whatever is first in the chain, and only because that is of the same host nobody else loses
by it. Each search and each walk is a fold over turns; what holds after turn `i` (`Searched`,
`PcpSearched`, `AnySearched`, `Swept`) says which ports were tried, as the way round from the first
one (`At`), that nothing changed until one of them was taken, and that the others' mappings stay. The
walk of NAT-PMP's deletion has to end with the table though rules go under its index: the rules still
to come, and the turns made, are together no more than the table had.

`Stun`. `ParsedTo` says what the loop over the attributes has read after each of them, from which
every answer that counts, of whichever request, socket and round, is where the router says it came
from (`Answered`); a foreign datagram never is an answer. `Close` compares what the answers have in
common, and only because it asks for all four may it say that ports are let in: with one missing,
the answer of the router that lets in the other three is the same.

`BackEnds`. `table` is read from the kernel by a search for the first rule of a port (ipfw, ipfilter)
or for the last (pf); they are one function of the list of rules only while a port is in it once
(`OnceEach`), which therefore is the invariant. With it, each operator of `BsdRdr` has a lemma that
says what it makes of the list: one rule more (`RuleAdded`), one less (`RuleRemoved`), one changed in
its place (`ReplacedRule`), or the same, whichever steps are refused and whatever the junk in
variables that were not set; from these, what the redirection layer makes of the
table: the port of the call *turns to* a target and no other changes (`TurnsTo`, `ChangesFor`,
`DeletesFor`). The pieces in which ipfw fetches the rules are the whole list, wherever they end
(`AllFetched`). For the listings, the loop over the indexes ends at the first that fails, which is
the number of rules, and a port is there as often as a rule (`KeysCounted`). For `GrantedKept` every
operator has a second lemma. What was granted is there with its end (`Holds`), and a call leaves what
other ports have (`Beside`). That a mapping is let in is a count: with pf a deletion takes the first
rule that fits, which may be that of another mapping to the same internal port, so the state between
two calls (`Kept`) has for each internal port at least as many filter rules, as long as nothing was
refused, and port-triggering rules as it has mappings. Within a call `Good` lets these counts be one
more or one less for the mapping of the call. ipfw has no such rules. With ipfilter a mapping and its
filter rule are one to one, which is an invariant of its own (`Open`).

`TokenAuth`. The difference of two numbers of which all bits are set has the bits of the prefix and
no others (`MaskBits`), and two addresses have the same bits from a place on if and only if their
quotients by its power of two are equal (`SameBits`); both by induction on the place. An octet that is
one too large carries into the next, so that the number read is below the end only because it has the
width of its C type.

`JsonStore`. A lookup stops at the first place that was never used, so it finds a key only if no such
place lies between the key's hash and its own: that is the invariant (`GoodTable`), beside that the
list of insertion order names each used place once. A deletion keeps it because it leaves a mark. An
insertion ends because the list is shorter than the table, which the growth before it guarantees; the
growth inserts every entry into a new table, for which the same invariant holds after each.

The count of a value is what the caller owns of it and what the other values have, a sum over the
blocks. `json_object_put()` takes a value off that loses its last reference and puts what it had, so its
list of values to put is part of the sum until it is empty (`PutStepCounts`, `PutAllCounts`); the bound
that the model gives it is enough because no value has more inside than its table or its array
(`PutsEnd`). The code puts the value that it replaces or deletes while the container still has it. That
is right only if the container is not reached from there, or it would be changed, or freed, under the
operation's hands. So the invariant (`Counts`) also says that the values can be ranked, each above those
it has (`Ranked`): what is put ranks lower than its container and leaves it as it is (`PutInside`). The
ranks stay when references go; when one is given, the caller must not give a value from which the
container is reached ("The caller must avoid creating loops in the object tree", `json_object.c:600`), and the container and
what does not lie below the value can be lifted above it (`RanksRaised`). That `Reach` finds all of that,
going as many rounds as there are blocks, is shown by counting them (`ReachClosed`).

`Redirect`. `upnp_redirect()` looks for a port in the chain of DNAT rules and then adds to three
lists, so one entry per port is kept only if the other two lists have no port that this chain has
not. `RInv` says that (`Whole`, except after a death in chains that will be emptied) beside the
property itself (`Good`). Every operator of `NetfilterRdr` and of the redirection layer has a lemma
on what it does to both, for every prefix of its steps.
That the chains agree is not inductive
either: a deletion takes the first filter rule and the first MASQUERADE rule that fit, and that one
of each is there has to be known. `SInv` adds that every internal address and port has as many DNAT
rules as filter rules, and that every mapping has the MASQUERADE rule of its own ports
(`Agree`); as a port is there once, the lengths follow by injections both ways. Taking the filter rule of another
mapping to the same internal port leaves the counts right, and this is why they are the invariant
and not a pairing of rules.

`SInv` also ties the lease file to the chains. For every port that is not `Exposed` the *set* of its lines
in the file is the set of lines that its mappings and their descriptions make (`Recorded`), and there
is at most one; after a death in a handler only the latter is left (`Lone`), and lines that wait to
be reloaded have no mapping yet (`Awaited`). Sets by port (`Of`) make a port that is deleted or
overwritten independent of all others (`Elsewhere`), so that each operator is one lemma.
`GInv` adds what is owed to a client whose lease has not ended (`Owed`): while the daemon runs, its
line is the only one of the port in the file and the only one the chains make (`Kept`); while it is
down, its line is in the file and a rule left in the chains has its client (`Due`); during the reload
it is either still awaited or kept already, and what is awaited of the port is nothing else. That a
port without a mapping has no line (`Fresh`) makes an added line the only one; that the clean-up does
not take the port follows from its description, which says the same end as its line
(`LiveNotExpired`). From `Kept` the mapping is in the chain, and from `Agree` its filter rule is
there.

`Pinholes`. The list and the chain are searched in two ways, by number and by what the pinhole lets
in. The two find the same pinhole only while neither is there twice, so `PhInv` adds to the property
that no two entries let in the same and no two rules are equal (`Paired`). That a free number exists
is the pigeonhole principle on the numbers that `IptUid` tries. That list and chain are equally long
follows from the rest, by injections both ways. The clean-up (`CleansAll`) is proved for each back
end by the members of its list. ip6tables removes entries by number, and only because the numbers
differ are those the entries whose leases have ended; pf removes the rules it collected, wherever
else an equal one stands; nftables the rules themselves. `TInv` adds to `PhInv` that the rules of pf
and nftables have ends of leases, which nftables has to keep through a search from the end of the
chain.

What a recursive function or a fold computes for every input is proved without the library's
induction rules, whose operator parameters the provers cannot instantiate: `AllNaturals` of
`CallsProofs` says that a *set* that has 0 and the successors of its members has every number, and
`KeptBySteps` and `StepsExist` carry it over to folds. For a recursive function the proof writes
down the function in closed form, shows that it satisfies the equation, and that it is the only one.
The provers have no semantics for `SelectSeq`, therefore the models pick members of lists with
`Those`.

The proofs changed the models where they were wrong or could not be reasoned about. `TextPrefix`,
the comparison of decimal texts by `strncmp()`, was an equation with powers of ten, of which the
provers know nothing; for ports it is membership in the set of the quotients by 1 to 10000.
`TypeOK` of `SdnRedirect` bounded the index of a count and the list of connections by the number of keys, which
answers of connections left behind can exceed. Some `CASE` expressions in `HttpServer`, `MainLoop`,
`Pinholes` and `MapServers` had arms that overlap or did not cover every value, where the code has a
chain of conditions. `OnlyOwnMaps` was false: it held only with no more than two mappings at a time.
With three, TLC then found the way that the proof ran into. NAT-PMP goes on after a deletion that
answered 1 and gives the port a second rule, an IGD request changes the first of the two in its
place, and PCP, which deletes the second with the nonce it was made with, deletes by port and takes the
first. What the property says of nonces now ends with the first deletion that fails; what it says of
other hosts does not, and is proved (PEER is apart in both: it deletes by the external port alone).
`JsonStore` took an entry out of the list of insertion order by `SelectSeq` and does it now by its
place, as the code unlinks it; `Held` counted references by `SelectSeq` and does it now by places.
`TokenAuth` used the library's bitwise operators, which the prover
cannot read; a mask is now a set of bits, and a power of two a recursive function.
`StunTrue` was false too, but for the routers the run had: behind one that rewrites addresses in the
answers and has several external addresses, the four answers look alike. Such a router, and answers
whose other form of the address comes behind an attribute that is cut off, are now among those of
the run, and the property says what can be hidden and when (`Hidden`). `ListingTrue` asked for ranges
of ports up to the number the run has; it is now about any two ports.

### Only model-checked

* Liveness (`NotifyEnds`, `ExpiredGoes`, `Answered`, `LeaseEnds`, `ConnectionEnds`, `QueueDrains`,
  `AddressTold`): fairness and `ENABLED` are out of the prover's reach.
* `IsPortMaps`, `ListingTrue` and `GrantedKept` for nftables, where a rule is a list of expressions
  that the daemon parses back.
* The descriptions (`DescribedWhole`, `SignaturesSame`): tables that are fixed for each build, so
  that the run over all builds says nearly everything. Section 6 says what is next.

## 4. Not modelled

* Start-up: reading the configuration, opening sockets, changing the user, pid file, changing to the
  background.
* TLS on the HTTP server, `LEASEFILE_USE_REMAINING_TIME`, the registration with minissdpd: optional
  builds.
* Parsing and printing: XML, HTTP header text, JSON (the daemon parses a whole text in one call),
  SSDP and SOAP texts. What a parsed part decides is in the models; how its characters are found is
  not.
* Cryptography and base64 of tokens: taken for what they decide.
* mongoose beyond the life of a client connection, json-c beyond its containers: vendored.
* The parts of a token are measured (`jwtauth.c:78`) before the check that there are three of them;
  the model has the error of the check alone. A failed `calloc()` in `add_to_pinhole_list()` after the kernel took the rule
  (`netfilter/iptpinhole.c:74`) and a `delete_filter_rule()` that fails at the end of STUN
  (`upnpstun.c:474`) are left out, so `ListMatchesChain` and the part of `StunTrue` on rules that are
  left open hold without these.
* PCP MAP for IPv6 creates pinholes as an action of `Pinholes`; the checks before it are in
  `MapServers`, and the two are not composed. PCP PEER's
  mangle and DSCP rules of iptables are left out.
* Listing a range and the external address of the SDN build, which only read, with the connection
  handling that `SdnRedirect` has.
* The control tool copies a socket to standard output; the Python tools are clients and
  measurements.

## 5. Behaviour worth knowing that no run is about

The models have these behaviours, and the properties are stated so that they hold with them.

* A change that comes after a NOTIFY was prepared and before it was answered is never told to that
  subscriber (`upnpevents.c:237`); `StaleOnlyIfMissed` says that this, and a notify object that
  could not be made, are the only ways to be left with old values.
* A peer that accepts the connection and never answers keeps its expired subscription
  (`upnpevents.c:652` asks for `notify == NULL`).
* Without `UPNP_STRICT` an expired subscription can be renewed until the loop removes it.
* `delete_redirect_and_filter_rules()` of iptables returns the product of two results, the second of
  which is -1 unless a filter rule was deleted (`netfilter/iptcrdr.c:973`): it never returns -1 for
  two failures but 1, and DeletePortMapping answers success instead of 714.
* The filter rule to delete or change is found by internal address and port, not by remote host
  (`netfilter/iptcrdr.c:847`): of two mappings to one internal port with different remote hosts,
  deleting one can take the other's filter rule. `ChainsAgree` counts rules and does not look at
  remote hosts.
* `remove_unused_rules()` deletes `tmp->eport` with `tmp` not initialised or freed
  (`upnpredirect.c:862`), so a rule that carried traffic may go in place of the unused one.
* Remote hosts are not in the lease file: a reloaded mapping is open to every host.
* `lease_file_remove()` takes the lines of longer ports with the same beginning.
* Redirection: when the filter rule fails, the DNAT rule, the description and the lease line stay
  (`upnpredirect.c:546`); the client's second request is answered 0 without a filter rule.
  `AddOpens` of `Redirect` states what `upnpredirect.h:32` says; it is proved without such failures
  (`AddsOpen`) and does not hold with `Faults = "any"`; with such faults a port can also get two rules.

SDN:

* A deletion whose connection is refused or dropped is reported as done (`sdn/iptcrdr.c:634`;
  `upnpredirect.h:94` says that a failure is -1).
* A `connect()` that fails at once leaves a connection whose late answer ends a later call
  (`sdn/iptcrdr.c:353`).
* `DeletePortMappingRange` raises no event, unlike the other actions.

Other back ends:

* pf: updating a mapping leaves the port-triggering rule of the old port; cleaning up after a failed
  filter rule leaves it too; a deletion takes the first filter rule of the internal address and port
  without regard to the remote host; after a refused step inside a change two mappings can share a filter
  rule, or one have none, and the answer is 0. `GrantedKept` counts port-triggering rules by
  internal port: which of two mappings to one internal port a deleted one was for is not seen.
* ipfilter: `del_redirect_desc()` drops every entry before the one it looks for;
  `get_redirect_rule()` writes "0.0.0.0" for any host, so a repeated request is answered -2; the
  timestamp is not set when no description is asked for; updating is not implemented.
* ipfw: updating is deleting and adding, with nothing in between to fall back on.
* nftables: a deletion never removes the lease end, always answers 0 and takes the filter rule of
  either protocol; an update reads a remote host that is not set; a PEER rule is read back with its
  internal port as the external one; the capacity of the list of ports in a range never grows.

Pinholes:

* Refreshing passes the end of the lease where its length is meant, so the time of day is added
  twice (`upnppinhole.c:142` and `:293`, the comment at `upnpsoap.c:2027`).
* pf does not implement updates (501). nftables answers 0 for a pinhole that is not there, never
  reads back the remote port, and does not wait for the kernel's answer to a deletion. Numbers may
  repeat after they wrapped with pf and nftables.
* The ip6tables clean-up stops at the first deletion that is refused.

HTTP server and main loop:

* The check that a client is in the local network is disabled by `&& 0`. A SUBSCRIBE whose
  subscriber could not be made is answered 200 without SID. The rest of a 100 Continue that did not
  go at once is never sent.
* A datagram in EWAITREADY makes the loop turn without sleeping. The carry of microseconds uses `>`,
  so a time may have exactly 1000000 of them. A change of the address between the notification of
  NAT-PMP or PCP and the reset of the flag (`miniupnpd.c:2556`) is not told by that one, and with
  STUN, whose result NAT-PMP takes, the time begins with the answers of the STUN server; a failed
  STUN makes NAT-PMP tell the old address, and nothing asks again. Copies of ssdp:alive that are
  still queued go out after ssdp:byebye.

NAT-PMP, PCP, tokens, STUN:

* NAT-PMP answers success when the deletion of an existing mapping of the same host failed; its
  deletion loop does not end while a back end answers 0 or more and deletes nothing.
* After a deletion that answered 1, NAT-PMP gives the port a second rule, of the same host; PCP
  deleting the second with its own nonce deletes by port and takes the first.
* PCP: PEER does not look whether the external port is free, and its deletion goes by that port
  alone; a failed one is answered SUCCESS. MAP deletes the first match only, and a mapping of
  another description found first makes it NOT_AUTHORIZED. A refresh ignores the nonce. An unknown
  mandatory option does not end the parsing of options.
* Tokens: 256 is taken as an octet; port numbers above 65535 wrap; for a wildcard port the start of
  the first range is taken even if the range is upside down.
* STUN: a foreign datagram makes the daemon ask again although it had the answer; a failed run keeps
  the old address; the first failing `sendto()` leaves out the later requests of the round. Behind a
  router that rewrites addresses in datagrams, a server that has no XOR-MAPPED-ADDRESS makes it tell
  an internal one.

Descriptions and json-c:

* A build with Layer3Forwarding, the dummy service and DeviceProtection has three services in the
  root device and entries for two (`upnpdescgen.c:211`): `serviceList` would run into a text.
  `SomeBuilds` leaves this combination out.
* A failed `realloc()` drops a piece of the text silently, and `FORCEIGDDESCV1` then overwrites the
  last character there is. The model has the piece as missing (`DescribedWhole`) and leaves out which
  character is overwritten.
* json-c: the copy of a key leaks when the insertion fails.

## 6. Plan

1. Done: events with proofs, SDN, netfilter, the other firewalls with their abstract specification,
   pinholes, HTTP, main loop, map servers, permissions, tokens, STUN, json-c's containers,
   descriptions.
2. Proofs. Done: section 3. Next: the refinement for nftables; the bound of the buffer in
   `strcat_str()`.
3. `Gena`, what a subscriber may observe (keys in order, values never going back, silence only after
   an error or a lost change), implemented by `UpnpEvents`, and the proof of its step simulation.
4. Compositions: PCP MAP for IPv6 with `Pinholes`; `Redirect` and `SdnRedirect` with `UpnpEvents`,
   for which changes raise which events; SUBSCRIBE through `HttpServer` with `UpnpEvents`.
5. Start-up: the pid file, which is looked at and written in two steps.
