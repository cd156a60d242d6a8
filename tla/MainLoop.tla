------------------------------ MODULE MainLoop ------------------------------
(***************************************************************************)
(* The main loop of miniupnpd.c: its signals, its timers and the time it   *)
(* sleeps, the SSDP messages it sends (minissdp.c) and the queue of        *)
(* datagrams behind them (asyncsendto.c), up to the shutdown.              *)
(*                                                                         *)
(* A second has Second ticks. Times are a pair of seconds and ticks, as a  *)
(* struct timeval, with the seconds relative to the current one: the clock *)
(* is <<0, phase>>, so that time goes on for ever in finitely many states. *)
(* Time passes while the loop sleeps; a turn takes none.                   *)
(***************************************************************************)
EXTENDS Integers, Sequences, FiniteSets, Calls

CONSTANTS
    Second,       \* ticks
    Interval,     \* notify_interval, in seconds
    Repeat,       \* ticks until a NOTIFY is sent again, 250 ms
    MSearchDelay, \* ticks until a search is answered, 50 ms
    Services,     \* known_service_types, [dev : is it a device]
    Packets,      \* what comes to the SSDP socket: [lan, kind, st] with st "none",
                  \* "all", "uuid", "known" or "other"
    MaxRequests, MaxIntr, MaxChanges    \* bounds on what the environment does

ASSUME MainLoopAssumption ==
    /\ {Second, Interval, Repeat, MSearchDelay} \subseteq Nat \ {0}
    /\ {MaxRequests, MaxIntr, MaxChanges} \subseteq Nat
    /\ Services \in Seq([dev : BOOLEAN])

VARIABLES
    pc,        \* where the loop is: "top", "learn", "natpmp", "events", "pcp", "clear",
               \* "timers", "sleep", "serve" or "work", "shutdown", "flush", "down"
    phase,     \* ticks of the current second
    left,      \* ticks until select() returns
    last,      \* lasttimeofday
    clean,     \* nextruletoclean_timestamp, relative; Never for 0
    queue,     \* send_list, from its head
    blocked,   \* the kernel has no room for another datagram
    quitting,
    flag,      \* should_send_public_address_change_notif
    addr,      \* the public address: the number of times it changed
    stun,      \* PERFORMSTUNMASK: the address is the one that STUN finds
    found,     \* use_ext_ip_addr, with STUN
    told,      \* for NAT-PMP and for PCP the address at the last notification
    missed,    \* the notifications that do not know of the last change, because it came
               \* between them and the reset of the flag or because STUN failed
    requests, intr   \* what the environment has left

lvars == <<pc, phase, left, last, clean, queue, blocked, quitting, flag, addr, stun,
           found, told, missed, requests, intr>>

\* What is told, and what is not changed when nothing is
tvars == <<addr, stun, found, told, missed>>

Never == 2 * Interval + 1

\* The comparison of two struct timeval
Before(a, b) == a.sec < b.sec \/ (a.sec = b.sec /\ a.usec < b.usec)

Clock == [sec |-> 0, usec |-> phase]

Ticks(t) == t.sec * Second + t.usec

-----------------------------------------------------------------------------
\* asyncsendto.c. The time for a datagram; exactly one second of ticks is not carried
TimeOf(delay) ==
    LET usec == phase + (delay % Second)
        sec  == delay \div Second
    IN  IF usec > Second THEN [sec |-> sec + 1, usec |-> usec - Second]
        ELSE [sec |-> sec, usec |-> usec]

\* The state of the network for the operators that send. c is what becomes of
\* a datagram that there is room for: "ok", "full" when it took the last room,
\* "intr" or "fail".
Net == [queue |-> queue, blocked |-> blocked, intr |-> intr]

Outcome(s, c) == IF s.blocked THEN "again" ELSE IF c = "intr" /\ s.intr = 0 THEN "ok" ELSE c

\* send_from_to(), and what it did
SendFromTo(s, c) ==
    CASE Outcome(s, c) = "full" -> [s EXCEPT !.blocked = TRUE]
      [] Outcome(s, c) = "intr" -> [s EXCEPT !.intr = @ - 1]
      [] OTHER                  -> s

\* sendto_schedule2(): with no delay it is sent at once if it can be
SendtoSchedule(s, msg, delay, c) ==
    LET tried == SendFromTo(s, c)
        state == IF delay > 0 THEN "ESCHEDULED"
                 ELSE CASE Outcome(s, c) = "again" -> "EWAITREADY"
                        [] Outcome(s, c) = "intr"  -> "ESENDNOW"
                        [] OTHER -> "none"
        elt   == [state |-> state, ts |-> TimeOf(delay), msg |-> msg]
    IN  IF delay > 0 THEN [s EXCEPT !.queue = <<elt>> \o @]
        ELSE IF state = "none" THEN tried
        ELSE [tried EXCEPT !.queue = <<elt>> \o @]

\* get_next_scheduled_send()
NextScheduled(q) == CHOOSE t \in {q[i].ts : i \in 1 .. Len(q)} :
                        \A i \in 1 .. Len(q) : ~Before(q[i].ts, t)

\* Mutant of Due: only the seconds count
DueSeconds(e) == e.state = "EWAITREADY" \/ e.ts.sec <= 0

Due(e) == e.state = "EWAITREADY" \/ ~Before(Clock, e.ts)

\* Mutant of Marked: nothing is
MarkedNot(q) == q

\* get_sendto_fds(): what is due is marked
Marked(q) == [i \in 1 .. Len(q) |->
                IF q[i].state # "EWAITREADY" /\ Due(q[i])
                THEN [q[i] EXCEPT !.state = "ESENDNOW"] ELSE q[i]]

Kept(s, e, state) == [s EXCEPT !.queue = Append(@, [e EXCEPT !.state = state])]

\* try_sendto(): one datagram; what failed is removed as well
SendElt(s, e, c) ==
    LET tried == SendFromTo(s, c)
    IN  IF e.state = "ESCHEDULED" \/ (e.state = "EWAITREADY" /\ s.blocked)
        THEN [s EXCEPT !.queue = Append(@, e)]
        ELSE CASE Outcome(s, c) = "intr"  -> Kept(tried, e, "ESENDNOW")
               [] Outcome(s, c) = "again" -> Kept(tried, e, "EWAITREADY")
               [] OTHER                   -> tried

TrySendElt(s, e, c) == On(s, LAMBDA x : SendElt(x, e, c))

\* What may become of the datagrams that there is a try for: one of a turn is
\* the last there is room for, is interrupted or fails. It is a function of
\* that one; the others are sent.
Fates(tries) == [{} -> {}] \cup
                UNION {[{i} -> {"full", "intr", "fail"}] : i \in {j \in tries : ~blocked}}

Ready == {i \in 1 .. Len(queue) : queue[i].state # "ESCHEDULED"}

Fate(c, i) == IF i \in DOMAIN c THEN c[i] ELSE "ok"

\* From the head of the list; c has what becomes of each
TrySendto(s, c) ==
    Steps([s EXCEPT !.queue = <<>>], Len(s.queue),
          LAMBDA r, i : TrySendElt(r, s.queue[i], Fate(c, i)))

-----------------------------------------------------------------------------
\* minissdp.c. The messages for a service; a device has one for its uuid too.
Messages == Len(Services) + Cardinality({i \in 1 .. Len(Services) : Services[i].dev})

\* SendSSDPNotify(): at once, and again later
SendSSDPNotify(s, c) ==
    SendtoSchedule(SendtoSchedule(s, "alive", 0, c), "alive", Repeat, "ok")

\* SendSSDPNotifies2(), SendSSDPNotifies(): for all services
SendSSDPNotifies(s, c) ==
    Steps(s, Messages, LAMBDA r, i : SendSSDPNotify(r, Fate(c, i)))

\* SendSSDPGoodbye(), SendSSDPbyebye()
SendSSDPGoodbye(s, c) ==
    Steps(s, Messages, LAMBDA r, i : SendtoSchedule(r, "bye", 0, Fate(c, i)))

\* What ProcessSSDPData() goes on with: a search, from the network, for something
Search(p) == p.lan /\ p.kind = "M-SEARCH" /\ p.st # "none"

\* How many responses a search gets. A known type gets one, whatever its
\* version; "ssdp:all" gets one for each type and for each uuid of the three
\* devices.
SearchResponses(st) == CASE st = "all"           -> Len(Services) + 3
                         [] st \in {"uuid", "known"} -> 1
                         [] OTHER                -> 0

SendSSDPResponse(s) == SendtoSchedule(s, "response", MSearchDelay, "ok")

ProcessSSDPData(s, p) ==
    IF Search(p) THEN Steps(s, SearchResponses(p.st), LAMBDA r, i : SendSSDPResponse(r)) ELSE s

\* ProcessSSDPRequest(): recvfrom() may report an error, or that nothing is there
NoPacket == [lan |-> FALSE, kind |-> "none", st |-> "none"]

ProcessSSDPRequest(s, p) == IF p = NoPacket THEN s ELSE ProcessSSDPData(s, p)

-----------------------------------------------------------------------------
\* SendNATPMPPublicAddressChangeNotification(): to two ports, the second if the
\* first did not fail
SendAddressChange(s, c) ==
    LET first == SendtoSchedule(s, "address", 0, Fate(c, 1))
    IN  IF Outcome(s, Fate(c, 1)) = "fail" THEN first
        ELSE SendtoSchedule(first, "address", 0, Fate(c, 2))

\* PCPSendUnsolicitedAnnounce(): on the socket for IPv4 and on that for IPv6, whatever
\* becomes of the first
SendAnnounce(s, c) ==
    SendtoSchedule(SendtoSchedule(s, "announce", 0, Fate(c, 1)), "announce", 0, Fate(c, 2))

Put(s) == \E r \in {s} : queue' = r.queue /\ blocked' = r.blocked /\ intr' = r.intr

\* while(!quitting)
Top ==
    /\ pc = "top"
    /\ pc' = IF quitting THEN "shutdown" ELSE IF flag THEN "learn" ELSE "timers"
    /\ UNCHANGED <<phase, left, last, clean, queue, blocked, quitting, flag, tvars, requests, intr>>

\* update_ext_ip_addr_from_stun(), which may fail and leaves the address as it was then
LearnAddress ==
    /\ pc = "learn"
    /\ pc' = "natpmp"
    /\ \E ok \in {stun, FALSE} :
          /\ found' = IF ok THEN addr ELSE found
          /\ missed' = IF stun /\ ~ ok THEN missed \cup {"natpmp"} ELSE missed
    /\ UNCHANGED <<phase, left, last, clean, queue, blocked, quitting, flag, addr, stun, told,
                   requests, intr>>

\* The datagrams of NAT-PMP have the address of this moment, or the one that STUN found. There
\* are none when the interface has no address.
NotifyNatpmp ==
    /\ pc = "natpmp"
    /\ pc' = "events"
    /\ told' = [told EXCEPT !.natpmp = IF stun THEN found ELSE addr]
    /\ \E c \in Fates(1 .. 2), noaddr \in {FALSE, ~ stun} :
          Put(IF noaddr THEN Net ELSE SendAddressChange(Net, c))
    /\ UNCHANGED <<phase, left, last, clean, quitting, flag, addr, stun, found, missed, requests>>

\* upnp_event_var_change_notify() makes the notifications that a later turn fills with the
\* address of that time (see UpnpEvents)
NotifyEvents ==
    /\ pc = "events"
    /\ pc' = "pcp"
    /\ UNCHANGED <<phase, left, last, clean, queue, blocked, quitting, flag, tvars, requests, intr>>

\* PCPPublicAddressChanged(): the epoch starts again, and clients are told so
NotifyPcp ==
    /\ pc = "pcp"
    /\ pc' = "clear"
    /\ told' = [told EXCEPT !.pcp = addr]
    /\ \E c \in Fates(1 .. 2) : Put(SendAnnounce(Net, c))
    /\ UNCHANGED <<phase, left, last, clean, quitting, flag, addr, stun, found, missed, requests>>

ClearFlag ==
    /\ pc = "clear"
    /\ flag' = FALSE
    /\ pc' = "timers"
    /\ UNCHANGED <<phase, left, last, clean, queue, blocked, quitting, tvars, requests, intr>>

\* The time until the next NOTIFY
UntilNotify ==
    IF phase > last.usec
    THEN [sec |-> last.sec + Interval - 1, usec |-> Second + last.usec - phase]
    ELSE [sec |-> last.sec + Interval, usec |-> last.usec - phase]

\* The expired rules are removed first; what is next shortens the sleep
UntilClean(t, next) == IF next # Never /\ t.sec >= next THEN [sec |-> next, usec |-> 0] ELSE t

\* Mutant of UntilSend: the first of the queue is waited for, not the next
UntilSendFirst(t, q) ==
    LET tmp == [sec |-> q[1].ts.sec, usec |-> q[1].ts.usec - phase]
    IN  IF q = <<>> THEN t
        ELSE IF ~Before(Clock, q[1].ts) THEN [sec |-> 0, usec |-> 0]
        ELSE IF Ticks(tmp) < Ticks(t) THEN tmp ELSE t

\* A datagram that waits for room counts as one to send at once: select()
\* returns at once until there is room
UntilSend(t, q) ==
    LET next == NextScheduled(q)
        d    == [sec |-> next.sec, usec |-> next.usec - phase]
        tmp  == IF d.usec < 0 THEN [sec |-> d.sec - 1, usec |-> d.usec + Second] ELSE d
    IN  IF q = <<>> THEN t
        ELSE IF ~Before(Clock, next)
        THEN IF \E i \in 1 .. Len(q) : Due(q[i]) THEN [sec |-> 0, usec |-> 0] ELSE t
        ELSE IF Before(tmp, t) THEN tmp ELSE t

LastNotify(due) == IF due THEN Clock ELSE last

\* From gettimeofday() to select()
Timers ==
    /\ pc = "timers"
    /\ \E c \in Fates(IF -last.sec >= Interval THEN 1 .. Messages ELSE {}) :
       \E s \in {IF -last.sec >= Interval THEN SendSSDPNotifies(Net, c) ELSE Net} :
          LET due  == -last.sec >= Interval
              next == IF clean <= 0 THEN Never ELSE clean
              base == IF due THEN [sec |-> Interval, usec |-> 0] ELSE UntilNotify
          IN  /\ last' = LastNotify(due)
              /\ clean' = next
              /\ left' = Ticks(UntilSend(UntilClean(base, next), s.queue))
              /\ Put([s EXCEPT !.queue = Marked(@)])
    /\ pc' = "sleep"
    /\ UNCHANGED <<phase, quitting, flag, tvars, requests>>

\* select() returns because somebody sent a request,
Request == /\ pc = "sleep" /\ requests > 0
           /\ requests' = requests - 1
           /\ pc' = "serve"
           /\ UNCHANGED <<phase, left, last, clean, queue, blocked, quitting, flag, tvars, intr>>

\* or at its timeout, or because there is room for a datagram that waits
Wake == /\ pc = "sleep"
        /\ \/ left = 0
           \/ ~blocked /\ \E i \in 1 .. Len(queue) : queue[i].state = "EWAITREADY"
        /\ pc' = "work"
        /\ UNCHANGED <<phase, left, last, clean, queue, blocked, quitting, flag, tvars, requests,
                       intr>>

\* Mutant of ProcessInterfaceWatchNotify: the flag is forgotten
ProcessInterfaceWatchNotifyQuiet ==
    /\ addr < MaxChanges
    /\ addr' = addr + 1
    /\ missed' = {}
    /\ UNCHANGED flag

\* ProcessInterfaceWatchNotify(): the kernel says that an interface got or lost
\* an address; if it is the external one, the public address changed
ProcessInterfaceWatchNotify ==
    /\ addr < MaxChanges
    /\ addr' = addr + 1
    /\ missed' = {}
    /\ flag' = TRUE

\* try_sendto(), then the requests: a search, a message of the kernel, a new
\* mapping with a lease
Work ==
    /\ pc \in {"work", "serve"}
    /\ pc' = "top"
    /\ \E c \in Fates(Ready), p \in {NoPacket} \cup {q \in Packets : pc = "serve"} :
          Put(ProcessSSDPRequest(TrySendto(Net, c), p))
    /\ clean' \in {clean} \cup {t \in 1 .. Interval : pc = "serve" /\ t < clean}
    /\ \/ UNCHANGED <<addr, missed, flag>>
       \/ pc = "serve" /\ ProcessInterfaceWatchNotify
    /\ UNCHANGED <<phase, left, last, quitting, stun, found, told, requests>>

\* A signal interrupts select(): the turn ends, nothing is sent
Interrupt(q) == IF pc = "sleep" THEN IF q THEN "shutdown" ELSE "top" ELSE pc

SigTerm ==
    /\ pc \notin {"shutdown", "flush", "down"} /\ ~quitting
    /\ quitting' = TRUE
    /\ pc' = Interrupt(TRUE)
    /\ UNCHANGED <<phase, left, last, clean, queue, blocked, flag, tvars, requests, intr>>

\* The notifications of this turn that have been made, or have their address
Made == CASE pc = "natpmp"             -> IF stun THEN {"natpmp"} ELSE {}
          [] pc \in {"events", "pcp"} -> {"natpmp"}
          [] pc = "clear"              -> {"natpmp", "pcp"}
          [] OTHER                     -> {}

\* The public address changes, and SIGUSR1 says so
SigUsr1 ==
    /\ pc \notin {"shutdown", "flush", "down"} /\ addr < MaxChanges
    /\ addr' = addr + 1
    /\ flag' = TRUE
    /\ missed' = Made
    /\ pc' = Interrupt(quitting)
    /\ UNCHANGED <<phase, left, last, clean, queue, blocked, quitting, stun, found, told, requests,
                   intr>>

\* The kernel has sent something
Unblock == /\ blocked /\ blocked' = FALSE
           /\ UNCHANGED <<pc, phase, left, last, clean, queue, quitting, flag, tvars, requests, intr>>

\* A second later everything is a second nearer; the past is the past
Shift(t) == IF phase + 1 = Second THEN IF t.sec < -Never THEN t ELSE [t EXCEPT !.sec = @ - 1]
            ELSE t

PassTick ==
    /\ pc = "sleep" /\ left > 0
    /\ left' = left - 1
    /\ phase' = (phase + 1) % Second
    /\ last' = Shift(last)
    /\ clean' = IF phase + 1 = Second /\ clean # Never THEN clean - 1 ELSE clean
    /\ queue' = [i \in 1 .. Len(queue) |->
                   [queue[i] EXCEPT !.ts = IF @.sec < 0 THEN @ ELSE Shift(@)]]
    /\ UNCHANGED <<pc, blocked, quitting, flag, tvars, requests, intr>>

\* SendSSDPGoodbye()
Shutdown ==
    /\ pc = "shutdown"
    /\ \E c \in Fates(1 .. Messages) : Put(SendSSDPGoodbye(Net, c))
    /\ pc' = "flush"
    /\ UNCHANGED <<phase, left, last, clean, quitting, flag, tvars, requests>>

\* finalize_sendto(): all that is queued is sent, also what has time, and what has
\* no room for half a second is dropped
FinalizeSendto ==
    /\ pc = "flush"
    /\ queue' = <<>>
    /\ pc' = "down"
    /\ UNCHANGED <<phase, left, last, clean, blocked, quitting, flag, tvars, requests, intr>>

LInit ==
    /\ pc = "top" /\ phase \in 0 .. Second - 1 /\ left = 0
    /\ last = [sec |-> -Interval, usec |-> 0] /\ clean = Never
    /\ queue = <<>> /\ blocked = FALSE
    /\ quitting = FALSE /\ flag = FALSE
    /\ addr = 0 /\ stun \in BOOLEAN /\ found = 0
    /\ told = [natpmp |-> 0, pcp |-> 0] /\ missed = {}
    /\ requests \in 0 .. MaxRequests /\ intr \in 0 .. MaxIntr

Loop == Top \/ LearnAddress \/ NotifyNatpmp \/ NotifyEvents \/ NotifyPcp \/ ClearFlag \/ Timers
        \/ Wake \/ Work \/ Shutdown \/ FinalizeSendto

LNext == Loop \/ Request \/ SigTerm \/ SigUsr1 \/ Unblock \/ PassTick

\* The loop turns, time passes and the kernel sends what it took
LFair == WF_lvars(Loop) /\ WF_lvars(PassTick) /\ WF_lvars(Unblock)

LSpec == LInit /\ [][LNext]_lvars /\ LFair

-----------------------------------------------------------------------------
LoopTypeOK ==
    /\ phase \in 0 .. Second - 1
    /\ left \in 0 .. Interval * Second
    /\ \A i \in 1 .. Len(queue) : queue[i].ts.usec \in 0 .. Second
    /\ clean \in 0 .. Never

\* The loop never sleeps past the time of a datagram that was scheduled, with
\* the carry from microseconds and whatever else it waits for.
WakesInTime ==
    pc = "sleep" => \A i \in 1 .. Len(queue) :
        queue[i].state = "ESCHEDULED" => left <= Ticks(queue[i].ts) - phase

Copies(q, d) == Cardinality({i \in 1 .. Len(q) : q[i] = d})

\* A datagram with a delay does not leave the queue of asyncsendto.c before its
\* time, whatever else wakes the loop.
NotBeforeTime ==
    [][(pc = "work" \/ pc = "serve") =>
          \A i \in 1 .. Len(queue) :
             Before(Clock, queue[i].ts) =>
                 Copies(queue', queue[i]) >= Copies(queue, queue[i])]_lvars

\* What is queued leaves the queue: no datagram waits for ever, even when the
\* kernel has room for one at a time and signals interrupt the sleep.
QueueDrains == (\E i \in 1 .. Len(queue) : queue[i].msg = "response")
                   ~> ~\E i \in 1 .. Len(queue) : queue[i].msg = "response"

\* After SIGUSR1, or a message of the kernel, NAT-PMP and PCP tell clients of the new address,
\* unless STUN fails or the signal came after this turn's notification and before the reset of
\* the flag. Nowhere else in the loop is a change lost, however many there are.
AddressTold ==
    \A w \in {"natpmp", "pcp"} :
        (addr # told[w] /\ w \notin missed) ~> (addr = told[w] \/ w \in missed \/ quitting)

=============================================================================
