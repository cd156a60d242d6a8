------------------------------ MODULE UpnpEvents ------------------------------
(***************************************************************************)
(* The GENA event publisher of the daemon (miniupnpd/upnpevents.c) as it   *)
(* runs inside the main select() loop: the list of subscribers, the list   *)
(* of notify objects (one TCP connection each), the pointers between the   *)
(* two, and the subscribers' sockets.                                      *)
(*                                                                         *)
(* A subscriber and a notify object are heap blocks: they are named by     *)
(* their address, and an address that was freed may be handed out again,   *)
(* so that a pointer kept too long would reach somebody else's block.      *)
(***************************************************************************)
EXTENDS Naturals, FiniteSets

CONSTANTS
    SubAddrs,     \* addresses of struct subscriber blocks
    NotifyAddrs,  \* addresses of struct upnp_event_notify blocks
    NULL,         \* the null pointer
    Services,     \* enum subscriber_service_enum
    Timeouts,     \* values of the TIMEOUT: header, 0 meaning "infinite"
    SeqMod,       \* 2^32 in the code: seq is an uint32_t
    MayFail,      \* malloc(), socket(), send()... may fail for local reasons
    Strict,       \* built with UPNP_STRICT
    MaxTime,      \* bound on the clock
    MaxChanges    \* bound on the changes of a service's state variables

ASSUME NullAssumption == NULL \notin SubAddrs \cup NotifyAddrs
ASSUME ServicesAssumption == Services # {}
ASSUME TimeoutsAssumption == Timeouts \subseteq Nat
ASSUME SeqModAssumption == SeqMod \in Nat \ {0}
ASSUME SwitchAssumption == MayFail \in BOOLEAN /\ Strict \in BOOLEAN
ASSUME BoundsAssumption == MaxTime \in Nat /\ MaxChanges \in Nat

VARIABLES
    phase,           \* where the main loop is
    subscriberlist,  \* addresses of the subscribers in the list
    sub,             \* contents of the subscriber blocks
    notifylist,      \* addresses of the notify objects in the list
    obj,             \* contents of the notify objects
    net,             \* the peer's side of each notify object's socket
    readyfds,        \* notify objects whose fd select() reported
    now,             \* upnp_time()
    version,         \* version of each service's state variables
    delivered,       \* history: version carried by the last finished NOTIFY
    missed           \* history: a change came too late for any notify object

vars == <<phase, subscriberlist, sub, notifylist, obj, net, readyfds, now,
          version, delivered, missed>>

-----------------------------------------------------------------------------

Phases == {"top", "select", "process", "dispatch"}

NotifyStates == {"ECreated", "EConnecting", "ESending",
                 "EWaitingForResponse", "EFinished", "EError"}

\* "closed" is a descriptor that is not open
NetStates == {"closed", "idle", "connecting", "connected", "refused",
              "answered", "reset"}

\* What a system call on a ready socket tells: all done, EAGAIN or a part
\* of it, an error
Outcomes == {"ok", "again", "fail"}

Versions == 0 .. MaxChanges

Subscriber == [notify  : NotifyAddrs \cup {NULL},
               timeout : Nat,
               seq     : 0 .. SeqMod - 1,
               service : Services]

\* seq and val are what upnp_event_prepare() printed into the buffer
Notify == [sub   : SubAddrs \cup {NULL},
           state : NotifyStates,
           seq   : 0 .. SeqMod - 1,
           val   : Versions]

Expired(s) == sub[s].timeout # 0 /\ now > sub[s].timeout

\* The notification's text exists: the state variables were read
Prepared(o) == obj[o].state \in {"ESending", "EWaitingForResponse"}

\* The timeout field for a TIMEOUT: header; 0 is "never"
Deadline(timeout) == IF timeout = 0 THEN 0 ELSE now + timeout

FreeNotifyAddrs == NotifyAddrs \ notifylist

\* A block that is not allocated: its contents stand for nothing
FreedSubscriber == [notify |-> NULL, timeout |-> 0, seq |-> 0,
                    service |-> CHOOSE service \in Services : TRUE]
FreedNotify == [sub |-> NULL, state |-> "EFinished", seq |-> 0, val |-> 0]

-----------------------------------------------------------------------------
(***************************************************************************)
(* upnp_event_create_notify() for every subscriber of a set, on the        *)
(* contents `subs' of the subscriber blocks.  `new' gives each subscriber  *)
(* that gets an object the address of the object; for the others calloc()  *)
(* or socket() failed and the code only logs it.                           *)
(***************************************************************************)
Allocations(T) ==
    {new \in UNION {[G -> FreeNotifyAddrs] : G \in SUBSET T} :
        /\ \A s, t \in DOMAIN new : new[s] = new[t] => s = t
        /\ ~MayFail => DOMAIN new = T}

NewNotify(s) == [sub |-> s, state |-> "ECreated", seq |-> 0, val |-> 0]

CreateNotify(new, subs) ==
    LET owner(o) == CHOOSE s \in DOMAIN new : new[s] = o
        created  == {new[s] : s \in DOMAIN new}
    IN  /\ notifylist' = notifylist \cup created
        /\ obj' = [o \in NotifyAddrs |->
                      IF o \in created THEN NewNotify(owner(o)) ELSE obj[o]]
        /\ net' = [o \in NotifyAddrs |->
                      IF o \in created THEN "idle" ELSE net[o]]
        /\ sub' = [s \in SubAddrs |->
                      IF s \in DOMAIN new THEN [subs[s] EXCEPT !.notify = new[s]]
                                          ELSE subs[s]]

\* Mutant of ToNotify: a subscriber that is being notified gets a second object
ToNotifyBusyToo(service) == {s \in subscriberlist : sub[s].service = service}

\* upnp_event_var_change_notify() skips whoever has a notify object already
ToNotify(service) ==
    {s \in subscriberlist : sub[s].service = service /\ sub[s].notify = NULL}

-----------------------------------------------------------------------------
\* SUBSCRIBE with a Callback: header: ProcessHTTPSubscribe_upnphttp() calls
\* upnpevents_addSubscriber(), which also creates the first notification.
AddSubscriber(s, service, timeout) ==
    /\ phase = "dispatch"
    /\ s \notin subscriberlist
    /\ subscriberlist' = subscriberlist \cup {s}
    /\ \E new \in Allocations({s}) :
        /\ CreateNotify(new,
               [sub EXCEPT ![s] =
                   [notify  |-> NULL,
                    timeout |-> Deadline(timeout),
                    seq     |-> 0,
                    service |-> service]])
        /\ missed' = [missed EXCEPT ![s] = s \notin DOMAIN new]
    /\ delivered' = [delivered EXCEPT ![s] = 0]
    /\ UNCHANGED <<phase, readyfds, now, version>>

\* SUBSCRIBE with a SID: header: upnpevents_renewSubscription(). A SID that
\* matches nothing is answered 412 and changes nothing.
RenewSubscription(s, timeout) ==
    /\ phase = "dispatch"
    /\ s \in subscriberlist
    /\ Strict => ~Expired(s)
    /\ sub' = [sub EXCEPT ![s].timeout = Deadline(timeout)]
    /\ UNCHANGED <<phase, subscriberlist, notifylist, obj, net, readyfds, now,
                   version, delivered, missed>>

\* Mutant of Detach: the object keeps its pointer to the freed subscriber
DetachForgotten(s) == obj

\* sub->notify->sub = NULL
Detach(s) == [o \in NotifyAddrs |->
                 IF o = sub[s].notify THEN [obj[o] EXCEPT !.sub = NULL]
                                      ELSE obj[o]]

\* UNSUBSCRIBE: upnpevents_removeSubscriber(). A notification under way loses
\* its subscriber and goes on without it.
RemoveSubscriber(s) ==
    /\ phase = "dispatch"
    /\ s \in subscriberlist
    /\ subscriberlist' = subscriberlist \ {s}
    /\ obj' = Detach(s)
    /\ sub' = [sub EXCEPT ![s] = FreedSubscriber]
    /\ delivered' = [delivered EXCEPT ![s] = 0]
    /\ missed' = [missed EXCEPT ![s] = FALSE]
    /\ UNCHANGED <<phase, notifylist, net, readyfds, now, version>>

\* A handler that changes the number of port mappings or the external address
\* ends with upnp_event_var_change_notify(service). changed = FALSE stands for
\* the callers that notify whether or not something changed. It runs among the
\* request handlers, and at the top of the loop (SIGUSR1, expired mappings).
VarChange(service, changed) ==
    /\ phase \in {"top", "dispatch"}
    /\ changed => version[service] < MaxChanges
    /\ version' = IF changed THEN [version EXCEPT ![service] = @ + 1]
                             ELSE version
    /\ \E new \in Allocations(ToNotify(service)) :
        /\ CreateNotify(new, sub)
        /\ missed' = [s \in SubAddrs |->
               \/ missed[s]
               \/ /\ changed
                  /\ s \in subscriberlist
                  /\ sub[s].service = service
                  /\ IF sub[s].notify = NULL THEN s \notin DOMAIN new
                                             ELSE Prepared(sub[s].notify)]
    /\ UNCHANGED <<phase, subscriberlist, readyfds, now, delivered>>

-----------------------------------------------------------------------------
\* upnp_event_notify_connect() on every object just created; connect() fails
\* at once for the objects in `failed'.
NotifyConnect(o, failed) ==
    IF obj[o].sub = NULL \/ o \in failed
    THEN [obj[o] EXCEPT !.state = "EError"]
    ELSE [obj[o] EXCEPT !.state = "EConnecting"]

\* upnpevents_selectfds()
SelectFds(failed) ==
    LET created == {o \in notifylist : obj[o].state = "ECreated"}
    IN  /\ phase = "top"
        /\ failed \subseteq (IF MayFail THEN created ELSE {})
        /\ obj' = [o \in NotifyAddrs |->
                      IF o \in created THEN NotifyConnect(o, failed) ELSE obj[o]]
        /\ net' = [o \in NotifyAddrs |->
                      IF o \in created /\ obj[o].sub # NULL /\ o \notin failed
                      THEN "connecting" ELSE net[o]]
        /\ phase' = "select"
        /\ UNCHANGED <<subscriberlist, sub, notifylist, readyfds, now, version,
                       delivered, missed>>

\* Mutant of Ready: the read set is forgotten
ReadyToWrite(o) ==
    obj[o].state \in {"EConnecting", "ESending"} /\ net[o] # "connecting"

Ready(o) ==
    \/ obj[o].state \in {"EConnecting", "ESending"} /\ net[o] # "connecting"
    \/ obj[o].state = "EWaitingForResponse" /\ net[o] \in {"answered", "reset"}

\* select() returns, for a descriptor or for its timeout
SelectReturns ==
    /\ phase = "select"
    /\ readyfds' = {o \in notifylist : Ready(o)}
    /\ phase' = "process"
    /\ UNCHANGED <<subscriberlist, sub, notifylist, obj, net, now, version,
                   delivered, missed>>

\* select() fails with EINTR: the loop starts again
SelectInterrupted ==
    /\ phase = "select"
    /\ phase' = "top"
    /\ UNCHANGED <<subscriberlist, sub, notifylist, obj, net, readyfds, now,
                   version, delivered, missed>>

\* What the system calls made for a ready object may answer
Answers(o) == IF net[o] \in {"refused", "reset"} THEN {"fail"}
              ELSE IF MayFail THEN Outcomes
              ELSE Outcomes \ {"fail"}

\* upnp_event_send()
Send(b, r) == [b EXCEPT !.state = CASE r = "ok"    -> "EWaitingForResponse"
                                    [] r = "again" -> "ESending"
                                    [] r = "fail"  -> "EError"]

\* Mutant of Prepare: the values are those of the object's creation
PrepareOldValues(b) ==
    IF b.sub = NULL THEN [b EXCEPT !.state = "EError"]
    ELSE [b EXCEPT !.state = "ESending", !.seq = sub[b.sub].seq]

\* upnp_event_prepare(): the text is made from the state variables as they
\* are now and the subscriber's current sequence number
Prepare(b) ==
    IF b.sub = NULL THEN [b EXCEPT !.state = "EError"]
    ELSE [b EXCEPT !.state = "ESending",
                   !.seq = sub[b.sub].seq,
                   !.val = version[sub[b.sub].service]]

\* upnp_event_recv(): whatever was received, an end of file included, ends it
Recv(b, r) == [b EXCEPT !.state = CASE r = "ok"    -> "EFinished"
                                    [] r = "again" -> "EWaitingForResponse"
                                    [] r = "fail"  -> "EError"]

\* upnp_event_process_notify()
ProcessNotify(b, r) ==
    CASE b.state = "EConnecting" ->
            IF r = "fail" \/ b.sub = NULL THEN [b EXCEPT !.state = "EError"]
            ELSE Send(Prepare(b), r)
      [] b.state = "ESending" -> Send(b, r)
      [] b.state = "EWaitingForResponse" -> Recv(b, r)
      [] OTHER -> b

\* sub->seq++ in upnp_event_recv(), on an uint32_t
SeqNext(seq) == (seq + 1) % SeqMod

\* Mutant of Unlink: the subscriber keeps its pointer to the freed object
UnlinkForgotten(b) == b

\* obj->sub->notify = NULL in the reaping loop
Unlink(b) == [b EXCEPT !.notify = NULL]

\* Mutant of TimedOut: the test on notify is made before the reaping loop
TimedOutBeforeReaping(s, b) == Expired(s) /\ sub[s].notify = NULL

\* The test of the last loop of upnpevents_processfds(), on the subscriber as
\* the reaping loop left it
TimedOut(s, b) == Expired(s) /\ b.notify = NULL

\* First loop of upnpevents_processfds(): every ready object advances
Done(o, answer) == IF o \in readyfds THEN ProcessNotify(obj[o], answer[o])
                                     ELSE obj[o]

\* ... upnp_event_recv() finished the notification of s
Got(s, answer) == {o \in readyfds : /\ Done(o, answer).sub = s
                                    /\ Done(o, answer).state = "EFinished"}

\* ... upnp_event_prepare() read the state variables for s
Reads(s, answer) == \E o \in readyfds : /\ obj[o].state = "EConnecting"
                                        /\ Done(o, answer).sub = s
                                        /\ Done(o, answer).state # "EError"

\* Second loop: the objects that are freed, the subscribers they belonged to,
\* and the subscribers freed with them because of an error
Reaped(answer) == {o \in notifylist :
                      Done(o, answer).state \in {"EFinished", "EError"}}
Ended(answer)  == {Done(o, answer).sub : o \in Reaped(answer)}
Failed(answer) == {Done(o, answer).sub :
                      o \in {p \in Reaped(answer) : Done(p, answer).state = "EError"}}

\* A subscriber after the first two loops
After(s, answer) ==
    LET heard == IF Got(s, answer) # {} THEN [sub[s] EXCEPT !.seq = SeqNext(@)]
                                        ELSE sub[s]
    IN  IF s \in Ended(answer) THEN Unlink(heard) ELSE heard

\* Third loop: the subscribers that stay
Kept(answer) == {s \in subscriberlist \ Failed(answer) :
                    ~TimedOut(s, After(s, answer))}

\* upnpevents_processfds()
ProcessFds(answer) ==
    /\ phase = "process"
    /\ \A o \in readyfds : answer[o] \in Answers(o)
    /\ notifylist' = notifylist \ Reaped(answer)
    /\ obj' = [o \in NotifyAddrs |-> IF o \in Reaped(answer) THEN FreedNotify
                                                           ELSE Done(o, answer)]
    /\ net' = [o \in NotifyAddrs |-> IF o \in Reaped(answer) THEN "closed"
                                                           ELSE net[o]]
    /\ subscriberlist' = Kept(answer)
    /\ sub' = [s \in SubAddrs |-> IF s \in Kept(answer) THEN After(s, answer)
                                                      ELSE FreedSubscriber]
    /\ delivered' = [s \in SubAddrs |->
           IF s \notin Kept(answer) THEN 0
           ELSE IF Got(s, answer) # {}
                THEN obj[CHOOSE o \in Got(s, answer) : TRUE].val
           ELSE delivered[s]]
    /\ missed' = [s \in SubAddrs |->
           s \in Kept(answer) /\ missed[s] /\ ~Reads(s, answer)]
    /\ readyfds' = {}
    /\ phase' = "dispatch"
    /\ UNCHANGED <<now, version>>

\* The other handlers of the iteration are done
NextIteration ==
    /\ phase = "dispatch"
    /\ phase' = "top"
    /\ UNCHANGED <<subscriberlist, sub, notifylist, obj, net, readyfds, now,
                   version, delivered, missed>>

-----------------------------------------------------------------------------
(***************************************************************************)
(* The environment: the subscribers' hosts, the network and the clock.     *)
(***************************************************************************)
Peer(o, from, to) ==
    /\ o \in notifylist
    /\ net[o] \in from
    /\ net' = [net EXCEPT ![o] = to]
    /\ UNCHANGED <<phase, subscriberlist, sub, notifylist, obj, readyfds, now,
                   version, delivered, missed>>

PeerAccepts(o) == Peer(o, {"connecting"}, "connected")
PeerRefuses(o) == Peer(o, {"connecting"}, "refused")
\* bytes or an end of file
PeerAnswers(o) == Peer(o, {"connected"}, "answered")
PeerResets(o)  == Peer(o, {"connected", "answered"}, "reset")

Tick ==
    /\ now < MaxTime
    /\ now' = now + 1
    /\ UNCHANGED <<phase, subscriberlist, sub, notifylist, obj, net, readyfds,
                   version, delivered, missed>>

-----------------------------------------------------------------------------
Init ==
    /\ phase = "top"
    /\ subscriberlist = {}
    /\ sub = [s \in SubAddrs |-> FreedSubscriber]
    /\ notifylist = {}
    /\ obj = [o \in NotifyAddrs |-> FreedNotify]
    /\ net = [o \in NotifyAddrs |-> "closed"]
    /\ readyfds = {}
    /\ now = 0
    /\ version = [s \in Services |-> 0]
    /\ delivered = [s \in SubAddrs |-> 0]
    /\ missed = [s \in SubAddrs |-> FALSE]

Requests ==
    \/ \E s \in SubAddrs, service \in Services, t \in Timeouts :
           AddSubscriber(s, service, t)
    \/ \E s \in SubAddrs, t \in Timeouts : RenewSubscription(s, t)
    \/ \E s \in SubAddrs : RemoveSubscriber(s)
    \/ \E service \in Services, changed \in BOOLEAN : VarChange(service, changed)

Process == \E answer \in [readyfds -> Outcomes] : ProcessFds(answer)

Loop ==
    \/ \E failed \in SUBSET NotifyAddrs : SelectFds(failed)
    \/ SelectReturns
    \/ SelectInterrupted
    \/ Process
    \/ NextIteration

Environment ==
    \/ \E o \in NotifyAddrs : \/ PeerAccepts(o) \/ PeerRefuses(o)
                              \/ PeerAnswers(o) \/ PeerResets(o)
    \/ Tick

Next == Requests \/ Loop \/ Environment

Spec == Init /\ [][Next]_vars

(***************************************************************************)
(* Fairness.  One thread runs the loop, so each of its steps is taken once *)
(* it is due; select() has a timeout and signals do not come for ever; a   *)
(* connect() ends because the kernel gives up on it; a socket that select()*)
(* reports again and again does not answer EAGAIN every time.              *)
(***************************************************************************)
Advances(o) == \E answer \in [readyfds -> Outcomes] :
                   /\ o \in readyfds /\ answer[o] # "again"
                   /\ ProcessFds(answer)

LoopFairness ==
    /\ WF_vars(\E failed \in SUBSET NotifyAddrs : SelectFds(failed))
    /\ SF_vars(SelectReturns)
    /\ WF_vars(Process)
    /\ WF_vars(NextIteration)
    /\ \A o \in NotifyAddrs :
           /\ WF_vars(PeerAccepts(o) \/ PeerRefuses(o))
           /\ SF_vars(Advances(o))

\* The code sets no timeout on a response: that peers answer, close or reset
\* the connection is an assumption about them.
PeerFairness == \A o \in NotifyAddrs : WF_vars(PeerAnswers(o) \/ PeerResets(o))

FairSpec      == Spec /\ LoopFairness
FairPeersSpec == FairSpec /\ PeerFairness

-----------------------------------------------------------------------------
TypeOK ==
    /\ phase \in Phases
    /\ subscriberlist \subseteq SubAddrs
    /\ sub \in [SubAddrs -> Subscriber]
    /\ notifylist \subseteq NotifyAddrs
    /\ obj \in [NotifyAddrs -> Notify]
    /\ net \in [NotifyAddrs -> NetStates]
    /\ readyfds \subseteq notifylist
    /\ now \in 0 .. MaxTime
    /\ version \in [Services -> Versions]
    /\ delivered \in [SubAddrs -> Versions]
    /\ missed \in [SubAddrs -> BOOLEAN]

\* A notify object's sub pointer is NULL or points to a subscriber that is
\* still in the list and that points back: upnp_event_prepare(),
\* upnp_event_recv() and the reaping loop of upnpevents_processfds() never
\* reach a freed block, nor one that was handed out to somebody else.
NotifyPointsBack ==
    \A o \in notifylist :
        obj[o].sub # NULL => /\ obj[o].sub \in subscriberlist
                             /\ sub[obj[o].sub].notify = o

\* A subscriber's notify pointer is NULL or points to a live object of its
\* own: upnpevents_removeSubscriber() never writes into a freed object.
SubscriberPointsBack ==
    \A s \in subscriberlist :
        sub[s].notify # NULL => /\ sub[s].notify \in notifylist
                                /\ obj[sub[s].notify].sub = s

\* Every NOTIFY under way carries its subscription's current SEQ, so no two
\* messages of a subscription carry the same one and none is skipped.
SeqCarried ==
    \A o \in notifylist :
        Prepared(o) /\ obj[o].sub # NULL => obj[o].seq = sub[obj[o].sub].seq

\* The only way for a subscriber to be left with old values is a change that
\* came after upnp_event_prepare() had read the state variables and before
\* the answer, or a notify object that could not be created; while an object
\* is created or connecting, a change still goes out with it.
StaleOnlyIfMissed ==
    \A s \in subscriberlist :
        LET o == sub[s].notify
            current == version[sub[s].service]
        IN  \/ missed[s]
            \/ IF o = NULL THEN delivered[s] = current
               ELSE Prepared(o) => obj[o].val = current

\* A subscriber never hears an older value after a newer one.
NeverBackwards ==
    [][\A s \in subscriberlist \cap subscriberlist' :
           delivered'[s] >= delivered[s]]_vars

\* Every notification comes to an end and its object is freed.
NotifyEnds ==
    \A o \in NotifyAddrs : o \in notifylist ~> o \notin notifylist

\* An expired subscriber is removed, or renewed, even when changes keep giving
\* it new notifications.
ExpiredGoes ==
    \A s \in SubAddrs : (s \in subscriberlist /\ Expired(s))
                             ~> ~(s \in subscriberlist /\ Expired(s))

=============================================================================
