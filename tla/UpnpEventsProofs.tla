-------------------------- MODULE UpnpEventsProofs --------------------------
(***************************************************************************)
(* Proofs about UpnpEvents, for any number of subscribers, notify objects  *)
(* and services and any bounds.                                            *)
(***************************************************************************)
EXTENDS UpnpEvents, TLAPS

\* The inductive invariant: the pointers of the two lists mirror each other.
IInv == TypeOK /\ NotifyPointsBack /\ SubscriberPointsBack

-----------------------------------------------------------------------------
\* The contents given to a freed subscriber block, and to a freed notify
\* object, are well typed.
LEMMA FreedTypes == FreedSubscriber \in Subscriber /\ FreedNotify \in Notify
<1>1. FreedSubscriber.service \in Services
  BY ServicesAssumption DEF FreedSubscriber
<1> QED
  BY <1>1, SeqModAssumption, BoundsAssumption
  DEF FreedSubscriber, FreedNotify, Subscriber, Notify, NotifyStates, Versions

\* A step of upnp_event_process_notify() keeps an object well typed and never
\* changes which subscriber it belongs to.
LEMMA ProcessNotifyKeepsSub ==
  ASSUME TypeOK, NEW b \in Notify, NEW r \in Outcomes
  PROVE  ProcessNotify(b, r) \in Notify /\ ProcessNotify(b, r).sub = b.sub
<1>1. CASE b.state = "EConnecting"
  <2>1. CASE r = "fail" \/ b.sub = NULL
    BY <1>1, <2>1 DEF ProcessNotify, Notify, NotifyStates
  <2>2. CASE ~(r = "fail" \/ b.sub = NULL)
    <3>1. sub[b.sub] \in Subscriber
      BY <2>2 DEF TypeOK, Notify
    <3>2. Prepare(b) \in Notify /\ Prepare(b).sub = b.sub
      BY <2>2, <3>1 DEF TypeOK, Prepare, Notify, Subscriber, NotifyStates
    <3>3. Send(Prepare(b), r) \in Notify /\ Send(Prepare(b), r).sub = b.sub
      BY <2>2, <3>2 DEF Send, Notify, NotifyStates, Outcomes
    <3> QED BY <1>1, <2>2, <3>3 DEF ProcessNotify
  <2> QED BY <2>1, <2>2
<1>2. CASE b.state = "ESending"
  BY <1>2 DEF ProcessNotify, Send, Notify, NotifyStates, Outcomes
<1>3. CASE b.state = "EWaitingForResponse"
  BY <1>3 DEF ProcessNotify, Recv, Notify, NotifyStates, Outcomes
<1>4. CASE b.state \notin {"EConnecting", "ESending", "EWaitingForResponse"}
  BY <1>4 DEF ProcessNotify
<1> QED BY <1>1, <1>2, <1>3, <1>4

\* The same for every object, ready or not, in upnpevents_processfds().
LEMMA DoneKeepsSub ==
  ASSUME TypeOK, NEW answer \in [readyfds -> Outcomes], NEW o \in NotifyAddrs
  PROVE  Done(o, answer) \in Notify /\ Done(o, answer).sub = obj[o].sub
BY ProcessNotifyKeepsSub DEF Done, TypeOK

-----------------------------------------------------------------------------
\* The initial state has empty lists and satisfies the invariant.
LEMMA InitIInv == Init => IInv
BY FreedTypes, BoundsAssumption
DEF Init, IInv, TypeOK, NotifyPointsBack, SubscriberPointsBack, Phases,
    NetStates, Versions

\* upnp_event_create_notify() for a set of subscribers without a notification
\* keeps the lists well typed and their pointers mirrored. `subs' is the
\* contents of the subscriber blocks before it, `list' the subscribers.
LEMMA CreateNotifyPointers ==
  ASSUME TypeOK,
         NEW list \in SUBSET SubAddrs,
         NEW subs \in [SubAddrs -> Subscriber],
         NEW T \in SUBSET list,
         \A s \in T : subs[s].notify = NULL,
         \A o \in notifylist : obj[o].sub # NULL =>
             obj[o].sub \in list /\ subs[obj[o].sub].notify = o,
         \A s \in list : subs[s].notify # NULL =>
             subs[s].notify \in notifylist /\ obj[subs[s].notify].sub = s,
         NEW new \in Allocations(T),
         CreateNotify(new, subs),
         subscriberlist' = list
  PROVE  /\ sub' \in [SubAddrs -> Subscriber]
         /\ notifylist' \subseteq NotifyAddrs
         /\ notifylist \subseteq notifylist'
         /\ obj' \in [NotifyAddrs -> Notify]
         /\ net' \in [NotifyAddrs -> NetStates]
         /\ NotifyPointsBack'
         /\ SubscriberPointsBack'
<1> DEFINE created  == {new[s] : s \in DOMAIN new}
           owner(o) == CHOOSE s \in DOMAIN new : new[s] = o
<1>1. /\ DOMAIN new \subseteq T
      /\ \A s \in DOMAIN new : new[s] \in NotifyAddrs \ notifylist
      /\ \A s, t \in DOMAIN new : new[s] = new[t] => s = t
  BY DEF Allocations, FreeNotifyAddrs
<1>2. \A s \in DOMAIN new : owner(new[s]) = s
  BY <1>1
<1>3. \A o \in created : /\ owner(o) \in DOMAIN new
                         /\ new[owner(o)] = o
                         /\ o \in NotifyAddrs \ notifylist
  BY <1>1, <1>2
<1>4. /\ notifylist' = notifylist \cup created
      /\ obj' = [o \in NotifyAddrs |->
                    IF o \in created THEN NewNotify(owner(o)) ELSE obj[o]]
      /\ net' = [o \in NotifyAddrs |->
                    IF o \in created THEN "idle" ELSE net[o]]
      /\ sub' = [s \in SubAddrs |->
                    IF s \in DOMAIN new THEN [subs[s] EXCEPT !.notify = new[s]]
                                        ELSE subs[s]]
  BY DEF CreateNotify
<1> HIDE DEF created, owner
<1>5. sub' \in [SubAddrs -> Subscriber]
  <2> SUFFICES ASSUME NEW s \in SubAddrs
               PROVE  (IF s \in DOMAIN new THEN [subs[s] EXCEPT !.notify = new[s]]
                                           ELSE subs[s]) \in Subscriber
    BY <1>4
  <2> QED BY <1>1 DEF Subscriber
<1>6. obj' \in [NotifyAddrs -> Notify]
  <2> SUFFICES ASSUME NEW o \in NotifyAddrs
               PROVE  (IF o \in created THEN NewNotify(owner(o)) ELSE obj[o])
                          \in Notify
    BY <1>4
  <2> QED BY <1>1, <1>3, SeqModAssumption, BoundsAssumption
          DEF TypeOK, Notify, NewNotify, NotifyStates, Versions
<1>7. net' \in [NotifyAddrs -> NetStates]
  BY <1>4 DEF TypeOK, NetStates
<1>8. notifylist' \subseteq NotifyAddrs /\ notifylist \subseteq notifylist'
  BY <1>3, <1>4 DEF TypeOK
<1>9. NotifyPointsBack'
  <2> SUFFICES ASSUME NEW o \in notifylist', obj'[o].sub # NULL
               PROVE  obj'[o].sub \in list /\ sub'[obj'[o].sub].notify = o
    BY DEF NotifyPointsBack
  <2>1. CASE o \in created
    <3>1. obj'[o].sub = owner(o)
      BY <1>3, <1>4, <2>1 DEF NewNotify
    <3>2. owner(o) \in DOMAIN new /\ owner(o) \in SubAddrs /\ new[owner(o)] = o
      BY <1>1, <1>3, <2>1
    <3>3. sub'[owner(o)].notify = o
      BY <1>4, <3>2 DEF Subscriber
    <3> QED BY <1>1, <3>1, <3>2, <3>3
  <2>2. CASE o \notin created
    <3>1. o \in notifylist /\ obj'[o] = obj[o]
      BY <1>4, <2>2 DEF TypeOK
    <3>2. obj[o].sub \in list /\ subs[obj[o].sub].notify = o /\ o # NULL
      BY <3>1, NullAssumption DEF TypeOK
    <3>3. obj[o].sub \notin DOMAIN new
      BY <1>1, <3>2
    <3> QED BY <1>4, <3>1, <3>2, <3>3
  <2> QED BY <2>1, <2>2
<1>10. SubscriberPointsBack'
  <2> SUFFICES ASSUME NEW s \in list, sub'[s].notify # NULL
               PROVE  /\ sub'[s].notify \in notifylist'
                      /\ obj'[sub'[s].notify].sub = s
    BY DEF SubscriberPointsBack
  <2>1. CASE s \in DOMAIN new
    <3>1. sub'[s].notify = new[s]
      BY <1>4, <2>1 DEF Subscriber
    <3>2. new[s] \in created /\ new[s] \in NotifyAddrs
      BY <1>1, <2>1 DEF created
    <3>3. owner(new[s]) = s
      BY <1>2, <2>1
    <3> QED BY <1>4, <3>1, <3>2, <3>3 DEF NewNotify
  <2>2. CASE s \notin DOMAIN new
    <3>1. sub'[s] = subs[s]
      BY <1>4, <2>2
    <3>2. subs[s].notify \in notifylist /\ obj[subs[s].notify].sub = s
      BY <3>1
    <3>3. subs[s].notify \notin created /\ subs[s].notify \in NotifyAddrs
      BY <1>3, <3>2 DEF TypeOK
    <3>4. obj'[subs[s].notify] = obj[subs[s].notify]
      BY <1>4, <3>3
    <3>5. sub'[s].notify = subs[s].notify
      BY <3>1
    <3>6. obj'[subs[s].notify].sub = s
      BY <3>2, <3>4
    <3> QED BY <1>8, <3>2, <3>5, <3>6
  <2> QED BY <2>1, <2>2
<1> QED BY <1>5, <1>6, <1>7, <1>8, <1>9, <1>10

\* SUBSCRIBE links the new subscriber to its first notification.
LEMMA AddSubscriberIInv ==
  ASSUME IInv, NEW s \in SubAddrs, NEW service \in Services,
         NEW timeout \in Timeouts, AddSubscriber(s, service, timeout)
  PROVE  IInv'
<1> DEFINE fresh == [notify |-> NULL, timeout |-> Deadline(timeout),
                     seq |-> 0, service |-> service]
           subs  == [sub EXCEPT ![s] = fresh]
<1>1. PICK new \in Allocations({s}) : CreateNotify(new, subs)
  BY DEF AddSubscriber
<1>2. fresh \in Subscriber
  BY TimeoutsAssumption, SeqModAssumption, BoundsAssumption
  DEF IInv, TypeOK, Subscriber, Deadline
<1>3. /\ subs \in [SubAddrs -> Subscriber]
      /\ subs[s].notify = NULL
      /\ \A t \in SubAddrs \ {s} : subs[t] = sub[t]
  BY <1>2 DEF IInv, TypeOK
<1>4. s \notin subscriberlist /\ subscriberlist' = subscriberlist \cup {s}
  BY DEF AddSubscriber
<1> HIDE DEF fresh, subs
<1>5. \A o \in notifylist : obj[o].sub # NULL =>
          /\ obj[o].sub \in subscriberlist \cup {s}
          /\ subs[obj[o].sub].notify = o
  BY <1>3, <1>4 DEF IInv, TypeOK, NotifyPointsBack
<1>6. \A t \in subscriberlist \cup {s} : subs[t].notify # NULL =>
          /\ subs[t].notify \in notifylist
          /\ obj[subs[t].notify].sub = t
  BY <1>3, <1>4 DEF IInv, TypeOK, SubscriberPointsBack
<1>7. /\ sub' \in [SubAddrs -> Subscriber]
      /\ notifylist' \subseteq NotifyAddrs
      /\ notifylist \subseteq notifylist'
      /\ obj' \in [NotifyAddrs -> Notify]
      /\ net' \in [NotifyAddrs -> NetStates]
      /\ NotifyPointsBack'
      /\ SubscriberPointsBack'
  <2>1. subscriberlist \cup {s} \in SUBSET SubAddrs
    BY DEF IInv, TypeOK
  <2>2. \A t \in {s} : subs[t].notify = NULL
    BY <1>3
  <2> QED BY <1>1, <1>3, <1>4, <1>5, <1>6, <2>1, <2>2, CreateNotifyPointers DEF IInv
<1>8. missed' \in [SubAddrs -> BOOLEAN] /\ delivered' \in [SubAddrs -> Versions]
  BY BoundsAssumption DEF AddSubscriber, IInv, TypeOK, Versions
<1>9. TypeOK'
  BY <1>4, <1>7, <1>8 DEF AddSubscriber, IInv, TypeOK
<1> QED BY <1>7, <1>9 DEF IInv

\* A change creates a notification only for subscribers that have none.
LEMMA VarChangeIInv ==
  ASSUME IInv, NEW service \in Services, NEW changed \in BOOLEAN,
         VarChange(service, changed)
  PROVE  IInv'
<1>1. PICK new \in Allocations(ToNotify(service)) : CreateNotify(new, sub)
  BY DEF VarChange
<1>2. /\ ToNotify(service) \in SUBSET subscriberlist
      /\ \A s \in ToNotify(service) : sub[s].notify = NULL
  BY DEF ToNotify
<1>3. subscriberlist' = subscriberlist /\ subscriberlist \in SUBSET SubAddrs
  BY DEF VarChange, IInv, TypeOK
<1>4. sub \in [SubAddrs -> Subscriber]
  BY DEF IInv, TypeOK
<1>5. /\ sub' \in [SubAddrs -> Subscriber]
      /\ notifylist' \subseteq NotifyAddrs
      /\ notifylist \subseteq notifylist'
      /\ obj' \in [NotifyAddrs -> Notify]
      /\ net' \in [NotifyAddrs -> NetStates]
      /\ NotifyPointsBack'
      /\ SubscriberPointsBack'
  <2>1. \A o \in notifylist : obj[o].sub # NULL =>
            obj[o].sub \in subscriberlist /\ sub[obj[o].sub].notify = o
    BY DEF IInv, NotifyPointsBack
  <2>2. \A s \in subscriberlist : sub[s].notify # NULL =>
            sub[s].notify \in notifylist /\ obj[sub[s].notify].sub = s
    BY DEF IInv, SubscriberPointsBack
  <2> QED BY <1>1, <1>2, <1>3, <1>4, <2>1, <2>2, CreateNotifyPointers DEF IInv
<1>6. version' \in [Services -> Versions]
  <2>1. CASE changed
    BY <2>1, BoundsAssumption DEF VarChange, IInv, TypeOK, Versions
  <2>2. CASE ~changed
    BY <2>2 DEF VarChange, IInv, TypeOK
  <2> QED BY <2>1, <2>2
<1>7. missed' \in [SubAddrs -> BOOLEAN]
  BY Zenon DEF VarChange, IInv, TypeOK
<1>8. TypeOK'
  BY <1>3, <1>5, <1>6, <1>7 DEF VarChange, IInv, TypeOK
<1> QED BY <1>5, <1>8 DEF IInv

\* UNSUBSCRIBE takes the pointer out of the notification it leaves behind.
LEMMA RemoveSubscriberIInv ==
  ASSUME IInv, NEW s \in SubAddrs, RemoveSubscriber(s)
  PROVE  IInv'
<1>1. /\ subscriberlist' = subscriberlist \ {s}
      /\ obj' = Detach(s)
      /\ sub' = [sub EXCEPT ![s] = FreedSubscriber]
      /\ notifylist' = notifylist
  BY DEF RemoveSubscriber
<1>2. \A o \in NotifyAddrs :
          /\ obj'[o] \in Notify
          /\ obj'[o].sub = IF o = sub[s].notify THEN NULL ELSE obj[o].sub
  BY <1>1 DEF Detach, IInv, TypeOK, Notify
<1>3. TypeOK'
  <2>1. obj' \in [NotifyAddrs -> Notify]
    BY <1>1, <1>2 DEF Detach
  <2>2. sub' \in [SubAddrs -> Subscriber]
    BY <1>1, FreedTypes DEF IInv, TypeOK
  <2> QED BY <1>1, <2>1, <2>2, BoundsAssumption
          DEF RemoveSubscriber, IInv, TypeOK, Versions
<1>4. NotifyPointsBack'
  <2> SUFFICES ASSUME NEW o \in notifylist', obj'[o].sub # NULL
               PROVE  /\ obj'[o].sub \in subscriberlist'
                      /\ sub'[obj'[o].sub].notify = o
    BY DEF NotifyPointsBack
  <2>1. o \in notifylist /\ o \in NotifyAddrs
    BY <1>1 DEF IInv, TypeOK
  <2>2. o # sub[s].notify /\ obj'[o].sub = obj[o].sub
    BY <1>2, <2>1
  <2>3. obj[o].sub \in subscriberlist /\ sub[obj[o].sub].notify = o
    BY <2>1, <2>2 DEF IInv, NotifyPointsBack
  <2>4. obj[o].sub # s
    BY <2>2, <2>3
  <2> QED BY <1>1, <2>2, <2>3, <2>4 DEF IInv, TypeOK
<1>5. SubscriberPointsBack'
  <2> SUFFICES ASSUME NEW t \in subscriberlist', sub'[t].notify # NULL
               PROVE  /\ sub'[t].notify \in notifylist'
                      /\ obj'[sub'[t].notify].sub = t
    BY DEF SubscriberPointsBack
  <2>1. t \in subscriberlist /\ t # s /\ sub'[t] = sub[t]
    BY <1>1 DEF IInv, TypeOK
  <2>2. sub[t].notify \in notifylist /\ obj[sub[t].notify].sub = t
    BY <2>1 DEF IInv, SubscriberPointsBack
  <2>3. sub[t].notify \in NotifyAddrs /\ sub[t].notify # NULL
    BY <2>2, NullAssumption DEF IInv, TypeOK
  <2>4. sub[t].notify # sub[s].notify
    <3>1. s \in subscriberlist
      BY DEF RemoveSubscriber
    <3> QED BY <2>1, <2>2, <2>3, <3>1 DEF IInv, SubscriberPointsBack
  <2>5. obj'[sub[t].notify].sub = t
    BY <1>2, <2>2, <2>3, <2>4
  <2> QED BY <1>1, <2>1, <2>2, <2>5
<1> QED BY <1>3, <1>4, <1>5 DEF IInv

\* upnpevents_selectfds() moves objects to another state and nothing else.
LEMMA SelectFdsIInv ==
  ASSUME IInv, NEW failed \in SUBSET NotifyAddrs, SelectFds(failed)
  PROVE  IInv'
<1>1. \A o \in NotifyAddrs : obj'[o] \in Notify /\ obj'[o].sub = obj[o].sub
  BY DEF SelectFds, NotifyConnect, IInv, TypeOK, Notify, NotifyStates
<1>2. TypeOK'
  <2>1. obj' \in [NotifyAddrs -> Notify]
    BY <1>1 DEF SelectFds
  <2>2. net' \in [NotifyAddrs -> NetStates]
    BY DEF SelectFds, IInv, TypeOK, NetStates
  <2> QED BY <2>1, <2>2 DEF SelectFds, IInv, TypeOK, Phases
<1>3. /\ subscriberlist' = subscriberlist
      /\ sub' = sub
      /\ notifylist' = notifylist
  BY DEF SelectFds
<1>4. NotifyPointsBack'
  BY <1>1, <1>3 DEF IInv, TypeOK, NotifyPointsBack
<1>5. SubscriberPointsBack'
  BY <1>1, <1>3 DEF IInv, TypeOK, SubscriberPointsBack
<1> QED BY <1>2, <1>4, <1>5 DEF IInv

\* Two objects in the list never belong to the same subscriber.
LEMMA OneObjectPerSubscriber ==
  ASSUME IInv, NEW o \in notifylist, NEW p \in notifylist,
         obj[o].sub = obj[p].sub, obj[o].sub # NULL
  PROVE  o = p
BY DEF IInv, NotifyPointsBack

\* The fields of a subscriber after the first two loops of
\* upnpevents_processfds().
LEMMA AfterFields ==
  ASSUME TypeOK, NEW answer \in [readyfds -> Outcomes], NEW s \in SubAddrs
  PROVE  /\ After(s, answer) \in Subscriber
         /\ After(s, answer).notify =
               IF s \in Ended(answer) THEN NULL ELSE sub[s].notify
         /\ After(s, answer).service = sub[s].service
         /\ After(s, answer).seq =
               IF Got(s, answer) # {} THEN SeqNext(sub[s].seq) ELSE sub[s].seq
<1>1. sub[s] \in Subscriber
  BY DEF TypeOK
<1>2. SeqNext(sub[s].seq) \in 0 .. SeqMod - 1
  BY <1>1, SeqModAssumption DEF Subscriber, SeqNext
<1> QED BY <1>1, <1>2 DEF After, Unlink, Subscriber

\* upnpevents_processfds() frees an object only after its subscriber's pointer
\* is cleared, and a subscriber only when no object is left pointing to it.
LEMMA ProcessFdsIInv ==
  ASSUME IInv, NEW answer \in [readyfds -> Outcomes], ProcessFds(answer)
  PROVE  IInv'
<1>1. \A o \in NotifyAddrs :
          Done(o, answer) \in Notify /\ Done(o, answer).sub = obj[o].sub
  BY DoneKeepsSub DEF IInv
<1>2. /\ notifylist' = notifylist \ Reaped(answer)
      /\ obj' = [o \in NotifyAddrs |->
                    IF o \in Reaped(answer) THEN FreedNotify ELSE Done(o, answer)]
      /\ subscriberlist' = Kept(answer)
      /\ sub' = [s \in SubAddrs |->
                    IF s \in Kept(answer) THEN After(s, answer) ELSE FreedSubscriber]
  BY DEF ProcessFds
<1>3. /\ notifylist' \subseteq NotifyAddrs
      /\ Kept(answer) \subseteq subscriberlist
      /\ subscriberlist \subseteq SubAddrs
      /\ notifylist \subseteq NotifyAddrs
      /\ readyfds \subseteq notifylist
  BY <1>2 DEF Kept, IInv, TypeOK
<1>4. TypeOK'
  <2>1. obj' \in [NotifyAddrs -> Notify]
    BY <1>1, <1>2, FreedTypes
  <2>2. sub' \in [SubAddrs -> Subscriber]
    <3>1. \A s \in SubAddrs : After(s, answer) \in Subscriber
      BY AfterFields DEF IInv
    <3> QED BY <1>2, <3>1, FreedTypes
  <2>3. net' \in [NotifyAddrs -> NetStates]
    BY DEF ProcessFds, IInv, TypeOK, NetStates
  <2>4. delivered' \in [SubAddrs -> Versions]
    <3> SUFFICES ASSUME NEW s \in SubAddrs
                 PROVE  (IF s \notin Kept(answer) THEN 0
                         ELSE IF Got(s, answer) # {}
                              THEN obj[CHOOSE o \in Got(s, answer) : TRUE].val
                         ELSE delivered[s]) \in Versions
      BY DEF ProcessFds
    <3>1. ASSUME Got(s, answer) # {}
          PROVE  obj[CHOOSE o \in Got(s, answer) : TRUE] \in Notify
      <4>1. (CHOOSE o \in Got(s, answer) : TRUE) \in Got(s, answer)
        BY <3>1
      <4>2. (CHOOSE o \in Got(s, answer) : TRUE) \in NotifyAddrs
        BY <1>3, <4>1 DEF Got
      <4> QED BY <4>2 DEF IInv, TypeOK
    <3> QED BY <3>1, BoundsAssumption DEF IInv, TypeOK, Notify, Versions
  <2>5. missed' \in [SubAddrs -> BOOLEAN]
    BY Zenon DEF ProcessFds, IInv, TypeOK
  <2>6. phase' \in Phases /\ readyfds' = {} /\ now' = now /\ version' = version
    BY DEF ProcessFds, Phases
  <2> QED BY <1>2, <1>3, <2>1, <2>2, <2>3, <2>4, <2>5, <2>6 DEF IInv, TypeOK
<1>5. NotifyPointsBack'
  <2> SUFFICES ASSUME NEW o \in notifylist', obj'[o].sub # NULL
               PROVE  /\ obj'[o].sub \in subscriberlist'
                      /\ sub'[obj'[o].sub].notify = o
    BY DEF NotifyPointsBack
  <2> DEFINE s == obj[o].sub
  <2>1. /\ o \in notifylist /\ o \in NotifyAddrs /\ o \notin Reaped(answer)
        /\ obj'[o].sub = s
    BY <1>1, <1>2, <1>3
  <2>2. s \in subscriberlist /\ s \in SubAddrs /\ sub[s].notify = o
    BY <1>3, <2>1 DEF IInv, NotifyPointsBack
  <2>3. s \notin Ended(answer)
    <3> SUFFICES ASSUME NEW p \in Reaped(answer), Done(p, answer).sub = s
                 PROVE  FALSE
      BY DEF Ended
    <3>1. p \in notifylist /\ obj[p].sub = s
      BY <1>1, <1>3 DEF Reaped
    <3>2. p = o
      BY <2>1, <3>1, OneObjectPerSubscriber
    <3> QED BY <2>1, <3>2
  <2>4. s \notin Failed(answer)
    BY <2>3 DEF Failed, Ended
  <2>5. After(s, answer).notify = o /\ o # NULL
    BY <2>1, <2>2, <2>3, AfterFields, NullAssumption DEF IInv
  <2>6. s \in Kept(answer)
    BY <2>2, <2>4, <2>5 DEF Kept, TimedOut
  <2> QED BY <1>2, <2>1, <2>2, <2>5, <2>6
<1>6. SubscriberPointsBack'
  <2> SUFFICES ASSUME NEW s \in subscriberlist', sub'[s].notify # NULL
               PROVE  /\ sub'[s].notify \in notifylist'
                      /\ obj'[sub'[s].notify].sub = s
    BY DEF SubscriberPointsBack
  <2>1. /\ s \in subscriberlist /\ s \in SubAddrs
        /\ sub'[s] = After(s, answer)
    BY <1>2, <1>3
  <2>2. s \notin Ended(answer) /\ sub'[s].notify = sub[s].notify
    BY <2>1, AfterFields DEF IInv
  <2> DEFINE o == sub[s].notify
  <2>3. o \in notifylist /\ o \in NotifyAddrs /\ obj[o].sub = s
    BY <1>3, <2>1, <2>2 DEF IInv, SubscriberPointsBack
  <2>4. o \notin Reaped(answer)
    BY <1>1, <2>2, <2>3 DEF Ended
  <2>5. obj'[o].sub = s
    BY <1>1, <1>2, <2>3, <2>4
  <2> QED BY <1>2, <2>2, <2>3, <2>4, <2>5
<1> QED BY <1>4, <1>5, <1>6 DEF IInv

\* Every step of the loop, of the requests and of the peers preserves it.
LEMMA NextIInv == IInv /\ [Next]_vars => IInv'
<1> SUFFICES ASSUME IInv, [Next]_vars PROVE IInv'
  OBVIOUS
<1>1. ASSUME NEW s \in SubAddrs, NEW service \in Services, NEW timeout \in Timeouts,
             AddSubscriber(s, service, timeout)
      PROVE  IInv'
  BY <1>1, AddSubscriberIInv
<1>2. ASSUME NEW s \in SubAddrs, NEW timeout \in Timeouts,
             RenewSubscription(s, timeout)
      PROVE  IInv'
  <2>1. \A t \in SubAddrs : sub'[t] \in Subscriber /\ sub'[t].notify = sub[t].notify
    BY <1>2, TimeoutsAssumption
    DEF RenewSubscription, Deadline, IInv, TypeOK, Subscriber
  <2>2. /\ subscriberlist' = subscriberlist
        /\ notifylist' = notifylist
        /\ obj' = obj
    BY <1>2 DEF RenewSubscription
  <2>3. TypeOK'
    <3>1. sub' \in [SubAddrs -> Subscriber]
      BY <1>2, <2>1 DEF RenewSubscription, IInv, TypeOK
    <3> QED BY <1>2, <3>1 DEF RenewSubscription, IInv, TypeOK
  <2>4. NotifyPointsBack' /\ SubscriberPointsBack'
    BY <2>1, <2>2 DEF IInv, TypeOK, NotifyPointsBack, SubscriberPointsBack
  <2> QED BY <2>3, <2>4 DEF IInv
<1>3. ASSUME NEW s \in SubAddrs, RemoveSubscriber(s)
      PROVE  IInv'
  BY <1>3, RemoveSubscriberIInv
<1>4. ASSUME NEW service \in Services, NEW changed \in BOOLEAN,
             VarChange(service, changed)
      PROVE  IInv'
  BY <1>4, VarChangeIInv
<1>5. ASSUME NEW failed \in SUBSET NotifyAddrs, SelectFds(failed)
      PROVE  IInv'
  BY <1>5, SelectFdsIInv
<1>6. CASE SelectReturns
  BY <1>6 DEF SelectReturns, IInv, TypeOK, Phases, NotifyPointsBack,
              SubscriberPointsBack
<1>7. CASE SelectInterrupted
  BY <1>7 DEF SelectInterrupted, IInv, TypeOK, Phases, NotifyPointsBack,
              SubscriberPointsBack
<1>8. CASE Process
  BY <1>8, ProcessFdsIInv DEF Process
<1>9. CASE NextIteration
  BY <1>9 DEF NextIteration, IInv, TypeOK, Phases, NotifyPointsBack,
              SubscriberPointsBack
<1>10. ASSUME NEW o \in NotifyAddrs, NEW from, NEW to \in NetStates, Peer(o, from, to)
       PROVE  IInv'
  BY <1>10 DEF Peer, IInv, TypeOK, NotifyPointsBack, SubscriberPointsBack
<1>11. CASE \E o \in NotifyAddrs : \/ PeerAccepts(o) \/ PeerRefuses(o)
                                   \/ PeerAnswers(o) \/ PeerResets(o)
  BY <1>10, <1>11
  DEF PeerAccepts, PeerRefuses, PeerAnswers, PeerResets, NetStates
<1>12. CASE Tick
  BY <1>12, BoundsAssumption
  DEF Tick, IInv, TypeOK, NotifyPointsBack, SubscriberPointsBack
<1>13. CASE UNCHANGED vars
  BY <1>13 DEF vars, IInv, TypeOK, NotifyPointsBack, SubscriberPointsBack
<1> QED
  BY <1>1, <1>2, <1>3, <1>4, <1>5, <1>6, <1>7, <1>8, <1>9, <1>11, <1>12, <1>13
  DEF Next, Requests, Loop, Environment

\* The state of the event publisher always has its type.
THEOREM TypeCorrect == Spec => []TypeOK
<1>1. IInv => TypeOK
  BY DEF IInv
<1> QED BY InitIInv, NextIInv, <1>1, PTL DEF Spec

\* No notify object ever points to a subscriber that was freed, or to one that
\* does not point back (upnp_event_prepare(), upnp_event_recv() and the
\* reaping loop follow that pointer).
THEOREM NotifyPointersSafe == Spec => []NotifyPointsBack
<1>1. IInv => NotifyPointsBack
  BY DEF IInv
<1> QED BY InitIInv, NextIInv, <1>1, PTL DEF Spec

\* No subscriber ever points to a notify object that was freed or that belongs
\* to another (upnpevents_removeSubscriber() writes through that pointer).
THEOREM SubscriberPointersSafe == Spec => []SubscriberPointsBack
<1>1. IInv => SubscriberPointsBack
  BY DEF IInv
<1> QED BY InitIInv, NextIInv, <1>1, PTL DEF Spec

-----------------------------------------------------------------------------
\* A notification that is finished is freed in the same call.
NoneFinished == \A o \in notifylist : obj[o].state # "EFinished"

\* What a subscriber heard is no newer than what is under way to it, and that
\* no newer than the state variables.
DeliveredInOrder ==
    \A s \in subscriberlist :
        LET o == sub[s].notify
            current == version[sub[s].service]
        IN  /\ delivered[s] <= current
            /\ o # NULL /\ Prepared(o) => /\ delivered[s] <= obj[o].val
                                          /\ obj[o].val <= current

\* The inductive invariant about what the notifications carry.
CInv == IInv /\ NoneFinished /\ SeqCarried /\ DeliveredInOrder /\ StaleOnlyIfMissed

\* The same for one subscriber, whose object carries `seq' and `val' once it
\* is prepared.
Consistent(s) ==
    LET o == sub[s].notify
        current == version[sub[s].service]
    IN  /\ delivered[s] <= current
        /\ missed[s] \/ o # NULL \/ delivered[s] = current
        /\ o # NULL /\ Prepared(o) =>
               /\ obj[o].seq = sub[s].seq
               /\ delivered[s] <= obj[o].val
               /\ obj[o].val <= current
               /\ missed[s] \/ obj[o].val = current

\* What the steps are shown to keep, stated for each subscriber alone
AllConsistent == NoneFinished /\ \A s \in subscriberlist : Consistent(s)

\* The invariant speaks of each subscriber alone: the pointers mirror each
\* other, so that no object is anybody else's.
LEMMA CInvIsConsistent == IInv => (CInv <=> AllConsistent)
<1> USE DEF AllConsistent
<1> SUFFICES ASSUME IInv PROVE CInv <=> AllConsistent
  OBVIOUS
<1>1. ASSUME CInv, NEW s \in subscriberlist PROVE Consistent(s)
  <2>1. CASE sub[s].notify = NULL
    BY <1>1, <2>1 DEF CInv, DeliveredInOrder, StaleOnlyIfMissed, Consistent
  <2>2. CASE sub[s].notify # NULL
    <3>1. sub[s].notify \in notifylist /\ obj[sub[s].notify].sub = s /\ s # NULL
      BY <2>2, NullAssumption DEF IInv, TypeOK, SubscriberPointsBack
    <3> QED
      BY <1>1, <2>2, <3>1
      DEF CInv, SeqCarried, DeliveredInOrder, StaleOnlyIfMissed, Consistent
  <2> QED BY <2>1, <2>2
<1>2. ASSUME NoneFinished, \A s \in subscriberlist : Consistent(s) PROVE CInv
  <2>1. SeqCarried
    BY <1>2, NullAssumption
    DEF IInv, TypeOK, NotifyPointsBack, SeqCarried, Consistent
  <2>2. DeliveredInOrder /\ StaleOnlyIfMissed
    BY <1>2 DEF DeliveredInOrder, StaleOnlyIfMissed, Consistent
  <2> QED BY <1>2, <2>1, <2>2 DEF CInv
<1>3. CInv => NoneFinished
  BY DEF CInv
<1> QED BY <1>1, <1>2, <1>3

\* The same in the state after a step.
\* The invariant speaks of each subscriber alone: the pointers mirror each
\* other, so that no object is anybody else's.
LEMMA CInvIsConsistentNext == IInv' => (CInv' <=> AllConsistent')
BY CInvIsConsistent, PTL

\* A step that leaves a subscriber's block, its object and its service's state
\* variables alone leaves it consistent.
LEMMA ConsistentUntouched ==
  ASSUME NEW s \in subscriberlist, Consistent(s),
         sub'[s].notify = sub[s].notify, sub'[s].seq = sub[s].seq,
         version'[sub'[s].service] = version[sub[s].service],
         sub[s].notify # NULL => obj'[sub[s].notify] = obj[sub[s].notify],
         delivered'[s] = delivered[s], missed'[s] = missed[s]
  PROVE  Consistent(s)'
BY DEF Consistent, Prepared

\* upnp_event_create_notify() writes the new objects and the pointers to them
\* and nothing else.
LEMMA CreateNotifyContents ==
  ASSUME TypeOK, NEW T \in SUBSET SubAddrs,
         NEW subs \in [SubAddrs -> Subscriber],
         NEW new \in Allocations(T), CreateNotify(new, subs)
  PROVE  /\ DOMAIN new \subseteq T
         /\ \A o \in notifylist : obj'[o] = obj[o]
         /\ \A o \in notifylist' \ notifylist : obj'[o].state = "ECreated"
         /\ \A s \in DOMAIN new : /\ obj'[new[s]].state = "ECreated"
                                  /\ sub'[s] = [subs[s] EXCEPT !.notify = new[s]]
         /\ \A s \in SubAddrs \ DOMAIN new : sub'[s] = subs[s]
<1> DEFINE created  == {new[s] : s \in DOMAIN new}
           owner(o) == CHOOSE s \in DOMAIN new : new[s] = o
<1>1. /\ DOMAIN new \subseteq T
      /\ \A s \in DOMAIN new : new[s] \in NotifyAddrs \ notifylist
  BY DEF Allocations, FreeNotifyAddrs
<1>2. /\ notifylist' = notifylist \cup created
      /\ obj' = [o \in NotifyAddrs |->
                    IF o \in created THEN NewNotify(owner(o)) ELSE obj[o]]
      /\ sub' = [s \in SubAddrs |->
                    IF s \in DOMAIN new THEN [subs[s] EXCEPT !.notify = new[s]]
                                        ELSE subs[s]]
  BY DEF CreateNotify
<1>3. \A o \in created : o \in NotifyAddrs \ notifylist
  BY <1>1
<1>4. \A s \in DOMAIN new : new[s] \in created /\ s \in SubAddrs
  BY <1>1
<1> HIDE DEF created, owner
<1>5. \A o \in created : obj'[o].state = "ECreated"
  BY <1>2, <1>3 DEF NewNotify
<1>6. \A o \in notifylist : obj'[o] = obj[o]
  BY <1>2, <1>3 DEF TypeOK
<1> QED BY <1>1, <1>2, <1>4, <1>5, <1>6

-----------------------------------------------------------------------------
\* A new subscriber has heard nothing: it has an object that is not prepared,
\* or it missed its first notification.
LEMMA AddSubscriberCInv ==
  ASSUME CInv, IInv', NEW s \in SubAddrs, NEW service \in Services,
         NEW timeout \in Timeouts, AddSubscriber(s, service, timeout)
  PROVE  CInv'
<1> DEFINE fresh == [notify |-> NULL, timeout |-> Deadline(timeout),
                     seq |-> 0, service |-> service]
           subs  == [sub EXCEPT ![s] = fresh]
<1>0. /\ IInv /\ TypeOK /\ NoneFinished
      /\ \A t \in subscriberlist : Consistent(t)
  BY CInvIsConsistent DEF CInv, IInv, AllConsistent
<1>1. PICK new \in Allocations({s}) :
          CreateNotify(new, subs) /\ missed' = [missed EXCEPT ![s] = s \notin DOMAIN new]
  BY DEF AddSubscriber
<1>2. fresh \in Subscriber
  BY <1>0, TimeoutsAssumption, SeqModAssumption, BoundsAssumption
  DEF TypeOK, Subscriber, Deadline
<1>3. /\ subs \in [SubAddrs -> Subscriber]
      /\ \A t \in SubAddrs \ {s} : subs[t] = sub[t]
  BY <1>0, <1>2 DEF TypeOK
<1> HIDE DEF fresh, subs
<1>4. /\ DOMAIN new \subseteq {s}
      /\ \A o \in notifylist : obj'[o] = obj[o]
      /\ \A o \in notifylist' \ notifylist : obj'[o].state = "ECreated"
      /\ \A t \in DOMAIN new : /\ obj'[new[t]].state = "ECreated"
                               /\ sub'[t] = [subs[t] EXCEPT !.notify = new[t]]
      /\ \A t \in SubAddrs \ DOMAIN new : sub'[t] = subs[t]
  BY <1>0, <1>1, <1>3, CreateNotifyContents
<1>5. /\ s \notin subscriberlist /\ subscriberlist' = subscriberlist \cup {s}
      /\ delivered' = [delivered EXCEPT ![s] = 0]
      /\ version' = version
  BY DEF AddSubscriber
<1>6. NoneFinished'
  BY <1>0, <1>4 DEF NoneFinished
<1>7. ASSUME NEW t \in subscriberlist PROVE Consistent(t)'
  <2>1. t \in SubAddrs /\ t # s /\ sub'[t] = sub[t]
    BY <1>0, <1>3, <1>4, <1>5 DEF TypeOK
  <2>2. sub[t].notify # NULL => obj'[sub[t].notify] = obj[sub[t].notify]
    BY <1>0, <1>4 DEF IInv, SubscriberPointsBack
  <2>3. delivered'[t] = delivered[t] /\ missed'[t] = missed[t]
    BY <1>0, <1>1, <1>5, <2>1 DEF TypeOK
  <2> QED BY <1>0, <1>5, <2>1, <2>2, <2>3, ConsistentUntouched
<1>8. Consistent(s)'
  <2>1. delivered'[s] = 0 /\ version'[sub'[s].service] >= 0
    <3>1. sub'[s].service \in Services
      BY DEF IInv, TypeOK, Subscriber
    <3> QED BY <1>0, <1>5, <3>1 DEF TypeOK, Versions
  <2>2. CASE s \in DOMAIN new
    <3>1. sub'[s].notify = new[s] /\ new[s] # NULL
      <4>1. sub'[s].notify = new[s]
        BY <1>3, <1>4, <2>2 DEF Subscriber
      <4>2. new[s] # NULL
        BY <1>1, <2>2, NullAssumption DEF Allocations, FreeNotifyAddrs
      <4> QED BY <4>1, <4>2
    <3> QED BY <1>4, <2>1, <2>2, <3>1 DEF Consistent, Prepared
  <2>3. CASE s \notin DOMAIN new
    <3>1. sub'[s].notify = NULL
      BY <1>0, <1>4, <2>3 DEF subs, fresh, TypeOK
    <3>2. missed'[s]
      BY <1>0, <1>1, <2>3 DEF TypeOK
    <3> QED BY <2>1, <3>1, <3>2 DEF Consistent
  <2> QED BY <2>2, <2>3
<1> QED BY <1>5, <1>6, <1>7, <1>8, CInvIsConsistentNext DEF AllConsistent

\* A change reaches a subscriber without an object by a new object, one whose
\* object is not prepared by that object, and is missed by the others.
LEMMA VarChangeCInv ==
  ASSUME CInv, IInv', NEW service \in Services, NEW changed \in BOOLEAN,
         VarChange(service, changed)
  PROVE  CInv'
<1>0. /\ IInv /\ TypeOK /\ NoneFinished
      /\ \A t \in subscriberlist : Consistent(t)
  BY CInvIsConsistent DEF CInv, IInv, AllConsistent
<1>1. PICK new \in Allocations(ToNotify(service)) :
          /\ CreateNotify(new, sub)
          /\ missed' = [s \in SubAddrs |->
               \/ missed[s]
               \/ /\ changed
                  /\ s \in subscriberlist
                  /\ sub[s].service = service
                  /\ IF sub[s].notify = NULL THEN s \notin DOMAIN new
                                             ELSE Prepared(sub[s].notify)]
  BY DEF VarChange
<1>2. /\ ToNotify(service) \in SUBSET SubAddrs
      /\ sub \in [SubAddrs -> Subscriber]
  BY <1>0 DEF ToNotify, TypeOK
<1>3. /\ DOMAIN new \subseteq ToNotify(service)
      /\ \A o \in notifylist : obj'[o] = obj[o]
      /\ \A o \in notifylist' \ notifylist : obj'[o].state = "ECreated"
      /\ \A t \in DOMAIN new : /\ obj'[new[t]].state = "ECreated"
                               /\ sub'[t] = [sub[t] EXCEPT !.notify = new[t]]
      /\ \A t \in SubAddrs \ DOMAIN new : sub'[t] = sub[t]
  BY <1>0, <1>1, <1>2, CreateNotifyContents
<1>4. subscriberlist' = subscriberlist /\ delivered' = delivered
  BY DEF VarChange
<1>5. \A v \in Services :
          /\ version[v] \in Nat /\ version'[v] \in Nat
          /\ version'[v] = IF changed /\ v = service THEN version[v] + 1
                                                     ELSE version[v]
  BY <1>0 DEF VarChange, TypeOK, Versions
<1>6. NoneFinished'
  BY <1>0, <1>3 DEF NoneFinished
<1>7. ASSUME NEW s \in subscriberlist PROVE Consistent(s)'
  <2>1. /\ s \in SubAddrs /\ sub[s] \in Subscriber /\ sub[s].service \in Services
        /\ delivered[s] \in Nat
    BY <1>0 DEF TypeOK, Subscriber, Versions
  <2>2. CASE s \in DOMAIN new
    <3>1. sub'[s].notify = new[s] /\ sub'[s].service = sub[s].service
      BY <1>3, <2>1, <2>2 DEF Subscriber
    <3>2. new[s] # NULL
      BY <1>1, <2>2, NullAssumption DEF Allocations, FreeNotifyAddrs
    <3>3. obj'[new[s]].state = "ECreated"
      BY <1>3, <2>2
    <3>4. delivered[s] <= version'[sub[s].service]
      BY <1>0, <1>5, <2>1 DEF Consistent
    <3> QED BY <1>4, <3>1, <3>2, <3>3, <3>4 DEF Consistent, Prepared
  <2>3. CASE s \notin DOMAIN new
    <3>1. sub'[s] = sub[s]
      BY <1>3, <2>1, <2>3
    <3>2. sub[s].notify # NULL => obj'[sub[s].notify] = obj[sub[s].notify]
      BY <1>0, <1>3 DEF IInv, SubscriberPointsBack
    <3>3. CASE ~(changed /\ sub[s].service = service)
      <4>1. version'[sub[s].service] = version[sub[s].service]
        BY <1>5, <2>1, <3>3
      <4>2. missed'[s] = missed[s]
        <5>1. missed[s] \in BOOLEAN
          BY <1>0, <2>1 DEF TypeOK
        <5> QED BY <1>1, <2>1, <3>3, <5>1
      <4> QED BY <1>0, <1>4, <3>1, <3>2, <4>1, <4>2, ConsistentUntouched
    <3>4. CASE changed /\ sub[s].service = service
      <4>1. version'[sub[s].service] = version[sub[s].service] + 1
        BY <1>5, <2>1, <3>4
      <4>2. sub[s].notify = NULL => missed'[s]
        BY <1>1, <2>1, <2>3, <3>4
      <4>3. sub[s].notify # NULL /\ Prepared(sub[s].notify) => missed'[s]
        BY <1>1, <2>1, <3>4
      <4>4. sub[s].notify # NULL => obj[sub[s].notify].val \in Nat
        BY <1>0, <2>1 DEF TypeOK, Subscriber, Notify, Versions
      <4>5. delivered[s] <= version'[sub[s].service]
        BY <1>0, <1>5, <2>1, <4>1 DEF Consistent
      <4>6. ASSUME sub[s].notify # NULL, Prepared(sub[s].notify)
            PROVE  /\ obj'[sub[s].notify].seq = sub[s].seq
                   /\ delivered[s] <= obj'[sub[s].notify].val
                   /\ obj'[sub[s].notify].val <= version'[sub[s].service]
        BY <1>0, <1>5, <2>1, <3>2, <4>1, <4>4, <4>6 DEF Consistent
      <4> QED BY <1>4, <3>1, <3>2, <4>2, <4>3, <4>5, <4>6 DEF Consistent, Prepared
    <3> QED BY <3>3, <3>4
  <2> QED BY <2>2, <2>3
<1> QED BY <1>4, <1>6, <1>7, CInvIsConsistentNext DEF AllConsistent

\* The subscribers that stay do not notice that another one leaves.
LEMMA RemoveSubscriberCInv ==
  ASSUME CInv, IInv', NEW s \in SubAddrs, RemoveSubscriber(s)
  PROVE  CInv'
<1>0. /\ IInv /\ TypeOK /\ NoneFinished
      /\ \A t \in subscriberlist : Consistent(t)
  BY CInvIsConsistent DEF CInv, IInv, AllConsistent
<1>1. /\ s \in subscriberlist
      /\ subscriberlist' = subscriberlist \ {s}
      /\ obj' = Detach(s)
      /\ sub' = [sub EXCEPT ![s] = FreedSubscriber]
      /\ notifylist' = notifylist
      /\ version' = version
      /\ delivered' = [delivered EXCEPT ![s] = 0]
      /\ missed' = [missed EXCEPT ![s] = FALSE]
  BY DEF RemoveSubscriber
<1>2. \A o \in NotifyAddrs : obj'[o].state = obj[o].state
  BY <1>0, <1>1 DEF Detach, TypeOK, Notify
<1>3. \A o \in NotifyAddrs : o # sub[s].notify => obj'[o] = obj[o]
  BY <1>1 DEF Detach
<1>4. NoneFinished'
  BY <1>0, <1>1, <1>2 DEF NoneFinished, TypeOK
<1>5. ASSUME NEW t \in subscriberlist, t # s PROVE Consistent(t)'
  <2>1. /\ t \in SubAddrs /\ sub'[t] = sub[t]
        /\ delivered'[t] = delivered[t] /\ missed'[t] = missed[t]
    BY <1>0, <1>1, <1>5 DEF TypeOK
  <2>2. sub[t].notify # NULL => obj'[sub[t].notify] = obj[sub[t].notify]
    <3> SUFFICES ASSUME sub[t].notify # NULL
                 PROVE  obj'[sub[t].notify] = obj[sub[t].notify]
      OBVIOUS
    <3>1. sub[t].notify \in NotifyAddrs /\ obj[sub[t].notify].sub = t
      BY <1>0 DEF IInv, TypeOK, SubscriberPointsBack
    <3>2. sub[t].notify # sub[s].notify
      BY <1>0, <1>1, <1>5, <3>1, NullAssumption DEF IInv, SubscriberPointsBack
    <3> QED BY <1>3, <3>1, <3>2
  <2> QED BY <1>0, <1>1, <2>1, <2>2, ConsistentUntouched
<1> QED BY <1>1, <1>4, <1>5, CInvIsConsistentNext DEF AllConsistent

\* upnpevents_selectfds() prepares nothing: an object it moves is connecting.
LEMMA SelectFdsCInv ==
  ASSUME CInv, IInv', NEW failed \in SUBSET NotifyAddrs, SelectFds(failed)
  PROVE  CInv'
<1>0. /\ IInv /\ TypeOK /\ NoneFinished
      /\ \A t \in subscriberlist : Consistent(t)
  BY CInvIsConsistent DEF CInv, IInv, AllConsistent
<1>1. \A o \in NotifyAddrs :
          \/ obj'[o] = obj[o]
          \/ obj'[o].state \in {"EError", "EConnecting"}
  BY <1>0 DEF SelectFds, NotifyConnect, TypeOK, Notify
<1>2. UNCHANGED <<subscriberlist, sub, notifylist, version, delivered, missed>>
  BY DEF SelectFds
<1>3. NoneFinished'
  BY <1>0, <1>1, <1>2 DEF NoneFinished, TypeOK
<1>4. ASSUME NEW s \in subscriberlist PROVE Consistent(s)'
  <2>1. Consistent(s)
    BY <1>0
  <2>2. sub[s].notify # NULL => sub[s].notify \in NotifyAddrs
    BY <1>0 DEF IInv, TypeOK, SubscriberPointsBack
  <2> QED BY <1>1, <1>2, <2>1, <2>2 DEF Consistent, Prepared
<1> QED BY <1>2, <1>3, <1>4, CInvIsConsistentNext DEF AllConsistent

\* What upnp_event_process_notify() writes into an object: the text when it
\* connects, nothing but the state afterwards.
LEMMA ProcessNotifyContents ==
  ASSUME TypeOK, NEW b \in Notify, NEW r \in Outcomes
  PROVE  LET d == ProcessNotify(b, r)
         IN  /\ b.state = "EConnecting" =>
                    /\ d.state \in {"EError", "ESending", "EWaitingForResponse"}
                    /\ d.state # "EError" =>
                           /\ d.seq = sub[b.sub].seq
                           /\ d.val = version[sub[b.sub].service]
             /\ b.state # "EConnecting" => d.seq = b.seq /\ d.val = b.val
             /\ b.state = "ESending" =>
                    d.state \in {"EError", "ESending", "EWaitingForResponse"}
             /\ b.state \notin {"EConnecting", "ESending", "EWaitingForResponse"} =>
                    d = b
<1>1. CASE b.state = "EConnecting"
  <2>1. CASE r = "fail" \/ b.sub = NULL
    BY <1>1, <2>1 DEF ProcessNotify, Notify
  <2>2. CASE ~(r = "fail" \/ b.sub = NULL)
    <3>1. /\ Prepare(b) \in Notify
          /\ Prepare(b).seq = sub[b.sub].seq
          /\ Prepare(b).val = version[sub[b.sub].service]
      <4>1. sub[b.sub] \in Subscriber
        BY <2>2 DEF TypeOK, Notify
      <4> QED BY <2>2, <4>1 DEF TypeOK, Prepare, Notify, Subscriber, NotifyStates
    <3>2. /\ Send(Prepare(b), r).state \in {"ESending", "EWaitingForResponse"}
          /\ Send(Prepare(b), r).seq = Prepare(b).seq
          /\ Send(Prepare(b), r).val = Prepare(b).val
      BY <2>2, <3>1 DEF Send, Notify, Outcomes
    <3> QED BY <1>1, <2>2, <3>1, <3>2 DEF ProcessNotify
  <2> QED BY <2>1, <2>2
<1>2. CASE b.state = "ESending"
  BY <1>2 DEF ProcessNotify, Send, Notify, Outcomes
<1>3. CASE b.state = "EWaitingForResponse"
  BY <1>3 DEF ProcessNotify, Recv, Notify, Outcomes
<1>4. CASE b.state \notin {"EConnecting", "ESending", "EWaitingForResponse"}
  BY <1>4 DEF ProcessNotify
<1> QED BY <1>1, <1>2, <1>3, <1>4

\* upnpevents_processfds() keeps every subscriber that stays consistent, and
\* what it hears is never older than what it heard before.
LEMMA ProcessFdsSubscriber ==
  ASSUME CInv, NEW answer \in [readyfds -> Outcomes], ProcessFds(answer),
         NEW s \in Kept(answer)
  PROVE  Consistent(s)' /\ delivered'[s] >= delivered[s]
<1>0. IInv /\ TypeOK /\ NoneFinished
  BY DEF CInv, IInv
<1>1. /\ s \in subscriberlist /\ s \in SubAddrs /\ s # NULL
      /\ sub[s] \in Subscriber /\ sub[s].service \in Services
      /\ delivered[s] \in Nat /\ version[sub[s].service] \in Nat
      /\ missed[s] \in BOOLEAN
  BY <1>0, NullAssumption DEF Kept, TypeOK, Subscriber, Versions
<1>2. Consistent(s)
  BY <1>0, <1>1, CInvIsConsistent DEF AllConsistent
<1>3. /\ sub'[s] = After(s, answer)
      /\ After(s, answer).service = sub[s].service
      /\ After(s, answer).notify =
            IF s \in Ended(answer) THEN NULL ELSE sub[s].notify
      /\ After(s, answer).seq =
            IF Got(s, answer) # {} THEN SeqNext(sub[s].seq) ELSE sub[s].seq
  BY <1>0, <1>1, AfterFields DEF ProcessFds
<1>4. /\ delivered'[s] = IF Got(s, answer) # {}
                         THEN obj[CHOOSE o \in Got(s, answer) : TRUE].val
                         ELSE delivered[s]
      /\ version' = version
  BY <1>1 DEF ProcessFds
<1>5. missed'[s] = (missed[s] /\ ~Reads(s, answer))
  BY <1>1 DEF ProcessFds
<1>6. \A p \in NotifyAddrs :
          /\ Done(p, answer) \in Notify /\ Done(p, answer).sub = obj[p].sub
          /\ obj[p] \in Notify
  BY <1>0, DoneKeepsSub DEF TypeOK
<1>7. readyfds \subseteq notifylist /\ notifylist \subseteq NotifyAddrs
  BY <1>0 DEF TypeOK
<1>8. CASE sub[s].notify = NULL
  <2>1. \A p \in notifylist : obj[p].sub # s
    BY <1>0, <1>1, <1>7, <1>8, NullAssumption DEF IInv, NotifyPointsBack
  <2>2. \A p \in notifylist : Done(p, answer).sub # s
    BY <1>6, <1>7, <2>1
  <2>3. Got(s, answer) = {} /\ s \notin Ended(answer) /\ ~Reads(s, answer)
    BY <1>7, <2>2 DEF Got, Ended, Reaped, Reads
  <2>4. /\ sub'[s].notify = NULL
        /\ sub'[s].service = sub[s].service
        /\ delivered'[s] = delivered[s]
        /\ missed'[s] = missed[s]
    BY <1>1, <1>3, <1>4, <1>5, <1>8, <2>3
  <2> QED BY <1>1, <1>2, <1>4, <1>8, <2>4 DEF Consistent
<1>9. CASE sub[s].notify # NULL
  <2> DEFINE o == sub[s].notify
             d == Done(o, answer)
  <2>1. o \in notifylist /\ o \in NotifyAddrs /\ obj[o].sub = s /\ obj[o] \in Notify
    BY <1>0, <1>1, <1>6, <1>7, <1>9 DEF IInv, SubscriberPointsBack
  <2>2. \A p \in notifylist : Done(p, answer).sub = s => p = o
    BY <1>0, <1>1, <1>6, <1>7, <2>1, OneObjectPerSubscriber
  <2>3. d \in Notify /\ d.sub = s
    BY <1>6, <2>1
  <2>4. d.state # "EError"
    <3> SUFFICES ASSUME d.state = "EError" PROVE s \in Failed(answer)
      BY DEF Kept
    <3>1. o \in Reaped(answer)
      BY <2>1 DEF Reaped
    <3> QED BY <2>3, <3>1 DEF Failed
  <2>5. s \in Ended(answer) <=> d.state = "EFinished"
    BY <2>1, <2>2, <2>3, <2>4 DEF Ended, Reaped
  <2>6. Got(s, answer) = IF o \in readyfds /\ d.state = "EFinished" THEN {o} ELSE {}
    BY <1>7, <2>2, <2>3 DEF Got
  <2>7. Reads(s, answer) <=> o \in readyfds /\ obj[o].state = "EConnecting"
    BY <1>7, <2>2, <2>3, <2>4 DEF Reads
  <2>8. o \notin readyfds => d = obj[o]
    BY DEF Done
  <2>9. o \in readyfds => /\ d = ProcessNotify(obj[o], answer[o])
                          /\ answer[o] \in Outcomes
    BY DEF Done
  <2>10. obj[o].state # "EFinished"
    BY <1>0, <2>1 DEF NoneFinished
  <2>11. obj[o].val \in Nat
    BY <2>1 DEF Notify, Versions
  <2> HIDE DEF d
  <2>12. /\ o \in readyfds /\ obj[o].state = "EConnecting" =>
                /\ d.state \in {"ESending", "EWaitingForResponse"}
                /\ d.seq = sub[s].seq
                /\ d.val = version[sub[s].service]
         /\ ~(o \in readyfds /\ obj[o].state = "EConnecting") =>
                d.seq = obj[o].seq /\ d.val = obj[o].val
         /\ obj[o].state = "ESending" => d.state # "EFinished"
         /\ obj[o].state \notin {"EConnecting", "ESending", "EWaitingForResponse"} =>
                d = obj[o]
    <3>1. CASE o \notin readyfds
      BY <2>8, <2>10, <3>1
    <3>2. CASE o \in readyfds
      BY <1>0, <2>1, <2>4, <2>9, <3>2, ProcessNotifyContents
    <3> QED BY <3>1, <3>2
  <2>13. CASE d.state = "EFinished"
    <3>1. o \in readyfds /\ obj[o].state = "EWaitingForResponse"
      BY <2>1, <2>8, <2>10, <2>12, <2>13 DEF Notify, NotifyStates
    <3>2. Prepared(o) /\ Got(s, answer) = {o}
      BY <2>6, <2>13, <3>1 DEF Prepared
    <3>3. delivered'[s] = obj[o].val /\ sub'[s].notify = NULL
      <4>1. (CHOOSE p \in Got(s, answer) : TRUE) = o
        BY <3>2
      <4> QED BY <1>3, <1>4, <2>5, <2>13, <3>2, <4>1
    <3>4. missed'[s] = missed[s]
      BY <1>1, <1>5, <2>7, <3>1
    <3>5. /\ delivered[s] <= obj[o].val /\ obj[o].val <= version[sub[s].service]
          /\ missed[s] \/ obj[o].val = version[sub[s].service]
      BY <1>2, <1>9, <3>2 DEF Consistent
    <3> QED BY <1>1, <1>3, <1>4, <2>11, <3>3, <3>4, <3>5 DEF Consistent
  <2>14. CASE d.state # "EFinished"
    <3>1. o \notin Reaped(answer)
      BY <2>4, <2>14 DEF Reaped, d
    <3>2. /\ sub'[s].notify = o /\ sub'[s].seq = sub[s].seq
          /\ sub'[s].service = sub[s].service
          /\ delivered'[s] = delivered[s]
      BY <1>3, <1>4, <2>5, <2>6, <2>14
    <3>3. obj'[o] = d
      BY <2>1, <3>1 DEF ProcessFds, d
    <3>4. CASE o \in readyfds /\ obj[o].state = "EConnecting"
      BY <1>1, <1>2, <1>4, <1>9, <2>12, <3>2, <3>3, <3>4 DEF Consistent
    <3>5. CASE ~(o \in readyfds /\ obj[o].state = "EConnecting")
      <4>1. missed'[s] = missed[s]
        BY <1>1, <1>5, <2>7, <3>5
      <4>2. d.state \in {"ESending", "EWaitingForResponse"} => Prepared(o)
        BY <2>8, <2>12, <3>5 DEF Prepared
      <4>3. d.seq = obj[o].seq /\ d.val = obj[o].val
        BY <2>12, <3>5
      <4> QED
        BY <1>1, <1>2, <1>4, <1>9, <3>2, <3>3, <4>1, <4>2, <4>3
        DEF Consistent, Prepared
    <3> QED BY <3>4, <3>5
  <2> QED BY <2>13, <2>14
<1> QED BY <1>8, <1>9

\* upnpevents_processfds() as a whole.
LEMMA ProcessFdsCInv ==
  ASSUME CInv, IInv', NEW answer \in [readyfds -> Outcomes], ProcessFds(answer)
  PROVE  CInv'
<1>1. NoneFinished'
  BY DEF CInv, IInv, TypeOK, NoneFinished, ProcessFds, Reaped
<1>2. subscriberlist' = Kept(answer)
  BY DEF ProcessFds
<1> QED
  BY <1>1, <1>2, ProcessFdsSubscriber, CInvIsConsistentNext DEF AllConsistent

\* A step that changes neither the lists, nor the blocks' contents but a
\* timeout, nor the state variables keeps every subscriber consistent.
LEMMA QuietCInv ==
  ASSUME CInv, IInv',
         UNCHANGED <<subscriberlist, notifylist, obj, version, delivered, missed>>,
         \A s \in SubAddrs : /\ sub'[s].notify = sub[s].notify
                             /\ sub'[s].seq = sub[s].seq
                             /\ sub'[s].service = sub[s].service
  PROVE  CInv'
<1>0. /\ NoneFinished
      /\ \A s \in subscriberlist : s \in SubAddrs /\ Consistent(s)
  BY CInvIsConsistent DEF CInv, IInv, TypeOK, AllConsistent
<1>1. NoneFinished'
  BY <1>0 DEF NoneFinished
<1>2. ASSUME NEW s \in subscriberlist PROVE Consistent(s)'
  BY <1>0, ConsistentUntouched
<1> QED BY <1>1, <1>2, CInvIsConsistentNext DEF AllConsistent

\* Every step preserves it, and no step makes a subscriber that stays hear an
\* older value than the one it heard.
LEMMA NextCInv ==
  CInv /\ [Next]_vars =>
      /\ CInv'
      /\ \A s \in subscriberlist \cap subscriberlist' : delivered'[s] >= delivered[s]
<1> SUFFICES ASSUME CInv, [Next]_vars
             PROVE  /\ CInv'
                    /\ \A s \in subscriberlist \cap subscriberlist' :
                           delivered'[s] >= delivered[s]
  OBVIOUS
<1> DEFINE NoOlder == \A s \in subscriberlist \cap subscriberlist' :
                          delivered'[s] >= delivered[s]
<1>0. IInv /\ IInv'
  BY NextIInv DEF CInv
<1>1. \A s \in subscriberlist : s \in SubAddrs /\ delivered[s] \in Nat
  BY <1>0 DEF IInv, TypeOK, Versions
<1>2. ASSUME NEW s \in SubAddrs, NEW service \in Services, NEW timeout \in Timeouts,
             AddSubscriber(s, service, timeout)
      PROVE  CInv' /\ NoOlder
  <2>1. \A t \in subscriberlist : delivered'[t] = delivered[t]
    BY <1>0, <1>2 DEF AddSubscriber, IInv, TypeOK
  <2>2. CInv'
    BY <1>0, <1>2, AddSubscriberCInv
  <2> QED BY <1>1, <2>1, <2>2
<1>3. ASSUME NEW s \in SubAddrs, NEW timeout \in Timeouts,
             RenewSubscription(s, timeout)
      PROVE  CInv' /\ NoOlder
  <2>1. \A t \in SubAddrs : /\ sub'[t].notify = sub[t].notify
                            /\ sub'[t].seq = sub[t].seq
                            /\ sub'[t].service = sub[t].service
    BY <1>0, <1>3 DEF RenewSubscription, IInv, TypeOK, Subscriber
  <2> QED BY <1>0, <1>1, <1>3, <2>1, QuietCInv DEF RenewSubscription
<1>4. ASSUME NEW s \in SubAddrs, RemoveSubscriber(s)
      PROVE  CInv' /\ NoOlder
  <2>1. \A t \in subscriberlist \cap subscriberlist' : delivered'[t] = delivered[t]
    BY <1>0, <1>4 DEF RemoveSubscriber, IInv, TypeOK
  <2> QED BY <1>0, <1>1, <1>4, <2>1, RemoveSubscriberCInv
<1>5. ASSUME NEW service \in Services, NEW changed \in BOOLEAN,
             VarChange(service, changed)
      PROVE  CInv' /\ NoOlder
  BY <1>0, <1>1, <1>5, VarChangeCInv DEF VarChange
<1>6. ASSUME NEW failed \in SUBSET NotifyAddrs, SelectFds(failed)
      PROVE  CInv' /\ NoOlder
  <2>1. CInv'
    BY <1>0, <1>6, SelectFdsCInv
  <2>2. delivered' = delivered
    BY <1>6 DEF SelectFds
  <2> QED BY <1>1, <2>1, <2>2
<1>7. CASE SelectReturns
  BY <1>0, <1>1, <1>7, QuietCInv DEF SelectReturns
<1>8. CASE SelectInterrupted
  BY <1>0, <1>1, <1>8, QuietCInv DEF SelectInterrupted
<1>9. CASE Process
  <2>1. PICK answer \in [readyfds -> Outcomes] : ProcessFds(answer)
    BY <1>9 DEF Process
  <2>2. subscriberlist' = Kept(answer)
    BY <2>1 DEF ProcessFds
  <2> QED BY <1>0, <2>1, <2>2, ProcessFdsCInv, ProcessFdsSubscriber
<1>10. CASE NextIteration
  BY <1>0, <1>1, <1>10, QuietCInv DEF NextIteration
<1>11. ASSUME NEW o \in NotifyAddrs, NEW from, NEW to, Peer(o, from, to)
       PROVE  CInv' /\ NoOlder
  BY <1>0, <1>1, <1>11, QuietCInv DEF Peer
<1>12. CASE \E o \in NotifyAddrs : \/ PeerAccepts(o) \/ PeerRefuses(o)
                                   \/ PeerAnswers(o) \/ PeerResets(o)
  BY <1>11, <1>12 DEF PeerAccepts, PeerRefuses, PeerAnswers, PeerResets
<1>13. CASE Tick
  BY <1>0, <1>1, <1>13, QuietCInv DEF Tick
<1>14. CASE UNCHANGED vars
  BY <1>0, <1>1, <1>14, QuietCInv DEF vars
<1> QED
  BY <1>2, <1>3, <1>4, <1>5, <1>6, <1>7, <1>8, <1>9, <1>10, <1>12, <1>13, <1>14
  DEF Next, Requests, Loop, Environment

\* The initial state has nobody to be inconsistent with.
LEMMA InitCInv == Init => CInv
BY InitIInv
DEF Init, CInv, NoneFinished, SeqCarried, DeliveredInOrder, StaleOnlyIfMissed

\* Every NOTIFY that is under way carries the current SEQ of its subscription,
\* through retries, renewals and addresses handed out again.
THEOREM SeqIsCarried == Spec => []SeqCarried
<1>1. CInv => SeqCarried
  BY DEF CInv
<1> QED BY InitCInv, NextCInv, <1>1, PTL DEF Spec

\* A subscriber is left with old values only by a change between
\* upnp_event_prepare() and the answer, or by a failed creation.
THEOREM StaleOnlyWhenMissed == Spec => []StaleOnlyIfMissed
<1>1. CInv => StaleOnlyIfMissed
  BY DEF CInv
<1> QED BY InitCInv, NextCInv, <1>1, PTL DEF Spec

\* No step of the daemon or of the network makes a subscriber hear an older
\* value after a newer one.
THEOREM HearsInOrder == Spec => NeverBackwards
<1>1. Spec => []CInv
  BY InitCInv, NextCInv, PTL DEF Spec
<1>2. CInv /\ [Next]_vars =>
          [\A s \in subscriberlist \cap subscriberlist' :
               delivered'[s] >= delivered[s]]_vars
  BY NextCInv
<1> QED BY <1>1, <1>2, PTL DEF Spec, NeverBackwards

=============================================================================
