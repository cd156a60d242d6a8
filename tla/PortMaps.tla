------------------------------ MODULE PortMaps ------------------------------
(***************************************************************************)
(* What commonrdr.h and upnpredirect.h promise of a firewall back end: a   *)
(* table of port mappings, one for each external port and protocol at      *)
(* most. A call answers 0 when it did what it was asked for, -2 when the   *)
(* port belongs to another client, and -1 when it failed; a call changes   *)
(* nothing but the mapping that it is about, and one that fails leaves     *)
(* there what was there, what was asked for, or nothing.                   *)
(***************************************************************************)
EXTENDS Integers

CONSTANTS Keys,      \* external ports with a protocol
          Targets,   \* internal addresses with a port
          NoTarget

VARIABLES table,     \* the target of each key
          reply      \* the last call: what for, its key, the target asked for, the answer

Free == [k \in Keys |-> NoTarget]

AbsInit == /\ table = Free
           /\ reply = [op |-> "none", key |-> NoTarget, want |-> NoTarget, r |-> 0]

Answer(op, k, t, r) == reply' = [op |-> op, key |-> k, want |-> t, r |-> r]

SameClient(t, u) == t = NoTarget \/ t.iaddr = u.iaddr

AbsAdd(k, t) ==
    \/ /\ SameClient(table[k], t)
       /\ table' = [table EXCEPT ![k] = t]
       /\ Answer("add", k, t, 0)
    \/ /\ table[k] # NoTarget
       /\ Answer("add", k, t, -2)
       /\ UNCHANGED table
    \/ /\ \E u \in {table[k], t, NoTarget} : table' = [table EXCEPT ![k] = u]
       /\ SameClient(table[k], t)
       /\ Answer("add", k, t, -1)

AbsDelete(k) ==
    \/ /\ table' = [table EXCEPT ![k] = NoTarget]
       /\ Answer("delete", k, NoTarget, 0)
    \/ /\ \E u \in {table[k], NoTarget} : table' = [table EXCEPT ![k] = u]
       /\ Answer("delete", k, NoTarget, -1)

\* A call about other things
AbsOther == /\ \E k \in Keys : Answer("peer", k, NoTarget, 0)
            /\ UNCHANGED table

AbsNext == \/ \E k \in Keys, t \in Targets : AbsAdd(k, t)
           \/ \E k \in Keys : AbsDelete(k)
           \/ AbsOther

AbsSpec == AbsInit /\ [][AbsNext]_<<table, reply>>

=============================================================================
