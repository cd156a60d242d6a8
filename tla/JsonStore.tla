----------------------------- MODULE JsonStore -----------------------------
(***************************************************************************)
(* The values of json-c as the daemon uses them: reference counts          *)
(* (json_object.c), objects as hash tables with open addressing            *)
(* (linkhash.c) and arrays (arraylist.c). A caller owns references, gives  *)
(* them away to objects and arrays and takes new ones. Memory may run out  *)
(* at every allocation.                                                    *)
(***************************************************************************)
EXTENDS Integers, Sequences, FiniteSets, Calls

CONSTANTS
    Blocks,      \* bound: the addresses that malloc() gives, 1 .. n
    TypeOf,      \* bound: the type of value that each is used for
    Keys,        \* keys of objects, positive numbers
    Hash,        \* their hashes
    TableSize,   \* JSON_OBJECT_DEF_HASH_ENTRIES
    TopSize,     \* INT_MAX: no table is larger
    ArraySize,   \* ARRAY_LIST_DEFAULT_SIZE
    MaxIndex,    \* bound on the indices of arrays
    MaxRefs      \* bound on the references of a caller to one value

ASSUME JsonStoreAssumption ==
    /\ Blocks \subseteq Nat \ {0} /\ IsFiniteSet(Blocks) /\ Blocks = 1 .. Cardinality(Blocks)
    /\ Keys \subseteq Nat \ {0} /\ Hash \in [Keys -> Nat]
    /\ TypeOf \in [Blocks -> {"object", "array", "leaf"}]
    /\ TopSize \in Nat /\ TableSize \in 1 .. TopSize /\ ArraySize \in Nat \ {0}
    /\ MaxIndex \in Nat

VARIABLES
    heap,    \* the values: [type, refs, table, array], see Value
    owned    \* the references of the caller to each

jvars == <<heap, owned>>

NULL == 0
EMPTY == 0      \* LH_EMPTY
FREED == -1     \* LH_FREED: a key was here

NoTable == [size |-> 0, k |-> <<>>, v |-> <<>>, order |-> <<>>, count |-> 0]
NoArray == [size |-> 0, list |-> <<>>]
Free == [type |-> "free", refs |-> 0, table |-> NoTable, array |-> NoArray]

-----------------------------------------------------------------------------
(***************************************************************************)
(* linkhash.c. A table has size places, a key or a mark in k and its value *)
(* in v, and the places in use as a list in the order they were filled.    *)
(***************************************************************************)
TableNew(size) == [size |-> size, k |-> [n \in 0 .. size - 1 |-> EMPTY],
                   v |-> [n \in 0 .. size - 1 |-> NULL], order |-> <<>>, count |-> 0]

\* The places from that of a hash on, round the table
Place(t, key, i) == (Hash[key] + i) % t.size

\* Where a key is put: the first place that is not in use
PlaceFor(t, key) ==
    LET i == CHOOSE i \in 0 .. t.size - 1 :
                /\ t.k[Place(t, key, i)] \in {EMPTY, FREED}
                /\ \A j \in 0 .. i - 1 : t.k[Place(t, key, j)] \notin {EMPTY, FREED}
    IN  Place(t, key, i)

Filled(t, key, val) ==
    LET n == PlaceFor(t, key)
    IN  [t EXCEPT !.k[n] = key, !.v[n] = val, !.order = Append(@, n), !.count = @ + 1]

\* The load factor is 66 %
TableFull(t) == t.count * 100 >= t.size * 66

NewSize(t) == IF t.size > TopSize \div 2 THEN TopSize ELSE t.size * 2

\* lh_table_resize(): the entries go to a new table in their order
TableResize(t) ==
    LET fill(new, i) == Filled(new, t.k[t.order[i]], t.v[t.order[i]])
    IN  [Steps(TableNew(NewSize(t)), Len(t.order), fill) EXCEPT !.count = t.count]

\* lh_table_insert_w_hash(): << >> where there is no memory or no larger table
TableInsert(t, key, val, nomem) ==
    IF ~ TableFull(t) THEN << Filled(t, key, val) >>
    ELSE IF t.size = TopSize \/ nomem THEN <<>>
    ELSE << Filled(TableResize(t), key, val) >>

\* lh_table_lookup_entry_w_hash(): the place of a key, or -1. A place that was
\* never used ends the search.
TableLookup(t, key) ==
    LET at == {i \in 0 .. t.size - 1 :
                 /\ t.k[Place(t, key, i)] = key
                 /\ \A j \in 0 .. i - 1 : t.k[Place(t, key, j)] \notin {EMPTY, key}}
    IN  IF at = {} THEN -1 ELSE Place(t, key, CHOOSE i \in at : TRUE)

\* A place is taken out of the list
Unlinked(t, n) == RemoveAt(t.order, CHOOSE i \in 1 .. Len(t.order) : t.order[i] = n)

\* Mutant of TableDelete: the place looks as if it had never been used
TableDeleteEmpty(t, n) ==
    [t EXCEPT !.k[n] = EMPTY, !.v[n] = NULL, !.count = @ - 1, !.order = Unlinked(t, n)]

\* lh_table_delete_entry()
TableDelete(t, n) ==
    [t EXCEPT !.k[n] = FREED, !.v[n] = NULL, !.count = @ - 1, !.order = Unlinked(t, n)]

TableValues(t) == [i \in DOMAIN t.order |-> t.v[t.order[i]]]

-----------------------------------------------------------------------------
(***************************************************************************)
(* arraylist.c. Indices begin at 0; a place that was skipped is NULL.      *)
(***************************************************************************)
Expand(a, max) == IF max < a.size THEN a
                  ELSE [a EXCEPT !.size = IF 2 * @ < max THEN max ELSE 2 * @]

\* array_list_put_idx(), array_list_add()
ArrayPut(a, idx, val) ==
    LET b == Expand(a, idx + 1)
        n == IF Len(b.list) <= idx THEN idx + 1 ELSE Len(b.list)
    IN  [b EXCEPT !.list = [i \in 1 .. n |-> IF i = idx + 1 THEN val
                                             ELSE IF i <= Len(b.list) THEN b.list[i] ELSE NULL]]

\* array_list_del_idx()
ArrayCut(a, idx, count) ==
    [a EXCEPT !.list = SubSeq(@, 1, idx) \o SubSeq(@, idx + count + 1, Len(@))]

\* array_list_shrink()
ArrayShrink(a, empty) ==
    LET n == Len(a.list) + empty
    IN  IF n > a.size THEN Expand(a, n) ELSE [a EXCEPT !.size = IF n = 0 THEN 1 ELSE n]

-----------------------------------------------------------------------------
\* What a value refers to
Inside(value) == TableValues(value.table) \o value.array.list

\* json_object_put(), on a list of values that are to be put: one that loses its
\* last reference goes, and puts what it has
PutStep(x) ==
    LET p == Head(x.todo)
        left == [x EXCEPT !.todo = Tail(@), !.heap[p].refs = @ - 1]
    IN  IF x.todo = <<>> THEN x
        ELSE IF p = NULL THEN [x EXCEPT !.todo = Tail(@)]
        ELSE IF x.heap[p].refs > 1 THEN left
        ELSE [left EXCEPT !.heap[p] = Free, !.todo = @ \o Inside(x.heap[p])]

\* A value has no more inside than there are places and references
PutAll(h, todo) ==
    LET put(x, i) == PutStep(x)
    IN  Steps([heap |-> h, todo |-> todo], Cardinality(Blocks) * (TopSize + MaxIndex + 2), put).heap

\* The values that can be reached from one
Reach(p) ==
    LET next(set, i) == set \cup UNION {Range(Inside(heap[q])) : q \in set \ {NULL}}
    IN  Steps({p}, Cardinality(Blocks), next)

Live(type) == {p \in Blocks : heap[p].type = type}

\* What a caller may give away: a reference it owns, to a value from which the
\* container is not reached ("The caller must avoid creating loops"), or NULL
Givable(p) == {NULL} \cup {q \in Blocks : owned[q] > 0 /\ p \notin Reach(q)}

Give(val) == owned' = IF val = NULL THEN owned ELSE [owned EXCEPT ![val] = @ - 1]

-----------------------------------------------------------------------------
\* json_object_new(), json_object_new_object(), json_object_new_array()
New(p, type) ==
    /\ heap[p].type = "free"
    /\ heap' = [heap EXCEPT ![p] =
          [type |-> type, refs |-> 1,
           table |-> IF type = "object" THEN TableNew(TableSize) ELSE NoTable,
           array |-> IF type = "array" THEN [size |-> ArraySize, list |-> <<>>] ELSE NoArray]]
    /\ owned' = [owned EXCEPT ![p] = 1]

\* json_object_get(), by a caller that found the value
Get(p) ==
    /\ heap[p].type # "free" /\ owned[p] < MaxRefs
    /\ heap' = [heap EXCEPT ![p].refs = @ + 1]
    /\ owned' = [owned EXCEPT ![p] = @ + 1]

Put(p) ==
    /\ owned[p] > 0
    /\ owned' = [owned EXCEPT ![p] = @ - 1]
    /\ heap' = PutAll(heap, <<p>>)

\* Mutant of Replaced: the value that was there keeps its reference
ReplacedKept(h, old) == h

\* The value that is replaced is put
Replaced(h, old) == PutAll(h, <<old>>)

\* json_object_object_add_ex(): on failure the caller keeps its reference
ObjectAdd(p, key, val, nomem) ==
    LET t == heap[p].table
        n == TableLookup(t, key)
        new == TableInsert(t, key, val, nomem)
    IN  /\ val \in Givable(p)
        /\ IF n # -1
           THEN heap' = [Replaced(heap, t.v[n]) EXCEPT ![p].table.v[n] = val] /\ Give(val)
           ELSE IF new = <<>> THEN UNCHANGED jvars
           ELSE heap' = [heap EXCEPT ![p].table = new[1]] /\ Give(val)

\* json_object_object_del()
ObjectDel(p, key) ==
    LET n == TableLookup(heap[p].table, key)
    IN  /\ n # -1
        /\ heap' = [PutAll(heap, <<heap[p].table.v[n]>>) EXCEPT ![p].table = TableDelete(@, n)]
        /\ UNCHANGED owned

\* json_object_array_put_idx(), and json_object_array_add() at the end
ArrayPutIdx(p, idx, val, nomem) ==
    LET a == heap[p].array
        old == IF idx < Len(a.list) THEN a.list[idx + 1] ELSE NULL
    IN  /\ val \in Givable(p)
        /\ IF nomem /\ idx + 1 >= a.size THEN UNCHANGED jvars
           ELSE heap' = [Replaced(heap, old) EXCEPT ![p].array = ArrayPut(@, idx, val)] /\ Give(val)

\* json_object_array_del_idx()
ArrayDelIdx(p, idx, count) ==
    LET a == heap[p].array
    IN  /\ idx + count <= Len(a.list)
        /\ heap' = [PutAll(heap, SubSeq(a.list, idx + 1, idx + count)) EXCEPT
                      ![p].array = ArrayCut(@, idx, count)]
        /\ UNCHANGED owned

\* json_object_array_shrink()
Shrink(p, empty) ==
    /\ heap' = [heap EXCEPT ![p].array = ArrayShrink(@, empty)]
    /\ UNCHANGED owned

JInit == heap = [p \in Blocks |-> Free] /\ owned = [p \in Blocks |-> 0]

JNext ==
    \/ \E p \in Blocks : New(p, TypeOf[p]) \/ Get(p) \/ Put(p)
    \/ \E p \in Live("object"), key \in Keys :
          \/ \E val \in {NULL} \cup Blocks, nomem \in BOOLEAN : ObjectAdd(p, key, val, nomem)
          \/ ObjectDel(p, key)
    \/ \E p \in Live("array"), idx \in 0 .. MaxIndex :
          \/ \E val \in {NULL} \cup Blocks, nomem \in BOOLEAN : ArrayPutIdx(p, idx, val, nomem)
          \/ \E count \in 1 .. 2 : ArrayDelIdx(p, idx, count)
          \/ idx <= 1 /\ Shrink(p, idx)

JSpec == JInit /\ [][JNext]_jvars

-----------------------------------------------------------------------------
\* How often a list has a value
RefsIn(q, p) == Cardinality({i \in DOMAIN q : q[i] = p})

\* The references to a value that other values have
Held(p) == LET count(n, q) == n + RefsIn(Inside(heap[q]), p)
           IN  Steps(0, Cardinality(Blocks), count)

\* A value lives exactly as long as there is a reference to it: its count is the
\* number of references of the caller and of the values that have it, whatever was
\* replaced, deleted or refused before, and nothing refers to a value that is gone.
RefCounts ==
    \A p \in Blocks : /\ heap[p].refs = owned[p] + Held(p)
                      /\ heap[p].type = "free" <=> heap[p].refs = 0

\* After any sequence of insertions, deletions and growth, a lookup finds every key
\* of an object once, at the place the list has for it, and no other key; the
\* count is that of the list, and arrays fit in their memory.
TableFinds ==
    /\ \A p \in Live("object") :
          LET t == heap[p].table
          IN  /\ \A key \in Keys :
                    {n \in Range(t.order) : t.k[n] = key} = {TableLookup(t, key)} \ {-1}
              /\ t.count = Len(t.order) /\ IsInjective(t.order)
    /\ \A p \in Live("array") : Len(heap[p].array.list) <= heap[p].array.size

=============================================================================
