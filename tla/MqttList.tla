----------------------------- MODULE MqttList -----------------------------
(***************************************************************************)
(* The intrusive doubly linked list of mqtt_list.c and mqtt_list.h, as the *)
(* client uses it for mqtt_ack_handler_list and mqtt_msg_handler_list: a   *)
(* head node (LIST_DEFINE / mqtt_list_init in mqtt_lease) and entries      *)
(* embedded in handler objects.  The memory is the two pointer fields of   *)
(* every node; an entry whose fields were never written holds Garbage.     *)
(* Every C function is an operator from memory to memory that performs its *)
(* stores in the order of the code, so aliasing (prev = next on a list of  *)
(* one entry or none) is handled as the code handles it.                   *)
(*                                                                         *)
(* The callers' contract (what mqttclient.c does): an entry is added only  *)
(* when it is not linked, and deleted or moved only when it is linked or   *)
(* only initialised.  With StaleDel, an entry that was deleted before may  *)
(* be deleted again, as a second mqtt_msg_handler_destory of one handler   *)
(* does.                                                                   *)
(***************************************************************************)
EXTENDS Naturals, Sequences, SequencesExt, FiniteSets

CONSTANTS
    ListHead,   \* &c->mqtt_msg_handler_list (or the ACK handler list)
    Nodes,      \* the list fields of the handler objects
    Garbage,    \* the value of a pointer field that was never written
    StaleDel    \* whether an unlinked entry may be deleted again

ASSUME ListHead \notin Nodes /\ Garbage \notin Nodes \cup {ListHead}
       /\ StaleDel \in BOOLEAN

VARIABLES
    next,       \* node->next for every node
    prev,       \* node->prev for every node
    op          \* history: the last list call and its entries

vars == <<next, prev, op>>

AllNodes == Nodes \cup {ListHead}
Fuel == Cardinality(Nodes) + 1

Mem == [next |-> next, prev |-> prev]
Store(m) == next' = m.next /\ prev' = m.prev

Call(c, S) == op' = [call |-> c, arg |-> S]

\* Mutant: _mqtt_list_add without the store next->prev = node.
LinkAddNoBackLink(m, node, p, n) ==
    LET m2 == [m  EXCEPT !.next[node] = n]
        m3 == [m2 EXCEPT !.prev[node] = p]
    IN  [m3 EXCEPT !.next[p] = node]

\* _mqtt_list_add(node, prev, next): four stores, in this order.
LinkAdd(m, node, p, n) ==
    LET m1 == [m  EXCEPT !.prev[n] = node]
        m2 == [m1 EXCEPT !.next[node] = n]
        m3 == [m2 EXCEPT !.prev[node] = p]
    IN  [m3 EXCEPT !.next[p] = node]

\* _mqtt_list_del(prev, next)
LinkDel(m, p, n) ==
    LET m1 == [m EXCEPT !.prev[n] = p]
    IN  [m1 EXCEPT !.next[p] = n]

\* _mqtt_list_del_entry(entry), which is also mqtt_list_del(entry)
DelEntry(m, e) == LinkDel(m, m.prev[e], m.next[e])

\* mqtt_list_init(list)
InitNode(m, e) == [m EXCEPT !.next[e] = e, !.prev[e] = e]

\* mqtt_list_add(node, list) and mqtt_list_add_tail(node, list)
AddHead(m, e) == LinkAdd(m, e, ListHead, m.next[ListHead])
AddTail(m, e) == LinkAdd(m, e, m.prev[ListHead], ListHead)

\* mqtt_list_del_init, mqtt_list_move and mqtt_list_move_tail
DelInit(m, e) == InitNode(DelEntry(m, e), e)
MoveHead(m, e) == AddHead(DelEntry(m, e), e)
\* Mutant: mqtt_list_move_tail calling mqtt_list_add instead of add_tail.
MoveTailToFront(m, e) == AddHead(DelEntry(m, e), e)

MoveTail(m, e) == AddTail(DelEntry(m, e), e)

\* mqtt_list_is_empty(list)
IsEmpty(m) == m.next[ListHead] = ListHead

\* The entries met by LIST_FOR_EACH from the head, following next.
RECURSIVE WalkFrom(_, _, _)
WalkFrom(m, n, fuel) ==
    IF n \notin Nodes \/ fuel = 0 THEN << >>
    ELSE <<n>> \o WalkFrom(m, m.next[n], fuel - 1)

Walk(m) == WalkFrom(m, m.next[ListHead], Fuel)

\* LIST_FOR_EACH_SAFE(curr, next, list) calling mqtt_list_del on every
\* entry of sel: the successor is read before the entry is unlinked.
RECURSIVE DelEachFrom(_, _, _, _)
DelEachFrom(m, curr, sel, fuel) ==
    IF curr \notin Nodes \/ fuel = 0 THEN m
    ELSE LET nx == m.next[curr]
         IN  DelEachFrom(IF curr \in sel THEN DelEntry(m, curr) ELSE m,
                         nx, sel, fuel - 1)

DelEach(m, sel) == DelEachFrom(m, m.next[ListHead], sel, Fuel)

Linked(e) == e \in ToSet(Walk(Mem))
SelfLoop(e) == next[e] = e /\ prev[e] = e
Stale(e) == ~Linked(e) /\ ~SelfLoop(e) /\ next[e] # Garbage

-----------------------------------------------------------------------------
\* mqtt_lease: the head is initialised; entries are unwritten memory.
Init ==
    /\ next = [n \in AllNodes |-> IF n = ListHead THEN ListHead ELSE Garbage]
    /\ prev = [n \in AllNodes |-> IF n = ListHead THEN ListHead ELSE Garbage]
    /\ op = [call |-> "none", arg |-> {}]

\* mqtt_ack_handler_create / mqtt_msg_handler_create: mqtt_list_init.
ListInit(e) == ~Linked(e) /\ Store(InitNode(Mem, e)) /\ Call("init", {e})

ListAdd(e) == ~Linked(e) /\ Store(AddHead(Mem, e)) /\ Call("add", {e})

\* mqtt_ack_list_record / mqtt_msg_handlers_install: mqtt_list_add_tail.
ListAddTail(e) ==
    ~Linked(e) /\ Store(AddTail(Mem, e)) /\ Call("add_tail", {e})

\* mqtt_ack_handler_destroy / mqtt_msg_handler_destory: mqtt_list_del.
ListDel(e) ==
    /\ Linked(e) \/ SelfLoop(e) \/ (StaleDel /\ Stale(e))
    /\ Store(DelEntry(Mem, e))
    /\ Call("del", {e})

ListDelInit(e) ==
    Linked(e) /\ Store(DelInit(Mem, e)) /\ Call("del_init", {e})
ListMove(e) == Linked(e) /\ Store(MoveHead(Mem, e)) /\ Call("move", {e})
ListMoveTail(e) ==
    Linked(e) /\ Store(MoveTail(Mem, e)) /\ Call("move_tail", {e})

\* mqtt_ack_list_unrecord and mqtt_ack_list_scan: LIST_FOR_EACH_SAFE
\* destroying the entries that match.
ListDelEach(sel) == Store(DelEach(Mem, sel)) /\ Call("del_each", sel)

\* mqtt_clean_session: if the list is not empty, destroy every entry in a
\* LIST_FOR_EACH_SAFE loop, then mqtt_list_del_init the head.
ListClean ==
    /\ IF IsEmpty(Mem) THEN UNCHANGED <<next, prev>>
       ELSE Store(DelInit(DelEach(Mem, Nodes), ListHead))
    /\ Call("clean", Nodes)

Next ==
    \/ \E e \in Nodes :
          \/ ListInit(e) \/ ListAdd(e) \/ ListAddTail(e) \/ ListDel(e)
          \/ ListDelInit(e) \/ ListMove(e) \/ ListMoveTail(e)
    \/ \E sel \in SUBSET Nodes : ListDelEach(sel)
    \/ ListClean

Spec == Init /\ [][Next]_vars

-----------------------------------------------------------------------------
(* Following next from the head through the linked entries comes back to  *)
(* the head, and every prev field on that ring points at the node that    *)
(* next reaches it from: the two directions of the list stay mirror       *)
(* images through every add, delete, move and clean-up of mqtt_list.c.    *)
RingWellFormed ==
    LET w == Walk(Mem)
        k == Len(w)
    IN  /\ (IF k = 0 THEN next[ListHead] ELSE next[w[k]]) = ListHead
        /\ prev[ListHead] = (IF k = 0 THEN ListHead ELSE w[k])
        /\ \A i \in 1..k : prev[w[i]] = IF i = 1 THEN ListHead ELSE w[i - 1]

Abs == INSTANCE MqttListSpec WITH list <- Walk(Mem)

(* The list functions implement the sequence of MqttListSpec under the    *)
(* refinement mapping list = the entries met walking next from the head:  *)
(* add puts an entry at the front, add_tail at the back, del takes it out, *)
(* move and move_tail re-position it, the LIST_FOR_EACH_SAFE loops of the  *)
(* client remove exactly the entries they destroy, and init changes       *)
(* nothing; each step is the abstract operation of the call it makes.     *)
ListRefinesSpec == Abs!Spec
=============================================================================
