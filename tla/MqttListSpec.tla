--------------------------- MODULE MqttListSpec ---------------------------
(***************************************************************************)
(* What the intrusive list of mqtt_list.c promises its callers: the list  *)
(* is a sequence of distinct entries.  An entry can be put at its front or *)
(* its back, taken out, moved to the front or the back, and the entries of *)
(* a set can be taken out in one pass.  Initialising an entry leaves the   *)
(* sequence as it is.  The variable op names the call of each step, so     *)
(* that a step of the list is explained by the operation that was called.  *)
(***************************************************************************)
EXTENDS Sequences, SequencesExt

CONSTANT Nodes      \* the entries that can be linked into the list

VARIABLES
    list,           \* the entries in list order, from head->next on
    op              \* the last call: [call, arg], arg a set of entries

vars == <<list, op>>

Init == list = << >> /\ op = [call |-> "none", arg |-> {}]

OnList(n) == n \in ToSet(list)

Call(c, S) == op' = [call |-> c, arg |-> S]

Reset(n) == /\ ~OnList(n)
            /\ Call("init", {n})
            /\ UNCHANGED list

PushFront(n) == /\ ~OnList(n)
                /\ Call("add", {n})
                /\ list' = <<n>> \o list

PushBack(n) == /\ ~OnList(n)
               /\ Call("add_tail", {n})
               /\ list' = Append(list, n)

\* Taking out an entry that is not on the list changes nothing.
Unlink(n) == /\ Call("del", {n})
             /\ list' = Remove(list, n)

UnlinkReset(n) == /\ OnList(n)
                  /\ Call("del_init", {n})
                  /\ list' = Remove(list, n)

ToFront(n) == /\ OnList(n)
              /\ Call("move", {n})
              /\ list' = <<n>> \o Remove(list, n)

ToBack(n) == /\ OnList(n)
             /\ Call("move_tail", {n})
             /\ list' = Append(Remove(list, n), n)

RemoveAll(c, S) == /\ Call(c, S)
                   /\ list' = SelectSeq(list, LAMBDA x : x \notin S)

Next == \/ \E n \in Nodes : \/ Reset(n) \/ PushFront(n) \/ PushBack(n)
                            \/ Unlink(n) \/ UnlinkReset(n)
                            \/ ToFront(n) \/ ToBack(n)
        \/ \E S \in SUBSET Nodes : RemoveAll("del_each", S)
        \/ RemoveAll("clean", Nodes)

Spec == Init /\ [][Next]_vars
=============================================================================
