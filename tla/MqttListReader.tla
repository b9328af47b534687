--------------------------- MODULE MqttListReader ---------------------------
(***************************************************************************)
(* mqtt_msg_handler_list shared by two threads.  An application thread    *)
(* walks it with LIST_FOR_EACH_SAFE, as mqtt_list_subscribe_topic (called  *)
(* by the example's publisher thread) and mqtt_get_msg_handler (called by  *)
(* mqtt_unsubscribe) do, taking no lock the yield thread respects.  The    *)
(* yield thread meanwhile creates, installs and destroys handler objects:  *)
(* the SUBACK handler (mqtt_msg_handlers_install), the UNSUBACK handler    *)
(* and mqtt_clean_session (mqtt_msg_handler_destory: mqtt_list_del, then   *)
(* platform_memory_free).  Its list operations are the atomic operators of *)
(* MqttList; the walk is one step per loop iteration.  A freed object      *)
(* keeps its stale fields, as free() leaves them.                          *)
(***************************************************************************)
EXTENDS MqttList

VARIABLES
    live,       \* handler objects currently allocated
    rpc,        \* the walking thread: "idle" or "walk"
    rcur,       \* its curr
    rnxt,       \* its next, read from curr->next before the body runs
    uaf         \* history: the walk has read a field of a freed object

rvars == <<next, prev, op, live, rpc, rcur, rnxt, uaf>>

(* A pointer the walk may dereference: the head or an allocated object.   *)
Valid(x) == x \in live \cup {ListHead}

(* x->next as the walk reads it; a pointer to no node reads Garbage.      *)
NextOf(x) == IF x \in AllNodes THEN next[x] ELSE Garbage

RInit == Init /\ live = {} /\ rpc = "idle" /\ rcur = ListHead
         /\ rnxt = ListHead /\ uaf = FALSE

readerVars == <<rpc, rcur, rnxt, uaf>>

(* mqtt_msg_handler_create: platform_memory_alloc, then mqtt_list_init.   *)
Create(e) ==
    /\ e \notin live
    /\ ListInit(e)
    /\ live' = live \cup {e}
    /\ UNCHANGED readerVars

(* mqtt_msg_handlers_install of a new filter: mqtt_list_add_tail.         *)
Install(e) ==
    /\ e \in live
    /\ SelfLoop(e)
    /\ ListAddTail(e)
    /\ UNCHANGED <<live, readerVars>>

(* mqtt_msg_handler_destory: mqtt_list_del, then the object is freed.     *)
Destroy(e) ==
    /\ e \in live
    /\ ListDel(e)
    /\ live' = live \ {e}
    /\ UNCHANGED readerVars

(* The for-loop head: curr = list->next, next = curr->next.               *)
WalkStart ==
    /\ rpc = "idle"
    /\ rpc' = "walk"
    /\ rcur' = next[ListHead]
    /\ rnxt' = NextOf(next[ListHead])
    /\ uaf' = (uaf \/ ~Valid(next[ListHead]))
    /\ UNCHANGED <<next, prev, op, live>>

(* One iteration: the body reads msg_handler->topic_filter of curr, then  *)
(* curr = next, next = curr->next.  curr == list ends the loop.           *)
WalkStep ==
    /\ rpc = "walk"
    /\ rcur # ListHead
    /\ rcur' = rnxt
    /\ rnxt' = NextOf(rnxt)
    /\ uaf' = (uaf \/ ~Valid(rcur) \/ ~Valid(rnxt))
    /\ UNCHANGED <<next, prev, op, live, rpc>>

WalkEnd ==
    /\ rpc = "walk"
    /\ rcur = ListHead
    /\ rpc' = "idle"
    /\ UNCHANGED <<next, prev, op, live, rcur, rnxt, uaf>>

RNext ==
    \/ \E e \in Nodes : Create(e) \/ Install(e) \/ Destroy(e)
    \/ WalkStart \/ WalkStep \/ WalkEnd

RSpec == RInit /\ [][RNext]_rvars

-----------------------------------------------------------------------------
(* The walk of the handler list never reads a handler object that the     *)
(* yield thread has freed: LIST_FOR_EACH_SAFE keeps curr and next across  *)
(* the body, and neither may be destroyed by mqtt_msg_handler_destory     *)
(* while the walk holds it.                                                *)
NoUseAfterFree == ~uaf
=============================================================================
