------------------------------- MODULE GuruLists -------------------------------
(***************************************************************************)
(* The two linked lists of an adapter, pointer by pointer.  The driver     *)
(* takes no lock for either.                                               *)
(*                                                                         *)
(*   send_reply_list  start_xmit of each interface links its entry, in     *)
(*                    contexts of their own; the completion of an RX URB   *)
(*                    calls the oldest entry back and unlinks it.          *)
(*   msg_list         the probe links the message handlers one by one,     *)
(*                    while the completion of an RX URB already walks the  *)
(*                    list for the handler of a message.                   *)
(*                                                                         *)
(* An operation is the sequence of its stores, in the order of the kernel  *)
(* source (external: list_add_tail, list_del).  Another context may see    *)
(* any number of them done; on a "weak" machine, stores without a barrier  *)
(* between them, in any order.  On an "up" machine, one processor, only    *)
(* the softirq interrupts another context, and only one that has not       *)
(* disabled bottom halves: the probe, not start_xmit.                      *)
(***************************************************************************)
EXTENDS Naturals, FiniteSets, SequencesExt

CONSTANT Node   \* the reply entries, or the handlers

ASSUME ListsAssumption ==
  IsFiniteSet(Node) /\ Node \cap {"head", "NULL", "given", "rx"} = {}

VARIABLES
  list,      \* which of the two lists
  machine,   \* "up", "smp" or "weak"
  ptr,       \* the fields next, prev and callback of the head and the nodes
  busy,      \* per context: the pointers its operation uses, the stores left
  awake,     \* the interfaces whose TX queue is not stopped
  soft,      \* the completion handler: step, item, nxt, wanted, before, calls
  raced,     \* ghost: two operations used the same pointer, or an entry was
             \* linked that is still linked
  oops       \* whether a NULL pointer was followed

vars == <<list, machine, ptr, busy, awake, soft, raced, oops>>

Root == "head"
Null == "NULL"    \* or the poison of an unlinked entry
Given == "given"  \* a callback that is set
RX   == "rx"     \* the context of the completion handler

Threads == Node \cup {RX}

Idle == [cells |-> {}, todo |-> <<>>]
Rest == [step |-> "idle", item |-> Root, nxt |-> Root, wanted |-> Root,
         before |-> FALSE, calls |-> 0]

(* INIT_LIST_HEAD; the nodes are zeroed memory, the callbacks of the       *)
(* replies have been set by net_create.                                    *)
Init ==
  /\ list \in {"send_reply_list", "msg_list"}
  /\ machine \in {"up", "smp", "weak"}
  /\ ptr = [c \in {"next", "prev", "callback"} \X (Node \cup {Root}) |->
              CASE c[2] = Root        -> Root
                [] c[1] = "callback" /\ list = "send_reply_list" -> Given
                [] OTHER              -> Null]
  /\ busy = [t \in Threads |-> Idle]
  /\ awake = Node
  /\ soft = Rest
  /\ raced = FALSE /\ oops = FALSE

next(n) == ptr[<<"next", n>>]
prev(n) == ptr[<<"prev", n>>]

Idling(t) == busy[t] = Idle

(* Whether context t may take the processor.                               *)
Runs(t) ==
  \/ machine # "up"
  \/ t = RX /\ (list = "msg_list" \/ \A n \in Node : Idling(n))
  \/ t # RX /\ soft = Rest /\ \A n \in Node \ {t} : Idling(n)

-----------------------------------------------------------------------------
(* The stores of an operation.                                             *)

Set(field, n, value) == <<[cell |-> <<field, n>>, value |-> value]>>

list_add_tail(n) ==
  Set("prev", Root, n) \o Set("next", n, Root) \o Set("prev", n, prev(Root))
    \o Set("next", prev(Root), n)

list_del(n) ==
  Set("prev", next(n), prev(n)) \o Set("next", prev(n), next(n))
    \o Set("next", n, Null) \o Set("prev", n, Null)

(* Context t starts on the stores, having read the pointers of n.          *)
Begin(t, n, stores) ==
  LET cells == {s.cell : s \in ToSet(stores)} \cup {<<"next", n>>, <<"prev", n>>}
  IN  /\ busy' = [busy EXCEPT ![t] = [cells |-> cells, todo |-> stores]]
      /\ raced' = \/ \E u \in Threads \ {t} : busy[u].cells \cap cells # {}
                  \/ t # RX /\ next(n) # Null

(* What the handler stores only the handler follows: its order is kept.     *)
Store(t) ==
  /\ Runs(t)
  /\ \E i \in 1 .. Len(busy[t].todo) :
       LET s    == busy[t].todo[i]
           left == RemoveAt(busy[t].todo, i)
       IN  /\ i = 1 \/ (machine = "weak" /\ t # RX)
           /\ ptr' = [ptr EXCEPT ![s.cell] = s.value]
           /\ busy' = [busy EXCEPT ![t] = IF left = <<>> THEN Idle
                                          ELSE [@ EXCEPT !.todo = left]]
           /\ soft' = IF t = RX /\ left = <<>> THEN Rest ELSE soft
  /\ UNCHANGED <<list, machine, awake, raced, oops>>

-----------------------------------------------------------------------------
(* send_reply_list.                                                        *)

(* start_xmit of n calls canguru_wait_send_reply or                        *)
(* linguru_wait_send_reply, with the queue stopped.                        *)
wait_send_reply(n) ==
  /\ list = "send_reply_list"
  /\ Runs(n) /\ Idling(n) /\ n \in awake
  /\ awake' = awake \ {n}
  /\ Begin(n, n, list_add_tail(n))
  /\ UNCHANGED <<list, machine, ptr, soft, oops>>

(* Mutant: list_last_entry. *)
send_callback_last ==
  /\ list = "send_reply_list"
  /\ Runs(RX) /\ soft = Rest
  /\ next(Root) # Root
  /\ soft' = [soft EXCEPT !.step = "callback", !.item = prev(Root)]
  /\ UNCHANGED <<list, machine, ptr, busy, awake, raced, oops>>

(* canguru_send_callback, linguru_send_callback: list_empty, then          *)
(* list_first_entry.                                                       *)
send_callback ==
  /\ list = "send_reply_list"
  /\ Runs(RX) /\ soft = Rest
  /\ next(Root) # Root
  /\ soft' = [soft EXCEPT !.step = "callback", !.item = next(Root)]
  /\ UNCHANGED <<list, machine, ptr, busy, awake, raced, oops>>

(* reply->callback wakes the queue of the interface.                       *)
Callback ==
  /\ soft.step = "callback"
  /\ awake' = awake \cup {soft.item}
  /\ soft' = [soft EXCEPT !.step = "list_del"]
  /\ UNCHANGED <<list, machine, ptr, busy, raced, oops>>

Unlink ==
  /\ soft.step = "list_del" /\ Idling(RX)
  /\ Begin(RX, soft.item, list_del(soft.item))
  /\ UNCHANGED <<list, machine, ptr, awake, soft, oops>>

-----------------------------------------------------------------------------
(* msg_list.                                                               *)

(* Mutant: the handler is added and then filled in. *)
Handler_late(n) == list_add_tail(n) \o Set("callback", n, Given)

(* canguru_msg_net_init, linguru_msg_net_init: the fields of a message,    *)
(* here one store, then guru_add_msg.                                      *)
Handler(n) == Set("callback", n, Given) \o list_add_tail(n)

guru_add_msg(n) ==
  /\ list = "msg_list"
  /\ Runs(n) /\ \A m \in Node : Idling(m)
  /\ next(n) = Null
  /\ Begin(n, n, Handler(n))
  /\ UNCHANGED <<list, machine, ptr, awake, soft, oops>>

(* The entries as the next pointers link them.                             *)
Chain ==
  LET at[k \in 1 .. Cardinality(Node)] ==
        IF k = 1 THEN next(Root)
        ELSE IF at[k - 1] \in Node THEN next(at[k - 1]) ELSE Root
  IN  [k \in {j \in DOMAIN at : at[j] \in Node} |-> at[k]]

(* canguru_process_msg_list for a message whose id is that of the handler  *)
(* wanted; item and nxt as list_for_each_entry_safe sets them.  What the   *)
(* message holds (curr_msg_data) is GuruDevice's.                          *)
canguru_process_msg_list ==
  /\ list = "msg_list"
  /\ Runs(RX) /\ soft = Rest
  /\ \E n \in Node :
       soft' = [step |-> "walk", item |-> next(Root), nxt |-> next(next(Root)),
                wanted |-> n, before |-> n \in ToSet(Chain), calls |-> 0]
  /\ UNCHANGED <<list, machine, ptr, busy, awake, raced, oops>>

(* One turn of the loop.                                                   *)
WalkItem ==
  /\ soft.step = "walk" /\ soft.item # Root
  /\ LET hit == soft.item = soft.wanted /\ ptr[<<"callback", soft.item>>] = Given
     IN  \/ /\ soft.nxt # Null
            /\ soft' = [soft EXCEPT !.item = soft.nxt, !.nxt = next(soft.nxt),
                                    !.calls = @ + IF hit THEN 1 ELSE 0]
            /\ UNCHANGED oops
         \/ /\ soft.nxt = Null
            /\ oops' = TRUE
            /\ UNCHANGED soft
  /\ UNCHANGED <<list, machine, ptr, busy, awake, raced>>

WalkEnd ==
  /\ soft.step = "walk" /\ soft.item = Root
  /\ soft' = Rest
  /\ UNCHANGED <<list, machine, ptr, busy, awake, raced, oops>>

(* After a race or an oops nothing more is claimed.                        *)
Next ==
  /\ ~raced /\ ~oops
  /\ \/ \E t \in Threads : Store(t)
     \/ \E n \in Node : wait_send_reply(n) \/ guru_add_msg(n)
     \/ send_callback \/ Callback \/ Unlink
     \/ canguru_process_msg_list \/ WalkItem \/ WalkEnd

Spec == Init /\ [][Next]_vars

-----------------------------------------------------------------------------
(* Both lists are queues as long as no two operations under way use the    *)
(* same pointer and no entry is linked while it is linked, and on one      *)
(* processor neither ever happens.  So linking an entry during the unlink  *)
(* of another one is harmless, except when that one is the last; two       *)
(* start_xmits that link at the same time are not, and the callback that   *)
(* wakes the queue before list_del is not.                                 *)
Queue == INSTANCE GuruQueue WITH queue <- Chain, intact <- ~raced,
                                 parallel <- machine # "up"

IsQueue == Queue!Spec

(* A message for a handler that was in msg_list when its walk began is     *)
(* given to it, once, however the probe goes on linking handlers; one that *)
(* is linked meanwhile may be missed, but never called unfinished or       *)
(* twice.  The walk follows no NULL pointer.  (Without a barrier in        *)
(* list_add_tail this needs a machine that keeps the order of stores.)     *)
CalledOnce ==
  machine # "weak" =>
    /\ ~oops
    /\ soft.step = "walk" /\ soft.item = Root =>
         soft.calls \in IF soft.before THEN {1} ELSE {0, 1}

=============================================================================
