------------------------------ MODULE Channel ------------------------------
(***************************************************************************)
(* One established connection: the server's and the client's program, the  *)
(* handler thread the engine runs for each of them, and what the two       *)
(* threads share: a memory pool and a message queue per direction, and one *)
(* control_symbol per end.                                                 *)
(*                                                                         *)
(* An end e writes pool e and queue e; its peer reads them.  The program   *)
(* of an end makes one call at a time (send, recv, close) and waits for    *)
(* the answer of its handler, so an end is ONE sequential process whose    *)
(* step is recorded in pc[e]; s_ and r_ steps run in the program, the      *)
(* others in the handler.  A step is one load or store of a word that both *)
(* threads use.                                                            *)
(*                                                                         *)
(* No lock keeps the handlers apart: each is tested in one step and set in *)
(* another.  The queues are followed through that, step by step.  The      *)
(* rings of a pool are followed as long as no two handlers are at them at  *)
(* once; then the pool is torn, and what is done with it from then on may  *)
(* come out in any way (module Rings has the rings pointer by pointer).    *)
(*                                                                         *)
(* The eight flags of control_symbol are bit fields of one byte, so        *)
(* setting one loads the byte and stores it back: two steps.  The same     *)
(* holds for read_msg_number++ and --.                                     *)
(*                                                                         *)
(* Sizes are counted in blocks of 4096 bytes; a send is one block.         *)
(***************************************************************************)
EXTENDS Integers, Sequences, FiniteSets

CONSTANTS Server, Client,
          NB,          \* blocks of a pool (8 in the code: MAX_POOL / 4096)
          Budget,      \* Budget[e]: how many sends the program of e makes
          Closers,     \* the ends whose program may close
          Serialized   \* TRUE: the engine runs one request at a time

ASSUME ChannelAssumption ==
    /\ Server # Client
    /\ NB \in Nat \ {0}
    /\ Budget \in [{Server, Client} -> Nat]
    /\ Closers \subseteq {Server, Client}
    /\ Serialized \in BOOLEAN

\* A pool that is counted once for each of its two users is counted in 32 bits.
ASSUME PoolFits == 2 * NB < 1048576

Ends == {Server, Client}
Peer(e) == IF e = Server THEN Client ELSE Server
Blocks == 0 .. NB - 1
U32(n) == n % 1048576            \* 2^32 bytes are 2^20 blocks

Flags == {"bIs_close", "self_close", "bHas_message", "bHas_new_resource",
          "rio", "wio"}
Message == [off : Blocks, id : Nat]
Zeroed == [off |-> 0, id |-> 0]  \* a node as Malloc_Zero returns it

\* How often a pool's user list leads update_used_momory_pool_size_to_user to
\* the same smi: server and client share the one of the pool the client writes.
Users(e) == IF e = Client THEN 2 ELSE 1

VARIABLES
    idle_list, busy_list,   \* blocks of pool e, in list order
    idle_block,             \* counter of the fragment manager
    cur_byte_write,         \* blocks in use as the smi of pool e counts them
    wedged,                 \* pool e's lock was left locked by a return
    torn,                   \* two handlers were at the rings of pool e at once
    mem,                    \* mem[e][b]: number of the send that wrote block b
    queue,                  \* messages from e to its peer
    locked,                 \* the lock of that queue
    last,                   \* the next_block that reader e loaded is NULL
    read_msg_number,        \* of the reader e
    con,                    \* flags that are up in e's control_symbol
    pc,                     \* the step the program or handler of e is at
    todo, reg,              \* flag writes e's handler still makes, byte it loaded
    nreg,                   \* read_msg_number as e's handler loaded it
    st,                     \* block e's program got from Allocate
    block,                  \* sdbl of e's handler, kept from call to call
    got,                    \* what e's recv copied out of the pool
    reclaimed,              \* ends whose object close_self has freed
    crashed,                \* the engine died on a NULL pointer
    sent,                   \* sends e's program has made
    pushed, delivered,      \* history: ids queued by e, ids recv gave e
    dropped,                \* history: ids Committ answered 0 for, not queued
    result                  \* what the last call of e returned

poolVars == <<idle_list, busy_list, idle_block, cur_byte_write, wedged, torn>>
queueVars == <<queue, locked, last>>
flagVars == <<con, todo, reg>>
lifeVars == <<reclaimed, crashed>>
callVars == <<sent, delivered, dropped, result>>
vars == <<poolVars, mem, queueVars, read_msg_number, flagVars, pc, nreg, st, block,
          got, lifeVars, callVars, pushed>>
-----------------------------------------------------------------------------
Goto(e, step) == pc' = [pc EXCEPT ![e] = step]
Return(e, value) == Goto(e, "ready") /\ result' = [result EXCEPT ![e] = value]

Up(e, flag) == [end |-> e, flag |-> flag, up |-> TRUE]
Down(e, flag) == [end |-> e, flag |-> flag, up |-> FALSE]
Write(flags, w) == IF w.up THEN flags \cup {w.flag} ELSE flags \ {w.flag}

\* The steps between the first and the last one of a request to the engine.
InRequest(e) ==
    pc[e] \in {"a_take", "a_account", "c_admit", "c_lock", "c_link", "c_fill",
               "c_append", "c_filled", "c_appended", "c_resource", "c_flags",
               "c_store", "f_release", "f_account", "f_lock", "f_pop", "f_head",
               "f_unlock", "d_more", "d_one", "d_load", "d_store", "d_flags",
               "k_flags"}
MayStart(e) == ~crashed /\ (Serialized => ~InRequest(Peer(e)))

\* Both objects still name each other as target.
Linked == reclaimed = {}

\* The IO guard of requestA and committ, and the one of request and finish.
MayWrite(e) == /\ "wio" \in con[e] /\ "rio" \in con[Peer(e)]
               /\ "bIs_close" \notin con[e]
               /\ "self_close" \notin con[Peer(e)]
MayRead(e) == "rio" \in con[e] /\ "self_close" \notin con[e]
HasMessage(e) == Linked /\ MayRead(e) /\ queue[Peer(e)] # <<>>

-----------------------------------------------------------------------------
(* send: wait_for_sources, Allocate, copy into the pool, Committ *)

Send(e) ==
    /\ pc[e] = "ready" /\ sent[e] < Budget[e]
    /\ sent' = [sent EXCEPT ![e] = @ + 1]
    /\ Goto(e, "s_wait")
    /\ UNCHANGED <<poolVars, mem, queueVars, read_msg_number, flagVars, nreg, st,
                   block, got, lifeVars, delivered, dropped, result, pushed>>

wait_for_sources(e) ==
    /\ pc[e] = "s_wait" /\ "bHas_new_resource" \in con[e]
    /\ Goto(e, "a_guard")
    /\ UNCHANGED <<poolVars, mem, queueVars, read_msg_number, flagVars, nreg, st,
                   block, got, lifeVars, callVars, pushed>>

requestA(e) ==
    /\ pc[e] = "a_guard" /\ MayStart(e)
    /\ \/ Linked /\ MayWrite(e) /\ Goto(e, "a_take") /\ UNCHANGED result
       \/ ~(Linked /\ MayWrite(e)) /\ Return(e, "failed")
    /\ UNCHANGED <<poolVars, mem, queueVars, read_msg_number, flagVars, nreg, st,
                   block, got, lifeVars, sent, delivered, dropped, pushed>>

\* mutant: the counter is not updated
move_to_busy_uncounted(e) ==
    /\ idle_list' = [idle_list EXCEPT ![e] = Tail(@)]
    /\ busy_list' = [busy_list EXCEPT ![e] = Append(@, Head(idle_list[e]))]
    /\ UNCHANGED idle_block
\* mutant: add_listF in place of add_list
move_to_busy_front(e) ==
    /\ idle_list' = [idle_list EXCEPT ![e] = Tail(@)]
    /\ busy_list' = [busy_list EXCEPT ![e] = <<Head(idle_list[e])>> \o @]
    /\ idle_block' = [idle_block EXCEPT ![e] = @ - 1]
\* mutant: the block is not detached from the idle ring
move_to_busy_attached(e) ==
    /\ busy_list' = [busy_list EXCEPT ![e] = Append(@, Head(idle_list[e]))]
    /\ UNCHANGED <<idle_list, idle_block>>
\* mutant: the block is detached but not entered in the busy ring
move_to_busy_nowhere(e) ==
    /\ idle_list' = [idle_list EXCEPT ![e] = Tail(@)]
    /\ idle_block' = [idle_block EXCEPT ![e] = @ - 1]
    /\ UNCHANGED busy_list
\* The head of the idle ring goes to the tail of the busy ring.
move_to_busy_list(e) ==
    /\ idle_list' = [idle_list EXCEPT ![e] = Tail(@)]
    /\ busy_list' = [busy_list EXCEPT ![e] = Append(@, Head(idle_list[e]))]
    /\ idle_block' = [idle_block EXCEPT ![e] = @ - 1]

\* try_locked_memory_pool and lock_fragment_manager test the lock and then set
\* it: the two handlers of pool p can be past the tests together.
AtRings(p) == pc[p] = "a_take" /\ pc[Peer(p)] = "f_release"
AtAccounts(p) == pc[p] = "a_account" /\ pc[Peer(p)] = "f_account"

aplly_memory(e) ==
    /\ pc[e] = "a_take" /\ ~wedged[e] /\ ~torn[e]
    /\ \/ /\ idle_block[e] # 0
          /\ move_to_busy_list(e)
          /\ st' = [st EXCEPT ![e] = Head(idle_list[e])]
          /\ Goto(e, "a_account")
          /\ UNCHANGED result
       \/ /\ idle_block[e] = 0
          /\ Return(e, "failed")
          /\ UNCHANGED <<idle_list, busy_list, idle_block, st>>
    /\ UNCHANGED <<cur_byte_write, wedged, torn, mem, queueVars, read_msg_number,
                   flagVars, nreg, block, got, lifeVars, sent, delivered, dropped,
                   pushed>>

\* With the reader's handler at the rings too, or after that: any block, none, or
\* a NULL link followed.
aplly_memory_torn(e) ==
    /\ pc[e] = "a_take" /\ (AtRings(e) \/ torn[e])
    /\ torn' = [torn EXCEPT ![e] = TRUE]
    /\ \/ /\ \E b \in Blocks : st' = [st EXCEPT ![e] = b]
          /\ Goto(e, "a_account")
          /\ UNCHANGED <<result, crashed>>
       \/ Return(e, "failed") /\ UNCHANGED <<st, crashed>>
       \/ crashed' = TRUE /\ UNCHANGED <<st, pc, result>>
    /\ UNCHANGED <<idle_list, busy_list, idle_block, cur_byte_write, wedged, mem,
                   queueVars, read_msg_number, flagVars, nreg, block, got, reclaimed,
                   sent, delivered, dropped, pushed>>

\* The account is loaded and stored once per user; a store of the other handler
\* that falls in between undoes one of them.
Counted(p) == IF AtAccounts(p) THEN 0 .. Users(p) ELSE {Users(p)}

account_INCRASE(e) ==
    /\ pc[e] = "a_account" /\ (~wedged[e] \/ torn[e])
    /\ \E n \in Counted(e) :
           cur_byte_write' = [cur_byte_write EXCEPT ![e] = U32(@ + n)]
    /\ Goto(e, "s_copy")
    /\ UNCHANGED <<idle_list, busy_list, idle_block, wedged, torn, mem, queueVars,
                   read_msg_number, flagVars, nreg, st, block, got, lifeVars,
                   callVars, pushed>>

copy_in(e) ==
    /\ pc[e] = "s_copy"
    /\ mem' = [mem EXCEPT ![e][st[e]] = sent[e]]
    /\ Goto(e, "c_guard")
    /\ UNCHANGED <<poolVars, queueVars, read_msg_number, flagVars, nreg, st, block,
                   got, lifeVars, callVars, pushed>>

committ(e) ==
    /\ pc[e] = "c_guard" /\ MayStart(e)
    /\ \/ Linked /\ MayWrite(e) /\ Goto(e, "c_admit") /\ UNCHANGED result
       \/ ~(Linked /\ MayWrite(e)) /\ Return(e, "failed")
    /\ UNCHANGED <<poolVars, mem, queueVars, read_msg_number, flagVars, nreg, st,
                   block, got, lifeVars, sent, delivered, dropped, pushed>>

-----------------------------------------------------------------------------
(* add_queue.  Its "is there memory" test looks at the pool e READS; its    *)
(* refusal is not passed on: committ answers 0 either way.                  *)

Admits(e) == U32(NB - cur_byte_write[Peer(e)]) >= 1

add_queue_admit(e) ==
    /\ pc[e] = "c_admit"
    /\ \/ Admits(e) /\ Goto(e, "c_lock") /\ UNCHANGED <<dropped, result>>
       \/ /\ ~Admits(e)
          /\ dropped' = [dropped EXCEPT ![e] = @ \cup {sent[e]}]
          /\ Return(e, "sent")
    /\ UNCHANGED <<poolVars, mem, queueVars, read_msg_number, flagVars, nreg, st,
                   block, got, lifeVars, sent, delivered, pushed>>

\* mutant: the offset of the end of the block
NewMessageEnd(e) == [off |-> st[e] + 1, id |-> sent[e]]
NewMessage(e) == [off |-> st[e], id |-> sent[e]]

\* mutant: the new node goes to the head of the queue
EnqueueFront(messages, m) == <<m>> \o messages
Enqueue(messages, m) == Append(messages, m)

\* The lock is tested here and set by add_queue_link, whatever it is by then.
add_queue_lock(e) ==
    /\ pc[e] = "c_lock" /\ ~locked[e]
    /\ Goto(e, "c_link")
    /\ UNCHANGED <<poolVars, mem, queueVars, read_msg_number, flagVars, nreg, st,
                   block, got, lifeVars, callVars, pushed>>

\* Into an empty queue the node is linked first and filled afterwards.
add_queue_link(e) ==
    /\ pc[e] = "c_link"
    /\ locked' = [locked EXCEPT ![e] = TRUE]
    /\ \/ /\ queue[e] = <<>>
          /\ queue' = [queue EXCEPT ![e] = <<Zeroed>>]
          /\ Goto(e, "c_fill")
       \/ queue[e] # <<>> /\ Goto(e, "c_append") /\ UNCHANGED queue
    /\ UNCHANGED <<poolVars, mem, last, read_msg_number, flagVars, nreg, st, block,
                   got, lifeVars, callVars, pushed>>

\* The reader may have popped the node meanwhile: then it is lost, and if its
\* pointer is only loaded now, that pointer is NULL.
add_queue_fill(e) ==
    /\ pc[e] = "c_fill"
    /\ \/ /\ queue[e] # <<>>
          /\ queue' = [queue EXCEPT ![e] = <<NewMessage(e)>>]
          /\ pushed' = [pushed EXCEPT ![e] = Append(@, sent[e])]
          /\ Goto(e, "c_filled")
          /\ UNCHANGED crashed
       \/ /\ queue[e] = <<>>
          /\ \/ Goto(e, "c_filled") /\ UNCHANGED crashed
             \/ crashed' = TRUE /\ UNCHANGED pc
          /\ UNCHANGED <<queue, pushed>>
    /\ UNCHANGED <<poolVars, mem, locked, last, read_msg_number, flagVars, nreg, st,
                   block, got, reclaimed, callVars>>

\* Behind a tail the reader has popped meanwhile the node is lost.
add_queue_append(e) ==
    /\ pc[e] = "c_append"
    /\ \/ /\ queue[e] # <<>>
          /\ queue' = [queue EXCEPT ![e] = Enqueue(@, NewMessage(e))]
          /\ pushed' = [pushed EXCEPT ![e] = Append(@, sent[e])]
       \/ queue[e] = <<>> /\ UNCHANGED <<queue, pushed>>
    /\ todo' = [todo EXCEPT ![e] = <<Up(Peer(e), "bHas_message")>>]
    /\ Goto(e, "c_appended")
    /\ UNCHANGED <<poolVars, mem, locked, last, read_msg_number, con, reg, nreg, st,
                   block, got, lifeVars, callVars>>

add_queue_unlock(e) ==
    /\ pc[e] \in {"c_filled", "c_appended"}
    /\ locked' = [locked EXCEPT ![e] = FALSE]
    /\ Goto(e, IF pc[e] = "c_filled" THEN "c_resource" ELSE "c_flags")
    /\ UNCHANGED <<poolVars, mem, queue, last, read_msg_number, flagVars, nreg, st,
                   block, got, lifeVars, callVars, pushed>>

\* Reads head->memory_pool_info after the unlock: the head may be gone.
add_queue_resource(e) ==
    /\ pc[e] = "c_resource"
    /\ \/ /\ queue[e] # <<>>
          /\ \E room \in IF torn[e] THEN BOOLEAN ELSE {idle_block[e] > 0} :
                 todo' = [todo EXCEPT ![e] =
                     <<IF room THEN Up(e, "bHas_new_resource")
                               ELSE Down(e, "bHas_new_resource"),
                       Up(Peer(e), "bHas_message")>>]
          /\ Goto(e, "c_flags")
          /\ UNCHANGED crashed
       \/ queue[e] = <<>> /\ crashed' = TRUE /\ UNCHANGED <<todo, pc>>
    /\ UNCHANGED <<poolVars, mem, queueVars, read_msg_number, con, reg, nreg, st,
                   block, got, reclaimed, callVars, pushed>>

count_load(e) ==
    /\ pc[e] = "c_flags" /\ todo[e] = <<>>
    /\ nreg' = [nreg EXCEPT ![e] = read_msg_number[Peer(e)]]
    /\ Goto(e, "c_store")
    /\ UNCHANGED <<poolVars, mem, queueVars, read_msg_number, flagVars, st, block, got,
                   lifeVars, callVars, pushed>>

count_store(e) ==
    /\ pc[e] = "c_store"
    /\ read_msg_number' = [read_msg_number EXCEPT ![Peer(e)] = nreg[e] + 1]
    /\ Return(e, "sent")
    /\ UNCHANGED <<poolVars, mem, queueVars, flagVars, nreg, st, block, got, lifeVars,
                   sent, delivered, dropped, pushed>>

-----------------------------------------------------------------------------
(* Setting one flag of a control_symbol: load the byte, store it back. *)

flag_load(e) ==
    /\ pc[e] \in {"c_flags", "d_flags", "k_flags"}
    /\ todo[e] # <<>> /\ reg[e] = <<>>
    /\ reg' = [reg EXCEPT ![e] = <<con[Head(todo[e]).end]>>]
    /\ UNCHANGED <<poolVars, mem, queueVars, read_msg_number, con, todo, pc, nreg, st,
                   block, got, lifeVars, callVars, pushed>>

flag_store(e) ==
    /\ todo[e] # <<>> /\ reg[e] # <<>>
    /\ con' = [con EXCEPT ![Head(todo[e]).end] = Write(reg[e][1], Head(todo[e]))]
    /\ todo' = [todo EXCEPT ![e] = Tail(@)]
    /\ reg' = [reg EXCEPT ![e] = <<>>]
    /\ UNCHANGED <<poolVars, mem, queueVars, read_msg_number, pc, nreg, st, block, got,
                   lifeVars, callVars, pushed>>

-----------------------------------------------------------------------------
(* recv: poll bHas_message and bIs_close, GetMessage, copy out, Release *)

Recv(e) ==
    /\ pc[e] = "ready" /\ Goto(e, "r_test")
    /\ UNCHANGED <<poolVars, mem, queueVars, read_msg_number, flagVars, nreg, st, block,
                   got, lifeVars, callVars, pushed>>

test_message(e) ==
    /\ pc[e] \in {"r_test", "r_again"}
    /\ Goto(e, IF "bHas_message" \in con[e] THEN "g_get" ELSE "r_loop")
    /\ UNCHANGED <<poolVars, mem, queueVars, read_msg_number, flagVars, nreg, st, block,
                   got, lifeVars, callVars, pushed>>

test_closed(e) ==
    /\ pc[e] = "r_loop"
    /\ IF con[e] \cap {"bIs_close", "self_close"} # {}
       THEN Return(e, "eof")
       ELSE Goto(e, "r_again") /\ UNCHANGED result
    /\ UNCHANGED <<poolVars, mem, queueVars, read_msg_number, flagVars, nreg, st, block,
                   got, lifeVars, sent, delivered, dropped, pushed>>

request_message(e) ==
    /\ pc[e] = "g_get" /\ MayStart(e)
    /\ HasMessage(e)
    /\ block' = [block EXCEPT ![e] = Head(queue[Peer(e)])]
    /\ Goto(e, "r_copy")
    /\ UNCHANGED <<poolVars, mem, queueVars, read_msg_number, flagVars, nreg, st, got,
                   lifeVars, callVars, pushed>>

\* "No message" is answered with 1, which the handler does not take for an
\* error: the program is handed whatever sdbl the handler still holds.
request_empty(e) ==
    /\ pc[e] = "g_get" /\ MayStart(e)
    /\ Linked /\ MayRead(e) /\ queue[Peer(e)] = <<>> /\ "bIs_close" \notin con[e]
    /\ Goto(e, "r_copy")
    /\ UNCHANGED <<poolVars, mem, queueVars, read_msg_number, flagVars, nreg, st, block,
                   got, lifeVars, callVars, pushed>>

\* The error path of request and finish calls close_self for a peer that has
\* closed.  Of close_self only the end of the link is modelled: no behaviour
\* gets here (NeverReclaimed), and the properties of the pools assume Linked.
\* mutant: bHas_message is not looked at
CollectableAlways(e) == /\ Linked
                        /\ {"self_close", "bIs_close"} \subseteq con[Peer(e)]
Collectable(e) == /\ Linked
                  /\ {"self_close", "bIs_close"} \subseteq con[Peer(e)]
                  /\ "bHas_message" \notin con[e]
collect(e) ==
    reclaimed' = IF Collectable(e) THEN reclaimed \cup {Peer(e)} ELSE reclaimed

request_closed(e) ==
    /\ pc[e] = "g_get" /\ MayStart(e)
    /\ ~ HasMessage(e)
    /\ Linked /\ MayRead(e) => "bIs_close" \in con[e]
    /\ block' = [block EXCEPT ![e].off = -1]
    /\ collect(e)
    /\ Goto(e, "r_test")
    /\ UNCHANGED <<poolVars, mem, queueVars, read_msg_number, flagVars, nreg, st, got,
                   crashed, callVars, pushed>>

copy_out(e) ==
    /\ pc[e] = "r_copy"
    /\ IF block[e].off = -1
       THEN Goto(e, "r_loop") /\ UNCHANGED got
       ELSE /\ got' = [got EXCEPT ![e] = mem[Peer(e)][block[e].off]]
            /\ Goto(e, "f_guard")
    /\ UNCHANGED <<poolVars, mem, queueVars, read_msg_number, flagVars, nreg, st, block,
                   lifeVars, callVars, pushed>>

finish(e) ==
    /\ pc[e] = "f_guard" /\ MayStart(e)
    /\ \/ HasMessage(e) /\ Goto(e, "f_release") /\ UNCHANGED reclaimed
       \/ /\ ~ HasMessage(e)
          /\ IF MayRead(e) THEN UNCHANGED reclaimed ELSE collect(e)
          /\ Goto(e, "r_test")
    /\ UNCHANGED <<poolVars, mem, queueVars, read_msg_number, flagVars, nreg, st, block,
                   got, crashed, callVars, pushed>>

\* mutant: the block stays in the busy ring
move_to_idle_attached(p) ==
    /\ idle_list' = [idle_list EXCEPT ![p] = Append(@, Head(busy_list[p]))]
    /\ idle_block' = [idle_block EXCEPT ![p] = @ + 1]
    /\ UNCHANGED busy_list
\* The HEAD of the busy ring goes to the tail of the idle ring.
move_to_idle_list(p) ==
    /\ idle_list' = [idle_list EXCEPT ![p] = Append(@, Head(busy_list[p]))]
    /\ busy_list' = [busy_list EXCEPT ![p] = Tail(@)]
    /\ idle_block' = [idle_block EXCEPT ![p] = @ + 1]

InRing(ring, b) == \E x \in 1 .. Len(ring) : ring[x] = b

\* Looks the offset up in the busy ring, then moves the head of that ring.  An
\* unfilled node names no pool; with an empty ring the lock is not released.
release_memory(e) ==
    LET p == Peer(e)
        filled == Head(queue[p]) # Zeroed
    IN
    /\ pc[e] = "f_release" /\ ~wedged[p] /\ ~torn[p]
    /\ IF filled /\ InRing(busy_list[p], block[e].off)
       THEN move_to_idle_list(p)
       ELSE UNCHANGED <<idle_list, busy_list, idle_block>>
    /\ wedged' = [wedged EXCEPT ![p] = filled /\ busy_list[p] = <<>>]
    /\ Goto(e, "f_account")
    /\ UNCHANGED <<cur_byte_write, torn, mem, queueVars, read_msg_number, flagVars,
                   nreg, st, block, got, lifeVars, callVars, pushed>>

release_memory_torn(e) ==
    LET p == Peer(e) IN
    /\ pc[e] = "f_release" /\ (AtRings(p) \/ torn[p])
    /\ torn' = [torn EXCEPT ![p] = TRUE]
    /\ \/ Goto(e, "f_account") /\ UNCHANGED crashed
       \/ crashed' = TRUE /\ UNCHANGED pc
    /\ UNCHANGED <<idle_list, busy_list, idle_block, cur_byte_write, wedged, mem,
                   queueVars, read_msg_number, flagVars, nreg, st, block, got,
                   reclaimed, callVars, pushed>>

account_REDUCE(e) ==
    LET p == Peer(e)
        used == IF Head(queue[p]) = Zeroed THEN {0} ELSE Counted(p)
    IN
    /\ pc[e] = "f_account" /\ (~wedged[p] \/ torn[p])
    /\ \E n \in used : cur_byte_write' = [cur_byte_write EXCEPT ![p] = U32(@ - n)]
    /\ Goto(e, "f_lock")
    /\ UNCHANGED <<idle_list, busy_list, idle_block, wedged, torn, mem, queueVars,
                   read_msg_number, flagVars, nreg, st, block, got, lifeVars,
                   callVars, pushed>>

delete_head_queue_lock(e) ==
    /\ pc[e] = "f_lock" /\ ~locked[Peer(e)]
    /\ Goto(e, "f_pop")
    /\ UNCHANGED <<poolVars, mem, queueVars, read_msg_number, flagVars, nreg, st,
                   block, got, lifeVars, callVars, pushed>>

\* Loads next_block of the head.
delete_head_queue_next(e) ==
    /\ pc[e] = "f_pop"
    /\ locked' = [locked EXCEPT ![Peer(e)] = TRUE]
    /\ last' = [last EXCEPT ![e] = Tail(queue[Peer(e)]) = <<>>]
    /\ Goto(e, "f_head")
    /\ UNCHANGED <<poolVars, mem, queue, read_msg_number, flagVars, nreg, st, block,
                   got, lifeVars, callVars, pushed>>

\* What was appended since a NULL was loaded is lost.
delete_head_queue_pop(e) ==
    /\ pc[e] = "f_head"
    /\ queue' = [queue EXCEPT ![Peer(e)] = IF last[e] THEN <<>> ELSE Tail(@)]
    /\ Goto(e, "f_unlock")
    /\ UNCHANGED <<poolVars, mem, locked, last, read_msg_number, flagVars, nreg, st,
                   block, got, lifeVars, callVars, pushed>>

delete_head_queue_unlock(e) ==
    /\ pc[e] = "f_unlock"
    /\ locked' = [locked EXCEPT ![Peer(e)] = FALSE]
    /\ Goto(e, "d_more")
    /\ UNCHANGED <<poolVars, mem, queue, last, read_msg_number, flagVars, nreg, st,
                   block, got, lifeVars, callVars, pushed>>

\* recv returns block.check_sum, which is 0 for a node that was not filled yet.
RecvReturn(e) ==
    IF block[e].id = 0
    THEN Return(e, "eof") /\ UNCHANGED delivered
    ELSE /\ Return(e, "data")
         /\ delivered' = [delivered EXCEPT ![e] = Append(@, got[e])]

\* mutant: the last message is taken for one of several
MoreOrLastMessages(e) == read_msg_number[e] > 0
MoreMessages(e) == read_msg_number[e] > 1
\* mutant: the empty case is taken for the last message
LastOrNoMessage(e) == read_msg_number[e] <= 1
LastMessage(e) == read_msg_number[e] = 1

\* mutant: the sender is not told of the space
TellReader(e, flagWrite) == <<flagWrite>>
\* The flags set after a pop: the reader's message flag, the sender's space flag.
TellBoth(e, flagWrite) == <<flagWrite, Up(Peer(e), "bHas_new_resource")>>

count_more(e) ==
    /\ pc[e] = "d_more"
    /\ IF MoreMessages(e)
       THEN /\ todo' = [todo EXCEPT ![e] = TellBoth(e, Up(e, "bHas_message"))]
            /\ Goto(e, "d_load")
       ELSE Goto(e, "d_one") /\ UNCHANGED todo
    /\ UNCHANGED <<poolVars, mem, queueVars, read_msg_number, con, reg, nreg, st, block,
                   got, lifeVars, callVars, pushed>>

count_one(e) ==
    /\ pc[e] = "d_one"
    /\ \/ /\ LastMessage(e)
          /\ todo' = [todo EXCEPT ![e] = TellBoth(e, Down(e, "bHas_message"))]
          /\ Goto(e, "d_load")
          /\ UNCHANGED <<delivered, result>>
       \/ ~LastMessage(e) /\ RecvReturn(e) /\ UNCHANGED todo
    /\ UNCHANGED <<poolVars, mem, queueVars, read_msg_number, con, reg, nreg, st, block,
                   got, lifeVars, sent, dropped, pushed>>

decrement_load(e) ==
    /\ pc[e] = "d_load"
    /\ nreg' = [nreg EXCEPT ![e] = read_msg_number[e]]
    /\ Goto(e, "d_store")
    /\ UNCHANGED <<poolVars, mem, queueVars, read_msg_number, flagVars, st, block, got,
                   lifeVars, callVars, pushed>>

decrement_store(e) ==
    /\ pc[e] = "d_store"
    /\ read_msg_number' = [read_msg_number EXCEPT ![e] = nreg[e] - 1]
    /\ Goto(e, "d_flags")
    /\ UNCHANGED <<poolVars, mem, queueVars, flagVars, nreg, st, block, got, lifeVars,
                   callVars, pushed>>

finish_return(e) ==
    /\ pc[e] = "d_flags" /\ todo[e] = <<>>
    /\ RecvReturn(e)
    /\ UNCHANGED <<poolVars, mem, queueVars, read_msg_number, flagVars, nreg, st, block,
                   got, lifeVars, sent, dropped, pushed>>

-----------------------------------------------------------------------------
(* close: kill_self *)

OwnCloseWrites(e) ==
    <<Down(e, "rio"), Down(e, "wio"), Up(e, "bIs_close"), Up(e, "self_close"),
      Down(e, "bHas_message"), Down(e, "bHas_new_resource")>>
\* mutant: the peer is not told
TellNobody(e) == <<>>
PeerCloseWrites(e) == IF Linked THEN <<Up(Peer(e), "bIs_close")>> ELSE <<>>

Close(e) ==
    /\ pc[e] = "ready" /\ e \in Closers /\ MayStart(e)
    /\ todo' = [todo EXCEPT ![e] = OwnCloseWrites(e) \o PeerCloseWrites(e)]
    /\ Goto(e, "k_flags")
    /\ UNCHANGED <<poolVars, mem, queueVars, read_msg_number, con, reg, nreg, st, block,
                   got, lifeVars, callVars, pushed>>

\* Without a target the object is freed at once (close_self with no peer).
kill_self_return(e) ==
    /\ pc[e] = "k_flags" /\ todo[e] = <<>>
    /\ reclaimed' = IF Linked THEN reclaimed ELSE reclaimed \cup {e}
    /\ Goto(e, "closed")
    /\ UNCHANGED <<poolVars, mem, queueVars, read_msg_number, flagVars, nreg, st, block,
                   got, crashed, callVars, pushed>>

-----------------------------------------------------------------------------
Init ==
    /\ idle_list = [e \in Ends |-> [i \in 1 .. NB |-> i - 1]]
    /\ busy_list = [e \in Ends |-> <<>>]
    /\ idle_block = [e \in Ends |-> NB]
    /\ cur_byte_write = [e \in Ends |-> 0]
    /\ wedged = [e \in Ends |-> FALSE]
    /\ torn = [e \in Ends |-> FALSE]
    /\ mem = [e \in Ends |-> [b \in Blocks |-> 0]]
    /\ queue = [e \in Ends |-> <<>>]
    /\ locked = [e \in Ends |-> FALSE]
    /\ last = [e \in Ends |-> FALSE]
    /\ read_msg_number = [e \in Ends |-> 0]
    /\ con = [e \in Ends |-> {"rio", "wio", "bHas_new_resource"}]
    /\ pc = [e \in Ends |-> "ready"]
    /\ todo = [e \in Ends |-> <<>>]
    /\ reg = [e \in Ends |-> <<>>]
    /\ nreg = [e \in Ends |-> 0]
    /\ st = [e \in Ends |-> 0]
    /\ block = [e \in Ends |-> Zeroed]
    /\ got = [e \in Ends |-> 0]
    /\ reclaimed = {}
    /\ crashed = FALSE
    /\ sent = [e \in Ends |-> 0]
    /\ pushed = [e \in Ends |-> <<>>]
    /\ delivered = [e \in Ends |-> <<>>]
    /\ dropped = [e \in Ends |-> {}]
    /\ result = [e \in Ends |-> "none"]

\* What the program of e decides to do next.
Call(e) == Send(e) \/ Recv(e) \/ Close(e)

\* What follows from a call without anybody's decision.
Step(e) ==
    \/ wait_for_sources(e) \/ requestA(e) \/ aplly_memory(e) \/ aplly_memory_torn(e)
    \/ account_INCRASE(e) \/ copy_in(e) \/ committ(e) \/ add_queue_admit(e)
    \/ add_queue_lock(e) \/ add_queue_link(e) \/ add_queue_fill(e)
    \/ add_queue_append(e) \/ add_queue_unlock(e) \/ add_queue_resource(e)
    \/ count_load(e) \/ count_store(e) \/ flag_load(e) \/ flag_store(e)
    \/ test_message(e) \/ test_closed(e) \/ request_message(e) \/ request_empty(e)
    \/ request_closed(e) \/ copy_out(e) \/ finish(e) \/ release_memory(e)
    \/ release_memory_torn(e) \/ account_REDUCE(e) \/ delete_head_queue_lock(e)
    \/ delete_head_queue_next(e) \/ delete_head_queue_pop(e)
    \/ delete_head_queue_unlock(e) \/ count_more(e) \/ count_one(e)
    \/ decrement_load(e) \/ decrement_store(e) \/ finish_return(e)
    \/ kill_self_return(e)

Next == \E e \in Ends : Call(e) \/ (~crashed /\ Step(e))

\* Each program and each handler is a thread of its own that the kernel keeps
\* scheduling; no program is obliged to make another call.
Fairness == \A e \in Ends : WF_vars(~crashed /\ Step(e))

Spec == Init /\ [][Next]_vars /\ Fairness

-----------------------------------------------------------------------------
(* Invariants of every interleaving *)

Steps == {"ready", "s_wait", "a_guard", "a_take", "a_account", "s_copy", "c_guard",
          "c_admit", "c_lock", "c_link", "c_fill", "c_append", "c_filled",
          "c_appended", "c_resource", "c_flags", "c_store", "r_test", "r_loop",
          "r_again", "g_get", "r_copy", "f_guard", "f_release", "f_account",
          "f_lock", "f_pop", "f_head", "f_unlock", "d_more", "d_one", "d_load",
          "d_store", "d_flags", "k_flags", "closed"}

PoolTypes ==
    /\ idle_list \in [Ends -> Seq(Blocks)]
    /\ busy_list \in [Ends -> Seq(Blocks)]
    /\ idle_block \in [Ends -> Int]
    /\ wedged \in [Ends -> BOOLEAN]
    /\ torn \in [Ends -> BOOLEAN]
    /\ mem \in [Ends -> [Blocks -> Nat]]
    /\ st \in [Ends -> Blocks]
    /\ queue \in [Ends -> Seq(Message)]
    /\ sent \in [Ends -> Nat]
LockTypes ==
    /\ locked \in [Ends -> BOOLEAN]
    /\ last \in [Ends -> BOOLEAN]
ReaderTypes ==
    /\ block \in [Ends -> [off : Blocks \cup {-1}, id : Nat]]
    /\ got \in [Ends -> Nat]
    /\ cur_byte_write \in [Ends -> Int]
NumberTypes ==
    /\ read_msg_number \in [Ends -> Int]
    /\ nreg \in [Ends -> Int]
FlagTypes ==
    /\ con \in [Ends -> SUBSET Flags]
    /\ todo \in [Ends -> Seq([end : Ends, flag : Flags, up : BOOLEAN])]
    /\ reg \in [Ends -> Seq(SUBSET Flags)]
ControlTypes ==
    /\ pc \in [Ends -> Steps]
    /\ reclaimed \subseteq Ends
    /\ crashed \in BOOLEAN

\* Types of the variables.
TypeOK == PoolTypes /\ LockTypes /\ ReaderTypes /\ NumberTypes /\ FlagTypes /\ ControlTypes

Distinct(ring) == \A i, j \in 1 .. Len(ring) : ring[i] = ring[j] => i = j
Partition(idle, busy) ==
    /\ Distinct(idle) /\ Distinct(busy)
    /\ \A i \in 1 .. Len(idle) : ~InRing(busy, idle[i])
    /\ Len(idle) + Len(busy) = NB

\* The pools of an established connection that no two handlers have been at once
\* inside of.  What else the handlers do may overlap.
Whole(e) == Linked /\ ~torn[e]

\* Each whole pool's blocks are partitioned over its two rings, and the counter the
\* allocator trusts is the length of the idle ring (aplly_memory, release_memory).
PoolPartition == \A e \in Ends : Whole(e) =>
    /\ Partition(idle_list[e], busy_list[e])
    /\ idle_block[e] = Len(idle_list[e])

\* The messages of queue e its reader has not begun to give back, and whether
\* e's program has a block it has allocated and not yet queued.
Live(e) == IF pc[e] = "c_fill" THEN <<>>
           ELSE IF pc[Peer(e)] \in {"f_account", "f_lock", "f_pop", "f_head"}
                THEN Tail(queue[e])
           ELSE queue[e]
Held(e) == pc[e] \in {"a_account", "s_copy", "c_guard", "c_admit", "c_lock",
                      "c_link", "c_fill", "c_append"}

\* b stands before c in the ring, wherever the two stand.
Before(ring, b, c) == \A x, y \in 1 .. Len(ring) :
                          ring[x] = b /\ ring[y] = c => x < y
InOrder(ring, live) ==
    /\ \A i \in 1 .. Len(live) : InRing(ring, live[i].off)
    /\ \A i, j \in 1 .. Len(live) :
           i < j => Before(ring, live[i].off, live[j].off)
Behind(ring, live, b) ==
    InRing(ring, b) /\ \A i \in 1 .. Len(live) : Before(ring, live[i].off, b)

\* The blocks of the live messages, and after them the held one, stand in the
\* busy ring in the order of the queue, whatever the queue has lost to handlers
\* that were at it together.  So release_memory, which gives back the HEAD of that
\* ring whatever block it was asked for, never frees one of them.
InUseInRingOrder == \A e \in Ends : Whole(e) =>
    /\ InOrder(busy_list[e], Live(e))
    /\ Held(e) => Behind(busy_list[e], Live(e), st[e])

Intact(memory, live) ==
    \A i \in 1 .. Len(live) : memory[live[i].off] = live[i].id

\* No message queued for a whole pool is overwritten before its reader gives it
\* back (request, finish, aplly_memory).
QueuedIntact == \A e \in Ends : Whole(e) => Intact(mem[e], Live(e))

\* On a whole pool release_memory never takes the return that leaves it locked for
\* good, however the queue was disturbed before.
NeverWedged == \A e \in Ends : Whole(e) => ~wedged[e]

\* read_msg_number-- never wraps below zero, whatever ++ of the peer's handler
\* falls between the tests, the load and the store of it.
NumberNeverWraps == \A e \in Ends : read_msg_number[e] >= 0

\* GetMessage and Release never find the conditions under which they reclaim a
\* closed peer: the message flag they were called for is still up.
NeverReclaimed == reclaimed = {}

-----------------------------------------------------------------------------
(* What holds while the engine serves one request at a time *)

Quiet == \A e \in Ends : ~InRequest(e)
Open(e) == pc[e] \notin {"k_flags", "closed"}

\* Between requests bHas_message is up exactly while there is something to recv.
FlagTellsQueue == Quiet => \A e \in Ends : Open(e) =>
    ("bHas_message" \in con[e] <=> queue[Peer(e)] # <<>>)

\* Between requests every busy block counts once per user of its pool, which for
\* the pool the client writes is twice.
AccountExact == Quiet => \A e \in Ends :
    cur_byte_write[e] = Users(e) * Len(busy_list[e])

\* A connection is the stream its programs count on: the programs' calls, taken
\* at the points where messages enter and leave the queues, implement Stream.
Promise == INSTANCE Stream WITH posted <- pushed, received <- delivered,
                                shut <- {e \in Ends : ~Open(e)}
ImplementsStream == Promise!Spec

\* A block is lost only with a message add_queue refused or a committ that found
\* the connection closed: otherwise busy blocks are queued or in a sender's hand.
OneIf(b) == IF b THEN 1 ELSE 0
BusyAccounted == Quiet => \A e \in Ends : Open(e) /\ Open(Peer(e)) =>
    Len(busy_list[e]) = Len(queue[e]) + Cardinality(dropped[e]) + OneIf(Held(e))

\* A recv returns once there is something to return: a message, or the close.
InRecv(e) == pc[e] \in {"r_test", "r_loop", "r_again", "g_get", "r_copy", "f_guard",
                        "f_release", "f_account", "f_lock", "f_pop", "f_head",
                        "f_unlock", "d_more", "d_one", "d_load", "d_store", "d_flags"}
RecvReturns == \A e \in Ends :
    InRecv(e) /\ (queue[Peer(e)] # <<>> \/ ~Open(Peer(e))) ~> ~InRecv(e)

\* A sender that waits for space is woken once a block of its pool is idle.
SenderWakes == \A e \in Ends :
    pc[e] = "s_wait" /\ idle_block[e] > 0 ~> pc[e] # "s_wait"

=============================================================================
