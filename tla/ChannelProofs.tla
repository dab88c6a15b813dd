--------------------------- MODULE ChannelProofs ---------------------------
(***************************************************************************)
(* Proofs about Channel for every number of blocks and every traffic.      *)
(*                                                                         *)
(* For every interleaving of the two handlers (Serialized or not): the     *)
(* counter of a reader's messages never passes below 0; in the memory      *)
(* pools no block is lost from the two rings or stands in both, the head   *)
(* of the busy ring is never a block somebody still needs, and no queued   *)
(* message is overwritten; a recv never reclaims the object of its peer.   *)
(*                                                                         *)
(* For an engine that serves one request at a time: the flags tell the     *)
(* queue, the account is exact, no block is lost but with a refused        *)
(* message, and the connection implements Stream.  One invariant holds the *)
(* argument together, SerialInv; its parts come one by one below, each     *)
(* with the lemma that every step keeps it.                                *)
(***************************************************************************)
EXTENDS Channel, FiniteSetTheorems, TLAPS

\* The ends are each other's peer.
LEMMA PeerFacts ==
    \A e \in Ends : Peer(e) \in Ends /\ Peer(e) # e /\ Peer(Peer(e)) = e
  BY ChannelAssumption DEF Ends, Peer

-----------------------------------------------------------------------------
(* Control: every action moves the pc of one end *)

\* Every action but the two of a flag write moves the end that takes it.
LEMMA OneMoves ==
    ASSUME Next
    PROVE  \/ UNCHANGED pc
           \/ \E e \in Ends, step \in Steps : Goto(e, step)
  BY SMT DEF Next, Call, Step, Goto, Return, Steps, RecvReturn, Send, Recv, Close,
     wait_for_sources, requestA, aplly_memory, aplly_memory_torn, account_INCRASE,
     copy_in, committ, add_queue_admit, add_queue_lock, add_queue_link,
     add_queue_fill, add_queue_append, add_queue_unlock, add_queue_resource,
     count_load, count_store, flag_load, flag_store, test_message, test_closed,
     request_message, request_empty, request_closed, copy_out, finish, release_memory,
     release_memory_torn, account_REDUCE, delete_head_queue_pop,
     delete_head_queue_lock, delete_head_queue_next, delete_head_queue_unlock,
     count_more, count_one, decrement_load, decrement_store, finish_return,
     kill_self_return

\* A step frees the object of one end, or none, and crashed only rises.
LEMMA LifeSteps ==
    ASSUME Next
    PROVE  /\ crashed' = crashed \/ crashed' = TRUE
           /\ \/ UNCHANGED reclaimed
              \/ \E e \in Ends : reclaimed' = reclaimed \cup {e}
  <1> USE DEF lifeVars
  <1>1. ASSUME NEW e \in Ends, collect(e)
        PROVE  UNCHANGED reclaimed \/ \E f \in Ends : reclaimed' = reclaimed \cup {f}
    BY <1>1, PeerFacts, SMT DEF collect
  <1>2. ASSUME NEW e \in Ends, Call(e) \/ Step(e)
        PROVE  /\ crashed' = crashed \/ crashed' = TRUE
               /\ \/ UNCHANGED reclaimed
                  \/ collect(e)
                  \/ reclaimed' = reclaimed \cup {e}
    BY <1>2, SMT DEF Call, Step, Send, Recv, Close, wait_for_sources, requestA,
       aplly_memory, aplly_memory_torn, account_INCRASE, copy_in, committ,
       add_queue_admit, add_queue_lock, add_queue_link, add_queue_fill,
       add_queue_append, add_queue_unlock, add_queue_resource, count_load,
       count_store, flag_load, flag_store, test_message, test_closed, request_message,
       request_empty, request_closed, copy_out, finish, release_memory,
       release_memory_torn, account_REDUCE, delete_head_queue_pop,
       delete_head_queue_lock, delete_head_queue_next, delete_head_queue_unlock,
       count_more, count_one, decrement_load, decrement_store, finish_return,
       kill_self_return
  <1> QED  BY <1>1, <1>2 DEF Next

\* A step keeps the types of pc, reclaimed and crashed.
LEMMA ControlTypesNext ==
    ASSUME ControlTypes, [Next]_vars
    PROVE  ControlTypes'
  <1>1. CASE UNCHANGED vars
    BY <1>1 DEF vars, lifeVars, ControlTypes
  <1>2. CASE Next
    <2>1. (pc \in [Ends -> Steps])'
      BY <1>2, OneMoves DEF Goto, ControlTypes
    <2>2. (reclaimed \subseteq Ends /\ crashed \in BOOLEAN)'
      BY <1>2, LifeSteps DEF ControlTypes
    <2> QED  BY <2>1, <2>2 DEF ControlTypes
  <1> QED  BY <1>1, <1>2

-----------------------------------------------------------------------------
(* read_msg_number *)

\* Who writes the numbers and the handlers' copies of them.
LEMMA NumberSteps ==
    ASSUME Next
    PROVE  \/ UNCHANGED <<read_msg_number, nreg>>
           \/ \E e \in Ends : \/ count_load(e) \/ count_store(e)
                              \/ decrement_load(e) \/ decrement_store(e)
  BY SMT DEF Next, Call, Step, Send, Recv, Close, wait_for_sources, requestA,
     aplly_memory, aplly_memory_torn, account_INCRASE, copy_in, committ,
     add_queue_admit, add_queue_lock, add_queue_link, add_queue_fill,
     add_queue_append, add_queue_unlock, add_queue_resource, flag_load, flag_store,
     test_message, test_closed, request_message, request_empty, request_closed,
     copy_out, finish, release_memory, release_memory_torn, account_REDUCE,
     delete_head_queue_pop, delete_head_queue_lock, delete_head_queue_next,
     delete_head_queue_unlock, count_more, count_one, finish_return, kill_self_return

\* How a handler comes to the decrement.
LEMMA DecrementSteps ==
    ASSUME Next, ControlTypes, NEW e \in Ends
    PROVE  /\ pc'[e] = "d_load" => pc[e] = "d_load" \/ count_more(e) \/ count_one(e)
           /\ pc'[e] = "d_store" => pc[e] = "d_store" \/ decrement_load(e)
  BY SMT DEF ControlTypes, Next, Call, Step, Goto, Return, Send, Recv, Close,
     wait_for_sources, requestA, aplly_memory, aplly_memory_torn, account_INCRASE,
     copy_in, committ, add_queue_admit, add_queue_lock, add_queue_link,
     add_queue_fill, add_queue_append, add_queue_unlock, add_queue_resource,
     count_load, count_store, flag_load, flag_store, test_message, test_closed,
     request_message, request_empty, request_closed, copy_out, finish, release_memory,
     release_memory_torn, account_REDUCE, delete_head_queue_pop,
     delete_head_queue_lock, delete_head_queue_next, delete_head_queue_unlock,
     count_more, count_one, decrement_load, decrement_store, finish_return,
     RecvReturn, kill_self_return

\* A handler that is about to decrement has seen a number that is not 0, and
\* the peer's handler, the only other writer, never stores a 0.
NumberInv ==
    /\ ControlTypes /\ NumberTypes
    /\ \A e \in Ends :
          /\ read_msg_number[e] >= 0
          /\ nreg[e] >= 0
          /\ pc[e] = "d_load" => read_msg_number[e] >= 1
          /\ pc[e] = "d_store" => nreg[e] >= 1

\* Initially nobody is about to decrement.
LEMMA NumberInit == Init => NumberInv
  <1> SUFFICES ASSUME Init PROVE NumberInv  OBVIOUS
  <1>1. ControlTypes
    <2>1. "ready" \in Steps  BY DEF Steps
    <2> QED  BY <2>1, Zenon DEF Init, ControlTypes
  <1>2. NumberTypes  BY SMT DEF Init, NumberTypes
  <1> QED  BY <1>1, <1>2, SMT DEF Init, NumberInv

\* Every step keeps what makes a decrement safe.
LEMMA NumberNext ==
    ASSUME NumberInv, [Next]_vars
    PROVE  NumberInv'
  <1> USE DEF NumberInv
  <1>1. CASE UNCHANGED vars
    BY <1>1 DEF vars, lifeVars, ControlTypes, NumberTypes
  <1>2. CASE Next
    <2>0. ControlTypes'  BY ControlTypesNext
    <2>1. CASE UNCHANGED <<read_msg_number, nreg>>
      <3>1. ASSUME NEW e \in Ends, count_more(e) \/ count_one(e), pc'[e] = "d_load"
            PROVE  read_msg_number[e] >= 1
        BY <3>1, SMT DEF count_more, count_one, MoreMessages, LastMessage, Return, Goto,
           RecvReturn, ControlTypes, NumberTypes
      <3>2. ASSUME NEW e \in Ends, decrement_load(e)
            PROVE  nreg'[e] >= 1
        BY <3>2 DEF decrement_load, NumberTypes
      <3> QED  BY <1>2, <2>0, <2>1, <3>1, <3>2, DecrementSteps DEF NumberTypes
    <2>2. ASSUME NEW e \in Ends, count_load(e)  PROVE NumberInv'
      BY <2>0, <2>2, PeerFacts, SMT DEF count_load, Goto, NumberTypes, ControlTypes
    <2>3. ASSUME NEW e \in Ends, count_store(e)  PROVE NumberInv'
      BY <2>0, <2>3, PeerFacts, SMT DEF count_store, Return, Goto, NumberTypes, ControlTypes
    <2>4. ASSUME NEW e \in Ends, decrement_load(e)  PROVE NumberInv'
      BY <2>0, <2>4, PeerFacts, SMT DEF decrement_load, Goto, NumberTypes, ControlTypes
    <2>5. ASSUME NEW e \in Ends, decrement_store(e)  PROVE NumberInv'
      BY <2>0, <2>5, PeerFacts, SMT DEF decrement_store, Goto, NumberTypes, ControlTypes
    <2> QED  BY <1>2, <2>1, <2>2, <2>3, <2>4, <2>5, NumberSteps
  <1> QED  BY <1>1, <1>2

\* delete_head_queue never takes read_msg_number below zero, though its tests,
\* its load and its store are apart and add_queue of the peer's handler writes
\* the number between them without a lock.
THEOREM NumberSafe == Spec => []NumberNeverWraps
  <1>1. NumberInv => NumberNeverWraps
    BY DEF NumberInv, NumberNeverWraps
  <1> QED  BY NumberInit, NumberNext, <1>1, PTL DEF Spec

-----------------------------------------------------------------------------
(* The two rings of a pool *)

\* Taking the head off a sequence: its members and its length.
LEMMA HeadAndTail ==
    ASSUME NEW S, NEW s \in Seq(S), s # <<>>
    PROVE  /\ Len(s) \in Nat \ {0} /\ Head(s) = s[1] /\ Head(s) \in S
           /\ Tail(s) \in Seq(S) /\ Len(Tail(s)) = Len(s) - 1
           /\ \A i \in 1 .. Len(s) - 1 : Tail(s)[i] = s[i + 1]
  OBVIOUS

\* Appending to a sequence: its members and its length.
LEMMA Appended ==
    ASSUME NEW S, NEW s \in Seq(S), NEW x \in S
    PROVE  /\ Append(s, x) \in Seq(S) /\ Len(Append(s, x)) = Len(s) + 1
           /\ Append(s, x) # <<>>
           /\ \A i \in 1 .. Len(s) : Append(s, x)[i] = s[i]
           /\ Append(s, x)[Len(s) + 1] = x
  OBVIOUS

\* A block that goes from the head of one ring to the tail of the other leaves
\* the pool partitioned, whichever way it goes.
LEMMA MoveHead ==
    ASSUME NEW from \in Seq(Blocks), NEW to \in Seq(Blocks), from # <<>>,
           Partition(from, to) \/ Partition(to, from)
    PROVE  /\ Partition(Tail(from), Append(to, Head(from)))
           /\ Partition(Append(to, Head(from)), Tail(from))
           /\ ~InRing(to, Head(from))
  <1> DEFINE f == Tail(from)
             t == Append(to, Head(from))
  <1>0. /\ Distinct(from) /\ Distinct(to)
        /\ \A i \in 1 .. Len(from), j \in 1 .. Len(to) : from[i] # to[j]
        /\ Len(from) + Len(to) = NB
    BY DEF Partition, InRing
  <1>1. /\ Len(from) \in Nat \ {0} /\ Head(from) = from[1] /\ Head(from) \in Blocks
        /\ f \in Seq(Blocks) /\ Len(f) = Len(from) - 1
        /\ \A i \in 1 .. Len(f) : f[i] = from[i + 1]
    BY HeadAndTail
  <1>2. /\ t \in Seq(Blocks) /\ Len(t) = Len(to) + 1 /\ Len(to) \in Nat
        /\ \A i \in 1 .. Len(to) : t[i] = to[i]
        /\ t[Len(to) + 1] = from[1]
    BY <1>1, Appended
  <1> HIDE DEF f, t
  <1>3. Distinct(f)
    BY <1>0, <1>1 DEF Distinct
  <1>4. ~InRing(to, from[1])
    BY <1>0, <1>1 DEF InRing
  <1>5. Distinct(t)
    BY <1>0, <1>2, <1>4 DEF Distinct, InRing
  <1>6. \A i \in 1 .. Len(f), j \in 1 .. Len(t) : f[i] # t[j]
    <2> SUFFICES ASSUME NEW i \in 1 .. Len(f), NEW j \in 1 .. Len(t) PROVE f[i] # t[j]
      OBVIOUS
    <2>1. CASE j = Len(to) + 1
      BY <2>1, <1>0, <1>1, <1>2 DEF Distinct
    <2>2. CASE j \in 1 .. Len(to)
      BY <2>2, <1>0, <1>1, <1>2
    <2> QED  BY <2>1, <2>2, <1>2
  <1>7. Len(f) + Len(t) = NB  BY <1>0, <1>1, <1>2
  <1>8. Partition(f, t) /\ Partition(t, f)
    BY <1>1, <1>2, <1>3, <1>5, <1>6, <1>7 DEF Partition, InRing
  <1> QED  BY <1>4, <1>8, <1>1 DEF f, t

-----------------------------------------------------------------------------
(* The order of the busy ring *)

\* Allocation: a block new to the ring stands behind all others.
LEMMA OrderAfterAllocation ==
    ASSUME NEW ring \in Seq(Blocks), NEW live \in Seq(Message), NEW b \in Blocks,
           InOrder(ring, live), ~InRing(ring, b)
    PROVE  InOrder(Append(ring, b), live) /\ Behind(Append(ring, b), live, b)
  <1> DEFINE r == Append(ring, b)
  <1>1. /\ Len(r) = Len(ring) + 1 /\ Len(ring) \in Nat
        /\ \A i \in 1 .. Len(ring) : r[i] = ring[i]
        /\ r[Len(ring) + 1] = b
    BY Appended
  <1> HIDE DEF r
  <1>2. \A c : InRing(ring, c) => InRing(r, c) /\ c # b
    BY <1>1 DEF InRing
  <1>3. ASSUME NEW c, NEW d, InRing(ring, c), InRing(ring, d), Before(ring, c, d)
        PROVE  Before(r, c, d)
    BY <1>1, <1>2, <1>3 DEF Before
  <1>4. ASSUME NEW c, InRing(ring, c)
        PROVE  Before(r, c, b)
    BY <1>1, <1>2, <1>4 DEF Before, InRing
  <1>5. InRing(r, b)  BY <1>1 DEF InRing
  <1> QED  BY <1>2, <1>3, <1>4, <1>5 DEF InOrder, Behind, r

\* Commit: the block behind all live ones becomes the last of them.
LEMMA OrderAfterCommit ==
    ASSUME NEW ring \in Seq(Blocks), NEW live \in Seq(Message), NEW m \in Message,
           InOrder(ring, live), Behind(ring, live, m.off)
    PROVE  InOrder(ring, Append(live, m))
  <1> DEFINE l == Append(live, m)
  <1>1. /\ Len(l) = Len(live) + 1 /\ Len(live) \in Nat
        /\ \A i \in 1 .. Len(live) : l[i] = live[i]
        /\ l[Len(live) + 1] = m
    BY Appended
  <1> HIDE DEF l
  <1>2. \A i \in 1 .. Len(l) : InRing(ring, l[i].off)
    BY <1>1 DEF InOrder, Behind
  <1>3. ASSUME NEW i \in 1 .. Len(l), NEW j \in 1 .. Len(l), i < j
        PROVE  Before(ring, l[i].off, l[j].off)
    <2>1. CASE j = Len(live) + 1
      BY <2>1, <1>1, <1>3 DEF Behind
    <2>2. CASE j \in 1 .. Len(live)
      BY <2>2, <1>1, <1>3 DEF InOrder
    <2> QED  BY <1>1, <2>1, <2>2
  <1> QED  BY <1>2, <1>3 DEF InOrder, l

\* Release: the head of the ring is at or before the block of the first live
\* message, so the blocks of the others stay, in their order.
LEMMA OrderAfterRelease ==
    ASSUME NEW ring \in Seq(Blocks), NEW live \in Seq(Message),
           InOrder(ring, live), live # <<>>
    PROVE  /\ ring # <<>>
           /\ InOrder(Tail(ring), Tail(live))
           /\ \A b : Behind(ring, live, b) => Behind(Tail(ring), Tail(live), b)
  <1> DEFINE r == Tail(ring)
             l == Tail(live)
  <1>0. /\ Len(live) \in Nat \ {0}
        /\ Len(l) = Len(live) - 1
        /\ \A i \in 1 .. Len(l) : l[i] = live[i + 1]
    BY HeadAndTail
  <1>1. InRing(ring, live[1].off)
    BY <1>0 DEF InOrder
  <1>2. ring # <<>>
    BY <1>1 DEF InRing
  <1>3. /\ Len(ring) \in Nat \ {0}
        /\ Len(r) = Len(ring) - 1
        /\ \A i \in 1 .. Len(r) : r[i] = ring[i + 1]
    BY <1>2, HeadAndTail
  <1> HIDE DEF r, l
  <1>4. ASSUME NEW b, InRing(ring, b), Before(ring, live[1].off, b)
        PROVE  InRing(r, b)
    <2>1. PICK x \in 1 .. Len(ring) : ring[x] = live[1].off  BY <1>1 DEF InRing
    <2>2. PICK y \in 1 .. Len(ring) : ring[y] = b  BY <1>4 DEF InRing
    <2>3. x < y  BY <1>4, <2>1, <2>2 DEF Before
    <2>4. y - 1 \in 1 .. Len(r) /\ r[y - 1] = b  BY <1>3, <2>1, <2>2, <2>3
    <2> QED  BY <2>4 DEF InRing
  <1>5. ASSUME NEW b, NEW c, Before(ring, b, c)
        PROVE  Before(r, b, c)
    <2> SUFFICES ASSUME NEW x \in 1 .. Len(r), NEW y \in 1 .. Len(r),
                        r[x] = b, r[y] = c
                 PROVE  x < y
      BY DEF Before
    <2>1. ring[x + 1] = b /\ ring[y + 1] = c /\ x + 1 \in 1 .. Len(ring)
          /\ y + 1 \in 1 .. Len(ring)
      BY <1>3
    <2>2. x + 1 < y + 1  BY <1>5, <2>1 DEF Before
    <2> QED  BY <2>2
  <1>6. InOrder(r, l)
    <2>1. ASSUME NEW i \in 1 .. Len(l)
          PROVE  InRing(r, l[i].off)
      <3>1. i + 1 \in 1 .. Len(live) /\ 1 \in 1 .. Len(live) /\ 1 < i + 1
        BY <1>0
      <3>2. InRing(ring, live[i + 1].off) /\ Before(ring, live[1].off, live[i + 1].off)
        BY <3>1 DEF InOrder
      <3> QED  BY <1>0, <1>4, <3>2
    <2>2. ASSUME NEW i \in 1 .. Len(l), NEW j \in 1 .. Len(l), i < j
          PROVE  Before(r, l[i].off, l[j].off)
      <3>1. i + 1 \in 1 .. Len(live) /\ j + 1 \in 1 .. Len(live) /\ i + 1 < j + 1
        BY <1>0, <2>2
      <3>2. Before(ring, live[i + 1].off, live[j + 1].off)
        BY <3>1 DEF InOrder
      <3> QED  BY <1>0, <1>5, <3>2
    <2> QED  BY <2>1, <2>2 DEF InOrder
  <1>7. ASSUME NEW b, Behind(ring, live, b)
        PROVE  Behind(r, l, b)
    BY <1>0, <1>4, <1>5, <1>7 DEF Behind
  <1> QED  BY <1>2, <1>6, <1>7 DEF r, l

\* A message that is given up leaves the others in order, with or without a
\* block going back.
LEMMA OrderAfterSkip ==
    ASSUME NEW ring \in Seq(Blocks), NEW live \in Seq(Message),
           InOrder(ring, live), live # <<>>
    PROVE  /\ InOrder(ring, Tail(live))
           /\ \A b : Behind(ring, live, b) => Behind(ring, Tail(live), b)
  <1> DEFINE l == Tail(live)
  <1>0. /\ Len(live) \in Nat \ {0}
        /\ Len(l) = Len(live) - 1
        /\ \A i \in 1 .. Len(l) : l[i] = live[i + 1]
    BY HeadAndTail
  <1> HIDE DEF l
  <1>1. InOrder(ring, l)
    <2>1. ASSUME NEW i \in 1 .. Len(l)
          PROVE  InRing(ring, l[i].off)
      BY <1>0 DEF InOrder
    <2>2. ASSUME NEW i \in 1 .. Len(l), NEW j \in 1 .. Len(l), i < j
          PROVE  Before(ring, l[i].off, l[j].off)
      <3>1. i + 1 \in 1 .. Len(live) /\ j + 1 \in 1 .. Len(live) /\ i + 1 < j + 1
        BY <1>0, <2>2
      <3> QED  BY <1>0, <3>1 DEF InOrder
    <2> QED  BY <2>1, <2>2 DEF InOrder
  <1>2. ASSUME NEW b, Behind(ring, live, b) PROVE Behind(ring, l, b)
    BY <1>0, <1>2 DEF Behind
  <1> QED  BY <1>1, <1>2 DEF l

-----------------------------------------------------------------------------
(* The invariant of the pools *)

Releasing(e) == pc[e] \in {"f_release", "f_account", "f_lock", "f_pop", "f_head"}
Filled(e) == pc[e] \in {"c_guard", "c_admit", "c_lock", "c_link", "c_fill", "c_append"}

\* What a pool is that no two handlers have been at the rings of at once.
RingOK(e) ==
    /\ Partition(idle_list[e], busy_list[e])
    /\ idle_block[e] = Len(idle_list[e])
    /\ ~wedged[e]
    /\ InOrder(busy_list[e], Live(e))
    /\ Held(e) => Behind(busy_list[e], Live(e), st[e])
    /\ Intact(mem[e], Live(e))
    /\ Filled(e) => mem[e][st[e]] = sent[e]

\* What a queue is however its two handlers got past the lock: the reader alone
\* takes from it, and what the writer fills is the node it linked, if that is there.
QueueOK(e) ==
    /\ pc[e] = "c_fill" => queue[e] \in {<<Zeroed>>, <<>>}
    /\ Releasing(Peer(e)) => queue[e] # <<>>

PoolOK(e) == QueueOK(e) /\ (~torn[e] => RingOK(e))

PoolInv == /\ PoolTypes /\ ControlTypes
           /\ \A e \in Ends : PoolOK(e)

dataVars == <<idle_list, busy_list, idle_block, wedged, torn, mem, st, queue, sent>>

\* Moves that change nothing of the pools, and nothing of what PoolOK asks of
\* them but what the new step and the guard before it grant.
CalmMove(e, step) ==
    /\ Goto(e, step)
    /\ \/ /\ pc[e] \notin {"c_fill", "f_account", "f_lock", "f_pop", "f_head"}
          /\ step \notin {"a_account", "s_copy", "c_guard", "c_admit", "c_lock",
                          "c_link", "c_fill", "c_append", "f_release", "f_account",
                          "f_lock", "f_pop", "f_head"}
       \/ pc[e] = "a_account" /\ step = "s_copy"
       \/ pc[e] = "c_guard" /\ step = "c_admit"
       \/ pc[e] = "c_admit" /\ step = "c_lock"
       \/ pc[e] = "c_lock" /\ step = "c_link"
       \/ pc[e] = "c_link" /\ step = "c_append"
       \/ pc[e] = "f_guard" /\ step = "f_release" /\ queue[Peer(e)] # <<>>
       \/ pc[e] = "f_account" /\ step = "f_lock"
       \/ pc[e] = "f_lock" /\ step = "f_pop"
       \/ pc[e] = "f_pop" /\ step = "f_head"

\* Which actions touch pools, queues and memory, and how the others move pc.
LEMMA PoolSteps ==
    ASSUME Next
    PROVE  \/ UNCHANGED <<dataVars, pc>>
           \/ \E e \in Ends :
                 \/ Send(e) \/ aplly_memory(e) \/ aplly_memory_torn(e) \/ copy_in(e)
                 \/ add_queue_link(e) \/ add_queue_fill(e) \/ add_queue_append(e)
                 \/ release_memory(e) \/ release_memory_torn(e)
                 \/ delete_head_queue_pop(e)
                 \/ UNCHANGED dataVars /\ \E step : CalmMove(e, step)
  <1> DEFINE Calm(e) == UNCHANGED dataVars /\ \E step : CalmMove(e, step)
  <1> USE DEF dataVars, CalmMove, Goto, Return, poolVars, queueVars, callVars
  <1>1. ASSUME NEW e \in Ends, add_queue_resource(e)
        PROVE  UNCHANGED <<dataVars, pc>> \/ Calm(e)
    <2>1. UNCHANGED dataVars
      BY <1>1, SMT DEF add_queue_resource
    <2>2. UNCHANGED pc \/ (pc' = [pc EXCEPT ![e] = "c_flags"] /\ pc[e] = "c_resource")
      BY <1>1, Zenon DEF add_queue_resource
    <2>3. UNCHANGED pc \/ CalmMove(e, "c_flags")
      BY <2>2, SMT
    <2> QED  BY <2>1, <2>3, Zenon
  <1>2. ASSUME NEW e \in Ends, flag_load(e) \/ flag_store(e)
        PROVE  UNCHANGED <<dataVars, pc>>
    BY <1>2, SMT DEF flag_load, flag_store
  <1>3. ASSUME NEW e \in Ends, wait_for_sources(e) PROVE Calm(e)
    <2>1. UNCHANGED dataVars /\ (CalmMove(e, "a_guard"))
      BY <1>3, SMT DEF wait_for_sources
    <2> QED  BY <2>1, Zenon
  <1>4. ASSUME NEW e \in Ends, requestA(e) PROVE Calm(e)
    <2>1. UNCHANGED dataVars /\ (CalmMove(e, "a_take") \/ CalmMove(e, "ready"))
      BY <1>4, SMT DEF requestA
    <2> QED  BY <2>1, Zenon
  <1>5. ASSUME NEW e \in Ends, account_INCRASE(e) PROVE Calm(e)
    <2>1. UNCHANGED dataVars /\ (CalmMove(e, "s_copy"))
      BY <1>5, SMT DEF account_INCRASE
    <2> QED  BY <2>1, Zenon
  <1>6. ASSUME NEW e \in Ends, committ(e) PROVE Calm(e)
    <2>1. UNCHANGED dataVars /\ (CalmMove(e, "c_admit") \/ CalmMove(e, "ready"))
      BY <1>6, SMT DEF committ
    <2> QED  BY <2>1, Zenon
  <1>7. ASSUME NEW e \in Ends, add_queue_admit(e) PROVE Calm(e)
    <2>1. UNCHANGED dataVars /\ (CalmMove(e, "c_lock") \/ CalmMove(e, "ready"))
      BY <1>7, SMT DEF add_queue_admit
    <2> QED  BY <2>1, Zenon
  <1>8. ASSUME NEW e \in Ends, count_load(e) PROVE Calm(e)
    <2>1. UNCHANGED dataVars /\ (CalmMove(e, "c_store"))
      BY <1>8, SMT DEF count_load
    <2> QED  BY <2>1, Zenon
  <1>9. ASSUME NEW e \in Ends, count_store(e) PROVE Calm(e)
    <2>1. UNCHANGED dataVars /\ (CalmMove(e, "ready"))
      BY <1>9, SMT DEF count_store
    <2> QED  BY <2>1, Zenon
  <1>10. ASSUME NEW e \in Ends, Recv(e) PROVE Calm(e)
    <2>1. UNCHANGED dataVars /\ (CalmMove(e, "r_test"))
      BY <1>10, SMT DEF Recv
    <2> QED  BY <2>1, Zenon
  <1>11. ASSUME NEW e \in Ends, test_message(e) PROVE Calm(e)
    <2>1. UNCHANGED dataVars /\ pc[e] \in {"r_test", "r_again"}
      BY <1>11, SMT DEF test_message
    <2>2. Goto(e, "g_get") \/ Goto(e, "r_loop")
      BY <1>11, Zenon DEF test_message
    <2>3. CalmMove(e, "g_get") \/ CalmMove(e, "r_loop")
      BY <2>1, <2>2, SMT
    <2> QED  BY <2>1, <2>3, Zenon
  <1>12. ASSUME NEW e \in Ends, test_closed(e) PROVE Calm(e)
    <2>1. UNCHANGED dataVars /\ (CalmMove(e, "r_again") \/ CalmMove(e, "ready"))
      BY <1>12, SMT DEF test_closed
    <2> QED  BY <2>1, Zenon
  <1>13. ASSUME NEW e \in Ends, request_message(e) PROVE Calm(e)
    <2>1. UNCHANGED dataVars /\ (CalmMove(e, "r_copy"))
      BY <1>13, SMT DEF request_message
    <2> QED  BY <2>1, Zenon
  <1>14. ASSUME NEW e \in Ends, request_empty(e) PROVE Calm(e)
    <2>1. UNCHANGED dataVars /\ (CalmMove(e, "r_copy"))
      BY <1>14, SMT DEF request_empty
    <2> QED  BY <2>1, Zenon
  <1>15. ASSUME NEW e \in Ends, request_closed(e) PROVE Calm(e)
    <2>1. UNCHANGED dataVars /\ (CalmMove(e, "r_test"))
      BY <1>15, SMT DEF request_closed
    <2> QED  BY <2>1, Zenon
  <1>16. ASSUME NEW e \in Ends, copy_out(e) PROVE Calm(e)
    <2>1. UNCHANGED dataVars /\ (CalmMove(e, "r_loop") \/ CalmMove(e, "f_guard"))
      BY <1>16, SMT DEF copy_out
    <2> QED  BY <2>1, Zenon
  <1>17. ASSUME NEW e \in Ends, finish(e) PROVE Calm(e)
    <2>1. UNCHANGED dataVars /\ (CalmMove(e, "f_release") \/ CalmMove(e, "r_test"))
      BY <1>17, SMT DEF finish, HasMessage
    <2> QED  BY <2>1, Zenon
  <1>18. ASSUME NEW e \in Ends, account_REDUCE(e) PROVE Calm(e)
    <2>1. UNCHANGED dataVars /\ (CalmMove(e, "f_lock"))
      BY <1>18, SMT DEF account_REDUCE
    <2> QED  BY <2>1, Zenon
  <1>19. ASSUME NEW e \in Ends, count_more(e) PROVE Calm(e)
    <2>1. UNCHANGED dataVars /\ (CalmMove(e, "d_load") \/ CalmMove(e, "d_one"))
      BY <1>19, SMT DEF count_more
    <2> QED  BY <2>1, Zenon
  <1>20. ASSUME NEW e \in Ends, count_one(e) PROVE Calm(e)
    <2>1. UNCHANGED dataVars /\ (CalmMove(e, "d_load") \/ CalmMove(e, "ready"))
      BY <1>20, SMT DEF count_one, RecvReturn
    <2> QED  BY <2>1, Zenon
  <1>21. ASSUME NEW e \in Ends, decrement_load(e) PROVE Calm(e)
    <2>1. UNCHANGED dataVars /\ (CalmMove(e, "d_store"))
      BY <1>21, SMT DEF decrement_load
    <2> QED  BY <2>1, Zenon
  <1>22. ASSUME NEW e \in Ends, decrement_store(e) PROVE Calm(e)
    <2>1. UNCHANGED dataVars /\ (CalmMove(e, "d_flags"))
      BY <1>22, SMT DEF decrement_store
    <2> QED  BY <2>1, Zenon
  <1>23. ASSUME NEW e \in Ends, finish_return(e) PROVE Calm(e)
    <2>1. UNCHANGED dataVars /\ (CalmMove(e, "ready"))
      BY <1>23, SMT DEF finish_return, RecvReturn
    <2> QED  BY <2>1, Zenon
  <1>24. ASSUME NEW e \in Ends, Close(e) PROVE Calm(e)
    <2>1. UNCHANGED dataVars /\ (CalmMove(e, "k_flags"))
      BY <1>24, SMT DEF Close
    <2> QED  BY <2>1, Zenon
  <1>25. ASSUME NEW e \in Ends, kill_self_return(e) PROVE Calm(e)
    <2>1. UNCHANGED dataVars /\ (CalmMove(e, "closed"))
      BY <1>25, SMT DEF kill_self_return
    <2> QED  BY <2>1, Zenon
  <1>26. ASSUME NEW e \in Ends, add_queue_lock(e) PROVE Calm(e)
    <2>1. UNCHANGED dataVars /\ (CalmMove(e, "c_link"))
      BY <1>26, SMT DEF add_queue_lock
    <2> QED  BY <2>1, Zenon
  <1>27. ASSUME NEW e \in Ends, add_queue_unlock(e) PROVE Calm(e)
    <2>1. UNCHANGED dataVars /\ pc[e] \in {"c_filled", "c_appended"}
      BY <1>27, SMT DEF add_queue_unlock
    <2>2. Goto(e, "c_resource") \/ Goto(e, "c_flags")
      BY <1>27, Zenon DEF add_queue_unlock
    <2>3. CalmMove(e, "c_resource") \/ CalmMove(e, "c_flags")
      BY <2>1, <2>2, SMT
    <2> QED  BY <2>1, <2>3, Zenon
  <1>28. ASSUME NEW e \in Ends, delete_head_queue_lock(e) \/ delete_head_queue_next(e)
         PROVE  Calm(e)
    <2>1. UNCHANGED dataVars /\ (CalmMove(e, "f_pop") \/ CalmMove(e, "f_head"))
      BY <1>28, SMT DEF delete_head_queue_lock, delete_head_queue_next
    <2> QED  BY <2>1, Zenon
  <1>29. ASSUME NEW e \in Ends, delete_head_queue_unlock(e) PROVE Calm(e)
    <2>1. UNCHANGED dataVars /\ (CalmMove(e, "d_more"))
      BY <1>29, SMT DEF delete_head_queue_unlock
    <2> QED  BY <2>1, Zenon
  <1> HIDE DEF Calm
  <1>30. ASSUME NEW e \in Ends, Call(e) \/ Step(e)
        PROVE  \/ UNCHANGED <<dataVars, pc>>
               \/ Send(e) \/ aplly_memory(e) \/ aplly_memory_torn(e) \/ copy_in(e)
               \/ add_queue_link(e) \/ add_queue_fill(e) \/ add_queue_append(e)
               \/ release_memory(e) \/ release_memory_torn(e)
               \/ delete_head_queue_pop(e) \/ Calm(e)
    BY <1>1, <1>2, <1>3, <1>4, <1>5, <1>6, <1>7, <1>8, <1>9, <1>10, <1>11,
       <1>12, <1>13, <1>14, <1>15, <1>16, <1>17, <1>18, <1>19, <1>20, <1>21,
       <1>22, <1>23, <1>24, <1>25, <1>26, <1>27, <1>28, <1>29, <1>30, Zenon
       DEF Call, Step
  <1> QED  BY <1>30 DEF Next, Calm

\* Initially all blocks are idle.
LEMMA PoolInit == Init => PoolInv
  <1> SUFFICES ASSUME Init PROVE PoolInv  OBVIOUS
  <1>1. ControlTypes
    <2>1. "ready" \in Steps  BY DEF Steps
    <2> QED  BY <2>1, Zenon DEF Init, ControlTypes
  <1> DEFINE ring == [i \in 1 .. NB |-> i - 1]
  <1>2. /\ ring \in Seq(Blocks) /\ Len(ring) = NB /\ Distinct(ring)
        /\ 0 \in Blocks
    BY ChannelAssumption DEF Blocks, Distinct
  <1>3. PoolTypes
    BY <1>2, ChannelAssumption, SMT DEF Init, PoolTypes
  <1>4. Partition(ring, <<>>)
    BY <1>2, ChannelAssumption DEF Partition, InRing, Distinct
  <1> HIDE DEF ring
  <1>5. ASSUME NEW e \in Ends PROVE PoolOK(e)
    <2>1. /\ idle_list[e] = ring /\ busy_list[e] = <<>> /\ idle_block[e] = NB
          /\ ~wedged[e] /\ queue[e] = <<>> /\ pc[e] = "ready" /\ pc[Peer(e)] = "ready"
      BY PeerFacts, SMT DEF Init, ring
    <2>2. Live(e) = <<>> /\ ~Held(e) /\ ~Filled(e) /\ ~Releasing(Peer(e))
      BY <2>1 DEF Live, Held, Filled, Releasing
    <2>3. InOrder(<<>>, <<>>) /\ Intact(mem[e], <<>>)
      BY DEF InOrder, Intact
    <2> QED  BY <1>2, <1>4, <2>1, <2>2, <2>3 DEF PoolOK, QueueOK, RingOK
  <1> QED  BY <1>1, <1>3, <1>5 DEF PoolInv

-----------------------------------------------------------------------------
(* The steps *)

\* What PoolOK(f) reads of another end's move.
LEMMA Unmoved ==
    ASSUME PoolInv, NEW e \in Ends, NEW step, Goto(e, step)
    PROVE  /\ pc'[e] = step /\ pc'[Peer(e)] = pc[Peer(e)]
           /\ \A f \in Ends : f = e \/ f = Peer(e)
           /\ Peer(e) \in Ends /\ Peer(e) # e /\ Peer(Peer(e)) = e
  <1>1. /\ Peer(e) \in Ends /\ Peer(e) # e /\ Peer(Peer(e)) = e
    BY PeerFacts
  <1>2. \A f \in Ends : f = e \/ f = Peer(e)
    BY DEF Ends, Peer
  <1>3. pc'[e] = step /\ pc'[Peer(e)] = pc[Peer(e)]
    BY <1>1 DEF PoolInv, ControlTypes, Goto
  <1> QED  BY <1>1, <1>2, <1>3

\* A step that leaves pools, queues and memory alone keeps the invariant.
LEMMA CalmKeeps ==
    ASSUME PoolInv, ControlTypes', NEW e \in Ends, NEW step, CalmMove(e, step),
           UNCHANGED dataVars
    PROVE  PoolInv'
  <1>0. Goto(e, step)  BY DEF CalmMove
  <1>1. PoolTypes'  BY DEF PoolInv, PoolTypes, dataVars
  <1>2. PoolOK(e)'
    <2>0. PoolOK(e)  BY DEF PoolInv
    <2>1. Live(e)' = Live(e)
      BY <1>0, Unmoved, SMT DEF Live, CalmMove, dataVars
    <2>2. /\ Held(e)' => Held(e)
          /\ Filled(e)' => Filled(e)
          /\ pc'[e] # "c_fill"
          /\ Releasing(Peer(e))' = Releasing(Peer(e))
      BY <1>0, Unmoved, SMT DEF Held, Filled, Releasing, CalmMove
    <2> QED  BY <2>0, <2>1, <2>2, SMT DEF PoolOK, QueueOK, RingOK, dataVars
  <1>3. PoolOK(Peer(e))'
    <2>0. PoolOK(Peer(e))  BY <1>0, Unmoved DEF PoolInv
    <2>1. Live(Peer(e))' = Live(Peer(e))
      BY <1>0, Unmoved, SMT DEF Live, CalmMove, dataVars
    <2>2. /\ Held(Peer(e))' = Held(Peer(e))
          /\ Filled(Peer(e))' = Filled(Peer(e))
          /\ Releasing(e)' => Releasing(e) \/ queue[Peer(e)] # <<>>
      BY <1>0, Unmoved, SMT DEF Held, Filled, Releasing, CalmMove
    <2> QED  BY <1>0, <2>0, <2>1, <2>2, Unmoved, SMT
             DEF PoolOK, QueueOK, RingOK, dataVars
  <1> QED  BY <1>0, <1>1, <1>2, <1>3, Unmoved DEF PoolInv

SamePool(f) ==
    /\ idle_list'[f] = idle_list[f] /\ busy_list'[f] = busy_list[f]
    /\ idle_block'[f] = idle_block[f] /\ wedged'[f] = wedged[f]
    /\ torn'[f] = torn[f]
    /\ mem'[f] = mem[f] /\ st'[f] = st[f]
    /\ queue'[f] = queue[f] /\ sent'[f] = sent[f]

\* A sender's step does not touch the pool it reads.
LEMMA ReadPoolKept ==
    ASSUME PoolInv, NEW e \in Ends, NEW step, Goto(e, step), ~Releasing(e),
           step \notin {"f_release", "f_account", "f_lock", "f_pop", "f_head"},
           SamePool(Peer(e))
    PROVE  PoolOK(Peer(e))'
  <1>0. PoolOK(Peer(e))  BY Unmoved DEF PoolInv
  <1>1. /\ Live(Peer(e))' = Live(Peer(e))
        /\ Held(Peer(e))' = Held(Peer(e))
        /\ Filled(Peer(e))' = Filled(Peer(e))
        /\ ~Releasing(e)'
    BY Unmoved, SMT DEF Live, Held, Filled, Releasing, SamePool
  <1> QED  BY <1>0, <1>1, Unmoved, SMT DEF PoolOK, QueueOK, RingOK, SamePool

\* A receiver's step does not touch the pool it writes.
LEMMA WrittenPoolKept ==
    ASSUME PoolInv, NEW e \in Ends, NEW step, Goto(e, step), Releasing(e),
           step \in {"f_release", "f_account", "f_unlock"}, SamePool(e)
    PROVE  PoolOK(e)'
  <1>0. PoolOK(e)  BY DEF PoolInv
  <1>1. /\ Live(e)' = Live(e)
        /\ ~Held(e)' /\ ~Filled(e)' /\ pc'[e] # "c_fill"
        /\ Releasing(Peer(e))' = Releasing(Peer(e))
    <2>1. /\ pc[e] \in {"f_release", "f_account", "f_lock", "f_pop", "f_head"}
          /\ pc'[e] \in {"f_release", "f_account", "f_unlock"}
          /\ pc'[Peer(e)] = pc[Peer(e)]
      BY Unmoved DEF Releasing
    <2>2. Live(e)' = Live(e)
      BY <2>1, SMT DEF Live, SamePool
    <2>3. ~Held(e)' /\ ~Filled(e)' /\ pc'[e] # "c_fill"
      BY <2>1, SMT DEF Held, Filled
    <2>4. Releasing(Peer(e))' = Releasing(Peer(e))
      BY <2>1 DEF Releasing
    <2> QED  BY <2>2, <2>3, <2>4
  <1> QED  BY <1>0, <1>1, Unmoved, SMT DEF PoolOK, QueueOK, RingOK, SamePool

\* A new send changes nothing but the number its end is at.
LEMMA SendKeeps ==
    ASSUME PoolInv, ControlTypes', NEW e \in Ends, Send(e)
    PROVE  PoolInv'
  <1>0. Goto(e, "s_wait") /\ pc[e] = "ready"  BY DEF Send
  <1>1. PoolTypes'
    BY SMT DEF PoolInv, PoolTypes, Send, poolVars, queueVars
  <1>2. SamePool(Peer(e))
    <2>1. sent'[Peer(e)] = sent[Peer(e)]
      BY PeerFacts, SMT DEF Send, PoolInv, PoolTypes
    <2> QED  BY <2>1, SMT DEF SamePool, Send, poolVars, queueVars
  <1>3. PoolOK(Peer(e))'
    BY <1>0, <1>2, ReadPoolKept, SMT DEF Releasing
  <1>4. PoolOK(e)'
    <2>0. PoolOK(e)  BY DEF PoolInv
    <2>1. /\ Live(e)' = Live(e) /\ ~Held(e)' /\ ~Filled(e)' /\ pc'[e] # "c_fill"
          /\ Releasing(Peer(e))' = Releasing(Peer(e))
      BY <1>0, Unmoved, SMT DEF Live, Held, Filled, Releasing, Send, queueVars
    <2> QED  BY <2>0, <2>1, SMT DEF PoolOK, QueueOK, RingOK, Send, poolVars, queueVars
  <1> QED  BY <1>0, <1>1, <1>3, <1>4, Unmoved DEF PoolInv

\* The types of what the invariant speaks of at one end.
LEMMA LiveTyped ==
    ASSUME PoolInv, NEW e \in Ends
    PROVE  /\ Live(e) \in Seq(Message)
           /\ queue[e] \in Seq(Message) /\ busy_list[e] \in Seq(Blocks)
           /\ idle_list[e] \in Seq(Blocks)
           /\ NewMessage(e) \in Message /\ NewMessage(e).off = st[e]
           /\ NewMessage(e).id = sent[e]
           /\ <<>> \in Seq(Message)
  <1>1. PoolTypes /\ QueueOK(e)  BY DEF PoolInv, PoolOK
  <1>2. queue[e] \in Seq(Message) /\ st[e] \in Blocks /\ sent[e] \in Nat
        /\ busy_list[e] \in Seq(Blocks) /\ idle_list[e] \in Seq(Blocks)
    BY <1>1, SMT DEF PoolTypes
  <1>3. Live(e) \in Seq(Message)
    BY <1>1, <1>2, HeadAndTail, SMT DEF Live, QueueOK, Releasing
  <1>4. /\ NewMessage(e) \in Message /\ NewMessage(e).off = st[e]
        /\ NewMessage(e).id = sent[e]
    BY <1>2, SMT DEF NewMessage, Message
  <1> QED  BY <1>2, <1>3, <1>4

\* The block that leaves the idle ring is in nobody's hands: it stands behind
\* the live ones.
LEMMA AllocateKeeps ==
    ASSUME PoolInv, ControlTypes', NEW e \in Ends, aplly_memory(e), idle_block[e] # 0
    PROVE  PoolInv'
  <1> DEFINE b == Head(idle_list[e])
             idle == Tail(idle_list[e])
             busy == Append(busy_list[e], b)
  <1>0. PoolTypes /\ QueueOK(e) /\ RingOK(e) /\ ~torn[e]
    BY DEF PoolInv, PoolOK, aplly_memory
  <1>1. /\ Goto(e, "a_account") /\ pc[e] = "a_take"
        /\ move_to_busy_list(e) /\ st' = [st EXCEPT ![e] = b]
        /\ UNCHANGED <<wedged, torn, mem, queue, sent>>
    BY SMT DEF aplly_memory, queueVars
  <1>2. idle_list[e] \in Seq(Blocks) /\ busy_list[e] \in Seq(Blocks)
    BY <1>0 DEF PoolTypes
  <1>3. idle_list[e] # <<>>
    BY <1>0, <1>2 DEF RingOK
  <1>4. b \in Blocks /\ idle \in Seq(Blocks) /\ busy \in Seq(Blocks)
        /\ Len(idle) = Len(idle_list[e]) - 1
    BY <1>2, <1>3, HeadAndTail
  <1>5. Partition(idle, busy) /\ ~InRing(busy_list[e], b)
    BY <1>0, <1>2, <1>3, MoveHead DEF RingOK
  <1>6. Live(e) \in Seq(Message)
    BY LiveTyped
  <1>7. InOrder(busy, Live(e)) /\ Behind(busy, Live(e), b)
    BY <1>0, <1>2, <1>4, <1>5, <1>6, OrderAfterAllocation DEF RingOK
  <1> HIDE DEF b, idle, busy
  <1>8. /\ idle_list' = [idle_list EXCEPT ![e] = idle]
        /\ busy_list' = [busy_list EXCEPT ![e] = busy]
        /\ idle_block' = [idle_block EXCEPT ![e] = @ - 1]
    BY <1>1 DEF move_to_busy_list, b, idle, busy
  <1>9. PoolTypes'
    BY <1>0, <1>1, <1>4, <1>8, SMT DEF PoolTypes
  <1>10. PoolOK(Peer(e))'
    <2>1. SamePool(Peer(e))
      BY <1>0, <1>1, <1>8, PeerFacts, SMT DEF SamePool, PoolTypes
    <2> QED  BY <1>1, <2>1, ReadPoolKept, SMT DEF Releasing
  <1>11. PoolOK(e)'
    <2>1. /\ Live(e)' = Live(e) /\ ~Filled(e)' /\ pc'[e] # "c_fill"
          /\ Releasing(Peer(e))' = Releasing(Peer(e))
      BY <1>1, Unmoved, SMT DEF Live, Filled, Releasing
    <2>2. /\ idle_list'[e] = idle /\ busy_list'[e] = busy /\ st'[e] = b
          /\ idle_block'[e] = idle_block[e] - 1
      BY <1>0, <1>1, <1>8, SMT DEF PoolTypes
    <2>3. idle_block'[e] = Len(idle_list'[e])
      BY <1>0, <1>4, <2>2 DEF RingOK
    <2> QED  BY <1>0, <1>1, <1>5, <1>7, <2>1, <2>2, <2>3, SMT
             DEF PoolOK, QueueOK, RingOK
  <1> QED  BY <1>1, <1>9, <1>10, <1>11, Unmoved DEF PoolInv

\* Allocating from rings the reader's handler is at as well: nothing is claimed
\* of them any more, and the queue and the other pool are as they were.
LEMMA AllocateTornKeeps ==
    ASSUME PoolInv, ControlTypes', NEW e \in Ends, aplly_memory_torn(e)
    PROVE  PoolInv'
  <1>0. PoolTypes /\ QueueOK(e) /\ ControlTypes  BY DEF PoolInv, PoolOK
  <1>1. /\ pc[e] = "a_take" /\ torn' = [torn EXCEPT ![e] = TRUE]
        /\ UNCHANGED <<idle_list, busy_list, idle_block, wedged, mem, queue, sent>>
    BY SMT DEF aplly_memory_torn, queueVars
  <1>2. UNCHANGED st \/ \E b \in Blocks : st' = [st EXCEPT ![e] = b]
    BY Zenon DEF aplly_memory_torn
  <1>3. Goto(e, "a_account") \/ Goto(e, "ready") \/ UNCHANGED pc
    BY Zenon DEF aplly_memory_torn, Return
  <1>4. PICK step \in {"a_account", "ready", "a_take"} : Goto(e, step)
    BY <1>0, <1>1, <1>3, SMT DEF Goto, ControlTypes
  <1>a. /\ st' \in [Ends -> Blocks] /\ torn' \in [Ends -> BOOLEAN]
        /\ st'[Peer(e)] = st[Peer(e)] /\ torn'[Peer(e)] = torn[Peer(e)]
    <2>1. st \in [Ends -> Blocks] /\ torn \in [Ends -> BOOLEAN]
      BY <1>0 DEF PoolTypes
    <2> QED  BY <2>1, <1>1, <1>2, PeerFacts
  <1>5. PoolTypes'
    BY <1>0, <1>1, <1>a, Zenon DEF PoolTypes
  <1>6. PoolOK(Peer(e))'
    <2>1. SamePool(Peer(e))
      BY <1>1, <1>a, Zenon DEF SamePool
    <2> QED  BY <1>1, <1>4, <2>1, ReadPoolKept, SMT DEF Releasing
  <1>7. PoolOK(e)'
    <2>1. pc'[e] # "c_fill" /\ Releasing(Peer(e))' = Releasing(Peer(e))
      BY <1>4, Unmoved DEF Releasing
    <2>2. torn'[e]  BY <1>0, <1>1, SMT DEF PoolTypes
    <2> QED  BY <1>0, <1>1, <2>1, <2>2, SMT DEF PoolOK, QueueOK
  <1> QED  BY <1>4, <1>5, <1>6, <1>7, Unmoved DEF PoolInv

\* Copying in writes the held block, which is none of the live ones.
LEMMA CopyKeeps ==
    ASSUME PoolInv, ControlTypes', NEW e \in Ends, copy_in(e)
    PROVE  PoolInv'
  <1>0. PoolTypes /\ PoolOK(e)  BY DEF PoolInv
  <1>1. /\ Goto(e, "c_guard") /\ pc[e] = "s_copy"
        /\ mem' = [mem EXCEPT ![e][st[e]] = sent[e]]
        /\ UNCHANGED <<idle_list, busy_list, idle_block, wedged, torn, st, queue, sent>>
    BY SMT DEF copy_in, poolVars, queueVars, callVars
  <1>2. PoolTypes'
    BY <1>0, <1>1, SMT DEF PoolTypes
  <1>3. PoolOK(Peer(e))'
    <2>1. SamePool(Peer(e))
      BY <1>0, <1>1, PeerFacts, SMT DEF SamePool, PoolTypes
    <2> QED  BY <1>1, <2>1, ReadPoolKept, SMT DEF Releasing
  <1>4. /\ Live(e)' = Live(e) /\ Held(e) /\ pc'[e] # "c_fill"
        /\ Releasing(Peer(e))' = Releasing(Peer(e))
    BY <1>1, Unmoved, SMT DEF Live, Held, Releasing
  <1>5. ASSUME ~torn[e] PROVE RingOK(e)'
    <2>0. RingOK(e)  BY <1>0, <1>5 DEF PoolOK
    <2>2. Behind(busy_list[e], Live(e), st[e]) /\ InOrder(busy_list[e], Live(e))
      BY <2>0, <1>4 DEF RingOK
    <2>3. \A i \in 1 .. Len(Live(e)) : Live(e)[i].off # st[e]
      BY <2>2 DEF Behind, InOrder, InRing, Before
    <2>4. Live(e) \in Seq(Message)
      BY LiveTyped
    <2>5. \A i \in 1 .. Len(Live(e)) : Live(e)[i].off \in Blocks
      <3> SUFFICES ASSUME NEW i \in 1 .. Len(Live(e))
                   PROVE  Live(e)[i].off \in Blocks
        OBVIOUS
      <3>1. Live(e)[i] \in Message  BY <2>4
      <3> QED  BY <3>1 DEF Message
    <2>6. /\ mem'[e][st[e]] = sent[e]
          /\ \A b \in Blocks : b # st[e] => mem'[e][b] = mem[e][b]
      BY <1>0, <1>1, SMT DEF PoolTypes
    <2>7. Intact(mem'[e], Live(e))
      BY <2>0, <2>3, <2>5, <2>6 DEF RingOK, Intact
    <2> QED  BY <2>0, <1>1, <1>4, <2>2, <2>6, <2>7, SMT DEF RingOK
  <1>6. PoolOK(e)'
    BY <1>0, <1>1, <1>4, <1>5, SMT DEF PoolOK, QueueOK
  <1> QED  BY <1>1, <1>2, <1>3, <1>6, Unmoved DEF PoolInv

\* Taking the head off the live messages, or adding one whose block holds what
\* it says, leaves them intact.
LEMMA IntactAfter ==
    ASSUME NEW memory, NEW live \in Seq(Message), Intact(memory, live)
    PROVE  /\ live # <<>> => Intact(memory, Tail(live))
           /\ \A m \in Message : memory[m.off] = m.id => Intact(memory, Append(live, m))
  <1>1. ASSUME live # <<>> PROVE Intact(memory, Tail(live))
    <2> DEFINE l == Tail(live)
    <2>1. /\ Len(live) \in Nat \ {0} /\ Len(l) = Len(live) - 1
          /\ \A i \in 1 .. Len(l) : l[i] = live[i + 1]
      BY <1>1, HeadAndTail
    <2> HIDE DEF l
    <2>2. Intact(memory, l)  BY <2>1 DEF Intact
    <2> QED  BY <2>2 DEF l
  <1>2. ASSUME NEW m \in Message, memory[m.off] = m.id
        PROVE  Intact(memory, Append(live, m))
    <2> DEFINE l == Append(live, m)
    <2>1. /\ Len(live) \in Nat /\ Len(l) = Len(live) + 1
          /\ \A i \in 1 .. Len(live) : l[i] = live[i]
          /\ l[Len(live) + 1] = m
      BY Appended
    <2> HIDE DEF l
    <2>2. Intact(memory, l)  BY <1>2, <2>1 DEF Intact
    <2> QED  BY <2>2 DEF l
  <1> QED  BY <1>1, <1>2

\* With no live message the ring owes nothing but the held block.
LEMMA NothingLive ==
    ASSUME NEW ring, NEW memory
    PROVE  /\ InOrder(ring, <<>>) /\ Intact(memory, <<>>)
           /\ \A live, b : Behind(ring, live, b) => Behind(ring, <<>>, b)
  BY DEF InOrder, Intact, Behind

\* Linking into an empty queue makes nothing live.
LEMMA LinkKeeps ==
    ASSUME PoolInv, ControlTypes', NEW e \in Ends, add_queue_link(e)
    PROVE  PoolInv'
  <1>0. PoolTypes /\ PoolOK(e)  BY DEF PoolInv
  <1>1. /\ pc[e] = "c_link" /\ Held(e) /\ Filled(e)
        /\ UNCHANGED <<idle_list, busy_list, idle_block, wedged, torn, mem, st, sent>>
    BY SMT DEF add_queue_link, poolVars, queueVars, callVars, Held, Filled
  <1>3. CASE queue[e] = <<>>
    <2>1. Goto(e, "c_fill") /\ queue' = [queue EXCEPT ![e] = <<Zeroed>>]
      BY <1>3, SMT DEF add_queue_link
    <2>2. Zeroed \in Message /\ <<Zeroed>> \in Seq(Message) /\ <<Zeroed>> # <<>>
      BY ChannelAssumption, SMT DEF Zeroed, Message, Blocks
    <2>3. PoolTypes'
      BY <1>0, <1>1, <2>1, <2>2, SMT DEF PoolTypes
    <2>4. PoolOK(Peer(e))'
      <3>1. SamePool(Peer(e))
        BY <1>0, <1>1, <2>1, PeerFacts, SMT DEF SamePool, PoolTypes
      <3> QED  BY <1>1, <2>1, <3>1, ReadPoolKept, SMT DEF Releasing
    <2>5. PoolOK(e)'
      <3>1. queue'[e] = <<Zeroed>>
        BY <1>0, <2>1, SMT DEF PoolTypes
      <3>2. Live(e)' = <<>>
        BY <2>1, Unmoved, SMT DEF Live
      <3>3. QueueOK(e)'
        BY <2>2, <3>1 DEF QueueOK
      <3>4. ASSUME ~torn[e] PROVE RingOK(e)'
        <4>1. RingOK(e)  BY <1>0, <3>4 DEF PoolOK
        <4>2. /\ InOrder(busy_list[e], <<>>) /\ Intact(mem[e], <<>>)
              /\ Behind(busy_list[e], <<>>, st[e])
          BY <1>1, <4>1, NothingLive DEF RingOK
        <4> QED  BY <1>1, <3>2, <4>1, <4>2, SMT DEF RingOK
      <3> QED  BY <1>1, <3>3, <3>4, SMT DEF PoolOK
    <2> QED  BY <2>1, <2>3, <2>4, <2>5, Unmoved DEF PoolInv
  <1>4. CASE queue[e] # <<>>
    <2>1. UNCHANGED dataVars
      BY <1>1, <1>4, SMT DEF add_queue_link, dataVars
    <2>2. CalmMove(e, "c_append")
      BY <1>1, <1>4, SMT DEF add_queue_link, CalmMove
    <2> QED  BY <2>1, <2>2, CalmKeeps
  <1> QED  BY <1>3, <1>4

\* Appending behind a node makes the held block the last live one, even when the
\* reader has loaded the NULL that node had behind it.
LEMMA AppendKeeps ==
    ASSUME PoolInv, ControlTypes', NEW e \in Ends, add_queue_append(e)
    PROVE  PoolInv'
  <1> DEFINE m == NewMessage(e)
  <1>0. PoolTypes /\ PoolOK(e)  BY DEF PoolInv
  <1>1. /\ pc[e] = "c_append" /\ Held(e) /\ Filled(e) /\ Goto(e, "c_appended")
        /\ UNCHANGED <<idle_list, busy_list, idle_block, wedged, torn, mem, st, sent>>
    BY SMT DEF add_queue_append, poolVars, queueVars, callVars, Held, Filled
  <1>2. CASE queue[e] = <<>>
    <2>1. UNCHANGED dataVars
      BY <1>1, <1>2, SMT DEF add_queue_append, dataVars
    <2>2. CalmMove(e, "c_appended")
      BY <1>1, SMT DEF CalmMove
    <2> QED  BY <2>1, <2>2, CalmKeeps
  <1>3. CASE queue[e] # <<>>
    <2>1. queue' = [queue EXCEPT ![e] = Append(@, m)]
      BY <1>3, SMT DEF add_queue_append, Enqueue
    <2>2. m \in Message /\ m.off = st[e] /\ m.id = sent[e]
      BY LiveTyped
    <2> HIDE DEF m
    <2>3. PoolTypes'
      BY <1>0, <1>1, <2>1, <2>2, SMT DEF PoolTypes
    <2>4. PoolOK(Peer(e))'
      <3>1. SamePool(Peer(e))
        BY <1>0, <1>1, <2>1, PeerFacts, SMT DEF SamePool, PoolTypes
      <3> QED  BY <1>1, <2>1, <3>1, ReadPoolKept, SMT DEF Releasing
    <2>5. queue'[e] = Append(queue[e], m) /\ Append(queue[e], m) # <<>>
      <3>1. queue \in [Ends -> Seq(Message)]  BY <1>0 DEF PoolTypes
      <3>2. queue'[e] = Append(queue[e], m)  BY <2>1, <3>1
      <3> QED  BY <3>2, <2>2, LiveTyped, Appended
    <2>6. ~Held(e)' /\ ~Filled(e)' /\ pc'[e] # "c_fill"
      BY <1>1, Unmoved, SMT DEF Held, Filled
    <2>7. ASSUME ~torn[e] PROVE RingOK(e)'
      <3>0. RingOK(e)  BY <1>0, <2>7 DEF PoolOK
      <3>1. Behind(busy_list[e], Live(e), st[e]) /\ mem[e][st[e]] = sent[e]
        BY <1>1, <3>0 DEF RingOK
      <3>2. Tail(Append(queue[e], m)) = Append(Tail(queue[e]), m)
        BY <1>3, <2>2, LiveTyped
      <3>3. Live(e)' = Append(Live(e), m)
        BY <1>1, <2>5, <3>2, Unmoved, SMT DEF Live
      <3>4. InOrder(busy_list[e], Append(Live(e), m))
        BY <3>0, <3>1, <2>2, LiveTyped, OrderAfterCommit DEF RingOK
      <3>5. Intact(mem[e], Append(Live(e), m))
        BY <3>0, <3>1, <2>2, LiveTyped, IntactAfter DEF RingOK
      <3> QED  BY <3>0, <1>1, <2>6, <3>3, <3>4, <3>5, SMT DEF RingOK
    <2>8. PoolOK(e)'
      BY <1>0, <1>1, <2>5, <2>6, <2>7, SMT DEF PoolOK, QueueOK
    <2> QED  BY <1>1, <2>3, <2>4, <2>8, Unmoved DEF PoolInv
  <1> QED  BY <1>2, <1>3

\* Filling the node makes its block the only live one, unless the reader has
\* begun to give the unfilled node back, or has popped it.
LEMMA FillKeeps ==
    ASSUME PoolInv, ControlTypes', NEW e \in Ends, add_queue_fill(e)
    PROVE  PoolInv'
  <1> DEFINE m == NewMessage(e)
  <1>0. PoolTypes /\ PoolOK(e) /\ ControlTypes  BY DEF PoolInv
  <1>1. /\ pc[e] = "c_fill" /\ Held(e) /\ Filled(e) /\ Live(e) = <<>>
        /\ UNCHANGED <<idle_list, busy_list, idle_block, wedged, torn, mem, st, sent>>
    BY SMT DEF add_queue_fill, poolVars, queueVars, callVars, Held, Filled, Live
  <1>2. m \in Message /\ m.off = st[e] /\ m.id = sent[e]
    BY LiveTyped
  <1>3. CASE queue[e] = <<>>
    <2>1. queue' = queue /\ (Goto(e, "c_filled") \/ UNCHANGED pc)
      BY <1>3, SMT DEF add_queue_fill
    <2>2. CASE UNCHANGED pc
      BY <1>1, <2>1, <2>2, SMT DEF PoolInv, PoolTypes, PoolOK, QueueOK, RingOK, Live,
         Held, Filled, Releasing
    <2>3. CASE Goto(e, "c_filled")
      <3>1. PoolTypes'
        BY <1>0, <1>1, <2>1, SMT DEF PoolTypes
      <3>2. PoolOK(Peer(e))'
        <4>1. SamePool(Peer(e))
          BY <1>1, <2>1, SMT DEF SamePool
        <4> QED  BY <1>1, <2>3, <4>1, ReadPoolKept, SMT DEF Releasing
      <3>3. /\ Releasing(Peer(e))' = Releasing(Peer(e))
            /\ ~Held(e)' /\ ~Filled(e)' /\ pc'[e] # "c_fill"
        BY <2>3, Unmoved, SMT DEF Held, Filled, Releasing
      <3>4. Live(e)' = <<>>
        <4>1. pc[Peer(e)] \notin {"f_account", "f_lock", "f_pop", "f_head"}
          BY <1>0, <1>3 DEF PoolOK, QueueOK, Releasing
        <4>2. pc'[e] = "c_filled" /\ pc'[Peer(e)] = pc[Peer(e)]
          BY <2>3, Unmoved
        <4> QED  BY <1>3, <2>1, <4>1, <4>2, SMT DEF Live
      <3>5. PoolOK(e)'
        BY <1>0, <1>1, <2>1, <3>3, <3>4, SMT DEF PoolOK, QueueOK, RingOK
      <3> QED  BY <2>3, <3>1, <3>2, <3>5, Unmoved DEF PoolInv
    <2> QED  BY <2>1, <2>2, <2>3
  <1>4. CASE queue[e] # <<>>
    <2>0. Goto(e, "c_filled") /\ queue' = [queue EXCEPT ![e] = <<m>>]
      BY <1>4, SMT DEF add_queue_fill
    <2> HIDE DEF m
    <2>1. <<m>> \in Seq(Message) /\ <<m>> # <<>> /\ Tail(<<m>>) = <<>>
          /\ Append(<<>>, m) = <<m>>
      BY <1>2
    <2>2. PoolTypes'
      BY <1>0, <1>1, <2>0, <2>1, SMT DEF PoolTypes
    <2>3. PoolOK(Peer(e))'
      <3>1. SamePool(Peer(e))
        BY <1>0, <1>1, <2>0, PeerFacts, SMT DEF SamePool, PoolTypes
      <3> QED  BY <1>1, <2>0, <3>1, ReadPoolKept, SMT DEF Releasing
    <2>4. queue'[e] = <<m>>
      BY <1>0, <2>0, SMT DEF PoolTypes
    <2>5. ~Held(e)' /\ ~Filled(e)' /\ pc'[e] # "c_fill"
      BY <2>0, Unmoved, SMT DEF Held, Filled
    <2>6. ASSUME ~torn[e] PROVE RingOK(e)'
      <3>0. RingOK(e)  BY <1>0, <2>6 DEF PoolOK
      <3>1. Live(e)' = <<m>> \/ Live(e)' = <<>>
        BY <2>1, <2>4, <2>5, Zenon DEF Live
      <3>2. /\ Behind(busy_list[e], <<>>, st[e]) /\ InOrder(busy_list[e], <<>>)
            /\ Intact(mem[e], <<>>) /\ mem[e][st[e]] = sent[e]
        BY <1>1, <3>0 DEF RingOK
      <3>3. <<>> \in Seq(Message) /\ busy_list[e] \in Seq(Blocks)
        BY LiveTyped
      <3>4. InOrder(busy_list[e], Append(<<>>, m))
        BY <1>2, <3>2, <3>3, OrderAfterCommit
      <3>5. Intact(mem[e], Append(<<>>, m))
        BY <1>2, <3>2, <3>3, IntactAfter
      <3>6. InOrder(busy_list[e], <<m>>) /\ Intact(mem[e], <<m>>)
        BY <2>1, <3>4, <3>5
      <3> QED  BY <3>0, <1>1, <2>5, <3>1, <3>2, <3>6, SMT DEF RingOK
    <2>7. PoolOK(e)'
      BY <1>0, <1>1, <2>1, <2>4, <2>5, <2>6, SMT DEF PoolOK, QueueOK
    <2> QED  BY <2>0, <2>2, <2>3, <2>7, Unmoved DEF PoolInv
  <1> QED  BY <1>3, <1>4

\* Giving back moves the head of the busy ring, which is at or before the block
\* of the message that stops being live; an unfilled node gives nothing back.
LEMMA ReleaseKeeps ==
    ASSUME PoolInv, ControlTypes', NEW e \in Ends, release_memory(e)
    PROVE  PoolInv'
  <1> DEFINE p == Peer(e)
             filled == Head(queue[p]) # Zeroed
             moves == filled /\ InRing(busy_list[p], block[e].off)
  <1>a. p \in Ends /\ p # e /\ Peer(p) = e
    BY PeerFacts
  <1>b. ~torn[p]
    BY DEF release_memory
  <1> HIDE DEF p
  <1>0. PoolTypes /\ QueueOK(p) /\ RingOK(p) /\ PoolOK(e)
    BY <1>a, <1>b DEF PoolInv, PoolOK
  <1>1. /\ pc[e] = "f_release" /\ Releasing(e) /\ Goto(e, "f_account")
        /\ moves => move_to_idle_list(p)
        /\ ~moves => UNCHANGED <<idle_list, busy_list, idle_block>>
        /\ wedged' = [wedged EXCEPT ![p] = filled /\ busy_list[p] = <<>>]
        /\ UNCHANGED <<torn, mem, st, queue, sent>>
    BY SMT DEF release_memory, queueVars, callVars, Releasing, p
  <1>2. queue[p] # <<>>
    BY <1>0, <1>1, <1>a DEF QueueOK
  <1>3. /\ Live(p) \in Seq(Message) /\ queue[p] \in Seq(Message)
        /\ busy_list[p] \in Seq(Blocks) /\ idle_list[p] \in Seq(Blocks)
    BY <1>a, LiveTyped
  <1>4. pc'[p] = pc[p] /\ pc'[e] = "f_account"
    BY <1>1, <1>a, Unmoved DEF p
  <1>5. /\ wedged'[p] = (filled /\ busy_list[p] = <<>>)
        /\ moves => /\ busy_list'[p] = Tail(busy_list[p])
                    /\ idle_list'[p] = Append(idle_list[p], Head(busy_list[p]))
                    /\ idle_block'[p] = idle_block[p] + 1
        /\ ~moves => UNCHANGED <<idle_list, busy_list, idle_block>>
    BY <1>0, <1>1, <1>a, SMTT(30) DEF PoolTypes, move_to_idle_list
  <1>6. moves => busy_list[p] # <<>>
    BY DEF InRing
  <1>7. /\ ~wedged'[p]
        /\ InOrder(busy_list'[p], Live(p)')
        /\ \A b : Behind(busy_list[p], Live(p), b) => Behind(busy_list'[p], Live(p)', b)
        /\ Intact(mem[p], Live(p)')
    <2>0. InOrder(busy_list[p], Live(p)) /\ Intact(mem[p], Live(p))
      BY <1>0 DEF RingOK
    <2>1. CASE pc[p] = "c_fill"
      <3>1. ~filled
        <4>1. queue[p] = <<Zeroed>>  BY <1>0, <1>2, <2>1 DEF QueueOK
        <4> QED  BY <4>1
      <3>2. Live(p) = <<>> /\ Live(p)' = <<>>
        BY <1>4, <2>1 DEF Live
      <3> QED  BY <1>5, <2>0, <3>1, <3>2
    <2>2. CASE pc[p] # "c_fill"
      <3>1. Live(p) = queue[p] /\ Live(p)' = Tail(queue[p])
        <4>1. pc[Peer(p)] = "f_release" /\ pc'[Peer(p)] = "f_account" /\ queue' = queue
          BY <1>1, <1>4, <1>a
        <4> QED  BY <4>1, <1>4, <2>2, SMT DEF Live
      <3>2. /\ busy_list[p] # <<>>
            /\ InOrder(Tail(busy_list[p]), Tail(queue[p]))
            /\ \A b : Behind(busy_list[p], queue[p], b)
                      => Behind(Tail(busy_list[p]), Tail(queue[p]), b)
        BY <1>2, <1>3, <2>0, <3>1, OrderAfterRelease
      <3>3. /\ InOrder(busy_list[p], Tail(queue[p]))
            /\ \A b : Behind(busy_list[p], queue[p], b)
                      => Behind(busy_list[p], Tail(queue[p]), b)
        BY <1>2, <1>3, <2>0, <3>1, OrderAfterSkip
      <3>4. Intact(mem[p], Tail(queue[p]))
        BY <1>2, <1>3, <2>0, <3>1, IntactAfter
      <3>5. CASE moves
        BY <1>5, <3>1, <3>2, <3>4, <3>5
      <3>6. CASE ~moves
        BY <1>5, <3>1, <3>2, <3>3, <3>4, <3>6
      <3> QED  BY <3>5, <3>6
    <2> QED  BY <2>1, <2>2
  <1> HIDE DEF moves, filled
  <1>8. /\ Partition(idle_list'[p], busy_list'[p])
        /\ idle_block'[p] = Len(idle_list'[p])
    <2>0. Partition(idle_list[p], busy_list[p]) /\ idle_block[p] = Len(idle_list[p])
      BY <1>0 DEF RingOK
    <2>1. CASE moves
      <3>1. Partition(Append(idle_list[p], Head(busy_list[p])), Tail(busy_list[p]))
        BY <1>3, <1>6, <2>0, <2>1, MoveHead
      <3>2. Len(Append(idle_list[p], Head(busy_list[p]))) = Len(idle_list[p]) + 1
        BY <1>3, <1>6, <2>1, Appended, HeadAndTail
      <3> QED  BY <1>5, <2>0, <2>1, <3>1, <3>2
    <2>2. CASE ~moves
      BY <1>5, <2>0, <2>2
    <2> QED  BY <2>1, <2>2
  <1>9. PoolTypes'
    <2>0. /\ wedged' \in [Ends -> BOOLEAN] /\ torn' = torn
          /\ mem' = mem /\ st' = st /\ queue' = queue /\ sent' = sent
      BY <1>0, <1>1 DEF PoolTypes
    <2>1. CASE moves
      <3> DEFINE i == Append(idle_list[p], Head(busy_list[p]))
                 b == Tail(busy_list[p])
      <3>1. i \in Seq(Blocks) /\ b \in Seq(Blocks)
        BY <1>3, <1>6, <2>1, HeadAndTail, Appended
      <3>2. /\ idle_list' = [idle_list EXCEPT ![p] = i]
            /\ busy_list' = [busy_list EXCEPT ![p] = b]
            /\ idle_block' = [idle_block EXCEPT ![p] = @ + 1]
        BY <1>1, <2>1 DEF move_to_idle_list
      <3> HIDE DEF i, b
      <3>3. /\ idle_list' \in [Ends -> Seq(Blocks)]
            /\ busy_list' \in [Ends -> Seq(Blocks)]
        BY <1>0, <3>1, <3>2, <1>a DEF PoolTypes
      <3>4. idle_block' \in [Ends -> Int]
        BY <1>0, <3>2, <1>a DEF PoolTypes
      <3> QED  BY <1>0, <2>0, <3>3, <3>4, Zenon DEF PoolTypes
    <2>2. CASE ~moves
      <3>1. UNCHANGED <<idle_list, busy_list, idle_block>>
        BY <1>1, <2>2
      <3> QED  BY <1>0, <2>0, <3>1, SMT DEF PoolTypes
    <2> QED  BY <2>1, <2>2
  <1>10. PoolOK(e)'
    <2>1. SamePool(e)
      BY <1>0, <1>1, <1>a, SMT DEF SamePool, PoolTypes, move_to_idle_list
    <2> QED  BY <1>1, <2>1, WrittenPoolKept
  <1>11. PoolOK(p)'
    <2>1. /\ Held(p)' = Held(p) /\ Filled(p)' = Filled(p)
      BY <1>4 DEF Held, Filled
    <2>2. mem' = mem /\ st' = st /\ queue' = queue /\ sent' = sent
      BY <1>1
    <2>3. RingOK(p)'
      BY <1>0, <1>7, <1>8, <2>1, <2>2, SMT DEF RingOK
    <2>4. QueueOK(p)'
      BY <1>0, <1>2, <1>4, <2>2, SMT DEF QueueOK
    <2> QED  BY <2>3, <2>4 DEF PoolOK
  <1> QED  BY <1>1, <1>9, <1>10, <1>11, <1>a, Unmoved DEF PoolInv, p

\* Giving back to rings the writer's handler is at as well.
LEMMA ReleaseTornKeeps ==
    ASSUME PoolInv, ControlTypes', NEW e \in Ends, release_memory_torn(e)
    PROVE  PoolInv'
  <1> DEFINE p == Peer(e)
  <1>a. p \in Ends /\ p # e /\ Peer(p) = e
    BY PeerFacts
  <1>1. /\ pc[e] = "f_release" /\ Releasing(e) /\ torn' = [torn EXCEPT ![p] = TRUE]
        /\ UNCHANGED <<idle_list, busy_list, idle_block, wedged, mem, st, queue, sent>>
    BY SMT DEF release_memory_torn, queueVars, callVars, Releasing
  <1>2. Goto(e, "f_account") \/ UNCHANGED pc
    BY Zenon DEF release_memory_torn
  <1> HIDE DEF p
  <1>0. PoolTypes /\ QueueOK(p) /\ ControlTypes  BY <1>a DEF PoolInv, PoolOK
  <1>3. PICK step \in {"f_account", "f_release"} : Goto(e, step)
    BY <1>0, <1>1, <1>2, SMT DEF Goto, ControlTypes
  <1>4. PoolTypes'
    BY <1>0, <1>1, <1>a, SMT DEF PoolTypes
  <1>5. PoolOK(e)'
    <2>0. torn'[e] = torn[e]
      BY <1>0, <1>1, <1>a DEF PoolTypes
    <2>1. SamePool(e)
      BY <1>1, <2>0, Zenon DEF SamePool
    <2> QED  BY <1>1, <1>3, <2>1, WrittenPoolKept
  <1>6. PoolOK(p)'
    <2>1. pc'[p] = pc[p] /\ Releasing(Peer(p))
      BY <1>1, <1>3, <1>a, Unmoved DEF p
    <2>2. torn'[p]  BY <1>0, <1>1, <1>a, SMT DEF PoolTypes
    <2> QED  BY <1>0, <1>1, <2>1, <2>2, SMT DEF PoolOK, QueueOK
  <1> QED  BY <1>3, <1>4, <1>5, <1>6, <1>a, Unmoved DEF PoolInv, p

\* Popping takes off the queue what has stopped being live, and with a NULL that
\* was loaded too early all that has been appended since.
LEMMA PopKeeps ==
    ASSUME PoolInv, ControlTypes', NEW e \in Ends, delete_head_queue_pop(e)
    PROVE  PoolInv'
  <1> DEFINE p == Peer(e)
             rest == IF last[e] THEN <<>> ELSE Tail(queue[p])
  <1>a. p \in Ends /\ p # e /\ Peer(p) = e
    BY PeerFacts
  <1>1. /\ pc[e] = "f_head" /\ Releasing(e) /\ Goto(e, "f_unlock")
        /\ queue' = [queue EXCEPT ![p] = rest]
        /\ UNCHANGED <<idle_list, busy_list, idle_block, wedged, torn, mem, st, sent>>
    BY SMT DEF delete_head_queue_pop, poolVars, queueVars, callVars, Releasing
  <1> HIDE DEF p
  <1>0. PoolTypes /\ PoolOK(p)  BY <1>a DEF PoolInv
  <1>2. queue[p] # <<>>
    BY <1>0, <1>1, <1>a DEF PoolOK, QueueOK
  <1>3. queue[p] \in Seq(Message) /\ rest \in Seq(Message)
    BY <1>a, <1>2, LiveTyped, HeadAndTail
  <1>4. pc'[p] = pc[p] /\ pc'[e] = "f_unlock"
    BY <1>1, <1>a, Unmoved DEF p
  <1>5. queue'[p] = rest
    BY <1>0, <1>1, <1>a, SMT DEF PoolTypes
  <1>6. PoolTypes'
    <2> HIDE DEF rest
    <2> QED  BY <1>0, <1>1, <1>3, <1>a, SMT DEF PoolTypes
  <1>7. PoolOK(e)'
    <2>1. SamePool(e)
      <3> HIDE DEF rest
      <3> QED  BY <1>0, <1>1, <1>a, SMT DEF SamePool, PoolTypes
    <2> QED  BY <1>1, <2>1, WrittenPoolKept
  <1>8. QueueOK(p)'
    <2>1. ~Releasing(Peer(p))'
      BY <1>4, <1>a DEF Releasing
    <2>2. pc[p] = "c_fill" => rest = <<>>
      <3>1. Tail(<<Zeroed>>) = <<>>  OBVIOUS
      <3> QED  BY <1>0, <1>2, <3>1 DEF PoolOK, QueueOK
    <2> QED  BY <1>4, <1>5, <2>1, <2>2, Zenon DEF QueueOK
  <1>9. ASSUME ~torn[p] PROVE RingOK(p)'
    <2>0. RingOK(p)  BY <1>0, <1>9 DEF PoolOK
    <2>1. /\ Held(p)' = Held(p) /\ Filled(p)' = Filled(p)
      BY <1>4 DEF Held, Filled
    <2>2. Live(p)' = <<>> \/ Live(p)' = Live(p)
      <3>1. pc[Peer(p)] = "f_head" /\ pc'[Peer(p)] = "f_unlock"
        BY <1>1, <1>4, <1>a
      <3> QED  BY <1>4, <1>5, <3>1, SMT DEF Live
    <2> HIDE DEF rest
    <2> QED  BY <1>1, <2>0, <2>1, <2>2, NothingLive, SMT DEF RingOK
  <1>10. PoolOK(p)'
    BY <1>1, <1>8, <1>9, Zenon DEF PoolOK
  <1> QED  BY <1>1, <1>6, <1>7, <1>10, <1>a, Unmoved DEF PoolInv, p

-----------------------------------------------------------------------------
\* Every step keeps the pool invariant: one step per action that touches it.
LEMMA PoolNext ==
    ASSUME PoolInv, [Next]_vars
    PROVE  PoolInv'
  <1>0. ControlTypes'  BY ControlTypesNext DEF PoolInv
  <1>1. CASE UNCHANGED <<dataVars, pc>>
    BY <1>0, <1>1, SMT DEF PoolInv, dataVars, PoolTypes, PoolOK, QueueOK, RingOK,
       Live, Held, Filled, Releasing
  <1>2. ASSUME NEW e \in Ends, aplly_memory(e)
        PROVE  PoolInv'
    <2>1. CASE idle_block[e] # 0
      BY <1>0, <1>2, <2>1, AllocateKeeps
    <2>2. CASE idle_block[e] = 0
      <3>1. UNCHANGED dataVars /\ CalmMove(e, "ready")
        BY <1>2, <2>2, SMT DEF aplly_memory, Return, dataVars, queueVars, CalmMove, Goto
      <3> QED  BY <1>0, <3>1, CalmKeeps
    <2> QED  BY <2>1, <2>2
  <1>3. CASE Next
    BY <1>0, <1>1, <1>2, <1>3, PoolSteps, CalmKeeps, SendKeeps, AllocateTornKeeps,
       CopyKeeps, LinkKeeps, FillKeeps, AppendKeeps, ReleaseKeeps, ReleaseTornKeeps,
       PopKeeps
  <1>4. CASE UNCHANGED vars
    BY <1>1, <1>4 DEF vars, dataVars, poolVars, queueVars, callVars
  <1> QED  BY <1>3, <1>4

\* Whatever the traffic, and however the handlers pass each other in the queues,
\* the flags and the counters, a pool keeps the following until the two of them
\* have been at its rings at once: no block is lost from the rings or in both of
\* them, the allocator's counter is right, the head release_memory gives back is
\* never in use, no queued message is overwritten, and the return that leaves the
\* pool's lock set is never taken.
THEOREM PoolSafe ==
    Spec => [](PoolPartition /\ InUseInRingOrder /\ QueuedIntact /\ NeverWedged)
  <1>1. PoolInv => PoolPartition /\ InUseInRingOrder /\ QueuedIntact /\ NeverWedged
    BY DEF PoolInv, PoolOK, RingOK, Whole, PoolPartition, InUseInRingOrder, QueuedIntact,
       NeverWedged
  <1> QED  BY PoolInit, PoolNext, <1>1, PTL DEF Spec

\* No block is lost from the rings of a whole pool or in both of them.
THEOREM PartitionSafe == Spec => []PoolPartition
  BY PoolSafe, PTL

\* The head release_memory takes from a whole pool is never a block still in use.
THEOREM RingOrderSafe == Spec => []InUseInRingOrder
  BY PoolSafe, PTL

\* No message queued for a whole pool is overwritten.
THEOREM QueuedSafe == Spec => []QueuedIntact
  BY PoolSafe, PTL

\* On a whole pool the return of release_memory that leaves its lock set is never
\* taken.
THEOREM WedgedSafe == Spec => []NeverWedged
  BY PoolSafe, PTL

-----------------------------------------------------------------------------
(* Types of what remains: what the reader holds, and the flag writes *)

\* Which actions touch what the reader holds and the accounts.
LEMMA ReaderSteps ==
    ASSUME Next
    PROVE  \/ UNCHANGED <<block, got, cur_byte_write>>
           \/ \E e \in Ends : \/ request_message(e) \/ request_closed(e) \/ copy_out(e)
                              \/ account_INCRASE(e) \/ account_REDUCE(e)
  BY SMT DEF Next, Call, Step, poolVars, queueVars, Send, Recv, Close,
     wait_for_sources, requestA, aplly_memory, aplly_memory_torn, copy_in, committ,
     add_queue_admit, add_queue_lock, add_queue_link, add_queue_fill,
     add_queue_append, add_queue_unlock, add_queue_resource, count_load, count_store,
     flag_load, flag_store, test_message, test_closed, request_empty, finish,
     release_memory, release_memory_torn, delete_head_queue_pop,
     delete_head_queue_lock, delete_head_queue_next, delete_head_queue_unlock,
     count_more, count_one, decrement_load, decrement_store, finish_return,
     kill_self_return

\* A step keeps the types of the reader's variables.
LEMMA ReaderTypesNext ==
    ASSUME PoolInv, ReaderTypes, [Next]_vars
    PROVE  ReaderTypes'
  <1> USE DEF ReaderTypes
  <1>0. PoolTypes  BY DEF PoolInv
  <1>1. CASE UNCHANGED <<block, got, cur_byte_write>>
    BY <1>1
  <1>2. ASSUME NEW e \in Ends, request_message(e)  PROVE ReaderTypes'
    <2>1. queue[Peer(e)] # <<>> /\ block' = [block EXCEPT ![e] = Head(queue[Peer(e)])]
          /\ UNCHANGED <<got, cur_byte_write>>
      BY <1>2, SMT DEF request_message, HasMessage, poolVars, queueVars
    <2>2. Head(queue[Peer(e)]) \in Message
      BY <2>1, PeerFacts, LiveTyped, HeadAndTail
    <2> DEFINE h == Head(queue[Peer(e)])
    <2>3. h \in [off : Blocks \cup {-1}, id : Nat]
      BY <2>2 DEF Message
    <2> HIDE DEF h
    <2> QED  BY <2>1, <2>3 DEF h
  <1>3. ASSUME NEW e \in Ends, request_closed(e)  PROVE ReaderTypes'
    <2>1. block' = [block EXCEPT ![e].off = -1] /\ UNCHANGED <<got, cur_byte_write>>
      BY <1>3, SMT DEF request_closed, poolVars, queueVars
    <2> QED  BY <2>1
  <1>4. ASSUME NEW e \in Ends, copy_out(e)  PROVE ReaderTypes'
    <2>1. UNCHANGED <<block, cur_byte_write>>
      BY <1>4, SMT DEF copy_out, poolVars, queueVars
    <2>2. CASE block[e].off = -1
      <3>1. got' = got  BY <1>4, <2>2 DEF copy_out
      <3> QED  BY <2>1, <3>1
    <2>3. CASE block[e].off # -1
      <3>1. got' = [got EXCEPT ![e] = mem[Peer(e)][block[e].off]]
        BY <1>4, <2>3, SMT DEF copy_out
      <3>2. mem[Peer(e)][block[e].off] \in Nat
        BY <1>0, <2>3, PeerFacts, SMTT(20), ZenonT(20) DEF PoolTypes
      <3> QED  BY <2>1, <3>1, <3>2
    <2> QED  BY <2>2, <2>3
  <1>5. ASSUME NEW e \in Ends, account_INCRASE(e) \/ account_REDUCE(e)  PROVE ReaderTypes'
    <2>1. UNCHANGED <<block, got>>
      BY <1>5, SMT DEF account_INCRASE, account_REDUCE
    <2>2. \A n \in Int : U32(n) \in Int
      BY DEF U32
    <2>3. \A f \in Ends : Counted(f) \subseteq Int
      BY DEF Counted, Users
    <2>4. \E f \in Ends, n \in Int : cur_byte_write' = [cur_byte_write EXCEPT ![f] = n]
      <3>1. CASE account_INCRASE(e)
        <4>1. PICK n \in Counted(e) :
                cur_byte_write' = [cur_byte_write EXCEPT ![e] = U32(@ + n)]
          BY <3>1, Zenon DEF account_INCRASE
        <4>2. cur_byte_write[e] + n \in Int
          BY <2>3
        <4> QED  BY <4>1, <4>2, <2>2
      <3>2. CASE account_REDUCE(e)
        <4>1. PICK n \in Counted(Peer(e)) \cup {0} :
                cur_byte_write' = [cur_byte_write EXCEPT ![Peer(e)] = U32(@ - n)]
          BY <3>2, Zenon DEF account_REDUCE
        <4>2. cur_byte_write[Peer(e)] - n \in Int
          BY <2>3, PeerFacts
        <4> QED  BY <4>1, <4>2, <2>2, PeerFacts
      <3> QED  BY <1>5, <3>1, <3>2
    <2> QED  BY <2>1, <2>4
  <1>6. CASE Next
    BY <1>1, <1>2, <1>3, <1>4, <1>5, <1>6, ReaderSteps
  <1> QED  BY <1>1, <1>6 DEF vars, poolVars, queueVars

FlagWrite == [end : Ends, flag : Flags, up : BOOLEAN]

\* Which actions touch flags, pending flag writes and the loaded byte.
LEMMA FlagSteps ==
    ASSUME Next
    PROVE  \/ UNCHANGED flagVars
           \/ \E e \in Ends : \/ flag_load(e) \/ flag_store(e)
                              \/ add_queue_append(e) \/ add_queue_resource(e)
                              \/ count_more(e) \/ count_one(e) \/ Close(e)
  BY SMT DEF Next, Call, Step, flagVars, Send, Recv, wait_for_sources, requestA,
     aplly_memory, aplly_memory_torn, account_INCRASE, copy_in, committ,
     add_queue_admit, add_queue_lock, add_queue_link, add_queue_fill,
     add_queue_unlock, count_load, count_store, test_message, test_closed,
     request_message, request_empty, request_closed, copy_out, finish, release_memory,
     release_memory_torn, account_REDUCE, delete_head_queue_pop,
     delete_head_queue_lock, delete_head_queue_next, delete_head_queue_unlock,
     decrement_load, decrement_store, finish_return, kill_self_return

\* Raising and lowering a flag of either end are flag writes.
LEMMA WritesTyped ==
    ASSUME NEW e \in Ends, NEW flag \in Flags
    PROVE  /\ Up(e, flag) \in FlagWrite /\ Up(Peer(e), flag) \in FlagWrite
           /\ Down(e, flag) \in FlagWrite
  BY PeerFacts DEF Up, Down, FlagWrite

\* A step keeps the types of the flag variables.
LEMMA FlagTypesNext ==
    ASSUME FlagTypes, [Next]_vars
    PROVE  FlagTypes'
  <1>0. todo \in [Ends -> Seq(FlagWrite)]  BY DEF FlagTypes, FlagWrite
  <1>1. CASE UNCHANGED flagVars
    BY <1>1 DEF FlagTypes, flagVars
  <1>2. ASSUME NEW e \in Ends, flag_load(e)  PROVE FlagTypes'
    <2>1. todo[e] # <<>> /\ reg' = [reg EXCEPT ![e] = <<con[Head(todo[e]).end]>>]
          /\ UNCHANGED <<con, todo>>
      BY <1>2, SMT DEF flag_load
    <2>2. Head(todo[e]) \in FlagWrite
      BY <1>0, <2>1, HeadAndTail
    <2> DEFINE loaded == <<con[Head(todo[e]).end]>>
    <2>3. loaded \in Seq(SUBSET Flags)
      BY <2>2 DEF FlagWrite, FlagTypes
    <2> HIDE DEF loaded
    <2>4. reg' \in [Ends -> Seq(SUBSET Flags)]
      BY <2>1, <2>3 DEF FlagTypes, loaded
    <2> QED  BY <2>1, <2>4 DEF FlagTypes
  <1>3. ASSUME NEW e \in Ends, flag_store(e)  PROVE FlagTypes'
    <2> DEFINE w == Head(todo[e])
    <2>1. /\ todo[e] # <<>> /\ reg[e] # <<>>
          /\ con' = [con EXCEPT ![w.end] = Write(reg[e][1], w)]
          /\ todo' = [todo EXCEPT ![e] = Tail(@)]
          /\ reg' = [reg EXCEPT ![e] = <<>>]
      BY <1>3, SMT DEF flag_store
    <2>2. w \in FlagWrite /\ Tail(todo[e]) \in Seq(FlagWrite)
      BY <1>0, <2>1, HeadAndTail
    <2> HIDE DEF w
    <2>3. reg[e][1] \in SUBSET Flags
      BY <2>1 DEF FlagTypes
    <2>4. Write(reg[e][1], w) \in SUBSET Flags /\ w.end \in Ends
      BY <2>2, <2>3 DEF Write, FlagWrite
    <2>5. con' \in [Ends -> SUBSET Flags]
      BY <2>1, <2>4 DEF FlagTypes
    <2>6. todo' \in [Ends -> Seq(FlagWrite)]
      BY <1>0, <2>1, <2>2
    <2>7. reg' \in [Ends -> Seq(SUBSET Flags)]
      BY <2>1 DEF FlagTypes
    <2> QED  BY <2>5, <2>6, <2>7 DEF FlagTypes, FlagWrite
  <1>4. ASSUME NEW e \in Ends, NEW writes \in Seq(FlagWrite),
               todo' = todo \/ todo' = [todo EXCEPT ![e] = writes], UNCHANGED <<con, reg>>
        PROVE  FlagTypes'
    <2>1. todo' \in [Ends -> Seq(FlagWrite)]  BY <1>0, <1>4
    <2> QED  BY <1>4, <2>1 DEF FlagTypes, FlagWrite
  <1>5. \A flag \in {"bHas_message", "bHas_new_resource", "bIs_close", "self_close",
                      "rio", "wio"} : flag \in Flags
    BY DEF Flags
  <1>6. ASSUME NEW e \in Ends, add_queue_append(e)  PROVE FlagTypes'
    <2> DEFINE writes == <<Up(Peer(e), "bHas_message")>>
    <2>1. writes \in Seq(FlagWrite)
      BY <1>5, WritesTyped
    <2>2. UNCHANGED <<con, reg>> /\ todo' = [todo EXCEPT ![e] = writes]
      BY <1>6, Zenon DEF add_queue_append
    <2> HIDE DEF writes
    <2> QED  BY <1>4, <2>1, <2>2
  <1>7. ASSUME NEW e \in Ends, add_queue_resource(e)  PROVE FlagTypes'
    <2> DEFINE r(room) == IF room THEN Up(e, "bHas_new_resource")
                                  ELSE Down(e, "bHas_new_resource")
               w == Up(Peer(e), "bHas_message")
    <2>1. w \in FlagWrite /\ \A room : r(room) \in FlagWrite
      BY <1>5, WritesTyped
    <2>2. UNCHANGED <<con, reg>> /\
             (todo' = todo \/ \E room : todo' = [todo EXCEPT ![e] = <<r(room), w>>])
      BY <1>7, Zenon DEF add_queue_resource
    <2> HIDE DEF r, w
    <2>3. \A room : <<r(room), w>> \in Seq(FlagWrite)  BY <2>1
    <2> QED  BY <1>4, <2>2, <2>3
  <1>8. ASSUME NEW e \in Ends, count_more(e) \/ count_one(e)  PROVE FlagTypes'
    <2>1. \A w \in FlagWrite : TellBoth(e, w) \in Seq(FlagWrite)
      BY <1>5, WritesTyped DEF TellBoth
    <2>2. Up(e, "bHas_message") \in FlagWrite /\ Down(e, "bHas_message") \in FlagWrite
      BY <1>5, WritesTyped
    <2>3. UNCHANGED <<con, reg>> /\
             \/ todo' = todo
             \/ todo' = [todo EXCEPT ![e] = TellBoth(e, Up(e, "bHas_message"))]
             \/ todo' = [todo EXCEPT ![e] = TellBoth(e, Down(e, "bHas_message"))]
      BY <1>8, Zenon DEF count_more, count_one
    <2> QED  BY <1>4, <2>1, <2>2, <2>3
  <1>9. ASSUME NEW e \in Ends, Close(e)  PROVE FlagTypes'
    <2>1. OwnCloseWrites(e) \in Seq(FlagWrite)
      BY <1>5, WritesTyped DEF OwnCloseWrites
    <2>2. PeerCloseWrites(e) \in Seq(FlagWrite)
      BY <1>5, WritesTyped DEF PeerCloseWrites
    <2>3. OwnCloseWrites(e) \o PeerCloseWrites(e) \in Seq(FlagWrite)
      BY <2>1, <2>2
    <2>4. UNCHANGED <<con, reg>>
          /\ todo' = [todo EXCEPT ![e] = OwnCloseWrites(e) \o PeerCloseWrites(e)]
      BY <1>9, Zenon DEF Close
    <2> QED  BY <1>4, <2>3, <2>4
  <1>10. CASE Next
    BY <1>1, <1>2, <1>3, <1>6, <1>7, <1>8, <1>9, <1>10, FlagSteps
  <1> QED  BY <1>1, <1>10 DEF vars

\* Who takes the locks of the queues, and who loads next_block.
LEMMA LockSteps ==
    ASSUME Next
    PROVE  \/ UNCHANGED <<locked, last>>
           \/ \E e \in Ends : \/ add_queue_link(e) \/ add_queue_unlock(e)
                              \/ delete_head_queue_next(e)
                              \/ delete_head_queue_unlock(e)
  BY SMT DEF Next, Call, Step, queueVars, Send, Recv, Close, wait_for_sources, requestA,
     aplly_memory, aplly_memory_torn, account_INCRASE, copy_in, committ,
     add_queue_admit, add_queue_lock, add_queue_fill, add_queue_append,
     add_queue_resource, count_load, count_store, flag_load, flag_store, test_message,
     test_closed, request_message, request_empty, request_closed, copy_out, finish,
     release_memory, release_memory_torn, account_REDUCE, delete_head_queue_pop,
     delete_head_queue_lock, count_more, count_one, decrement_load, decrement_store,
     finish_return, kill_self_return

\* A step keeps the types of the locks.
LEMMA LockTypesNext ==
    ASSUME LockTypes, [Next]_vars
    PROVE  LockTypes'
  <1> USE DEF LockTypes
  <1>1. CASE UNCHANGED <<locked, last>>
    BY <1>1
  <1>2. ASSUME NEW e \in Ends, add_queue_link(e) \/ add_queue_unlock(e)
        PROVE  LockTypes'
    <2>1. last' = last /\ \E b \in BOOLEAN : locked' = [locked EXCEPT ![e] = b]
      BY <1>2, Zenon DEF add_queue_link, add_queue_unlock
    <2> QED  BY <2>1
  <1>3. ASSUME NEW e \in Ends, delete_head_queue_next(e) \/ delete_head_queue_unlock(e)
        PROVE  LockTypes'
    <2>1. \E b \in BOOLEAN : locked' = [locked EXCEPT ![Peer(e)] = b]
      BY <1>3, Zenon DEF delete_head_queue_next, delete_head_queue_unlock
    <2>2. last' = last \/ \E b \in BOOLEAN : last' = [last EXCEPT ![e] = b]
      BY <1>3, Zenon DEF delete_head_queue_next, delete_head_queue_unlock
    <2> QED  BY <2>1, <2>2
  <1>4. CASE Next
    BY <1>1, <1>2, <1>3, <1>4, LockSteps
  <1> QED  BY <1>1, <1>4 DEF vars, queueVars

\* Every variable keeps its type: in particular no Head or Tail of an empty ring
\* or queue is ever taken, and no recv reads the pool at a position outside it.
THEOREM TypeCorrect == Spec => []TypeOK
  <1> DEFINE IInv == PoolInv /\ NumberInv /\ LockTypes /\ ReaderTypes /\ FlagTypes
  <1>1. Init => IInv
    <2> SUFFICES ASSUME Init PROVE IInv  OBVIOUS
    <2>1. ReaderTypes
      BY ChannelAssumption, SMT DEF Init, ReaderTypes, Zeroed, Blocks
    <2>2. FlagTypes
      BY SMT DEF Init, FlagTypes, Flags
    <2>3. LockTypes
      BY SMT DEF Init, LockTypes
    <2> QED  BY <2>1, <2>2, <2>3, PoolInit, NumberInit
  <1>2. IInv /\ [Next]_vars => IInv'
    BY PoolNext, NumberNext, LockTypesNext, ReaderTypesNext, FlagTypesNext
  <1>3. IInv => TypeOK
    BY DEF PoolInv, NumberInv, TypeOK
  <1> QED  BY <1>1, <1>2, <1>3, PTL DEF Spec

-----------------------------------------------------------------------------
(* The message flag and close_self, in every interleaving *)

\* The steps at which a handler has flag writes to make, and those of a recv that
\* saw its message flag up.
Flagging == {"c_appended", "c_flags", "d_load", "d_store", "d_flags", "k_flags"}
Reading == {"g_get", "r_copy", "f_guard", "f_release", "f_account", "f_lock", "f_pop",
            "f_head", "f_unlock", "d_more"}

\* A write of e's message flag.
OnMessage(w, e) == w.end = e /\ w.flag = "bHas_message"

\* What a handler's pending flag writes may be, by the step it is at.
OwedOK(e) ==
    /\ reg[e] # <<>> => todo[e] # <<>>
    /\ todo[e] # <<>> => pc[e] \in Flagging
    /\ \A i \in 1 .. Len(todo[e]) :
          LET w == todo[e][i] IN
          /\ w.end = e /\ w.flag # "bHas_message" => pc[e] \in {"c_flags", "k_flags"}
          /\ OnMessage(w, Peer(e)) => w.up

\* A raise of the handler's own message flag finds it up.
RaiseOK(e) ==
    \A i \in 1 .. Len(todo[e]) :
        OnMessage(todo[e][i], e) /\ todo[e][i].up =>
            /\ pc[e] \in {"d_load", "d_store", "d_flags"}
            /\ "bHas_message" \in con[e]
            /\ \A j \in 1 .. Len(todo[e]) : OnMessage(todo[e][j], e) => todo[e][j].up

\* A loaded byte has the message flag as it is in memory, as far as the store of
\* the byte could go wrong by it.
LoadedOK(e) ==
    reg[e] # <<>> =>
       /\ todo[e][1].end = e /\ "bHas_message" \in reg[e][1] => "bHas_message" \in con[e]
       /\ todo[e][1].end = Peer(e) /\ todo[e][1].flag # "bHas_message"
             /\ "bHas_message" \in con[Peer(e)] => "bHas_message" \in reg[e][1]

\* What is known of the flags of e and of the writes to them.
FlagOK(e) == /\ OwedOK(e) /\ RaiseOK(e) /\ LoadedOK(e)
             /\ pc[e] \in Reading => "bHas_message" \in con[e]

FlagInv == /\ FlagTypes /\ ControlTypes /\ reclaimed = {}
           /\ \A e \in Ends : FlagOK(e)

\* How pc moves under the writes a handler still has to make, and who starts a
\* read: only a recv that saw its message flag up.
LEMMA FlagMoves ==
    ASSUME Next, ControlTypes, UNCHANGED flagVars, NEW e \in Ends
    PROVE  /\ \/ pc'[e] = pc[e] \/ todo[e] = <<>> \/ pc[e] \notin Flagging
              \/ pc[e] \in {"d_load", "d_store"} /\ pc'[e] \in {"d_store", "d_flags"}
              \/ pc[e] = "c_appended" /\ pc'[e] = "c_flags"
           /\ pc'[e] \in Reading => pc[e] \in Reading \/ "bHas_message" \in con[e]
  BY SMT DEF ControlTypes, flagVars, Flagging, Reading, Next, Call, Step, Goto,
     Return, Send, Recv, Close, wait_for_sources, requestA, aplly_memory,
     aplly_memory_torn, account_INCRASE, copy_in, committ, add_queue_admit,
     add_queue_lock, add_queue_link, add_queue_fill, add_queue_append,
     add_queue_unlock, add_queue_resource, count_load, count_store, flag_load,
     flag_store, test_message, test_closed, request_message, request_empty,
     request_closed, copy_out, finish, release_memory, release_memory_torn,
     account_REDUCE, delete_head_queue_pop, delete_head_queue_lock,
     delete_head_queue_next, delete_head_queue_unlock, count_more, count_one,
     decrement_load, decrement_store, finish_return, RecvReturn, kill_self_return

\* An object is reclaimed only where a reader finds its peer collectable.
LEMMA ReclaimSteps ==
    ASSUME Next, reclaimed = {}
    PROVE  \/ reclaimed' = {}
           \/ \E e \in Ends : pc[e] \in {"g_get", "f_guard"} /\ Collectable(e)
  BY SMT DEF lifeVars, Linked, collect, Next, Call, Step, Send, Recv, Close,
     wait_for_sources, requestA, aplly_memory, aplly_memory_torn, account_INCRASE,
     copy_in, committ, add_queue_admit, add_queue_lock, add_queue_link,
     add_queue_fill, add_queue_append, add_queue_unlock, add_queue_resource,
     count_load, count_store, flag_load, flag_store, test_message, test_closed,
     request_message, request_empty, request_closed, copy_out, finish, release_memory,
     release_memory_torn, account_REDUCE, delete_head_queue_pop,
     delete_head_queue_lock, delete_head_queue_next, delete_head_queue_unlock,
     count_more, count_one, decrement_load, decrement_store, finish_return,
     kill_self_return

\* A store puts the byte back as it was loaded, but for its own flag; the write
\* is then done.
LEMMA FlagStored ==
    ASSUME FlagTypes, NEW e \in Ends, flag_store(e)
    PROVE  LET w == todo[e][1] IN
           /\ todo[e] # <<>> /\ reg[e] # <<>> /\ w \in FlagWrite
           /\ reg[e][1] \in SUBSET Flags
           /\ con' \in [Ends -> SUBSET Flags]
           /\ con'[w.end] = Write(reg[e][1], w)
           /\ \A f \in Ends : f # w.end => con'[f] = con[f]
           /\ reg'[e] = <<>> /\ Len(todo'[e]) = Len(todo[e]) - 1
           /\ \A i \in 1 .. Len(todo'[e]) : todo'[e][i] = todo[e][i + 1]
           /\ \A f \in Ends : f # e => reg'[f] = reg[f] /\ todo'[f] = todo[f]
           /\ Len(todo[e]) \in Nat \ {0}
           /\ pc' = pc /\ reclaimed' = reclaimed
  <1> DEFINE w == Head(todo[e])
  <1>0. todo \in [Ends -> Seq(FlagWrite)]  BY DEF FlagTypes, FlagWrite
  <1>1. /\ todo[e] # <<>> /\ reg[e] # <<>>
        /\ con' = [con EXCEPT ![w.end] = Write(reg[e][1], w)]
        /\ todo' = [todo EXCEPT ![e] = Tail(@)]
        /\ reg' = [reg EXCEPT ![e] = <<>>]
        /\ pc' = pc /\ reclaimed' = reclaimed
    BY SMT DEF flag_store, lifeVars
  <1>2. /\ w \in FlagWrite /\ Tail(todo[e]) \in Seq(FlagWrite) /\ w = todo[e][1]
        /\ Len(todo[e]) \in Nat \ {0} /\ Len(Tail(todo[e])) = Len(todo[e]) - 1
        /\ \A i \in 1 .. Len(todo[e]) - 1 : Tail(todo[e])[i] = todo[e][i + 1]
    BY <1>0, <1>1, HeadAndTail
  <1> HIDE DEF w
  <1>3. reg[e][1] \in SUBSET Flags
    BY <1>1 DEF FlagTypes
  <1>4. Write(reg[e][1], w) \in SUBSET Flags /\ w.end \in Ends
    BY <1>2, <1>3 DEF Write, FlagWrite
  <1>5. /\ con' \in [Ends -> SUBSET Flags] /\ con'[w.end] = Write(reg[e][1], w)
        /\ \A f \in Ends : f # w.end => con'[f] = con[f]
    BY <1>1, <1>4 DEF FlagTypes
  <1>6. /\ todo'[e] = Tail(todo[e]) /\ reg'[e] = <<>>
        /\ \A f \in Ends : f # e => reg'[f] = reg[f] /\ todo'[f] = todo[f]
    BY <1>0, <1>1 DEF FlagTypes
  <1> QED  BY <1>1, <1>2, <1>3, <1>5, <1>6

\* The store of one handler keeps what is asked of both.
LEMMA StoreKeeps ==
    ASSUME FlagInv, FlagTypes', ControlTypes', NEW e \in Ends, flag_store(e)
    PROVE  FlagInv'
  <1> DEFINE p == Peer(e)
             w == todo[e][1]
  <1>a. p \in Ends /\ p # e /\ Peer(p) = e /\ (\A f \in Ends : f = e \/ f = p)
    BY PeerFacts DEF Ends, Peer
  <1>b. FlagOK(e) /\ FlagOK(p) /\ FlagTypes /\ reclaimed = {}
    BY <1>a DEF FlagInv
  <1>1. /\ todo[e] # <<>> /\ reg[e] # <<>> /\ w \in FlagWrite
        /\ con'[w.end] = Write(reg[e][1], w)
        /\ \A f \in Ends : f # w.end => con'[f] = con[f]
        /\ reg'[e] = <<>> /\ Len(todo'[e]) = Len(todo[e]) - 1
        /\ \A i \in 1 .. Len(todo'[e]) : todo'[e][i] = todo[e][i + 1]
        /\ reg'[p] = reg[p] /\ todo'[p] = todo[p]
        /\ Len(todo[e]) \in Nat \ {0}
        /\ pc' = pc /\ reclaimed' = reclaimed
    BY <1>a, <1>b, FlagStored
  <1>2. w.end \in Ends /\ w.up \in BOOLEAN
    BY <1>1 DEF FlagWrite
  <1> HIDE DEF p, w
  <1>3. todo'[e] # <<>> => todo[e] # <<>>
    BY <1>1
  <1>4. (w.end = e \/ w.end = p)
    BY <1>a, <1>2
  \* what a store does to the two message flags
  <1>5. w.end = p /\ "bHas_message" \in con[p] => "bHas_message" \in con'[p]
    <2> SUFFICES ASSUME w.end = p, "bHas_message" \in con[p] PROVE "bHas_message" \in con'[p]
      OBVIOUS
    <2>1. w.flag = "bHas_message" => w.up
      BY <1>b, <1>1 DEF FlagOK, OwedOK, OnMessage, w, p
    <2>2. w.flag # "bHas_message" => "bHas_message" \in reg[e][1]
      BY <1>b, <1>1 DEF FlagOK, LoadedOK, w, p
    <2> QED  BY <1>1, <2>1, <2>2 DEF Write
  <1>6. w.end = e /\ "bHas_message" \in con'[e] => "bHas_message" \in con[e]
    <2> SUFFICES ASSUME w.end = e, "bHas_message" \in con'[e] PROVE "bHas_message" \in con[e]
      OBVIOUS
    <2>1. w.flag = "bHas_message" /\ w.up => "bHas_message" \in con[e]
      BY <1>b, <1>1 DEF FlagOK, RaiseOK, OnMessage, w, p
    <2>2. "bHas_message" \in reg[e][1] => "bHas_message" \in con[e]
      BY <1>b, <1>1 DEF FlagOK, LoadedOK, w
    <2> QED  BY <1>1, <2>1, <2>2 DEF Write
  <1>7. w.end = e => pc[e] \notin Reading
    <2>1. pc[e] \in Flagging  BY <1>b, <1>1 DEF FlagOK, OwedOK
    <2> QED  BY <2>1 DEF Flagging, Reading
  <1>8. OwedOK(e)' /\ RaiseOK(e)' /\ LoadedOK(e)'
    <2>1. OwedOK(e)'
      BY <1>b, <1>1, <1>3 DEF FlagOK, OwedOK, OnMessage
    <2>2. RaiseOK(e)'
      <3> SUFFICES ASSUME NEW i \in 1 .. Len(todo'[e]), OnMessage(todo'[e][i], e), todo'[e][i].up
                   PROVE  /\ pc[e] \in {"d_load", "d_store", "d_flags"}
                          /\ "bHas_message" \in con'[e]
                          /\ \A j \in 1 .. Len(todo'[e]) : OnMessage(todo'[e][j], e) => todo'[e][j].up
        BY <1>1 DEF RaiseOK, OnMessage
      <3>1. /\ i + 1 \in 1 .. Len(todo[e]) /\ todo'[e][i] = todo[e][i + 1]
            /\ \A j \in 1 .. Len(todo'[e]) : j + 1 \in 1 .. Len(todo[e])
            /\ 1 \in 1 .. Len(todo[e])
        BY <1>1
      <3>2. /\ pc[e] \in {"d_load", "d_store", "d_flags"}
            /\ "bHas_message" \in con[e]
            /\ \A j \in 1 .. Len(todo[e]) : OnMessage(todo[e][j], e) => todo[e][j].up
        BY <1>b, <3>1 DEF FlagOK, RaiseOK
      <3>3. w.end = e => w.flag = "bHas_message"
        BY <1>b, <3>1, <3>2 DEF FlagOK, OwedOK, w
      <3>4. w.end = e => w.up
        BY <3>1, <3>2, <3>3 DEF OnMessage, w
      <3>5. "bHas_message" \in con'[e]
        BY <1>1, <1>a, <1>4, <3>2, <3>3, <3>4 DEF Write
      <3> QED  BY <1>1, <3>1, <3>2, <3>5
    <2>3. LoadedOK(e)'
      BY <1>1 DEF LoadedOK
    <2> QED  BY <2>1, <2>2, <2>3
  <1>9. "bHas_message" \in con[p] => "bHas_message" \in con'[p]
    BY <1>1, <1>4, <1>5, <1>a
  <1>10. FlagOK(e)'
    <2>1. pc'[e] \in Reading => "bHas_message" \in con'[e]
      BY <1>1, <1>4, <1>7, <1>a, <1>b DEF FlagOK
    <2> QED  BY <1>8, <2>1 DEF FlagOK
  <1>11. FlagOK(p)'
    <2>1. OwedOK(p)'
      BY <1>1, <1>b DEF FlagOK, OwedOK
    <2>2. RaiseOK(p)'
      BY <1>1, <1>9, <1>b DEF FlagOK, RaiseOK
    <2>3. LoadedOK(p)'
      <3> SUFFICES ASSUME reg[p] # <<>> PROVE LoadedOK(p)'  BY <1>1 DEF LoadedOK
      <3>1. (todo[p][1].end = p /\ "bHas_message" \in reg[p][1]) => "bHas_message" \in con'[p]
        BY <1>9, <1>b DEF FlagOK, LoadedOK
      <3>2. (todo[p][1].end = e /\ todo[p][1].flag # "bHas_message"
             /\ "bHas_message" \in con'[e]) => "bHas_message" \in reg[p][1]
        BY <1>1, <1>4, <1>6, <1>a, <1>b DEF FlagOK, LoadedOK
      <3> QED  BY <1>1, <1>a, <3>1, <3>2 DEF LoadedOK
    <2>4. pc'[p] \in Reading => "bHas_message" \in con'[p]
      BY <1>1, <1>9, <1>b DEF FlagOK
    <2> QED  BY <2>1, <2>2, <2>3, <2>4 DEF FlagOK
  <1> QED  BY <1>a, <1>b, <1>1, <1>10, <1>11 DEF FlagInv

\* Initially no flag write is pending.
LEMMA FlagInit == Init => FlagInv
  <1> SUFFICES ASSUME Init PROVE FlagInv  OBVIOUS
  <1>1. FlagTypes  BY SMT DEF Init, FlagTypes, Flags
  <1>2. ControlTypes /\ reclaimed = {}  BY NumberInit DEF NumberInv, Init
  <1>3. ASSUME NEW e \in Ends PROVE FlagOK(e)
    <2>1. todo[e] = <<>> /\ reg[e] = <<>> /\ pc[e] = "ready"
      BY <1>3, SMT DEF Init
    <2> QED  BY <2>1 DEF FlagOK, OwedOK, RaiseOK, LoadedOK, Reading
  <1> QED  BY <1>1, <1>2, <1>3 DEF FlagInv

\* Loading the byte makes it what it is in memory.
LEMMA LoadKeeps ==
    ASSUME FlagInv, FlagTypes', ControlTypes', NEW e \in Ends, flag_load(e)
    PROVE  FlagInv'
  <1>a. /\ todo \in [Ends -> Seq(FlagWrite)] /\ FlagTypes /\ reclaimed = {}
        /\ \A f \in Ends : FlagOK(f)
    BY DEF FlagInv, FlagTypes, FlagWrite
  <1>1. /\ todo[e] # <<>> /\ reg' = [reg EXCEPT ![e] = <<con[Head(todo[e]).end]>>]
        /\ pc[e] \in Flagging
        /\ UNCHANGED <<con, todo, pc, reclaimed>>
    BY SMT DEF flag_load, lifeVars, Flagging
  <1>2. Head(todo[e]) = todo[e][1]
    BY <1>a, <1>1, HeadAndTail
  <1>3. reg'[e] = <<con[todo[e][1].end]>> /\ reg'[e][1] = con[todo[e][1].end]
        /\ \A f \in Ends : f # e => reg'[f] = reg[f]
    BY <1>a, <1>1, <1>2 DEF FlagTypes
  <1>4. ASSUME NEW f \in Ends PROVE FlagOK(f)'
    <2>0. FlagOK(f)  BY <1>a
    <2>1. OwedOK(f)'  BY <2>0, <1>1, <1>3 DEF FlagOK, OwedOK
    <2>2. RaiseOK(f)'  BY <2>0, <1>1 DEF FlagOK, RaiseOK
    <2>3. LoadedOK(f)'
      <3>1. CASE f = e  BY <3>1, <1>1, <1>3 DEF LoadedOK
      <3>2. CASE f # e  BY <3>2, <2>0, <1>1, <1>3 DEF FlagOK, LoadedOK
      <3> QED  BY <3>1, <3>2
    <2> QED  BY <2>0, <1>1, <2>1, <2>2, <2>3 DEF FlagOK
  <1> QED  BY <1>a, <1>1, <1>4 DEF FlagInv

\* What a write that is begun may be, for each step that begins one.
Begun(e, writes, step) ==
    /\ todo' = [todo EXCEPT ![e] = writes] /\ Goto(e, step)
    /\ UNCHANGED <<con, reg, reclaimed>>
    /\ pc[e] \notin Flagging /\ step \in Flagging
    /\ writes \in Seq(FlagWrite)
    /\ \A i \in 1 .. Len(writes) :
          LET w == writes[i] IN
          /\ w.end = e /\ w.flag # "bHas_message" => step \in {"c_flags", "k_flags"}
          /\ OnMessage(w, Peer(e)) => w.up
          /\ OnMessage(w, e) /\ w.up =>
                /\ step = "d_load" /\ pc[e] \in Reading
                /\ \A j \in 1 .. Len(writes) : OnMessage(writes[j], e) => writes[j].up

\* A handler that lists its writes keeps what is known of them.
LEMMA BeginKeeps ==
    ASSUME FlagInv, FlagTypes', ControlTypes', NEW e \in Ends, NEW writes, NEW step,
           Begun(e, writes, step)
    PROVE  FlagInv'
  <1>a. /\ todo \in [Ends -> Seq(FlagWrite)] /\ FlagTypes /\ reclaimed = {}
        /\ ControlTypes /\ \A f \in Ends : FlagOK(f)
    BY DEF FlagInv, FlagTypes, FlagWrite
  <1>1. /\ todo'[e] = writes /\ pc'[e] = step
        /\ \A f \in Ends : f # e => todo'[f] = todo[f] /\ pc'[f] = pc[f]
        /\ UNCHANGED <<con, reg, reclaimed>>
    BY <1>a DEF Begun, Goto, ControlTypes
  <1>2. reg[e] = <<>>
    BY <1>a DEF Begun, FlagOK, OwedOK
  <1>3. FlagOK(e)'
    <2>1. OwedOK(e)'  BY <1>1, <1>2 DEF Begun, OwedOK
    <2>2. RaiseOK(e)'  BY <1>a, <1>1 DEF Begun, RaiseOK, FlagOK
    <2>3. LoadedOK(e)'  BY <1>1, <1>2 DEF LoadedOK
    <2>4. pc'[e] \notin Reading  BY <1>1 DEF Begun, Flagging, Reading
    <2> QED  BY <2>1, <2>2, <2>3, <2>4 DEF FlagOK
  <1>4. ASSUME NEW f \in Ends, f # e PROVE FlagOK(f)'
    <2>0. FlagOK(f)  BY <1>a
    <2>1. OwedOK(f)'  BY <2>0, <1>1, <1>4 DEF FlagOK, OwedOK
    <2>2. RaiseOK(f)'  BY <2>0, <1>1, <1>4 DEF FlagOK, RaiseOK
    <2>3. LoadedOK(f)'  BY <2>0, <1>1, <1>4 DEF FlagOK, LoadedOK
    <2> QED  BY <2>0, <1>1, <1>4, <2>1, <2>2, <2>3 DEF FlagOK
  <1> QED  BY <1>a, <1>1, <1>3, <1>4 DEF FlagInv

\* A step that touches no flag keeps them as they are asked to be.
LEMMA FlagsKept ==
    ASSUME FlagInv, FlagTypes', ControlTypes', Next, UNCHANGED flagVars, reclaimed' = {}
    PROVE  FlagInv'
  <1>a. ControlTypes /\ FlagTypes /\ \A f \in Ends : FlagOK(f)  BY DEF FlagInv
  <1>1. UNCHANGED <<con, todo, reg>>  BY DEF flagVars
  <1>2. ASSUME NEW f \in Ends PROVE FlagOK(f)'
    <2>0. FlagOK(f)  BY <1>a
    <2>1. /\ \/ pc'[f] = pc[f] \/ todo[f] = <<>> \/ pc[f] \notin Flagging
             \/ pc[f] \in {"d_load", "d_store"} /\ pc'[f] \in {"d_store", "d_flags"}
             \/ pc[f] = "c_appended" /\ pc'[f] = "c_flags"
          /\ pc'[f] \in Reading => pc[f] \in Reading \/ "bHas_message" \in con[f]
      BY <1>a, FlagMoves
    <2>2. OwedOK(f)'  BY <2>0, <2>1, <1>1 DEF FlagOK, OwedOK, Flagging
    <2>3. RaiseOK(f)'  BY <2>0, <2>1, <1>1 DEF FlagOK, RaiseOK, Flagging
    <2>4. LoadedOK(f)'  BY <2>0, <1>1 DEF FlagOK, LoadedOK
    <2> QED  BY <2>0, <2>1, <1>1, <2>2, <2>3, <2>4 DEF FlagOK
  <1> QED  BY <1>2 DEF FlagInv

\* The entries of a concatenation are those of its parts.
LEMMA Joined ==
    ASSUME NEW M, NEW s \in Seq(M), NEW t \in Seq(M), NEW r, r = s \o t
    PROVE  /\ r \in Seq(M)
           /\ \A i \in 1 .. Len(r) : \/ \E j \in 1 .. Len(s) : r[i] = s[j]
                                    \/ \E j \in 1 .. Len(t) : r[i] = t[j]
  <1>1. /\ s \o t \in Seq(M) /\ Len(s \o t) = Len(s) + Len(t)
        /\ Len(s) \in Nat /\ Len(t) \in Nat
        /\ \A i \in 1 .. Len(s) : (s \o t)[i] = s[i]
        /\ \A i \in Len(s) + 1 .. Len(s) + Len(t) : (s \o t)[i] = t[i - Len(s)]
    OBVIOUS
  <1>2. ASSUME NEW i \in 1 .. Len(r)
        PROVE  \/ \E j \in 1 .. Len(s) : r[i] = s[j]
               \/ \E j \in 1 .. Len(t) : r[i] = t[j]
    <2>1. CASE i <= Len(s)
      <3>1. i \in 1 .. Len(s) /\ r[i] = s[i]  BY <1>1, <2>1
      <3> QED  BY <3>1
    <2>2. CASE i > Len(s)
      <3>1. i - Len(s) \in 1 .. Len(t) /\ r[i] = t[i - Len(s)]
        BY <1>1, <2>2
      <3> QED  BY <3>1
    <2>3. i \in Int /\ Len(s) \in Int
      BY <1>1
    <2> QED  BY <2>1, <2>2, <2>3
  <1> QED  BY <1>1, <1>2

\* A close writes both ends' close flags and lowers its own others.
LEMMA CloseWrites ==
    ASSUME NEW e \in Ends
    PROVE  LET writes == OwnCloseWrites(e) \o PeerCloseWrites(e) IN
           /\ writes \in Seq(FlagWrite)
           /\ \A i \in 1 .. Len(writes) :
                 \/ /\ writes[i].end = e
                    /\ writes[i].flag = "bHas_message" => ~writes[i].up
                 \/ writes[i] = Up(Peer(e), "bIs_close")
  <1>1. \A flag \in {"bHas_message", "bHas_new_resource", "bIs_close", "self_close",
                     "rio", "wio"} : flag \in Flags
    BY DEF Flags
  <1> DEFINE own == OwnCloseWrites(e)
             other == PeerCloseWrites(e)
  <1>2. own \in Seq(FlagWrite)
    BY <1>1, WritesTyped DEF OwnCloseWrites
  <1>3. other \in Seq(FlagWrite)
    BY <1>1, WritesTyped DEF PeerCloseWrites
  <1>4. \A i \in 1 .. Len(own) : /\ own[i].end = e
                                 /\ own[i].flag = "bHas_message" => ~own[i].up
    BY DEF OwnCloseWrites, Up, Down
  <1>5. \A i \in 1 .. Len(other) : other[i] = Up(Peer(e), "bIs_close")
    BY DEF PeerCloseWrites
  <1> DEFINE all == own \o other
  <1>a. all = own \o other
    OBVIOUS
  <1> HIDE DEF own, other, all
  <1>6. /\ all \in Seq(FlagWrite)
        /\ \A i \in 1 .. Len(all) : \/ \E j \in 1 .. Len(own) : all[i] = own[j]
                                    \/ \E j \in 1 .. Len(other) : all[i] = other[j]
    BY <1>2, <1>3, <1>a, Joined
  <1>7. \A i \in 1 .. Len(all) : \/ /\ all[i].end = e
                                    /\ all[i].flag = "bHas_message" => ~all[i].up
                                 \/ all[i] = Up(Peer(e), "bIs_close")
    BY <1>4, <1>5, <1>6
  <1> QED  BY <1>6, <1>7 DEF all, own, other

\* Every step that begins flag writes begins permitted ones.
LEMMA BeginSteps ==
    ASSUME FlagInv, Next, NEW e \in Ends,
           \/ add_queue_append(e) \/ add_queue_resource(e)
           \/ count_more(e) \/ count_one(e) \/ Close(e)
    PROVE  \/ UNCHANGED <<flagVars, reclaimed>>
           \/ \E writes, step : Begun(e, writes, step)
  <1> DEFINE Beginning == \E writes, step : Begun(e, writes, step)
  <1>a. /\ Peer(e) \in Ends /\ Peer(e) # e /\ Peer(Peer(e)) = e
        /\ Ends = {Server, Client}
    BY PeerFacts DEF Ends
  <1>b. \A flag \in {"bHas_message", "bHas_new_resource", "bIs_close", "self_close",
                      "rio", "wio"} : flag \in Flags
    BY DEF Flags
  <1>1. CASE add_queue_append(e)
    <2> DEFINE writes == <<Up(Peer(e), "bHas_message")>>
    <2>1. /\ todo' = [todo EXCEPT ![e] = writes] /\ Goto(e, "c_appended")
          /\ UNCHANGED <<con, reg, reclaimed>> /\ pc[e] \notin Flagging
      BY <1>1, SMT DEF add_queue_append, lifeVars, Flagging
    <2>2. writes \in Seq(FlagWrite)  BY <1>b, WritesTyped
    <2>3. \A i \in 1 .. Len(writes) :
             writes[i].end # e /\ writes[i].up /\ writes[i].flag = "bHas_message"
      BY <1>a DEF Up
    <2> HIDE DEF writes
    <2>4. Begun(e, writes, "c_appended")
      BY <1>a, <2>1, <2>2, <2>3 DEF Begun, OnMessage, Flagging
    <2> QED  BY <2>4
  <1>2. CASE add_queue_resource(e)
    <2> DEFINE r(room) == IF room THEN Up(e, "bHas_new_resource")
                                  ELSE Down(e, "bHas_new_resource")
               writes(room) == <<r(room), Up(Peer(e), "bHas_message")>>
    <2>1. CASE queue[e] = <<>>
      BY <1>2, <2>1, SMT DEF add_queue_resource, flagVars
    <2>2. CASE queue[e] # <<>>
      <3>1. PICK room \in BOOLEAN :
               /\ todo' = [todo EXCEPT ![e] = writes(room)] /\ Goto(e, "c_flags")
               /\ UNCHANGED <<con, reg, reclaimed>> /\ pc[e] \notin Flagging
        BY <1>2, <2>2, Zenon DEF add_queue_resource, Flagging
      <3>2. r(room) \in FlagWrite /\ Up(Peer(e), "bHas_message") \in FlagWrite
        BY <1>b, WritesTyped
      <3>3. r(room).end = e /\ r(room).flag = "bHas_new_resource"
        BY DEF Up, Down
      <3> HIDE DEF r
      <3>4. writes(room) \in Seq(FlagWrite)  BY <3>2
      <3>5. \A i \in 1 .. Len(writes(room)) :
               \/ writes(room)[i].end = e /\ writes(room)[i].flag # "bHas_message"
               \/ writes(room)[i].end # e /\ writes(room)[i].up
        BY <1>a, <3>3 DEF Up
      <3> HIDE DEF writes
      <3>6. Begun(e, writes(room), "c_flags")
        BY <1>a, <3>1, <3>4, <3>5 DEF Begun, OnMessage, Flagging
      <3> QED  BY <3>6
    <2> QED  BY <2>1, <2>2
  <1>3. ASSUME NEW w \in FlagWrite, OnMessage(w, e), pc[e] \in {"d_more", "d_one"},
               w.up => pc[e] \in Reading,
               todo' = [todo EXCEPT ![e] = TellBoth(e, w)], Goto(e, "d_load"),
               UNCHANGED <<con, reg, reclaimed>>
        PROVE  Beginning
    <2> DEFINE writes == <<w, Up(Peer(e), "bHas_new_resource")>>
    <2>1. writes \in Seq(FlagWrite)
      BY <1>b, WritesTyped
    <2>2. \A i \in 1 .. Len(writes) :
             \/ writes[i] = w
             \/ writes[i].end # e /\ writes[i].flag # "bHas_message"
      BY <1>a DEF Up
    <2>3. todo' = [todo EXCEPT ![e] = writes]
      BY <1>3 DEF TellBoth
    <2> HIDE DEF writes
    <2>4. Begun(e, writes, "d_load")
      BY <1>a, <1>3, <2>1, <2>2, <2>3 DEF Begun, OnMessage, Flagging
    <2> QED  BY <2>4
  <1>4. CASE count_more(e)
    <2>1. \/ UNCHANGED <<flagVars, reclaimed>>
          \/ /\ todo' = [todo EXCEPT ![e] = TellBoth(e, Up(e, "bHas_message"))]
             /\ Goto(e, "d_load") /\ UNCHANGED <<con, reg, reclaimed>>
      BY <1>4, Zenon DEF count_more, flagVars, lifeVars
    <2>2. pc[e] = "d_more"  BY <1>4 DEF count_more
    <2>3. Up(e, "bHas_message") \in FlagWrite /\ OnMessage(Up(e, "bHas_message"), e)
      BY <1>b, WritesTyped DEF OnMessage, Up
    <2> QED  BY <1>3, <2>1, <2>2, <2>3 DEF Reading
  <1>5. CASE count_one(e)
    <2>1. \/ UNCHANGED <<flagVars, reclaimed>>
          \/ /\ todo' = [todo EXCEPT ![e] = TellBoth(e, Down(e, "bHas_message"))]
             /\ Goto(e, "d_load") /\ UNCHANGED <<con, reg, reclaimed>>
      BY <1>5, Zenon DEF count_one, flagVars, lifeVars
    <2>2. pc[e] = "d_one"  BY <1>5 DEF count_one
    <2>3. /\ Down(e, "bHas_message") \in FlagWrite /\ OnMessage(Down(e, "bHas_message"), e)
          /\ ~Down(e, "bHas_message").up
      BY <1>b, WritesTyped DEF OnMessage, Down
    <2> QED  BY <1>3, <2>1, <2>2, <2>3
  <1>6. CASE Close(e)
    <2> DEFINE writes == OwnCloseWrites(e) \o PeerCloseWrites(e)
    <2>1. /\ todo' = [todo EXCEPT ![e] = writes] /\ Goto(e, "k_flags")
          /\ UNCHANGED <<con, reg, reclaimed>> /\ pc[e] = "ready"
      BY <1>6, Zenon DEF Close, lifeVars
    <2>2. /\ writes \in Seq(FlagWrite)
          /\ \A i \in 1 .. Len(writes) :
                \/ /\ writes[i].end = e
                   /\ writes[i].flag = "bHas_message" => ~writes[i].up
                \/ writes[i] = Up(Peer(e), "bIs_close")
      BY CloseWrites, Zenon
    <2> HIDE DEF writes
    <2>3. \A i \in 1 .. Len(writes) :
             \/ /\ writes[i].end = e
                /\ writes[i].flag = "bHas_message" => ~writes[i].up
             \/ writes[i].flag # "bHas_message"
      BY <2>2 DEF Up
    <2>4. Begun(e, writes, "k_flags")
      BY <1>a, <2>1, <2>2, <2>3 DEF Begun, OnMessage, Flagging
    <2> QED  BY <2>4
  <1> QED  BY <1>1, <1>2, <1>4, <1>5, <1>6

\* Every step keeps what the flags are asked to be.
LEMMA FlagNext ==
    ASSUME FlagInv, [Next]_vars
    PROVE  FlagInv'
  <1>a. FlagTypes /\ ControlTypes /\ reclaimed = {} /\ \A e \in Ends : FlagOK(e)
    BY DEF FlagInv
  <1>b. FlagTypes' /\ ControlTypes'
    BY <1>a, FlagTypesNext, ControlTypesNext
  <1>1. CASE UNCHANGED vars
    BY <1>1 DEF vars, lifeVars, flagVars, FlagInv, FlagTypes, ControlTypes, FlagOK,
       OwedOK, RaiseOK, LoadedOK
  <1>2. CASE Next
    <2>1. reclaimed' = {}
      <3>1. \A e \in Ends : pc[e] \in {"g_get", "f_guard"} => ~Collectable(e)
        BY <1>a DEF FlagOK, Reading, Collectable
      <3> QED  BY <1>2, <1>a, <3>1, ReclaimSteps
    <2>2. CASE UNCHANGED flagVars
      BY <1>2, <1>b, <2>1, <2>2, FlagsKept
    <2>3. ASSUME NEW e \in Ends, NEW writes, NEW step, Begun(e, writes, step)
          PROVE  FlagInv'
      BY <1>b, <2>3, BeginKeeps
    <2>4. ASSUME NEW e \in Ends,
                 \/ add_queue_append(e) \/ add_queue_resource(e)
                 \/ count_more(e) \/ count_one(e) \/ Close(e)
          PROVE  FlagInv'
      BY <1>2, <2>2, <2>3, <2>4, BeginSteps
    <2>5. ASSUME NEW e \in Ends, flag_load(e) PROVE FlagInv'
      BY <1>b, <2>5, LoadKeeps
    <2>6. ASSUME NEW e \in Ends, flag_store(e) PROVE FlagInv'
      BY <1>b, <2>6, StoreKeeps
    <2> QED  BY <1>2, <2>2, <2>4, <2>5, <2>6, FlagSteps
  <1> QED  BY <1>1, <1>2

\* In every interleaving, GetMessage and Release never reclaim the object of a peer
\* that has closed: the flag they were called for stays up until they lower it.
THEOREM ReclaimSafe == Spec => []NeverReclaimed
  <1>1. FlagInv => NeverReclaimed  BY DEF FlagInv, NeverReclaimed
  <1> QED  BY FlagInit, FlagNext, <1>1, PTL DEF Spec

-----------------------------------------------------------------------------
(* One request at a time: no lock is passed by both handlers *)

\* The engine serves one request at a time.
Alone == \A e \in Ends : InRequest(e) => ~InRequest(Peer(e))

\* Initially no request is served.
LEMMA AloneInit == Init => Alone
  <1> SUFFICES ASSUME Init PROVE Alone OBVIOUS
  <1>1. \A e \in Ends : pc[e] = "ready"  BY DEF Init
  <1> QED  BY <1>1 DEF Alone, InRequest

\* A request begins only while the other end's handler is in none.
LEMMA AloneNext ==
    ASSUME Serialized, Alone, ControlTypes, [Next]_vars
    PROVE  Alone'
  <1>1. ASSUME NEW e \in Ends, Call(e) \/ Step(e)
        PROVE  /\ \A f \in Ends : f # e => pc'[f] = pc[f]
               /\ InRequest(e)' => InRequest(e) \/ ~InRequest(Peer(e))
    BY <1>1, SMT DEF ControlTypes, InRequest, MayStart, Call, Step, Goto, Return,
       Send, Recv, Close, wait_for_sources, requestA, aplly_memory, aplly_memory_torn,
       account_INCRASE, copy_in, committ, add_queue_admit, add_queue_lock,
       add_queue_link, add_queue_fill, add_queue_append, add_queue_unlock,
       add_queue_resource, count_load, count_store, flag_load, flag_store,
       test_message, test_closed, request_message, request_empty, request_closed,
       copy_out, finish, release_memory, release_memory_torn, account_REDUCE,
       delete_head_queue_pop, delete_head_queue_lock, delete_head_queue_next,
       delete_head_queue_unlock, count_more, count_one, decrement_load,
       decrement_store, finish_return, RecvReturn, kill_self_return
  <1>2. CASE Next
    <2>1. PICK e \in Ends : Call(e) \/ Step(e)  BY <1>2 DEF Next
    <2>2. \A f \in Ends : f # e => InRequest(f)' = InRequest(f)
      BY <1>1, <2>1 DEF InRequest
    <2>3. \A f \in Ends : f = e \/ f = Peer(e)  BY DEF Ends, Peer
    <2> QED  BY <1>1, <2>1, <2>2, <2>3, PeerFacts DEF Alone
  <1>3. CASE UNCHANGED vars
    BY <1>3 DEF vars, Alone, InRequest
  <1> QED  BY <1>2, <1>3


\* No two handlers have been at the rings of a pool at once, the writer's handler
\* finds the node it linked or saw, and the next_block the reader's has loaded is
\* the one the head still has.
ApartOK(e) ==
    /\ ~torn[e]
    /\ pc[e] \in {"c_fill", "c_append"} => queue[e] # <<>>
    /\ pc[e] = "f_head" => (last[e] <=> Tail(queue[Peer(e)]) = <<>>)
ApartInv == Alone /\ LockTypes /\ \A e \in Ends : ApartOK(e)

\* Initially no pool has been touched.
LEMMA ApartInit == Init => ApartInv
  <1> SUFFICES ASSUME Init PROVE ApartInv OBVIOUS
  <1>1. ASSUME NEW e \in Ends PROVE ApartOK(e)
    <2>1. pc[e] = "ready" /\ ~torn[e]  BY DEF Init
    <2> QED  BY <2>1 DEF ApartOK
  <1>2. LockTypes  BY SMT DEF Init, LockTypes
  <1> QED  BY <1>1, <1>2, AloneInit DEF ApartInv

\* What the actions on the queues come to when nobody is in between.
LEMMA QueueActions ==
    ASSUME ApartInv, PoolInv, NEW e \in Ends
    PROVE  /\ add_queue_link(e) =>
                 \/ /\ queue[e] = <<>> /\ queue' = [queue EXCEPT ![e] = <<Zeroed>>]
                    /\ Goto(e, "c_fill")
                 \/ /\ queue[e] # <<>> /\ queue' = queue /\ Goto(e, "c_append")
           /\ add_queue_fill(e) =>
                 /\ queue[e] = <<Zeroed>>
                 /\ queue' = [queue EXCEPT ![e] = <<NewMessage(e)>>]
                 /\ pushed' = [pushed EXCEPT ![e] = Append(@, sent[e])]
                 /\ Goto(e, "c_filled") /\ crashed' = crashed
           /\ add_queue_append(e) =>
                 /\ queue[e] # <<>>
                 /\ queue' = [queue EXCEPT ![e] = Append(@, NewMessage(e))]
                 /\ pushed' = [pushed EXCEPT ![e] = Append(@, sent[e])]
           /\ delete_head_queue_pop(e) =>
                 /\ queue[Peer(e)] # <<>>
                 /\ queue' = [queue EXCEPT ![Peer(e)] = Tail(@)]
  <1>1. /\ Peer(e) \in Ends /\ Peer(Peer(e)) = e /\ ApartOK(e)
        /\ QueueOK(e) /\ QueueOK(Peer(e)) /\ PoolTypes
    BY PeerFacts DEF ApartInv, PoolInv, PoolOK
  <1>2. ASSUME add_queue_link(e)
        PROVE  \/ /\ queue[e] = <<>> /\ queue' = [queue EXCEPT ![e] = <<Zeroed>>]
                  /\ Goto(e, "c_fill")
               \/ /\ queue[e] # <<>> /\ queue' = queue /\ Goto(e, "c_append")
    BY <1>2, Zenon DEF add_queue_link
  <1>3. ASSUME add_queue_fill(e)
        PROVE  /\ queue[e] = <<Zeroed>>
               /\ queue' = [queue EXCEPT ![e] = <<NewMessage(e)>>]
               /\ pushed' = [pushed EXCEPT ![e] = Append(@, sent[e])]
               /\ Goto(e, "c_filled") /\ crashed' = crashed
    <2>1. pc[e] = "c_fill"  BY <1>3 DEF add_queue_fill
    <2>2. queue[e] # <<>>  BY <1>1, <2>1 DEF ApartOK
    <2>3. queue[e] = <<Zeroed>>  BY <1>1, <2>1, <2>2 DEF QueueOK
    <2> QED  BY <1>3, <2>2, <2>3, Zenon DEF add_queue_fill
  <1>4. ASSUME add_queue_append(e)
        PROVE  /\ queue[e] # <<>>
               /\ queue' = [queue EXCEPT ![e] = Append(@, NewMessage(e))]
               /\ pushed' = [pushed EXCEPT ![e] = Append(@, sent[e])]
    <2>1. pc[e] = "c_append"  BY <1>4 DEF add_queue_append
    <2>2. queue[e] # <<>>  BY <1>1, <2>1 DEF ApartOK
    <2> QED  BY <1>4, <2>2, Zenon DEF add_queue_append, Enqueue
  <1>5. ASSUME delete_head_queue_pop(e)
        PROVE  /\ queue[Peer(e)] # <<>>
               /\ queue' = [queue EXCEPT ![Peer(e)] = Tail(@)]
    <2>1. pc[e] = "f_head"  BY <1>5 DEF delete_head_queue_pop
    <2>2. queue[Peer(e)] # <<>>  BY <1>1, <2>1 DEF QueueOK, Releasing
    <2>3. last[e] <=> Tail(queue[Peer(e)]) = <<>>  BY <1>1, <2>1 DEF ApartOK
    <2>4. queue' = [queue EXCEPT ![Peer(e)] = IF last[e] THEN <<>> ELSE Tail(@)]
      BY <1>5, Zenon DEF delete_head_queue_pop
    <2>5. CASE last[e]
      BY <2>2, <2>3, <2>4, <2>5
    <2>6. CASE ~last[e]
      BY <2>2, <2>4, <2>6
    <2> QED  BY <2>5, <2>6
  <1> QED  BY <1>2, <1>3, <1>4, <1>5

\* Then no handler works on a torn pool, and every count of a block is made whole.
LEMMA NoTear ==
    ASSUME ApartInv, NEW e \in Ends
    PROVE  /\ ~aplly_memory_torn(e) /\ ~release_memory_torn(e)
           /\ Counted(e) = {Users(e)} /\ Counted(Peer(e)) = {Users(Peer(e))}
  <1>1. /\ Peer(e) \in Ends /\ Peer(Peer(e)) = e
        /\ ~torn[e] /\ ~torn[Peer(e)] /\ Alone
    BY PeerFacts DEF ApartInv, ApartOK
  <1>2. ~AtRings(e) /\ ~AtRings(Peer(e)) /\ ~AtAccounts(e) /\ ~AtAccounts(Peer(e))
    BY <1>1 DEF AtRings, AtAccounts, Alone, InRequest
  <1> QED  BY <1>1, <1>2 DEF aplly_memory_torn, release_memory_torn, Counted

\* Steps that touch neither queue nor next_block.
LEMMA ApartCalm ==
    ASSUME ControlTypes, ApartInv, NEW e \in Ends, Call(e) \/ Step(e),
           ~add_queue_link(e), ~add_queue_fill(e), ~add_queue_append(e),
           ~delete_head_queue_next(e), ~delete_head_queue_pop(e)
    PROVE  /\ UNCHANGED <<torn, queue, last>>
           /\ \A f \in Ends : f # e => pc'[f] = pc[f]
           /\ pc'[e] \in {"c_fill", "c_append", "f_head"} => pc'[e] = pc[e]
  <1>1. ~aplly_memory_torn(e) /\ ~release_memory_torn(e)
    BY NoTear
  <1> QED
    BY <1>1, SMT DEF ControlTypes, Call, Step, Goto, Return, Send, Recv,
       Close, wait_for_sources, requestA, aplly_memory, account_INCRASE, copy_in,
       committ, add_queue_admit, add_queue_lock, add_queue_unlock, add_queue_resource,
       count_load, count_store, flag_load, flag_store, test_message, test_closed,
       request_message, request_empty, request_closed, copy_out, finish,
       release_memory, account_REDUCE, delete_head_queue_lock,
       delete_head_queue_unlock, count_more, count_one, decrement_load,
       decrement_store, finish_return, RecvReturn, kill_self_return, poolVars,
       queueVars, callVars

\* While one end's handler serves a request, the other's is at none of its steps.
LEMMA OtherOut ==
    ASSUME Alone, NEW e \in Ends, InRequest(e)
    PROVE  ~InRequest(Peer(e))
  BY DEF Alone

\* With one request at a time no two handlers get past a lock together.
LEMMA ApartNext ==
    ASSUME Serialized, ApartInv, PoolInv, [Next]_vars
    PROVE  ApartInv'
  <1>a. ControlTypes /\ Alone /\ (\A e \in Ends : ApartOK(e)) /\ PoolTypes
    BY DEF ApartInv, PoolInv
  <1>b. LockTypes /\ LockTypes'
    BY LockTypesNext DEF ApartInv
  <1>0. Alone'  BY <1>a, AloneNext
  <1>1. CASE UNCHANGED vars
    BY <1>0, <1>b, <1>1 DEF vars, poolVars, queueVars, ApartInv, ApartOK
  <1>2. ASSUME NEW e \in Ends, Call(e) \/ Step(e)
        PROVE  ApartInv'
    <2>a. PICK p \in Ends : p = Peer(e) /\ p # e /\ Peer(p) = e
                            /\ \A f \in Ends : f = e \/ f = p
      BY PeerFacts DEF Ends, Peer
    <2>b. ApartOK(e) /\ ApartOK(p)
      BY <1>a
    <2> SUFFICES ApartOK(e)' /\ ApartOK(p)'
      BY <1>0, <1>b, <2>a DEF ApartInv
    <2>1. ASSUME ~add_queue_link(e), ~add_queue_fill(e), ~add_queue_append(e),
                 ~delete_head_queue_next(e), ~delete_head_queue_pop(e)
          PROVE  ApartOK(e)' /\ ApartOK(p)'
      <3>1. /\ UNCHANGED <<torn, queue, last>> /\ pc'[p] = pc[p]
            /\ pc'[e] \in {"c_fill", "c_append", "f_head"} => pc'[e] = pc[e]
        BY <1>2, <1>a, <2>1, <2>a, ApartCalm
      <3> QED  BY <2>a, <2>b, <3>1 DEF ApartOK
    <2>2. ASSUME InRequest(e), NEW step, Goto(e, step)
          PROVE  /\ pc'[e] = step /\ pc'[p] = pc[p]
                 /\ pc[p] \notin {"c_fill", "c_append", "f_head"}
      <3>1. ~InRequest(p)
        BY <1>a, <2>2, <2>a, OtherOut
      <3>2. pc'[e] = step /\ pc'[p] = pc[p]
        BY <1>a, <2>2, <2>a DEF Goto, ControlTypes
      <3> QED  BY <3>1, <3>2 DEF InRequest
    <2>3. CASE add_queue_link(e)
      <3>1. InRequest(e) /\ torn' = torn
        BY <2>3, SMT DEF add_queue_link, InRequest, poolVars
      <3>2. CASE queue[e] = <<>>
        <4>1. queue' = [queue EXCEPT ![e] = <<Zeroed>>] /\ Goto(e, "c_fill")
          BY <2>3, <3>2, QueueActions
        <4>2. queue'[e] # <<>>  BY <1>a, <4>1 DEF PoolTypes
        <4> QED  BY <2>2, <2>b, <3>1, <4>1, <4>2 DEF ApartOK
      <3>3. CASE queue[e] # <<>>
        <4>1. queue' = queue /\ Goto(e, "c_append")
          BY <2>3, <3>3, QueueActions
        <4> QED  BY <2>2, <2>b, <3>1, <3>3, <4>1 DEF ApartOK
      <3> QED  BY <3>2, <3>3
    <2>4. CASE add_queue_fill(e)
      <3>1. InRequest(e) /\ torn' = torn /\ Goto(e, "c_filled")
        BY <2>4, QueueActions DEF add_queue_fill, InRequest, poolVars
      <3> QED  BY <2>2, <2>b, <3>1 DEF ApartOK
    <2>5. CASE add_queue_append(e)
      <3>1. InRequest(e) /\ torn' = torn /\ Goto(e, "c_appended")
        BY <2>5, SMT DEF add_queue_append, InRequest, poolVars
      <3> QED  BY <2>2, <2>b, <3>1 DEF ApartOK
    <2>6. CASE delete_head_queue_next(e)
      <3>1. /\ InRequest(e) /\ torn' = torn /\ queue' = queue /\ Goto(e, "f_head")
            /\ last' = [last EXCEPT ![e] = Tail(queue[p]) = <<>>]
        BY <2>6, <2>a, SMT DEF delete_head_queue_next, InRequest, poolVars
      <3>2. last'[e] <=> Tail(queue[p]) = <<>>
        BY <1>b, <3>1 DEF LockTypes
      <3> QED  BY <2>2, <2>a, <2>b, <3>1, <3>2 DEF ApartOK
    <2>7. CASE delete_head_queue_pop(e)
      <3>1. InRequest(e) /\ torn' = torn /\ Goto(e, "f_unlock")
        BY <2>7, SMT DEF delete_head_queue_pop, InRequest, poolVars
      <3> QED  BY <2>2, <2>b, <3>1 DEF ApartOK
    <2> QED  BY <2>1, <2>3, <2>4, <2>5, <2>6, <2>7
  <1>3. CASE Next
    BY <1>2, <1>3 DEF Next
  <1> QED  BY <1>1, <1>3

-----------------------------------------------------------------------------
(* One request at a time: the counter of messages *)

\* The steps at which e's handler has queued a message it has not counted, and
\* those at which it has popped one it still counts.
Adding(e) == pc[e] \in {"c_fill", "c_filled", "c_appended", "c_resource", "c_flags",
                        "c_store"}
Popped(e) == pc[e] \in {"f_unlock", "d_more", "d_one", "d_load", "d_store"}

\* The counter of e's messages is as far from the length of the queue as the
\* request that is served has come.
CountOK(e) ==
   /\ Len(queue[Peer(e)]) =
          read_msg_number[e] + OneIf(Adding(Peer(e))) - OneIf(Popped(e))
   /\ pc[e] = "c_store" => nreg[e] = read_msg_number[Peer(e)]
   /\ pc[e] = "d_store" => nreg[e] = read_msg_number[e]
   /\ pc[e] = "d_one" => read_msg_number[e] <= 1
CountInv == ApartInv /\ \A e \in Ends : CountOK(e)

\* Steps that change neither queue nor number.
LEMMA CountCalm ==
    ASSUME ControlTypes, ApartInv, NEW e \in Ends, Call(e) \/ Step(e),
           ~add_queue_link(e), ~add_queue_fill(e), ~add_queue_append(e),
           ~count_load(e), ~count_store(e), ~delete_head_queue_pop(e), ~count_more(e),
           ~count_one(e), ~decrement_load(e), ~decrement_store(e)
    PROVE  /\ UNCHANGED <<queue, read_msg_number, nreg>>
           /\ \A f \in Ends : f # e => pc'[f] = pc[f]
           /\ Adding(e)' = Adding(e) /\ Popped(e)' = Popped(e)
           /\ \A step \in {"c_store", "d_store", "d_one"} : pc'[e] = step => pc[e] = step
  <1>1. CASE add_queue_unlock(e)
    <2>1. /\ UNCHANGED <<queue, read_msg_number, nreg>>
          /\ pc[e] \in {"c_filled", "c_appended"}
          /\ Goto(e, "c_resource") \/ Goto(e, "c_flags")
      BY <1>1, Zenon DEF add_queue_unlock
    <2> QED  BY <2>1 DEF Adding, Popped, Goto, ControlTypes
  <1>2. CASE ~add_queue_unlock(e)
    BY <1>2, SMT DEF ControlTypes, Adding, Popped, Call, Step, Goto, Return, Send, Recv,
       Close, wait_for_sources, requestA, aplly_memory, aplly_memory_torn,
       account_INCRASE, copy_in, committ, add_queue_admit, add_queue_lock,
       add_queue_resource, flag_load, flag_store, test_message, test_closed,
       request_message, request_empty, request_closed, copy_out, finish,
       release_memory, release_memory_torn, account_REDUCE, delete_head_queue_lock,
       delete_head_queue_next, delete_head_queue_unlock, finish_return, RecvReturn,
       kill_self_return, poolVars, queueVars, callVars
  <1> QED  BY <1>1, <1>2

\* While one end's handler serves a request, the other's is at none of its steps.
LEMMA OtherIdle ==
    ASSUME Alone, NEW e \in Ends, InRequest(e)
    PROVE  ~Adding(Peer(e)) /\ ~Popped(Peer(e)) /\ ~InRequest(Peer(e))
  BY SMT DEF Alone, InRequest, Adding, Popped

\* How the queue of an end changes.
LEMMA QueueLengths ==
    ASSUME ApartInv, PoolInv, NEW e \in Ends
    PROVE  /\ add_queue_link(e) =>
                 /\ \/ Goto(e, "c_fill") /\ Len(queue'[e]) = Len(queue[e]) + 1
                    \/ Goto(e, "c_append") /\ queue'[e] = queue[e]
                 /\ \A f \in Ends : f # e => queue'[f] = queue[f]
           /\ add_queue_fill(e) =>
                 /\ Len(queue'[e]) = Len(queue[e])
                 /\ \A f \in Ends : f # e => queue'[f] = queue[f]
           /\ add_queue_append(e) =>
                 /\ Len(queue'[e]) = Len(queue[e]) + 1
                 /\ \A f \in Ends : f # e => queue'[f] = queue[f]
           /\ delete_head_queue_pop(e) =>
                 /\ Len(queue'[Peer(e)]) = Len(queue[Peer(e)]) - 1
                 /\ \A f \in Ends : f # Peer(e) => queue'[f] = queue[f]
           /\ Len(queue[e]) \in Nat
  <1>1. Peer(e) \in Ends /\ Peer(Peer(e)) = e /\ queue \in [Ends -> Seq(Message)]
    BY PeerFacts DEF PoolInv, PoolTypes
  <1>2. /\ queue[e] \in Seq(Message) /\ queue[Peer(e)] \in Seq(Message)
        /\ NewMessage(e) \in Message
    BY <1>1, LiveTyped
  <1>3. ASSUME add_queue_link(e)
        PROVE  /\ \/ Goto(e, "c_fill") /\ Len(queue'[e]) = Len(queue[e]) + 1
                  \/ Goto(e, "c_append") /\ queue'[e] = queue[e]
               /\ \A f \in Ends : f # e => queue'[f] = queue[f]
    <2>1. CASE queue[e] = <<>>
      <3>1. queue' = [queue EXCEPT ![e] = <<Zeroed>>] /\ Goto(e, "c_fill")
        BY <1>3, <2>1, QueueActions
      <3> QED  BY <1>1, <2>1, <3>1
    <2>2. CASE queue[e] # <<>>
      BY <1>3, <2>2, QueueActions
    <2> QED  BY <2>1, <2>2
  <1>4. ASSUME add_queue_fill(e)
        PROVE  /\ Len(queue'[e]) = Len(queue[e])
               /\ \A f \in Ends : f # e => queue'[f] = queue[f]
    <2> DEFINE m == NewMessage(e)
    <2>1. queue' = [queue EXCEPT ![e] = <<m>>] /\ queue[e] = <<Zeroed>>
      BY <1>4, QueueActions
    <2> HIDE DEF m
    <2> QED  BY <1>1, <2>1
  <1>5. ASSUME add_queue_append(e)
        PROVE  /\ Len(queue'[e]) = Len(queue[e]) + 1
               /\ \A f \in Ends : f # e => queue'[f] = queue[f]
    <2> DEFINE m == NewMessage(e)
    <2>1. queue' = [queue EXCEPT ![e] = Append(@, m)]
      BY <1>5, QueueActions
    <2>2. Len(Append(queue[e], m)) = Len(queue[e]) + 1
      BY <1>2, Appended
    <2> HIDE DEF m
    <2> QED  BY <1>1, <2>1, <2>2
  <1>6. ASSUME delete_head_queue_pop(e)
        PROVE  /\ Len(queue'[Peer(e)]) = Len(queue[Peer(e)]) - 1
               /\ \A f \in Ends : f # Peer(e) => queue'[f] = queue[f]
    <2>1. queue' = [queue EXCEPT ![Peer(e)] = Tail(@)] /\ queue[Peer(e)] # <<>>
      BY <1>6, QueueActions
    <2>2. Len(Tail(queue[Peer(e)])) = Len(queue[Peer(e)]) - 1
      BY <1>2, <2>1, HeadAndTail
    <2> QED  BY <1>1, <2>1, <2>2
  <1> QED  BY <1>2, <1>3, <1>4, <1>5, <1>6

\* Between requests the number is the length of the queue; in a request it is
\* as far from it as the request has come.
LEMMA CountNext ==
    ASSUME Serialized, CountInv, PoolInv, ControlTypes', NumberTypes, [Next]_vars
    PROVE  CountInv'
  <1>a. /\ ControlTypes /\ Alone /\ ApartInv /\ (\A e \in Ends : CountOK(e))
        /\ PoolTypes
    BY DEF CountInv, ApartInv, PoolInv
  <1>0. ApartInv'  BY <1>a, ApartNext
  <1>b. \A e \in Ends : /\ Peer(e) \in Ends /\ Peer(e) # e /\ Peer(Peer(e)) = e
                        /\ Len(queue[e]) \in Nat
                        /\ (\A f \in Ends : f = e \/ f = Peer(e))
    BY <1>a, PeerFacts, QueueLengths DEF Ends, Peer
  <1>1. CASE UNCHANGED vars
    BY <1>0, <1>1 DEF vars, poolVars, queueVars, CountInv, CountOK, Adding, Popped
  <1>2. ASSUME NEW e \in Ends, Call(e) \/ Step(e)
        PROVE  CountOK(e)' /\ CountOK(Peer(e))'
    <2>a. PICK p \in Ends : p = Peer(e) /\ p # e /\ Peer(p) = e
      BY <1>b
    <2>b. /\ Len(queue[p]) = read_msg_number[e] + OneIf(Adding(p)) - OneIf(Popped(e))
          /\ Len(queue[e]) = read_msg_number[p] + OneIf(Adding(e)) - OneIf(Popped(p))
          /\ pc[e] = "c_store" => nreg[e] = read_msg_number[p]
          /\ pc[p] = "c_store" => nreg[p] = read_msg_number[e]
          /\ pc[e] = "d_store" => nreg[e] = read_msg_number[e]
          /\ pc[p] = "d_store" => nreg[p] = read_msg_number[p]
          /\ pc[e] = "d_one" => read_msg_number[e] <= 1
          /\ pc[p] = "d_one" => read_msg_number[p] <= 1
          /\ Len(queue[e]) \in Nat /\ Len(queue[p]) \in Nat
          /\ read_msg_number[e] \in Int /\ read_msg_number[p] \in Int
          /\ nreg[e] \in Int /\ nreg[p] \in Int
      BY <1>a, <1>b, <2>a DEF CountOK, NumberTypes
    <2> DEFINE Kept ==
           /\ Len(queue[p])' = read_msg_number'[e] + OneIf(Adding(p)') - OneIf(Popped(e)')
           /\ Len(queue[e])' = read_msg_number'[p] + OneIf(Adding(e)') - OneIf(Popped(p)')
           /\ pc'[e] = "c_store" => nreg'[e] = read_msg_number'[p]
           /\ pc'[p] = "c_store" => nreg'[p] = read_msg_number'[e]
           /\ pc'[e] = "d_store" => nreg'[e] = read_msg_number'[e]
           /\ pc'[p] = "d_store" => nreg'[p] = read_msg_number'[p]
           /\ pc'[e] = "d_one" => read_msg_number'[e] <= 1
           /\ pc'[p] = "d_one" => read_msg_number'[p] <= 1
    <2> SUFFICES Kept
      BY <2>a DEF CountOK
    <2> HIDE DEF Kept
    <2>1. ASSUME ~add_queue_link(e), ~add_queue_fill(e), ~add_queue_append(e),
                 ~count_load(e), ~count_store(e), ~delete_head_queue_pop(e),
                 ~count_more(e), ~count_one(e), ~decrement_load(e), ~decrement_store(e)
          PROVE  Kept
      <3>1. /\ UNCHANGED <<queue, read_msg_number, nreg>>
            /\ pc'[p] = pc[p]
            /\ Adding(e)' = Adding(e) /\ Popped(e)' = Popped(e)
            /\ pc'[e] = "c_store" => pc[e] = "c_store"
            /\ pc'[e] = "d_store" => pc[e] = "d_store"
            /\ pc'[e] = "d_one" => pc[e] = "d_one"
        BY <1>2, <1>a, <2>1, <2>a, CountCalm
      <3>2. Adding(p)' = Adding(p) /\ Popped(p)' = Popped(p)
        BY <3>1 DEF Adding, Popped
      <3> QED  BY <2>b, <3>1, <3>2 DEF Kept
    <2>2. ASSUME InRequest(e), NEW step, Goto(e, step)
          PROVE  /\ ~Adding(p) /\ ~Popped(p) /\ ~Adding(p)' /\ ~Popped(p)'
                 /\ pc'[e] = step /\ pc'[p] = pc[p]
                 /\ pc[p] \notin {"c_store", "d_store", "d_one"}
      <3>1. ~Adding(p) /\ ~Popped(p)
        BY <1>a, <2>2, <2>a, OtherIdle
      <3>2. pc'[e] = step /\ pc'[p] = pc[p]
        BY <1>a, <2>2, <2>a DEF Goto, ControlTypes
      <3> QED  BY <3>1, <3>2 DEF Adding, Popped
    <2>3. CASE add_queue_link(e)
      <3>1. InRequest(e) /\ pc[e] = "c_link" /\ UNCHANGED <<read_msg_number, nreg>>
        BY <2>3, SMT DEF add_queue_link, InRequest
      <3>2. /\ \/ Goto(e, "c_fill") /\ Len(queue'[e]) = Len(queue[e]) + 1
               \/ Goto(e, "c_append") /\ queue'[e] = queue[e]
            /\ queue'[p] = queue[p]
        BY <1>a, <2>3, <2>a, QueueLengths
      <3>3. CASE Goto(e, "c_fill") /\ Len(queue'[e]) = Len(queue[e]) + 1
        <4>1. /\ ~Adding(p) /\ ~Popped(p) /\ ~Adding(p)' /\ ~Popped(p)'
              /\ pc'[e] = "c_fill" /\ pc'[p] = pc[p]
              /\ pc[p] \notin {"c_store", "d_store", "d_one"}
          BY <2>2, <3>1, <3>3
        <4> QED  BY <2>b, <3>1, <3>2, <3>3, <4>1 DEF Adding, Popped, OneIf, Kept
      <3>4. CASE Goto(e, "c_append") /\ queue'[e] = queue[e]
        <4>1. /\ ~Adding(p) /\ ~Popped(p) /\ ~Adding(p)' /\ ~Popped(p)'
              /\ pc'[e] = "c_append" /\ pc'[p] = pc[p]
              /\ pc[p] \notin {"c_store", "d_store", "d_one"}
          BY <2>2, <3>1, <3>4
        <4> QED  BY <2>b, <3>1, <3>2, <3>4, <4>1 DEF Adding, Popped, OneIf, Kept
      <3> QED  BY <3>2, <3>3, <3>4
    <2>4. CASE add_queue_fill(e)
      <3>1. /\ InRequest(e) /\ pc[e] = "c_fill" /\ UNCHANGED <<read_msg_number, nreg>>
            /\ Goto(e, "c_filled")
        BY <1>a, <2>4, QueueActions DEF add_queue_fill, InRequest
      <3>2. Len(queue'[e]) = Len(queue[e]) /\ queue'[p] = queue[p]
        BY <1>a, <2>4, <2>a, QueueLengths
      <3>3. /\ ~Adding(p) /\ ~Popped(p) /\ ~Adding(p)' /\ ~Popped(p)'
            /\ pc'[e] \in {"c_filled"} /\ pc'[p] = pc[p]
            /\ pc[p] \notin {"c_store", "d_store", "d_one"}
        BY <2>2, <3>1
      <3> QED  BY <2>b, <3>1, <3>2, <3>3 DEF Adding, Popped, OneIf, Kept
    <2>12. CASE add_queue_append(e)
      <3>1. /\ InRequest(e) /\ pc[e] = "c_append" /\ UNCHANGED <<read_msg_number, nreg>>
            /\ Goto(e, "c_appended")
        BY <2>12, SMT DEF add_queue_append, InRequest
      <3>2. Len(queue'[e]) = Len(queue[e]) + 1 /\ queue'[p] = queue[p]
        BY <1>a, <2>12, <2>a, QueueLengths
      <3>3. /\ ~Adding(p) /\ ~Popped(p) /\ ~Adding(p)' /\ ~Popped(p)'
            /\ pc'[e] \in {"c_appended"} /\ pc'[p] = pc[p]
            /\ pc[p] \notin {"c_store", "d_store", "d_one"}
        BY <2>2, <3>1
      <3> QED  BY <2>b, <3>1, <3>2, <3>3 DEF Adding, Popped, OneIf, Kept
    <2>5. CASE count_load(e)
      <3>1. /\ InRequest(e) /\ pc[e] = "c_flags" /\ UNCHANGED <<read_msg_number, queue>>
            /\ Goto(e, "c_store") /\ nreg'[e] = read_msg_number[p] /\ nreg'[p] = nreg[p]
        BY <2>5, <2>a, SMT DEF count_load, InRequest, queueVars, NumberTypes
      <3>3. /\ ~Adding(p) /\ ~Popped(p) /\ ~Adding(p)' /\ ~Popped(p)'
            /\ pc'[e] \in {"c_store"} /\ pc'[p] = pc[p]
            /\ pc[p] \notin {"c_store", "d_store", "d_one"}
        BY <2>2, <3>1
      <3> QED  BY <2>b, <3>1, <3>3 DEF Adding, Popped, OneIf, Kept
    <2>6. CASE count_store(e)
      <3>1. /\ InRequest(e) /\ pc[e] = "c_store" /\ UNCHANGED <<nreg, queue>>
            /\ Goto(e, "ready") /\ read_msg_number'[p] = nreg[e] + 1
            /\ read_msg_number'[e] = read_msg_number[e]
        BY <2>6, <2>a, SMT DEF count_store, InRequest, queueVars, NumberTypes, Return
      <3>3. /\ ~Adding(p) /\ ~Popped(p) /\ ~Adding(p)' /\ ~Popped(p)'
            /\ pc'[e] \in {"ready"} /\ pc'[p] = pc[p]
            /\ pc[p] \notin {"c_store", "d_store", "d_one"}
        BY <2>2, <3>1
      <3> QED  BY <2>b, <3>1, <3>3 DEF Adding, Popped, OneIf, Kept
    <2>7. CASE delete_head_queue_pop(e)
      <3>1. /\ InRequest(e) /\ pc[e] = "f_head" /\ UNCHANGED <<read_msg_number, nreg>>
            /\ Goto(e, "f_unlock")
        BY <2>7, SMT DEF delete_head_queue_pop, InRequest
      <3>2. Len(queue'[p]) = Len(queue[p]) - 1 /\ queue'[e] = queue[e]
        BY <1>a, <2>7, <2>a, QueueLengths
      <3>3. /\ ~Adding(p) /\ ~Popped(p) /\ ~Adding(p)' /\ ~Popped(p)'
            /\ pc'[e] \in {"f_unlock"} /\ pc'[p] = pc[p]
            /\ pc[p] \notin {"c_store", "d_store", "d_one"}
        BY <2>2, <3>1
      <3>4. ~Popped(e) /\ Popped(e)' /\ ~Adding(e) /\ ~Adding(e)'
        BY <3>1, <3>3 DEF Adding, Popped
      <3> QED  BY <2>b, <3>1, <3>2, <3>3, <3>4 DEF OneIf, Kept
    <2>8. CASE count_more(e)
      <3>1. /\ InRequest(e) /\ pc[e] = "d_more" /\ UNCHANGED <<read_msg_number, nreg, queue>>
            /\ \/ Goto(e, "d_load")
               \/ Goto(e, "d_one") /\ ~(read_msg_number[e] > 1)
        BY <2>8, SMT DEF count_more, InRequest, queueVars, MoreMessages
      <3>3. /\ ~Adding(p) /\ ~Popped(p) /\ ~Adding(p)' /\ ~Popped(p)'
            /\ pc'[e] \in {"d_load", "d_one"} /\ pc'[p] = pc[p]
            /\ pc[p] \notin {"c_store", "d_store", "d_one"}
        BY <2>2, <3>1
      <3>4. pc'[e] = "d_one" => read_msg_number[e] <= 1
        <4>1. Goto(e, "d_load") => pc'[e] = "d_load"  BY <2>2, <3>1
        <4> QED  BY <2>b, <3>1, <4>1
      <3> QED  BY <2>b, <3>1, <3>3, <3>4 DEF Adding, Popped, OneIf, Kept
    <2>9. CASE count_one(e)
      <3>1. /\ InRequest(e) /\ pc[e] = "d_one" /\ UNCHANGED <<read_msg_number, nreg, queue>>
            /\ \/ Goto(e, "d_load")
               \/ Goto(e, "ready") /\ read_msg_number[e] # 1
        BY <2>9, SMT DEF count_one, InRequest, queueVars, LastMessage, RecvReturn, Return
      <3>3. /\ ~Adding(p) /\ ~Popped(p) /\ ~Adding(p)' /\ ~Popped(p)'
            /\ pc'[e] \in {"d_load", "ready"} /\ pc'[p] = pc[p]
            /\ pc[p] \notin {"c_store", "d_store", "d_one"}
        BY <2>2, <3>1
      <3>4. Popped(e) /\ read_msg_number[e] = 1
        BY <2>b, <3>1, <3>3 DEF Popped, OneIf
      <3>5. pc'[e] = "d_load"
        BY <2>2, <3>1, <3>4
      <3> QED  BY <2>b, <3>1, <3>3, <3>5 DEF Adding, Popped, OneIf, Kept
    <2>10. CASE decrement_load(e)
      <3>1. /\ InRequest(e) /\ pc[e] = "d_load" /\ UNCHANGED <<read_msg_number, queue>>
            /\ Goto(e, "d_store") /\ nreg'[e] = read_msg_number[e] /\ nreg'[p] = nreg[p]
        BY <2>10, <2>a, SMT DEF decrement_load, InRequest, queueVars, NumberTypes
      <3>3. /\ ~Adding(p) /\ ~Popped(p) /\ ~Adding(p)' /\ ~Popped(p)'
            /\ pc'[e] \in {"d_store"} /\ pc'[p] = pc[p]
            /\ pc[p] \notin {"c_store", "d_store", "d_one"}
        BY <2>2, <3>1
      <3> QED  BY <2>b, <3>1, <3>3 DEF Adding, Popped, OneIf, Kept
    <2>11. CASE decrement_store(e)
      <3>1. /\ InRequest(e) /\ pc[e] = "d_store" /\ UNCHANGED <<nreg, queue>>
            /\ Goto(e, "d_flags") /\ read_msg_number'[e] = nreg[e] - 1
            /\ read_msg_number'[p] = read_msg_number[p]
        BY <2>11, <2>a, SMT DEF decrement_store, InRequest, queueVars, NumberTypes
      <3>3. /\ ~Adding(p) /\ ~Popped(p) /\ ~Adding(p)' /\ ~Popped(p)'
            /\ pc'[e] \in {"d_flags"} /\ pc'[p] = pc[p]
            /\ pc[p] \notin {"c_store", "d_store", "d_one"}
        BY <2>2, <3>1
      <3> QED  BY <2>b, <3>1, <3>3 DEF Adding, Popped, OneIf, Kept
    <2> QED  BY <2>1, <2>3, <2>4, <2>5, <2>6, <2>7, <2>8, <2>9, <2>10, <2>11, <2>12
  <1>3. CASE Next
    <2>1. PICK e \in Ends : Call(e) \/ Step(e)  BY <1>3 DEF Next
    <2>2. CountOK(e)' /\ CountOK(Peer(e))'  BY <1>2, <2>1
    <2>3. \A f \in Ends : f = e \/ f = Peer(e)  BY <1>b
    <2> QED  BY <1>0, <2>2, <2>3 DEF CountInv
  <1> QED  BY <1>1, <1>3

-----------------------------------------------------------------------------
(* One request at a time: what a handler has still to write *)

\* The writes of a handler: telling the reader, telling the sender, and what a pop
\* makes of the handler's own message flag.
Raise(e) == Up(Peer(e), "bHas_message")
Offer(e) == Up(Peer(e), "bHas_new_resource")
Verdict(e) == IF queue[Peer(e)] # <<>> THEN Up(e, "bHas_message")
                                       ELSE Down(e, "bHas_message")

\* What a handler has still to write is fixed by the step it is at.
PendOK(e) ==
    /\ pc[e] = "c_flags" =>
          \/ todo[e] = <<Up(e, "bHas_new_resource"), Raise(e)>>
          \/ todo[e] = <<Down(e, "bHas_new_resource"), Raise(e)>>
          \/ todo[e] = <<Raise(e)>>
          \/ todo[e] = <<>>
    /\ pc[e] = "c_appended" => todo[e] = <<Raise(e)>>
    /\ pc[e] \in {"d_load", "d_store"} => todo[e] = <<Verdict(e), Offer(e)>>
    /\ pc[e] = "d_flags" =>
          todo[e] = <<Verdict(e), Offer(e)>> \/ todo[e] = <<Offer(e)>> \/ todo[e] = <<>>
    /\ pc[e] = "k_flags" =>
          \A i \in 1 .. Len(todo[e]) :
             todo[e][i].end = e \/ todo[e][i] = Up(Peer(e), "bIs_close")
    /\ reg[e] # <<>> => /\ pc[e] \in {"c_flags", "d_flags", "k_flags"}
                        /\ reg[e] = <<con[todo[e][1].end]>>
PendInv == \A e \in Ends : PendOK(e)

\* Initially nothing is queued and nothing counted.
LEMMA CountInit == Init => CountInv
  <1> SUFFICES ASSUME Init PROVE CountInv OBVIOUS
  <1>1. ApartInv  BY ApartInit
  <1>2. ASSUME NEW e \in Ends PROVE CountOK(e)
    <2>1. /\ pc[e] = "ready" /\ pc[Peer(e)] = "ready" /\ queue[Peer(e)] = <<>>
          /\ read_msg_number[e] = 0
      BY PeerFacts DEF Init
    <2> QED  BY <2>1 DEF CountOK, Adding, Popped, OneIf
  <1> QED  BY <1>1, <1>2 DEF CountInv

\* Initially nothing is left to write.
LEMMA PendInit == Init => PendInv
  <1> SUFFICES ASSUME Init, NEW e \in Ends PROVE PendOK(e) BY DEF PendInv
  <1>1. pc[e] = "ready" /\ reg[e] = <<>>  BY DEF Init
  <1> QED  BY <1>1 DEF PendOK

\* Steps that write no flag and begin no writing.
LEMMA PendCalm ==
    ASSUME ControlTypes, NEW e \in Ends, Call(e) \/ Step(e),
           ~add_queue_append(e), ~add_queue_resource(e), ~count_more(e), ~count_one(e),
           ~Close(e), ~flag_load(e), ~flag_store(e)
    PROVE  /\ UNCHANGED <<con, todo, reg>>
           /\ \A f \in Ends : f # e => pc'[f] = pc[f]
           /\ UNCHANGED queue \/ pc[e] \in {"c_link", "c_fill", "f_head"}
           /\ pc'[e] \in {"c_appended", "d_load", "k_flags"} => pc[e] = pc'[e]
           /\ pc'[e] = "c_flags" => pc[e] \in {"c_flags", "c_appended"}
           /\ pc'[e] = "d_store" => pc[e] \in {"d_load", "d_store"}
           /\ pc'[e] = "d_flags" => pc[e] \in {"d_store", "d_flags"}
  <1>1. CASE add_queue_unlock(e)
    <2>1. /\ UNCHANGED <<con, todo, reg, queue>>
          /\ \/ pc[e] = "c_filled" /\ Goto(e, "c_resource")
             \/ pc[e] = "c_appended" /\ Goto(e, "c_flags")
      BY <1>1, Zenon DEF add_queue_unlock, queueVars, flagVars
    <2> QED  BY <2>1 DEF Goto, ControlTypes
  <1>2. CASE ~add_queue_unlock(e)
    BY <1>2, SMT DEF ControlTypes, Call, Step, Goto, Return, flagVars, callVars,
       poolVars, queueVars, Send, Recv, wait_for_sources, requestA, aplly_memory,
       aplly_memory_torn, add_queue_link, add_queue_fill, count_load,
       account_INCRASE, copy_in, committ, add_queue_admit, add_queue_lock,
       count_store, decrement_load, test_message, test_closed, request_message,
       request_empty, delete_head_queue_pop, delete_head_queue_lock,
       delete_head_queue_next, delete_head_queue_unlock, request_closed, copy_out,
       finish, release_memory, release_memory_torn, account_REDUCE, decrement_store,
       finish_return, RecvReturn, kill_self_return
  <1> QED  BY <1>1, <1>2

\* Heads and tails of what is written.
LEMMA Pairs ==
    \A a, b : /\ Head(<<a, b>>) = a /\ Tail(<<a, b>>) = <<b>>
              /\ Head(<<a>>) = a /\ Tail(<<a>>) = <<>>
              /\ <<a, b>>[1] = a /\ <<a>>[1] = a /\ <<a>> # <<>> /\ <<a, b>> # <<>>
  OBVIOUS

\* What the steps that begin to write have still to write.
LEMMA BeginExact ==
    ASSUME CountInv, PoolInv, FlagInv, NumberTypes, NEW e \in Ends
    PROVE  /\ add_queue_append(e) =>
                 /\ Goto(e, "c_appended") /\ UNCHANGED <<con, reg>>
                 /\ todo' = [todo EXCEPT ![e] = <<Raise(e)>>]
           /\ add_queue_resource(e) =>
                 \/ UNCHANGED <<con, todo, reg, pc>>
                 \/ /\ Goto(e, "c_flags") /\ UNCHANGED <<con, reg>>
                    /\ \/ todo' = [todo EXCEPT ![e] = <<Up(e, "bHas_new_resource"), Raise(e)>>]
                       \/ todo' = [todo EXCEPT ![e] = <<Down(e, "bHas_new_resource"), Raise(e)>>]
           /\ count_more(e) \/ count_one(e) =>
                 \/ \E step \in {"d_one", "ready"} : Goto(e, step) /\ UNCHANGED <<con, todo, reg, queue>>
                 \/ Goto(e, "d_load") /\ UNCHANGED <<con, reg, queue>>
                    /\ todo' = [todo EXCEPT ![e] = <<Verdict(e), Offer(e)>>]
  <1>1. add_queue_append(e) =>
           /\ Goto(e, "c_appended") /\ UNCHANGED <<con, reg>>
           /\ todo' = [todo EXCEPT ![e] = <<Raise(e)>>]
    BY Zenon DEF add_queue_append, Raise
  <1>2. add_queue_resource(e) =>
           \/ UNCHANGED <<con, todo, reg, pc>>
           \/ /\ Goto(e, "c_flags") /\ UNCHANGED <<con, reg>>
              /\ \/ todo' = [todo EXCEPT ![e] = <<Up(e, "bHas_new_resource"), Raise(e)>>]
                 \/ todo' = [todo EXCEPT ![e] = <<Down(e, "bHas_new_resource"), Raise(e)>>]
    <2> SUFFICES ASSUME add_queue_resource(e), queue[e] # <<>>
                 PROVE  /\ Goto(e, "c_flags") /\ UNCHANGED <<con, reg>>
                        /\ \/ todo' = [todo EXCEPT ![e] = <<Up(e, "bHas_new_resource"), Raise(e)>>]
                           \/ todo' = [todo EXCEPT ![e] = <<Down(e, "bHas_new_resource"), Raise(e)>>]
      BY Zenon DEF add_queue_resource, queueVars
    <2> DEFINE W(room) == IF room THEN Up(e, "bHas_new_resource")
                                  ELSE Down(e, "bHas_new_resource")
    <2>1. PICK room : todo' = [todo EXCEPT ![e] = <<W(room), Raise(e)>>]
      BY Zenon DEF add_queue_resource, Raise
    <2>2. Goto(e, "c_flags") /\ UNCHANGED <<con, reg>>
      BY Zenon DEF add_queue_resource
    <2>3. W(room) \in {Up(e, "bHas_new_resource"), Down(e, "bHas_new_resource")}
      OBVIOUS
    <2> HIDE DEF W
    <2> QED  BY <2>1, <2>2, <2>3
  <1>3. /\ CountOK(e) /\ Len(queue[Peer(e)]) \in Nat /\ read_msg_number[e] \in Int
        /\ (pc[e] \in {"d_more", "d_one"} => Len(queue[Peer(e)]) = read_msg_number[e] - 1)
        /\ (Len(queue[Peer(e)]) = 0 <=> queue[Peer(e)] = <<>>)
    <2>1. CountOK(e) /\ Alone /\ ApartInv /\ Peer(e) \in Ends
      BY PeerFacts DEF CountInv, ApartInv
    <2>2. Len(queue[Peer(e)]) \in Nat  BY <2>1, QueueLengths
    <2>3. queue[Peer(e)] \in Seq(Message)  BY <2>1, LiveTyped
    <2>4. (Len(queue[Peer(e)]) = 0 <=> queue[Peer(e)] = <<>>)  BY <2>3
    <2>5. pc[e] \in {"d_more", "d_one"} => InRequest(e) /\ Popped(e)
      BY DEF InRequest, Popped
    <2>6. pc[e] \in {"d_more", "d_one"} => ~Adding(Peer(e))
      BY <2>1, <2>5, OtherIdle
    <2> QED  BY <2>1, <2>2, <2>4, <2>5, <2>6 DEF CountOK, OneIf, NumberTypes
  <1>4. count_more(e) =>
           \/ Goto(e, "d_one") /\ UNCHANGED <<con, todo, reg, queue>>
           \/ Goto(e, "d_load") /\ UNCHANGED <<con, reg, queue>>
              /\ todo' = [todo EXCEPT ![e] = <<Verdict(e), Offer(e)>>]
    <2> SUFFICES ASSUME count_more(e), MoreMessages(e)
                 PROVE  Goto(e, "d_load") /\ UNCHANGED <<con, reg, queue>>
                        /\ todo' = [todo EXCEPT ![e] = <<Verdict(e), Offer(e)>>]
      BY Zenon DEF count_more, queueVars
    <2>1. Goto(e, "d_load") /\ UNCHANGED <<con, reg, queue>> /\ pc[e] = "d_more"
          /\ todo' = [todo EXCEPT ![e] = TellBoth(e, Up(e, "bHas_message"))]
      BY Zenon DEF count_more, queueVars
    <2>2. Verdict(e) = Up(e, "bHas_message")
      BY <1>3, <2>1 DEF Verdict, MoreMessages
    <2> QED  BY <2>1, <2>2, Zenon DEF TellBoth, Offer
  <1>5. count_one(e) =>
           \/ Goto(e, "ready") /\ UNCHANGED <<con, todo, reg, queue>>
           \/ Goto(e, "d_load") /\ UNCHANGED <<con, reg, queue>>
              /\ todo' = [todo EXCEPT ![e] = <<Verdict(e), Offer(e)>>]
    <2>1. ASSUME count_one(e), ~LastMessage(e)
          PROVE  Goto(e, "ready") /\ UNCHANGED <<con, todo, reg, queue>>
      BY <2>1, Zenon DEF count_one, queueVars, RecvReturn, Return
    <2>2. ASSUME count_one(e), LastMessage(e)
          PROVE  Goto(e, "d_load") /\ UNCHANGED <<con, reg, queue>>
                 /\ todo' = [todo EXCEPT ![e] = <<Verdict(e), Offer(e)>>]
      <3>1. Goto(e, "d_load") /\ UNCHANGED <<con, reg, queue>> /\ pc[e] = "d_one"
            /\ todo' = [todo EXCEPT ![e] = TellBoth(e, Down(e, "bHas_message"))]
        BY <2>2, Zenon DEF count_one, queueVars
      <3>2. Verdict(e) = Down(e, "bHas_message")
        BY <1>3, <2>2, <3>1 DEF Verdict, LastMessage
      <3> QED  BY <3>1, <3>2, Zenon DEF TellBoth, Offer
    <2> QED  BY <2>1, <2>2
  <1> QED  BY <1>1, <1>2, <1>4, <1>5, Zenon

\* Outside requests nothing is pending.
LEMMA NothingPending ==
    ASSUME FlagInv, NEW e \in Ends, ~InRequest(e)
    PROVE  todo[e] = <<>> /\ reg[e] = <<>> /\ pc[e] \notin Flagging
  BY DEF FlagInv, FlagOK, OwedOK, InRequest, Flagging

\* A handler in no request has nothing to write, and stays so.
LEMMA StillNothing ==
    ASSUME FlagInv, NEW e \in Ends, NEW f \in Ends, f = Peer(e), ~InRequest(f),
           pc'[f] = pc[f], reg'[f] = reg[f]
    PROVE  PendOK(f)'
  BY NothingPending DEF PendOK, Flagging

\* The rest of what is written is still as it should be.
LEMMA PendStore ==
    ASSUME PendInv, FlagInv, Alone, NEW e \in Ends, flag_store(e)
    PROVE  PendOK(e)' /\ PendOK(Peer(e))'
  <1>1. PICK p \in Ends : p = Peer(e) /\ p # e
    BY PeerFacts
  <1>2. /\ todo \in [Ends -> Seq(FlagWrite)] /\ FlagTypes
        /\ PendOK(e) /\ FlagOK(e)
    BY DEF FlagInv, FlagTypes, FlagWrite, PendInv
  <1>3. /\ todo[e] # <<>> /\ todo' = [todo EXCEPT ![e] = Tail(@)]
        /\ reg' = [reg EXCEPT ![e] = <<>>] /\ UNCHANGED <<pc, queue>>
    BY SMT DEF flag_store, queueVars
  <1>4. /\ todo'[e] = Tail(todo[e]) /\ reg'[e] = <<>> /\ reg'[p] = reg[p]
    BY <1>1, <1>2, <1>3 DEF FlagTypes
  <1>5. pc[e] \in Flagging /\ ~InRequest(p)
    <2>1. pc[e] \in Flagging  BY <1>2, <1>3 DEF FlagOK, OwedOK
    <2>2. InRequest(e)  BY <2>1 DEF InRequest, Flagging
    <2> QED  BY <1>1, <2>1, <2>2 DEF Alone
  <1>6. PendOK(p)'
    BY <1>1, <1>3, <1>4, <1>5, StillNothing
  <1>7. pc[e] \in {"c_flags", "d_flags", "k_flags"} /\ pc'[e] = pc[e]
    BY <1>2, <1>3 DEF flag_store, PendOK
  <1>8. Verdict(e)' = Verdict(e)
    BY <1>3 DEF Verdict
  <1>9. ASSUME pc[e] = "c_flags" PROVE PendOK(e)'
    <2>2. ASSUME NEW w, todo[e] = <<w, Raise(e)>> PROVE todo'[e] = <<Raise(e)>>
      <3>1. Tail(<<w, Raise(e)>>) = <<Raise(e)>>  BY Pairs
      <3> QED  BY <1>4, <2>2, <3>1, Zenon
    <2>3. ASSUME todo[e] = <<Raise(e)>> PROVE todo'[e] = <<>>
      <3>1. Tail(<<Raise(e)>>) = <<>>  BY Pairs
      <3> QED  BY <1>4, <2>3, <3>1, Zenon
    <2>1. todo'[e] = <<Raise(e)>> \/ todo'[e] = <<>>
      BY <1>2, <1>3, <1>9, <2>2, <2>3, Zenon DEF PendOK
    <2> QED  BY <1>4, <1>7, <1>9, <2>1 DEF PendOK, Raise
  <1>10. ASSUME pc[e] = "d_flags" PROVE PendOK(e)'
    <2>2. ASSUME todo[e] = <<Verdict(e), Offer(e)>> PROVE todo'[e] = <<Offer(e)>>
      <3>1. Tail(<<Verdict(e), Offer(e)>>) = <<Offer(e)>>  BY Pairs
      <3> QED  BY <1>4, <2>2, <3>1, Zenon
    <2>3. ASSUME todo[e] = <<Offer(e)>> PROVE todo'[e] = <<>>
      <3>1. Tail(<<Offer(e)>>) = <<>>  BY Pairs
      <3> QED  BY <1>4, <2>3, <3>1, Zenon
    <2>1. todo'[e] = <<Offer(e)>> \/ todo'[e] = <<>>
      BY <1>2, <1>3, <1>10, <2>2, <2>3, Zenon DEF PendOK
    <2> QED  BY <1>4, <1>7, <1>10, <2>1 DEF PendOK, Offer
  <1>11. ASSUME pc[e] = "k_flags" PROVE PendOK(e)'
    <2>1. /\ Len(todo[e]) \in Nat \ {0} /\ Len(todo'[e]) = Len(todo[e]) - 1
          /\ \A i \in 1 .. Len(todo'[e]) : todo'[e][i] = todo[e][i + 1]
      BY <1>2, <1>3, <1>4, HeadAndTail
    <2> QED  BY <1>2, <1>4, <1>7, <1>11, <2>1 DEF PendOK
  <1>12. PendOK(e)'
    BY <1>7, <1>9, <1>10, <1>11
  <1> QED  BY <1>1, <1>6, <1>12

\* Every step keeps what is pending as it should be.
LEMMA PendNext ==
    ASSUME Serialized, CountInv, CountInv', PoolInv, FlagInv, FlagInv', NumberTypes,
           PendInv, [Next]_vars
    PROVE  PendInv'
  <1>a. /\ ControlTypes /\ FlagTypes /\ Alone
        /\ todo \in [Ends -> Seq(FlagWrite)]
    BY DEF FlagInv, CountInv, ApartInv, FlagTypes, FlagWrite
  <1>1. CASE UNCHANGED vars
    BY <1>1 DEF vars, queueVars, flagVars, PendInv, PendOK, Verdict, Raise, Offer
  <1>2. ASSUME NEW e \in Ends, Call(e) \/ Step(e), Next
        PROVE  PendOK(e)' /\ PendOK(Peer(e))'
    <2>a. PICK p \in Ends : p = Peer(e) /\ p # e /\ Peer(p) = e
      BY PeerFacts
    <2>b. PendOK(e) /\ PendOK(p) /\ FlagOK(e)  BY <2>a DEF PendInv, FlagInv
    <2> SUFFICES PendOK(e)' /\ PendOK(p)'  BY <2>a
    <2>1. CASE flag_store(e)
      BY <1>a, <2>1, <2>a, PendStore
    \* a step of a request that begins to write
    <2>2. ASSUME NEW step, NEW writes, Goto(e, step), InRequest(e), UNCHANGED <<con, reg>>,
                 pc[e] \notin Flagging,
                 todo' = [todo EXCEPT ![e] = writes]
          PROVE  /\ PendOK(p)' /\ todo'[e] = writes /\ pc'[e] = step /\ reg'[e] = <<>>
      <3>1. pc'[e] = step /\ pc'[p] = pc[p] /\ todo'[e] = writes
        BY <1>a, <2>2, <2>a DEF Goto, ControlTypes
      <3>2. reg[e] = <<>>
        BY <2>2, <2>b DEF FlagOK, OwedOK
      <3>3. ~InRequest(p)  BY <1>a, <2>2, <2>a DEF Alone
      <3>4. PendOK(p)'  BY <2>2, <2>a, <3>1, <3>3, StillNothing
      <3> QED  BY <2>2, <3>1, <3>2, <3>4
    <2>3. CASE add_queue_append(e)
      <3>0. InRequest(e) /\ pc[e] \notin Flagging
        BY <2>3 DEF add_queue_append, InRequest, Flagging
      <3>1. /\ Goto(e, "c_appended") /\ UNCHANGED <<con, reg>>
            /\ todo' = [todo EXCEPT ![e] = <<Raise(e)>>]
        BY <2>3, BeginExact
      <3>2. /\ PendOK(p)' /\ todo'[e] = <<Raise(e)>> /\ pc'[e] = "c_appended"
            /\ reg'[e] = <<>>
        BY <2>2, <3>0, <3>1
      <3> QED  BY <3>2 DEF PendOK, Raise
    <2>4. CASE add_queue_resource(e)
      <3>0. InRequest(e) /\ pc[e] \notin Flagging
        BY <2>4 DEF add_queue_resource, InRequest, Flagging
      <3>1. CASE UNCHANGED <<con, todo, reg, pc>>
        <4>1. ~InRequest(p)  BY <1>a, <3>0, <2>a DEF Alone
        <4>2. PendOK(p)'  BY <2>a, <3>1, <4>1, StillNothing
        <4>3. reg[e] = <<>> /\ pc[e] \notin Flagging  BY <2>b, <3>0 DEF FlagOK, OwedOK
        <4>4. PendOK(e)'  BY <3>1, <4>3 DEF PendOK, Flagging
        <4> QED  BY <4>2, <4>4
      <3>2. ASSUME NEW w \in {Up(e, "bHas_new_resource"), Down(e, "bHas_new_resource")},
                   Goto(e, "c_flags"), UNCHANGED <<con, reg>>,
                   todo' = [todo EXCEPT ![e] = <<w, Raise(e)>>]
            PROVE  PendOK(e)' /\ PendOK(p)'
        <4>1. PendOK(p)' /\ todo'[e] = <<w, Raise(e)>> /\ pc'[e] = "c_flags" /\ reg'[e] = <<>>
          BY <2>2, <3>0, <3>2
        <4> QED  BY <3>2, <4>1 DEF PendOK, Raise
      <3> QED  BY <2>4, <3>1, <3>2, BeginExact
    <2>5. CASE count_more(e) \/ count_one(e)
      <3>0. InRequest(e) /\ pc[e] \notin Flagging
        BY <2>5 DEF count_more, count_one, InRequest, Flagging
      <3>1. ASSUME NEW step \in {"d_one", "ready"}, Goto(e, step), UNCHANGED <<con, todo, reg>>
            PROVE  PendOK(e)' /\ PendOK(p)'
        <4>1. pc'[e] = step /\ pc'[p] = pc[p]
          BY <1>a, <2>a, <3>1 DEF Goto, ControlTypes
        <4>2. ~InRequest(p)  BY <1>a, <3>0, <2>a DEF Alone
        <4>3. PendOK(p)'  BY <2>a, <3>1, <4>1, <4>2, StillNothing
        <4>4. reg[e] = <<>>  BY <2>b, <3>0 DEF FlagOK, OwedOK
        <4>5. PendOK(e)'  BY <3>1, <4>1, <4>4 DEF PendOK
        <4> QED  BY <4>3, <4>5
      <3>2. CASE /\ Goto(e, "d_load") /\ UNCHANGED <<con, reg, queue>>
                 /\ todo' = [todo EXCEPT ![e] = <<Verdict(e), Offer(e)>>]
        <4>1. PendOK(p)' /\ todo'[e] = <<Verdict(e), Offer(e)>> /\ pc'[e] = "d_load" /\ reg'[e] = <<>>
          BY <2>2, <3>0, <3>2
        <4>2. Verdict(e)' = Verdict(e) /\ Offer(e)' = Offer(e)
          BY <3>2 DEF Verdict, Offer
        <4> QED  BY <4>1, <4>2 DEF PendOK
      <3> QED  BY <2>5, <3>1, <3>2, BeginExact
    <2>6. CASE Close(e)
      <3>1. /\ pc[e] = "ready" /\ Goto(e, "k_flags") /\ UNCHANGED <<con, reg, queue>>
            /\ todo' = [todo EXCEPT ![e] = OwnCloseWrites(e) \o PeerCloseWrites(e)]
            /\ ~InRequest(p)
        BY <2>6, <2>a, Zenon DEF Close, queueVars, MayStart
      <3> DEFINE writes == OwnCloseWrites(e) \o PeerCloseWrites(e)
      <3>2. \A i \in 1 .. Len(writes) :
               \/ /\ writes[i].end = e
                  /\ writes[i].flag = "bHas_message" => ~writes[i].up
               \/ writes[i] = Up(Peer(e), "bIs_close")
        BY CloseWrites, Zenon
      <3> HIDE DEF writes
      <3>3. todo'[e] = writes /\ pc'[e] = "k_flags" /\ pc'[p] = pc[p]
        BY <1>a, <2>a, <3>1 DEF Goto, ControlTypes, writes
      <3>4. reg[e] = <<>>  BY <2>b, <3>1 DEF FlagOK, OwedOK, Flagging
      <3>5. PendOK(p)'  BY <2>a, <3>1, <3>3, StillNothing
      <3>6. PendOK(e)'  BY <3>1, <3>2, <3>3, <3>4 DEF PendOK
      <3> QED  BY <3>5, <3>6
    <2>7. CASE flag_load(e)
      <3>1. /\ todo[e] # <<>> /\ reg' = [reg EXCEPT ![e] = <<con[Head(todo[e]).end]>>]
            /\ pc[e] \in {"c_flags", "d_flags", "k_flags"}
            /\ UNCHANGED <<con, todo, pc, queue>>
        BY <2>7, SMT DEF flag_load, queueVars
      <3>2. reg'[e] = <<con[todo[e][1].end]>> /\ reg'[p] = reg[p]
        BY <1>a, <2>a, <3>1, HeadAndTail DEF FlagTypes
      <3>3. PendOK(e)'
        BY <2>b, <3>1, <3>2 DEF PendOK, Verdict, Raise, Offer
      <3>4. PendOK(p)'
        BY <2>b, <3>1, <3>2 DEF PendOK, Verdict, Raise, Offer
      <3> QED  BY <3>3, <3>4
    <2>8. ASSUME ~add_queue_append(e), ~add_queue_resource(e), ~count_more(e), ~count_one(e),
                 ~Close(e), ~flag_load(e), ~flag_store(e)
          PROVE  PendOK(e)' /\ PendOK(p)'
      <3>1. /\ UNCHANGED <<con, todo, reg>>
            /\ pc'[p] = pc[p]
            /\ UNCHANGED queue \/ pc[e] \in {"c_link", "c_fill", "f_head"}
            /\ pc'[e] \in {"c_appended", "d_load", "k_flags"} => pc[e] = pc'[e]
            /\ pc'[e] = "c_flags" => pc[e] \in {"c_flags", "c_appended"}
            /\ pc'[e] = "d_store" => pc[e] \in {"d_load", "d_store"}
            /\ pc'[e] = "d_flags" => pc[e] \in {"d_store", "d_flags"}
        BY <1>2, <1>a, <2>8, <2>a, PendCalm
      <3>2. pc[e] \in {"d_load", "d_store", "d_flags"} => Verdict(e)' = Verdict(e)
        BY <3>1 DEF Verdict
      <3>3. pc[p] \in {"d_load", "d_store", "d_flags"} => Verdict(p)' = Verdict(p)
        <4>1. pc[p] \in {"d_load", "d_store", "d_flags"} => ~InRequest(e)
          BY <1>a, <2>a DEF Alone, InRequest
        <4>2. pc[e] \in {"c_link", "c_fill", "f_head"} => InRequest(e)
          BY DEF InRequest
        <4> QED  BY <3>1, <4>1, <4>2 DEF Verdict
      <3>4. PendOK(p)'
        BY <2>b, <3>1, <3>3 DEF PendOK, Raise, Offer
      <3>5. reg[e] # <<>> => pc'[e] = pc[e]
        <4>1. reg[e] # <<>> => todo[e] # <<>> /\ pc[e] \in {"c_flags", "d_flags", "k_flags"}
          BY <2>b DEF PendOK, FlagOK, OwedOK
        <4>2. UNCHANGED flagVars  BY <3>1 DEF flagVars
        <4>3. \/ pc'[e] = pc[e] \/ todo[e] = <<>> \/ pc[e] \notin Flagging
              \/ pc[e] \in {"d_load", "d_store"} /\ pc'[e] \in {"d_store", "d_flags"}
              \/ pc[e] = "c_appended" /\ pc'[e] = "c_flags"
          BY <1>2, <1>a, <4>2, FlagMoves
        <4> QED  BY <4>1, <4>3 DEF Flagging
      <3>6. PendOK(e)'
        BY <2>b, <3>1, <3>2, <3>5 DEF PendOK, Raise, Offer
      <3> QED  BY <3>4, <3>6
    <2> QED  BY <2>1, <2>3, <2>4, <2>5, <2>6, <2>7, <2>8
  <1>3. CASE Next
    <2>1. PICK e \in Ends : Call(e) \/ Step(e)  BY <1>3 DEF Next
    <2>2. PendOK(e)' /\ PendOK(Peer(e))'  BY <1>2, <1>3, <2>1
    <2>3. \A f \in Ends : f = e \/ f = Peer(e)  BY DEF Ends, Peer
    <2> QED  BY <2>2, <2>3 DEF PendInv
  <1> QED  BY <1>1, <1>3

-----------------------------------------------------------------------------
(* One request at a time: what the flags tell *)

\* e's handler has queued a message and has still to raise its reader's flag.
Raising(e) == \/ pc[e] \in {"c_fill", "c_filled", "c_appended", "c_resource"}
              \/ pc[e] = "c_flags" /\ todo[e] # <<>>
\* e's handler has popped a message and has still to write its message flag.
Deciding(e) == \/ pc[e] \in {"f_unlock", "d_more", "d_one", "d_load", "d_store"}
               \/ pc[e] = "d_flags" /\ Len(todo[e]) = 2

\* An end that has not begun to close has its guards up, and is not told of a
\* close before the peer begins one.
OpenOK(e) ==
    Open(e) => /\ "rio" \in con[e] /\ "wio" \in con[e] /\ "self_close" \notin con[e]
               /\ Open(Peer(e)) => "bIs_close" \notin con[e]

\* The flag is right but for what a handler has still to write.
TellOK(e) ==
    Open(e) =>
       /\ Raising(Peer(e)) => queue[Peer(e)] # <<>>
       /\ ~Raising(Peer(e)) /\ ~Deciding(e) =>
             ("bHas_message" \in con[e] <=> queue[Peer(e)] # <<>>)

TellInv == \A e \in Ends : OpenOK(e) /\ TellOK(e)

\* Initially no flag tells of a message or of a close.
LEMMA TellInit == Init => TellInv
  <1> SUFFICES ASSUME Init, NEW e \in Ends PROVE OpenOK(e) /\ TellOK(e)  BY DEF TellInv
  <1>1. /\ con[e] = {"rio", "wio", "bHas_new_resource"}
        /\ queue[Peer(e)] = <<>> /\ pc[Peer(e)] = "ready"
    BY PeerFacts DEF Init
  <1> QED  BY <1>1 DEF OpenOK, TellOK, Raising

\* Steps that change neither a flag nor a queue, nor what is still to be written.
LEMMA TellCalm ==
    ASSUME ControlTypes, FlagTypes, PendInv, NEW e \in Ends, Call(e) \/ Step(e),
           ~add_queue_link(e), ~add_queue_fill(e), ~add_queue_append(e),
           ~add_queue_resource(e), ~delete_head_queue_pop(e), ~count_more(e),
           ~count_one(e), ~decrement_store(e), ~flag_store(e)
    PROVE  /\ UNCHANGED <<con, queue>>
           /\ \A f \in Ends : f # e => pc'[f] = pc[f] /\ todo'[f] = todo[f]
           /\ Open(e)' => Open(e)
           /\ Raising(e)' = Raising(e) /\ Deciding(e)' = Deciding(e)
  <1> DEFINE At == {"c_fill", "c_filled", "c_appended", "c_resource", "c_flags",
                    "f_unlock", "d_more", "d_one", "d_load", "d_store", "d_flags"}
  <1>0. CASE add_queue_unlock(e)
    <2>1. /\ UNCHANGED <<con, todo, queue>>
          /\ \/ pc[e] = "c_filled" /\ Goto(e, "c_resource")
             \/ pc[e] = "c_appended" /\ Goto(e, "c_flags")
      BY <1>0, Zenon DEF add_queue_unlock, flagVars
    <2>2. pc[e] = "c_appended" => todo'[e] # <<>>
      BY <2>1, Pairs DEF PendInv, PendOK
    <2> QED  BY <2>1, <2>2 DEF Open, Raising, Deciding, Goto, ControlTypes
  <1>1. ASSUME ~add_queue_unlock(e)
        PROVE  /\ UNCHANGED <<con, queue>>
               /\ \A f \in Ends : f # e => pc'[f] = pc[f]
               /\ Open(e)' => Open(e)
               /\ UNCHANGED todo \/ (pc[e] = "ready" /\ pc'[e] = "k_flags" /\ Close(e))
               /\ pc'[e] \in At => \/ pc[e] = pc'[e]
                                   \/ pc[e] = "d_load" /\ pc'[e] = "d_store"
                                   \/ pc[e] = "f_unlock" /\ pc'[e] = "d_more"
               /\ pc[e] \in At => \/ pc[e] = pc'[e]
                                  \/ pc[e] = "d_load" /\ pc'[e] = "d_store"
                                  \/ pc[e] = "f_unlock" /\ pc'[e] = "d_more"
                                  \/ pc[e] \in {"c_flags", "d_flags"} /\ todo[e] = <<>>
    BY <1>1, SMT DEF Open, ControlTypes, Call, Step, Goto, Return, flagVars, callVars,
       poolVars, queueVars, Send, Recv, Close, wait_for_sources, requestA,
       aplly_memory, aplly_memory_torn, account_INCRASE, copy_in, committ,
       add_queue_admit, add_queue_lock, count_load, count_store, flag_load,
       test_message, test_closed, request_message, request_empty, request_closed,
       copy_out, finish, release_memory, release_memory_torn, account_REDUCE,
       delete_head_queue_lock, delete_head_queue_next, delete_head_queue_unlock,
       decrement_load, finish_return, RecvReturn, kill_self_return
  <1>2. ASSUME ~add_queue_unlock(e) PROVE \A f \in Ends : f # e => todo'[f] = todo[f]
    <2>1. Close(e) => todo' = [todo EXCEPT ![e] = OwnCloseWrites(e) \o PeerCloseWrites(e)]
      BY Zenon DEF Close
    <2> QED  BY <1>1, <1>2, <2>1, Zenon DEF FlagTypes
  <1>3. todo[e] = <<>> => Len(todo[e]) # 2  OBVIOUS
  <1>4. ~add_queue_unlock(e) => Raising(e)' = Raising(e) /\ Deciding(e)' = Deciding(e)
    BY <1>1, <1>3 DEF Raising, Deciding
  <1> QED  BY <1>0, <1>1, <1>2, <1>4

\* What the store of a flag comes to while requests do not overlap.
LEMMA StoreExact ==
    ASSUME PendInv, FlagInv, NEW e \in Ends, flag_store(e)
    PROVE  LET w == todo[e][1] IN
           /\ pc' = pc /\ queue' = queue
           /\ w \in FlagWrite /\ Len(todo[e]) \in Nat \ {0}
           /\ Len(todo'[e]) = Len(todo[e]) - 1
           /\ todo'[Peer(e)] = todo[Peer(e)]
           /\ con'[w.end] = Write(con[w.end], w)
           /\ \A f \in Ends : f # w.end => con'[f] = con[f]
           /\ \/ pc[e] = "c_flags" /\ \/ w.end = e /\ w.flag = "bHas_new_resource"
                                         /\ Len(todo[e]) = 2
                                      \/ w = Raise(e) /\ Len(todo[e]) = 1
              \/ pc[e] = "d_flags" /\ \/ w = Verdict(e) /\ Len(todo[e]) = 2
                                      \/ w = Offer(e) /\ Len(todo[e]) = 1
              \/ pc[e] = "k_flags" /\ (w.end = e \/ w = Up(Peer(e), "bIs_close"))
  <1> DEFINE w == todo[e][1]
  <1>1. FlagTypes /\ PendOK(e) /\ FlagOK(e) /\ Peer(e) \in Ends /\ Peer(e) # e
    BY PeerFacts DEF FlagInv, PendInv
  <1>2. /\ todo[e] # <<>> /\ reg[e] # <<>> /\ w \in FlagWrite
        /\ con'[w.end] = Write(reg[e][1], w)
        /\ \A f \in Ends : f # w.end => con'[f] = con[f]
        /\ Len(todo'[e]) = Len(todo[e]) - 1
        /\ todo'[Peer(e)] = todo[Peer(e)]
        /\ Len(todo[e]) \in Nat \ {0}
        /\ pc' = pc
    BY <1>1, FlagStored
  <1>3. queue' = queue  BY SMT DEF flag_store, queueVars
  <1>4. /\ pc[e] \in {"c_flags", "d_flags", "k_flags"} /\ reg[e] = <<con[w.end]>>
    BY <1>1, <1>2 DEF PendOK
  <1>5. reg[e][1] = con[w.end]  BY <1>4, Pairs
  <1>6. con'[w.end] = Write(con[w.end], w)  BY <1>2, <1>5, Zenon
  <1>7. \A x, y : /\ Len(<<x, y>>) = 2 /\ <<x, y>>[1] = x
                  /\ Len(<<x>>) = 1 /\ <<x>>[1] = x
    OBVIOUS
  <1>8. ASSUME pc[e] = "c_flags"
        PROVE  \/ w.end = e /\ w.flag = "bHas_new_resource" /\ Len(todo[e]) = 2
               \/ w = Raise(e) /\ Len(todo[e]) = 1
    <2>1. ASSUME todo[e] = <<Up(e, "bHas_new_resource"), Raise(e)>>
          PROVE  w.end = e /\ w.flag = "bHas_new_resource" /\ Len(todo[e]) = 2
      <3>1. w = Up(e, "bHas_new_resource") /\ Len(todo[e]) = 2  BY <1>7, <2>1
      <3> QED  BY <3>1 DEF Up
    <2>2. ASSUME todo[e] = <<Down(e, "bHas_new_resource"), Raise(e)>>
          PROVE  w.end = e /\ w.flag = "bHas_new_resource" /\ Len(todo[e]) = 2
      <3>1. w = Down(e, "bHas_new_resource") /\ Len(todo[e]) = 2  BY <1>7, <2>2
      <3> QED  BY <3>1 DEF Down
    <2>3. ASSUME todo[e] = <<Raise(e)>>
          PROVE  w = Raise(e) /\ Len(todo[e]) = 1
      BY <1>7, <2>3
    <2> QED  BY <1>1, <1>2, <1>8, <2>1, <2>2, <2>3 DEF PendOK
  <1>9. ASSUME pc[e] = "d_flags"
        PROVE  \/ w = Verdict(e) /\ Len(todo[e]) = 2
               \/ w = Offer(e) /\ Len(todo[e]) = 1
    <2>1. ASSUME todo[e] = <<Verdict(e), Offer(e)>>
          PROVE  w = Verdict(e) /\ Len(todo[e]) = 2
      BY <1>7, <2>1
    <2>2. ASSUME todo[e] = <<Offer(e)>>
          PROVE  w = Offer(e) /\ Len(todo[e]) = 1
      BY <1>7, <2>2
    <2> QED  BY <1>1, <1>2, <1>9, <2>1, <2>2 DEF PendOK
  <1>10. ASSUME pc[e] = "k_flags" PROVE w.end = e \/ w = Up(Peer(e), "bIs_close")
    <2>1. 1 \in 1 .. Len(todo[e])  BY <1>2
    <2> QED  BY <1>1, <1>10, <2>1 DEF PendOK
  <1> QED  BY <1>2, <1>3, <1>4, <1>6, <1>8, <1>9, <1>10

\* A sequence is empty when its length is 0.
LEMMA EmptyIsZero ==
    ASSUME NEW S, NEW s \in Seq(S)
    PROVE  Len(s) \in Nat /\ (s # <<>> <=> Len(s) # 0)
  OBVIOUS

\* Storing a flag keeps what the flags tell.
LEMMA TellStore ==
    ASSUME PendInv, FlagInv, Alone, TellInv, NEW e \in Ends, flag_store(e),
           NEW p \in Ends, p = Peer(e), Peer(p) = e, p # e
    PROVE  OpenOK(e)' /\ TellOK(e)' /\ OpenOK(p)' /\ TellOK(p)'
  <1> DEFINE w == todo[e][1]
  <1>1. /\ pc' = pc /\ queue' = queue
        /\ w \in FlagWrite /\ Len(todo[e]) \in Nat \ {0}
        /\ Len(todo'[e]) = Len(todo[e]) - 1
        /\ todo'[p] = todo[p]
        /\ con'[w.end] = Write(con[w.end], w)
        /\ \A f \in Ends : f # w.end => con'[f] = con[f]
        /\ \/ pc[e] = "c_flags" /\ \/ w.end = e /\ w.flag = "bHas_new_resource"
                                      /\ Len(todo[e]) = 2
                                   \/ w = Raise(e) /\ Len(todo[e]) = 1
           \/ pc[e] = "d_flags" /\ \/ w = Verdict(e) /\ Len(todo[e]) = 2
                                   \/ w = Offer(e) /\ Len(todo[e]) = 1
           \/ pc[e] = "k_flags" /\ (w.end = e \/ w = Up(p, "bIs_close"))
    BY StoreExact
  <1>2. OpenOK(e) /\ OpenOK(p) /\ TellOK(e) /\ TellOK(p)  BY DEF TellInv
  <1>3. /\ todo \in [Ends -> Seq(FlagWrite)]
        /\ con \in [Ends -> SUBSET Flags]
        /\ todo' \in [Ends -> Seq(FlagWrite)]
    <2>1. FlagTypes  BY DEF FlagInv
    <2>2. todo' = [todo EXCEPT ![e] = Tail(@)]  BY SMT DEF flag_store
    <2>3. todo \in [Ends -> Seq(FlagWrite)]  BY <2>1 DEF FlagTypes, FlagWrite
    <2>4. todo[e] # <<>>  BY SMT DEF flag_store
    <2>5. Tail(todo[e]) \in Seq(FlagWrite)  BY <2>3, <2>4, HeadAndTail
    <2> QED  BY <2>1, <2>2, <2>3, <2>5 DEF FlagTypes
  <1>4. /\ todo[e] # <<>>
        /\ todo'[e] # <<>> <=> Len(todo'[e]) # 0
    <2>1. todo[e] \in Seq(FlagWrite) /\ todo'[e] \in Seq(FlagWrite)  BY <1>3
    <2> QED  BY <1>1, <2>1, EmptyIsZero
  <1>5. ~InRequest(p)
    <2>1. InRequest(e)  BY <1>1 DEF InRequest
    <2> QED  BY <2>1 DEF Alone
  <1>6. ~Raising(p) /\ ~Raising(p)' /\ ~Deciding(p) /\ ~Deciding(p)'
    BY <1>1, <1>5 DEF Raising, Deciding, InRequest
  <1>7. Open(e)' = Open(e) /\ Open(p)' = Open(p)  BY <1>1 DEF Open
  <1> HIDE DEF w
  <1>8. CASE pc[e] = "c_flags" /\ w.end = e /\ w.flag = "bHas_new_resource" /\ Len(todo[e]) = 2
    <2>1. con'[p] = con[p] /\ \A flag : flag # "bHas_new_resource" => (flag \in con'[e] <=> flag \in con[e])
      BY <1>1, <1>8 DEF Write
    <2>2. Raising(e) /\ Raising(e)' /\ ~Deciding(e) /\ ~Deciding(e)'
      BY <1>1, <1>4, <1>8 DEF Raising, Deciding
    <2>3. OpenOK(e)' /\ OpenOK(p)'
      BY <1>2, <1>7, <2>1 DEF OpenOK
    <2>4. TellOK(e)' /\ TellOK(p)'
      BY <1>1, <1>2, <1>6, <1>7, <2>1, <2>2 DEF TellOK
    <2> QED  BY <2>3, <2>4
  <1>9. CASE pc[e] = "c_flags" /\ w = Raise(e) /\ Len(todo[e]) = 1
    <2>1. con'[e] = con[e] /\ con'[p] = con[p] \cup {"bHas_message"}
      BY <1>1, <1>9 DEF Write, Raise, Up
    <2>2. Raising(e) /\ ~Raising(e)' /\ ~Deciding(e) /\ ~Deciding(e)'
      BY <1>1, <1>4, <1>9 DEF Raising, Deciding
    <2>3. OpenOK(e)' /\ OpenOK(p)'
      BY <1>2, <1>7, <2>1 DEF OpenOK
    <2>4. TellOK(e)' /\ TellOK(p)'
      BY <1>1, <1>2, <1>6, <1>7, <2>1, <2>2 DEF TellOK
    <2> QED  BY <2>3, <2>4
  <1>10. CASE pc[e] = "d_flags" /\ w = Verdict(e) /\ Len(todo[e]) = 2
    <2>1. /\ con'[p] = con[p]
          /\ \A flag : flag # "bHas_message" => (flag \in con'[e] <=> flag \in con[e])
          /\ "bHas_message" \in con'[e] <=> queue[p] # <<>>
      <3>1. CASE queue[p] # <<>>
        <4>1. w = Up(e, "bHas_message")  BY <1>10, <3>1 DEF Verdict
        <4> QED  BY <1>1, <3>1, <4>1 DEF Write, Up
      <3>2. CASE queue[p] = <<>>
        <4>1. w = Down(e, "bHas_message")  BY <1>10, <3>2 DEF Verdict
        <4> QED  BY <1>1, <3>2, <4>1 DEF Write, Down
      <3> QED  BY <3>1, <3>2
    <2>2. ~Raising(e) /\ ~Raising(e)' /\ Deciding(e) /\ ~Deciding(e)'
      BY <1>1, <1>4, <1>10 DEF Raising, Deciding
    <2>3. OpenOK(e)' /\ OpenOK(p)'
      BY <1>2, <1>7, <2>1 DEF OpenOK
    <2>4. TellOK(e)' /\ TellOK(p)'
      BY <1>1, <1>2, <1>6, <1>7, <2>1, <2>2 DEF TellOK
    <2> QED  BY <2>3, <2>4
  <1>11. CASE pc[e] = "d_flags" /\ w = Offer(e) /\ Len(todo[e]) = 1
    <2>1. con'[e] = con[e] /\ con'[p] = con[p] \cup {"bHas_new_resource"}
      BY <1>1, <1>11 DEF Write, Offer, Up
    <2>2. ~Raising(e) /\ ~Raising(e)' /\ ~Deciding(e) /\ ~Deciding(e)'
      BY <1>1, <1>4, <1>11 DEF Raising, Deciding
    <2>3. OpenOK(e)' /\ OpenOK(p)'
      BY <1>2, <1>7, <2>1 DEF OpenOK
    <2>4. TellOK(e)' /\ TellOK(p)'
      BY <1>1, <1>2, <1>6, <1>7, <2>1, <2>2 DEF TellOK
    <2> QED  BY <2>3, <2>4
  <1>12. CASE pc[e] = "k_flags" /\ (w.end = e \/ w = Up(p, "bIs_close"))
    <2>0. ~Open(e)  BY <1>12 DEF Open
    <2>1. \A flag : flag # "bIs_close" => (flag \in con'[p] <=> flag \in con[p])
      BY <1>1, <1>12 DEF Write, Up
    <2>2. ~Raising(e) /\ ~Raising(e)'
      BY <1>1, <1>12 DEF Raising
    <2>3. OpenOK(e)' /\ OpenOK(p)'
      BY <1>2, <1>7, <2>0, <2>1 DEF OpenOK
    <2>4. TellOK(e)' /\ TellOK(p)'
      BY <1>1, <1>2, <1>6, <1>7, <2>0, <2>1, <2>2 DEF TellOK
    <2> QED  BY <2>3, <2>4
  <1> QED  BY <1>1, <1>8, <1>9, <1>10, <1>11, <1>12

\* Every step keeps what the flags tell.
LEMMA TellNext ==
    ASSUME CountInv, PoolInv, NumberTypes, FlagInv, PendInv, TellInv, [Next]_vars
    PROVE  TellInv'
  <1>a. ControlTypes /\ FlagTypes /\ Alone /\ PoolTypes
    BY DEF FlagInv, CountInv, ApartInv, PoolInv
  <1>b. ApartInv  BY DEF CountInv
  <1>1. CASE UNCHANGED vars
    BY <1>1 DEF vars, queueVars, flagVars, TellInv, TellOK, OpenOK, Open, Raising, Deciding
  <1>2. ASSUME NEW e \in Ends, Call(e) \/ Step(e)
        PROVE  OpenOK(e)' /\ TellOK(e)' /\ OpenOK(Peer(e))' /\ TellOK(Peer(e))'
    <2>a. PICK p \in Ends : p = Peer(e) /\ p # e /\ Peer(p) = e
      BY PeerFacts
    <2>b. OpenOK(e) /\ OpenOK(p) /\ TellOK(e) /\ TellOK(p)  BY DEF TellInv
    <2> SUFFICES OpenOK(e)' /\ TellOK(e)' /\ OpenOK(p)' /\ TellOK(p)'
      BY <2>a
    <2>1. CASE flag_store(e)
      BY <1>a, <2>1, <2>a, TellStore
    \* a step inside a request that writes no flag
    <2>2. ASSUME InRequest(e), UNCHANGED con, NEW step, Goto(e, step), Open(e)' => Open(e),
                 todo'[p] = todo[p]
          PROVE  /\ ~Raising(p) /\ ~Deciding(p) /\ ~Raising(p)' /\ ~Deciding(p)'
                 /\ pc'[e] = step /\ pc'[p] = pc[p] /\ Open(p)' = Open(p)
                 /\ OpenOK(e)' /\ OpenOK(p)'
      <3>1. ~InRequest(p)  BY <1>a, <2>2, <2>a DEF Alone
      <3>2. pc'[e] = step /\ pc'[p] = pc[p]
        BY <1>a, <2>2, <2>a DEF Goto, ControlTypes
      <3>3. ~Raising(p) /\ ~Deciding(p) /\ ~Raising(p)' /\ ~Deciding(p)'
        BY <3>1, <3>2 DEF Raising, Deciding, InRequest
      <3>4. Open(p)' = Open(p)  BY <3>2 DEF Open
      <3>5. OpenOK(e)' /\ OpenOK(p)'
        BY <2>2, <2>a, <2>b, <3>4 DEF OpenOK
      <3> QED  BY <3>2, <3>3, <3>4, <3>5
    <2>3. CASE add_queue_link(e)
      <3>1. InRequest(e) /\ pc[e] = "c_link" /\ UNCHANGED <<con, todo>>
        BY <2>3, SMT DEF add_queue_link, flagVars, InRequest
      <3>2. /\ \/ Goto(e, "c_fill") /\ Len(queue'[e]) = Len(queue[e]) + 1
               \/ Goto(e, "c_append") /\ queue'[e] = queue[e]
            /\ queue'[p] = queue[p]
        BY <1>b, <2>3, <2>a, QueueLengths
      <3>3. Open(e)' => Open(e)  BY <3>1 DEF Open
      <3>4. ASSUME NEW step \in {"c_fill", "c_append"}, Goto(e, step),
                   step = "c_fill" => queue'[e] # <<>>,
                   step = "c_append" => queue'[e] = queue[e]
            PROVE  OpenOK(e)' /\ TellOK(e)' /\ OpenOK(p)' /\ TellOK(p)'
        <4>1. /\ ~Raising(p) /\ ~Deciding(p) /\ ~Raising(p)' /\ ~Deciding(p)'
              /\ pc'[e] = step /\ pc'[p] = pc[p] /\ Open(p)' = Open(p)
              /\ OpenOK(e)' /\ OpenOK(p)'
          BY <2>2, <3>1, <3>3, <3>4
        <4>2. /\ ~Deciding(e) /\ ~Deciding(e)' /\ ~Raising(e)
              /\ Raising(e)' <=> step = "c_fill"
          BY <3>1, <3>4, <4>1 DEF Deciding, Raising
        <4>3. TellOK(e)' /\ TellOK(p)'
          BY <2>a, <2>b, <3>1, <3>2, <3>3, <3>4, <4>1, <4>2 DEF TellOK
        <4> QED  BY <4>1, <4>3
      <3>5. Len(queue'[e]) = Len(queue[e]) + 1 => queue'[e] # <<>>
        BY <1>b, QueueLengths
      <3> QED  BY <3>2, <3>4, <3>5
    <2>10. CASE add_queue_append(e)
      <3>1. /\ InRequest(e) /\ pc[e] = "c_append" /\ UNCHANGED con
            /\ Goto(e, "c_appended") /\ todo' = [todo EXCEPT ![e] = <<Raise(e)>>]
        <4>1. InRequest(e) /\ pc[e] = "c_append" /\ UNCHANGED con
          BY <2>10, SMT DEF add_queue_append, InRequest
        <4> QED  BY <2>10, <4>1, BeginExact
      <3>2. Len(queue'[e]) = Len(queue[e]) + 1 /\ queue'[p] = queue[p]
        BY <1>b, <2>10, <2>a, QueueLengths
      <3>3. queue'[e] # <<>>
        BY <1>b, <3>2, QueueLengths
      <3>4. todo'[p] = todo[p]
        BY <1>a, <3>1, <2>a, Zenon DEF FlagTypes
      <3>5. Open(e)' => Open(e)  BY <3>1 DEF Open
      <3>6. /\ ~Raising(p) /\ ~Deciding(p) /\ ~Raising(p)' /\ ~Deciding(p)'
            /\ pc'[e] = "c_appended" /\ pc'[p] = pc[p] /\ Open(p)' = Open(p)
            /\ OpenOK(e)' /\ OpenOK(p)'
        BY <2>2, <3>1, <3>4, <3>5
      <3>7. ~Deciding(e) /\ ~Deciding(e)' /\ Raising(e)'
        BY <3>1, <3>6 DEF Deciding, Raising
      <3>8. TellOK(e)' /\ TellOK(p)'
        BY <2>a, <2>b, <3>1, <3>2, <3>3, <3>5, <3>6, <3>7 DEF TellOK
      <3> QED  BY <3>6, <3>8
    <2>4. CASE add_queue_fill(e)
      <3>1. /\ InRequest(e) /\ pc[e] = "c_fill" /\ UNCHANGED <<con, todo>>
            /\ Goto(e, "c_filled")
        BY <1>b, <2>4, QueueActions DEF add_queue_fill, InRequest, flagVars
      <3>2. queue'[e] # <<>> /\ queue'[p] = queue[p]
        <4>1. queue'[p] = queue[p]
          BY <1>b, <2>4, <2>a, QueueLengths
        <4>2. queue' = [queue EXCEPT ![e] = <<NewMessage(e)>>]
          BY <1>b, <2>4, QueueActions
        <4>3. queue'[e] = <<NewMessage(e)>>  BY <1>a, <4>2, Zenon DEF PoolTypes
        <4> QED  BY <4>1, <4>3, Pairs, Zenon
      <3>3. Open(e)' => Open(e)  BY <3>1 DEF Open
      <3>4. /\ ~Raising(p) /\ ~Deciding(p) /\ ~Raising(p)' /\ ~Deciding(p)'
            /\ pc'[e] = "c_filled" /\ pc'[p] = pc[p] /\ Open(p)' = Open(p)
            /\ OpenOK(e)' /\ OpenOK(p)'
        BY <2>2, <3>1, <3>3
      <3>5. ~Deciding(e) /\ ~Deciding(e)' /\ Raising(e)'
        BY <3>1, <3>4 DEF Deciding, Raising
      <3>6. TellOK(e)' /\ TellOK(p)'
        BY <2>a, <2>b, <3>1, <3>2, <3>3, <3>4, <3>5 DEF TellOK
      <3> QED  BY <3>4, <3>6
    <2>5. CASE add_queue_resource(e)
      <3>1. /\ InRequest(e) /\ pc[e] = "c_resource" /\ UNCHANGED <<con, queue>>
            /\ \/ UNCHANGED <<todo, pc>>
               \/ Goto(e, "c_flags") /\ \E x : todo' = [todo EXCEPT ![e] = <<x, Raise(e)>>]
        <4>1. InRequest(e) /\ pc[e] = "c_resource" /\ UNCHANGED <<con, queue>>
          BY <2>5, SMT DEF add_queue_resource, queueVars, InRequest
        <4> QED  BY <2>5, <4>1, BeginExact
      <3>2. CASE UNCHANGED <<todo, pc>>
        BY <2>b, <3>1, <3>2 DEF OpenOK, TellOK, Open, Raising, Deciding
      <3>3. ASSUME Goto(e, "c_flags"), NEW x, todo' = [todo EXCEPT ![e] = <<x, Raise(e)>>]
            PROVE  OpenOK(e)' /\ TellOK(e)' /\ OpenOK(p)' /\ TellOK(p)'
        <4>1. todo'[p] = todo[p] /\ todo'[e] = <<x, Raise(e)>>
          BY <1>a, <3>3, <2>a, Zenon DEF FlagTypes
        <4>2. todo'[e] # <<>>  BY <4>1, Pairs, Zenon
        <4>3. Open(e)' => Open(e)  BY <3>1 DEF Open
        <4>4. /\ ~Raising(p) /\ ~Deciding(p) /\ ~Raising(p)' /\ ~Deciding(p)'
              /\ pc'[e] = "c_flags" /\ pc'[p] = pc[p] /\ Open(p)' = Open(p)
              /\ OpenOK(e)' /\ OpenOK(p)'
          BY <2>2, <3>1, <3>3, <4>1, <4>3
        <4>5. ~Deciding(e) /\ ~Deciding(e)' /\ Raising(e)' /\ Raising(e)
          BY <3>1, <4>2, <4>4 DEF Deciding, Raising
        <4>6. TellOK(e)' /\ TellOK(p)'
          BY <2>a, <2>b, <3>1, <4>3, <4>4, <4>5 DEF TellOK
        <4> QED  BY <4>4, <4>6
      <3> QED  BY <3>1, <3>2, <3>3
    <2>6. CASE delete_head_queue_pop(e)
      <3>1. /\ InRequest(e) /\ pc[e] = "f_head" /\ UNCHANGED <<con, todo>>
            /\ Goto(e, "f_unlock")
        BY <2>6, SMT DEF delete_head_queue_pop, InRequest, flagVars
      <3>2. queue'[e] = queue[e]
        BY <1>b, <2>6, <2>a, QueueLengths
      <3>3. Open(e)' => Open(e)  BY <3>1 DEF Open
      <3>4. /\ ~Raising(p) /\ ~Deciding(p) /\ ~Raising(p)' /\ ~Deciding(p)'
            /\ pc'[e] = "f_unlock" /\ pc'[p] = pc[p] /\ Open(p)' = Open(p)
            /\ OpenOK(e)' /\ OpenOK(p)'
        BY <2>2, <3>1, <3>3
      <3>5. ~Raising(e) /\ ~Raising(e)' /\ Deciding(e)'
        BY <3>1, <3>4 DEF Deciding, Raising
      <3>6. TellOK(e)' /\ TellOK(p)'
        BY <2>a, <2>b, <3>1, <3>2, <3>3, <3>4, <3>5 DEF TellOK
      <3> QED  BY <3>4, <3>6
    <2>7. CASE count_more(e) \/ count_one(e)
      <3>1. /\ InRequest(e) /\ pc[e] \in {"d_more", "d_one"} /\ UNCHANGED <<con, queue>>
            /\ todo'[p] = todo[p]
            /\ \E step \in {"d_one", "d_load"} : Goto(e, step)
        <4>1. InRequest(e) /\ pc[e] \in {"d_more", "d_one"} /\ UNCHANGED <<con, queue>>
          BY <2>7, SMT DEF count_more, queueVars, count_one, InRequest
        <4>2. todo'[p] = todo[p]
          <5>1. \/ UNCHANGED todo
                \/ todo' = [todo EXCEPT ![e] = <<Verdict(e), Offer(e)>>]
            BY <2>7, BeginExact
          <5> QED  BY <1>a, <2>a, <5>1, Zenon DEF FlagTypes
        <4>3. count_one(e) => LastMessage(e)
          <5> SUFFICES ASSUME count_one(e) PROVE LastMessage(e)  OBVIOUS
          <5>1. pc[e] = "d_one"  BY DEF count_one
          <5>2. ~Adding(p)  BY <1>a, <4>1, <2>a, OtherIdle
          <5>3. Len(queue[p]) = read_msg_number[e] - 1 /\ read_msg_number[e] <= 1
            BY <2>a, <5>1, <5>2 DEF CountInv, CountOK, Popped, OneIf, NumberTypes
          <5>4. Len(queue[p]) \in Nat  BY <1>b, QueueLengths
          <5> QED  BY <5>3, <5>4 DEF LastMessage, NumberTypes
        <4>4. \E step \in {"d_one", "d_load"} : Goto(e, step)
          BY <2>7, <4>3, Zenon DEF count_more, count_one
        <4> QED  BY <4>1, <4>2, <4>4
      <3>2. PICK step \in {"d_one", "d_load"} : Goto(e, step)  BY <3>1
      <3>3. Open(e)' => Open(e)  BY <3>1 DEF Open
      <3>4. /\ ~Raising(p) /\ ~Deciding(p) /\ ~Raising(p)' /\ ~Deciding(p)'
            /\ pc'[e] = step /\ pc'[p] = pc[p] /\ Open(p)' = Open(p)
            /\ OpenOK(e)' /\ OpenOK(p)'
        BY <2>2, <3>1, <3>2, <3>3
      <3>5. ~Raising(e) /\ ~Raising(e)' /\ Deciding(e) /\ Deciding(e)'
        BY <3>1, <3>4 DEF Deciding, Raising
      <3>6. TellOK(e)' /\ TellOK(p)'
        BY <2>a, <2>b, <3>1, <3>3, <3>4, <3>5 DEF TellOK
      <3> QED  BY <3>4, <3>6
    <2>8. CASE decrement_store(e)
      <3>1. /\ InRequest(e) /\ pc[e] = "d_store" /\ UNCHANGED <<con, todo, queue>>
            /\ Goto(e, "d_flags")
        BY <2>8, SMT DEF decrement_store, queueVars, InRequest, flagVars
      <3>2. Len(todo'[e]) = 2
        <4>1. todo[e] = <<Verdict(e), Offer(e)>>  BY <3>1 DEF PendInv, PendOK
        <4>2. Len(<<Verdict(e), Offer(e)>>) = 2  OBVIOUS
        <4> QED  BY <3>1, <4>1, <4>2, Zenon
      <3>3. Open(e)' => Open(e)  BY <3>1 DEF Open
      <3>4. /\ ~Raising(p) /\ ~Deciding(p) /\ ~Raising(p)' /\ ~Deciding(p)'
            /\ pc'[e] = "d_flags" /\ pc'[p] = pc[p] /\ Open(p)' = Open(p)
            /\ OpenOK(e)' /\ OpenOK(p)'
        BY <2>2, <3>1, <3>3
      <3>5. ~Raising(e) /\ ~Raising(e)' /\ Deciding(e) /\ Deciding(e)'
        BY <3>1, <3>2, <3>4 DEF Deciding, Raising
      <3>6. TellOK(e)' /\ TellOK(p)'
        BY <2>a, <2>b, <3>1, <3>3, <3>4, <3>5 DEF TellOK
      <3> QED  BY <3>4, <3>6
    <2>9. ASSUME ~add_queue_link(e), ~add_queue_fill(e), ~add_queue_append(e),
                 ~add_queue_resource(e), ~delete_head_queue_pop(e), ~count_more(e),
                 ~count_one(e), ~decrement_store(e), ~flag_store(e)
          PROVE  OpenOK(e)' /\ TellOK(e)' /\ OpenOK(p)' /\ TellOK(p)'
      <3>1. /\ UNCHANGED <<con, queue>>
            /\ pc'[p] = pc[p] /\ todo'[p] = todo[p]
            /\ Open(e)' => Open(e)
            /\ Raising(e)' = Raising(e) /\ Deciding(e)' = Deciding(e)
        BY <1>2, <1>a, <2>9, <2>a, TellCalm
      <3>2. Open(p)' = Open(p) /\ Raising(p)' = Raising(p) /\ Deciding(p)' = Deciding(p)
        BY <3>1 DEF Open, Raising, Deciding
      <3>3. OpenOK(e)'  BY <2>a, <2>b, <3>1, <3>2 DEF OpenOK
      <3>4. TellOK(e)' /\ TellOK(p)'
        BY <2>a, <2>b, <3>1, <3>2 DEF TellOK
      <3>5. OpenOK(p)'  BY <2>a, <2>b, <3>1, <3>2 DEF OpenOK
      <3> QED  BY <3>3, <3>4, <3>5
    <2> QED  BY <2>1, <2>3, <2>4, <2>5, <2>6, <2>7, <2>8, <2>9, <2>10
  <1>3. CASE Next
    <2>1. PICK e \in Ends : Call(e) \/ Step(e)  BY <1>3 DEF Next
    <2>2. \A f \in Ends : f = e \/ f = Peer(e)  BY DEF Ends, Peer
    <2> QED  BY <1>2, <2>1, <2>2 DEF TellInv
  <1> QED  BY <1>1, <1>3

-----------------------------------------------------------------------------
(* One request at a time: what a recv finds *)

\* The steps of a recv that was told of a message, up to the pop of it, and
\* those after it.
Reads == {"g_get", "r_copy", "f_guard", "f_release", "f_account", "f_lock", "f_pop",
          "f_head"}
Receiving(e) == pc[e] \in {"f_unlock", "d_more", "d_one", "d_load", "d_store", "d_flags"}
Sending(e) == pc[e] \in {"s_wait", "a_guard", "a_take"} \/ Held(e)

\* Every message has been filled in.
Numbered(messages) == \A i \in 1 .. Len(messages) : messages[i].id # 0

\* The reader of an unfilled node has not been told of it; all others are filled.
FillOK(e) ==
    /\ pc[e] = "c_fill" => (Open(Peer(e)) => "bHas_message" \notin con[Peer(e)])
    /\ pc[e] # "c_fill" => Numbered(queue[e])
    /\ Sending(e) => sent[e] # 0

\* A recv that was told of a message finds it at the head of the queue, and it is
\* the one it copied out.
ReadOK(e) ==
    /\ pc[e] \in Reads => queue[Peer(e)] # <<>> /\ pc[Peer(e)] # "c_fill"
    /\ pc[e] \in Reads \ {"g_get"} => block[e] = Head(queue[Peer(e)])
    /\ pc[e] \in Reads \ {"g_get", "r_copy"} => got[e] = block[e].id
    /\ Receiving(e) => block[e].id # 0 /\ got[e] = block[e].id

ReadInv == \A e \in Ends : FillOK(e) /\ ReadOK(e)

\* Initially nobody sends or receives.
LEMMA ReadInit == Init => ReadInv
  <1> SUFFICES ASSUME Init, NEW e \in Ends PROVE FillOK(e) /\ ReadOK(e)  BY DEF ReadInv
  <1>1. queue[e] = <<>> /\ pc[e] = "ready"  BY DEF Init
  <1> QED  BY <1>1 DEF FillOK, ReadOK, Reads, Receiving, Sending, Held, Numbered

\* Steps that change nothing of what is read, copied or told.
LEMMA ReadCalm ==
    ASSUME ControlTypes, ReaderTypes, NEW e \in Ends, Call(e) \/ Step(e),
           ~Send(e), ~add_queue_link(e), ~add_queue_fill(e), ~add_queue_append(e),
           ~delete_head_queue_pop(e), ~flag_store(e), ~test_message(e),
           ~request_message(e), ~request_empty(e), ~copy_out(e)
    PROVE  /\ UNCHANGED <<queue, sent, con, got>>
           /\ \A f \in Ends : f # e => pc'[f] = pc[f] /\ block'[f] = block[f]
           /\ block'[e] = block[e] \/ pc'[e] = "r_test"
           /\ pc'[e] = "c_fill" <=> pc[e] = "c_fill"
           /\ Sending(e)' => Sending(e)
           /\ pc'[e] \in Reads =>
                 pc[e] = pc'[e] \/ {pc[e], pc'[e]} \subseteq Reads \ {"g_get", "r_copy"}
           /\ Receiving(e)' => Receiving(e)
           /\ Open(e)' => Open(e)
  <1>1. /\ UNCHANGED <<queue, sent, con, got>>
        /\ UNCHANGED block \/ request_closed(e)
    BY SMT DEF Call, queueVars, Step, flagVars, callVars, Recv, Close, wait_for_sources,
       requestA, aplly_memory, aplly_memory_torn, account_INCRASE, copy_in, committ,
       add_queue_admit, add_queue_lock, add_queue_unlock, add_queue_resource, count_load,
       count_store, flag_load, test_closed, request_closed, finish, release_memory,
       release_memory_torn, account_REDUCE, delete_head_queue_lock,
       delete_head_queue_next, delete_head_queue_unlock, count_more, count_one, decrement_load,
       decrement_store, finish_return, kill_self_return
  <1>4. add_queue_unlock(e) =>
           \/ pc[e] = "c_filled" /\ Goto(e, "c_resource")
           \/ pc[e] = "c_appended" /\ Goto(e, "c_flags")
    BY Zenon DEF add_queue_unlock
  <1>2. /\ \A f \in Ends : f # e => pc'[f] = pc[f]
        /\ request_closed(e) => pc'[e] = "r_test"
        /\ pc'[e] = "c_fill" <=> pc[e] = "c_fill"
        /\ Sending(e)' => Sending(e)
        /\ pc'[e] \in Reads =>
                 pc[e] = pc'[e] \/ {pc[e], pc'[e]} \subseteq Reads \ {"g_get", "r_copy"}
        /\ Receiving(e)' => Receiving(e)
        /\ Open(e)' => Open(e)
    BY <1>4, SMT DEF ControlTypes, Sending, Held, Reads, Receiving, Open, Call, Step, Goto,
       Return, Recv, Close, wait_for_sources, requestA, aplly_memory,
       aplly_memory_torn, account_INCRASE, copy_in, committ, add_queue_admit,
       add_queue_lock, add_queue_resource, count_load, count_store, flag_load,
       test_closed, request_closed, finish, release_memory, release_memory_torn,
       account_REDUCE, delete_head_queue_lock, delete_head_queue_next,
       delete_head_queue_unlock, count_more, count_one, decrement_load, decrement_store,
       finish_return, RecvReturn, kill_self_return
  <1>3. \A f \in Ends : f # e => block'[f] = block[f]
    <2>1. request_closed(e) => block' = [block EXCEPT ![e].off = -1]
      BY Zenon DEF request_closed
    <2> QED  BY <1>1, <2>1, Zenon DEF ReaderTypes
  <1> QED  BY <1>1, <1>2, <1>3

\* Every step keeps what a recv relies on.
LEMMA ReadNext ==
    ASSUME CountInv, PoolInv, ReaderTypes, FlagInv, PendInv, TellInv, ReadInv, [Next]_vars
    PROVE  ReadInv'
  <1>a. ControlTypes /\ FlagTypes /\ Alone /\ PoolTypes
    BY DEF FlagInv, CountInv, ApartInv, PoolInv
  <1>b. /\ ApartInv /\ reclaimed = {}
        /\ \A f \in Ends : PoolOK(f) /\ ~torn[f]
    BY DEF CountInv, ApartInv, ApartOK, FlagInv, PoolInv
  <1>1. CASE UNCHANGED vars
    BY <1>1 DEF vars, queueVars, flagVars, callVars, ReadInv, FillOK, ReadOK, Open, Sending, Held,
       Receiving
  <1>2. ASSUME NEW e \in Ends, Call(e) \/ Step(e)
        PROVE  FillOK(e)' /\ ReadOK(e)' /\ FillOK(Peer(e))' /\ ReadOK(Peer(e))'
    <2>a. PICK p \in Ends : p = Peer(e) /\ p # e /\ Peer(p) = e
      BY PeerFacts
    <2>b. FillOK(e) /\ FillOK(p) /\ ReadOK(e) /\ ReadOK(p) /\ TellOK(e) /\ TellOK(p)
      BY DEF ReadInv, TellInv
    <2>c. /\ queue[e] \in Seq(Message) /\ queue[p] \in Seq(Message)
          /\ NewMessage(e) \in Message /\ NewMessage(e).id = sent[e]
      BY LiveTyped
    <2>d. \A step : Goto(e, step) => pc'[e] = step /\ pc'[p] = pc[p]
      BY <1>a, <2>a DEF Goto, ControlTypes
    <2> SUFFICES FillOK(e)' /\ ReadOK(e)' /\ FillOK(p)' /\ ReadOK(p)'
      BY <2>a
    \* steps that leave queues, flags and copies
    <2>0. ASSUME UNCHANGED <<queue, con>>, sent'[p] = sent[p], block'[p] = block[p],
                 got'[p] = got[p], NEW step, Goto(e, step), step # "c_fill", pc[e] # "c_fill",
                 Open(e)' => Open(e), Sending(e)' => sent'[e] # 0, ReadOK(e)'
          PROVE  FillOK(e)' /\ ReadOK(e)' /\ FillOK(p)' /\ ReadOK(p)'
      <3>1. pc'[e] = step /\ pc'[p] = pc[p]  BY <2>0, <2>d
      <3>2. /\ Open(p)' = Open(p) /\ Sending(p)' = Sending(p) /\ Receiving(p)' = Receiving(p)
        BY <3>1 DEF Open, Sending, Held, Receiving
      <3>3. FillOK(e)'
        BY <2>0, <2>b, <3>1 DEF FillOK, Numbered
      <3>4. FillOK(p)'
        BY <2>0, <2>a, <2>b, <3>1, <3>2 DEF FillOK, Numbered
      <3>5. ReadOK(p)'
        BY <2>0, <2>a, <2>b, <3>1, <3>2 DEF ReadOK
      <3> QED  BY <2>0, <3>3, <3>4, <3>5
    <2>1. CASE flag_store(e)
      <3>1. /\ UNCHANGED <<queue, sent, pc, block, got>> /\ todo[e] # <<>>
        BY <2>1, SMT DEF flag_store, queueVars, callVars
      <3>2. pc[e] \in Flagging  BY <3>1 DEF FlagInv, FlagOK, OwedOK
      <3>3. InRequest(e)  BY <3>2 DEF InRequest, Flagging
      <3>4. pc[p] # "c_fill" /\ pc[e] # "c_fill"
        BY <1>a, <3>2, <3>3, <2>a DEF Alone, InRequest, Flagging
      <3>5. ReadOK(e)' /\ ReadOK(p)'
        BY <2>b, <3>1 DEF ReadOK, Receiving
      <3>6. FillOK(e)' /\ FillOK(p)'
        BY <2>b, <3>1, <3>4 DEF FillOK, Numbered, Sending, Held
      <3> QED  BY <3>5, <3>6
    <2>2. CASE Send(e)
      <3>1. /\ UNCHANGED <<queue, con, block, got>> /\ pc[e] = "ready"
            /\ Goto(e, "s_wait") /\ sent' = [sent EXCEPT ![e] = @ + 1]
        BY <2>2, SMT DEF Send, queueVars, flagVars
      <3>2. sent'[e] # 0 /\ sent'[p] = sent[p]
        BY <1>a, <3>1, <2>a DEF PoolTypes
      <3>3. pc'[e] = "s_wait"  BY <2>d, <3>1
      <3>4. Open(e)' => Open(e)  BY <3>1 DEF Open
      <3>5. ReadOK(e)'  BY <3>3 DEF ReadOK, Reads, Receiving
      <3> QED  BY <2>0, <3>1, <3>2, <3>4, <3>5
    <2>3. CASE add_queue_link(e)
      <3>1. /\ InRequest(e) /\ pc[e] = "c_link" /\ UNCHANGED <<con, sent, block, got>>
        BY <2>3, SMT DEF add_queue_link, InRequest, callVars, flagVars
      <3>2. ~InRequest(p)  BY <1>a, <3>1, <2>a DEF Alone
      <3>3. Sending(e) /\ Open(p)' = Open(p)
        <4>1. pc'[p] = pc[p]
          BY <2>3, <2>d, SMT DEF add_queue_link
        <4> QED  BY <3>1, <4>1 DEF Sending, Held, Open
      <3>4. CASE queue[e] = <<>>
        <4>1. Goto(e, "c_fill") /\ queue' = [queue EXCEPT ![e] = <<Zeroed>>]
          BY <1>b, <2>3, <3>4, QueueActions
        <4>2. pc'[e] = "c_fill" /\ pc'[p] = pc[p] /\ queue'[p] = queue[p]
          BY <1>a, <4>1, <2>a, <2>d, Zenon DEF PoolTypes
        <4>3. ~Raising(e) /\ ~Deciding(p)
          BY <3>1, <3>2 DEF Raising, Deciding, InRequest
        <4>4. Open(p) => "bHas_message" \notin con[p]
          BY <2>a, <2>b, <3>4, <4>3 DEF TellOK
        <4>5. FillOK(e)'
          BY <2>a, <2>b, <3>1, <3>3, <4>2, <4>4 DEF FillOK
        <4>6. FillOK(p)'
          BY <2>a, <2>b, <3>1, <3>2, <4>2 DEF FillOK, Sending, Held, Numbered, InRequest
        <4>7. ReadOK(e)'  BY <4>2 DEF ReadOK, Reads, Receiving
        <4>8. pc[p] \notin Reads  BY <2>a, <2>b, <3>4 DEF ReadOK
        <4>9. ReadOK(p)'
          BY <2>b, <3>1, <4>2, <4>8 DEF ReadOK, Receiving
        <4> QED  BY <4>5, <4>6, <4>7, <4>9
      <3>5. CASE queue[e] # <<>>
        <4>1. Goto(e, "c_append") /\ queue' = queue
          BY <1>b, <2>3, <3>5, QueueActions
        <4>2. pc'[e] = "c_append" /\ Open(e)' => Open(e)
          BY <2>d, <4>1, <3>1 DEF Open
        <4>3. ReadOK(e)'  BY <2>d, <4>1 DEF ReadOK, Reads, Receiving
        <4>4. sent[e] # 0  BY <2>b, <3>3 DEF FillOK
        <4> QED  BY <2>0, <3>1, <4>1, <4>2, <4>3, <4>4, <2>d DEF Open
      <3> QED  BY <3>4, <3>5
    <2>11. CASE add_queue_append(e)
      <3> DEFINE m == NewMessage(e)
                 q == queue[e]
      <3>1. /\ InRequest(e) /\ pc[e] = "c_append" /\ UNCHANGED <<con, sent, block, got>>
            /\ Goto(e, "c_appended")
        BY <2>11, SMT DEF add_queue_append, InRequest, callVars
      <3>2. ~InRequest(p)  BY <1>a, <3>1, <2>a DEF Alone
      <3>3. Sending(e)  BY <3>1 DEF Sending, Held
      <3>4. q # <<>> /\ queue' = [queue EXCEPT ![e] = Append(@, m)]
        BY <1>b, <2>11, QueueActions
      <3> HIDE DEF m
      <3>5. /\ pc'[e] = "c_appended" /\ pc'[p] = pc[p] /\ queue'[p] = queue[p]
            /\ queue'[e] = Append(q, m)
        BY <1>a, <3>1, <3>4, <2>a, <2>d, Zenon DEF PoolTypes
      <3>6. /\ Append(q, m) \in Seq(Message) /\ Len(Append(q, m)) = Len(q) + 1
            /\ Append(q, m) # <<>>
            /\ \A i \in 1 .. Len(q) : Append(q, m)[i] = q[i]
            /\ Append(q, m)[Len(q) + 1] = m
        BY <2>c, Appended DEF m
      <3>7. m.id # 0  BY <2>b, <2>c, <3>3 DEF FillOK, m
      <3> DEFINE r == Append(q, m)
      <3> HIDE DEF r
      <3>8. Numbered(r)
        <4>1. Len(q) \in Nat /\ (\A i \in 1 .. Len(q) : q[i].id # 0)
          BY <1>b, <2>b, <2>c, <3>1, QueueLengths DEF FillOK, Numbered
        <4> QED  BY <3>6, <3>7, <4>1 DEF Numbered, r
      <3>9. Head(r) = Head(q)
        <4>1. Head(r) = r[1] /\ Head(q) = q[1] /\ Len(q) \in Nat \ {0}
          BY <2>c, <3>4, <3>6, HeadAndTail DEF r
        <4> QED  BY <3>6, <4>1 DEF r
      <3>10. Open(p)' = Open(p)  BY <3>5 DEF Open
      <3>11. FillOK(e)'
        BY <2>b, <3>1, <3>5, <3>8 DEF FillOK, Sending, Held, r
      <3>12. FillOK(p)'
        BY <2>a, <2>b, <3>1, <3>2, <3>5 DEF FillOK, Sending, Held, Numbered, InRequest
      <3>13. ReadOK(e)'  BY <3>5 DEF ReadOK, Reads, Receiving
      <3>14. ReadOK(p)'
        BY <2>a, <2>b, <3>1, <3>5, <3>6, <3>9 DEF ReadOK, Receiving, r
      <3> QED  BY <3>11, <3>12, <3>13, <3>14
    <2>4. CASE add_queue_fill(e)
      <3>1. /\ InRequest(e) /\ pc[e] = "c_fill" /\ UNCHANGED <<con, sent, block, got>>
            /\ Goto(e, "c_filled") /\ queue' = [queue EXCEPT ![e] = <<NewMessage(e)>>]
        <4>1. /\ InRequest(e) /\ pc[e] = "c_fill" /\ UNCHANGED <<con, sent, block, got>>
          BY <2>4, SMT DEF add_queue_fill, InRequest, callVars, flagVars
        <4> QED  BY <1>b, <2>4, <4>1, QueueActions
      <3>2. ~InRequest(p)  BY <1>a, <3>1, <2>a DEF Alone
      <3>3. /\ pc'[e] = "c_filled" /\ pc'[p] = pc[p] /\ queue'[p] = queue[p]
            /\ queue'[e] = <<NewMessage(e)>>
        BY <1>a, <3>1, <2>a, <2>d, Zenon DEF PoolTypes
      <3>4. Numbered(<<NewMessage(e)>>)
        <4> DEFINE m == NewMessage(e)
        <4>1. m.id # 0  BY <2>b, <2>c, <3>1 DEF FillOK, Sending, Held
        <4> HIDE DEF m
        <4>2. Numbered(<<m>>)  BY <4>1 DEF Numbered
        <4> QED  BY <4>2 DEF m
      <3>5. FillOK(e)'
        BY <3>3, <3>4 DEF FillOK, Sending, Held
      <3>6. FillOK(p)'
        BY <2>a, <2>b, <3>1, <3>2, <3>3 DEF FillOK, Sending, Held, Numbered, InRequest
      <3>7. ReadOK(e)'  BY <3>3 DEF ReadOK, Reads, Receiving
      <3>8. pc[p] \notin Reads  BY <2>a, <2>b, <3>1 DEF ReadOK
      <3>9. ReadOK(p)'
        BY <2>b, <3>1, <3>3, <3>8 DEF ReadOK, Receiving
      <3> QED  BY <3>5, <3>6, <3>7, <3>9
    <2>5. CASE delete_head_queue_pop(e)
      <3>1. /\ InRequest(e) /\ pc[e] = "f_head" /\ pc[p] # "c_fill"
            /\ UNCHANGED <<con, sent, block, got>>
            /\ Goto(e, "f_unlock") /\ queue' = [queue EXCEPT ![p] = Tail(@)]
        <4>1. /\ InRequest(e) /\ pc[e] = "f_head" /\ UNCHANGED <<con, sent, block, got>>
              /\ Goto(e, "f_unlock")
          BY <2>5, SMT DEF delete_head_queue_pop, InRequest, callVars, flagVars
        <4>2. pc[p] # "c_fill"
          BY <2>a, <2>b, <4>1 DEF ReadOK, Reads
        <4> QED  BY <1>b, <2>5, <2>a, <4>1, <4>2, QueueActions
      <3>2. ~InRequest(p)  BY <1>a, <3>1, <2>a DEF Alone
      <3>3. /\ pc'[e] = "f_unlock" /\ pc'[p] = pc[p] /\ queue'[e] = queue[e]
            /\ queue'[p] = Tail(queue[p])
        BY <1>a, <3>1, <2>a, <2>d, Zenon DEF PoolTypes
      <3>4. queue[p] # <<>> /\ block[e] = Head(queue[p]) /\ got[e] = block[e].id
        BY <2>a, <2>b, <3>1 DEF ReadOK, Reads
      <3>5. /\ Len(queue[p]) \in Nat \ {0} /\ Head(queue[p]) = queue[p][1]
            /\ Len(Tail(queue[p])) = Len(queue[p]) - 1
            /\ \A i \in 1 .. Len(queue[p]) - 1 : Tail(queue[p])[i] = queue[p][i + 1]
        BY <2>c, <3>4, HeadAndTail
      <3>6. Numbered(Tail(queue[p])) /\ block[e].id # 0
        BY <2>b, <3>1, <3>4, <3>5 DEF FillOK, Numbered
      <3>7. FillOK(e)'
        BY <2>b, <3>1, <3>3 DEF FillOK, Sending, Held, Numbered
      <3>8. FillOK(p)'
        BY <2>b, <3>1, <3>3, <3>6 DEF FillOK, Sending, Held
      <3>9. ReadOK(e)'
        BY <3>1, <3>3, <3>4, <3>6 DEF ReadOK, Reads
      <3>10. ReadOK(p)'
        BY <2>a, <2>b, <3>1, <3>3 DEF ReadOK, Receiving
      <3> QED  BY <3>7, <3>8, <3>9, <3>10
    <2>6. CASE test_message(e)
      <3>1. /\ pc[e] \in {"r_test", "r_again"} /\ UNCHANGED <<queue, con, sent, block, got>>
            /\ \/ Goto(e, "g_get") /\ "bHas_message" \in con[e]
               \/ Goto(e, "r_loop")
        <4>1. pc[e] \in {"r_test", "r_again"} /\ UNCHANGED <<queue, con, sent, block, got>>
          BY <2>6, SMT DEF test_message, queueVars, flagVars, callVars
        <4> QED  BY <2>6, <4>1, Zenon DEF test_message
      <3>2. Open(e) /\ ~Deciding(e)  BY <3>1 DEF Open, Deciding
      <3>3. CASE Goto(e, "g_get") /\ "bHas_message" \in con[e]
        <4>1. pc'[e] = "g_get" /\ pc'[p] = pc[p]  BY <3>3, <2>d
        <4>2. queue[p] # <<>>  BY <2>a, <2>b, <3>2, <3>3 DEF TellOK
        <4>3. pc[p] # "c_fill"  BY <2>a, <2>b, <3>2, <3>3 DEF FillOK
        <4>4. ReadOK(e)'
          BY <2>a, <3>1, <4>1, <4>2, <4>3 DEF ReadOK, Reads, Receiving
        <4>5. ~Sending(e)'  BY <4>1 DEF Sending, Held
        <4> QED  BY <2>0, <3>1, <3>2, <3>3, <4>4, <4>5
      <3>4. CASE Goto(e, "r_loop")
        <4>1. pc'[e] = "r_loop"  BY <3>4, <2>d
        <4>2. ReadOK(e)' /\ ~Sending(e)'
          BY <4>1 DEF ReadOK, Reads, Receiving, Sending, Held
        <4> QED  BY <2>0, <3>1, <3>2, <3>4, <4>2
      <3> QED  BY <3>1, <3>3, <3>4
    <2>7. CASE request_message(e)
      <3>1. /\ pc[e] = "g_get" /\ UNCHANGED <<queue, con, sent, got>>
            /\ Goto(e, "r_copy") /\ block' = [block EXCEPT ![e] = Head(queue[p])]
        BY <2>7, <2>a, SMT DEF request_message, queueVars, flagVars, callVars
      <3>2. block'[e] = Head(queue[p]) /\ block'[p] = block[p]
        BY <3>1, <2>a, Zenon DEF ReaderTypes
      <3>3. pc'[e] = "r_copy" /\ pc'[p] = pc[p]  BY <3>1, <2>d
      <3>4. ReadOK(e)'
        BY <2>a, <2>b, <3>1, <3>2, <3>3 DEF ReadOK, Reads, Receiving
      <3>5. ~Sending(e)'  BY <3>3 DEF Sending, Held
      <3>6. Open(e)  BY <3>1 DEF Open
      <3> QED  BY <2>0, <3>1, <3>2, <3>4, <3>5, <3>6
    <2>8. CASE request_empty(e)
      <3>1. pc[e] = "g_get" /\ queue[p] = <<>>
        BY <2>8, <2>a, SMT DEF request_empty, queueVars
      <3> QED  BY <2>a, <2>b, <3>1 DEF ReadOK, Reads
    <2>9. CASE copy_out(e)
      <3>1. pc[e] = "r_copy" /\ queue[p] # <<>> /\ block[e] = Head(queue[p]) /\ pc[p] # "c_fill"
        BY <2>9, <2>a, <2>b DEF copy_out, queueVars, ReadOK, Reads
      <3>2. /\ Head(queue[p]) = queue[p][1] /\ Head(queue[p]) \in Message
            /\ 1 \in 1 .. Len(queue[p])
        BY <2>c, <3>1, HeadAndTail
      <3>3. block[e].off # -1
        <4>1. block[e].off \in Blocks  BY <3>1, <3>2 DEF Message
        <4> QED  BY <4>1 DEF Blocks
      <3>4. /\ UNCHANGED <<queue, con, sent, block>> /\ Goto(e, "f_guard")
            /\ got' = [got EXCEPT ![e] = mem[p][block[e].off]]
        BY <2>9, <2>a, <3>3, SMT DEF copy_out, queueVars, flagVars, callVars
      <3>5. mem[p][queue[p][1].off] = queue[p][1].id
        <4>1. Live(p) = queue[p]  BY <3>1, <2>a DEF Live, queueVars
        <4>2. Intact(mem[p], Live(p))  BY <1>b DEF PoolOK, RingOK
        <4> QED  BY <3>2, <4>1, <4>2 DEF Intact
      <3>6. got'[e] = block[e].id /\ got'[p] = got[p]
        BY <3>1, <3>2, <3>4, <3>5, <2>a DEF ReaderTypes
      <3>7. pc'[e] = "f_guard" /\ pc'[p] = pc[p]  BY <3>4, <2>d
      <3>8. ReadOK(e)'
        BY <2>a, <3>1, <3>4, <3>6, <3>7 DEF ReadOK, Reads, Receiving
      <3>9. ~Sending(e)'  BY <3>7 DEF Sending, Held
      <3>10. Open(e)  BY <3>1 DEF Open
      <3> QED  BY <2>0, <3>1, <3>4, <3>6, <3>8, <3>9, <3>10
    <2>10. ASSUME ~Send(e), ~add_queue_link(e), ~add_queue_fill(e), ~add_queue_append(e),
                  ~delete_head_queue_pop(e), ~flag_store(e), ~test_message(e),
                  ~request_message(e), ~request_empty(e), ~copy_out(e)
           PROVE  FillOK(e)' /\ ReadOK(e)' /\ FillOK(p)' /\ ReadOK(p)'
      <3>1. /\ UNCHANGED <<queue, sent, con, got>>
            /\ pc'[p] = pc[p] /\ block'[p] = block[p]
            /\ block'[e] = block[e] \/ pc'[e] = "r_test"
            /\ pc'[e] = "c_fill" <=> pc[e] = "c_fill"
            /\ Sending(e)' => Sending(e)
            /\ pc'[e] \in Reads =>
                  pc[e] = pc'[e] \/ {pc[e], pc'[e]} \subseteq Reads \ {"g_get", "r_copy"}
            /\ Receiving(e)' => Receiving(e)
            /\ Open(e)' => Open(e)
        BY <1>2, <1>a, <2>10, <2>a, ReadCalm
      <3>2. Open(p)' = Open(p) /\ Sending(p)' = Sending(p) /\ Receiving(p)' = Receiving(p)
        BY <3>1 DEF Open, Sending, Held, Receiving
      <3>3. FillOK(e)' /\ FillOK(p)'
        BY <2>a, <2>b, <3>1, <3>2 DEF FillOK, Numbered
      <3>4. ReadOK(p)'
        BY <2>a, <2>b, <3>1, <3>2 DEF ReadOK
      <3>5. pc'[e] = "r_test" => ReadOK(e)'
        BY DEF ReadOK, Reads, Receiving
      <3>6. block'[e] = block[e] => ReadOK(e)'
        BY <2>a, <2>b, <3>1 DEF ReadOK, Reads
      <3> QED  BY <3>1, <3>3, <3>4, <3>5, <3>6
    <2> QED  BY <2>1, <2>2, <2>3, <2>4, <2>5, <2>6, <2>7, <2>8, <2>9, <2>10, <2>11
  <1>3. CASE Next
    <2>1. PICK e \in Ends : Call(e) \/ Step(e)  BY <1>3 DEF Next
    <2>2. \A f \in Ends : f = e \/ f = Peer(e)  BY DEF Ends, Peer
    <2> QED  BY <1>2, <2>1, <2>2 DEF ReadInv
  <1> QED  BY <1>1, <1>3

-----------------------------------------------------------------------------
(* One request at a time: the account of a pool's blocks *)

\* Every busy block is counted once per user, but for one just taken that is not
\* counted yet and one just given back that is still counted.
AccountOK(e) ==
    cur_byte_write[e] = Users(e) * (Len(busy_list[e]) - OneIf(pc[e] = "a_account")
                                    + OneIf(pc[Peer(e)] = "f_account"))
AccountInv == \A e \in Ends : AccountOK(e)

\* Initially no block is busy and none counted.
LEMMA AccountInit == Init => AccountInv
  <1> SUFFICES ASSUME Init, NEW e \in Ends PROVE AccountOK(e)  BY DEF AccountInv
  <1>1. /\ busy_list[e] = <<>> /\ cur_byte_write[e] = 0
        /\ pc[e] = "ready" /\ pc[Peer(e)] = "ready"
    BY PeerFacts DEF Init
  <1>2. Len(busy_list[e]) = 0  BY <1>1
  <1> QED  BY <1>1, <1>2 DEF AccountOK, OneIf, Users

\* Steps that neither take, give back nor count a block.
LEMMA AccountCalm ==
    ASSUME ControlTypes, ApartInv, NEW e \in Ends, Call(e) \/ Step(e),
           ~aplly_memory(e), ~account_INCRASE(e), ~release_memory(e), ~account_REDUCE(e)
    PROVE  /\ UNCHANGED <<busy_list, cur_byte_write>>
           /\ \A f \in Ends : f # e => pc'[f] = pc[f]
           /\ pc'[e] = "a_account" <=> pc[e] = "a_account"
           /\ pc'[e] = "f_account" <=> pc[e] = "f_account"
  BY NoTear, SMT DEF ControlTypes, Call, Step, Goto, Return, poolVars, queueVars, Send, Recv,
     Close, wait_for_sources, requestA, copy_in, committ, add_queue_admit,
     add_queue_lock, add_queue_link, add_queue_fill, add_queue_append,
     add_queue_unlock, add_queue_resource, count_load, count_store, flag_load,
     flag_store, test_message, test_closed, request_message, request_empty,
     request_closed, copy_out, finish, delete_head_queue_pop, delete_head_queue_lock,
     delete_head_queue_next, delete_head_queue_unlock, count_more, count_one,
     decrement_load, decrement_store, finish_return, RecvReturn, kill_self_return

\* The rings are as long together as the pool has blocks.
LEMMA BusyBound ==
    ASSUME ApartInv, PoolInv, NEW e \in Ends
    PROVE  /\ Len(busy_list[e]) \in 0 .. NB
           /\ Held(e) => Len(busy_list[e]) >= 1
  <1>1. RingOK(e) /\ busy_list[e] \in Seq(Blocks) /\ idle_list[e] \in Seq(Blocks)
    BY LiveTyped DEF PoolInv, PoolOK, ApartInv, ApartOK
  <1>2. Len(busy_list[e]) \in Nat /\ Len(idle_list[e]) \in Nat
    BY <1>1, EmptyIsZero
  <1>3. Len(idle_list[e]) + Len(busy_list[e]) = NB
    BY <1>1 DEF RingOK, Partition
  <1>4. ASSUME Held(e) PROVE Len(busy_list[e]) >= 1
    <2>1. InRing(busy_list[e], st[e])  BY <1>1, <1>4, Zenon DEF RingOK, Behind
    <2>2. PICK x \in 1 .. Len(busy_list[e]) : TRUE  BY <2>1, Zenon DEF InRing
    <2> QED  BY <1>2, <2>2
  <1>5. NB \in Nat  BY ChannelAssumption
  <1>6. \A i, b, n \in Nat : i + b = n => b \in 0 .. n  OBVIOUS
  <1>7. Len(busy_list[e]) \in 0 .. NB  BY <1>2, <1>3, <1>5, <1>6
  <1> QED  BY <1>4, <1>7

\* An allocation that finds a block moves one into the busy ring.
LEMMA Taken ==
    ASSUME ApartInv, PoolInv, NEW e \in Ends, aplly_memory(e)
    PROVE  /\ pc[e] = "a_take" /\ UNCHANGED <<cur_byte_write, queue, dropped, sent, con>>
           /\ \/ Goto(e, "ready") /\ UNCHANGED busy_list
              \/ /\ Goto(e, "a_account")
                 /\ Len(busy_list'[e]) = Len(busy_list[e]) + 1
                 /\ \A f \in Ends : f # e => busy_list'[f] = busy_list[f]
  <1>1. /\ pc[e] = "a_take" /\ UNCHANGED <<cur_byte_write, queue, dropped, sent, con>>
        /\ \/ Goto(e, "ready") /\ UNCHANGED busy_list
           \/ /\ Goto(e, "a_account") /\ idle_block[e] # 0
              /\ busy_list' = [busy_list EXCEPT ![e] = Append(@, Head(idle_list[e]))]
    BY SMT DEF aplly_memory, queueVars, move_to_busy_list, Return, flagVars
  <1>2. RingOK(e) /\ busy_list[e] \in Seq(Blocks) /\ idle_list[e] \in Seq(Blocks)
        /\ busy_list \in [Ends -> Seq(Blocks)]
    BY LiveTyped DEF PoolInv, PoolTypes, PoolOK, ApartInv, ApartOK
  <1>3. ASSUME idle_block[e] # 0
        PROVE  Len(Append(busy_list[e], Head(idle_list[e]))) = Len(busy_list[e]) + 1
    <2>1. idle_list[e] # <<>>
      <3>1. Len(idle_list[e]) # 0  BY <1>2, <1>3 DEF RingOK
      <3> QED  BY <1>2, <3>1
    <2>2. Head(idle_list[e]) \in Blocks  BY <1>2, <2>1, HeadAndTail
    <2> QED  BY <1>2, <2>2, Appended
  <1> QED  BY <1>1, <1>2, <1>3

\* A release gives back one block: the message at the head of the queue is a
\* filled one whose block is busy.
LEMMA GivenBack ==
    ASSUME ApartInv, PoolInv, ReadInv, NEW e \in Ends, release_memory(e)
    PROVE  LET p == Peer(e) IN
           /\ pc[e] = "f_release" /\ Goto(e, "f_account")
           /\ UNCHANGED <<cur_byte_write, queue, dropped, sent, con>>
           /\ Len(busy_list'[p]) = Len(busy_list[p]) - 1
           /\ \A f \in Ends : f # p => busy_list'[f] = busy_list[f]
  <1>0. PICK p \in Ends : p = Peer(e) /\ p # e /\ Peer(p) = e  BY PeerFacts
  <1>1. pc[e] = "f_release" /\ Goto(e, "f_account")
        /\ UNCHANGED <<cur_byte_write, queue, dropped, sent, con>>
    BY SMT DEF release_memory, queueVars, callVars, flagVars
  <1>2. ReadOK(e) /\ FillOK(p) /\ RingOK(p)
    BY <1>0 DEF ReadInv, PoolInv, PoolOK, ApartInv, ApartOK
  <1>3. /\ queue[p] # <<>> /\ pc[p] # "c_fill" /\ block[e] = Head(queue[p])
    BY <1>0, <1>1, <1>2 DEF ReadOK, Reads
  <1>4. /\ Head(queue[p]) = queue[p][1] /\ 1 \in 1 .. Len(queue[p])
        /\ busy_list[p] \in Seq(Blocks)
    <2>1. queue[p] \in Seq(Message) /\ busy_list[p] \in Seq(Blocks)  BY LiveTyped
    <2> QED  BY <1>3, <2>1, HeadAndTail
  <1>5. Head(queue[p]) # Zeroed
    <2>1. Head(queue[p]).id # 0  BY <1>2, <1>3, <1>4 DEF FillOK, Numbered
    <2> QED  BY <2>1 DEF Zeroed
  <1>6. Live(p) = queue[p]  BY <1>0, <1>1, <1>3 DEF Live, queueVars
  <1>7. InRing(busy_list[p], block[e].off)
    BY <1>2, <1>3, <1>4, <1>6 DEF RingOK, InOrder
  <1>8. busy_list[p] # <<>>
    BY <1>4, <1>7 DEF InRing
  <1>9. busy_list' = [busy_list EXCEPT ![p] = Tail(@)]
    <2>1. move_to_idle_list(p)
      BY <1>0, <1>5, <1>7, Zenon DEF release_memory
    <2> QED  BY <2>1 DEF move_to_idle_list
  <1>10. Len(Tail(busy_list[p])) = Len(busy_list[p]) - 1
    BY <1>4, <1>8, HeadAndTail
  <1>11. busy_list \in [Ends -> Seq(Blocks)]  BY DEF PoolInv, PoolTypes
  <1>12. Len(busy_list'[p]) = Len(busy_list[p]) - 1
         /\ \A f \in Ends : f # p => busy_list'[f] = busy_list[f]
    BY <1>9, <1>10, <1>11
  <1> QED  BY <1>0, <1>1, <1>12

\* Every step keeps the counts what they are.
LEMMA AccountNext ==
    ASSUME CountInv, PoolInv, ReadInv, ReaderTypes, AccountInv, [Next]_vars
    PROVE  AccountInv'
  <1>a. ControlTypes /\ ApartInv /\ Alone
    BY DEF CountInv, ApartInv, PoolInv
  <1>1. CASE UNCHANGED vars
    BY <1>1 DEF vars, poolVars, queueVars, AccountInv, AccountOK
  <1>2. ASSUME NEW e \in Ends, Call(e) \/ Step(e)
        PROVE  AccountOK(e)' /\ AccountOK(Peer(e))'
    <2>a. PICK p \in Ends : p = Peer(e) /\ p # e /\ Peer(p) = e
      BY PeerFacts
    <2>b. /\ AccountOK(e) /\ AccountOK(p)
          /\ Len(busy_list[e]) \in 0 .. NB /\ Len(busy_list[p]) \in 0 .. NB
          /\ cur_byte_write \in [Ends -> Int]
          /\ Held(e) => Len(busy_list[e]) >= 1
      BY <1>a, BusyBound DEF AccountInv, ReaderTypes
    <2>d. \A step : Goto(e, step) => pc'[e] = step /\ pc'[p] = pc[p]
      BY <1>a, <2>a DEF Goto, ControlTypes
    <2>e. Users(e) \in {1, 2} /\ Users(p) \in {1, 2} /\ NB \in Nat
      BY ChannelAssumption DEF Users
    <2>f. \A n \in Int : n \in 0 .. 2 * NB => U32(n) = n
      BY <2>e, PoolFits DEF U32
    <2> SUFFICES AccountOK(e)' /\ AccountOK(p)'
      BY <2>a
    <2>1. CASE aplly_memory(e)
      <3>1. /\ pc[e] = "a_take" /\ UNCHANGED cur_byte_write
            /\ \/ Goto(e, "ready") /\ UNCHANGED busy_list
               \/ /\ Goto(e, "a_account")
                  /\ Len(busy_list'[e]) = Len(busy_list[e]) + 1
                  /\ busy_list'[p] = busy_list[p]
        BY <1>a, <2>1, <2>a, Taken
      <3>2. CASE Goto(e, "ready") /\ UNCHANGED busy_list
        <4>1. pc'[e] = "ready" /\ pc'[p] = pc[p]  BY <2>d, <3>2
        <4> QED  BY <2>a, <2>b, <3>1, <3>2, <4>1 DEF AccountOK
      <3>3. CASE /\ Goto(e, "a_account")
                 /\ Len(busy_list'[e]) = Len(busy_list[e]) + 1
                 /\ busy_list'[p] = busy_list[p]
        <4>1. pc'[e] = "a_account" /\ pc'[p] = pc[p]  BY <2>d, <3>3
        <4>2. Len(busy_list'[e]) - OneIf(pc'[e] = "a_account")
                  = Len(busy_list[e]) - OneIf(pc[e] = "a_account")
          BY <2>b, <3>1, <3>3, <4>1 DEF OneIf
        <4>3. AccountOK(e)'  BY <2>a, <2>b, <3>1, <4>1, <4>2 DEF AccountOK
        <4>4. AccountOK(p)'  BY <2>a, <2>b, <3>1, <3>3, <4>1 DEF AccountOK
        <4> QED  BY <4>3, <4>4
      <3> QED  BY <3>1, <3>2, <3>3
    <2>2. CASE account_INCRASE(e)
      <3>1. /\ pc[e] = "a_account" /\ Goto(e, "s_copy") /\ UNCHANGED busy_list
            /\ cur_byte_write' = [cur_byte_write EXCEPT ![e] = U32(@ + Users(e))]
        <4>1. PICK n \in Counted(e) :
                 cur_byte_write' = [cur_byte_write EXCEPT ![e] = U32(@ + n)]
          BY <2>2, Zenon DEF account_INCRASE
        <4>2. n = Users(e)  BY <1>a, <4>1, NoTear
        <4> QED  BY <2>2, <4>1, <4>2, Zenon DEF account_INCRASE
      <3>2. pc'[e] = "s_copy" /\ pc'[p] = pc[p]  BY <2>d, <3>1
      <3>3. pc[p] # "f_account"
        BY <1>a, <2>a, <3>1 DEF Alone, InRequest
      <3>4. Len(busy_list[e]) >= 1  BY <2>b, <3>1 DEF Held
      <3>5. cur_byte_write[e] = Users(e) * (Len(busy_list[e]) - 1)
        BY <2>a, <2>b, <2>e, <3>1, <3>3 DEF AccountOK, OneIf
      <3>6. cur_byte_write[e] + Users(e) = Users(e) * Len(busy_list[e])
            /\ Users(e) * Len(busy_list[e]) \in 0 .. 2 * NB
        BY <2>b, <2>e, <3>5
      <3>7. cur_byte_write'[e] = Users(e) * Len(busy_list[e])
            /\ cur_byte_write'[p] = cur_byte_write[p]
        BY <2>a, <2>b, <2>f, <3>1, <3>6
      <3>8. AccountOK(e)'
        BY <2>a, <2>b, <2>e, <3>1, <3>2, <3>3, <3>7 DEF AccountOK, OneIf
      <3>9. AccountOK(p)'
        BY <2>a, <2>b, <3>1, <3>2, <3>7 DEF AccountOK
      <3> QED  BY <3>8, <3>9
    <2>3. CASE release_memory(e)
      <3>1. /\ pc[e] = "f_release" /\ Goto(e, "f_account") /\ UNCHANGED cur_byte_write
            /\ Len(busy_list'[p]) = Len(busy_list[p]) - 1
            /\ busy_list'[e] = busy_list[e]
        BY <1>a, <2>3, <2>a, GivenBack
      <3>2. pc'[e] = "f_account" /\ pc'[p] = pc[p]  BY <2>d, <3>1
      <3>3. Len(busy_list'[p]) - OneIf(pc'[p] = "a_account") + OneIf(pc'[e] = "f_account")
              = Len(busy_list[p]) - OneIf(pc[p] = "a_account") + OneIf(pc[e] = "f_account")
        BY <2>b, <3>1, <3>2 DEF OneIf
      <3>4. AccountOK(p)'  BY <2>a, <2>b, <3>1, <3>2, <3>3 DEF AccountOK
      <3>5. AccountOK(e)'  BY <2>a, <2>b, <3>1, <3>2 DEF AccountOK
      <3> QED  BY <3>4, <3>5
    <2>4. CASE account_REDUCE(e)
      <3>0. pc[e] = "f_account" /\ Goto(e, "f_lock") /\ UNCHANGED busy_list
        BY <2>4, SMT DEF account_REDUCE
      <3>1. Head(queue[p]) # Zeroed
        <4>1. queue[p] # <<>> /\ pc[p] # "c_fill"
          BY <2>a, <3>0 DEF ReadInv, ReadOK, Reads
        <4>2. Head(queue[p]) = queue[p][1] /\ 1 \in 1 .. Len(queue[p])
          <5>1. queue[p] \in Seq(Message)  BY LiveTyped
          <5> QED  BY <4>1, <5>1, HeadAndTail
        <4>3. Head(queue[p]).id # 0  BY <4>1, <4>2 DEF ReadInv, FillOK, Numbered
        <4> QED  BY <4>3 DEF Zeroed
      <3>2. cur_byte_write' = [cur_byte_write EXCEPT ![p] = U32(@ - Users(p))]
        <4>1. PICK n \in Counted(p) :
                 cur_byte_write' = [cur_byte_write EXCEPT ![p] = U32(@ - n)]
          BY <2>4, <2>a, <3>1, Zenon DEF account_REDUCE
        <4>2. n = Users(p)  BY <1>a, <4>1, <2>a, NoTear
        <4> QED  BY <4>1, <4>2, Zenon
      <3>3. pc'[e] = "f_lock" /\ pc'[p] = pc[p]  BY <2>d, <3>0
      <3>4. pc[p] # "a_account"
        BY <1>a, <2>a, <3>0 DEF Alone, InRequest
      <3>5. cur_byte_write[p] = Users(p) * (Len(busy_list[p]) + 1)
        BY <2>a, <2>b, <2>e, <3>0, <3>4 DEF AccountOK, OneIf
      <3>6. cur_byte_write[p] - Users(p) = Users(p) * Len(busy_list[p])
            /\ Users(p) * Len(busy_list[p]) \in 0 .. 2 * NB
        BY <2>b, <2>e, <3>5
      <3>7. cur_byte_write'[p] = Users(p) * Len(busy_list[p])
            /\ cur_byte_write'[e] = cur_byte_write[e]
        BY <2>a, <2>b, <2>f, <3>2, <3>6
      <3>8. AccountOK(p)'
        BY <2>a, <2>b, <2>e, <3>0, <3>3, <3>4, <3>7 DEF AccountOK, OneIf
      <3>9. AccountOK(e)'
        BY <2>a, <2>b, <3>0, <3>3, <3>7 DEF AccountOK
      <3> QED  BY <3>8, <3>9
    <2>5. ASSUME ~aplly_memory(e), ~account_INCRASE(e), ~release_memory(e), ~account_REDUCE(e)
          PROVE  AccountOK(e)' /\ AccountOK(p)'
      <3>1. /\ UNCHANGED <<busy_list, cur_byte_write>>
            /\ pc'[p] = pc[p]
            /\ pc'[e] = "a_account" <=> pc[e] = "a_account"
            /\ pc'[e] = "f_account" <=> pc[e] = "f_account"
        BY <1>2, <1>a, <2>5, <2>a, AccountCalm
      <3>2. AccountOK(e)'  BY <2>a, <2>b, <3>1 DEF AccountOK, OneIf
      <3>3. AccountOK(p)'  BY <2>a, <2>b, <3>1 DEF AccountOK, OneIf
      <3> QED  BY <3>2, <3>3
    <2> QED  BY <2>1, <2>2, <2>3, <2>4, <2>5
  <1>3. CASE Next
    <2>1. PICK e \in Ends : Call(e) \/ Step(e)  BY <1>3 DEF Next
    <2>2. \A f \in Ends : f = e \/ f = Peer(e)  BY DEF Ends, Peer
    <2> QED  BY <1>2, <2>1, <2>2 DEF AccountInv
  <1> QED  BY <1>1, <1>3

-----------------------------------------------------------------------------
(* One request at a time: where the busy blocks are *)

\* A step at which the program or the handler of an end holds a block that is
\* not queued yet, and one at which a handler has given a block back and not yet
\* popped the message of it.
Owned(step) == OneIf(step \in {"a_account", "s_copy", "c_guard", "c_admit", "c_lock",
                               "c_link", "c_append"})
Returned(step) == OneIf(step \in {"f_account", "f_lock", "f_pop", "f_head"})

\* No refused message is the one being sent, and while both ends are open every
\* busy block is queued, in a sender's hand or lost with a refused message.
BusyOK(e) ==
    /\ dropped[e] \subseteq 1 .. sent[e]
    /\ Sending(e) => sent[e] \notin dropped[e]
    /\ Open(e) /\ Open(Peer(e)) =>
          Len(busy_list[e]) + Returned(pc[Peer(e)])
              = Len(queue[e]) + Cardinality(dropped[e]) + Owned(pc[e])
BusyInv == /\ dropped \in [Ends -> SUBSET Nat]
           /\ \A e \in Ends : BusyOK(e)

\* Initially no block is busy, queued or lost.
LEMMA BusyInit == Init => BusyInv
  <1> SUFFICES ASSUME Init PROVE BusyInv  OBVIOUS
  <1>1. dropped \in [Ends -> SUBSET Nat]  BY DEF Init
  <1>2. ASSUME NEW e \in Ends PROVE BusyOK(e)
    <2>1. /\ busy_list[e] = <<>> /\ queue[e] = <<>> /\ dropped[e] = {} /\ sent[e] = 0
          /\ pc[e] = "ready" /\ pc[Peer(e)] = "ready"
      BY PeerFacts DEF Init
    <2>2. Len(busy_list[e]) = 0 /\ Len(queue[e]) = 0  BY <2>1
    <2>3. Cardinality(dropped[e]) = 0  BY <2>1, FS_EmptySet
    <2> QED  BY <2>1, <2>2, <2>3 DEF BusyOK, OneIf, Owned, Returned, Sending, Held
  <1> QED  BY <1>1, <1>2 DEF BusyInv

\* Steps that neither take, give back, queue, pop nor drop a block.
LEMMA BusyCalm ==
    ASSUME ControlTypes, ApartInv, NEW e \in Ends, Call(e) \/ Step(e),
           ~Send(e), ~aplly_memory(e), ~committ(e), ~add_queue_admit(e),
           ~add_queue_link(e), ~add_queue_fill(e), ~add_queue_append(e),
           ~release_memory(e), ~delete_head_queue_pop(e)
    PROVE  /\ UNCHANGED <<busy_list, queue, dropped, sent>>
           /\ \A f \in Ends : f # e => pc'[f] = pc[f]
           /\ Returned(pc'[e]) = Returned(pc[e]) /\ Owned(pc'[e]) = Owned(pc[e])
           /\ Sending(e)' => Sending(e)
           /\ Open(e)' => Open(e)
  <1>1. UNCHANGED <<busy_list, queue, dropped, sent>>
    BY NoTear, SMT DEF Call, Step, poolVars, queueVars, callVars, Recv, Close,
       wait_for_sources, requestA, account_INCRASE, copy_in, add_queue_lock,
       add_queue_unlock, add_queue_resource, count_load, count_store, flag_load,
       flag_store, test_message, test_closed, request_message, request_empty,
       request_closed, copy_out, finish, account_REDUCE, delete_head_queue_lock,
       delete_head_queue_next, delete_head_queue_unlock, count_more, count_one,
       decrement_load, decrement_store, finish_return, kill_self_return
  <1>3. add_queue_unlock(e) =>
           \/ pc[e] = "c_filled" /\ Goto(e, "c_resource")
           \/ pc[e] = "c_appended" /\ Goto(e, "c_flags")
    BY Zenon DEF add_queue_unlock
  <1> DEFINE Out == {"f_account", "f_lock", "f_pop", "f_head"}
             In == {"a_account", "s_copy", "c_guard", "c_admit", "c_lock", "c_link",
                    "c_append"}
  <1>2. /\ \A f \in Ends : f # e => pc'[f] = pc[f]
        /\ pc'[e] \in Out <=> pc[e] \in Out
        /\ pc'[e] \in In <=> pc[e] \in In
        /\ Sending(e)' => Sending(e)
        /\ Open(e)' => Open(e)
    BY NoTear, <1>3, SMT DEF ControlTypes, Sending, Held, Open, Call, Step, Goto,
       Return, Recv, Close, wait_for_sources, requestA, account_INCRASE, copy_in,
       add_queue_lock, add_queue_resource, count_load, count_store, flag_load,
       flag_store, test_message, test_closed, request_message, request_empty,
       request_closed, copy_out, finish, account_REDUCE, delete_head_queue_lock,
       delete_head_queue_next, delete_head_queue_unlock, count_more, count_one,
       decrement_load, decrement_store, finish_return, RecvReturn, kill_self_return
  <1> QED  BY <1>1, <1>2 DEF Owned, Returned, OneIf

\* While both ends are open, a committ passes its guard.
LEMMA OpenWrites ==
    ASSUME TellInv, FlagInv, NEW e \in Ends, Open(e), Open(Peer(e))
    PROVE  Linked /\ MayWrite(e)
  <1>1. OpenOK(e) /\ OpenOK(Peer(e)) /\ reclaimed = {} /\ Peer(Peer(e)) = e
    BY PeerFacts DEF TellInv, FlagInv
  <1> QED  BY <1>1 DEF OpenOK, Linked, MayWrite

\* Every step keeps the account of the busy blocks.
LEMMA BusyNext ==
    ASSUME CountInv, PoolInv, FlagInv, TellInv, ReadInv, BusyInv, [Next]_vars
    PROVE  BusyInv'
  <1>a. ControlTypes /\ ApartInv /\ Alone /\ PoolTypes
    BY DEF CountInv, ApartInv, PoolInv
  <1>1. CASE UNCHANGED vars
    <2>1. UNCHANGED <<dropped, sent, busy_list, queue, pc>>
      BY <1>1 DEF vars, poolVars, queueVars, callVars
    <2> QED  BY <2>1 DEF BusyInv, BusyOK, Sending, Held, Open
  <1>2. ASSUME NEW e \in Ends, Call(e) \/ Step(e)
        PROVE  /\ dropped' \in [Ends -> SUBSET Nat]
               /\ BusyOK(e)' /\ BusyOK(Peer(e))'
    <2>a. PICK p \in Ends : p = Peer(e) /\ p # e /\ Peer(p) = e
      BY PeerFacts
    <2>b. /\ dropped[e] \subseteq 1 .. sent[e] /\ dropped[p] \subseteq 1 .. sent[p]
          /\ Sending(e) => sent[e] \notin dropped[e]
          /\ Sending(p) => sent[p] \notin dropped[p]
          /\ Open(e) /\ Open(p) =>
                /\ Len(busy_list[e]) + Returned(pc[p])
                     = Len(queue[e]) + Cardinality(dropped[e]) + Owned(pc[e])
                /\ Len(busy_list[p]) + Returned(pc[e])
                     = Len(queue[p]) + Cardinality(dropped[p]) + Owned(pc[p])
          /\ dropped \in [Ends -> SUBSET Nat]
          /\ \A step : Returned(step) \in {0, 1} /\ Owned(step) \in {0, 1}
      BY <2>a DEF BusyInv, BusyOK, Owned, Returned, OneIf
    <2>c. /\ Len(busy_list[e]) \in Nat /\ Len(busy_list[p]) \in Nat
          /\ Len(queue[e]) \in Nat /\ Len(queue[p]) \in Nat
          /\ sent[e] \in Nat /\ sent[p] \in Nat /\ sent \in [Ends -> Nat]
      BY <1>a, BusyBound, QueueLengths DEF PoolTypes
    <2>f. ASSUME NEW n \in Nat, NEW s \in SUBSET (1 .. n)
          PROVE  Cardinality(s) \in Nat /\ IsFiniteSet(s)
      <3>1. IsFiniteSet(1 .. n)  BY FS_Interval
      <3>2. IsFiniteSet(s)  BY <3>1, FS_Subset
      <3> QED  BY <3>2, FS_CardinalityType
    <2>g. Cardinality(dropped[e]) \in Nat /\ Cardinality(dropped[p]) \in Nat
          /\ IsFiniteSet(dropped[e])
          /\ Owned(pc[e]) \in {0, 1} /\ Owned(pc[p]) \in {0, 1}
          /\ Returned(pc[e]) \in {0, 1} /\ Returned(pc[p]) \in {0, 1}
      BY <2>b, <2>c, <2>f
    <2>d. \A step : Goto(e, step) => pc'[e] = step /\ pc'[p] = pc[p]
      BY <1>a, <2>a DEF Goto, ControlTypes
    <2> DEFINE Kept ==
          /\ dropped'[e] \subseteq 1 .. sent'[e] /\ dropped'[p] \subseteq 1 .. sent'[p]
          /\ Sending(e)' => sent'[e] \notin dropped'[e]
          /\ Sending(p)' => sent'[p] \notin dropped'[p]
          /\ Open(e)' /\ Open(p)' =>
                /\ Len(busy_list'[e]) + Returned(pc'[p])
                     = Len(queue'[e]) + Cardinality(dropped'[e]) + Owned(pc'[e])
                /\ Len(busy_list'[p]) + Returned(pc'[e])
                     = Len(queue'[p]) + Cardinality(dropped'[p]) + Owned(pc'[p])
          /\ dropped' \in [Ends -> SUBSET Nat]
    <2> SUFFICES Kept
      BY <2>a DEF BusyOK
    <2>h. ASSUME NEW step, Goto(e, step)
          PROVE  /\ pc'[e] = step /\ pc'[p] = pc[p]
                 /\ Sending(p)' = Sending(p) /\ Open(p)' = Open(p)
      <3>1. pc'[e] = step /\ pc'[p] = pc[p]  BY <2>d, <2>h
      <3> QED  BY <3>1 DEF Sending, Held, Open
    <2> HIDE DEF Kept
    <2>1. CASE Send(e)
      <3>1. /\ UNCHANGED <<busy_list, queue, dropped>> /\ pc[e] = "ready" /\ Goto(e, "s_wait")
            /\ sent' = [sent EXCEPT ![e] = @ + 1]
        BY <2>1, SMT DEF Send, poolVars, queueVars
      <3>2. sent'[e] = sent[e] + 1 /\ sent'[p] = sent[p]
        BY <3>1, <2>a, <2>c
      <3>3. /\ pc'[e] = "s_wait" /\ pc'[p] = pc[p]
            /\ Sending(p)' = Sending(p) /\ Open(p)' = Open(p)
        BY <2>h, <3>1
      <3>4. Open(e) /\ Owned(pc[e]) = 0 /\ Owned(pc'[e]) = 0 /\ Returned(pc[e]) = 0 /\ Returned(pc'[e]) = 0
        BY <3>1, <3>3 DEF Open, Held, Owned, Returned, OneIf
      <3>5. /\ dropped'[e] \subseteq 1 .. sent'[e] /\ sent'[e] \notin dropped'[e]
        BY <2>b, <2>c, <3>1, <3>2
      <3> QED  BY <2>b, <3>1, <3>2, <3>3, <3>4, <3>5 DEF Kept
    <2>2. CASE aplly_memory(e)
      <3>1. /\ pc[e] = "a_take" /\ UNCHANGED <<queue, dropped, sent>>
            /\ \/ Goto(e, "ready") /\ UNCHANGED busy_list
               \/ /\ Goto(e, "a_account")
                  /\ Len(busy_list'[e]) = Len(busy_list[e]) + 1
                  /\ busy_list'[p] = busy_list[p]
        BY <1>a, <2>2, <2>a, Taken
      <3>2. Open(e) /\ Owned(pc[e]) = 0 /\ Returned(pc[e]) = 0 /\ Sending(e)
        BY <3>1 DEF Open, Held, Sending, Owned, Returned, OneIf
      <3>3. CASE Goto(e, "ready") /\ UNCHANGED busy_list
        <4>1. /\ pc'[e] = "ready" /\ pc'[p] = pc[p]
              /\ Sending(p)' = Sending(p) /\ Open(p)' = Open(p)
          BY <2>h, <3>3
        <4>2. Owned(pc'[e]) = 0 /\ Returned(pc'[e]) = 0 /\ ~Sending(e)'  BY <4>1 DEF Held, Sending, Owned, Returned, OneIf
        <4> QED  BY <2>b, <3>1, <3>2, <3>3, <4>1, <4>2 DEF Kept
      <3>4. CASE /\ Goto(e, "a_account")
                 /\ Len(busy_list'[e]) = Len(busy_list[e]) + 1
                 /\ busy_list'[p] = busy_list[p]
        <4>1. /\ pc'[e] = "a_account" /\ pc'[p] = pc[p]
              /\ Sending(p)' = Sending(p) /\ Open(p)' = Open(p)
          BY <2>h, <3>4
        <4>2. Owned(pc'[e]) = 1 /\ Returned(pc'[e]) = 0  BY <4>1 DEF Held, Owned, Returned, OneIf
        <4> QED  BY <2>b, <2>c, <2>g, <3>1, <3>2, <3>4, <4>1, <4>2 DEF Kept
      <3> QED  BY <3>1, <3>3, <3>4
    <2>3. CASE committ(e)
      <3>1. /\ pc[e] = "c_guard" /\ UNCHANGED <<busy_list, queue, dropped, sent>>
            /\ \/ Goto(e, "c_admit")
               \/ Goto(e, "ready") /\ ~(Linked /\ MayWrite(e))
        BY <2>3, SMT DEF committ, Return, poolVars, queueVars
      <3>2. Open(e) /\ Owned(pc[e]) = 1 /\ Returned(pc[e]) = 0 /\ Sending(e)
        BY <3>1 DEF Open, Held, Sending, Owned, Returned, OneIf
      <3>3. CASE Goto(e, "c_admit")
        <4>1. /\ pc'[e] = "c_admit" /\ pc'[p] = pc[p]
              /\ Sending(p)' = Sending(p) /\ Open(p)' = Open(p)
          BY <2>h, <3>3
        <4>2. Owned(pc'[e]) = 1 /\ Returned(pc'[e]) = 0  BY <4>1 DEF Held, Owned, Returned, OneIf
        <4> QED  BY <2>b, <3>1, <3>2, <3>3, <4>1, <4>2 DEF Kept
      <3>4. CASE Goto(e, "ready") /\ ~(Linked /\ MayWrite(e))
        <4>1. /\ pc'[e] = "ready" /\ pc'[p] = pc[p]
              /\ Sending(p)' = Sending(p) /\ Open(p)' = Open(p)
          BY <2>h, <3>4
        <4>2. Owned(pc'[e]) = 0 /\ Returned(pc'[e]) = 0 /\ ~Sending(e)'  BY <4>1 DEF Held, Sending, Owned, Returned, OneIf
        <4>3. ~Open(p)  BY <2>a, <3>2, <3>4, OpenWrites
        <4> QED  BY <2>b, <3>1, <4>1, <4>2, <4>3 DEF Kept
      <3> QED  BY <3>1, <3>3, <3>4
    <2>4. CASE add_queue_admit(e)
      <3>1. /\ pc[e] = "c_admit" /\ UNCHANGED <<busy_list, queue, sent>>
            /\ \/ Goto(e, "c_lock") /\ UNCHANGED dropped
               \/ Goto(e, "ready") /\ dropped' = [dropped EXCEPT ![e] = @ \cup {sent[e]}]
        BY <2>4, SMT DEF add_queue_admit, Return, poolVars, queueVars
      <3>2. Open(e) /\ Owned(pc[e]) = 1 /\ Returned(pc[e]) = 0 /\ Sending(e)
        BY <3>1 DEF Open, Held, Sending, Owned, Returned, OneIf
      <3>3. CASE Goto(e, "c_lock") /\ UNCHANGED dropped
        <4>1. /\ pc'[e] = "c_lock" /\ pc'[p] = pc[p]
              /\ Sending(p)' = Sending(p) /\ Open(p)' = Open(p)
          BY <2>h, <3>3
        <4>2. Owned(pc'[e]) = 1 /\ Returned(pc'[e]) = 0  BY <4>1 DEF Held, Owned, Returned, OneIf
        <4> QED  BY <2>b, <3>1, <3>2, <3>3, <4>1, <4>2 DEF Kept
      <3>4. CASE Goto(e, "ready") /\ dropped' = [dropped EXCEPT ![e] = @ \cup {sent[e]}]
        <4>1. /\ pc'[e] = "ready" /\ pc'[p] = pc[p]
              /\ Sending(p)' = Sending(p) /\ Open(p)' = Open(p)
          BY <2>h, <3>4
        <4>2. Owned(pc'[e]) = 0 /\ Returned(pc'[e]) = 0 /\ ~Sending(e)'  BY <4>1 DEF Held, Sending, Owned, Returned, OneIf
        <4>3. /\ dropped'[e] = dropped[e] \cup {sent[e]} /\ dropped'[p] = dropped[p]
              /\ dropped' \in [Ends -> SUBSET Nat]
          BY <2>a, <2>b, <2>c, <3>4
        <4>4. Cardinality(dropped'[e]) = Cardinality(dropped[e]) + 1
          <5>1. sent[e] \notin dropped[e]  BY <2>b, <3>2
          <5>2. Cardinality(dropped[e] \cup {sent[e]})
                  = IF sent[e] \in dropped[e] THEN Cardinality(dropped[e])
                                             ELSE Cardinality(dropped[e]) + 1
            BY <2>g, FS_AddElement, Zenon
          <5> QED  BY <4>3, <5>1, <5>2
        <4>5. dropped'[e] \subseteq 1 .. sent[e]
          <5>1. sent[e] # 0  BY <3>2 DEF ReadInv, FillOK
          <5> QED  BY <2>b, <2>c, <4>3, <5>1
        <4>6. \A b, r, q, c \in Int : b + r = q + c + 1 => b + r = q + (c + 1) + 0
          OBVIOUS
        <4>7. Open(p) => Len(busy_list[e]) + Returned(pc[p]) = Len(queue[e]) + (Cardinality(dropped[e]) + 1) + 0
          BY <2>b, <2>c, <2>g, <3>2, <4>6
        <4> QED  BY <2>b, <2>c, <2>g, <3>1, <3>2, <4>1, <4>2, <4>3, <4>4, <4>5, <4>7 DEF Kept
      <3> QED  BY <3>1, <3>3, <3>4
    <2>5. CASE add_queue_link(e)
      <3>1. /\ pc[e] = "c_link" /\ UNCHANGED <<busy_list, dropped, sent>>
        BY <2>5, SMT DEF add_queue_link, poolVars, callVars
      <3>2. /\ \/ Goto(e, "c_fill") /\ Len(queue'[e]) = Len(queue[e]) + 1
               \/ Goto(e, "c_append") /\ queue'[e] = queue[e]
            /\ queue'[p] = queue[p]
        BY <1>a, <2>5, <2>a, QueueLengths
      <3>3. Open(e) /\ Owned(pc[e]) = 1 /\ Returned(pc[e]) = 0 /\ Sending(e)
        BY <3>1 DEF Open, Held, Sending, Owned, Returned, OneIf
      <3>4. CASE Goto(e, "c_fill") /\ Len(queue'[e]) = Len(queue[e]) + 1
        <4>1. /\ pc'[e] = "c_fill" /\ pc'[p] = pc[p]
              /\ Sending(p)' = Sending(p) /\ Open(p)' = Open(p)
          BY <2>h, <3>4
        <4>2. Owned(pc'[e]) = 0 /\ Returned(pc'[e]) = 0
          BY <4>1 DEF Held, Owned, Returned, OneIf
        <4> QED  BY <2>b, <2>c, <2>g, <3>1, <3>2, <3>3, <3>4, <4>1, <4>2 DEF Kept
      <3>5. CASE Goto(e, "c_append") /\ queue'[e] = queue[e]
        <4>1. /\ pc'[e] = "c_append" /\ pc'[p] = pc[p]
              /\ Sending(p)' = Sending(p) /\ Open(p)' = Open(p)
          BY <2>h, <3>5
        <4>2. Owned(pc'[e]) = 1 /\ Returned(pc'[e]) = 0
          BY <4>1 DEF Held, Owned, Returned, OneIf
        <4> QED  BY <2>b, <3>1, <3>2, <3>3, <3>5, <4>1, <4>2 DEF Kept
      <3> QED  BY <3>2, <3>4, <3>5
    <2>10. CASE add_queue_append(e)
      <3>1. /\ pc[e] = "c_append" /\ UNCHANGED <<busy_list, dropped, sent>>
            /\ Goto(e, "c_appended")
        BY <2>10, SMT DEF add_queue_append, poolVars, callVars
      <3>2. Len(queue'[e]) = Len(queue[e]) + 1 /\ queue'[p] = queue[p]
        BY <1>a, <2>10, <2>a, QueueLengths
      <3>3. Open(e) /\ Owned(pc[e]) = 1 /\ Returned(pc[e]) = 0
        BY <3>1 DEF Open, Owned, Returned, OneIf
      <3>4. /\ pc'[e] = "c_appended" /\ pc'[p] = pc[p]
            /\ Sending(p)' = Sending(p) /\ Open(p)' = Open(p)
        BY <2>h, <3>1
      <3>5. Owned(pc'[e]) = 0 /\ Returned(pc'[e]) = 0 /\ ~Sending(e)'
        BY <3>4 DEF Held, Sending, Owned, Returned, OneIf
      <3> QED  BY <2>b, <2>c, <2>g, <3>1, <3>2, <3>3, <3>4, <3>5 DEF Kept
    <2>6. CASE add_queue_fill(e)
      <3>1. /\ pc[e] = "c_fill" /\ UNCHANGED <<busy_list, dropped, sent>>
            /\ Goto(e, "c_filled")
        BY <1>a, <2>6, QueueActions DEF add_queue_fill, poolVars, callVars
      <3>2. Len(queue'[e]) = Len(queue[e]) /\ queue'[p] = queue[p]
        BY <1>a, <2>6, <2>a, QueueLengths
      <3>3. Open(e) /\ Owned(pc[e]) = 0 /\ Returned(pc[e]) = 0
        BY <3>1 DEF Open, Held, Owned, Returned, OneIf
      <3>4. /\ pc'[e] = "c_filled" /\ pc'[p] = pc[p]
            /\ Sending(p)' = Sending(p) /\ Open(p)' = Open(p)
        BY <2>h, <3>1
      <3>5. Owned(pc'[e]) = 0 /\ Returned(pc'[e]) = 0 /\ ~Sending(e)'
        BY <3>4 DEF Held, Sending, Owned, Returned, OneIf
      <3> QED  BY <2>b, <2>c, <2>g, <3>1, <3>2, <3>3, <3>4, <3>5 DEF Kept
    <2>7. CASE release_memory(e)
      <3>1. /\ pc[e] = "f_release" /\ Goto(e, "f_account")
            /\ UNCHANGED <<queue, dropped, sent>>
            /\ Len(busy_list'[p]) = Len(busy_list[p]) - 1
            /\ busy_list'[e] = busy_list[e]
        BY <1>a, <2>7, <2>a, GivenBack
      <3>2. Open(e) /\ Owned(pc[e]) = 0 /\ Returned(pc[e]) = 0
        BY <3>1 DEF Open, Held, Owned, Returned, OneIf
      <3>3. /\ pc'[e] = "f_account" /\ pc'[p] = pc[p]
            /\ Sending(p)' = Sending(p) /\ Open(p)' = Open(p)
        BY <2>h, <3>1
      <3>4. Owned(pc'[e]) = 0 /\ Returned(pc'[e]) = 1 /\ ~Sending(e)'  BY <3>3 DEF Held, Sending, Owned, Returned, OneIf
      <3> QED  BY <2>b, <2>c, <2>g, <3>1, <3>2, <3>3, <3>4 DEF Kept
    <2>8. CASE delete_head_queue_pop(e)
      <3>1. /\ pc[e] = "f_head" /\ UNCHANGED <<busy_list, dropped, sent>>
            /\ Goto(e, "f_unlock")
        BY <2>8, SMT DEF delete_head_queue_pop, poolVars, queueVars, callVars
      <3>2. Len(queue'[p]) = Len(queue[p]) - 1 /\ queue'[e] = queue[e]
        BY <1>a, <2>8, <2>a, QueueLengths
      <3>3. Open(e) /\ Owned(pc[e]) = 0 /\ Returned(pc[e]) = 1
        BY <3>1 DEF Open, Held, Owned, Returned, OneIf
      <3>4. /\ pc'[e] = "f_unlock" /\ pc'[p] = pc[p]
            /\ Sending(p)' = Sending(p) /\ Open(p)' = Open(p)
        BY <2>h, <3>1
      <3>5. Owned(pc'[e]) = 0 /\ Returned(pc'[e]) = 0 /\ ~Sending(e)'  BY <3>4 DEF Held, Sending, Owned, Returned, OneIf
      <3>6. \A b, q, c, o \in Int : b + 1 = q + c + o => b + 0 = (q - 1) + c + o
        OBVIOUS
      <3>7. Open(p) => Len(busy_list[p]) + 0 = (Len(queue[p]) - 1) + Cardinality(dropped[p]) + Owned(pc[p])
        <4> SUFFICES ASSUME Open(p)
                     PROVE  Len(busy_list[p]) + 0
                               = (Len(queue[p]) - 1) + Cardinality(dropped[p]) + Owned(pc[p])
          OBVIOUS
        <4>1. Len(busy_list[p]) + Returned(pc[e])
                 = Len(queue[p]) + Cardinality(dropped[p]) + Owned(pc[p])
          BY <2>b, <3>3
        <4>2. Len(busy_list[p]) + 1 = Len(queue[p]) + Cardinality(dropped[p]) + Owned(pc[p])
          BY <3>3, <4>1
        <4>3. /\ Len(busy_list[p]) \in Int /\ Len(queue[p]) \in Int
              /\ Cardinality(dropped[p]) \in Int /\ Owned(pc[p]) \in Int
          BY <2>c, <2>g
        <4> QED  BY <3>6, <4>2, <4>3
      <3> QED  BY <2>b, <2>c, <2>g, <3>1, <3>2, <3>3, <3>4, <3>5, <3>7 DEF Kept
    <2>9. ASSUME ~Send(e), ~aplly_memory(e), ~committ(e), ~add_queue_admit(e),
                 ~add_queue_link(e), ~add_queue_fill(e), ~add_queue_append(e),
                 ~release_memory(e), ~delete_head_queue_pop(e)
          PROVE  Kept
      <3>1. /\ UNCHANGED <<busy_list, queue, dropped, sent>>
            /\ pc'[p] = pc[p]
            /\ Returned(pc'[e]) = Returned(pc[e]) /\ Owned(pc'[e]) = Owned(pc[e])
            /\ Sending(e)' => Sending(e)
            /\ Open(e)' => Open(e)
        BY <1>2, <1>a, <2>9, <2>a, BusyCalm
      <3>2. /\ Open(p)' = Open(p) /\ Sending(p)' = Sending(p)
        BY <3>1 DEF Open, Sending, Held
      <3> QED  BY <2>b, <3>1, <3>2 DEF Kept
    <2> QED  BY <1>2, <2>1, <2>2, <2>3, <2>4, <2>5, <2>6, <2>7, <2>8, <2>9, <2>10
  <1>3. CASE Next
    <2>1. PICK e \in Ends : Call(e) \/ Step(e)  BY <1>3 DEF Next
    <2>2. \A f \in Ends : f = e \/ f = Peer(e)  BY DEF Ends, Peer
    <2> QED  BY <1>2, <2>1, <2>2 DEF BusyInv
  <1> QED  BY <1>1, <1>3

-----------------------------------------------------------------------------
(* One request at a time: the messages of the histories and the queues *)

\* Whether a step is one of a recv that has popped its message and not returned
\* it, and whether a queue's last node is still to be filled.
Taking(step) == OneIf(step \in {"f_unlock", "d_more", "d_one", "d_load", "d_store",
                                "d_flags"})
Unfilled(step) == OneIf(step = "c_fill")

\* The messages of q are those of the history t from its place d on.
Agree(q, t, d) == \A i \in 1 .. Len(q) : q[i].id = t[d + i]

\* What was queued for e is what e was given, then what it has popped, then what
\* is queued.
GivenOK(e) ==
    LET p == Peer(e)
        d == Len(delivered[e]) + Taking(pc[e])
    IN
    /\ Len(pushed[p]) + Unfilled(pc[p]) = d + Len(queue[p])
    /\ pc[p] # "c_fill" => Agree(queue[p], pushed[p], d)
    /\ Receiving(e) => got[e] = pushed[p][Len(delivered[e]) + 1]

\* The queued messages are earlier ones than the one being sent.
SentOK(e) ==
    /\ \A i \in 1 .. Len(pushed[e]) : pushed[e][i] <= sent[e]
    /\ Sending(e) => \A i \in 1 .. Len(pushed[e]) : pushed[e][i] < sent[e]

\* Types of the histories, and what is known of the messages in them.
HistoryTypes == pushed \in [Ends -> Seq(Nat)] /\ delivered \in [Ends -> Seq(Nat)]
StreamInv == HistoryTypes /\ \A e \in Ends : GivenOK(e) /\ SentOK(e)

\* Initially the histories and the queues are empty.
LEMMA StreamInit == Init => StreamInv
  <1> SUFFICES ASSUME Init PROVE StreamInv  OBVIOUS
  <1>1. HistoryTypes  BY DEF Init, HistoryTypes
  <1>2. ASSUME NEW e \in Ends PROVE GivenOK(e) /\ SentOK(e)
    <2>1. /\ queue[Peer(e)] = <<>> /\ pushed[Peer(e)] = <<>> /\ delivered[e] = <<>>
          /\ pushed[e] = <<>> /\ pc[e] = "ready" /\ pc[Peer(e)] = "ready"
      BY PeerFacts DEF Init
    <2>2. Len(queue[Peer(e)]) = 0 /\ Len(pushed[Peer(e)]) = 0 /\ Len(delivered[e]) = 0
          /\ Len(pushed[e]) = 0
      BY <2>1
    <2> QED  BY <2>1, <2>2 DEF GivenOK, SentOK, Agree, Taking, Unfilled, OneIf, Receiving
  <1> QED  BY <1>1, <1>2 DEF StreamInv

\* delete_head_queue that finds no more than one message finds the one it popped.
LEMMA LastIsOne ==
    ASSUME CountInv, PoolInv, NumberTypes, NEW e \in Ends, count_one(e)
    PROVE  LastMessage(e)
  <1>1. pc[e] = "d_one" /\ InRequest(e)  BY DEF count_one, InRequest
  <1>2. ~Adding(Peer(e)) /\ Peer(e) \in Ends
    BY <1>1, OtherIdle, PeerFacts DEF CountInv, ApartInv
  <1>3. Len(queue[Peer(e)]) = read_msg_number[e] - 1 /\ read_msg_number[e] <= 1
    BY <1>1, <1>2 DEF CountInv, CountOK, Popped, OneIf, NumberTypes
  <1>4. Len(queue[Peer(e)]) \in Nat  BY <1>2, QueueLengths DEF CountInv
  <1> QED  BY <1>3, <1>4 DEF LastMessage, NumberTypes

\* How a recv returns: with what it copied out.
LEMMA Returning ==
    ASSUME CountInv, PoolInv, NumberTypes, ReadInv, HistoryTypes, NEW e \in Ends
    PROVE  /\ count_one(e) => Goto(e, "d_load") /\ UNCHANGED delivered
           /\ finish_return(e) =>
                 Goto(e, "ready") /\ delivered' = [delivered EXCEPT ![e] = Append(@, got[e])]
  <1>1. count_one(e) => Goto(e, "d_load") /\ UNCHANGED delivered
    BY LastIsOne, Zenon DEF count_one
  <1>2. ASSUME finish_return(e)
        PROVE  Goto(e, "ready") /\ delivered' = [delivered EXCEPT ![e] = Append(@, got[e])]
    <2>1. pc[e] = "d_flags" /\ RecvReturn(e)  BY <1>2 DEF finish_return
    <2>2. block[e].id # 0  BY <2>1 DEF ReadInv, ReadOK, Receiving
    <2> QED  BY <2>1, <2>2, Zenon DEF RecvReturn, Return
  <1> QED  BY <1>1, <1>2

\* Steps of no stream.
LEMMA StreamCalm ==
    ASSUME ControlTypes, ApartInv, ReaderTypes, NEW e \in Ends, Call(e) \/ Step(e),
           ~Send(e), ~add_queue_link(e), ~add_queue_fill(e), ~add_queue_append(e),
           ~delete_head_queue_pop(e), ~count_one(e), ~finish_return(e)
    PROVE  /\ UNCHANGED <<queue, pushed, delivered, sent>>
           /\ \A f \in Ends : f # e => pc'[f] = pc[f] /\ got'[f] = got[f]
           /\ Taking(pc'[e]) = Taking(pc[e])
           /\ pc'[e] = "c_fill" <=> pc[e] = "c_fill"
           /\ Receiving(e)' => Receiving(e) /\ got'[e] = got[e]
           /\ Sending(e)' => Sending(e)
           /\ Close(e) \/ (Open(e)' <=> Open(e))
  <1>1. /\ UNCHANGED <<queue, pushed, delivered, sent>>
        /\ UNCHANGED got \/ copy_out(e)
    BY NoTear, SMT DEF Call, queueVars, Step, callVars, Recv, Close, wait_for_sources,
       requestA, aplly_memory, account_INCRASE, copy_in, committ, add_queue_admit,
       add_queue_lock, add_queue_unlock, add_queue_resource, count_load, count_store,
       flag_load, flag_store, test_message, test_closed, request_message,
       request_empty, request_closed, copy_out, finish, release_memory,
       account_REDUCE, delete_head_queue_lock, delete_head_queue_next,
       delete_head_queue_unlock, count_more, decrement_load, decrement_store,
       kill_self_return
  <1>0. add_queue_unlock(e) =>
           \/ pc[e] = "c_filled" /\ Goto(e, "c_resource")
           \/ pc[e] = "c_appended" /\ Goto(e, "c_flags")
    BY Zenon DEF add_queue_unlock
  <1> DEFINE Out == {"f_unlock", "d_more", "d_one", "d_load", "d_store", "d_flags"}
  <1>2. /\ \A f \in Ends : f # e => pc'[f] = pc[f]
        /\ pc'[e] \in Out <=> pc[e] \in Out
        /\ pc'[e] = "c_fill" <=> pc[e] = "c_fill"
        /\ Receiving(e)' => Receiving(e)
        /\ Sending(e)' => Sending(e)
        /\ Close(e) \/ (Open(e)' <=> Open(e))
        /\ copy_out(e) => ~Receiving(e)
    BY NoTear, <1>0, SMT DEF ControlTypes, Sending, Held, Open, Receiving, Call, Step,
       Goto, Return, Recv, Close, wait_for_sources, requestA, aplly_memory,
       account_INCRASE, copy_in, committ, add_queue_admit, add_queue_lock,
       add_queue_resource, count_load, count_store, flag_load, flag_store,
       test_message, test_closed, request_message, request_empty, request_closed,
       copy_out, finish, release_memory, account_REDUCE, delete_head_queue_lock,
       delete_head_queue_next, delete_head_queue_unlock, count_more, decrement_load,
       decrement_store, kill_self_return
  <1>3. \A f \in Ends : f # e => got'[f] = got[f]
    <2>1. copy_out(e) => UNCHANGED got \/ got' = [got EXCEPT ![e] = mem[Peer(e)][block[e].off]]
      BY Zenon DEF copy_out
    <2>2. ASSUME got' = [got EXCEPT ![e] = mem[Peer(e)][block[e].off]]
          PROVE  \A f \in Ends : f # e => got'[f] = got[f]
      BY <2>2, Zenon DEF ReaderTypes
    <2>3. UNCHANGED got => \A f \in Ends : f # e => got'[f] = got[f]
      OBVIOUS
    <2> QED  BY <1>1, <2>1, <2>2, <2>3, Zenon
  <1>4. Taking(pc'[e]) = Taking(pc[e])  BY <1>2, Zenon DEF Taking, OneIf
  <1>5. Receiving(e)' => Receiving(e) /\ got'[e] = got[e]  BY <1>1, <1>2, Zenon
  <1> QED  BY <1>1, <1>2, <1>3, <1>4, <1>5, Zenon

\* A message queued at the end: the two histories and the queue still agree.
LEMMA QueuedAgree ==
    ASSUME NEW q \in Seq(Message), NEW t \in Seq(Nat), NEW d \in Nat, NEW m \in Message,
           NEW n \in Nat, n = m.id,
           Len(t) = d + Len(q), Agree(q, t, d)
    PROVE  /\ Len(Append(t, n)) = d + Len(Append(q, m))
           /\ Agree(Append(q, m), Append(t, n), d)
  <1> DEFINE q1 == Append(q, m)
             t1 == Append(t, n)
  <1>0. Len(q) \in Nat /\ Len(t) \in Nat  OBVIOUS
  <1>2. /\ Len(q1) = Len(q) + 1 /\ q1[Len(q) + 1] = m
        /\ \A i \in 1 .. Len(q) : q1[i] = q[i]
    BY Appended
  <1>3. /\ Len(t1) = Len(t) + 1 /\ t1[Len(t) + 1] = n
        /\ \A i \in 1 .. Len(t) : t1[i] = t[i]
    BY Appended
  <1> HIDE DEF q1, t1
  <1>4. ASSUME NEW i \in 1 .. Len(q1) PROVE q1[i].id = t1[d + i]
    <2>1. CASE i = Len(q) + 1
      <3>1. d + i = Len(t) + 1  BY <1>0, <2>1
      <3> QED  BY <1>2, <1>3, <2>1, <3>1
    <2>2. CASE i # Len(q) + 1
      <3>2. \A k, l \in Nat : \A j \in 1 .. l + 1 :
               j # l + 1 /\ k = d + l => j \in 1 .. l /\ d + j \in 1 .. k
        OBVIOUS
      <3>1. i \in 1 .. Len(q) /\ d + i \in 1 .. Len(t)  BY <1>0, <1>2, <2>2, <3>2
      <3> QED  BY <1>2, <1>3, <3>1 DEF Agree
    <2> QED  BY <2>1, <2>2
  <1>5. Len(t1) = d + Len(q1)  BY <1>0, <1>2, <1>3
  <1>6. Agree(q1, t1, d)  BY <1>4 DEF Agree
  <1> QED  BY <1>5, <1>6 DEF q1, t1

\* The messages behind the head agree with the history one place further on.
LEMMA PoppedAgree ==
    ASSUME NEW q \in Seq(Message), q # <<>>, NEW t, NEW d \in Nat,
           Agree(q, t, d)
    PROVE  /\ Len(Tail(q)) = Len(q) - 1
           /\ Agree(Tail(q), t, d + 1)
           /\ Head(q).id = t[d + 1]
  <1>1. /\ Len(q) \in Nat \ {0} /\ Head(q) = q[1] /\ Len(Tail(q)) = Len(q) - 1
        /\ \A i \in 1 .. Len(q) - 1 : Tail(q)[i] = q[i + 1]
    BY HeadAndTail
  <1>2. ASSUME NEW i \in 1 .. Len(q) - 1 PROVE Tail(q)[i].id = t[d + 1 + i]
    <2>1. i + 1 \in 1 .. Len(q) /\ d + (i + 1) = d + 1 + i  BY <1>1
    <2>2. q[i + 1].id = t[d + (i + 1)]  BY <2>1 DEF Agree
    <2> QED  BY <1>1, <2>1, <2>2
  <1>3. Head(q).id = t[d + 1]  BY <1>1 DEF Agree
  <1>4. Agree(Tail(q), t, d + 1)
    <2> DEFINE r == Tail(q)
    <2>1. Len(r) = Len(q) - 1  BY <1>1
    <2>2. \A i \in 1 .. Len(q) - 1 : r[i].id = t[d + 1 + i]  BY <1>2
    <2> HIDE DEF r
    <2>3. Agree(r, t, d + 1)  BY <2>1, <2>2 DEF Agree
    <2> QED  BY <2>3 DEF r
  <1> QED  BY <1>1, <1>3, <1>4

\* What a queued message does to the numbers queued.
LEMMA PushedBelow ==
    ASSUME NEW t \in Seq(Nat), NEW n \in Nat, \A i \in 1 .. Len(t) : t[i] < n
    PROVE  \A i \in 1 .. Len(Append(t, n)) : Append(t, n)[i] <= n
  <1> DEFINE t1 == Append(t, n)
  <1>1. /\ Len(t1) = Len(t) + 1 /\ t1[Len(t) + 1] = n /\ Len(t) \in Nat
        /\ (\A i \in 1 .. Len(t) : t1[i] = t[i]) /\ \A i \in 1 .. Len(t) : t[i] \in Nat
    BY Appended, EmptyIsZero
  <1> HIDE DEF t1
  <1>2. ASSUME NEW i \in 1 .. Len(t1) PROVE t1[i] <= n
    <2>1. CASE i = Len(t) + 1  BY <1>1, <2>1
    <2>2. CASE i # Len(t) + 1
      <3>1. i \in 1 .. Len(t)  BY <1>1, <2>2
      <3> QED  BY <1>1, <3>1
    <2> QED  BY <2>1, <2>2
  <1> QED  BY <1>2 DEF t1

\* What the histories and a queue have in common, where a step leaves them.
LEMMA GivenStays ==
    ASSUME NEW f \in Ends, GivenOK(f), delivered'[f] = delivered[f],
           queue'[Peer(f)] = queue[Peer(f)], pushed'[Peer(f)] = pushed[Peer(f)],
           Taking(pc'[f]) = Taking(pc[f]),
           pc'[Peer(f)] = "c_fill" <=> pc[Peer(f)] = "c_fill",
           Receiving(f)' => Receiving(f) /\ got'[f] = got[f]
    PROVE  GivenOK(f)'
  <1>1. Unfilled(pc'[Peer(f)]) = Unfilled(pc[Peer(f)])  BY DEF Unfilled, OneIf
  <1> QED  BY <1>1 DEF GivenOK

\* What the history of an end says of the message it sends, where a step leaves it.
LEMMA SentStays ==
    ASSUME NEW f \in Ends, SentOK(f), pushed'[f] = pushed[f], sent'[f] = sent[f],
           Sending(f)' => Sending(f)
    PROVE  SentOK(f)'
  BY DEF SentOK

\* Every step keeps what the histories and the queues have in common.
LEMMA StreamNext ==
    ASSUME CountInv, PoolInv, NumberTypes, ReaderTypes, FlagInv, ReadInv, StreamInv,
           [Next]_vars
    PROVE  StreamInv'
  <1>a. ControlTypes /\ ApartInv /\ Alone /\ PoolTypes /\ HistoryTypes
    BY DEF CountInv, ApartInv, PoolInv, StreamInv
  <1>1. CASE UNCHANGED vars
    <2>1. UNCHANGED <<queue, pushed, delivered, sent, pc, got>>
      BY <1>1 DEF vars, queueVars, callVars
    <2> QED  BY <2>1 DEF StreamInv, HistoryTypes, GivenOK, SentOK, Sending, Held, Receiving
  <1>2. ASSUME NEW e \in Ends, Call(e) \/ Step(e)
        PROVE  /\ HistoryTypes'
               /\ GivenOK(e)' /\ GivenOK(Peer(e))' /\ SentOK(e)' /\ SentOK(Peer(e))'
    <2>a. PICK p \in Ends : p = Peer(e) /\ p # e /\ Peer(p) = e
      BY PeerFacts
    <2>b. GivenOK(e) /\ GivenOK(p) /\ SentOK(e) /\ SentOK(p) /\ ReadOK(e)
      BY <2>a DEF StreamInv, ReadInv
    <2>c. /\ queue[e] \in Seq(Message) /\ queue[p] \in Seq(Message)
          /\ pushed[e] \in Seq(Nat) /\ pushed[p] \in Seq(Nat)
          /\ delivered[e] \in Seq(Nat) /\ delivered[p] \in Seq(Nat)
          /\ sent[e] \in Nat /\ got[e] \in Nat
          /\ NewMessage(e) \in Message /\ NewMessage(e).id = sent[e]
          /\ <<>> \in Seq(Message)
      BY <1>a, LiveTyped DEF HistoryTypes, PoolTypes, ReaderTypes
    <2>d. \A step : Goto(e, step) => pc'[e] = step /\ pc'[p] = pc[p]
      BY <1>a, <2>a DEF Goto, ControlTypes
    <2>e. /\ Len(queue[e]) \in Nat /\ Len(queue[p]) \in Nat
          /\ Len(pushed[e]) \in Nat /\ Len(pushed[p]) \in Nat
          /\ Len(delivered[e]) \in Nat /\ Len(delivered[p]) \in Nat
      BY <2>c
    <2>f. ASSUME pc'[p] = pc[p], got'[p] = got[p]
          PROVE  /\ Receiving(p)' => Receiving(p) /\ got'[p] = got[p]
                 /\ Sending(p)' => Sending(p)
                 /\ Taking(pc'[p]) = Taking(pc[p])
      BY <2>f DEF Receiving, Sending, Held
    <2> DEFINE Kept == /\ HistoryTypes'
                       /\ GivenOK(e)' /\ GivenOK(p)' /\ SentOK(e)' /\ SentOK(p)'
    <2> SUFFICES Kept
      BY <2>a
    <2> HIDE DEF Kept
    <2>1. CASE Send(e)
      <3>1. /\ UNCHANGED <<queue, pushed, delivered, got>> /\ pc[e] = "ready"
            /\ Goto(e, "s_wait") /\ sent' = [sent EXCEPT ![e] = @ + 1]
        BY <2>1, SMT DEF Send, queueVars
      <3>2. sent'[e] = sent[e] + 1 /\ sent'[p] = sent[p]
        BY <1>a, <3>1, <2>a DEF PoolTypes
      <3>3. pc'[e] = "s_wait" /\ pc'[p] = pc[p]  BY <2>d, <3>1
      <3>4. Taking(pc'[e]) = Taking(pc[e]) /\ ~Receiving(e)'
        BY <3>1, <3>3 DEF Taking, OneIf, Receiving
      <3>5. GivenOK(e)' /\ GivenOK(p)'
        BY <2>a, <2>b, <2>f, <3>1, <3>3, <3>4, GivenStays
      <3>6. SentOK(p)'  BY <2>b, <2>f, <3>1, <3>2, <3>3, SentStays
      <3>7. SentOK(e)'
        <4>1. \A i \in 1 .. Len(pushed[e]) : pushed[e][i] <= sent[e] /\ pushed[e][i] \in Nat
          BY <2>b, <2>c DEF SentOK
        <4>2. \A i \in 1 .. Len(pushed[e]) : pushed[e][i] < sent[e] + 1
          BY <2>c, <4>1
        <4> QED  BY <2>c, <3>1, <3>2, <4>1, <4>2, SMTT(30) DEF SentOK
      <3> QED  BY <1>a, <3>1, <3>5, <3>6, <3>7 DEF Kept, HistoryTypes
    <2>2. CASE add_queue_link(e)
      <3>1. InRequest(e) /\ pc[e] = "c_link" /\ UNCHANGED <<delivered, sent, got>>
        BY <2>2, SMT DEF add_queue_link, InRequest, callVars
      <3>2. ~InRequest(p)  BY <1>a, <3>1, <2>a DEF Alone
      <3>3. ~Receiving(p) /\ Taking(pc[p]) = 0 /\ Taking(pc[e]) = 0 /\ Sending(e)
        BY <3>1, <3>2 DEF Receiving, InRequest, Taking, OneIf, Sending, Held
      <3>4. CASE queue[e] = <<>>
        <4>1. /\ Goto(e, "c_fill") /\ queue' = [queue EXCEPT ![e] = <<Zeroed>>]
              /\ UNCHANGED pushed
          <5>1. UNCHANGED pushed  BY <2>2, SMT DEF add_queue_link
          <5> QED  BY <1>a, <2>2, <3>4, <5>1, QueueActions
        <4>2. /\ pc'[e] = "c_fill" /\ pc'[p] = pc[p]
              /\ queue'[p] = queue[p] /\ queue'[e] = <<Zeroed>>
          BY <1>a, <2>a, <2>d, <4>1, Zenon DEF PoolTypes
        <4>3. ~Receiving(p)' /\ ~Receiving(e)' /\ Taking(pc'[e]) = 0
              /\ Taking(pc'[p]) = 0 /\ Sending(e)' /\ Unfilled(pc'[e]) = 1
              /\ Unfilled(pc[e]) = 0
          BY <3>1, <3>3, <4>2 DEF Receiving, Taking, OneIf, Sending, Held, Unfilled
        <4>4. GivenOK(p)'
          <5>1. Len(queue'[e]) = 1 /\ Len(queue[e]) = 0
            BY <3>4, <4>2
          <5>2. Len(pushed[e]) + 0 = (Len(delivered[p]) + 0) + Len(queue[e])
            BY <2>a, <2>b, <3>3, <4>3, Zenon DEF GivenOK
          <5>3. Len(pushed[e]) + 1 = (Len(delivered[p]) + 0) + 1
            BY <2>e, <5>1, <5>2
          <5>4. Len(pushed'[e]) + Unfilled(pc'[e])
                   = (Len(delivered'[p]) + Taking(pc'[p])) + Len(queue'[e])
            BY <3>1, <4>1, <4>3, <5>1, <5>3
          <5> QED  BY <2>a, <4>2, <4>3, <5>4 DEF GivenOK
        <4>5. GivenOK(e)'
          BY <2>a, <2>b, <3>1, <3>3, <4>1, <4>2, <4>3, GivenStays
        <4>6. SentOK(e)' /\ SentOK(p)'
          BY <2>b, <2>f, <3>1, <3>3, <4>1, <4>2, SentStays
        <4> QED  BY <1>a, <3>1, <4>1, <4>4, <4>5, <4>6 DEF Kept, HistoryTypes
      <3>5. CASE queue[e] # <<>>
        <4>1. Goto(e, "c_append") /\ UNCHANGED <<queue, pushed>>
          <5>1. UNCHANGED pushed  BY <2>2, SMT DEF add_queue_link
          <5> QED  BY <1>a, <2>2, <3>5, <5>1, QueueActions
        <4>2. pc'[e] = "c_append" /\ pc'[p] = pc[p]  BY <2>d, <4>1
        <4>3. ~Receiving(e)' /\ Taking(pc'[e]) = Taking(pc[e]) /\ pc[e] # "c_fill"
          BY <3>1, <3>3, <4>2 DEF Receiving, Taking, OneIf
        <4>4. GivenOK(e)' /\ GivenOK(p)'
          BY <2>a, <2>b, <2>f, <3>1, <4>1, <4>2, <4>3, GivenStays
        <4>5. SentOK(e)' /\ SentOK(p)'
          BY <2>b, <2>f, <3>1, <3>3, <4>1, <4>2, SentStays
        <4> QED  BY <1>a, <3>1, <4>1, <4>4, <4>5 DEF Kept, HistoryTypes
      <3> QED  BY <3>4, <3>5
    <2>8. CASE add_queue_append(e)
      <3>1. InRequest(e) /\ pc[e] = "c_append" /\ UNCHANGED <<delivered, sent, got>>
        BY <2>8, SMT DEF add_queue_append, InRequest, callVars
      <3>2. ~InRequest(p)  BY <1>a, <3>1, <2>a DEF Alone
      <3>3. ~Receiving(p) /\ Taking(pc[p]) = 0 /\ Taking(pc[e]) = 0 /\ Sending(e)
        BY <3>1, <3>2 DEF Receiving, InRequest, Taking, OneIf, Sending, Held
      <3> DEFINE m == NewMessage(e)
      <3>11. /\ Goto(e, "c_appended") /\ queue' = [queue EXCEPT ![e] = Append(@, m)]
             /\ pushed' = [pushed EXCEPT ![e] = Append(@, sent[e])]
        <4>1. Goto(e, "c_appended")  BY <2>8, Zenon DEF add_queue_append
        <4> QED  BY <1>a, <2>8, <4>1, QueueActions
      <3>10. m \in Message /\ sent[e] = m.id  BY <2>c
      <3> HIDE DEF m
      <3>12. /\ pc'[e] = "c_appended" /\ pc'[p] = pc[p]
            /\ queue'[p] = queue[p] /\ queue'[e] = Append(queue[e], m)
        BY <1>a, <2>a, <2>d, <3>11, Zenon DEF PoolTypes
      <3>13. pushed'[p] = pushed[p] /\ pushed'[e] = Append(pushed[e], sent[e])
        BY <1>a, <2>a, <3>11, Zenon DEF HistoryTypes
      <3>14. ~Receiving(p)' /\ ~Receiving(e)' /\ Taking(pc'[e]) = 0
            /\ Taking(pc'[p]) = 0 /\ ~Sending(e)' /\ Unfilled(pc'[e]) = 0
            /\ Unfilled(pc[e]) = 0 /\ pc[e] # "c_fill"
        BY <3>1, <3>3, <3>12 DEF Receiving, Taking, OneIf, Sending, Held, Unfilled
      <3>15. /\ Len(pushed[e]) = Len(delivered[p]) + Len(queue[e])
            /\ Agree(queue[e], pushed[e], Len(delivered[p]))
        <4>1. /\ Len(pushed[e]) + 0 = (Len(delivered[p]) + 0) + Len(queue[e])
              /\ Agree(queue[e], pushed[e], Len(delivered[p]) + 0)
          BY <2>a, <2>b, <3>3, <3>14, Zenon DEF GivenOK
        <4>2. Len(delivered[p]) + 0 = Len(delivered[p])  BY <2>e
        <4>3. \A a, b, c \in Nat : a + 0 = (b + 0) + c => a = b + c  OBVIOUS
        <4>4. Len(pushed[e]) = Len(delivered[p]) + Len(queue[e])
          BY <2>e, <4>1, <4>3, ZenonT(40)
        <4>5. Agree(queue[e], pushed[e], Len(delivered[p]))  BY <4>1, <4>2, Zenon
        <4> QED  BY <4>4, <4>5
      <3>16. /\ Len(Append(pushed[e], sent[e])) = Len(delivered[p]) + Len(Append(queue[e], m))
            /\ Agree(Append(queue[e], m), Append(pushed[e], sent[e]), Len(delivered[p]))
        BY <2>c, <2>e, <3>10, <3>15, QueuedAgree
      <3> DEFINE t1 == Append(pushed[e], sent[e])
                 q1 == Append(queue[e], m)
      <3>17. Len(t1) \in Nat /\ Len(q1) \in Nat
        <4>1. q1 \in Seq(Message)  BY <2>c, <3>10, Appended
        <4>2. t1 \in Seq(Nat)  BY <2>c, Appended
        <4> HIDE DEF t1, q1
        <4> QED  BY <4>1, <4>2
      <3>18. \A i \in 1 .. Len(t1) : t1[i] <= sent[e]
        BY <2>b, <2>c, <3>3, PushedBelow DEF SentOK
      <3>19. HistoryTypes'
        <4>1. t1 \in Seq(Nat)  BY <2>c, Appended
        <4>2. pushed' = [pushed EXCEPT ![e] = t1]  BY <3>11
        <4> HIDE DEF t1
        <4> QED  BY <1>a, <3>1, <4>1, <4>2, Zenon DEF HistoryTypes
      <3> HIDE DEF t1, q1
      <3>20. GivenOK(p)'
        <4>1. pushed'[e] = t1 /\ queue'[e] = q1 /\ Len(t1) = Len(delivered[p]) + Len(q1)
              /\ Agree(q1, t1, Len(delivered[p]))
          BY <3>12, <3>13, <3>16 DEF t1, q1
        <4>2. Len(delivered[p]) + 0 = Len(delivered[p])  BY <2>e
        <4> QED  BY <2>a, <2>e, <3>1, <3>14, <3>17, <4>1, <4>2 DEF GivenOK
      <3>21. GivenOK(e)'
        BY <2>a, <2>b, <3>1, <3>3, <3>12, <3>13, <3>14, GivenStays
      <3>22. SentOK(e)'  BY <3>1, <3>13, <3>14, <3>18 DEF SentOK, t1
      <3>23. SentOK(p)'
        BY <2>b, <2>f, <3>1, <3>12, <3>13, SentStays
      <3> QED  BY <3>19, <3>20, <3>21, <3>22, <3>23 DEF Kept
    <2>3. CASE add_queue_fill(e)
      <3>1. /\ InRequest(e) /\ pc[e] = "c_fill" /\ UNCHANGED <<delivered, sent, got>>
            /\ Goto(e, "c_filled") /\ queue' = [queue EXCEPT ![e] = <<NewMessage(e)>>]
            /\ pushed' = [pushed EXCEPT ![e] = Append(@, sent[e])] /\ queue[e] = <<Zeroed>>
        <4>1. pc[e] = "c_fill" /\ UNCHANGED <<delivered, sent, got>>
          BY <2>3, SMT DEF add_queue_fill, callVars
        <4> QED  BY <1>a, <2>3, <4>1, QueueActions DEF InRequest
      <3>2. ~InRequest(p)  BY <1>a, <3>1, <2>a DEF Alone
      <3>3. ~Receiving(p) /\ Taking(pc[p]) = 0 /\ Taking(pc[e]) = 0 /\ Sending(e)
            /\ Unfilled(pc[e]) = 1
        BY <3>1, <3>2 DEF Receiving, InRequest, Taking, OneIf, Sending, Held, Unfilled
      <3>4. queue[e] = <<Zeroed>>  BY <3>1
      <3> DEFINE m == NewMessage(e)
                 q0 == <<>>
                 q1 == Append(q0, m)
                 t1 == Append(pushed[e], sent[e])
      <3>0. m \in Message /\ sent[e] = m.id  BY <2>c
      <3>5. /\ pc'[e] = "c_filled" /\ pc'[p] = pc[p]
            /\ queue'[p] = queue[p] /\ queue'[e] = <<m>>
        BY <1>a, <2>a, <2>d, <3>1, Zenon DEF PoolTypes
      <3>6. pushed'[p] = pushed[p] /\ pushed'[e] = t1
        BY <1>a, <2>a, <3>1, Zenon DEF HistoryTypes
      <3>7. q1 = <<m>>
        <4> HIDE DEF m
        <4> QED  OBVIOUS
      <3>8. HistoryTypes'
        <4>1. t1 \in Seq(Nat)  BY <2>c, Appended
        <4>2. pushed' = [pushed EXCEPT ![e] = t1]  BY <3>1
        <4> HIDE DEF t1
        <4> QED  BY <1>a, <3>1, <4>1, <4>2, Zenon DEF HistoryTypes
      <3>9. Len(pushed[e]) = Len(delivered[p])
        <4>1. Len(queue[e]) = 1  BY <3>4
        <4> QED  BY <2>a, <2>b, <2>e, <3>3, <4>1 DEF GivenOK
      <3>10. /\ Len(t1) = Len(delivered[p]) + Len(q1) /\ Agree(q1, t1, Len(delivered[p]))
        <4>1. q0 \in Seq(Message) /\ Len(q0) = 0 /\ Len(pushed[e]) = Len(delivered[p]) + Len(q0)
          BY <2>c, <2>e, <3>9
        <4>2. \A i \in 1 .. Len(q0) : q0[i].id = pushed[e][Len(delivered[p]) + i]
          BY <4>1
        <4>3. Agree(q0, pushed[e], Len(delivered[p]))  BY <4>2 DEF Agree
        <4> HIDE DEF q0, m
        <4> QED  BY <2>c, <2>e, <3>0, <4>1, <4>3, QueuedAgree
      <3>11. \A i \in 1 .. Len(t1) : t1[i] <= sent[e]
        BY <2>b, <2>c, <3>3, PushedBelow DEF SentOK
      <3>12. ~Receiving(p)' /\ ~Receiving(e)' /\ Taking(pc'[e]) = 0
             /\ Taking(pc'[p]) = 0 /\ ~Sending(e)' /\ Unfilled(pc'[e]) = 0
        BY <3>3, <3>5 DEF Receiving, Taking, OneIf, Sending, Held, Unfilled
      <3>13. Len(t1) \in Nat /\ Len(q1) \in Nat
        <4>1. Len(q1) = 1  BY <3>7
        <4>2. t1 \in Seq(Nat)  BY <2>c, Appended
        <4> HIDE DEF t1, q1
        <4> QED  BY <4>1, <4>2
      <3> HIDE DEF t1, q1, q0, m
      <3>14. GivenOK(p)'
        <4>1. pushed'[e] = t1 /\ queue'[e] = q1  BY <3>5, <3>6, <3>7
        <4>2. Len(delivered[p]) + 0 = Len(delivered[p])  BY <2>e
        <4>3. Len(t1) + 0 = (Len(delivered[p]) + 0) + Len(q1)
          BY <2>e, <3>10, <3>13
        <4> QED  BY <2>a, <3>1, <3>10, <3>12, <4>1, <4>2, <4>3 DEF GivenOK
      <3>15. GivenOK(e)'
        BY <2>a, <2>b, <3>1, <3>3, <3>5, <3>6, <3>12, GivenStays
      <3>16. SentOK(e)'  BY <3>1, <3>6, <3>11, <3>12 DEF SentOK
      <3>17. SentOK(p)'
        BY <2>b, <2>f, <3>1, <3>5, <3>6, SentStays
      <3> QED  BY <3>8, <3>14, <3>15, <3>16, <3>17 DEF Kept
    <2>4. CASE delete_head_queue_pop(e)
      <3>1. /\ pc[e] = "f_head" /\ pc[p] # "c_fill"
            /\ UNCHANGED <<delivered, pushed, sent, got, block>>
            /\ Goto(e, "f_unlock") /\ queue' = [queue EXCEPT ![p] = Tail(@)]
        <4>1. /\ pc[e] = "f_head" /\ UNCHANGED <<delivered, pushed, sent, got, block>>
              /\ Goto(e, "f_unlock")
          BY <2>4, SMT DEF delete_head_queue_pop, callVars
        <4>2. pc[p] # "c_fill"  BY <2>a, <2>b, <4>1 DEF ReadOK, Reads
        <4> QED  BY <1>a, <2>4, <2>a, <4>1, <4>2, QueueActions
      <3>2. /\ pc'[e] = "f_unlock" /\ pc'[p] = pc[p]
            /\ queue'[e] = queue[e] /\ queue'[p] = Tail(queue[p])
        BY <1>a, <2>a, <2>d, <3>1, Zenon DEF PoolTypes
      <3>3. queue[p] # <<>> /\ block[e] = Head(queue[p]) /\ got[e] = block[e].id
        BY <2>a, <2>b, <3>1 DEF ReadOK, Reads
      <3>4. Taking(pc[e]) = 0 /\ Taking(pc'[e]) = 1 /\ ~Sending(e)'
            /\ Unfilled(pc[p]) = 0 /\ Unfilled(pc'[p]) = 0
        BY <3>1, <3>2 DEF Taking, OneIf, Sending, Held, Unfilled
      <3>5. /\ Len(pushed[p]) = Len(delivered[e]) + Len(queue[p])
            /\ Agree(queue[p], pushed[p], Len(delivered[e]))
        <4>1. /\ Len(pushed[p]) + 0 = (Len(delivered[e]) + 0) + Len(queue[p])
              /\ Agree(queue[p], pushed[p], Len(delivered[e]) + 0)
          BY <2>a, <2>b, <3>1, <3>4, Zenon DEF GivenOK
        <4>2. Len(delivered[e]) + 0 = Len(delivered[e])  BY <2>e
        <4>3. \A a, b, c \in Nat : a + 0 = (b + 0) + c => a = b + c  OBVIOUS
        <4>4. Len(pushed[p]) = Len(delivered[e]) + Len(queue[p])  BY <2>e, <4>1, <4>3
        <4>5. Agree(queue[p], pushed[p], Len(delivered[e]))  BY <4>1, <4>2, Zenon
        <4> QED  BY <4>4, <4>5
      <3>6. /\ Len(Tail(queue[p])) = Len(queue[p]) - 1
            /\ Agree(Tail(queue[p]), pushed[p], Len(delivered[e]) + 1)
            /\ Head(queue[p]).id = pushed[p][Len(delivered[e]) + 1]
        BY <2>c, <2>e, <3>3, <3>5, PoppedAgree
      <3>7. got[e] = pushed[p][Len(delivered[e]) + 1]
        BY <3>3, <3>6
      <3> DEFINE q1 == Tail(queue[p])
      <3>8. queue'[p] = q1 /\ Len(q1) = Len(queue[p]) - 1
            /\ Agree(q1, pushed[p], Len(delivered[e]) + 1)
        BY <3>2, <3>6
      <3> HIDE DEF q1
      <3>9. GivenOK(e)'
        <4>1. Len(pushed[p]) + 0 = (Len(delivered[e]) + 1) + Len(q1)
          <5>1. \A a, b, c, d \in Int : a = b + c /\ d = c - 1 => a + 0 = (b + 1) + d  OBVIOUS
          <5>2. Len(pushed[p]) = Len(delivered[e]) + Len(queue[p]) /\ Len(q1) = Len(queue[p]) - 1
            BY <3>5, <3>8
          <5>3. /\ Len(q1) \in Int /\ Len(queue[p]) \in Int
                /\ Len(pushed[p]) \in Int /\ Len(delivered[e]) \in Int
            BY <2>e, <5>2
          <5> QED  BY <5>1, <5>2, <5>3, ZenonT(40)
        <4>2. Receiving(e)' => got'[e] = pushed'[p][Len(delivered'[e]) + 1]
          BY <3>1, <3>7
        <4>3. Len(pushed'[p]) + Unfilled(pc'[p])
                 = (Len(delivered'[e]) + Taking(pc'[e])) + Len(queue'[p])
          BY <3>1, <3>4, <3>8, <4>1, Zenon
        <4>4. Agree(queue'[p], pushed'[p], Len(delivered'[e]) + Taking(pc'[e]))
          BY <3>1, <3>4, <3>8, Zenon
        <4> QED  BY <2>a, <4>2, <4>3, <4>4, Zenon DEF GivenOK
      <3>10. GivenOK(p)'
        BY <2>a, <2>b, <2>f, <3>1, <3>2, GivenStays
      <3>11. SentOK(e)' /\ SentOK(p)'
        BY <2>b, <2>f, <3>1, <3>2, <3>4, SentStays
      <3> QED  BY <1>a, <3>1, <3>9, <3>10, <3>11 DEF Kept, HistoryTypes
    <2>5. CASE count_one(e)
      <3>1. /\ pc[e] = "d_one" /\ Goto(e, "d_load")
            /\ UNCHANGED <<queue, pushed, delivered, sent, got>>
        <4>1. pc[e] = "d_one" /\ UNCHANGED <<queue, pushed, sent, got>>
          BY <2>5, SMT DEF count_one, queueVars
        <4> QED  BY <1>a, <2>5, <4>1, Returning
      <3>2. pc'[e] = "d_load" /\ pc'[p] = pc[p]  BY <2>d, <3>1
      <3>3. Taking(pc'[e]) = Taking(pc[e]) /\ ~Sending(e)' /\ Receiving(e)
        BY <3>1, <3>2 DEF Taking, OneIf, Sending, Held, Receiving
      <3>4. GivenOK(e)' /\ GivenOK(p)'
        BY <2>a, <2>b, <2>f, <3>1, <3>2, <3>3, GivenStays
      <3>5. SentOK(e)' /\ SentOK(p)'
        BY <2>b, <2>f, <3>1, <3>2, <3>3, SentStays
      <3> QED  BY <1>a, <3>1, <3>4, <3>5 DEF Kept, HistoryTypes
    <2>6. CASE finish_return(e)
      <3>1. /\ pc[e] = "d_flags" /\ Goto(e, "ready")
            /\ UNCHANGED <<queue, pushed, sent, got>>
            /\ delivered' = [delivered EXCEPT ![e] = Append(@, got[e])]
        <4>1. pc[e] = "d_flags" /\ UNCHANGED <<queue, pushed, sent, got>>
          BY <2>6, SMT DEF finish_return, queueVars
        <4> QED  BY <1>a, <2>6, <4>1, Returning
      <3> DEFINE d1 == Append(delivered[e], got[e])
      <3>2. d1 \in Seq(Nat) /\ Len(d1) = Len(delivered[e]) + 1
        BY <2>c, Appended
      <3>3. delivered' = [delivered EXCEPT ![e] = d1]  BY <3>1
      <3> HIDE DEF d1
      <3>4. delivered'[e] = d1 /\ delivered'[p] = delivered[p] /\ HistoryTypes'
        <4>1. pushed' = pushed  BY <3>1
        <4> QED  BY <1>a, <2>a, <3>2, <3>3, <4>1, Zenon DEF HistoryTypes
      <3>5. pc'[e] = "ready" /\ pc'[p] = pc[p]  BY <2>d, <3>1
      <3>6. Taking(pc[e]) = 1 /\ Taking(pc'[e]) = 0 /\ ~Sending(e)' /\ ~Receiving(e)'
            /\ Unfilled(pc'[p]) = Unfilled(pc[p])
        BY <3>1, <3>5 DEF Taking, OneIf, Sending, Held, Receiving
      <3>7. Len(delivered'[e]) + Taking(pc'[e]) = Len(delivered[e]) + Taking(pc[e])
        BY <2>e, <3>2, <3>4, <3>6
      <3>8. GivenOK(e)'
        BY <2>a, <2>b, <3>1, <3>5, <3>6, <3>7 DEF GivenOK
      <3>9. GivenOK(p)'
        BY <2>a, <2>b, <2>f, <3>1, <3>4, <3>5, GivenStays
      <3>10. SentOK(e)' /\ SentOK(p)'
        BY <2>b, <2>f, <3>1, <3>5, <3>6, SentStays
      <3> QED  BY <3>4, <3>8, <3>9, <3>10 DEF Kept
    <2>7. ASSUME ~Send(e), ~add_queue_link(e), ~add_queue_fill(e), ~add_queue_append(e),
                 ~delete_head_queue_pop(e), ~count_one(e), ~finish_return(e)
          PROVE  Kept
      <3>1. /\ UNCHANGED <<queue, pushed, delivered, sent>>
            /\ pc'[p] = pc[p] /\ got'[p] = got[p]
            /\ Taking(pc'[e]) = Taking(pc[e])
            /\ pc'[e] = "c_fill" <=> pc[e] = "c_fill"
            /\ Receiving(e)' => Receiving(e) /\ got'[e] = got[e]
            /\ Sending(e)' => Sending(e)
        BY <1>2, <1>a, <2>7, <2>a, StreamCalm
      <3>2. GivenOK(e)' /\ GivenOK(p)'
        BY <2>a, <2>b, <2>f, <3>1, GivenStays
      <3>3. SentOK(e)' /\ SentOK(p)'
        BY <2>b, <2>f, <3>1, SentStays
      <3> QED  BY <1>a, <3>1, <3>2, <3>3 DEF Kept, HistoryTypes
    <2> QED  BY <2>1, <2>2, <2>3, <2>4, <2>5, <2>6, <2>7, <2>8
  <1>3. CASE Next
    <2>1. PICK e \in Ends : Call(e) \/ Step(e)  BY <1>3 DEF Next
    <2>2. \A f \in Ends : f = e \/ f = Peer(e)  BY DEF Ends, Peer
    <2> QED  BY <1>2, <2>1, <2>2 DEF StreamInv
  <1> QED  BY <1>1, <1>3

-----------------------------------------------------------------------------
(* One request at a time: the invariant and what follows from it *)

\* All that holds while the engine serves one request at a time.
SerialInv == /\ CountInv /\ PoolInv /\ NumberInv /\ ReaderTypes /\ FlagInv /\ PendInv
             /\ TellInv /\ ReadInv /\ AccountInv /\ BusyInv /\ StreamInv

\* The invariant of a serialized engine holds initially.
LEMMA SerialInit == Init => SerialInv
  <1> SUFFICES ASSUME Init PROVE SerialInv  OBVIOUS
  <1>1. ReaderTypes
    BY ChannelAssumption, SMT DEF Init, ReaderTypes, Zeroed, Blocks
  <1> QED
    BY <1>1, CountInit, PoolInit, NumberInit, FlagInit, PendInit, TellInit, ReadInit,
       AccountInit, BusyInit, StreamInit DEF SerialInv

\* Every step of a serialized engine keeps it.
LEMMA SerialNext ==
    ASSUME Serialized, SerialInv, [Next]_vars
    PROVE  SerialInv'
  <1>1. /\ CountInv /\ PoolInv /\ NumberInv /\ ReaderTypes /\ FlagInv /\ PendInv
        /\ TellInv /\ ReadInv /\ AccountInv /\ BusyInv /\ StreamInv /\ NumberTypes
    BY DEF SerialInv, NumberInv
  <1>2. PoolInv' /\ NumberInv' /\ ReaderTypes' /\ FlagInv'
    BY <1>1, PoolNext, NumberNext, ReaderTypesNext, FlagNext
  <1>3. CountInv'
    <2>1. ControlTypes'  BY <1>2 DEF PoolInv
    <2> QED  BY <1>1, <2>1, CountNext
  <1>4. PendInv'  BY <1>1, <1>2, <1>3, PendNext
  <1>5. TellInv' /\ ReadInv'  BY <1>1, TellNext, ReadNext
  <1>6. AccountInv' /\ BusyInv' /\ StreamInv'
    BY <1>1, AccountNext, BusyNext, StreamNext
  <1> QED  BY <1>2, <1>3, <1>4, <1>5, <1>6 DEF SerialInv

\* When the engine serves one request at a time, bHas_message is up between requests
\* exactly while there is something to recv: no committ and no release, whatever
\* order the engine takes them in, leaves a reader asleep on a queued message.
THEOREM FlagSafe ==
    ASSUME Serialized
    PROVE  Spec => []FlagTellsQueue
  <1>1. SerialInv => FlagTellsQueue
    <2> SUFFICES ASSUME SerialInv, Quiet, NEW e \in Ends, Open(e)
                 PROVE  "bHas_message" \in con[e] <=> queue[Peer(e)] # <<>>
      BY DEF FlagTellsQueue
    <2>1. TellOK(e)  BY DEF SerialInv, TellInv
    <2>2. ~InRequest(e) /\ ~InRequest(Peer(e))  BY PeerFacts DEF Quiet
    <2>3. ~Raising(Peer(e)) /\ ~Deciding(e)  BY <2>2 DEF Raising, Deciding, InRequest
    <2> QED  BY <2>1, <2>3 DEF TellOK
  <1>2. SerialInv /\ [Next]_vars => SerialInv'  BY SerialNext
  <1> QED  BY SerialInit, <1>1, <1>2, PTL DEF Spec

\* When the engine serves one request at a time, cur_byte_write counts every busy
\* block between requests, once per user of its pool.
THEOREM AccountSafe ==
    ASSUME Serialized
    PROVE  Spec => []AccountExact
  <1>1. SerialInv => AccountExact
    <2> SUFFICES ASSUME SerialInv, Quiet, NEW e \in Ends
                 PROVE  cur_byte_write[e] = Users(e) * Len(busy_list[e])
      BY DEF AccountExact
    <2>1. AccountOK(e) /\ PoolInv /\ ApartInv  BY DEF SerialInv, AccountInv, CountInv
    <2>2. ~InRequest(e) /\ ~InRequest(Peer(e))  BY PeerFacts DEF Quiet
    <2>3. OneIf(pc[e] = "a_account") = 0 /\ OneIf(pc[Peer(e)] = "f_account") = 0
      BY <2>2 DEF InRequest, OneIf
    <2>4. Len(busy_list[e]) \in Nat  BY <2>1, BusyBound
    <2>5. Len(busy_list[e]) - 0 + 0 = Len(busy_list[e])  BY <2>4
    <2> QED  BY <2>1, <2>3, <2>5, Zenon DEF AccountOK
  <1>2. SerialInv /\ [Next]_vars => SerialInv'  BY SerialNext
  <1> QED  BY SerialInit, <1>1, <1>2, PTL DEF Spec

\* When the engine serves one request at a time, a block is lost only with a message
\* that add_queue refused: between requests every other busy block of a connection
\* that nobody closes is queued or in a sender's hand.
THEOREM BusySafe ==
    ASSUME Serialized
    PROVE  Spec => []BusyAccounted
  <1>1. SerialInv => BusyAccounted
    <2> SUFFICES ASSUME SerialInv, Quiet, NEW e \in Ends, Open(e), Open(Peer(e))
                 PROVE  Len(busy_list[e])
                           = Len(queue[e]) + Cardinality(dropped[e]) + OneIf(Held(e))
      BY DEF BusyAccounted
    <2>1. BusyOK(e) /\ PoolInv /\ ApartInv  BY DEF SerialInv, BusyInv, CountInv
    <2>2. ~InRequest(e) /\ ~InRequest(Peer(e))  BY PeerFacts DEF Quiet
    <2>3. Returned(pc[Peer(e)]) = 0  BY <2>2 DEF InRequest, Returned, OneIf
    <2>4. Owned(pc[e]) = OneIf(Held(e))  BY <2>2 DEF InRequest, Owned, Held, OneIf
    <2>5. Len(busy_list[e]) + 0 = Len(busy_list[e])  BY <2>1, BusyBound
    <2>6. Len(busy_list[e]) + Returned(pc[Peer(e)])
             = Len(queue[e]) + Cardinality(dropped[e]) + Owned(pc[e])
      BY <2>1, Zenon DEF BusyOK
    <2> QED  BY <2>3, <2>4, <2>5, <2>6, Zenon
  <1>2. SerialInv /\ [Next]_vars => SerialInv'  BY SerialNext
  <1> QED  BY SerialInit, <1>1, <1>2, PTL DEF Spec

-----------------------------------------------------------------------------
(* The refinement *)

\* A later message put at the end of a history is a post.
LEMMA PostExtends ==
    ASSUME NEW t \in Seq(Nat), NEW n \in Nat, n # 0, \A i \in 1 .. Len(t) : t[i] < n
    PROVE  Promise!Extends(Append(t, n), t) /\ Promise!Last(Append(t, n)) > Promise!Last(t)
  <1>1. /\ Len(Append(t, n)) = Len(t) + 1 /\ Append(t, n) # <<>>
        /\ Append(t, n)[Len(t) + 1] = n /\ SubSeq(Append(t, n), 1, Len(t)) = t
        /\ Len(t) \in Nat
    <2>1. Len(t) \in Nat  OBVIOUS
    <2>2. SubSeq(Append(t, n), 1, Len(t)) = t  OBVIOUS
    <2> QED  BY <2>1, <2>2, Appended
  <1>2. Promise!Last(Append(t, n)) = n  BY <1>1 DEF Promise!Last
  <1>3. CASE t = <<>>  BY <1>1, <1>2, <1>3 DEF Promise!Extends, Promise!Last
  <1>4. CASE t # <<>>
    <2>1. Promise!Last(t) = t[Len(t)] /\ Len(t) \in 1 .. Len(t)
      BY <1>1, <1>4, EmptyIsZero DEF Promise!Last
    <2>2. t[Len(t)] < n /\ t[Len(t)] \in Nat  BY <2>1
    <2>3. Promise!Last(Append(t, n)) > Promise!Last(t)
      BY <1>2, <2>1, <2>2
    <2>4. Promise!Extends(Append(t, n), t)  BY <1>1 DEF Promise!Extends
    <2> QED  BY <2>3, <2>4
  <1> QED  BY <1>3, <1>4

\* The steps at which a message is queued, and what they do to the history.
LEMMA PostSteps ==
    ASSUME ApartInv, PoolInv, NEW e \in Ends, add_queue_fill(e) \/ add_queue_append(e)
    PROVE  /\ UNCHANGED delivered
           /\ pc[e] \in {"c_fill", "c_append"}
           /\ \E step \in {"c_filled", "c_appended"} : Goto(e, step)
           /\ pushed' = [pushed EXCEPT ![e] = Append(@, sent[e])]
  <1>1. CASE add_queue_fill(e)
    <2>1. UNCHANGED delivered /\ pc[e] = "c_fill"
      BY <1>1, SMT DEF add_queue_fill, callVars
    <2> QED  BY <1>1, <2>1, QueueActions
  <1>2. CASE add_queue_append(e)
    <2>1. UNCHANGED delivered /\ pc[e] = "c_append"
      BY <1>2, SMT DEF add_queue_append, callVars
    <2>2. Goto(e, "c_appended")  BY <1>2, Zenon DEF add_queue_append
    <2> QED  BY <1>2, <2>1, <2>2, QueueActions
  <1> QED  BY <1>1, <1>2

\* Every step of a serialized engine is a step of the stream, or none.
LEMMA StreamStep ==
    ASSUME SerialInv, [Next]_vars
    PROVE  [Promise!Next]_(Promise!vars)
  <1>a. /\ CountInv /\ PoolInv /\ NumberTypes /\ ReaderTypes /\ FlagInv /\ ReadInv
        /\ StreamInv /\ HistoryTypes /\ ControlTypes /\ PoolTypes /\ ApartInv
    BY DEF SerialInv, NumberInv, StreamInv, PoolInv, CountInv
  <1>b. Promise!Ends = Ends /\ \A e \in Ends : Promise!Other(e) = Peer(e)
    BY DEF Ends, Promise!Ends, Promise!Other, Peer
  <1> DEFINE shut == {e \in Ends : ~Open(e)}
  <1>1. CASE UNCHANGED vars
    <2>1. UNCHANGED <<pushed, delivered, pc>>  BY <1>1 DEF vars, queueVars, callVars
    <2>2. UNCHANGED shut  BY <2>1 DEF Open
    <2> QED  BY <2>1, <2>2 DEF Promise!vars
  <1>2. ASSUME NEW e \in Ends, \A f \in Ends : f # e => pc'[f] = pc[f],
               Open(e)' <=> Open(e)
        PROVE  UNCHANGED shut
    BY <1>2 DEF Open
  <1>3. ASSUME NEW e \in Ends, Call(e) \/ Step(e)
        PROVE  [Promise!Next]_(Promise!vars)
    <2>a. \A step : Goto(e, step) => pc'[e] = step /\ \A f \in Ends : f # e => pc'[f] = pc[f]
      BY <1>a DEF Goto, ControlTypes
    <2>1. CASE add_queue_fill(e) \/ add_queue_append(e)
      <3>1. /\ UNCHANGED delivered /\ pc[e] \in {"c_fill", "c_append"}
            /\ \E step \in {"c_filled", "c_appended"} : Goto(e, step)
            /\ pushed' = [pushed EXCEPT ![e] = Append(@, sent[e])]
        BY <1>a, <2>1, PostSteps
      <3>2. Open(e) /\ Open(e)' /\ \A f \in Ends : f # e => pc'[f] = pc[f]
        BY <3>1, <2>a DEF Open
      <3>3. UNCHANGED shut  BY <1>2, <3>2
      <3>4. Promise!Post(e)
        <4> DEFINE t == pushed[e]
                   n == sent[e]
        <4>1. Sending(e)  BY <3>1 DEF Sending, Held
        <4>2. t \in Seq(Nat) /\ n \in Nat /\ n # 0
          BY <1>a, <4>1 DEF HistoryTypes, PoolTypes, ReadInv, FillOK
        <4>3. \A i \in 1 .. Len(t) : t[i] < n
          BY <1>a, <4>1 DEF StreamInv, SentOK
        <4>4. pushed'[e] = Append(t, n)
          BY <1>a, <3>1, Zenon DEF HistoryTypes
        <4> HIDE DEF t, n
        <4>5. Promise!Extends(Append(t, n), t) /\ Promise!Last(Append(t, n)) > Promise!Last(t)
          BY <4>2, <4>3, PostExtends
        <4>6. pushed' = [pushed EXCEPT ![e] = pushed'[e]]
          BY <3>1, <4>4, Zenon DEF t, n
        <4>7. e \notin shut  BY <3>2
        <4> QED
          BY <3>1, <3>3, <4>4, <4>5, <4>6, <4>7, Zenon DEF Promise!Post, t
      <3> QED  BY <1>b, <3>4 DEF Promise!Next
    <2>2. CASE finish_return(e)
      <3>1. /\ pc[e] = "d_flags" /\ Goto(e, "ready") /\ UNCHANGED pushed
            /\ delivered' = [delivered EXCEPT ![e] = Append(@, got[e])]
        <4>1. pc[e] = "d_flags" /\ UNCHANGED pushed  BY <2>2, SMT DEF finish_return
        <4> QED  BY <1>a, <2>2, <4>1, Returning
      <3>2. Open(e) /\ Open(e)' /\ \A f \in Ends : f # e => pc'[f] = pc[f]
        BY <3>1, <2>a DEF Open
      <3>3. UNCHANGED shut  BY <1>2, <3>2
      <3>4. got[e] = pushed[Peer(e)][Len(delivered[e]) + 1] /\ Len(delivered[e]) < Len(pushed[Peer(e)])
        <4>1. GivenOK(e) /\ Receiving(e) /\ Taking(pc[e]) = 1 /\ Unfilled(pc[Peer(e)]) = 0
          <5>1. InRequest(e) /\ ~InRequest(Peer(e))
            BY <1>a, <3>1, OtherIdle DEF InRequest, ApartInv
          <5> QED  BY <1>a, <3>1, <5>1 DEF StreamInv, Receiving, Taking, Unfilled, OneIf, InRequest
        <4>2. /\ got[e] = pushed[Peer(e)][Len(delivered[e]) + 1]
              /\ Len(pushed[Peer(e)]) + 0 = (Len(delivered[e]) + 1) + Len(queue[Peer(e)])
          BY <4>1, Zenon DEF GivenOK
        <4>3. \A a, b, c \in Nat : a + 0 = (b + 1) + c => b < a  OBVIOUS
        <4>4. /\ Len(pushed[Peer(e)]) \in Nat /\ Len(delivered[e]) \in Nat
              /\ Len(queue[Peer(e)]) \in Nat
          <5>1. /\ pushed[Peer(e)] \in Seq(Nat) /\ delivered[e] \in Seq(Nat)
                /\ queue[Peer(e)] \in Seq(Message)
            BY <1>a, PeerFacts DEF HistoryTypes, PoolTypes
          <5> QED  BY <5>1
        <4>5. Len(delivered[e]) < Len(pushed[Peer(e)])  BY <4>2, <4>3, <4>4
        <4> QED  BY <4>2, <4>5
      <3>5. delivered' = [delivered EXCEPT ![e] = Append(@, pushed[Peer(e)][Len(@) + 1])]
        BY <3>1, <3>4, Zenon
      <3>6. Promise!Receive(e)
        BY <1>b, <3>1, <3>2, <3>3, <3>4, <3>5 DEF Promise!Receive
      <3> QED  BY <1>b, <3>6 DEF Promise!Next
    <2>3. CASE Close(e)
      <3>1. /\ pc[e] = "ready" /\ Goto(e, "k_flags") /\ UNCHANGED <<pushed, delivered>>
        BY <2>3, SMT DEF Close, callVars
      <3>2. /\ Open(e) /\ ~Open(e)'
            /\ \A f \in Ends : f # e => pc'[f] = pc[f]
        BY <3>1, <2>a DEF Open
      <3>3. e \notin shut /\ shut' = shut \cup {e}
        BY <3>2 DEF Open
      <3>4. Promise!Shut(e)  BY <3>1, <3>3 DEF Promise!Shut
      <3> QED  BY <1>b, <3>4 DEF Promise!Next
    <2>4. CASE Send(e) \/ add_queue_link(e) \/ delete_head_queue_pop(e) \/ count_one(e)
      <3>1. /\ UNCHANGED <<pushed, delivered>>
            /\ pc[e] \in {"ready", "c_link", "f_head", "d_one"}
            /\ \E step \in {"s_wait", "c_fill", "c_append", "f_unlock", "d_load"} :
                   Goto(e, step)
        <4>1. CASE Send(e)  BY <4>1, SMT DEF Send
        <4>2. CASE delete_head_queue_pop(e)
          BY <4>2, SMT DEF delete_head_queue_pop, callVars
        <4>3. CASE count_one(e)
          <5>1. pc[e] = "d_one" /\ UNCHANGED pushed  BY <4>3, SMT DEF count_one
          <5>2. Goto(e, "d_load") /\ UNCHANGED delivered  BY <1>a, <4>3, Returning
          <5> QED  BY <5>1, <5>2
        <4>4. CASE add_queue_link(e)
          <5>1. pc[e] = "c_link" /\ UNCHANGED <<pushed, delivered>>
            BY <4>4, SMT DEF add_queue_link, callVars
          <5> QED  BY <1>a, <4>4, <5>1, QueueActions
        <4> QED  BY <2>4, <4>1, <4>2, <4>3, <4>4
      <3>2. Open(e) /\ Open(e)' /\ \A f \in Ends : f # e => pc'[f] = pc[f]
        BY <3>1, <2>a DEF Open
      <3>3. UNCHANGED shut  BY <1>2, <3>2
      <3> QED  BY <3>1, <3>3 DEF Promise!vars
    <2>5. ASSUME ~Send(e), ~add_queue_link(e), ~add_queue_fill(e), ~add_queue_append(e),
                 ~delete_head_queue_pop(e), ~count_one(e), ~finish_return(e), ~Close(e)
          PROVE  [Promise!Next]_(Promise!vars)
      <3>1. /\ UNCHANGED <<pushed, delivered>>
            /\ \A f \in Ends : f # e => pc'[f] = pc[f]
            /\ Open(e)' <=> Open(e)
        BY <1>3, <1>a, <2>5, StreamCalm
      <3>2. UNCHANGED shut  BY <1>2, <3>1
      <3> QED  BY <3>1, <3>2 DEF Promise!vars
    <2> QED  BY <1>3, <2>1, <2>2, <2>3, <2>4, <2>5
  <1>4. CASE Next
    <2>1. PICK e \in Ends : Call(e) \/ Step(e)  BY <1>4 DEF Next
    <2> QED  BY <1>3, <2>1
  <1> QED  BY <1>1, <1>4

\* When the engine serves one request at a time, a connection is the stream its
\* programs count on, for any number of blocks and of sends, whoever closes.
THEOREM StreamSafe ==
    ASSUME Serialized
    PROVE  Spec => ImplementsStream
  <1>1. Init => Promise!Init
    <2> SUFFICES ASSUME Init PROVE Promise!Init  OBVIOUS
    <2>1. /\ pushed = [e \in Ends |-> <<>>] /\ delivered = [e \in Ends |-> <<>>]
          /\ \A e \in Ends : pc[e] = "ready"
      BY DEF Init
    <2>2. {e \in Ends : ~Open(e)} = {}  BY <2>1 DEF Open
    <2> QED  BY <2>1, <2>2 DEF Promise!Init, Promise!Ends, Ends
  <1>2. SerialInv /\ [Next]_vars => SerialInv'  BY SerialNext
  <1>3. SerialInv /\ [Next]_vars => [Promise!Next]_(Promise!vars)  BY StreamStep
  <1> QED  BY SerialInit, <1>1, <1>2, <1>3, PTL DEF Spec, ImplementsStream, Promise!Spec

-----------------------------------------------------------------------------
(* What Channel supposes of a pool is what Rings provides *)

\* The pool that e writes to, as the two queues of Fifos.
Pool(e) == INSTANCE Fifos WITH idle <- idle_list[e], busy <- busy_list[e]

\* What a step may do to the pool of e.
PoolMoves(e) ==
    \/ UNCHANGED <<idle_list[e], busy_list[e]>>
    \/ Pool(e)!Take
    \/ Pool(e)!Give

\* Only an allocation and a release move blocks, each the head of one ring, and
\* neither finds that ring empty.
LEMMA PoolMoved ==
    ASSUME PoolInv, [Next]_vars, NEW e \in Ends
    PROVE  PoolMoves(e)
  <1>1. CASE UNCHANGED <<idle_list, busy_list>>
    BY <1>1 DEF PoolMoves
  <1>2. ASSUME NEW f \in Ends, aplly_memory(f)
        PROVE  PoolMoves(e)
    <2>1. CASE idle_block[f] = 0
      BY <1>1, <1>2, <2>1 DEF aplly_memory, move_to_busy_list
    <2>2. CASE idle_block[f] # 0
      <3>1. /\ idle_list' = [idle_list EXCEPT ![f] = Tail(@)]
            /\ busy_list' = [busy_list EXCEPT ![f] = Append(@, Head(idle_list[f]))]
        BY <1>2, <2>2 DEF aplly_memory, move_to_busy_list
      <3>2. idle_list[f] # <<>>
        <4>1. ~torn[f]  BY <1>2 DEF aplly_memory
        <4>2. RingOK(f)  BY <4>1 DEF PoolInv, PoolOK
        <4> QED  BY <2>2, <4>2 DEF RingOK
      <3>3. idle_list \in [Ends -> Seq(Blocks)] /\ busy_list \in [Ends -> Seq(Blocks)]
        BY DEF PoolInv, PoolTypes
      <3>4. CASE f = e
        BY <3>1, <3>2, <3>3, <3>4, Zenon DEF PoolMoves, Pool!Take
      <3>5. CASE f # e
        BY <3>1, <3>3, <3>5, Zenon DEF PoolMoves
      <3> QED  BY <3>4, <3>5
    <2> QED  BY <2>1, <2>2
  <1>3. ASSUME NEW f \in Ends, release_memory(f)
        PROVE  PoolMoves(e)
    <2> DEFINE p == Peer(f)
    <2>1. CASE UNCHANGED <<idle_list, busy_list>>
      BY <1>1, <2>1
    <2>2. CASE ~UNCHANGED <<idle_list, busy_list>>
      <3>1. /\ idle_list' = [idle_list EXCEPT ![p] = Append(@, Head(busy_list[p]))]
            /\ busy_list' = [busy_list EXCEPT ![p] = Tail(@)]
            /\ InRing(busy_list[p], block[f].off)
        BY <1>3, <2>2, Zenon DEF release_memory, move_to_idle_list
      <3>2. busy_list[p] # <<>>
        BY <3>1 DEF InRing
      <3>3. idle_list \in [Ends -> Seq(Blocks)] /\ busy_list \in [Ends -> Seq(Blocks)]
        BY DEF PoolInv, PoolTypes
      <3>4. CASE p = e
        BY <3>1, <3>2, <3>3, <3>4, Zenon DEF PoolMoves, Pool!Give
      <3>5. CASE p # e
        BY <3>1, <3>3, <3>5, Zenon DEF PoolMoves
      <3> QED  BY <3>4, <3>5
    <2> QED  BY <2>1, <2>2
  <1>4. CASE \E f \in Ends : \/ Send(f) \/ copy_in(f) \/ aplly_memory_torn(f)
                             \/ add_queue_link(f) \/ add_queue_fill(f)
                             \/ add_queue_append(f) \/ release_memory_torn(f)
                             \/ delete_head_queue_pop(f)
    <2>1. UNCHANGED <<idle_list, busy_list>>
      BY <1>4, SMT DEF Send, copy_in, aplly_memory_torn, add_queue_link,
         add_queue_fill, add_queue_append, release_memory_torn,
         delete_head_queue_pop, poolVars
    <2> QED  BY <1>1, <2>1
  <1>5. CASE UNCHANGED dataVars
    BY <1>1, <1>5 DEF dataVars
  <1>6. CASE Next
    BY <1>2, <1>3, <1>4, <1>5, <1>6, PoolSteps DEF dataVars
  <1>7. CASE UNCHANGED vars
    BY <1>1, <1>7 DEF vars, poolVars, queueVars
  <1> QED  BY <1>6, <1>7

\* When the engine serves one request at a time, each of the two pools of a
\* connection is used as the two queues that the rings of module Rings implement: a
\* block is taken from the front of one and put at the back of the other, and from no
\* empty one; and no two handlers are ever at it together.
THEOREM PoolIsFifos ==
    ASSUME Serialized, NEW e \in Ends
    PROVE  Spec => Pool(e)!Spec /\ [](~torn[e])
  <1> DEFINE IInv == PoolInv /\ ApartInv
  <1>1. Init => Pool(e)!Init
    BY DEF Init, Pool!Init
  <1>2. Init => IInv
    BY PoolInit, ApartInit
  <1>3. IInv /\ [Next]_vars => IInv'
    <2>1. PoolInv => ControlTypes  BY DEF PoolInv
    <2> QED  BY <2>1, PoolNext, ApartNext
  <1>4. IInv => ~torn[e]
    BY DEF ApartInv, ApartOK
  <1>5. IInv /\ [Next]_vars =>
            [Pool(e)!Take \/ Pool(e)!Give]_<<idle_list[e], busy_list[e]>>
    BY PoolMoved DEF PoolMoves
  <1> HIDE DEF IInv
  <1> QED  BY <1>1, <1>2, <1>3, <1>4, <1>5, PTL DEF Spec, Pool!Spec
=============================================================================
