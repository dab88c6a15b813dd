------------------------------- MODULE Rings -------------------------------
(***************************************************************************)
(* The fragment manager of one memory pool, pointer by pointer: the blocks *)
(* are nodes of two doubly linked rings, idle and busy, whose heads are    *)
(* NULL when they are empty, and a move detaches the head of the one and   *)
(* appends it to the other.  Module Channel has sequences in this place.   *)
(*                                                                         *)
(* Two locks protect it, the pool's and the manager's.  To take either is  *)
(* to test a word and then to store it, two steps.  What is done under the *)
(* manager's lock is one step.                                             *)
(*                                                                         *)
(* A thread is a handler of the engine that works on the pool.  It         *)
(* releases only blocks that were handed out and not yet released, as      *)
(* NeverWedged of Channel shows, but not always the oldest: a message that *)
(* add_queue refuses keeps its block.                                      *)
(***************************************************************************)
EXTENDS Integers, FiniteSets, Sequences

CONSTANTS NB,            \* blocks of the pool: 8 in the code
          Threads,
          NULL,
          Serialized     \* TRUE: the engine runs one request at a time

ASSUME RingsAssumption ==
    /\ NB \in Nat \ {0} /\ NULL \notin 0 .. NB - 1
    /\ Serialized \in BOOLEAN

Blocks == 0 .. NB - 1

VARIABLES
    Flink, Blink,              \* of the node of each block
    idle_list, busy_list,      \* heads of the rings
    idle_block, busy_block,    \* the manager's counters
    locked, frag_locked,       \* the pool's lock and the manager's
    pc, op,                    \* step of a thread, and what it was called for
    st,                        \* the block it releases or was given
    held,                      \* blocks handed out and not released
    result                     \* what its last call returned

linkVars == <<Flink, Blink>>
ringVars == <<linkVars, idle_list, busy_list, idle_block, busy_block>>
lockVars == <<locked, frag_locked>>
vars == <<ringVars, lockVars, pc, op, st, held, result>>

Goto(t, step) == pc' = [pc EXCEPT ![t] = step]
MayStart(t) == Serialized => \A u \in Threads \ {t} : pc[u] = "idle"

-----------------------------------------------------------------------------
(* The list functions, as what they make of the links *)

\* mutant: the node is put in front of the second, as add_listF does
AddSecond(f, b, pos, target) ==
    << [f EXCEPT ![target] = f[pos], ![pos] = target],
       [b EXCEPT ![f[pos]] = target, ![target] = pos] >>
\* The target goes before pos, at the end of the ring pos is the head of.
add_list(f, b, pos, target) ==
    << [f EXCEPT ![target] = pos, ![b[pos]] = target],
       [b EXCEPT ![pos] = target, ![target] = b[pos]] >>

\* mutant: the neighbours keep their links to the target on one side
DetachOneWay(f, b, target) ==
    << [f EXCEPT ![b[target]] = f[target], ![target] = target],
       [b EXCEPT ![target] = target] >>
detach_list(f, b, target) ==
    << [f EXCEPT ![b[target]] = f[target], ![target] = target],
       [b EXCEPT ![f[target]] = b[target], ![target] = target] >>

\* The head a ring has once its head is taken.
NextHead(head) == IF Flink[head] = head THEN NULL ELSE Flink[head]

\* The links after the head of one ring has been moved to the other.
Moved(from, to) ==
    LET links == detach_list(Flink, Blink, from)
    IN  IF to = NULL THEN links ELSE add_list(links[1], links[2], to, from)

\* The blocks of a ring: those in every set of blocks that has the head and
\* is closed under Flink.
ClosedUnder(f, S) == \A n \in S : f[n] \in S
RingOf(head) ==
    IF head = NULL THEN {}
    ELSE {n \in Blocks : \A S \in SUBSET Blocks :
              (head \in S /\ ClosedUnder(Flink, S)) => n \in S}

-----------------------------------------------------------------------------
(* aplly_memory and release_memory *)

aplly_memory(t) ==
    /\ pc[t] = "idle" /\ MayStart(t)
    /\ op' = [op EXCEPT ![t] = "aplly"]
    /\ Goto(t, "test")
    /\ UNCHANGED <<ringVars, lockVars, st, held, result>>

release_memory(t) ==
    /\ pc[t] = "idle" /\ MayStart(t)
    /\ op' = [op EXCEPT ![t] = "release"]
    /\ \E n \in held : st' = [st EXCEPT ![t] = n] /\ held' = held \ {n}
    /\ Goto(t, "test")
    /\ UNCHANGED <<ringVars, lockVars, result>>

try_locked_memory_pool(t) ==
    /\ \/ pc[t] = "test" /\ ~locked /\ Goto(t, "set") /\ UNCHANGED locked
       \/ pc[t] = "set" /\ locked' = TRUE /\ Goto(t, "find")
    /\ UNCHANGED <<ringVars, frag_locked, op, st, held, result>>

\* Is there an idle block; is the block to be released in the busy ring.  A
\* release that meets an empty busy ring (it would return with the lock up) is
\* left to Channel, where NeverWedged shows that there is none.
find(t) ==
    /\ pc[t] = "find"
    /\ \/ /\ op[t] = "aplly"
          /\ \/ idle_block # 0 /\ Goto(t, "frag_test") /\ UNCHANGED result
             \/ /\ idle_block = 0
                /\ Goto(t, "unlock")
                /\ result' = [result EXCEPT ![t] = "full"]
       \/ /\ op[t] = "release"
          /\ \/ st[t] \in RingOf(busy_list) /\ Goto(t, "frag_test") /\ UNCHANGED result
             \/ /\ busy_list # NULL /\ st[t] \notin RingOf(busy_list)
                /\ Goto(t, "unlock")
                /\ result' = [result EXCEPT ![t] = "absent"]
    /\ UNCHANGED <<ringVars, lockVars, op, st, held>>

lock_fragment_manager(t) ==
    /\ \/ /\ pc[t] = "frag_test" /\ ~frag_locked
          /\ Goto(t, "frag_set") /\ UNCHANGED frag_locked
       \/ pc[t] = "frag_set" /\ frag_locked' = TRUE /\ Goto(t, "move")
    /\ UNCHANGED <<ringVars, locked, op, st, held, result>>

move_to_busy_list(t) ==
    /\ pc[t] = "move" /\ op[t] = "aplly"
    /\ Flink' = Moved(idle_list, busy_list)[1]
    /\ Blink' = Moved(idle_list, busy_list)[2]
    /\ idle_list' = NextHead(idle_list)
    /\ busy_list' = IF busy_list = NULL THEN idle_list ELSE busy_list
    /\ idle_block' = idle_block - 1 /\ busy_block' = busy_block + 1
    /\ st' = [st EXCEPT ![t] = idle_list]
    /\ held' = held \cup {idle_list}
    /\ result' = [result EXCEPT ![t] = "ok"]
    /\ Goto(t, "frag_unlock")
    /\ UNCHANGED <<lockVars, op>>

\* The head of the busy ring is moved, whichever block was to be released.
move_to_idle_list(t) ==
    /\ pc[t] = "move" /\ op[t] = "release"
    /\ Flink' = Moved(busy_list, idle_list)[1]
    /\ Blink' = Moved(busy_list, idle_list)[2]
    /\ busy_list' = NextHead(busy_list)
    /\ idle_list' = IF idle_list = NULL THEN busy_list ELSE idle_list
    /\ idle_block' = idle_block + 1 /\ busy_block' = busy_block - 1
    /\ result' = [result EXCEPT ![t] = "ok"]
    /\ Goto(t, "frag_unlock")
    /\ UNCHANGED <<lockVars, op, st, held>>

unlock_fragment_manager(t) ==
    /\ pc[t] = "frag_unlock"
    /\ frag_locked' = FALSE
    /\ Goto(t, "unlock")
    /\ UNCHANGED <<ringVars, locked, op, st, held, result>>

\* mutant: a call that found nothing returns without the unlock
UnlockedIfDone(t) == IF result[t] = "ok" THEN FALSE ELSE locked
Unlocked(t) == FALSE

unlocked_memory_pool(t) ==
    /\ pc[t] = "unlock"
    /\ locked' = Unlocked(t)
    /\ Goto(t, "idle")
    /\ UNCHANGED <<ringVars, frag_locked, op, st, held, result>>

-----------------------------------------------------------------------------
NextNode(n) == IF n = NB - 1 THEN 0 ELSE n + 1

\* init_idle_list: a ring of all blocks in the order of their offsets.
Init ==
    /\ Flink = [n \in Blocks |-> NextNode(n)]
    /\ Blink = [n \in Blocks |-> IF n = 0 THEN NB - 1 ELSE n - 1]
    /\ idle_list = 0 /\ busy_list = NULL
    /\ idle_block = NB /\ busy_block = 0
    /\ locked = FALSE /\ frag_locked = FALSE
    /\ pc = [t \in Threads |-> "idle"] /\ op = [t \in Threads |-> "aplly"]
    /\ st = [t \in Threads |-> 0]
    /\ held = {}
    /\ result = [t \in Threads |-> "ok"]

Call(t) == aplly_memory(t) \/ release_memory(t)
Step(t) ==
    \/ try_locked_memory_pool(t) \/ find(t) \/ lock_fragment_manager(t)
    \/ move_to_busy_list(t) \/ move_to_idle_list(t)
    \/ unlock_fragment_manager(t) \/ unlocked_memory_pool(t)

Next == \E t \in Threads : Call(t) \/ Step(t)

\* A handler thread that is in a call keeps running.
Spec == Init /\ [][Next]_vars /\ \A t \in Threads : WF_vars(Step(t))

-----------------------------------------------------------------------------
(* Properties *)

\* The type invariant: every link, head and lock is of its kind.
TypeOK ==
    /\ Flink \in [Blocks -> Blocks] /\ Blink \in [Blocks -> Blocks]
    /\ idle_list \in Blocks \cup {NULL} /\ busy_list \in Blocks \cup {NULL}
    /\ idle_block \in 0 .. NB /\ busy_block \in 0 .. NB
    /\ locked \in BOOLEAN /\ frag_locked \in BOOLEAN
    /\ st \in [Threads -> Blocks] /\ held \subseteq Blocks

\* The links are those of two rings: Blink undoes Flink, every block is in
\* exactly one of the rings, and the counters count them.
RingsWhole ==
    /\ \A n \in Blocks : Blink[Flink[n]] = n /\ Flink[Blink[n]] = n
    /\ RingOf(idle_list) \cap RingOf(busy_list) = {}
    /\ RingOf(idle_list) \cup RingOf(busy_list) = Blocks
    /\ idle_block = Cardinality(RingOf(idle_list))
    /\ busy_block = Cardinality(RingOf(busy_list))

\* Every call of aplly_memory or release_memory ends: no way out of either
\* leaves a lock up that the next call would spin on.
CallsEnd == \A t \in Threads : pc[t] = "test" ~> pc[t] = "idle"

\* The blocks of a ring in the order of its links, from its head.
Follows(f, head, w) ==
    \A k \in DOMAIN w : w[k] = IF k = 1 THEN head ELSE f[w[k - 1]]
Walk(f, head, length) == CHOOSE w \in [1 .. length -> Blocks] : Follows(f, head, w)

\* The two rings are the two queues of Fifos.
Queues == INSTANCE Fifos WITH idle <- Walk(Flink, idle_list, idle_block),
                              busy <- Walk(Flink, busy_list, busy_block)
ImplementsFifos == Queues!Spec
=============================================================================
