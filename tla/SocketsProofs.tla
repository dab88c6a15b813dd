--------------------------- MODULE SocketsProofs ---------------------------
(***************************************************************************)
(* Proofs about module Sockets, for any programs, ports and number of      *)
(* slots: types and the table for every interleaving of the handler        *)
(* threads; slots, links, ports and the telling of a close for an engine   *)
(* that serves one request at a time.                                      *)
(***************************************************************************)
EXTENDS Sockets, FiniteSetTheorems, LeastNumber, TLAPS

-----------------------------------------------------------------------------
(* The next index stays inside the table. *)

\* A set of natural numbers has a least element.
LEMMA LeastIn ==
    ASSUME NEW S \in SUBSET Nat, S # {}
    PROVE  Least(S) \in S /\ \A j \in S : Least(S) <= j
<1>1. \E i \in S : \A j \in S : i <= j
  BY LeastExists
<1> QED
  BY <1>1 DEF Least

\* find_next_useful_index_of_globel_table answers a slot.
LEMMA NextFreeIn ==
    ASSUME NEW last \in Slots
    PROVE  NextFree(last) \in Slots
<1>1. CASE Taken = Slots
  BY <1>1 DEF NextFree
<1>2. CASE Taken # Slots
  <2>1. Slots \ Taken # {} /\ Slots \ Taken \in SUBSET Nat
    BY <1>2, SocketsAssumption DEF Taken, Slots
  <2>2. Least(Slots \ Taken) \in Slots \ Taken
    BY <2>1, LeastIn
  <2> QED
    BY <1>2, <2>2 DEF NextFree
<1> QED
  BY <1>1, <1>2

-----------------------------------------------------------------------------
(* Types *)

\* What is looked up in a typed table is an object or NULL.
LEMMA AtTyped ==
    ASSUME addr \in [Slots -> Programs \cup {NULL}]
    PROVE  \A index : /\ At(index) \in Programs \cup {NULL}
                      /\ At(index) # NULL => index \in Slots /\ At(index) = addr[index]
  BY DEF At

LEMMA TargetTyped ==
    ASSUME addr \in [Slots -> Programs \cup {NULL}]
    PROVE  \A o : Target(o) \in Programs \cup {NULL}
  BY AtTyped DEF Target

\* A handler frees an object, never NULL.
TypeInv == TypeOK /\ \A p \in Programs : pc[p] = "x_drop" => fs[p] # NULL

LEMMA TypeInit == Init => TypeInv
<1> SUFFICES ASSUME Init PROVE TypeInv
  OBVIOUS
<1> USE DEF Init
<1>1. 0 \in Slots /\ 0 \in Nat
  BY SocketsAssumption DEF Slots
<1>2. /\ addr \in [Slots -> Programs \cup {NULL}]
      /\ cs \in [Programs -> Programs \cup {NULL}]
      /\ fs \in [Programs -> Programs \cup {NULL}]
  OBVIOUS
<1>3. /\ global_table_index \in [Programs -> Slots]
      /\ target_global_table_index \in [Programs -> Slots \cup {-1}]
      /\ fd \in [Programs -> Slots \cup {-1}]
      /\ port \in [Programs -> Nat]
      /\ reg \in [Programs -> Nat]
  BY <1>1
<1>4. /\ pools \in [Programs -> {"none", "pools", "queues"}]
      /\ flags \in [Programs -> SUBSET {"bHas_connect", "bIs_close", "self_close"}]
      /\ pc \in [Programs -> Steps]
  BY Zenon DEF Steps
<1>5. freed \in SUBSET Programs /\ crashed \in BOOLEAN /\ lost \in SUBSET Programs
  OBVIOUS
<1>7. byte \in [Programs -> SUBSET {"bHas_connect", "bIs_close", "self_close"}]
  BY Zenon
<1>6. \A p \in Programs : pc[p] # "x_drop"
  OBVIOUS
<1> QED
  BY <1>1, <1>2, <1>3, <1>4, <1>5, <1>6, <1>7 DEF TypeInv, TypeOK

\* Flags stay flags when a socket is closed.
LEMMA CloseFlagsTyped ==
    ASSUME TypeOK, NEW o, NEW t
    PROVE  CloseFlags(o, t) \in
               [Programs -> SUBSET {"bHas_connect", "bIs_close", "self_close"}]
  BY DEF CloseFlags, TypeOK

\* Every call keeps the types.
LEMMA TypeCall ==
    ASSUME TypeInv, NEW p \in Programs, Call(p)
    PROVE  TypeInv'
<1> USE DEF TypeInv, TypeOK, Goto, Fetch, tableVars, objectVars, engineVars,
            acceptVars, Steps
<1> \A i : At(i) \in Programs \cup {NULL}
  BY AtTyped
<1>1. CASE Create(p)
  BY <1>1 DEF Create
<1>2. CASE ApllyPort(p)
  BY <1>2 DEF ApllyPort
<1>3. CASE init_user_struct_memory_pool(p)
  <2>1. pools' \in [Programs -> {"none", "pools", "queues"}]
    BY <1>3 DEF init_user_struct_memory_pool
  <2>2. /\ pc' \in [Programs -> Steps]
        /\ \A q \in Programs : pc'[q] = "x_drop" => pc[q] = "x_drop"
    BY <1>3 DEF init_user_struct_memory_pool
  <2>3. crashed' \in BOOLEAN
    BY <1>3 DEF init_user_struct_memory_pool
  <2> QED
    BY <1>3, <2>1, <2>2, <2>3 DEF init_user_struct_memory_pool
<1>4. CASE ConnectPort(p)
  BY <1>4 DEF ConnectPort
<1>5. CASE kill_self(p)
  BY <1>5, CloseFlagsTyped DEF kill_self
<1> QED
  BY <1>1, <1>2, <1>3, <1>4, <1>5 DEF Call

\* make_bridge links the object to a slot of the table, and back.
LEMMA BridgeTyped ==
    ASSUME TypeInv, NEW p \in Programs, make_bridge(p)
    PROVE  target_global_table_index' \in [Programs -> Slots \cup {-1}]
<1> DEFINE ends == Ends(Remote[p])
           i == Least(ends)
<1>1. CASE UNCHANGED target_global_table_index
  BY <1>1 DEF TypeInv, TypeOK
<1>2. CASE /\ ends # {} /\ addr[i] # NULL /\ At(fd[p]) # NULL
           /\ target_global_table_index' = Bridge(i, fd[p])
  <2>1. i \in Slots
    <3>1. ends \in SUBSET Nat /\ ends \subseteq Slots
      BY SocketsAssumption DEF Ends, Slots
    <3> HIDE DEF ends
    <3> QED
      BY <1>2, <3>1, LeastIn
  <2>2. addr[i] \in Programs
    BY <1>2, <2>1 DEF TypeInv, TypeOK
  <2>3. fd[p] \in Slots /\ addr[fd[p]] \in Programs
    BY <1>2 DEF At, TypeInv, TypeOK
  <2> HIDE DEF i
  <2> QED
    BY <1>2, <2>1, <2>2, <2>3 DEF Bridge, TypeInv, TypeOK
<1> QED
  BY <1>1, <1>2 DEF make_bridge

\* Every step that follows a call keeps the types.
LEMMA TypeStep ==
    ASSUME TypeInv, NEW p \in Programs, Step(p)
    PROVE  TypeInv'
<1> USE DEF TypeInv, TypeOK, Goto, Fetch, tableVars, objectVars, engineVars,
            acceptVars, Steps
<1>1. \A j : At(j) \in Programs \cup {NULL}
  BY AtTyped
<1>2. \A o : Target(o) \in Programs \cup {NULL}
  BY TargetTyped
<1>3. CASE Create_store(p)
  BY <1>3, SocketsAssumption DEF Create_store, Slots
<1>4. CASE Create_index(p)
  BY <1>4 DEF Create_index
<1>5. CASE find_next_useful_index_of_globel_table(p)
  BY <1>5, NextFreeIn DEF find_next_useful_index_of_globel_table
<1>6. CASE add_user_connect_load(p)
  BY <1>6 DEF add_user_connect_load
<1>7. CASE add_user_connect_store(p)
  BY <1>7 DEF add_user_connect_store
<1>8. CASE Apply(p)
  BY <1>8 DEF Apply
<1>9. CASE ApllyPort_copy(p)
  BY <1>9, SocketsAssumption DEF ApllyPort_copy
<1>10. CASE upload_pool(p)
  <2> DEFINE o == At(fd[p])
             t == Target(o)
             box == [cs EXCEPT ![o] = p]
  <2>1. /\ box \in [Programs -> Programs \cup {NULL}]
        /\ cs' \in [Programs -> Programs \cup {NULL}]
    <3>1. box \in [Programs -> Programs \cup {NULL}]
      OBVIOUS
    <3>2. cs' = cs \/ cs' = box
      BY <1>10 DEF upload_pool, Announce
    <3> QED
      BY <3>1, <3>2
  <2>2. flags' \in [Programs -> SUBSET {"bHas_connect", "bIs_close", "self_close"}]
    <3>1. \/ UNCHANGED flags
          \/ t # NULL /\ box[t] # NULL
             /\ flags' = [flags EXCEPT ![box[t]] = @ \cup {"bHas_connect"}]
      BY <1>10 DEF upload_pool, Announce
    <3>2. t \in Programs \cup {NULL}
      BY <1>2
    <3> HIDE DEF box, t
    <3> QED
      BY <2>1, <3>1, <3>2
  <2>3. crashed' \in BOOLEAN
    BY <1>10 DEF upload_pool, Announce
  <2>4. /\ pc' \in [Programs -> Steps]
        /\ \A q \in Programs : pc'[q] = "x_drop" => pc[q] = "x_drop"
    BY <1>10 DEF upload_pool, Announce
  <2> QED
    BY <1>10, <2>1, <2>2, <2>3, <2>4 DEF upload_pool
<1>11. CASE init_user_message_information_struct(p)
  <2>1. pools' \in [Programs -> {"none", "pools", "queues"}]
    BY <1>1, <1>11 DEF init_user_message_information_struct
  <2>2. /\ pc' \in [Programs -> Steps]
        /\ \A q \in Programs : pc'[q] = "x_drop" => pc[q] = "x_drop"
    BY <1>1, <1>11 DEF init_user_message_information_struct
  <2>3. crashed' \in BOOLEAN
    BY <1>1, <1>11 DEF init_user_message_information_struct
  <2> QED
    BY <1>11, <2>1, <2>2, <2>3 DEF init_user_message_information_struct
<1>12. CASE accept_load(p)
  BY <1>12 DEF accept_load
<1>a. CASE accept_store(p)
  <2>1. flags' \in [Programs -> SUBSET {"bHas_connect", "bIs_close", "self_close"}]
    BY <1>a DEF accept_store
  <2>2. lost' \in SUBSET Programs
    BY <1>a, Zenon DEF accept_store
  <2> QED
    BY <1>a, <2>1, <2>2 DEF accept_store
<1>13. CASE make_bridge(p)
  <2>1. target_global_table_index' \in [Programs -> Slots \cup {-1}]
    BY <1>13, BridgeTyped
  <2>2. crashed' \in BOOLEAN
    BY <1>13 DEF make_bridge
  <2>3. /\ pc' \in [Programs -> Steps]
        /\ \A q \in Programs : pc'[q] = "x_drop" => pc[q] = "x_drop"
    BY <1>13 DEF make_bridge
  <2> QED
    BY <1>13, <2>1, <2>2, <2>3 DEF make_bridge
<1>14. CASE ConnectPort_copy(p)
  BY <1>14, SocketsAssumption DEF ConnectPort_copy
<1>15. CASE set_user_struct_type_client(p)
  <2>1. pools' \in [Programs -> {"none", "pools", "queues"}]
    BY <1>1, <1>2, <1>15 DEF set_user_struct_type_client
  <2>2. /\ pc' \in [Programs -> Steps]
        /\ \A q \in Programs : pc'[q] = "x_drop" => pc[q] = "x_drop"
    BY <1>1, <1>2, <1>15 DEF set_user_struct_type_client
  <2>3. crashed' \in BOOLEAN
    BY <1>1, <1>2, <1>15 DEF set_user_struct_type_client
  <2> QED
    BY <1>15, <2>1, <2>2, <2>3 DEF set_user_struct_type_client
<1>16. CASE close_self(p)
  <2>1. target_global_table_index' \in [Programs -> Slots \cup {-1}]
    BY <1>1, <1>2, <1>16 DEF close_self
  <2>2. flags' \in [Programs -> SUBSET {"bHas_connect", "bIs_close", "self_close"}]
    BY <1>16, CloseFlagsTyped DEF close_self
  <2>3. crashed' \in BOOLEAN
    BY <1>16 DEF close_self
  <2>4. fs' \in [Programs -> Programs \cup {NULL}] /\ fs'[p] = At(fd[p])
    BY <1>1, <1>16 DEF close_self
  <2>5. pc' \in [Programs -> Steps]
    BY <1>16 DEF close_self
  <2>6. Target(NULL) = NULL
    BY DEF Target
  <2>7. pc'[p] = "x_drop" => At(fd[p]) # NULL
    BY <1>16, <2>6 DEF close_self
  <2>8. \A q \in Programs \ {p} : pc'[q] = pc[q] /\ fs'[q] = fs[q]
    BY <1>16 DEF close_self
  <2> QED
    BY <1>16, <2>1, <2>2, <2>3, <2>4, <2>5, <2>7, <2>8 DEF close_self
<1>17. CASE close_self_drop(p)
  BY <1>17 DEF close_self_drop, DropSlot
<1> QED
  BY <1>3, <1>4, <1>5, <1>6, <1>7, <1>8, <1>9, <1>10, <1>11, <1>12, <1>13, <1>14,
     <1>a, <1>15, <1>16, <1>17 DEF Step

\* The types hold, whatever the instance: the next index stays in the table, and
\* descriptors, links and pointers are of the kind the code takes them for.
THEOREM SocketsTyped == Spec => []TypeOK
<1>1. Init => TypeInv
  BY TypeInit
<1>2. TypeInv /\ [Next]_vars => TypeInv'
  <2>1. ASSUME TypeInv, Next PROVE TypeInv'
    BY <2>1, TypeCall, TypeStep DEF Next
  <2>2. ASSUME TypeInv, UNCHANGED vars PROVE TypeInv'
    BY <2>2 DEF vars, tableVars, objectVars, engineVars, acceptVars, TypeInv, TypeOK
  <2> QED
    BY <2>1, <2>2
<1>3. TypeInv => TypeOK
  BY DEF TypeInv
<1> QED
  BY <1>1, <1>2, <1>3, PTL DEF Spec

-----------------------------------------------------------------------------
(* The table never holds a freed object. *)

\* Steps of a program before its object is in the table.
Unborn == {"new", "c_store", "refused"}

\* An object is stored once, so it is in one slot at most.
Once == \A i, j \in Slots : addr[i] = addr[j] /\ addr[i] # NULL => i = j

\* What is in the table, freed, or about to be freed has been stored already.
Stored ==
    /\ \A i \in Slots : addr[i] # NULL => pc[addr[i]] \notin Unborn
    /\ \A o \in freed : pc[o] \notin Unborn
    /\ \A p \in Programs : pc[p] = "x_drop" => pc[fs[p]] \notin Unborn

\* An object about to be freed is in no slot but the one about to be emptied.
Doomed == \A p \in Programs : pc[p] = "x_drop" =>
              \A i \in Slots : addr[i] = fs[p] => i = fd[p]

TableInv == TypeInv /\ Once /\ Stored /\ Doomed /\ FreedNotInTable

LEMMA TableInit == Init => TableInv
  BY TypeInit
  DEF Init, TableInv, Once, Stored, Doomed, FreedNotInTable, Unborn

\* A step of p that leaves the table and the freed objects alone, and neither
\* enters nor leaves close_self_drop, nor goes back before the object is stored.
Aside(p) ==
    /\ UNCHANGED <<addr, freed>>
    /\ \A q \in Programs \ {p} : pc'[q] = pc[q] /\ fs'[q] = fs[q] /\ fd'[q] = fd[q]
    /\ pc[p] # "x_drop" /\ pc'[p] # "x_drop"
    /\ pc'[p] \in Unborn => pc[p] \in Unborn

\* Such a step preserves the invariant.
LEMMA AsideKeeps ==
    ASSUME TableInv, TypeInv', NEW p \in Programs, Aside(p)
    PROVE  TableInv'
<1> USE DEF Aside, TableInv, TypeInv, TypeOK
<1>1. Once'
  BY DEF Once
<1>2. Stored'
  BY SocketsAssumption, SMTT(30) DEF Stored
<1>3. Doomed'
  BY DEF Doomed
<1>4. FreedNotInTable'
  BY DEF FreedNotInTable
<1> QED
  BY <1>1, <1>2, <1>3, <1>4

\* All steps but three are such steps.
LEMMA OthersAside ==
    ASSUME TypeInv, NEW p \in Programs,
           Call(p) \/ Step(p),
           ~Create_store(p), ~close_self(p), ~close_self_drop(p)
    PROVE  Aside(p)
<1> USE DEF Aside, TypeInv, TypeOK, Goto, Fetch, tableVars, objectVars, engineVars,
        Unborn
<1>1. CASE Call(p)
  BY <1>1 DEF Call, Create, ApllyPort, init_user_struct_memory_pool, ConnectPort,
              kill_self
<1>2. CASE Step(p)
  BY <1>2 DEF Step, Create_index, find_next_useful_index_of_globel_table,
              add_user_connect_load, add_user_connect_store, Apply, ApllyPort_copy,
              upload_pool, Announce, init_user_message_information_struct,
              accept_load, accept_store, make_bridge, ConnectPort_copy,
              set_user_struct_type_client
<1> QED
  BY <1>1, <1>2

\* Create stores an object nobody knows yet.
LEMMA StoreKeeps ==
    ASSUME TableInv, TypeInv', NEW p \in Programs, Create_store(p)
    PROVE  TableInv'
<1> USE DEF Create_store, TableInv, TypeInv, TypeOK, Goto, Unborn, engineVars
<1>1. \A i \in Slots : addr'[i] = addr[i] \/ addr'[i] = p
  OBVIOUS
<1>2. (\A i \in Slots : addr[i] # p) /\ p \notin freed
  BY SocketsAssumption DEF Stored
<1>3. Once'
  BY <1>2, SocketsAssumption DEF Once
<1>4. \A q \in Programs : /\ pc'[q] = "x_drop" => pc[q] = "x_drop"
                          /\ pc'[q] \in Unborn => pc[q] \in Unborn
  OBVIOUS
<1>5. Stored'
  BY <1>1, <1>4, SocketsAssumption DEF Stored
<1>6. \A q \in Programs : pc[q] = "x_drop" => fs[q] # p
  BY DEF Stored
<1>7. Doomed'
  BY <1>1, <1>4, <1>6 DEF Doomed
<1>8. FreedNotInTable'
  BY <1>1, <1>2 DEF FreedNotInTable
<1> QED
  BY <1>3, <1>5, <1>7, <1>8

\* close_self dooms the object it finds in the slot.
LEMMA CloseKeeps ==
    ASSUME TableInv, TypeInv', NEW p \in Programs, close_self(p)
    PROVE  TableInv'
<1> USE DEF TableInv, TypeInv, TypeOK, Goto, Fetch, tableVars, Unborn
<1>1. /\ UNCHANGED <<addr, freed, fd>>
      /\ pc[p] = "x_free" /\ fs'[p] = At(fd[p])
      /\ \A q \in Programs \ {p} : pc'[q] = pc[q] /\ fs'[q] = fs[q]
  BY DEF close_self
<1>2. pc'[p] \in {"x_free", "x_drop", "closed"}
  BY DEF close_self
<1>3. pc'[p] = "x_drop" => fd[p] \in Slots /\ addr[fd[p]] = fs'[p] /\ fs'[p] # NULL
  BY <1>1, AtTyped
<1>4. Once' /\ FreedNotInTable'
  BY <1>1 DEF Once, FreedNotInTable
<1>5. Stored'
  BY <1>1, <1>2, <1>3, SocketsAssumption DEF Stored
<1>6. Doomed'
  BY <1>1, <1>3, SMTT(30) DEF Doomed, Once
<1> QED
  BY <1>4, <1>5, <1>6

\* close_self_drop empties the only slot the object it frees can be in.
LEMMA DropKeeps ==
    ASSUME TableInv, TypeInv', NEW p \in Programs, close_self_drop(p)
    PROVE  TableInv'
<1> USE DEF close_self_drop, DropSlot, TableInv, TypeInv, TypeOK, Goto, Unborn
<1>1. /\ \A i \in Slots : addr'[i] = IF i = fd[p] THEN NULL ELSE addr[i]
      /\ freed' = freed \cup {fs[p]}
      /\ fs' = fs /\ fd' = fd
      /\ \A q \in Programs : pc'[q] = IF q = p THEN "closed" ELSE pc[q]
  OBVIOUS
<1>2. Once'
  BY <1>1 DEF Once
<1>3. Stored'
  BY <1>1, SocketsAssumption DEF Stored
<1>4. Doomed'
  BY <1>1 DEF Doomed
<1>5. FreedNotInTable'
  BY <1>1, SocketsAssumption DEF FreedNotInTable, Doomed
<1> QED
  BY <1>2, <1>3, <1>4, <1>5

\* Every step keeps all of it.
LEMMA TableNext == TableInv /\ [Next]_vars => TableInv'
<1>1. ASSUME TableInv, NEW p \in Programs, Call(p) \/ Step(p)
      PROVE  TableInv'
  <2>1. TypeInv'
    BY <1>1, TypeCall, TypeStep DEF TableInv
  <2>2. CASE Create_store(p) \/ close_self(p) \/ close_self_drop(p)
    BY <1>1, <2>1, <2>2, StoreKeeps, CloseKeeps, DropKeeps
  <2>3. CASE ~(Create_store(p) \/ close_self(p) \/ close_self_drop(p))
    <3>1. Aside(p)
      BY <1>1, <2>3, OthersAside DEF TableInv
    <3> QED
      BY <1>1, <2>1, <3>1, AsideKeeps
  <2> QED
    BY <2>2, <2>3
<1>2. ASSUME TableInv, UNCHANGED vars PROVE TableInv'
  BY <1>2 DEF vars, tableVars, objectVars, engineVars, acceptVars,
              TableInv, TypeInv, TypeOK,
              Once, Stored, Doomed, FreedNotInTable
<1> QED
  BY <1>1, <1>2 DEF Next

\* Whatever the handler threads interleave, two objects in one slot included, no
\* index of the table leads to an object close_self has freed.
THEOREM TableSafe == Spec => []FreedNotInTable
<1>1. TableInv /\ [Next]_vars => TableInv'
  BY TableNext
<1>2. TableInv => FreedNotInTable
  BY DEF TableInv
<1> QED
  BY TableInit, <1>1, <1>2, PTL DEF Spec

-----------------------------------------------------------------------------
(* One request at a time: a free slot is found, and a slot has one owner. *)

\* Between the store of an object and the counting of it.
Creating(p) == pc[p] \in {"c_index", "c_find", "c_load", "c_count"}

\* Steps of a program that has a descriptor and has not closed.
Open == {"socket", "b_copy", "b_upload", "bound", "i_mes", "a_wait", "a_clear",
         "k_bridge", "k_copy", "k_upload", "k_init", "open", "failed", "x_free", "x_drop"}

\* What Serialized is meant to say: one request is under way at most.
Alone == \A p, q \in Programs : InRequest(p) /\ InRequest(q) => p = q

\* A program has a descriptor from the answer of socket on; its object is freed
\* by its own close only.
Owners == \A p \in Programs :
    /\ pc[p] \in Open => fd[p] \in Slots /\ p \notin freed
    /\ pc[p] \notin Open \cup {"closed"} => fd[p] = -1 /\ p \notin freed
    /\ pc[p] = "x_drop" => fs[p] = p

\* The index the object is told is that of the slot it was stored in.
Indexed == \A p \in Programs :
    /\ pc[p] = "c_index" => addr[next_index_of_globel_table] = p
    /\ pc[p] \in {"c_find", "c_load", "c_count", "c_reply"}
           => addr[global_table_index[p]] = p

\* No more slots are taken than were counted, or are about to be.
Counted ==
    /\ Cardinality(Taken) <= cur_user_connect + 1
    /\ (\A p \in Programs : ~Creating(p)) => Cardinality(Taken) <= cur_user_connect
    /\ \A p \in Programs : pc[p] = "c_count" => reg[p] = cur_user_connect

\* The next index is free whenever the counter will admit a Create.
NextFits ==
    /\ (\A p \in Programs : ~Creating(p)) /\ cur_user_connect < MaxUsers
           => addr[next_index_of_globel_table] = NULL
    /\ \A p \in Programs : pc[p] \in {"c_load", "c_count"}
                            /\ cur_user_connect + 1 < MaxUsers
           => addr[next_index_of_globel_table] = NULL
    /\ \A p \in Programs : pc[p] = "c_store" => cur_user_connect < MaxUsers

SlotInv == TypeInv /\ Alone /\ Owners /\ OwnSlot /\ Indexed /\ Counted /\ NextFits

\* The slots taken are finitely many, and all of them only if MaxUsers are.
LEMMA TakenFinite ==
    /\ IsFiniteSet(Slots) /\ Cardinality(Slots) = MaxUsers
    /\ IsFiniteSet(Taken) /\ Cardinality(Taken) \in Nat
    /\ Cardinality(Taken) < MaxUsers => Taken # Slots
<1>1. IsFiniteSet(Slots) /\ Cardinality(Slots) = MaxUsers
  BY SocketsAssumption, FS_Interval DEF Slots
<1>2. IsFiniteSet(Taken) /\ Cardinality(Taken) \in Nat
  BY <1>1, FS_Subset, FS_CardinalityType DEF Taken
<1> QED
  BY <1>1, <1>2, SocketsAssumption

LEMMA SlotInit == Init => SlotInv
<1> SUFFICES ASSUME Init PROVE SlotInv
  OBVIOUS
<1>1. TypeInv
  BY TypeInit
<1>2. Alone /\ Owners /\ OwnSlot /\ Indexed /\ NextFits
  BY SocketsAssumption
  DEF Init, Alone, InRequest, Owners, Open, OwnSlot, Holds, Indexed, NextFits,
      Creating, Slots
<1>3. Taken = {}
  BY DEF Init, Taken
<1>4. Counted
  BY <1>3, FS_EmptySet DEF Init, Counted
<1> QED
  BY <1>1, <1>2, <1>4 DEF SlotInv

\* A program enters a request only while no other is in one.
LEMMA AloneKept ==
    ASSUME Serialized, TypeInv, Alone, NEW p \in Programs, Call(p) \/ Step(p)
    PROVE  Alone'
<1> USE DEF TypeInv, TypeOK, Goto, Fetch, engineVars, InRequest, MayStart
<1>1. \A q \in Programs \ {p} : pc'[q] = pc[q]
  <2>1. CASE Call(p)
    BY <2>1 DEF Call, Create, ApllyPort, init_user_struct_memory_pool, ConnectPort,
                kill_self
  <2>2. CASE Step(p)
    BY <2>2 DEF Step, Create_store, Create_index,
                find_next_useful_index_of_globel_table, add_user_connect_load,
                add_user_connect_store, Apply, ApllyPort_copy, upload_pool, Announce,
                init_user_message_information_struct, accept_load, accept_store, make_bridge,
                ConnectPort_copy, set_user_struct_type_client, close_self,
                close_self_drop
  <2> QED
    BY <2>1, <2>2
<1>2. InRequest(p)' => InRequest(p) \/ \A q \in Programs \ {p} : ~InRequest(q)
  <2>1. CASE Call(p)
    BY <2>1 DEF Call, Create, ApllyPort, init_user_struct_memory_pool, ConnectPort,
                kill_self
  <2>2. CASE Step(p)
    BY <2>2 DEF Step, Create_store, Create_index,
                find_next_useful_index_of_globel_table, add_user_connect_load,
                add_user_connect_store, Apply, ApllyPort_copy, upload_pool, Announce,
                init_user_message_information_struct, accept_load, accept_store, make_bridge,
                ConnectPort_copy, set_user_struct_type_client, close_self,
                close_self_drop
  <2> QED
    BY <2>1, <2>2
<1> QED
  BY <1>1, <1>2 DEF Alone

\* A step of an open program that neither takes nor gives back a slot.
Away(p) ==
    /\ UNCHANGED <<tableVars, global_table_index, freed, fd>>
    /\ \A q \in Programs \ {p} : pc'[q] = pc[q] /\ fs'[q] = fs[q] /\ reg'[q] = reg[q]
    /\ pc[p] \in Open \ {"x_drop"}
    /\ pc'[p] \in (Open \cup {"closed"}) \ {"x_drop"}

LEMMA AwayKeeps ==
    ASSUME SlotInv, TypeInv', Alone', NEW p \in Programs, Away(p)
    PROVE  SlotInv'
<1> USE DEF Away, SlotInv, TypeInv, TypeOK, tableVars, Open
<1>1. Owners'
  BY DEF Owners
<1>2. OwnSlot'
  BY DEF OwnSlot, Holds, At
<1>3. Indexed'
  BY DEF Indexed
<1>4. Taken' = Taken
  BY DEF Taken
<1>5. \A q \in Programs : Creating(q)' <=> Creating(q)
  BY DEF Creating
<1>6. Counted'
  BY <1>4, <1>5 DEF Counted
<1>7. NextFits'
  BY <1>5 DEF NextFits
<1> QED
  BY <1>1, <1>2, <1>3, <1>6, <1>7

\* All but the steps of socket and the freeing are such steps.
LEMMA OthersAway ==
    ASSUME TypeInv, NEW p \in Programs, Call(p) \/ Step(p),
           pc[p] \notin {"new", "c_store", "c_index", "c_find", "c_load", "c_count",
                         "c_reply", "x_free", "x_drop"}
    PROVE  Away(p)
<1> USE DEF Away, TypeInv, TypeOK, Goto, Fetch, tableVars, objectVars, engineVars,
        Open
<1>1. CASE Call(p)
  BY <1>1 DEF Call, Create, ApllyPort, init_user_struct_memory_pool, ConnectPort,
              kill_self
<1>2. CASE Step(p)
  BY <1>2, SMTT(40) DEF Step, Create_store, Create_index,
              find_next_useful_index_of_globel_table, add_user_connect_load,
              add_user_connect_store, Apply, ApllyPort_copy, upload_pool, Announce,
              init_user_message_information_struct, accept_load, accept_store, make_bridge,
              ConnectPort_copy, set_user_struct_type_client, close_self,
              close_self_drop
<1> QED
  BY <1>1, <1>2

\* What one request under way means for the steps of socket.
LEMMA NobodyElse ==
    ASSUME Alone, NEW p \in Programs, InRequest(p), NEW q \in Programs \ {p}
    PROVE  /\ ~Creating(q)
           /\ pc[q] \notin {"c_store", "c_index", "c_find", "c_load", "c_count",
                            "c_reply", "x_free", "x_drop"}
  BY DEF Alone, InRequest, Creating

\* The test of the counter.
LEMMA CreateKeeps ==
    ASSUME Serialized, SlotInv, TypeInv', Alone', NEW p \in Programs, Create(p)
    PROVE  SlotInv'
<1> USE DEF Create, SlotInv, TypeInv, TypeOK, Goto, tableVars, objectVars, engineVars
<1>1. Owners'
  BY DEF Owners, Open
<1>2. OwnSlot'
  BY DEF OwnSlot, Holds, At
<1>3. Indexed'
  BY DEF Indexed
<1>4. Taken' = Taken
  BY DEF Taken
<1>5. \A q \in Programs : Creating(q)' <=> Creating(q)
  BY DEF Creating
<1>6. Counted'
  BY <1>4, <1>5 DEF Counted
<1>7. NextFits'
  BY <1>5 DEF NextFits, Room
<1> QED
  BY <1>1, <1>2, <1>3, <1>6, <1>7

\* One element more is one more at most.
LEMMA AddOne ==
    ASSUME NEW S, IsFiniteSet(S), NEW x
    PROVE  /\ IsFiniteSet(S \cup {x})
           /\ Cardinality(S \cup {x}) \in Nat
           /\ Cardinality(S \cup {x}) <= Cardinality(S) + 1
<1>1. Cardinality(S) \in Nat
  BY FS_CardinalityType
<1>2. IsFiniteSet(S \cup {x})
  BY FS_AddElement
<1>3. Cardinality(S \cup {x}) \in {Cardinality(S), Cardinality(S) + 1}
  BY FS_AddElement
<1> QED
  BY <1>1, <1>2, <1>3

\* The store goes to a free slot, so it takes nothing from anybody.
LEMMA SlotStoreKeeps ==
    ASSUME SlotInv, TypeInv', Alone', NEW p \in Programs, Create_store(p)
    PROVE  SlotInv'
<1> USE DEF Create_store, SlotInv, TypeInv, TypeOK, Goto, engineVars
<1> DEFINE next == next_index_of_globel_table
<1>1. InRequest(p)
  BY DEF InRequest
<1>2. \A q \in Programs : ~Creating(q)
  BY <1>1, NobodyElse DEF Creating
<1>3. addr[next] = NULL
  BY <1>2 DEF NextFits
<1>4. \A i \in Slots : addr'[i] = IF i = next THEN p ELSE addr[i]
  OBVIOUS
<1>5. Owners'
  BY DEF Owners, Open
<1>6. OwnSlot'
  BY <1>3, <1>4, SocketsAssumption DEF OwnSlot, Holds, At
<1>7. Indexed'
  BY <1>1, <1>4, NobodyElse DEF Indexed
<1>8. Taken' = Taken \cup {next}
  BY <1>4, SocketsAssumption DEF Taken
<1>9. Cardinality(Taken') \in Nat /\ Cardinality(Taken') <= Cardinality(Taken) + 1
  BY <1>8, TakenFinite, AddOne
<1>10. Creating(p)'
  BY DEF Creating
<1>11. Counted'
  <2>1. Cardinality(Taken) <= cur_user_connect
    BY <1>2 DEF Counted
  <2>2. Cardinality(Taken') <= cur_user_connect + 1
    BY <1>9, <2>1, TakenFinite
  <2>3. \A q \in Programs : pc'[q] # "c_count"
    BY <1>2 DEF Creating
  <2> QED
    BY <1>10, <2>2, <2>3 DEF Counted
<1>12. NextFits'
  BY <1>1, <1>10, NobodyElse DEF NextFits
<1> QED
  BY <1>5, <1>6, <1>7, <1>11, <1>12

\* The index stored in the object is that of its slot.
LEMMA SlotIndexKeeps ==
    ASSUME SlotInv, TypeInv', Alone', NEW p \in Programs, Create_index(p)
    PROVE  SlotInv'
<1> USE DEF Create_index, SlotInv, TypeInv, TypeOK, Goto, tableVars, engineVars
<1>1. Owners'
  BY DEF Owners, Open
<1>2. OwnSlot'
  BY DEF OwnSlot, Holds, At
<1>3. Indexed'
  BY DEF Indexed
<1>4. Taken' = Taken
  BY DEF Taken
<1>5. \A q \in Programs : Creating(q)' <=> Creating(q)
  BY DEF Creating
<1>6. Counted'
  BY <1>4, <1>5 DEF Counted
<1>7. NextFits'
  BY <1>5 DEF NextFits, Creating
<1> QED
  BY <1>1, <1>2, <1>3, <1>6, <1>7

\* A slot is found if the counter, once it counts this object, admits another.
LEMMA SlotFindKeeps ==
    ASSUME SlotInv, TypeInv', Alone', NEW p \in Programs,
           find_next_useful_index_of_globel_table(p)
    PROVE  SlotInv'
<1> USE DEF find_next_useful_index_of_globel_table, SlotInv, TypeInv, TypeOK, Goto,
        objectVars, engineVars
<1>1. InRequest(p)
  BY DEF InRequest
<1>2. Owners'
  BY DEF Owners, Open
<1>3. OwnSlot'
  BY DEF OwnSlot, Holds, At
<1>4. Indexed'
  BY <1>1, NobodyElse DEF Indexed
<1>5. Taken' = Taken
  BY DEF Taken
<1>6. \A q \in Programs : Creating(q)' <=> Creating(q)
  BY DEF Creating
<1>7. Counted'
  BY <1>5, <1>6 DEF Counted
<1>8. cur_user_connect + 1 < MaxUsers => addr[NextFree(next_index_of_globel_table)] = NULL
  <2> SUFFICES ASSUME cur_user_connect + 1 < MaxUsers
               PROVE  addr[NextFree(next_index_of_globel_table)] = NULL
    OBVIOUS
  <2>1. Taken # Slots
    BY TakenFinite, SocketsAssumption DEF Counted
  <2>2. Slots \ Taken # {} /\ Slots \ Taken \in SUBSET Nat
    BY <2>1, SocketsAssumption DEF Taken, Slots
  <2>3. Least(Slots \ Taken) \in Slots \ Taken
    BY <2>2, LeastIn
  <2> QED
    BY <2>1, <2>3 DEF NextFree, Taken
<1>9. Creating(p)'
  BY DEF Creating
<1>10. NextFits'
  BY <1>1, <1>8, <1>9, NobodyElse DEF NextFits
<1> QED
  BY <1>2, <1>3, <1>4, <1>7, <1>10

\* Nobody changes the counter between its load and its store.
LEMMA SlotCountKeeps ==
    ASSUME SlotInv, TypeInv', Alone', NEW p \in Programs,
           add_user_connect_load(p) \/ add_user_connect_store(p)
    PROVE  SlotInv'
<1> USE DEF add_user_connect_load, add_user_connect_store, SlotInv, TypeInv, TypeOK,
        Goto, tableVars, objectVars, engineVars
<1>1. InRequest(p)
  BY DEF InRequest
<1>2. Owners'
  BY DEF Owners, Open
<1>3. OwnSlot'
  BY DEF OwnSlot, Holds, At
<1>4. Indexed'
  BY DEF Indexed
<1>5. Taken' = Taken
  BY DEF Taken
<1>6. \A q \in Programs \ {p} : ~Creating(q)' /\ pc'[q] = pc[q]
  BY <1>1, NobodyElse DEF Creating
<1>7. CASE add_user_connect_load(p)
  <2>1. Creating(p)'
    BY <1>7 DEF Creating
  <2>2. Counted'
    BY <1>5, <1>6, <1>7, <2>1 DEF Counted, Creating
  <2>3. NextFits'
    BY <1>6, <1>7, <2>1 DEF NextFits, Creating
  <2> QED
    BY <1>2, <1>3, <1>4, <2>2, <2>3
<1>8. CASE add_user_connect_store(p)
  <2>1. cur_user_connect' = cur_user_connect + 1
    BY <1>8 DEF Counted
  <2>2. Counted'
    BY <1>5, <1>6, <1>8, <2>1, TakenFinite DEF Counted, Creating
  <2>3. \A q \in Programs : pc'[q] \notin {"c_store", "c_load", "c_count"}
    BY <1>1, <1>8, NobodyElse
  <2>4. cur_user_connect' < MaxUsers => addr'[next_index_of_globel_table'] = NULL
    BY <1>8, <2>1 DEF NextFits
  <2>5. NextFits'
    BY <2>3, <2>4 DEF NextFits
  <2> QED
    BY <1>2, <1>3, <1>4, <2>2, <2>5
<1> QED
  BY <1>7, <1>8

\* The program is given the index of its own slot.
LEMMA SlotReplyKeeps ==
    ASSUME SlotInv, TypeInv', Alone', NEW p \in Programs, Apply(p)
    PROVE  SlotInv'
<1> USE DEF Apply, SlotInv, TypeInv, TypeOK, Goto, tableVars, engineVars
<1>1. Owners'
  BY DEF Owners, Open
<1>2. OwnSlot'
  BY DEF OwnSlot, Holds, At, Indexed
<1>3. Indexed'
  BY DEF Indexed
<1>4. Taken' = Taken
  BY DEF Taken
<1>5. \A q \in Programs : Creating(q)' <=> Creating(q)
  BY DEF Creating
<1>6. Counted'
  BY <1>4, <1>5 DEF Counted
<1>7. NextFits'
  BY <1>5 DEF NextFits
<1> QED
  BY <1>1, <1>2, <1>3, <1>6, <1>7

\* close_self finds the program's own object.
LEMMA SlotCloseKeeps ==
    ASSUME SlotInv, TypeInv', Alone', NEW p \in Programs, close_self(p)
    PROVE  SlotInv'
<1> USE DEF SlotInv, TypeInv, TypeOK
<1>1. /\ UNCHANGED <<tableVars, global_table_index, freed, fd, reg>>
      /\ pc[p] = "x_free" /\ fs'[p] = At(fd[p])
      /\ pc'[p] \in {"x_free", "x_drop", "closed"}
      /\ \A q \in Programs \ {p} : pc'[q] = pc[q] /\ fs'[q] = fs[q]
  BY DEF close_self, Goto, Fetch
<1> USE DEF tableVars
<1>2. At(fd[p]) = p
  BY <1>1 DEF Owners, Open, OwnSlot, Holds, Slots
<1>3. Owners'
  BY <1>1, <1>2 DEF Owners, Open
<1>4. OwnSlot'
  BY <1>1 DEF OwnSlot, Holds, At
<1>5. Indexed'
  BY <1>1 DEF Indexed
<1>6. Taken' = Taken
  BY <1>1 DEF Taken
<1>7. \A q \in Programs : Creating(q)' <=> Creating(q)
  BY <1>1 DEF Creating
<1>8. Counted'
  BY <1>1, <1>6, <1>7 DEF Counted
<1>9. NextFits'
  BY <1>1, <1>7 DEF NextFits
<1> QED
  BY <1>3, <1>4, <1>5, <1>8, <1>9

\* Emptying the slot of a program takes nothing from another.
LEMMA SlotDropKeeps ==
    ASSUME SlotInv, TypeInv', Alone', NEW p \in Programs, close_self_drop(p)
    PROVE  SlotInv'
<1> USE DEF SlotInv, TypeInv, TypeOK
<1>1. /\ \A i \in Slots : addr'[i] = IF i = fd[p] THEN NULL ELSE addr[i]
      /\ pc[p] = "x_drop" /\ pc' = [pc EXCEPT ![p] = "closed"]
      /\ UNCHANGED <<cur_user_connect, next_index_of_globel_table,
                     global_table_index, fd, fs, reg>>
      /\ freed' = freed \cup {fs[p]}
  BY DEF close_self_drop, DropSlot, Goto, objectVars
<1>2. InRequest(p)
  BY <1>1 DEF InRequest
<1>3. fd[p] \in Slots /\ fs[p] = p /\ addr[fd[p]] = p
  BY <1>1 DEF Owners, Open, OwnSlot, Holds, At, Slots
<1>4. Owners'
  BY <1>1, <1>3 DEF Owners, Open
<1>5. OwnSlot'
  BY <1>1, <1>3, SocketsAssumption DEF OwnSlot, Holds, At
<1>6. Indexed'
  BY <1>1, <1>2, NobodyElse DEF Indexed
<1>7. \A q \in Programs : ~Creating(q) /\ ~Creating(q)' /\ pc'[q] # "c_store"
  BY <1>1, <1>2, NobodyElse DEF Creating
<1>8. Cardinality(Taken') <= Cardinality(Taken) /\ Cardinality(Taken') \in Nat
  <2>1. Taken' \subseteq Taken
    BY <1>1, SocketsAssumption DEF Taken
  <2> QED
    BY <2>1, TakenFinite, FS_Subset, FS_CardinalityType
<1>9. Counted'
  <2>1. Cardinality(Taken) <= cur_user_connect
    BY <1>7 DEF Counted
  <2>2. \A q \in Programs : pc'[q] # "c_count"
    BY <1>7 DEF Creating
  <2> QED
    BY <1>1, <1>8, <2>1, <2>2, TakenFinite DEF Counted
<1>10. NextFits'
  BY <1>1, <1>7 DEF NextFits, Creating
<1> QED
  BY <1>4, <1>5, <1>6, <1>9, <1>10

\* Every step keeps the slots apart.
LEMMA SlotNext ==
    ASSUME Serialized
    PROVE  SlotInv /\ [Next]_vars => SlotInv'
<1>1. ASSUME SlotInv, NEW p \in Programs, Call(p) \/ Step(p)
      PROVE  SlotInv'
  <2>1. TypeInv' /\ Alone'
    BY <1>1, TypeCall, TypeStep, AloneKept DEF SlotInv
  <2>2. CASE pc[p] \in {"new", "c_store", "c_index", "c_find", "c_load", "c_count",
                        "c_reply", "x_free", "x_drop"}
    <3>1. \/ Create(p) \/ Create_store(p) \/ Create_index(p)
          \/ find_next_useful_index_of_globel_table(p)
          \/ add_user_connect_load(p) \/ add_user_connect_store(p) \/ Apply(p)
          \/ close_self(p) \/ close_self_drop(p)
      BY <1>1, <2>2
      DEF Call, Step, ApllyPort, init_user_struct_memory_pool, ConnectPort,
          kill_self, ApllyPort_copy, upload_pool,
          init_user_message_information_struct, accept_load, accept_store, make_bridge,
          ConnectPort_copy, set_user_struct_type_client
    <3> QED
      BY <1>1, <2>1, <3>1, CreateKeeps, SlotStoreKeeps, SlotIndexKeeps,
         SlotFindKeeps, SlotCountKeeps, SlotReplyKeeps, SlotCloseKeeps,
         SlotDropKeeps
  <2>3. CASE pc[p] \notin {"new", "c_store", "c_index", "c_find", "c_load",
                           "c_count", "c_reply", "x_free", "x_drop"}
    <3>1. Away(p)
      BY <1>1, <2>3, OthersAway DEF SlotInv
    <3> QED
      BY <1>1, <2>1, <3>1, AwayKeeps
  <2> QED
    BY <2>2, <2>3
<1>2. ASSUME SlotInv, UNCHANGED vars PROVE SlotInv'
  BY <1>2 DEF vars, tableVars, objectVars, engineVars, acceptVars,
              SlotInv, TypeInv, TypeOK,
              Alone, InRequest, Owners, OwnSlot, Holds, At, Indexed, Counted, Taken,
              Creating, NextFits
<1> QED
  BY <1>1, <1>2 DEF Next

\* With one request at a time, Create finds a free slot as long as the counter
\* admits it, and a descriptor stands for the program's own object until that is
\* freed: for any number of programs and slots, and sockets closed in between.
THEOREM SlotSafe ==
    ASSUME Serialized
    PROVE  Spec => [](NextUsable /\ OwnSlot)
<1>1. SlotInv /\ [Next]_vars => SlotInv'
  BY SlotNext
<1>2. SlotInv => NextUsable /\ OwnSlot
  BY DEF SlotInv, NextFits, NextUsable, Quiet, InRequest, Creating
<1> QED
  BY SlotInit, <1>1, <1>2, PTL DEF Spec

-----------------------------------------------------------------------------
(* One request at a time: who is linked to whom. *)

\* What holds of the table and its slots.
SoundInv == SlotInv /\ TableInv

\* An object that has not been freed is in the slot of its program's descriptor, and
\* in no other.
LEMMA HoldsSlot ==
    ASSUME SoundInv, NEW o \in Programs, Holds(o)
    PROVE  /\ fd[o] \in Slots /\ addr[fd[o]] = o /\ At(fd[o]) = o
           /\ \A i \in Slots : addr[i] = o => i = fd[o]
<1>1. fd[o] \in Slots /\ At(fd[o]) = o
  BY DEF SoundInv, SlotInv, TypeInv, TypeOK, OwnSlot, Holds
<1>2. addr[fd[o]] = o
  BY <1>1 DEF At
<1> QED
  BY <1>1, <1>2, SocketsAssumption DEF SoundInv, TableInv, Once

\* An object in the table whose program knows its descriptor is in that slot.
LEMMA TakenHolds ==
    ASSUME SoundInv, NEW i \in Slots, addr[i] # NULL, fd[addr[i]] # -1
    PROVE  addr[i] \in Programs /\ Holds(addr[i]) /\ fd[addr[i]] = i
<1>1. addr[i] \in Programs
  BY DEF SoundInv, SlotInv, TypeInv, TypeOK
<1>2. Holds(addr[i])
  BY <1>1 DEF SoundInv, TableInv, FreedNotInTable, Holds
<1> QED
  BY <1>1, <1>2, HoldsSlot

\* A request finds the program's own object.
LEMMA FindsOwn ==
    ASSUME SoundInv, NEW p \in Programs, pc[p] \in Open
    PROVE  Holds(p) /\ At(fd[p]) = p
<1>1. Holds(p)
  BY DEF SoundInv, SlotInv, Owners, Holds, Slots
<1> QED
  BY <1>1 DEF SoundInv, SlotInv, OwnSlot

\* A program without a descriptor has an object without a port, if any.
Fresh == \A p \in Programs : fd[p] = -1 => port[p] = 0

\* What a step was reached with: the ports the program has been given, the object
\* the handler holds, and, when an object is being freed, that it is not linked.
Fetched == \A p \in Programs :
    /\ pc[p] \in {"b_copy", "k_bridge", "k_copy"} => fs[p] = p /\ port[p] = 0
    /\ pc[p] = "b_copy" => Local[p] # 0
    /\ pc[p] \in {"k_bridge", "k_copy", "k_upload", "k_init"} => Remote[p] # 0
    /\ pc[p] \in {"i_mes", "a_wait", "a_clear"} => Remote[p] = 0
    /\ pc[p] \in {"x_free", "x_drop"} => ~Linked(p)

\* The target of an object that is not freed is not freed either, and linked.
LinkedLive == \A p \in Programs : Holds(p) /\ Linked(p) =>
    \E q \in Programs : /\ Holds(q) /\ Linked(q)
                        /\ target_global_table_index[p] = fd[q]

\* The index leads there.
LEMMA TargetIs ==
    ASSUME SoundInv, NEW p \in Programs, NEW q \in Programs, Holds(q),
           target_global_table_index[p] = fd[q]
    PROVE  Target(p) = q /\ Linked(p)
<1>1. fd[q] \in Slots /\ At(fd[q]) = q
  BY HoldsSlot
<1>2. p # NULL /\ fd[q] # -1
  BY SocketsAssumption DEF Holds
<1> QED
  BY <1>1, <1>2 DEF Target, Linked

LinkInv == SoundInv /\ Fresh /\ Fetched /\ LinkedLive

\* What the step of p may do to links, ports, descriptors and freed objects.
Untouched == UNCHANGED <<target_global_table_index, port, fd, freed>>

Born(p) ==
    /\ fd[p] = -1 /\ UNCHANGED <<port, freed>>
    /\ \A q \in Programs \ {p} :
           /\ fd'[q] = fd[q]
           /\ target_global_table_index'[q] = target_global_table_index[q]
    /\ fd'[p] = -1 \/ target_global_table_index'[p] = -1
    /\ pc[p] \in {"c_store", "c_reply"} /\ pc'[p] \in {"c_index", "socket"}

Ported(p, number) ==
    /\ UNCHANGED <<target_global_table_index, fd, freed>>
    /\ port' = [port EXCEPT ![p] = number]
    /\ port[p] = 0 /\ number # 0 /\ Holds(p)

Joined(p, s) ==
    /\ UNCHANGED <<port, fd, freed>>
    /\ s # p /\ Holds(s) /\ Holds(p)
    /\ Remote[p] # 0 /\ port[s] = Remote[p] /\ port[p] = 0
    /\ target_global_table_index' =
           [target_global_table_index EXCEPT ![s] = fd[p], ![p] = fd[s]]
    /\ pc[p] = "k_bridge" /\ pc'[p] = "k_copy"

Dropped(p) ==
    /\ UNCHANGED <<target_global_table_index, port, fd>>
    /\ freed' = freed \cup {p} /\ ~Linked(p)

\* The scan ends at the object of a program that has the port.
LEMMA BridgeJoins ==
    ASSUME LinkInv, NEW p \in Programs, make_bridge(p)
    PROVE  \/ Untouched /\ pc'[p] \in {"k_bridge", "failed"}
           \/ \E s \in Programs : Joined(p, s)
<1> DEFINE ends == Ends(Remote[p])
           i == Least(ends)
<1>0. /\ pc[p] = "k_bridge" /\ UNCHANGED <<port, fd, freed>>
      /\ \/ /\ ends # {} /\ addr[i] # NULL
            /\ target_global_table_index' = Bridge(i, fd[p])
            /\ pc' = [pc EXCEPT ![p] = "k_copy"]
         \/ /\ UNCHANGED target_global_table_index
            /\ pc' = pc \/ pc' = [pc EXCEPT ![p] = "failed"]
  BY DEF make_bridge, Goto
<1>1. pc \in [Programs -> Steps]
  BY DEF LinkInv, SoundInv, SlotInv, TypeInv, TypeOK
<1>2. CASE UNCHANGED target_global_table_index
           /\ (pc' = pc \/ pc' = [pc EXCEPT ![p] = "failed"])
  BY <1>0, <1>1, <1>2 DEF Untouched
<1>3. CASE /\ ends # {} /\ addr[i] # NULL
           /\ target_global_table_index' = Bridge(i, fd[p])
           /\ pc' = [pc EXCEPT ![p] = "k_copy"]
  <2>1. ends \in SUBSET Nat /\ ends \subseteq Slots
    BY SocketsAssumption DEF Ends, Slots
  <2>2. i \in ends
    <3> HIDE DEF ends
    <3> QED BY <1>3, <2>1, LeastIn
  <2>3. i \in Slots /\ port[addr[i]] = Remote[p]
    BY <1>3, <2>2 DEF Ends
  <2>4. addr[i] \in Programs
    BY <1>3, <2>3 DEF LinkInv, SoundInv, SlotInv, TypeInv, TypeOK
  <2>5. /\ Remote[p] # 0 /\ port[p] = 0 /\ fs[p] = p
    BY <1>0 DEF LinkInv, Fetched
  <2>6. Holds(p) /\ fd[p] \in Slots /\ addr[fd[p]] = p
    BY <1>0, FindsOwn, HoldsSlot DEF LinkInv, Open
  <2> DEFINE s == addr[i]
  <2>7. fd[s] # -1
    BY <2>3, <2>4, <2>5 DEF LinkInv, Fresh
  <2>8. Holds(s) /\ fd[s] = i
    BY <1>3, <2>3, <2>7, TakenHolds DEF LinkInv
  <2>9. target_global_table_index' =
            [target_global_table_index EXCEPT ![s] = fd[p], ![p] = fd[s]]
    BY <1>3, <2>6, <2>8 DEF Bridge
  <2>10. pc'[p] = "k_copy"
    BY <1>1, <1>3
  <2> HIDE DEF i
  <2>11. Joined(p, s)
    BY <1>0, <2>3, <2>4, <2>5, <2>6, <2>8, <2>9, <2>10 DEF Joined
  <2> QED
    BY <2>4, <2>11
<1> QED
  BY <1>0, <1>2, <1>3

\* Every step is one of these, and leaves what the others' steps know alone.
LEMMA Changes ==
    ASSUME LinkInv, NEW p \in Programs, Call(p) \/ Step(p)
    PROVE  /\ \A q \in Programs \ {p} : pc'[q] = pc[q] /\ fs'[q] = fs[q]
           /\ \/ Untouched \/ Born(p) \/ Dropped(p)
              \/ pc[p] = "b_copy" /\ pc'[p] = "b_upload" /\ Ported(p, Local[p])
              \/ /\ pc[p] = "k_copy" /\ pc'[p] \in {"k_upload", "failed"}
                 /\ Ported(p, Remote[p])
              \/ \E s \in Programs : Joined(p, s)
<1> USE DEF Goto, Fetch, tableVars, objectVars, engineVars
<1>0. pc \in [Programs -> Steps] /\ fs \in [Programs -> Programs \cup {NULL}]
  BY DEF LinkInv, SoundInv, SlotInv, TypeInv, TypeOK
<1>1. \A q \in Programs \ {p} : pc'[q] = pc[q] /\ fs'[q] = fs[q]
  <2>1. CASE Call(p)
    BY <1>0, <2>1 DEF Call, Create, ApllyPort, init_user_struct_memory_pool, ConnectPort,
                kill_self
  <2>2. CASE Step(p)
    BY <1>0, <2>2 DEF Step, Create_store, Create_index,
                find_next_useful_index_of_globel_table, add_user_connect_load,
                add_user_connect_store, Apply, ApllyPort_copy, upload_pool, Announce,
                init_user_message_information_struct, accept_load, accept_store, make_bridge,
                ConnectPort_copy, set_user_struct_type_client, close_self,
                close_self_drop
  <2> QED
    BY <2>1, <2>2
<1>2. CASE Create_store(p) \/ Apply(p)
  <2>1. fd[p] = -1
    BY <1>2 DEF LinkInv, SoundInv, SlotInv, Owners, Open, Create_store, Apply
  <2> QED
    BY <1>0, <1>1, <1>2, <2>1
    DEF Create_store, Apply, Born, LinkInv, SoundInv, SlotInv, TypeInv, TypeOK
<1>3. CASE ApllyPort_copy(p)
  <2>1. fs[p] = p /\ port[p] = 0 /\ Local[p] # 0 /\ Holds(p)
    BY <1>3, FindsOwn DEF LinkInv, Fetched, ApllyPort_copy, Open
  <2> QED
    BY <1>0, <1>1, <1>3, <2>1 DEF ApllyPort_copy, Ported
<1>4. CASE ConnectPort_copy(p)
  <2>1. fs[p] = p /\ port[p] = 0 /\ Remote[p] # 0 /\ Holds(p)
    BY <1>4, FindsOwn DEF LinkInv, Fetched, ConnectPort_copy, Open
  <2> QED
    BY <1>0, <1>1, <1>4, <2>1 DEF ConnectPort_copy, Ported
<1>5. CASE make_bridge(p)
  BY <1>1, <1>5, BridgeJoins
<1>6. CASE close_self(p)
  <2>1. ~Linked(p) /\ At(fd[p]) = p
    BY <1>6, FindsOwn DEF LinkInv, Fetched, close_self, Open
  <2>2. UNCHANGED target_global_table_index
    BY <1>6, <2>1, SocketsAssumption DEF close_self
  <2> QED
    BY <1>1, <1>6, <2>2 DEF close_self, Untouched
<1>7. CASE close_self_drop(p)
  <2>1. fs[p] = p /\ ~Linked(p)
    BY <1>7 DEF LinkInv, SoundInv, SlotInv, Owners, Fetched, close_self_drop
  <2> QED
    BY <1>1, <1>7, <2>1 DEF close_self_drop, Dropped
<1>8. CASE /\ ~Create_store(p) /\ ~Apply(p) /\ ~ApllyPort_copy(p)
           /\ ~ConnectPort_copy(p) /\ ~make_bridge(p) /\ ~close_self(p)
           /\ ~close_self_drop(p)
  <2>1. ASSUME Call(p) PROVE Untouched
    BY <2>1 DEF Call, Create, ApllyPort, init_user_struct_memory_pool, ConnectPort,
                kill_self, Untouched
  <2>2. ASSUME Step(p) PROVE Untouched
    BY <1>8, <2>2
    DEF Step, Create_index, find_next_useful_index_of_globel_table,
        add_user_connect_load, add_user_connect_store, upload_pool, Announce,
        init_user_message_information_struct, accept_load, accept_store,
        set_user_struct_type_client, Untouched
  <2>3. Untouched
    BY <2>1, <2>2
  <2> QED
    BY <1>1, <2>3
<1> QED
  BY <1>1, <1>2, <1>3, <1>4, <1>5, <1>6, <1>7, <1>8, Zenon

\* What the steps of p are reached with.
LEMMA Enters ==
    ASSUME LinkInv, NEW p \in Programs, Call(p) \/ Step(p)
    PROVE  /\ pc'[p] \in {"b_copy", "k_bridge", "k_copy"} => fs'[p] = p /\ port[p] = 0
           /\ pc'[p] = "b_copy" => Local[p] # 0 /\ ~is_port_used(Local[p])
           /\ pc'[p] \in {"k_bridge", "k_copy", "k_upload", "k_init"} => Remote[p] # 0
           /\ pc'[p] \in {"i_mes", "a_wait", "a_clear"} => Remote[p] = 0
           /\ pc'[p] \in {"x_free", "x_drop"} => ~Linked(p)
<1> USE DEF Goto, Fetch, tableVars, objectVars, engineVars
<1>0. pc \in [Programs -> Steps] /\ fs \in [Programs -> Programs \cup {NULL}]
  BY DEF LinkInv, SoundInv, SlotInv, TypeInv, TypeOK
<1>1. pc[p] \in Open => At(fd[p]) = p /\ Holds(p)
  BY FindsOwn DEF LinkInv
<1>2. Holds(p) /\ Target(p) = NULL => ~Linked(p)
  BY TargetIs, SocketsAssumption DEF LinkInv, LinkedLive
<1>a. /\ pc[p] \in {"k_bridge", "k_copy"} => fs[p] = p /\ port[p] = 0
      /\ pc[p] \in {"k_bridge", "k_copy", "k_upload", "k_init"} => Remote[p] # 0
      /\ pc[p] \in {"i_mes", "a_wait", "a_clear"} => Remote[p] = 0
      /\ pc[p] \in {"x_free", "x_drop"} => ~Linked(p)
  BY DEF LinkInv, Fetched
<1>3. CASE ApllyPort(p) \/ ConnectPort(p)
  BY <1>0, <1>1, <1>3 DEF ApllyPort, ConnectPort, Open
<1>4. CASE Create(p) \/ init_user_struct_memory_pool(p)
  BY <1>0, <1>4 DEF Create, init_user_struct_memory_pool
<1>5. CASE kill_self(p)
  BY <1>0, <1>1, <1>2, <1>5, SocketsAssumption DEF kill_self, Open
<1>6. CASE \/ Create_store(p) \/ Create_index(p)
           \/ find_next_useful_index_of_globel_table(p)
           \/ add_user_connect_load(p) \/ add_user_connect_store(p) \/ Apply(p)
           \/ ApllyPort_copy(p) \/ accept_load(p) \/ accept_store(p)
  BY <1>0, <1>a, <1>6
  DEF Create_store, Create_index, find_next_useful_index_of_globel_table,
      add_user_connect_load, add_user_connect_store, Apply, ApllyPort_copy,
      accept_load, accept_store
<1>7. CASE upload_pool(p) \/ init_user_message_information_struct(p)
  BY <1>0, <1>a, <1>7 DEF upload_pool, Announce, init_user_message_information_struct
<1>8. CASE make_bridge(p)
  <2>1. /\ pc[p] = "k_bridge" /\ UNCHANGED fs
        /\ pc'[p] \in {"k_bridge", "k_copy", "failed"}
    BY <1>0, <1>8 DEF make_bridge
  <2> QED
    BY <1>a, <2>1
<1>9. CASE ConnectPort_copy(p)
  <2>1. pc[p] = "k_copy" /\ pc'[p] \in {"k_upload", "failed"}
    BY <1>0, <1>9 DEF ConnectPort_copy
  <2> QED
    BY <1>a, <2>1
<1>10. CASE set_user_struct_type_client(p)
  BY <1>0, <1>a, <1>10 DEF set_user_struct_type_client
<1>11. CASE close_self(p) \/ close_self_drop(p)
  <2>1. pc[p] \in {"x_free", "x_drop"} /\ pc'[p] \in {"x_free", "x_drop", "closed"}
    BY <1>0, <1>11 DEF close_self, close_self_drop
  <2> QED
    BY <1>a, <2>1
<1> QED
  BY <1>3, <1>4, <1>5, <1>6, <1>7, <1>8, <1>9, <1>10, <1>11 DEF Call, Step

\* Nobody else is in a request while p makes one of these changes.
LEMMA ChangeAlone ==
    ASSUME LinkInv, NEW p \in Programs, InRequest(p), NEW q \in Programs \ {p}
    PROVE  ~InRequest(q)
  BY DEF LinkInv, SoundInv, SlotInv, Alone

LEMMA LinkTypes ==
    ASSUME LinkInv
    PROVE  /\ target_global_table_index \in [Programs -> Slots \cup {-1}]
           /\ port \in [Programs -> Nat] /\ fd \in [Programs -> Slots \cup {-1}]
           /\ pc \in [Programs -> Steps] /\ freed \in SUBSET Programs
           /\ fs \in [Programs -> Programs \cup {NULL}]
  BY DEF LinkInv, SoundInv, SlotInv, TypeInv, TypeOK

LEMMA SoundNext ==
    ASSUME Serialized, SoundInv, NEW p \in Programs, Call(p) \/ Step(p), ~crashed \/ Call(p)
    PROVE  SoundInv'
<1>1. Next
  BY DEF Next
<1> QED
  BY <1>1, SlotNext, TableNext DEF SoundInv

LEMMA LinkStep ==
    ASSUME Serialized, LinkInv, SoundInv', NEW p \in Programs, Call(p) \/ Step(p)
    PROVE  LinkInv'
<1> USE LinkTypes
<1>0. /\ \A q \in Programs \ {p} : pc'[q] = pc[q] /\ fs'[q] = fs[q]
      /\ \/ Untouched \/ Born(p) \/ Dropped(p)
         \/ pc[p] = "b_copy" /\ pc'[p] = "b_upload" /\ Ported(p, Local[p])
         \/ pc[p] = "k_copy" /\ pc'[p] \in {"k_upload", "failed"}
            /\ Ported(p, Remote[p])
         \/ \E s \in Programs : Joined(p, s)
  BY Changes
<1>1. Fresh'
  <2>1. \A q \in Programs : fd[q] = -1 => port[q] = 0
    BY DEF LinkInv, Fresh
  <2> QED
    BY <1>0, <2>1 DEF Fresh, Untouched, Born, Dropped, Ported, Joined, Holds
<1>2. LinkedLive'
  <2>1. \A q \in Programs : Holds(q) /\ Linked(q) =>
            \E r \in Programs : /\ Holds(r) /\ Linked(r)
                                /\ target_global_table_index[q] = fd[r]
    BY DEF LinkInv, LinkedLive
  <2>2. CASE Untouched \/ (\E number : Ported(p, number))
    BY <2>1, <2>2 DEF LinkedLive, Holds, Linked, Untouched, Ported
  <2>3. CASE Born(p)
    <3>1. \A r \in Programs : Holds(r) => r # p
      BY <2>3 DEF Born, Holds
    <3>2. \A r \in Programs : Holds(r)' /\ Linked(r)' => r # p /\ Holds(r) /\ Linked(r)
      BY <2>3 DEF Born, Holds, Linked
    <3> QED
      BY <2>1, <2>3, <3>1, <3>2 DEF LinkedLive, Born, Holds, Linked
  <2>4. CASE Dropped(p)
    BY <2>1, <2>4 DEF LinkedLive, Holds, Linked, Dropped
  <2>5. ASSUME NEW s \in Programs, Joined(p, s) PROVE LinkedLive'
    <3>1. /\ target_global_table_index'[p] = fd[s]
          /\ target_global_table_index'[s] = fd[p]
          /\ \A q \in Programs \ {p, s} :
                 target_global_table_index'[q] = target_global_table_index[q]
      BY <2>5 DEF Joined
    <3>2. fd[s] # -1 /\ fd[p] # -1 /\ UNCHANGED <<fd, freed>>
      BY <2>5 DEF Joined, Holds
    <3>3. \A q \in Programs : Linked(q) => Linked(q)'
      BY <3>1, <3>2 DEF Linked
    <3>4. Linked(p)' /\ Linked(s)' /\ Holds(p)' /\ Holds(s)'
      BY <2>5, <3>1, <3>2 DEF Linked, Joined, Holds
    <3> QED
      BY <2>1, <3>1, <3>2, <3>3, <3>4 DEF LinkedLive, Holds, Linked
  <2> QED
    BY <1>0, <2>2, <2>3, <2>4, <2>5
<1>3. Fetched'
  <2> SUFFICES ASSUME NEW q \in Programs
      PROVE  /\ pc'[q] \in {"b_copy", "k_bridge", "k_copy"} => fs'[q] = q /\ port'[q] = 0
             /\ pc'[q] = "b_copy" => Local[q] # 0
             /\ pc'[q] \in {"k_bridge", "k_copy", "k_upload", "k_init"} => Remote[q] # 0
             /\ pc'[q] \in {"i_mes", "a_wait", "a_clear"} => Remote[q] = 0
             /\ pc'[q] \in {"x_free", "x_drop"} => ~Linked(q)'
    BY DEF Fetched, Linked
  <2>1. /\ pc[q] \in {"b_copy", "k_bridge", "k_copy"} => fs[q] = q /\ port[q] = 0
        /\ pc[q] = "b_copy" => Local[q] # 0
        /\ pc[q] \in {"k_bridge", "k_copy", "k_upload", "k_init"} => Remote[q] # 0
        /\ pc[q] \in {"i_mes", "a_wait", "a_clear"} => Remote[q] = 0
        /\ pc[q] \in {"x_free", "x_drop"} => ~Linked(q)
    BY DEF LinkInv, Fetched
  <2>2. CASE q # p
    <3>1. port'[q] = port[q]
      BY <1>0, <2>2 DEF Untouched, Born, Dropped, Ported, Joined
    <3>2. pc[q] \in {"x_free", "x_drop"} =>
              target_global_table_index'[q] = target_global_table_index[q]
      <4>1. InRequest(q) => pc[p] # "k_bridge"
        BY <2>2, ChangeAlone DEF InRequest
      <4> QED
        BY <1>0, <2>2, <4>1 DEF Untouched, Born, Dropped, Ported, Joined, InRequest
    <3> QED
      BY <1>0, <2>1, <2>2, <3>1, <3>2 DEF Linked
  <2>3. CASE q = p
    <3>1. /\ pc'[p] \in {"b_copy", "k_bridge", "k_copy"} => fs'[p] = p /\ port[p] = 0
          /\ pc'[p] = "b_copy" => Local[p] # 0
          /\ pc'[p] \in {"k_bridge", "k_copy", "k_upload", "k_init"} => Remote[p] # 0
          /\ pc'[p] \in {"i_mes", "a_wait", "a_clear"} => Remote[p] = 0
          /\ pc'[p] \in {"x_free", "x_drop"} => ~Linked(p)
      BY Enters
    <3>2. pc'[p] \in {"b_copy", "k_bridge", "k_copy"} => port'[p] = port[p]
      BY <1>0 DEF Untouched, Born, Dropped, Ported, Joined
    <3>3. pc'[p] \in {"x_free", "x_drop"} =>
              target_global_table_index'[p] = target_global_table_index[p]
      BY <1>0 DEF Untouched, Born, Dropped, Ported, Joined
    <3> QED
      BY <2>3, <3>1, <3>2, <3>3 DEF Linked
  <2> QED
    BY <2>2, <2>3
<1> QED
  BY <1>1, <1>2, <1>3 DEF LinkInv

LEMMA LinkNext ==
    ASSUME Serialized
    PROVE  LinkInv /\ [Next]_vars => LinkInv'
<1>1. ASSUME LinkInv, Next PROVE LinkInv'
  <2>1. PICK p \in Programs : Call(p) \/ (~crashed /\ Step(p))
    BY <1>1 DEF Next
  <2>2. SoundInv'
    BY <1>1, <2>1, SoundNext DEF LinkInv
  <2> QED
    BY <1>1, <2>1, <2>2, LinkStep
<1>2. ASSUME LinkInv, UNCHANGED vars PROVE LinkInv'
  <2>1. SoundInv'
    BY <1>2, SlotNext, TableNext DEF LinkInv, SoundInv
  <2> QED
    BY <1>2, <2>1 DEF vars, tableVars, objectVars, engineVars, acceptVars,
                      LinkInv, Fresh, Fetched,
                      LinkedLive, Holds, Linked
<1> QED
  BY <1>1, <1>2

LEMMA LinkInit == Init => LinkInv
<1> SUFFICES ASSUME Init PROVE LinkInv
  OBVIOUS
<1>1. SoundInv
  BY SlotInit, TableInit DEF SoundInv
<1>2. Fresh /\ Fetched /\ LinkedLive
  BY DEF Init, Fresh, Fetched, LinkedLive, Linked, Holds
<1> QED
  BY <1>1, <1>2 DEF LinkInv

\* With one request at a time, a socket somebody is connected to is never freed, and
\* links are never ended at one side only: the target of every object in the table
\* is in the table and linked itself.
THEOREM TargetsSafe ==
    ASSUME Serialized
    PROVE  Spec => []TargetsLive
<1>1. LinkInv => TargetsLive
  <2> SUFFICES ASSUME LinkInv, NEW i \in Taken, Bridged(addr[i])
               PROVE  Target(addr[i]) # NULL /\ Bridged(Target(addr[i]))
    BY DEF TargetsLive
  <2>1. addr[i] \in Programs /\ Holds(addr[i])
    BY TakenHolds DEF LinkInv, Taken, Bridged
  <2>2. PICK q \in Programs : /\ Holds(q) /\ Linked(q)
                              /\ target_global_table_index[addr[i]] = fd[q]
    BY <2>1 DEF LinkInv, LinkedLive, Bridged
  <2>3. Target(addr[i]) = q
    BY <2>1, <2>2, TargetIs DEF LinkInv
  <2> QED
    BY <2>2, <2>3, SocketsAssumption DEF Bridged, Holds
<1>2. LinkInv /\ [Next]_vars => LinkInv'
  BY LinkNext
<1> QED
  BY LinkInit, <1>1, <1>2, PTL DEF Spec

-----------------------------------------------------------------------------
(* One request at a time: ports. *)

\* No program connects to the port it binds itself.
OtherPort == \A p \in Programs : Local[p] # 0 => Local[p] # Remote[p]

\* From the look-up of the port to its copy nobody gets it.
Unused == \A p, q \in Programs : pc[p] = "b_copy" /\ Holds(q) => port[q] # Local[p]

Apart == \A p, q \in Programs :
    Holds(p) /\ Holds(q) /\ Bound(p) /\ Bound(q) /\ port[p] = port[q] => p = q

PortInv == LinkInv /\ Unused /\ Apart

LEMMA PortStep ==
    ASSUME Serialized, OtherPort, PortInv, LinkInv', NEW p \in Programs,
           Call(p) \/ Step(p)
    PROVE  PortInv'
<1> LinkInv
  BY DEF PortInv
<1> USE LinkTypes
<1>0. /\ \A q \in Programs \ {p} : pc'[q] = pc[q] /\ fs'[q] = fs[q]
      /\ \/ Untouched \/ Born(p) \/ Dropped(p)
         \/ pc[p] = "b_copy" /\ pc'[p] = "b_upload" /\ Ported(p, Local[p])
         \/ pc[p] = "k_copy" /\ pc'[p] \in {"k_upload", "failed"}
            /\ Ported(p, Remote[p])
         \/ \E s \in Programs : Joined(p, s)
  BY Changes
<1>1. \A q, r \in Programs : pc[q] = "b_copy" /\ Holds(r) => port[r] # Local[q]
  BY DEF PortInv, Unused
<1>2. \A q, r \in Programs :
          Holds(q) /\ Holds(r) /\ Bound(q) /\ Bound(r) /\ port[q] = port[r] => q = r
  BY DEF PortInv, Apart
<1>3. pc'[p] = "b_copy" =>
          Local[p] # 0 /\ \A q \in Programs : Holds(q) => port[q] # Local[p]
  <2>1. ASSUME NEW q \in Programs, Holds(q), ~is_port_used(Local[p])
        PROVE  port[q] # Local[p]
    <3>1. fd[q] \in Taken /\ addr[fd[q]] = q
      BY <2>1, HoldsSlot, SocketsAssumption DEF Taken, LinkInv
    <3> QED
      BY <2>1, <3>1 DEF is_port_used
  <2> QED
    BY <2>1, Enters
<1>4. \A q \in Programs \ {p} : pc[q] = "b_copy" => ~InRequest(p) /\ Local[q] # 0
  <2>1. \A q \in Programs : pc[q] = "b_copy" => InRequest(q) /\ Local[q] # 0
    BY DEF InRequest, LinkInv, Fetched
  <2> QED
    BY <2>1, ChangeAlone
<1>5. fd[p] = -1 => port[p] = 0 /\ ~Bound(p)
  BY DEF LinkInv, Fresh, Bound
<1>6. Unused'
  <2> SUFFICES ASSUME NEW q \in Programs, NEW r \in Programs, pc'[q] = "b_copy", Holds(r)'
               PROVE  port'[r] # Local[q]
    BY DEF Unused
  <2>1. CASE q = p
    <3>1. UNCHANGED port /\ (Holds(r) \/ (r = p /\ fd[p] = -1))
      BY <1>0, <2>1 DEF Untouched, Born, Dropped, Ported, Joined, Holds
    <3> QED
      BY <1>3, <1>5, <2>1, <3>1
  <2>2. CASE q # p
    <3>1. pc[q] = "b_copy" /\ ~InRequest(p) /\ Local[q] # 0
      BY <1>0, <1>4, <2>2
    <3>2. Untouched \/ Born(p) \/ Dropped(p)
      BY <1>0, <3>1 DEF InRequest, Joined
    <3>3. UNCHANGED port /\ (Holds(r) \/ (r = p /\ fd[p] = -1))
      BY <3>2 DEF Untouched, Born, Dropped, Holds
    <3> QED
      BY <1>1, <1>5, <3>1, <3>3
  <2> QED
    BY <2>1, <2>2
<1>7. Apart'
  <2>1. CASE Untouched \/ Dropped(p) \/ \E s \in Programs : Joined(p, s)
    BY <1>2, <2>1 DEF Apart, Untouched, Dropped, Joined, Holds, Bound
  <2>2. CASE Born(p)
    <3>1. \A q \in Programs : Holds(q)' /\ Bound(q)' => Holds(q) /\ Bound(q)
      BY <1>5, <2>2 DEF Born, Holds, Bound
    <3>2. UNCHANGED port
      BY <2>2 DEF Born
    <3> QED
      BY <1>2, <3>1, <3>2 DEF Apart
  <2>3. CASE pc[p] = "b_copy" /\ Ported(p, Local[p])
    BY <1>1, <1>2, <2>3 DEF Apart, Ported, Holds, Bound
  <2>4. CASE pc[p] = "k_copy" /\ Ported(p, Remote[p])
    <3>1. ~Bound(p)'
      BY <2>4 DEF Ported, Bound, OtherPort
    <3>2. \A q \in Programs \ {p} : port'[q] = port[q]
      BY <2>4 DEF Ported
    <3>3. UNCHANGED <<fd, freed>>
      BY <2>4 DEF Ported
    <3> QED
      BY <1>2, <3>1, <3>2, <3>3 DEF Apart, Holds, Bound
  <2> QED
    BY <1>0, <2>1, <2>2, <2>3, <2>4
<1> QED
  BY <1>6, <1>7 DEF PortInv

LEMMA PortNext ==
    ASSUME Serialized, OtherPort
    PROVE  PortInv /\ [Next]_vars => PortInv'
<1>1. ASSUME PortInv, Next PROVE PortInv'
  <2>1. PICK p \in Programs : Call(p) \/ (~crashed /\ Step(p))
    BY <1>1 DEF Next
  <2>2. LinkInv'
    BY <1>1, LinkNext DEF PortInv
  <2> QED
    BY <1>1, <2>1, <2>2, PortStep
<1>2. ASSUME PortInv, UNCHANGED vars PROVE PortInv'
  <2>1. LinkInv'
    BY <1>2, LinkNext DEF PortInv
  <2> QED
    BY <1>2, <2>1 DEF vars, tableVars, objectVars, engineVars, acceptVars,
                      PortInv, Unused, Apart,
                      Holds, Bound
<1> QED
  BY <1>1, <1>2

\* With one request at a time, for any programs of which none connects to the port it
\* binds itself, two sockets in the table are never bound to one port.
THEOREM PortSafe ==
    ASSUME Serialized, OtherPort
    PROVE  Spec => []PortExclusive
<1>1. Init => PortInv
  BY LinkInit DEF Init, PortInv, Unused, Apart, Holds
<1>2. PortInv /\ [Next]_vars => PortInv'
  BY PortNext
<1>3. PortInv => PortExclusive
  <2> SUFFICES ASSUME PortInv, NEW i \in Taken, NEW j \in Taken,
                      Bound(addr[i]), Bound(addr[j]), port[addr[i]] = port[addr[j]]
               PROVE  i = j
    BY DEF PortExclusive
  <2>1. addr[i] \in Programs /\ addr[j] \in Programs /\ i \in Slots /\ j \in Slots
    BY DEF PortInv, LinkInv, SoundInv, SlotInv, TypeInv, TypeOK, Taken
  <2>2. fd[addr[i]] # -1 /\ fd[addr[j]] # -1
    BY <2>1 DEF PortInv, LinkInv, Fresh, Bound
  <2>3. /\ Holds(addr[i]) /\ fd[addr[i]] = i
        /\ Holds(addr[j]) /\ fd[addr[j]] = j
    BY <2>1, <2>2, TakenHolds DEF PortInv, LinkInv, Taken
  <2>4. addr[i] = addr[j]
    BY <2>1, <2>3 DEF PortInv, Apart
  <2> QED
    BY <2>3, <2>4
<1> QED
  BY <1>1, <1>2, <1>3, PTL DEF Spec

-----------------------------------------------------------------------------
(* One request at a time and a client per port: links are mutual. *)

\* No two programs connect to one port.
OneClientPerPort ==
    \A p, q \in Programs : Remote[p] = Remote[q] /\ Remote[p] # 0 => p = q

\* A port is what bind or connect was given.
OwnPort == \A p \in Programs : port[p] \in {0, Local[p], Remote[p]}

\* c and s are linked to each other: s is bound to the port c has connected to.
Pair(c, s) ==
    /\ c # s /\ Holds(c) /\ Holds(s)
    /\ target_global_table_index[c] = fd[s] /\ target_global_table_index[s] = fd[c]
    /\ Remote[c] # 0 /\ port[s] = Remote[c] /\ Local[s] = Remote[c]
    /\ port[c] = Remote[c] \/ pc[c] = "k_copy"

Paired == \A p \in Programs : Holds(p) /\ Linked(p) =>
              \E q \in Programs : Pair(p, q) \/ Pair(q, p)

PairInv == LinkInv /\ OwnPort /\ Paired

\* Both of a pair are linked, to each other.
LEMMA PairLinks ==
    ASSUME LinkInv, NEW c \in Programs, NEW s \in Programs, Pair(c, s)
    PROVE  /\ Linked(c) /\ Linked(s) /\ Target(c) = s /\ Target(s) = c
           /\ port[s] # 0 /\ pc[c] # "k_bridge"
           /\ port[c] = 0 => pc[c] = "k_copy"
<1>1. port[c] = 0 => pc[c] = "k_copy"
  BY DEF Pair
<1>2. pc[c] # "k_bridge"
  BY DEF Pair, LinkInv, Fetched
<1> QED
  BY <1>1, <1>2, TargetIs DEF Pair, LinkInv

\* At ConnectPort_copy nothing but the copy happens.
LEMMA CopyOnly ==
    ASSUME LinkInv, NEW p \in Programs, Call(p) \/ Step(p), pc[p] = "k_copy"
    PROVE  Ported(p, Remote[p]) /\ pc'[p] \in {"k_upload", "failed"}
<1>1. ConnectPort_copy(p)
  BY DEF Call, Create, ApllyPort, init_user_struct_memory_pool, ConnectPort, kill_self,
         Step, Create_store, Create_index, find_next_useful_index_of_globel_table,
         add_user_connect_load, add_user_connect_store, Apply, ApllyPort_copy,
         upload_pool, init_user_message_information_struct, accept_load, accept_store,
         make_bridge, set_user_struct_type_client, close_self, close_self_drop
<1>2. fs[p] = p /\ port[p] = 0 /\ Remote[p] # 0 /\ Holds(p)
  BY FindsOwn DEF LinkInv, Fetched, Open
<1> QED
  BY <1>1, <1>2, LinkTypes
  DEF ConnectPort_copy, Ported, Goto, tableVars, engineVars

\* The two a bridge joins are not linked yet, and it makes a pair of them.
LEMMA JoinsPair ==
    ASSUME OneClientPerPort, PairInv, NEW p \in Programs, NEW s \in Programs,
           Joined(p, s), pc'[s] = pc[s]
    PROVE  ~Linked(p) /\ ~Linked(s) /\ Pair(p, s)'
<1> LinkInv
  BY DEF PairInv
<1> USE LinkTypes
<1>1. s # p /\ Holds(p) /\ Holds(s) /\ Remote[p] # 0 /\ port[s] = Remote[p] /\ port[p] = 0
      /\ pc[p] = "k_bridge" /\ pc'[p] = "k_copy"
  BY DEF Joined
<1>2. ~Linked(p)
  <2>1. ASSUME NEW q \in Programs, Pair(p, q) \/ Pair(q, p) PROVE FALSE
    BY <1>1, <2>1, PairLinks
  <2> QED
    BY <1>1, <2>1 DEF PairInv, Paired
<1>3. pc[s] # "k_copy"
  BY <1>1, ChangeAlone DEF InRequest
<1>4. Remote[s] # Remote[p]
  BY <1>1 DEF OneClientPerPort
<1>5. ~Linked(s)
  <2>1. ASSUME NEW r \in Programs, Pair(s, r) PROVE FALSE
    BY <1>1, <1>3, <1>4, <2>1 DEF Pair
  <2>2. ASSUME NEW r \in Programs, Pair(r, s) PROVE FALSE
    <3>1. Remote[r] = Remote[p]
      BY <1>1, <2>2 DEF Pair
    <3>2. r = p
      BY <1>1, <3>1 DEF OneClientPerPort
    <3> QED
      BY <1>2, <2>2, <3>2, PairLinks
  <2> QED
    BY <1>1, <2>1, <2>2 DEF PairInv, Paired
<1>6. Local[s] = Remote[p]
  <2>1. port[s] \in {0, Local[s], Remote[s]}
    BY DEF PairInv, OwnPort
  <2> QED
    BY <1>1, <1>4, <2>1
<1>7. /\ target_global_table_index'[p] = fd[s] /\ target_global_table_index'[s] = fd[p]
      /\ UNCHANGED <<port, fd, freed>>
  BY <1>1 DEF Joined
<1> QED
  BY <1>1, <1>2, <1>5, <1>6, <1>7 DEF Pair, Holds

\* A pair stays one.
LEMMA PairKept ==
    ASSUME OneClientPerPort, PairInv, NEW p \in Programs, Call(p) \/ Step(p),
           NEW c \in Programs, NEW s \in Programs, Pair(c, s)
    PROVE  Pair(c, s)'
<1> LinkInv
  BY DEF PairInv
<1> USE LinkTypes
<1>0. /\ \A q \in Programs \ {p} : pc'[q] = pc[q] /\ fs'[q] = fs[q]
      /\ \/ Untouched \/ Born(p) \/ Dropped(p)
         \/ pc[p] = "b_copy" /\ pc'[p] = "b_upload" /\ Ported(p, Local[p])
         \/ pc[p] = "k_copy" /\ pc'[p] \in {"k_upload", "failed"}
            /\ Ported(p, Remote[p])
         \/ \E r \in Programs : Joined(p, r)
  BY Changes
<1>1. /\ Linked(c) /\ Linked(s) /\ port[s] # 0 /\ pc[c] # "k_bridge"
      /\ port[c] = 0 => pc[c] = "k_copy"
  BY PairLinks
<1>2. c = p /\ pc[p] = "k_copy" => Ported(p, Remote[p])
  BY CopyOnly
<1> DEFINE Same ==
        /\ UNCHANGED freed \/ (freed' = freed \cup {p} /\ p # c /\ p # s)
        /\ fd'[c] = fd[c] /\ fd'[s] = fd[s]
        /\ target_global_table_index'[c] = target_global_table_index[c]
        /\ target_global_table_index'[s] = target_global_table_index[s]
        /\ port'[s] = port[s]
<1>3. Same
  <2>1. CASE Untouched
    BY <2>1 DEF Untouched
  <2>2. CASE Born(p)
    BY <2>2 DEF Born, Pair, Holds
  <2>3. CASE Dropped(p)
    BY <1>1, <2>3 DEF Dropped
  <2>4. ASSUME NEW number, Ported(p, number) PROVE Same
    BY <1>1, <2>4 DEF Ported
  <2>5. ASSUME NEW r \in Programs, Joined(p, r) PROVE Same
    <3>1. pc'[r] = pc[r]
      BY <1>0, <2>5 DEF Joined
    <3>2. ~Linked(p) /\ ~Linked(r)
      BY <2>5, <3>1, JoinsPair
    <3> QED
      BY <1>1, <2>5, <3>2 DEF Joined
  <2> QED
    BY <1>0, <2>1, <2>2, <2>3, <2>4, <2>5
<1>4. port'[c] = Remote[c] \/ pc'[c] = "k_copy"
  <2>1. CASE c # p
    <3>1. pc'[c] = pc[c] /\ port'[c] = port[c]
      BY <1>0, <2>1 DEF Untouched, Born, Dropped, Ported, Joined
    <3> QED
      BY <3>1 DEF Pair
  <2>2. CASE c = p /\ pc[p] = "k_copy"
    BY <1>2, <2>2 DEF Ported
  <2>3. CASE c = p /\ pc[p] # "k_copy"
    <3>1. port[p] = Remote[p] /\ port[p] # 0
      BY <2>3 DEF Pair
    <3>2. port'[p] = port[p]
      BY <1>0, <2>3, <3>1 DEF Untouched, Born, Dropped, Ported, Joined
    <3> QED
      BY <2>3, <3>1, <3>2
  <2> QED
    BY <2>1, <2>2, <2>3
<1> QED
  BY <1>3, <1>4 DEF Pair, Holds

LEMMA PairStep ==
    ASSUME Serialized, OneClientPerPort, PairInv, LinkInv', NEW p \in Programs,
           Call(p) \/ Step(p)
    PROVE  PairInv'
<1> LinkInv
  BY DEF PairInv
<1> USE LinkTypes
<1>0. /\ \A q \in Programs \ {p} : pc'[q] = pc[q] /\ fs'[q] = fs[q]
      /\ \/ Untouched \/ Born(p) \/ Dropped(p)
         \/ pc[p] = "b_copy" /\ pc'[p] = "b_upload" /\ Ported(p, Local[p])
         \/ pc[p] = "k_copy" /\ pc'[p] \in {"k_upload", "failed"}
            /\ Ported(p, Remote[p])
         \/ \E r \in Programs : Joined(p, r)
  BY Changes
<1>1. OwnPort'
  <2>1. \A q \in Programs : port[q] \in {0, Local[q], Remote[q]}
    BY DEF PairInv, OwnPort
  <2> QED
    BY <1>0, <2>1 DEF OwnPort, Untouched, Born, Dropped, Ported, Joined
<1>2. ASSUME NEW q \in Programs, Holds(q), Linked(q)
      PROVE  \E r \in Programs : Pair(q, r)' \/ Pair(r, q)'
  <2>1. PICK r \in Programs : Pair(q, r) \/ Pair(r, q)
    BY <1>2 DEF PairInv, Paired
  <2> QED
    BY <2>1, PairKept
<1>3. ASSUME NEW q \in Programs, Holds(q)', Linked(q)'
      PROVE  \E r \in Programs : Pair(q, r)' \/ Pair(r, q)'
  <2>1. CASE Untouched \/ Dropped(p) \/ \E number : Ported(p, number)
    BY <1>2, <1>3, <2>1 DEF Untouched, Dropped, Ported, Holds, Linked
  <2>2. CASE Born(p)
    BY <1>2, <1>3, <2>2 DEF Born, Holds, Linked
  <2>3. ASSUME NEW s \in Programs, Joined(p, s)
        PROVE  \E r \in Programs : Pair(q, r)' \/ Pair(r, q)'
    <3>1. Pair(p, s)'
      BY <1>0, <2>3, JoinsPair DEF Joined
    <3>2. q # p /\ q # s => Holds(q) /\ Linked(q)
      BY <1>3, <2>3 DEF Joined, Holds, Linked
    <3> QED
      BY <1>2, <3>1, <3>2
  <2> QED
    BY <1>0, <2>1, <2>2, <2>3
<1> QED
  BY <1>1, <1>3 DEF PairInv, Paired

LEMMA PairNext ==
    ASSUME Serialized, OneClientPerPort
    PROVE  PairInv /\ [Next]_vars => PairInv'
<1>1. ASSUME PairInv, Next PROVE PairInv'
  <2>1. PICK p \in Programs : Call(p) \/ (~crashed /\ Step(p))
    BY <1>1 DEF Next
  <2>2. LinkInv'
    BY <1>1, LinkNext DEF PairInv
  <2> QED
    BY <1>1, <2>1, <2>2, PairStep
<1>2. ASSUME PairInv, UNCHANGED vars PROVE PairInv'
  <2>1. LinkInv'
    BY <1>2, LinkNext DEF PairInv
  <2> QED
    BY <1>2, <2>1 DEF vars, tableVars, objectVars, engineVars, acceptVars,
                      PairInv, OwnPort, Paired,
                      Pair, Holds, Linked
<1> QED
  BY <1>1, <1>2

LEMMA PairInit == Init => PairInv
  BY LinkInit DEF Init, PairInv, OwnPort, Paired, Holds, Linked

\* With one request at a time and a client per port, what a program sends its target
\* receives: links are mutual, however many programs bind, connect and close.
THEOREM MutualSafe ==
    ASSUME Serialized, OneClientPerPort
    PROVE  Spec => []Mutual
<1>1. PairInv => Mutual
  <2> SUFFICES ASSUME PairInv, NEW i \in Taken, Bridged(addr[i])
               PROVE  Target(Target(addr[i])) = addr[i]
    BY DEF Mutual
  <2>1. addr[i] \in Programs /\ Holds(addr[i])
    BY TakenHolds DEF PairInv, LinkInv, Taken, Bridged
  <2>2. PICK q \in Programs : Pair(addr[i], q) \/ Pair(q, addr[i])
    BY <2>1 DEF PairInv, Paired, Bridged
  <2> QED
    BY <2>1, <2>2, PairLinks DEF PairInv
<1>2. PairInv /\ [Next]_vars => PairInv'
  BY PairNext
<1> QED
  BY PairInit, <1>1, <1>2, PTL DEF Spec

-----------------------------------------------------------------------------
(* One request at a time and a client per port: a close is told. *)

\* How far an object is set up agrees with the step of its program, and whoever has
\* come to the end of the set-up, or has a connection announced to it, is linked.
Boxed == \A p \in Programs :
    /\ cs[p] \in {p, NULL}
    /\ pools[p] # "none" => cs[p] = p
    /\ pools[p] = "queues" => pc[p] \in {"a_wait", "a_clear", "open", "closed"}
    /\ pc[p] \in {"a_wait", "a_clear", "open"} => pools[p] = "queues"
    /\ pc[p] = "i_mes" => pools[p] = "pools"
    /\ pc[p] \in {"a_clear", "open"} => Linked(p)
    /\ (pc[p] = "closed" /\ p \notin freed) => Linked(p) /\ Holds(p)
    /\ (Remote[p] = 0 /\ "bHas_connect" \in flags[p]) => Linked(p) /\ Holds(p)

\* m has been told of a close, or was and its own accept took it down again.
Notified(m) == "bIs_close" \in flags[m] \/ m \in lost

\* How far the two of a pair are: the client opens only after the server's queues
\* are there, the server only after the client's mailbox is, and after that a close
\* of either finds the mailbox of the other.
PairTold(c, s) ==
    /\ pc[c] \in {"k_copy", "k_upload", "k_init", "open", "closed"}
    /\ pc[c] \in {"open", "closed"} => pools[s] = "queues"
    /\ pc[s] \in {"a_clear", "open"} => cs[c] = c
    /\ (Remote[s] = 0 /\ "bHas_connect" \in flags[s]) => cs[c] = c
    /\ pc[c] = "closed" => Notified(s)
    /\ (pc[s] = "closed" /\ pools[s] = "queues") => Notified(c)

ToldInv == PairInv /\ Boxed /\ \A c, s \in Programs : Pair(c, s) => PairTold(c, s)

\* What the step of p may do to mailboxes, pools and flags.
Mute(p) ==
    /\ UNCHANGED <<cs, pools, flags>>
    /\ \/ pc'[p] = pc[p]
       \/ pc[p] = "x_drop" /\ pc'[p] = "closed" /\ p \in freed'
       \/ pc[p] \in {"k_copy", "k_init"} /\ pc'[p] = "failed" /\ Target(p) = NULL
       \/ pc[p] = "k_copy" /\ pc'[p] = "k_upload"
       \/ /\ pc[p] \notin {"k_copy", "k_upload", "k_init", "open", "closed", "a_wait",
                          "a_clear"}
          /\ pc'[p] \notin {"open", "closed", "a_wait", "a_clear", "i_mes"}

Uploads(p) ==
    /\ \/ pc[p] \in {"b_upload", "k_upload"} /\ pc'[p] = pc[p]
       \/ pc[p] = "b_upload" /\ pc'[p] = "bound"
       \/ pc[p] = "k_upload" /\ pc'[p] = "k_init"
    /\ cs' = [cs EXCEPT ![p] = p]
    /\ UNCHANGED pools
    /\ \/ UNCHANGED flags
       \/ \E t \in Programs :
              /\ Target(p) = t /\ Linked(p) /\ cs'[t] \in Programs
              /\ flags' = [flags EXCEPT ![cs'[t]] = @ \cup {"bHas_connect"}]

Prepares(p) ==
    /\ UNCHANGED <<cs, flags>>
    /\ \/ /\ pc[p] = "bound" /\ pc'[p] = "i_mes" /\ cs[p] # NULL
          /\ pools' = [pools EXCEPT ![p] = "pools"]
       \/ /\ pc[p] = "i_mes" /\ pc'[p] = "a_wait"
          /\ pools' = [pools EXCEPT ![p] = "queues"]

Loads(p) ==
    /\ pc[p] = "a_wait" /\ pc'[p] = "a_clear" /\ "bHas_connect" \in flags[p]
    /\ UNCHANGED <<cs, pools, flags>>

Accepts(p) ==
    /\ pc[p] = "a_clear" /\ pc'[p] = "open"
    /\ \/ flags' = [flags EXCEPT ![p] = byte[p] \ {"bHas_connect"}]
       \/ UNCHANGED flags
    /\ "bIs_close" \in flags[p] => "bIs_close" \in flags'[p] \/ p \in lost'
    /\ UNCHANGED <<cs, pools>>

TakesOver(p) ==
    /\ pc[p] = "k_init" /\ pc'[p] = "open"
    /\ \E t \in Programs : Target(p) = t /\ pools[t] = "queues" /\ cs[p] # NULL
    /\ pools' = [pools EXCEPT ![p] = "queues"]
    /\ UNCHANGED <<cs, flags>>

Closes(p) ==
    /\ pc[p] \in {"socket", "bound", "failed", "open"}
    /\ pc'[p] = IF Target(p) = NULL THEN "x_free" ELSE "closed"
    /\ flags' = CloseFlags(p, Target(p))
    /\ UNCHANGED <<cs, pools>>

LEMMA ToldTypes ==
    ASSUME LinkInv
    PROVE  /\ cs \in [Programs -> Programs \cup {NULL}]
           /\ pools \in [Programs -> {"none", "pools", "queues"}]
           /\ flags \in [Programs -> SUBSET {"bHas_connect", "bIs_close", "self_close"}]
  BY DEF LinkInv, SoundInv, SlotInv, TypeInv, TypeOK

LEMMA TellChanges ==
    ASSUME LinkInv, NEW p \in Programs, Call(p) \/ Step(p)
    PROVE  /\ \/ Mute(p) \/ Uploads(p) \/ Prepares(p) \/ Accepts(p) \/ TakesOver(p)
              \/ Closes(p) \/ Loads(p)
           /\ lost \subseteq lost'
<1> USE DEF Goto, Fetch, tableVars, objectVars, engineVars
<1> USE LinkTypes, ToldTypes
<1>1. pc[p] \in Open => At(fd[p]) = p /\ Holds(p) /\ p # NULL
  BY FindsOwn, SocketsAssumption DEF LinkInv
<1>2. Target(p) \in Programs \cup {NULL}
  BY TargetTyped DEF LinkInv, SoundInv, SlotInv, TypeInv, TypeOK
<1>3. ASSUME Create(p) \/ ApllyPort(p) \/ ConnectPort(p) PROVE Mute(p)
  BY <1>3 DEF Create, ApllyPort, ConnectPort, Mute
<1>4. ASSUME init_user_struct_memory_pool(p) PROVE Mute(p) \/ Prepares(p)
  BY <1>1, <1>4 DEF init_user_struct_memory_pool, Mute, Prepares, Open
<1>5. ASSUME kill_self(p) PROVE Closes(p)
  <2>1. At(fd[p]) = p /\ p # NULL
    BY <1>1, <1>5 DEF kill_self, Open
  <2> QED
    BY <1>5, <2>1, Zenon DEF kill_self, Closes
<1>6. ASSUME \/ Create_store(p) \/ Create_index(p)
             \/ find_next_useful_index_of_globel_table(p)
             \/ add_user_connect_load(p) \/ add_user_connect_store(p) \/ Apply(p)
             \/ ApllyPort_copy(p)
      PROVE  Mute(p)
  BY <1>6
  DEF Create_store, Create_index, find_next_useful_index_of_globel_table,
      add_user_connect_load, add_user_connect_store, Apply, ApllyPort_copy, Mute
<1>7. ASSUME upload_pool(p) PROVE Uploads(p)
  <2>1. At(fd[p]) = p /\ p # NULL /\ pc[p] \in {"b_upload", "k_upload"}
    BY <1>1, <1>7 DEF upload_pool, Open
  <2>2. Announce(p, p, IF pc[p] = "b_upload" THEN "bound" ELSE "k_init")
        /\ UNCHANGED pools
    BY <1>7, <2>1 DEF upload_pool
  <2>3. cs' = [cs EXCEPT ![p] = p]
    BY <2>2 DEF Announce
  <2>4. \/ pc'[p] = pc[p]
        \/ pc[p] = "b_upload" /\ pc'[p] = "bound"
        \/ pc[p] = "k_upload" /\ pc'[p] = "k_init"
    BY <2>1, <2>2 DEF Announce
  <2>5. \/ UNCHANGED flags
        \/ /\ Target(p) # NULL /\ Linked(p) /\ cs'[Target(p)] # NULL
           /\ flags' = [flags EXCEPT ![cs'[Target(p)]] = @ \cup {"bHas_connect"}]
    BY <2>2, <2>3 DEF Announce
  <2>6. Target(p) # NULL => cs'[Target(p)] \in Programs \cup {NULL}
    BY <1>2, <2>3
  <2> QED
    BY <1>2, <2>1, <2>2, <2>3, <2>4, <2>5, <2>6 DEF Uploads
<1>8. ASSUME init_user_message_information_struct(p) PROVE Mute(p) \/ Prepares(p)
  BY <1>1, <1>8 DEF init_user_message_information_struct, Mute, Prepares, Open
<1>9. ASSUME accept_store(p) PROVE Accepts(p)
  BY <1>9 DEF accept_store, Accepts
<1>10. ASSUME make_bridge(p) PROVE Mute(p)
  <2>1. /\ pc[p] = "k_bridge" /\ UNCHANGED <<cs, pools, flags>>
        /\ pc'[p] \in {"k_bridge", "k_copy", "failed"}
    BY <1>10 DEF make_bridge
  <2> QED
    BY <2>1 DEF Mute
<1>11. ASSUME ConnectPort_copy(p) PROVE Mute(p)
  <2>1. fs[p] = p
    BY <1>11 DEF ConnectPort_copy, LinkInv, Fetched
  <2> QED
    BY <1>11, <2>1 DEF ConnectPort_copy, Mute
<1>12. ASSUME set_user_struct_type_client(p) PROVE Mute(p) \/ TakesOver(p)
  <2>1. At(fd[p]) = p
    BY <1>1, <1>12 DEF set_user_struct_type_client, Open
  <2> QED
    BY <1>2, <1>12, <2>1 DEF set_user_struct_type_client, Mute, TakesOver
<1>13. ASSUME close_self(p) PROVE Mute(p)
  <2>1. ~Linked(p) /\ At(fd[p]) = p /\ p # NULL
    BY <1>1, <1>13 DEF LinkInv, Fetched, close_self, Open
  <2>2. pc[p] = "x_free" /\ pc'[p] = "x_drop" /\ UNCHANGED <<cs, pools, flags>>
    BY <1>13, <2>1 DEF close_self
  <2> QED
    BY <2>2 DEF Mute
<1>14. ASSUME close_self_drop(p) PROVE Mute(p)
  <2>1. fs[p] = p
    BY <1>14 DEF LinkInv, SoundInv, SlotInv, Owners, close_self_drop
  <2> QED
    BY <1>14, <2>1 DEF close_self_drop, Mute
<1>15. ASSUME accept_load(p) PROVE Loads(p)
  BY <1>15 DEF accept_load, HasConnect, Loads
<1>16. lost \subseteq lost'
  BY DEF Call, Step, Create, ApllyPort, init_user_struct_memory_pool, ConnectPort,
         kill_self, Create_store, Create_index,
         find_next_useful_index_of_globel_table, add_user_connect_load,
         add_user_connect_store, Apply, ApllyPort_copy, upload_pool,
         init_user_message_information_struct, accept_load, accept_store,
         make_bridge, ConnectPort_copy, set_user_struct_type_client, close_self,
         close_self_drop, acceptVars
<1> QED
  BY <1>3, <1>4, <1>5, <1>6, <1>7, <1>8, <1>9, <1>10, <1>11, <1>12, <1>13, <1>14, <1>15,
     <1>16
  DEF Call, Step

\* Whatever p does, whoever was told of a close was told of it, and only an upload
\* tells of a connection, to the one it is with.
LEMMA FlagsGrow ==
    ASSUME ToldInv, NEW p \in Programs,
           \/ Mute(p) \/ Uploads(p) \/ Prepares(p) \/ Accepts(p) \/ TakesOver(p)
           \/ Closes(p) \/ Loads(p),
           lost \subseteq lost', NEW m \in Programs
    PROVE  /\ Notified(m) => Notified(m)'
           /\ "bHas_connect" \in flags'[m] /\ "bHas_connect" \notin flags[m]
                  => Uploads(p) /\ Target(p) = m /\ Linked(p)
<1> LinkInv
  BY DEF ToldInv, PairInv
<1> USE ToldTypes DEF Notified
<1>1. CASE Uploads(p)
  <2>1. CASE UNCHANGED flags
    BY <1>1, <2>1
  <2>2. ASSUME NEW t \in Programs, Target(p) = t, Linked(p), cs'[t] \in Programs,
               flags' = [flags EXCEPT ![cs'[t]] = @ \cup {"bHas_connect"}]
        PROVE  /\ Notified(m) => Notified(m)'
               /\ "bHas_connect" \in flags'[m] /\ "bHas_connect" \notin flags[m]
                      => Uploads(p) /\ Target(p) = m /\ Linked(p)
    <3>1. cs'[t] = t
      <4>1. cs[t] \in {t, NULL}
        BY DEF ToldInv, Boxed
      <4> QED
        BY <1>1, <2>2, <4>1, SocketsAssumption DEF Uploads
    <3> QED
      BY <1>1, <2>2, <3>1
  <2> QED
    BY <1>1, <2>1, <2>2 DEF Uploads
<1>2. CASE Closes(p)
  <2>1. flags'[m] \in {flags[m], flags[m] \cup {"bIs_close"},
                       flags[m] \cup {"bIs_close", "self_close"},
                       (flags[m] \cup {"bIs_close", "self_close"}) \cup {"bIs_close"}}
    BY <1>2 DEF Closes, CloseFlags
  <2> QED
    BY <2>1
<1>3. CASE Mute(p) \/ Prepares(p) \/ TakesOver(p) \/ Loads(p)
  BY <1>3 DEF Mute, Prepares, TakesOver, Loads
<1>4. CASE Accepts(p)
  BY <1>4 DEF Accepts
<1> QED
  BY <1>1, <1>2, <1>3, <1>4

\* Links stay, but for those of an object being made.
LEMMA LinksStay ==
    ASSUME LinkInv, NEW p \in Programs, Call(p) \/ Step(p), NEW q \in Programs,
           Holds(q), Linked(q)
    PROVE  Holds(q)' /\ Linked(q)'
<1> USE LinkTypes
<1>1. \/ Untouched \/ Born(p) \/ Dropped(p)
      \/ pc[p] = "b_copy" /\ pc'[p] = "b_upload" /\ Ported(p, Local[p])
      \/ pc[p] = "k_copy" /\ pc'[p] \in {"k_upload", "failed"}
         /\ Ported(p, Remote[p])
      \/ \E r \in Programs : Joined(p, r)
  BY Changes
<1>2. CASE Untouched \/ Dropped(p) \/ \E number : Ported(p, number)
  BY <1>2 DEF Untouched, Dropped, Ported, Holds, Linked
<1>3. CASE Born(p)
  BY <1>3 DEF Born, Holds, Linked
<1>4. ASSUME NEW r \in Programs, Joined(p, r) PROVE Holds(q)' /\ Linked(q)'
  BY <1>4 DEF Joined, Holds, Linked
<1> QED
  BY <1>1, <1>2, <1>3, <1>4

LEMMA BoxedKept ==
    ASSUME ToldInv, LinkInv', NEW p \in Programs, Call(p) \/ Step(p)
    PROVE  Boxed'
<1> LinkInv
  BY DEF ToldInv, PairInv
<1> USE LinkTypes, ToldTypes
<1>0. \A q \in Programs \ {p} : pc'[q] = pc[q]
  BY Changes
<1>1. \/ Mute(p) \/ Uploads(p) \/ Prepares(p) \/ Accepts(p) \/ TakesOver(p) \/ Closes(p)
      \/ Loads(p)
  BY TellChanges
<1>2. \A q \in Programs : Holds(q) /\ Linked(q) => Holds(q)' /\ Linked(q)'
  BY LinksStay
<1>3. \A q \in Programs : q \in freed => q \in freed'
  BY Changes DEF Untouched, Born, Dropped, Ported, Joined
<1>4. \A q \in Programs : pc[q] \in {"a_clear", "open"} => Holds(q)
  BY FindsOwn DEF LinkInv, Open
<1> SUFFICES ASSUME NEW q \in Programs
             PROVE  /\ cs'[q] \in {q, NULL}
                    /\ pools'[q] # "none" => cs'[q] = q
                    /\ pools'[q] = "queues" => pc'[q] \in {"a_wait", "a_clear", "open", "closed"}
                    /\ pc'[q] \in {"a_wait", "a_clear", "open"} => pools'[q] = "queues"
                    /\ pc'[q] = "i_mes" => pools'[q] = "pools"
                    /\ pc'[q] \in {"a_clear", "open"} => Linked(q)'
                    /\ (pc'[q] = "closed" /\ q \notin freed') => Linked(q)' /\ Holds(q)'
                    /\ (Remote[q] = 0 /\ "bHas_connect" \in flags'[q])
                           => Linked(q)' /\ Holds(q)'
  BY DEF Boxed, Linked, Holds
<1>5. /\ cs[q] \in {q, NULL}
      /\ pools[q] # "none" => cs[q] = q
      /\ pools[q] = "queues" => pc[q] \in {"a_wait", "a_clear", "open", "closed"}
      /\ pc[q] \in {"a_wait", "a_clear", "open"} => pools[q] = "queues"
      /\ pc[q] = "i_mes" => pools[q] = "pools"
      /\ pc[q] \in {"a_clear", "open"} => Linked(q)
      /\ (pc[q] = "closed" /\ q \notin freed) => Linked(q) /\ Holds(q)
      /\ (Remote[q] = 0 /\ "bHas_connect" \in flags[q]) => Linked(q) /\ Holds(q)
  BY DEF ToldInv, Boxed
<1>6. cs'[q] \in {q, NULL} /\ (cs[q] = q => cs'[q] = q)
  BY <1>1, <1>5 DEF Mute, Uploads, Prepares, Accepts, TakesOver, Closes, Loads
<1>7. (Remote[q] = 0 /\ "bHas_connect" \in flags'[q]) => Linked(q)' /\ Holds(q)'
  <2>1. CASE "bHas_connect" \in flags[q]
    BY <1>2, <1>5, <2>1
  <2>2. CASE "bHas_connect" \in flags'[q] /\ "bHas_connect" \notin flags[q]
    <3>1. Uploads(p) /\ Linked(p) /\ Target(p) = q
      BY <1>1, <2>2, TellChanges, FlagsGrow
    <3>2. Holds(p)
      BY <3>1, FindsOwn DEF Uploads, Open, LinkInv
    <3>3. PICK r \in Programs : Pair(p, r) \/ Pair(r, p)
      BY <3>1, <3>2 DEF ToldInv, PairInv, Paired
    <3>4. r = q /\ Linked(q) /\ Holds(q)
      BY <3>1, <3>3, PairLinks DEF Pair
    <3> QED
      BY <1>2, <3>4
  <2> QED
    BY <2>1, <2>2
<1>8. CASE q # p
  <2>1. pc'[q] = pc[q] /\ cs'[q] = cs[q] /\ pools'[q] = pools[q]
    BY <1>0, <1>1, <1>8 DEF Mute, Uploads, Prepares, Accepts, TakesOver, Closes, Loads
  <2>2. pc[q] \in {"a_clear", "open"} => Linked(q)'
    BY <1>2, <1>4, <1>5
  <2>3. pc[q] = "closed" /\ q \notin freed' => Linked(q)' /\ Holds(q)'
    BY <1>2, <1>3, <1>5
  <2> QED
    BY <1>3, <1>5, <1>6, <1>7, <2>1, <2>2, <2>3
<1>9. CASE q = p
  <2>0. Target(p) # NULL /\ pc[p] \in Open => Linked(p) /\ Holds(p)
    <3>1. pc[p] \in Open => Holds(p)
      BY FindsOwn DEF LinkInv
    <3>2. Target(p) # NULL => Linked(p)
      BY DEF Target, At, Linked, Slots
    <3> QED
      BY <3>1, <3>2
  <2>1. CASE Mute(p)
    BY <1>2, <1>3, <1>4, <1>5, <1>6, <1>7, <1>9, <2>1 DEF Mute
  <2>2. CASE Uploads(p)
    BY <1>5, <1>6, <1>7, <1>9, <2>2 DEF Uploads
  <2>3. CASE Prepares(p)
    BY <1>5, <1>6, <1>7, <1>9, <2>3 DEF Prepares
  <2>4. CASE Accepts(p)
    <3>1. Linked(p) /\ Holds(p)
      BY <1>4, <1>5, <1>9, <2>4 DEF Accepts
    <3> QED
      BY <1>2, <1>5, <1>6, <1>7, <1>9, <2>4, <3>1 DEF Accepts
  <2>7. CASE Loads(p)
    <3>1. Remote[p] = 0
      BY <2>7 DEF LinkInv, Fetched, Loads
    <3>2. Linked(p) /\ Holds(p)
      BY <1>5, <1>9, <2>7, <3>1 DEF Loads
    <3> QED
      BY <1>2, <1>5, <1>6, <1>7, <1>9, <2>7, <3>2 DEF Loads
  <2>5. CASE TakesOver(p)
    <3>1. cs[p] # NULL /\ Target(p) # NULL /\ pc[p] = "k_init" /\ pc'[p] = "open"
          /\ pools'[p] = "queues"
      BY <2>5, SocketsAssumption DEF TakesOver
    <3>2. Linked(p)'
      BY <1>2, <2>0, <3>1 DEF Open
    <3> QED
      BY <1>5, <1>6, <1>7, <1>9, <3>1, <3>2
  <2>6. CASE Closes(p)
    <3>1. /\ pc[p] \in {"socket", "bound", "failed", "open"} /\ UNCHANGED <<cs, pools>>
          /\ pc'[p] = IF Target(p) = NULL THEN "x_free" ELSE "closed"
      BY <2>6 DEF Closes
    <3>2. pc'[p] = "closed" => Linked(p)' /\ Holds(p)'
      BY <1>2, <2>0, <3>1 DEF Open
    <3>3. pc[p] = "open" => Target(p) # NULL
      <4>1. pc[p] = "open" => Linked(p) /\ Holds(p)
        BY <1>5, <1>9, FindsOwn DEF Open, LinkInv
      <4>2. Linked(p) /\ Holds(p) => Target(p) # NULL
        BY TargetIs, SocketsAssumption DEF LinkInv, LinkedLive
      <4> QED
        BY <4>1, <4>2
    <3> QED
      BY <1>5, <1>6, <1>7, <1>9, <3>1, <3>2, <3>3
  <2> QED
    BY <1>1, <2>1, <2>2, <2>3, <2>4, <2>5, <2>6, <2>7
<1> QED
  BY <1>8, <1>9

\* What PairLinks says of all pairs, and of those after a step.
LinkedPairs == \A c, s \in Programs :
    Pair(c, s) => Linked(c) /\ Linked(s) /\ Target(c) = s /\ Target(s) = c

LEMMA PairLinksThen == LinkInv' => LinkedPairs'
<1>1. LinkInv => LinkedPairs
  BY PairLinks DEF LinkedPairs
<1> QED
  BY <1>1, PTL

\* What is a pair after a step was one before, or is the one just joined.
LEMMA PairWas ==
    ASSUME Serialized, OneClientPerPort, PairInv, PairInv', NEW p \in Programs,
           Call(p) \/ Step(p), NEW c \in Programs, NEW s \in Programs, Pair(c, s)'
    PROVE  Pair(c, s) \/ (c = p /\ Joined(p, s))
<1> LinkInv /\ LinkInv'
  BY DEF PairInv
<1> USE LinkTypes
<1>0. \A q \in Programs \ {p} : pc'[q] = pc[q]
  BY Changes
<1>1. /\ Linked(c)' /\ Holds(c)' /\ Target(c)' = s /\ Remote[c] # 0
      /\ port'[c] = Remote[c] \/ pc'[c] = "k_copy"
      /\ port'[s] = Remote[c] /\ c # s
  <2>1. (Linked(c) /\ Target(c) = s)'
    BY PairLinksThen DEF LinkedPairs
  <2> QED
    BY <2>1 DEF Pair, Linked
<1>2. \A q, r \in Programs : ~(Pair(q, r)' /\ Pair(r, q)')
  <2> SUFFICES ASSUME NEW q \in Programs, NEW r \in Programs, Pair(q, r)', Pair(r, q)'
               PROVE  FALSE
    OBVIOUS
  <2>1. q # r /\ Remote[q] # Remote[r]
    BY DEF Pair, OneClientPerPort
  <2>2. port'[q] # 0 /\ port'[q] = Remote[r]
    BY DEF Pair
  <2>3. pc'[q] = "k_copy" => port'[q] = 0
    BY DEF LinkInv, Fetched
  <2> QED
    BY <2>1, <2>2, <2>3 DEF Pair
<1>3. CASE Linked(c) /\ Holds(c)
  <2>1. PICK r \in Programs : Pair(c, r) \/ Pair(r, c)
    BY <1>3 DEF PairInv, Paired
  <2>2. Pair(c, r)' \/ Pair(r, c)'
    BY <2>1, PairKept
  <2>3. Target(c)' = r
    BY <2>2, PairLinksThen DEF LinkedPairs
  <2>4. r = s
    BY <1>1, <2>3
  <2>5. Pair(s, c) => Pair(s, c)'
    BY PairKept
  <2> QED
    BY <1>2, <2>1, <2>4, <2>5
<1>4. CASE ~(Linked(c) /\ Holds(c))
  <2>1. \E r \in Programs : Joined(p, r) /\ (c = p \/ c = r)
    <3>1. ~(Untouched \/ Dropped(p) \/ \E number : Ported(p, number))
      BY <1>1, <1>4 DEF Untouched, Dropped, Ported, Holds, Linked
    <3>2. ~Born(p)
      BY <1>1, <1>4 DEF Born, Holds, Linked
    <3>3. ASSUME NEW r \in Programs, Joined(p, r) PROVE c = p \/ c = r
      BY <1>1, <1>4, <3>3 DEF Joined, Holds, Linked
    <3> QED
      BY <3>1, <3>2, <3>3, Changes
  <2>2. PICK r \in Programs : Joined(p, r) /\ (c = p \/ c = r)
    BY <2>1
  <2>3. Pair(p, r)'
    BY <1>0, <2>2, JoinsPair DEF Joined
  <2>4. Target(p)' = r /\ Target(r)' = p
    BY <2>2, <2>3, PairLinksThen DEF LinkedPairs, Joined
  <2>5. c # r
    BY <1>1, <1>2, <2>2, <2>3, <2>4
  <2> QED
    BY <1>1, <2>2, <2>4, <2>5
<1> QED
  BY <1>3, <1>4

\* A new pair has told nothing and been told nothing.
LEMMA JoinedTold ==
    ASSUME Serialized, OneClientPerPort, ToldInv, NEW p \in Programs,
           Call(p) \/ Step(p), NEW s \in Programs, Joined(p, s)
    PROVE  PairTold(p, s)'
<1> LinkInv /\ PairInv
  BY DEF ToldInv, PairInv
<1> USE LinkTypes, ToldTypes
<1>1. /\ pc[p] = "k_bridge" /\ pc'[p] = "k_copy" /\ s # p /\ pc'[s] = pc[s]
      /\ Holds(s)
  BY Changes DEF Joined
<1>2. ~Linked(s)
  BY <1>1, JoinsPair
<1>3. /\ pc[s] \notin {"a_clear", "open", "closed"}
      /\ ~(Remote[s] = 0 /\ "bHas_connect" \in flags[s])
  BY <1>1, <1>2 DEF ToldInv, Boxed, Holds
<1>4. UNCHANGED <<cs, pools, flags>>
  <2>1. \/ Mute(p) \/ Uploads(p) \/ Prepares(p) \/ Accepts(p) \/ TakesOver(p)
        \/ Closes(p) \/ Loads(p)
    BY TellChanges
  <2> QED
    BY <1>1, <2>1 DEF Mute, Uploads, Prepares, Accepts, TakesOver, Closes, Loads
<1> QED
  BY <1>1, <1>3, <1>4 DEF PairTold

\* A step of either of a pair, or of anybody else, keeps what it has told.
LEMMA PairToldKept ==
    ASSUME Serialized, OneClientPerPort, ToldInv, NEW p \in Programs,
           Call(p) \/ Step(p), NEW c \in Programs, NEW s \in Programs, Pair(c, s)
    PROVE  PairTold(c, s)'
<1> LinkInv /\ PairInv
  BY DEF ToldInv, PairInv
<1> USE LinkTypes, ToldTypes
<1>0. \A q \in Programs \ {p} : pc'[q] = pc[q]
  BY Changes
<1>1. \/ Mute(p) \/ Uploads(p) \/ Prepares(p) \/ Accepts(p) \/ TakesOver(p) \/ Closes(p)
      \/ Loads(p)
  BY TellChanges
<1>2. /\ c # s /\ Target(c) = s /\ Target(s) = c /\ Linked(c) /\ Linked(s)
      /\ Holds(c) /\ Holds(s) /\ c # NULL /\ s # NULL
  BY PairLinks, SocketsAssumption DEF Pair
<1>3. /\ pc[c] \in {"k_copy", "k_upload", "k_init", "open", "closed"}
      /\ pc[c] \in {"open", "closed"} => pools[s] = "queues"
      /\ pc[s] \in {"a_clear", "open"} => cs[c] = c
      /\ (Remote[s] = 0 /\ "bHas_connect" \in flags[s]) => cs[c] = c
      /\ pc[c] = "closed" => Notified(s)
      /\ (pc[s] = "closed" /\ pools[s] = "queues") => Notified(c)
  BY DEF ToldInv, PairTold
<1>4. \A q \in Programs :
          /\ cs[q] \in {q, NULL}
          /\ pools[q] # "none" => cs[q] = q
          /\ pools[q] = "queues" => pc[q] \in {"a_wait", "a_clear", "open", "closed"}
  BY DEF ToldInv, Boxed
<1>5. \A m \in Programs : Notified(m) => Notified(m)'
  BY <1>1, TellChanges, FlagsGrow
<1>6. \A q \in Programs : cs[q] = q => cs'[q] = q
  BY <1>1 DEF Mute, Uploads, Prepares, Accepts, TakesOver, Closes, Loads
<1>7. (Remote[s] = 0 /\ "bHas_connect" \in flags'[s]) => cs'[c] = c
  <2>1. CASE "bHas_connect" \in flags[s]
    BY <1>3, <1>6, <2>1
  <2>2. CASE "bHas_connect" \in flags'[s] /\ "bHas_connect" \notin flags[s]
    <3>1. Uploads(p) /\ Target(p) = s /\ Linked(p)
      BY <1>1, <2>2, TellChanges, FlagsGrow
    <3>2. Holds(p)
      BY <3>1, FindsOwn DEF Uploads, Open, LinkInv
    <3>3. PICK r \in Programs : Pair(p, r) \/ Pair(r, p)
      BY <3>1, <3>2 DEF PairInv, Paired
    <3>4. p = c
      BY <1>2, <3>1, <3>3, PairLinks
    <3> QED
      BY <3>1, <3>4 DEF Uploads
  <2> QED
    BY <2>1, <2>2
<1>8. pc'[c] \in {"k_copy", "k_upload", "k_init", "open", "closed"}
  <2>1. CASE c # p
    BY <1>0, <1>3, <2>1
  <2>2. CASE c = p
    <3>1. CASE Mute(p)
      BY <1>2, <1>3, <2>2, <3>1 DEF Mute
    <3>2. CASE ~Mute(p)
      BY <1>1, <1>2, <1>3, <2>2, <3>2 DEF Uploads, Prepares, Accepts, TakesOver, Closes, Loads
    <3> QED
      BY <3>1, <3>2
  <2> QED
    BY <2>1, <2>2
<1>9. pools[s] = "queues" => pools'[s] = "queues"
  <2>1. CASE Prepares(p)
    BY <1>4, <2>1 DEF Prepares
  <2>2. CASE ~Prepares(p)
    BY <1>1, <2>2 DEF Mute, Uploads, Accepts, TakesOver, Closes, Loads
  <2> QED
    BY <2>1, <2>2
<1>10. pc'[c] \in {"open", "closed"} => pools'[s] = "queues"
  <2>1. CASE pc[c] \in {"open", "closed"}
    BY <1>3, <1>9, <2>1
  <2>2. CASE pc[c] \notin {"open", "closed"} /\ pc'[c] \in {"open", "closed"}
    <3>1. c = p
      BY <1>0, <2>2
    <3>2. TakesOver(p)
      BY <1>1, <1>2, <1>3, <2>2, <3>1 DEF Mute, Uploads, Prepares, Accepts, Closes, Loads
    <3> QED
      BY <1>2, <1>9, <3>1, <3>2 DEF TakesOver
  <2> QED
    BY <2>1, <2>2
<1>11. pc'[s] \in {"a_clear", "open"} => cs'[c] = c
  <2>1. CASE pc[s] \in {"a_clear", "open"}
    BY <1>3, <1>6, <2>1
  <2>2. CASE pc[s] \notin {"a_clear", "open"} /\ pc'[s] \in {"a_clear", "open"}
    <3>1. s = p
      BY <1>0, <2>2
    <3>2. Loads(p) \/ TakesOver(p)
      BY <1>1, <2>2, <3>1 DEF Mute, Uploads, Prepares, Accepts, Closes
    <3>3. CASE Loads(p)
      <4>1. Remote[s] = 0
        BY <3>1, <3>3 DEF LinkInv, Fetched, Loads
      <4> QED
        BY <1>3, <1>6, <3>1, <3>3, <4>1 DEF Loads
    <3>4. CASE TakesOver(p)
      <4>1. pools[c] = "queues" /\ pc[s] = "k_init"
        BY <1>2, <3>1, <3>4 DEF TakesOver
      <4>2. pc[c] \in {"open", "closed"}
        BY <1>3, <1>4, <4>1
      <4> QED
        BY <1>3, <1>4, <4>1, <4>2
    <3> QED
      BY <3>2, <3>3, <3>4
  <2> QED
    BY <2>1, <2>2
<1>12. pc'[c] = "closed" => Notified(s)'
  <2>1. CASE pc[c] = "closed"
    BY <1>3, <1>5, <2>1
  <2>2. CASE pc[c] # "closed" /\ pc'[c] = "closed"
    <3>1. c = p
      BY <1>0, <2>2
    <3>2. Closes(p)
      BY <1>1, <1>2, <1>3, <2>2, <3>1 DEF Mute, Uploads, Prepares, Accepts, TakesOver, Loads
    <3>3. pc[c] = "open" /\ flags' = CloseFlags(c, s)
      BY <1>2, <1>3, <3>1, <3>2 DEF Closes
    <3>4. cs[s] = s
      BY <1>3, <1>4, <3>3
    <3>5. s \in Told(c, s)
      BY <1>2, <3>4 DEF Told, Boxes
    <3> QED
      BY <3>3, <3>5 DEF CloseFlags, Notified
  <2> QED
    BY <2>1, <2>2
<1>13. (pc'[s] = "closed" /\ pools'[s] = "queues") => Notified(c)'
  <2> SUFFICES ASSUME pc'[s] = "closed", pools'[s] = "queues"
               PROVE  Notified(c)'
    OBVIOUS
  <2>1. CASE pc[s] = "closed"
    <3>1. pools[s] = "queues"
      BY <1>1, <2>1 DEF Mute, Uploads, Prepares, Accepts, TakesOver, Closes, Loads
    <3> QED
      BY <1>3, <1>5, <2>1, <3>1
  <2>2. CASE pc[s] # "closed"
    <3>1. s = p
      BY <1>0, <2>2
    <3>2. pc[s] # "x_drop"
      BY <1>2 DEF LinkInv, Fetched
    <3>3. Closes(p)
      BY <1>1, <2>2, <3>1, <3>2 DEF Mute, Uploads, Prepares, Accepts, TakesOver, Loads
    <3>4. pc[s] = "open" /\ flags' = CloseFlags(s, c)
      BY <1>2, <1>4, <3>1, <3>3 DEF Closes
    <3>5. cs[c] = c
      BY <1>3, <3>4
    <3>6. c \in Told(s, c)
      BY <1>2, <3>5 DEF Told, Boxes
    <3> QED
      BY <3>4, <3>6 DEF CloseFlags, Notified
  <2> QED
    BY <2>1, <2>2
<1> QED
  BY <1>7, <1>8, <1>10, <1>11, <1>12, <1>13 DEF PairTold

LEMMA ToldNext ==
    ASSUME Serialized, OneClientPerPort
    PROVE  ToldInv /\ [Next]_vars => ToldInv'
<1>1. ASSUME ToldInv, Next PROVE ToldInv'
  <2>1. PICK p \in Programs : Call(p) \/ (~crashed /\ Step(p))
    BY <1>1 DEF Next
  <2>2. PairInv /\ PairInv' /\ LinkInv'
    BY <1>1, PairNext DEF ToldInv, PairInv
  <2>3. Boxed'
    BY <1>1, <2>1, <2>2, BoxedKept
  <2>4. ASSUME NEW c \in Programs, NEW s \in Programs, Pair(c, s)'
        PROVE  PairTold(c, s)'
    <3>1. Pair(c, s) \/ (c = p /\ Joined(p, s))
      BY <2>1, <2>2, <2>4, PairWas
    <3> QED
      BY <1>1, <2>1, <3>1, PairToldKept, JoinedTold
  <2> QED
    BY <2>2, <2>3, <2>4 DEF ToldInv
<1>2. ASSUME ToldInv, UNCHANGED vars PROVE ToldInv'
  <2>1. PairInv'
    BY <1>2, PairNext DEF ToldInv
  <2> QED
    BY <1>2, <2>1 DEF vars, tableVars, objectVars, engineVars, acceptVars,
                      ToldInv, Boxed, Pair,
                      PairTold, Holds, Linked, Notified
<1> QED
  BY <1>1, <1>2

LEMMA ToldInit == Init => ToldInv
<1>1. Init => Boxed /\ \A c, s \in Programs : ~Pair(c, s)
  BY SocketsAssumption DEF Init, Boxed, Pair, Holds
<1> QED
  BY <1>1, PairInit DEF ToldInv

\* With one request at a time and a client per port, whichever of two connected
\* programs closes, and at whatever point of the other's set-up, the other has
\* bIs_close up from the moment it is connected, unless its own accept took it down.
THEOREM ToldSafe ==
    ASSUME Serialized, OneClientPerPort
    PROVE  Spec => []PeerTold
<1>1. ToldInv => PeerTold
  <2> SUFFICES ASSUME ToldInv, NEW p \in Programs, NEW q \in Programs,
                      PeerGone(p, q)
               PROVE  Notified(q)
    BY DEF PeerTold, Notified
  <2>1. At(fd[q]) = q /\ Holds(q) /\ Linked(q)
    BY FindsOwn DEF ToldInv, PairInv, LinkInv, Boxed, Open, PeerGone
  <2>2. PICK r \in Programs : Pair(q, r) \/ Pair(r, q)
    BY <2>1 DEF ToldInv, PairInv, Paired
  <2>3. r = p
    BY <2>1, <2>2, PairLinks DEF ToldInv, PairInv, PeerGone
  <2> QED
    BY <2>2, <2>3 DEF ToldInv, PairTold, Boxed, PeerGone
<1>2. ToldInv /\ [Next]_vars => ToldInv'
  BY ToldNext
<1> QED
  BY ToldInit, <1>1, <1>2, PTL DEF Spec

=============================================================================
