------------------------------ MODULE Sockets ------------------------------
(***************************************************************************)
(* The life of sockets in the engine, from socket() to close(): the global *)
(* table, ports, bridging, and the set-up of a connection up to the state  *)
(* in which module Channel starts.                                         *)
(*                                                                         *)
(* A program p is one use of the intercepted calls: socket, then bind and  *)
(* accept, or connect, or bind and connect, and close.  It has a mailbox   *)
(* and a handler thread of its own, and is named like the object Create    *)
(* makes for it.  But the program and its handler refer to the object by   *)
(* its index fd[p] in the table only, as the code does.                    *)
(*                                                                         *)
(* Calls are those of the hook: bind is RequestPort and UpLoadPool, accept *)
(* is InitializeObject and a wait, connect is ConnectToServer, UpLoadPool  *)
(* and InitializeObject.  GetMappingPoolID only reads.  A request to the   *)
(* engine is cut where another handler thread can come between: at stores  *)
(* to the table, and between a test and what is done on its strength.  The *)
(* program's own clearing of bHas_connect is no request: it is cut always. *)
(***************************************************************************)
EXTENDS Integers, FiniteSets

CONSTANTS Programs,
          MaxUsers,      \* slots of the table: 1024 in the code
          NULL,          \* an empty slot, an unknown mailbox
          Local,         \* Local[p]: the port p binds, 0 for none
          Remote,        \* Remote[p]: the port p connects to, 0 for none
          V6,            \* programs that call socket with domain AF_INET6
          Serialized     \* TRUE: the engine runs one request at a time

ASSUME SocketsAssumption ==
    /\ IsFiniteSet(Programs) /\ NULL \notin Programs
    /\ MaxUsers \in Nat \ {0}
    /\ Local \in [Programs -> Nat] /\ Remote \in [Programs -> Nat]
    /\ V6 \subseteq Programs
    /\ Serialized \in BOOLEAN

Slots == 0 .. MaxUsers - 1

VARIABLES
    addr,                          \* the table: slot -> object
    cur_user_connect,
    next_index_of_globel_table,
    global_table_index,            \* of the object: its slot, as it was told
    target_global_table_index,     \* of the object: the peer's slot, or -1
    port,                          \* of the object: sin_port, 0 for none
    cs,                            \* of the object: its mailbox, once uploaded
    pools,                         \* of the object: how far it is initialised
    flags,                         \* of the mailbox: flags that are up
    freed,                         \* objects close_self has freed
    crashed,                       \* the engine died on a NULL pointer
    pc, fd,                        \* of the program: step, and its descriptor
    fs,                            \* the object p's handler got for fd[p]
    reg,                           \* cur_user_connect as p's handler loaded it
    byte,                          \* the flags as p's accept loaded them
    lost                           \* history: programs whose accept stored over
                                   \* the bIs_close they had been told with

tableVars == <<addr, cur_user_connect, next_index_of_globel_table>>
objectVars == <<global_table_index, target_global_table_index, port, cs, pools>>
engineVars == <<freed, crashed>>
acceptVars == <<byte, lost>>
vars == <<tableVars, objectVars, flags, engineVars, pc, fd, fs, reg, acceptVars>>

-----------------------------------------------------------------------------
Goto(p, step) == pc' = [pc EXCEPT ![p] = step]

InRequest(p) == pc[p] \in {"c_store", "c_index", "c_find", "c_load", "c_count",
                           "c_reply", "b_copy", "k_bridge", "k_copy", "i_mes",
                           "x_free", "x_drop"}
\* The handler of a mailbox ends when self_close is up.
MayStart(p) ==
    /\ ~crashed /\ "self_close" \notin flags[p]
    /\ Serialized => \A q \in Programs \ {p} : ~InRequest(q)

\* get_user_struct_from_globel_table
At(index) == IF index \in Slots THEN addr[index] ELSE NULL

Linked(o) == target_global_table_index[o] # -1
Target(o) == IF o = NULL THEN NULL ELSE At(target_global_table_index[o])

\* A request starts with the look-up of its object.
Fetch(p) == fs' = [fs EXCEPT ![p] = At(fd[p])]

Taken == {i \in Slots : addr[i] # NULL}
Least(S) == CHOOSE i \in S : \A j \in S : i <= j

-----------------------------------------------------------------------------
(* socket: Apply, Create *)

\* mutant: one object more than there are slots
RoomForOneMore == cur_user_connect <= MaxUsers
Room == cur_user_connect < MaxUsers

Create(p) ==
    /\ pc[p] = "new" /\ MayStart(p)
    /\ \/ Room /\ Goto(p, "c_store")
       \/ ~Room /\ Goto(p, "refused")
    /\ UNCHANGED <<tableVars, objectVars, flags, engineVars, fd, fs, reg, acceptVars>>

\* Malloc_Zero leaves the target at slot 0 until Apply sets it.
Create_store(p) ==
    /\ pc[p] = "c_store"
    /\ addr' = [addr EXCEPT ![next_index_of_globel_table] = p]
    /\ target_global_table_index' = [target_global_table_index EXCEPT ![p] = 0]
    /\ Goto(p, "c_index")
    /\ UNCHANGED <<cur_user_connect, next_index_of_globel_table, global_table_index,
                   port, cs, pools, flags, engineVars, fd, fs, reg, acceptVars>>

Create_index(p) ==
    /\ pc[p] = "c_index"
    /\ global_table_index' =
           [global_table_index EXCEPT ![p] = next_index_of_globel_table]
    /\ Goto(p, "c_find")
    /\ UNCHANGED <<tableVars, target_global_table_index, port, cs, pools, flags,
                   engineVars, fd, fs, reg, acceptVars>>

\* mutant: without a free slot the index is where the loop ended
NextOrEnd(last) == IF Taken = Slots THEN MaxUsers ELSE Least(Slots \ Taken)
\* The first free slot; a full table leaves the index as it was.
NextFree(last) == IF Taken = Slots THEN last ELSE Least(Slots \ Taken)

find_next_useful_index_of_globel_table(p) ==
    /\ pc[p] = "c_find"
    /\ next_index_of_globel_table' = NextFree(next_index_of_globel_table)
    /\ Goto(p, "c_load")
    /\ UNCHANGED <<addr, cur_user_connect, objectVars, flags, engineVars, fd, fs,
                   reg, acceptVars>>

add_user_connect_load(p) ==
    /\ pc[p] = "c_load"
    /\ reg' = [reg EXCEPT ![p] = cur_user_connect]
    /\ Goto(p, "c_count")
    /\ UNCHANGED <<tableVars, objectVars, flags, engineVars, fd, fs, acceptVars>>

add_user_connect_store(p) ==
    /\ pc[p] = "c_count"
    /\ cur_user_connect' = reg[p] + 1
    /\ Goto(p, "c_reply")
    /\ UNCHANGED <<addr, next_index_of_globel_table, objectVars, flags, engineVars,
                   fd, fs, reg, acceptVars>>

Apply(p) ==
    /\ pc[p] = "c_reply"
    /\ target_global_table_index' = [target_global_table_index EXCEPT ![p] = -1]
    /\ fd' = [fd EXCEPT ![p] = global_table_index[p]]
    /\ Goto(p, "socket")
    /\ UNCHANGED <<tableVars, global_table_index, port, cs, pools, flags, engineVars,
                   fs, reg, acceptVars>>

-----------------------------------------------------------------------------
(* bind: RequestPort, UpLoadPool *)

\* mutant: only the first slot is looked at
is_port_used_first(number) == addr[0] # NULL /\ port[addr[0]] = number
is_port_used(number) == \E i \in Taken : port[addr[i]] = number

\* An object that has a port keeps it: the answer is 0.
ApllyPort(p) ==
    LET o == At(fd[p]) IN
    /\ pc[p] \in {"socket", "failed"} /\ Local[p] # 0 /\ MayStart(p)
    /\ Fetch(p)
    /\ \/ o # NULL /\ port[o] # 0 /\ Goto(p, "b_upload")
       \/ o # NULL /\ port[o] = 0 /\ ~is_port_used(Local[p]) /\ Goto(p, "b_copy")
       \/ o # NULL /\ port[o] = 0 /\ is_port_used(Local[p]) /\ Goto(p, "failed")
       \/ o = NULL /\ Goto(p, "failed")
    /\ UNCHANGED <<tableVars, objectVars, flags, engineVars, fd, reg, acceptVars>>

ApllyPort_copy(p) ==
    /\ pc[p] = "b_copy"
    /\ port' = [port EXCEPT ![fs[p]] = Local[p]]
    /\ Goto(p, "b_upload")
    /\ UNCHANGED <<tableVars, global_table_index, target_global_table_index, cs,
                   pools, flags, engineVars, fd, fs, reg, acceptVars>>

\* The object o learns its mailbox; its target, if any, that there is a
\* connection.  A target without a mailbox is dereferenced all the same.
Announce(p, o, next) ==
    LET t == Target(o)
        box == [cs EXCEPT ![o] = p]
    IN
    /\ cs' = box
    /\ \/ /\ ~Linked(o)
          /\ Goto(p, next)
          /\ UNCHANGED <<flags, crashed>>
       \/ /\ Linked(o) /\ t # NULL /\ box[t] # NULL
          /\ flags' = [flags EXCEPT ![box[t]] = @ \cup {"bHas_connect"}]
          /\ Goto(p, next)
          /\ UNCHANGED crashed
       \/ /\ Linked(o) /\ (t # NULL => box[t] = NULL)
          /\ crashed' = TRUE
          /\ UNCHANGED <<flags, pc>>

upload_pool(p) ==
    LET o == At(fd[p]) IN
    /\ pc[p] \in {"b_upload", "k_upload"} /\ MayStart(p)
    /\ \/ o = NULL /\ Goto(p, "failed") /\ UNCHANGED <<cs, flags, crashed>>
       \/ o # NULL /\ Announce(p, o, IF pc[p] = "b_upload" THEN "bound" ELSE "k_init")
    /\ UNCHANGED <<tableVars, global_table_index, target_global_table_index, port,
                   pools, freed, fd, fs, reg, acceptVars>>

-----------------------------------------------------------------------------
(* accept: InitializeObject as SERVER, then a wait for bHas_connect *)

\* The pools are announced in the object's mailbox, which has to be there.
init_user_struct_memory_pool(p) ==
    LET o == At(fd[p]) IN
    /\ pc[p] = "bound" /\ Remote[p] = 0 /\ MayStart(p)
    /\ \/ /\ o # NULL /\ cs[o] # NULL
          /\ pools' = [pools EXCEPT ![o] = "pools"]
          /\ Goto(p, "i_mes")
          /\ UNCHANGED crashed
       \/ /\ o # NULL /\ cs[o] = NULL
          /\ crashed' = TRUE
          /\ UNCHANGED <<pools, pc>>
       \/ o = NULL /\ Goto(p, "failed") /\ UNCHANGED <<pools, crashed>>
    /\ UNCHANGED <<tableVars, global_table_index, target_global_table_index, port,
                   cs, flags, freed, fd, fs, reg, acceptVars>>

init_user_message_information_struct(p) ==
    LET o == At(fd[p]) IN
    /\ pc[p] = "i_mes"
    /\ \/ o # NULL /\ pools' = [pools EXCEPT ![o] = "queues"] /\ Goto(p, "a_wait")
       \/ o = NULL /\ Goto(p, "failed") /\ UNCHANGED pools
    /\ UNCHANGED <<tableVars, global_table_index, target_global_table_index, port,
                   cs, flags, engineVars, fd, fs, reg, acceptVars>>

\* mutant: a connection that was closed again is not accepted
ConnectedStill(p) == {"bHas_connect", "bIs_close"} \cap flags[p] = {"bHas_connect"}
HasConnect(p) == "bHas_connect" \in flags[p]

\* bHas_connect is a bit field of the byte that the engine's handlers set the
\* other flags in: the program loads the byte and stores it back.
accept_load(p) ==
    /\ pc[p] = "a_wait" /\ HasConnect(p)
    /\ byte' = [byte EXCEPT ![p] = flags[p]]
    /\ Goto(p, "a_clear")
    /\ UNCHANGED <<tableVars, objectVars, flags, engineVars, fd, fs, reg, lost>>

\* A flag set since the load is lost with this store, or the store is: that
\* handler stored last what it had loaded before.
accept_store(p) ==
    /\ pc[p] = "a_clear"
    /\ \/ flags' = [flags EXCEPT ![p] = byte[p] \ {"bHas_connect"}]
       \/ flags[p] # byte[p] /\ UNCHANGED flags
    /\ lost' = IF "bIs_close" \in flags[p] \ flags'[p] THEN lost \cup {p} ELSE lost
    /\ Goto(p, "open")
    /\ UNCHANGED <<tableVars, objectVars, engineVars, fd, fs, reg, byte>>

-----------------------------------------------------------------------------
(* connect: ConnectToServer, UpLoadPool, InitializeObject as CLIENT *)

\* A connect that failed may be tried again.  An object that has a port of its
\* own is not connected: the answer is 0.
ConnectPort(p) ==
    LET o == At(fd[p]) IN
    /\ pc[p] \in {"socket", "bound", "failed"} /\ Remote[p] # 0 /\ MayStart(p)
    /\ Fetch(p)
    /\ \/ o # NULL /\ port[o] # 0 /\ Goto(p, "k_upload")
       \/ o # NULL /\ port[o] = 0 /\ Goto(p, "k_bridge")
       \/ o = NULL /\ Goto(p, "failed")
    /\ UNCHANGED <<tableVars, objectVars, flags, engineVars, fd, reg, acceptVars>>

\* mutant: the server is not given its client
BridgeOneWay(i, index) ==
    [target_global_table_index EXCEPT ![addr[index]] = i]
Bridge(i, index) ==
    [target_global_table_index EXCEPT ![addr[i]] = index, ![addr[index]] = i]

\* mutant: the scan ends at the first slot that has a port, whichever
EndsAtPort(number) == {i \in Slots : addr[i] = NULL \/ port[addr[i]] # 0}
\* The scan for a port ends at the first slot that is empty or has it.
Ends(number) == {i \in Slots : addr[i] = NULL \/ port[addr[i]] = number}

\* At an empty slot the scan for IPv4 gives up, and that for IPv6 does not look.
make_bridge(p) ==
    LET ends == Ends(Remote[p])
        i == Least(ends)
        found == ends # {} /\ addr[i] # NULL
        hole == ends # {} /\ addr[i] = NULL
    IN
    /\ pc[p] = "k_bridge"
    /\ \/ /\ found /\ At(fd[p]) # NULL
          /\ target_global_table_index' = Bridge(i, fd[p])
          /\ Goto(p, "k_copy")
          /\ UNCHANGED crashed
       \/ /\ (hole /\ p \in V6) \/ (found /\ At(fd[p]) = NULL)
          /\ crashed' = TRUE
          /\ UNCHANGED <<target_global_table_index, pc>>
       \/ /\ ends = {} \/ (hole /\ p \notin V6)
          /\ Goto(p, "failed")
          /\ UNCHANGED <<target_global_table_index, crashed>>
    /\ UNCHANGED <<tableVars, global_table_index, port, cs, pools, flags, freed, fd,
                   fs, reg, acceptVars>>

ConnectPort_copy(p) ==
    /\ pc[p] = "k_copy"
    /\ port' = [port EXCEPT ![fs[p]] = Remote[p]]
    /\ Goto(p, IF Target(fs[p]) = NULL THEN "failed" ELSE "k_upload")
    /\ UNCHANGED <<tableVars, global_table_index, target_global_table_index, cs,
                   pools, flags, engineVars, fd, fs, reg, acceptVars>>

\* A client takes the pools and queues of its target over, which have to be there.
set_user_struct_type_client(p) ==
    LET o == At(fd[p])
        t == Target(o)
    IN
    /\ pc[p] = "k_init" /\ MayStart(p)
    /\ \/ t = NULL /\ Goto(p, "failed") /\ UNCHANGED <<pools, crashed>>
       \/ /\ t # NULL /\ (pools[t] # "queues" \/ cs[o] = NULL)
          /\ crashed' = TRUE
          /\ UNCHANGED <<pools, pc>>
       \/ /\ t # NULL /\ pools[t] = "queues" /\ cs[o] # NULL
          /\ pools' = [pools EXCEPT ![o] = "queues"]
          /\ Goto(p, "open")
          /\ UNCHANGED crashed
    /\ UNCHANGED <<tableVars, global_table_index, target_global_table_index, port,
                   cs, flags, freed, fd, fs, reg, acceptVars>>

-----------------------------------------------------------------------------
(* close: kill_self *)

\* The mailboxes of a set of objects, as far as the engine knows them.
Boxes(objects) == {cs[o] : o \in objects \ {NULL}} \ {NULL}

\* mutant: the closing side notifies itself
ToldItself(o, t) == Boxes({o})
\* Who is told that o closes: its target.
Told(o, t) == Boxes({t})

CloseFlags(o, t) ==
    [m \in Programs |-> flags[m]
         \cup (IF m \in Boxes({o}) THEN {"bIs_close", "self_close"} ELSE {})
         \cup (IF m \in Told(o, t) THEN {"bIs_close"} ELSE {})]

kill_self(p) ==
    LET o == At(fd[p])
        t == Target(o)
    IN
    /\ pc[p] \in {"socket", "bound", "failed", "open"} /\ MayStart(p)
    /\ \/ o = NULL /\ Goto(p, "closed") /\ UNCHANGED flags
       \/ /\ o # NULL
          /\ flags' = CloseFlags(o, t)
          /\ Goto(p, IF t = NULL THEN "x_free" ELSE "closed")
    /\ UNCHANGED <<tableVars, objectVars, engineVars, fd, fs, reg, acceptVars>>

\* An object without a target is freed.  The branch for one that has been bridged
\* meanwhile ends the link first; without mailboxes, pools or queues it
\* dereferences NULL.
close_self(p) ==
    LET o == At(fd[p])
        t == Target(o)
        ready == /\ cs[o] # NULL /\ pools[o] = "queues"
                 /\ cs[t] # NULL /\ pools[t] = "queues"
    IN
    /\ pc[p] = "x_free"
    /\ Fetch(p)
    /\ \/ /\ o # NULL /\ ~Linked(o)
          /\ Goto(p, "x_drop")
          /\ UNCHANGED <<target_global_table_index, flags, crashed>>
       \/ /\ t # NULL /\ Linked(o) /\ ready
          /\ target_global_table_index' =
                 [target_global_table_index EXCEPT ![o] = -1, ![t] = -1]
          /\ flags' = CloseFlags(o, t)
          /\ Goto(p, "x_drop")
          /\ UNCHANGED crashed
       \/ /\ o # NULL /\ Linked(o)
          /\ cs[o] = NULL \/ (t # NULL /\ ~ready)
          /\ crashed' = TRUE
          /\ UNCHANGED <<target_global_table_index, flags, pc>>
       \/ /\ o # NULL /\ Linked(o) /\ cs[o] # NULL /\ t = NULL
          /\ flags' = CloseFlags(o, t)
          /\ Goto(p, "closed")
          /\ UNCHANGED <<target_global_table_index, crashed>>
       \/ /\ o = NULL
          /\ Goto(p, "closed")
          /\ UNCHANGED <<target_global_table_index, flags, crashed>>
    /\ UNCHANGED <<tableVars, global_table_index, port, cs, pools, freed, fd, reg,
                   acceptVars>>

\* mutant: the object is freed and stays in the table
DropNothing(index) == addr
DropSlot(index) == [addr EXCEPT ![index] = NULL]

close_self_drop(p) ==
    /\ pc[p] = "x_drop"
    /\ addr' = DropSlot(fd[p])
    /\ freed' = freed \cup {fs[p]}
    /\ Goto(p, "closed")
    /\ UNCHANGED <<cur_user_connect, next_index_of_globel_table, objectVars, flags,
                   crashed, fd, fs, reg, acceptVars>>

-----------------------------------------------------------------------------
Init ==
    /\ addr = [i \in Slots |-> NULL]
    /\ cur_user_connect = 0
    /\ next_index_of_globel_table = 0
    /\ global_table_index = [p \in Programs |-> 0]
    /\ target_global_table_index = [p \in Programs |-> -1]
    /\ port = [p \in Programs |-> 0]
    /\ cs = [p \in Programs |-> NULL]
    /\ pools = [p \in Programs |-> "none"]
    /\ flags = [p \in Programs |-> {}]
    /\ freed = {}
    /\ crashed = FALSE
    /\ pc = [p \in Programs |-> "new"]
    /\ fd = [p \in Programs |-> -1]
    /\ fs = [p \in Programs |-> NULL]
    /\ reg = [p \in Programs |-> 0]
    /\ byte = [p \in Programs |-> {}]
    /\ lost = {}

\* What program p decides to do next.
Call(p) == \/ Create(p) \/ ApllyPort(p) \/ init_user_struct_memory_pool(p)
           \/ ConnectPort(p) \/ kill_self(p)

\* What follows from a call.
Step(p) ==
    \/ Create_store(p) \/ Create_index(p)
    \/ find_next_useful_index_of_globel_table(p)
    \/ add_user_connect_load(p) \/ add_user_connect_store(p) \/ Apply(p)
    \/ ApllyPort_copy(p) \/ upload_pool(p)
    \/ init_user_message_information_struct(p) \/ accept_load(p) \/ accept_store(p)
    \/ make_bridge(p) \/ ConnectPort_copy(p) \/ set_user_struct_type_client(p)
    \/ close_self(p) \/ close_self_drop(p)

Next == \E p \in Programs : Call(p) \/ (~crashed /\ Step(p))

\* Programs and handlers are threads the kernel keeps scheduling; no program is
\* obliged to make a call.  A step is disabled only by its own program, by a crash,
\* or, with Serialized, while the engine is busy for another program: then it is
\* served in its turn, hence strong fairness.
Fairness == \A p \in Programs : SF_vars(~crashed /\ Step(p))

Spec == Init /\ [][Next]_vars /\ Fairness

-----------------------------------------------------------------------------
(* Properties *)

Steps == {"new", "c_store", "c_index", "c_find", "c_load", "c_count", "c_reply",
          "refused", "socket", "b_copy", "b_upload", "bound", "i_mes", "a_wait",
          "a_clear", "k_bridge", "k_copy", "k_upload", "k_init", "open", "failed",
          "x_free", "x_drop", "closed"}

\* Every variable keeps its type: in particular the next index stays inside the
\* table and a mailbox only gets the flags of this model.
TypeOK ==
    /\ addr \in [Slots -> Programs \cup {NULL}]
    /\ cur_user_connect \in Nat
    /\ next_index_of_globel_table \in Slots
    /\ global_table_index \in [Programs -> Slots]
    /\ target_global_table_index \in [Programs -> Slots \cup {-1}]
    /\ port \in [Programs -> Nat]
    /\ cs \in [Programs -> Programs \cup {NULL}]
    /\ pools \in [Programs -> {"none", "pools", "queues"}]
    /\ flags \in [Programs -> SUBSET {"bHas_connect", "bIs_close", "self_close"}]
    /\ freed \in SUBSET Programs
    /\ crashed \in BOOLEAN
    /\ pc \in [Programs -> Steps]
    /\ fd \in [Programs -> Slots \cup {-1}]
    /\ fs \in [Programs -> Programs \cup {NULL}]
    /\ reg \in [Programs -> Nat]
    /\ byte \in [Programs -> SUBSET {"bHas_connect", "bIs_close", "self_close"}]
    /\ lost \in SUBSET Programs

Quiet == \A p \in Programs : ~InRequest(p)

\* Between requests, the next index is a free slot whenever Create would use it:
\* the number of sockets ever made bounds the slots taken (Create,
\* find_next_useful_index_of_globel_table, close_self).
NextUsable ==
    Quiet /\ cur_user_connect < MaxUsers => addr[next_index_of_globel_table] = NULL

\* p has called socket, and its object has not been freed.
Holds(p) == fd[p] # -1 /\ p \notin freed

\* A program's descriptor stands for its own object until that is freed: nobody
\* else's socket() or close() takes the slot (Create, close_self).
OwnSlot == \A p \in Programs : Holds(p) => At(fd[p]) = p

\* In every interleaving, an object that has been freed is not in the table: no
\* later request gets at it by its index (Create, close_self).
FreedNotInTable == \A i \in Slots : addr[i] \notin freed

\* The object has the port it asked for with bind.
Bound(o) == Local[o] # 0 /\ port[o] = Local[o]

\* Two sockets in the table are never bound to one port (is_port_used and the
\* copy that follows it in ApllyPort).
PortExclusive ==
    \A i, j \in Taken : i # j /\ Bound(addr[i]) /\ Bound(addr[j])
                           => port[addr[i]] # port[addr[j]]

\* Linked as make_bridge leaves it, not as Malloc_Zero does.
Bridged(o) == Linked(o) /\ fd[o] # -1

\* The target of an object in the table is in the table, and linked itself: a
\* socket somebody is connected to is not freed (make_bridge, kill_self,
\* close_self).
TargetsLive ==
    \A i \in Taken : LET o == addr[i] IN
        Bridged(o) => Target(o) # NULL /\ Bridged(Target(o))

\* Links are mutual: what I send, my target receives (make_bridge).
Mutual == \A i \in Taken : Bridged(addr[i]) => Target(Target(addr[i])) = addr[i]

\* p has closed, and q, which is connected with it, is past connect or accept.
PeerGone(p, q) == /\ pc[p] = "closed" /\ p \notin freed
                  /\ pc[q] = "open" /\ Target(At(fd[q])) = p

\* When a connected program has closed, the one it was connected with has been told,
\* whoever closes and whenever, unless the store of its own accept came upon the
\* flag and took it down again (kill_self, embedded_accept).
PeerTold == \A p, q \in Programs :
                PeerGone(p, q) => "bIs_close" \in flags[q] \/ q \in lost

\* accept returns once a client has bridged to the socket: the client's upload of
\* its mailbox raises bHas_connect (upload_pool, embedded_accept).
InAccept(p) == pc[p] \in {"a_wait", "a_clear"}
AcceptReturns ==
    \A p \in Programs :
        InAccept(p) /\ Bridged(At(fd[p])) ~> ~InAccept(p) \/ crashed

\* socket is refused only when every slot is taken (Create).
RefusedOnlyWhenFull ==
    [][\A p \in Programs : pc[p] = "new" /\ pc'[p] = "refused" => Taken = Slots]_vars
=============================================================================
