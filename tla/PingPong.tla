------------------------------ MODULE PingPong ------------------------------
(***************************************************************************)
(* The two stand-alone programs together, through the engine: server.c     *)
(* binds, accepts and, Rounds times, sends a message and receives one;     *)
(* client.c connects and, as often, receives one and sends one; then both  *)
(* close.  Neither looks at what its calls return.                         *)
(*                                                                         *)
(* A request to the engine is one step here: what happens when the         *)
(* requests of two handler threads overlap is the matter of Channel and    *)
(* Sockets.  A message is the number of its round.  It fits one block, and *)
(* the pool is never near its end.                                         *)
(***************************************************************************)
EXTENDS Integers, Sequences

CONSTANTS server, client,
          Rounds         \* 100000 in the code

ASSUME PingPongAssumption ==
    /\ server # client
    /\ Rounds \in Nat \ {0}

Programs == {server, client}
Peer(p) == IF p = server THEN client ELSE server

Flags == {"bHas_connect", "bHas_message", "bHas_new_resource", "bIs_close",
          "self_close"}

VARIABLES
    port,            \* the server's object has its port
    linked,          \* the two objects are each other's target
    cs,              \* the programs whose object knows its mailbox
    mes_info,        \* the programs whose object has its pools and queues
    flags,           \* of the mailbox: flags that are up
    queue,           \* the messages on their way to the program
    read_msg_number, \* those it was told of
    crashed,         \* the engine died on a NULL pointer
    pc, round,       \* of the program
    got              \* the messages its recv has returned

setUpVars == <<port, linked, cs, mes_info>>
streamVars == <<queue, read_msg_number, got>>
vars == <<setUpVars, flags, streamVars, crashed, pc, round>>

Goto(p, step) == pc' = [pc EXCEPT ![p] = step]
Raise(p, flag) == flags' = [flags EXCEPT ![p] = @ \cup {flag}]
May(p, step) == ~crashed /\ pc[p] = step
Crash == crashed' = TRUE /\ UNCHANGED <<setUpVars, flags, streamVars, pc, round>>

-----------------------------------------------------------------------------
(* socket, bind, accept *)

socket(p) ==
    /\ May(p, "new")
    /\ Goto(p, "socket")
    /\ UNCHANGED <<setUpVars, flags, streamVars, crashed, round>>

bind ==
    /\ May(server, "socket")
    /\ port' = TRUE
    /\ Goto(server, "b_upload")
    /\ UNCHANGED <<linked, cs, mes_info, flags, streamVars, crashed, round>>

\* A client that was bridged meanwhile has no mailbox yet.
bind_upload ==
    /\ May(server, "b_upload")
    /\ \/ /\ ~linked
          /\ cs' = cs \cup {server}
          /\ Goto(server, "bound")
          /\ UNCHANGED <<port, linked, mes_info, flags, streamVars, crashed, round>>
       \/ linked /\ client \notin cs /\ Crash

accept_initialise ==
    /\ May(server, "bound")
    /\ mes_info' = mes_info \cup {server}
    /\ Raise(server, "bHas_new_resource")
    /\ Goto(server, "a_wait")
    /\ UNCHANGED <<port, linked, cs, streamVars, crashed, round>>

accept_return ==
    /\ May(server, "a_wait") /\ "bHas_connect" \in flags[server]
    /\ flags' = [flags EXCEPT ![server] = @ \ {"bHas_connect"}]
    /\ Goto(server, "send")
    /\ UNCHANGED <<setUpVars, streamVars, crashed, round>>

-----------------------------------------------------------------------------
(* connect *)

\* A connect without a server fails, and the program goes on to recv.
connect ==
    /\ May(client, "socket")
    /\ \/ port /\ linked' = TRUE /\ Goto(client, "k_upload")
       \/ ~port /\ Goto(client, "recv") /\ UNCHANGED linked
    /\ UNCHANGED <<port, cs, mes_info, flags, streamVars, crashed, round>>

connect_upload ==
    /\ May(client, "k_upload")
    /\ \/ /\ server \in cs
          /\ cs' = cs \cup {client}
          /\ Raise(server, "bHas_connect")
          /\ Goto(client, "k_init")
          /\ UNCHANGED <<port, linked, mes_info, streamVars, crashed, round>>
       \/ server \notin cs /\ Crash

\* The client takes over the pools and queues of the server.
connect_initialise ==
    /\ May(client, "k_init")
    /\ \/ /\ server \in mes_info
          /\ mes_info' = mes_info \cup {client}
          /\ Raise(client, "bHas_new_resource")
          /\ Goto(client, "recv")
          /\ UNCHANGED <<port, linked, cs, streamVars, crashed, round>>
       \/ server \notin mes_info /\ Crash

-----------------------------------------------------------------------------
(* The main loops *)

\* mutant: a round too few
OneLess(p) == IF round[p] < Rounds - 1 THEN "again" ELSE "close"
Round(p) == IF round[p] < Rounds THEN "again" ELSE "close"

\* What follows a send, and what follows a recv.
Sent(p) ==
    \/ p = server /\ Goto(p, "recv") /\ UNCHANGED round
    \/ p = client /\ Round(p) = "again" /\ Goto(p, "recv")
       /\ round' = [round EXCEPT ![p] = @ + 1]
    \/ p = client /\ Round(p) = "close" /\ Goto(p, "close") /\ UNCHANGED round

Received(p) ==
    \/ p = client /\ Goto(p, "send") /\ UNCHANGED round
    \/ p = server /\ Round(p) = "again" /\ Goto(p, "send")
       /\ round' = [round EXCEPT ![p] = @ + 1]
    \/ p = server /\ Round(p) = "close" /\ Goto(p, "close") /\ UNCHANGED round

-----------------------------------------------------------------------------
(* send *)

MayWrite(p) == "bIs_close" \notin flags[p] /\ "self_close" \notin flags[Peer(p)]

\* wait_for_sources, then Allocate.
Allocate(p) ==
    /\ May(p, "send") /\ "bHas_new_resource" \in flags[p]
    /\ MayWrite(p)
    /\ Goto(p, "commit")
    /\ UNCHANGED <<setUpVars, flags, streamVars, crashed, round>>

\* mutant: only a server is told
TellServer(q) == q = server /\ q \in mes_info
\* A reader is told of a message only once it is initialised.
MayTell(q) == q \in mes_info

Committ(p) ==
    LET q == Peer(p) IN
    /\ May(p, "commit") /\ MayWrite(p)
    /\ queue' = [queue EXCEPT ![q] = Append(@, round[p])]
    /\ \/ /\ MayTell(q)
          /\ Raise(q, "bHas_message")
          /\ read_msg_number' = [read_msg_number EXCEPT ![q] = @ + 1]
       \/ ~MayTell(q) /\ UNCHANGED <<flags, read_msg_number>>
    /\ Sent(p)
    /\ UNCHANGED <<setUpVars, got, crashed>>

-----------------------------------------------------------------------------
(* recv *)

recv_look(p) ==
    /\ May(p, "recv")
    /\ \/ "bHas_message" \in flags[p] /\ Goto(p, "release")
       \/ "bHas_message" \notin flags[p] /\ Goto(p, "recv_close")
    /\ UNCHANGED <<setUpVars, flags, streamVars, crashed, round>>

\* mutant: recv does not wait
NoWait(p) == TRUE
ConnectionClosed(p) == flags[p] \cap {"bIs_close", "self_close"} # {}

\* Of a closed connection recv returns 0.  A message may have come since it looked.
recv_closed(p) ==
    /\ May(p, "recv_close")
    /\ \/ ConnectionClosed(p) /\ Received(p)
       \/ ~ConnectionClosed(p) /\ Goto(p, "recv") /\ UNCHANGED round
    /\ UNCHANGED <<setUpVars, flags, streamVars, crashed>>

\* mutant: the head is copied and stays in the queue
HeadStays(q) == q
delete_head_queue(q) == Tail(q)

FlagAfter(p) == IF read_msg_number[p] > 1 THEN flags
                ELSE [flags EXCEPT ![p] = @ \ {"bHas_message"}]

\* GetMessage copies the head of the queue, Release removes it.
Release(p) ==
    /\ May(p, "release") /\ queue[p] # <<>>
    /\ got' = [got EXCEPT ![p] = Append(@, queue[p][1])]
    /\ queue' = [queue EXCEPT ![p] = delete_head_queue(@)]
    /\ flags' = FlagAfter(p)
    /\ read_msg_number' = [read_msg_number EXCEPT ![p] = @ - 1]
    /\ Received(p)
    /\ UNCHANGED <<setUpVars, crashed>>

-----------------------------------------------------------------------------
(* close *)

close(p) ==
    /\ May(p, "close")
    /\ flags' = [q \in Programs |->
           IF q = p
           THEN (flags[q] \cup {"bIs_close", "self_close"})
                    \ {"bHas_message", "bHas_new_resource"}
           ELSE flags[q] \cup {"bIs_close"}]
    /\ Goto(p, "closed")
    /\ UNCHANGED <<setUpVars, streamVars, crashed, round>>

-----------------------------------------------------------------------------
Init ==
    /\ port = FALSE /\ linked = FALSE
    /\ cs = {} /\ mes_info = {}
    /\ flags = [p \in Programs |-> {}]
    /\ queue = [p \in Programs |-> <<>>]
    /\ read_msg_number = [p \in Programs |-> 0]
    /\ crashed = FALSE
    /\ pc = [p \in Programs |-> "new"]
    /\ round = [p \in Programs |-> 1]
    /\ got = [p \in Programs |-> <<>>]

Run(p) == \/ socket(p)
          \/ p = server /\ (bind \/ bind_upload \/ accept_initialise \/ accept_return)
          \/ p = client /\ (connect \/ connect_upload \/ connect_initialise)
          \/ Allocate(p) \/ Committ(p)
          \/ recv_look(p) \/ recv_closed(p) \/ Release(p) \/ close(p)

Next == \E p \in Programs : Run(p)

\* Both programs, and the engine's threads that serve them, keep running.
Spec == Init /\ [][Next]_vars /\ \A p \in Programs : WF_vars(Run(p))

-----------------------------------------------------------------------------
(* Properties *)

Steps == {"new", "socket", "b_upload", "bound", "a_wait", "k_upload", "k_init",
          "send", "commit", "recv", "recv_close", "release", "close", "closed"}

\* The type invariant: in particular a program is told of no message it takes twice,
\* so that read_msg_number does not fall below 0.
TypeOK ==
    /\ pc \in [Programs -> Steps]
    /\ port \in BOOLEAN /\ linked \in BOOLEAN /\ crashed \in BOOLEAN
    /\ cs \subseteq Programs /\ mes_info \subseteq Programs
    /\ flags \in [Programs -> SUBSET Flags]
    /\ queue \in [Programs -> Seq(1 .. Rounds)]
    /\ read_msg_number \in [Programs -> Nat]
    /\ got \in [Programs -> Seq(1 .. Rounds)]
    /\ round \in [Programs -> 1 .. Rounds]

\* The rally: neither program is ever a message ahead of the other.  The server
\* has received as many messages as the client or one less.  (A recv that gives
\* up, a message sent twice or received twice would break the step.)
InStep == Len(got[client]) - Len(got[server]) \in {0, 1}

\* Whatever the order of close and recv, the server misses nothing but the message
\* of the last round: the one that, with the close behind it, came between the
\* two tests of recv.
MissesOnlyTheLast ==
    pc[server] = "closed" => /\ Len(got[client]) = Rounds
                             /\ Len(got[server]) \in {Rounds - 1, Rounds}

\* bHas_connect is raised before the client is initialised: what the server sends
\* in between is not announced.  But once both are initialised, and everything in
\* the queues is announced, both programs come to their end.
Finishes ==
    (/\ mes_info = Programs
     /\ \A p \in Programs : Len(queue[p]) = read_msg_number[p])
    ~> (pc[server] = "closed" /\ pc[client] = "closed")

\* The connection keeps the promise of Stream: what each recv returns is what the
\* peer sent, in order, each message once.
S == INSTANCE Stream WITH
         Server <- server, Client <- client,
         posted <- [p \in Programs |-> got[Peer(p)] \o queue[Peer(p)]],
         received <- got,
         shut <- {p \in Programs : pc[p] = "closed"}
InOrder == S!Spec
=============================================================================
