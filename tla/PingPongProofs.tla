--------------------------- MODULE PingPongProofs ---------------------------
(***************************************************************************)
(* The rally of the two stand-alone programs, for any number of rounds:    *)
(* theorems of module PingPong.                                            *)
(*                                                                         *)
(* One token goes round: the server is to send, a message is on its way to *)
(* the client, the client is to send, a message is on its way to the       *)
(* server.  Turn says who has it, and ties to it how much each has         *)
(* received and its count of rounds; it ends with both programs over.      *)
(***************************************************************************)
EXTENDS PingPong, SequenceTheorems, TLAPS

ServerSetUp == {"new", "socket", "b_upload", "bound", "a_wait"}
ClientSetUp == {"new", "socket", "k_upload", "k_init"}
Reading == {"recv", "recv_close", "release"}
Sending == {"send", "commit"}
Over == {"close", "closed"}

\* Received so far, and on the way to p.
a == Len(got[client])
b == Len(got[server])
Way(p) == Len(queue[p])

\* No message has been sent.
NotBegun ==
    /\ pc[server] \in ServerSetUp /\ pc[client] \in ClientSetUp \cup Reading
    /\ a = 0 /\ b = 0 /\ Way(client) = 0 /\ Way(server) = 0
    /\ round[server] = 1 /\ round[client] = 1
ServersTurn ==
    /\ pc[server] \in Sending /\ pc[client] \in ClientSetUp \cup Reading
    /\ Way(client) = 0 /\ Way(server) = 0 /\ a = b
    /\ round[server] = b + 1 /\ round[client] = a + 1
ToClient ==
    /\ pc[server] \in Reading /\ pc[client] \in ClientSetUp \cup Reading
    /\ Way(client) = 1 /\ Way(server) = 0 /\ a = b
    /\ round[server] = b + 1 /\ round[client] = a + 1
ClientsTurn ==
    /\ pc[server] \in Reading /\ pc[client] \in Sending
    /\ Way(client) = 0 /\ Way(server) = 0 /\ a = b + 1
    /\ round[server] = b + 1 /\ round[client] = a
ToServer ==
    /\ pc[server] \in Reading
    /\ Way(client) = 0 /\ Way(server) = 1 /\ a = b + 1
    /\ round[server] = b + 1
    /\ \/ pc[client] \in Reading /\ round[client] = a + 1
       \/ pc[client] \in Over /\ a = Rounds
AllOver ==
    /\ pc[server] \in Over /\ pc[client] \in Over
    /\ Way(client) = 0 /\ a = Rounds
    /\ b \in {Rounds - 1, Rounds}

Turn == NotBegun \/ ServersTurn \/ ToClient \/ ClientsTurn \/ ToServer \/ AllOver

\* What a program was told of is not less than what it is about to take.
Told == \A p \in Programs :
            "bHas_message" \in flags[p] \/ pc[p] = "release" => read_msg_number[p] > 0

\* Only a client that is through its rounds brings a close flag up first.
ClosedByClient == \A p \in Programs : ConnectionClosed(p) => pc[client] \in Over

Inv == TypeOK /\ Turn /\ Told /\ ClosedByClient

-----------------------------------------------------------------------------
LEMMA InvInit == Init => Inv
<1> SUFFICES ASSUME Init PROVE Inv
  OBVIOUS
<1> USE PingPongAssumption DEF PingPongAssumption, Programs
<1>1. TypeOK
  <2>1. pc \in [Programs -> Steps]
    BY DEF Init, Steps
  <2>2. /\ queue \in [Programs -> Seq(1 .. Rounds)]
        /\ got \in [Programs -> Seq(1 .. Rounds)]
        /\ read_msg_number \in [Programs -> Nat]
        /\ round \in [Programs -> 1 .. Rounds]
    BY DEF Init
  <2> QED
    BY <2>1, <2>2 DEF Init, TypeOK
<1>2. Turn
  BY DEF Init, Turn, NotBegun, ServerSetUp, ClientSetUp, a, b, Way
<1>3. Told /\ ClosedByClient
  BY DEF Init, Told, ClosedByClient, ConnectionClosed
<1> QED
  BY <1>1, <1>2, <1>3 DEF Inv

\* The set-up, in which nothing is sent and nothing received.
SetUp(p) ==
    \/ socket(p)
    \/ p = server /\ (bind \/ bind_upload \/ accept_initialise \/ accept_return)
    \/ p = client /\ (connect \/ connect_upload \/ connect_initialise)

LEMMA SetUpKeeps ==
    ASSUME Inv, NEW p \in Programs, SetUp(p)
    PROVE  Inv'
<1> USE PingPongAssumption DEF PingPongAssumption, Programs, Inv
<1>1. UNCHANGED <<streamVars, round>>
  BY DEF SetUp, socket, bind, bind_upload, accept_initialise, accept_return, connect,
         connect_upload, connect_initialise, Crash
<1>2. TypeOK'
  <2>1. pc' \in [Programs -> Steps]
    BY DEF SetUp, socket, bind, bind_upload, accept_initialise, accept_return, connect,
           connect_upload, connect_initialise, Crash, Goto, TypeOK, Steps
  <2>2. flags' \in [Programs -> SUBSET Flags]
    BY DEF SetUp, socket, bind, bind_upload, accept_initialise, accept_return, connect,
           connect_upload, connect_initialise, Crash, Raise, TypeOK, Flags
  <2>3. /\ port' \in BOOLEAN /\ linked' \in BOOLEAN /\ crashed' \in BOOLEAN
        /\ cs' \subseteq Programs /\ mes_info' \subseteq Programs
    BY DEF SetUp, socket, bind, bind_upload, accept_initialise, accept_return, connect,
           connect_upload, connect_initialise, Crash, TypeOK, setUpVars
  <2> QED
    BY <1>1, <2>1, <2>2, <2>3 DEF TypeOK, streamVars
<1>3. Turn'
  <2>1. /\ a' = a /\ b' = b /\ round' = round
        /\ \A q \in Programs : Way(q)' = Way(q)
    BY <1>1 DEF a, b, Way, streamVars
  <2>2. \/ pc' = pc
        \/ /\ pc[server] \in ServerSetUp /\ pc'[client] = pc[client]
           /\ \/ pc'[server] \in ServerSetUp
              \/ pc[server] = "a_wait" /\ pc'[server] = "send"
        \/ /\ pc[client] \in ClientSetUp /\ pc'[server] = pc[server]
           /\ pc'[client] \in ClientSetUp \cup {"recv"}
    BY DEF SetUp, socket, bind, bind_upload, accept_initialise, accept_return, connect,
           connect_upload, connect_initialise, Crash, May, Goto, TypeOK, ServerSetUp, ClientSetUp
  <2> QED
    BY <2>1, <2>2, SMT
    DEF Turn, NotBegun, ServersTurn, ToClient, ClientsTurn, ToServer, AllOver, ServerSetUp,
        ClientSetUp, Reading, Sending, Over
<1>4. Told' /\ ClosedByClient'
  <2>1. /\ \A q \in Programs : "bHas_message" \in flags'[q] <=> "bHas_message" \in flags[q]
        /\ \A q \in Programs : "bIs_close" \in flags'[q] <=> "bIs_close" \in flags[q]
        /\ \A q \in Programs : "self_close" \in flags'[q] <=> "self_close" \in flags[q]
    BY DEF SetUp, socket, bind, bind_upload, accept_initialise, accept_return, connect,
           connect_upload, connect_initialise, Crash, Raise, TypeOK
  <2>2. /\ \A q \in Programs : pc'[q] = "release" => pc[q] = "release"
        /\ pc[client] \in Over => pc'[client] \in Over
    BY DEF SetUp, socket, bind, bind_upload, accept_initialise, accept_return, connect,
           connect_upload, connect_initialise, Crash, May, Goto, TypeOK, Over
  <2> QED
    BY <1>1, <2>1, <2>2 DEF Told, ClosedByClient, ConnectionClosed, streamVars
<1> QED
  BY <1>2, <1>3, <1>4

-----------------------------------------------------------------------------
(* The main loops *)

\* Looking for space or for a message moves nothing.
LEMMA LookKeeps ==
    ASSUME Inv, NEW p \in Programs, Allocate(p) \/ recv_look(p)
    PROVE  Inv'
<1> USE PingPongAssumption DEF PingPongAssumption, Programs, Inv
<1>1. UNCHANGED <<setUpVars, flags, streamVars, crashed, round>>
  BY DEF Allocate, recv_look
<1>2. /\ pc' \in [Programs -> Steps]
      /\ \A q \in Programs : q # p => pc'[q] = pc[q]
      /\ \/ pc[p] \in Sending /\ pc'[p] \in Sending
         \/ pc[p] \in Reading /\ pc'[p] \in Reading
      /\ pc'[p] = "release" => "bHas_message" \in flags[p]
  BY DEF Allocate, recv_look, May, Goto, TypeOK, Steps, Sending, Reading
<1>3. TypeOK'
  BY <1>1, <1>2 DEF TypeOK, setUpVars, streamVars
<1>4. Turn'
  <2>1. a' = a /\ b' = b /\ \A q \in Programs : Way(q)' = Way(q)
    BY <1>1 DEF a, b, Way, streamVars
  <2> QED
    BY <1>1, <1>2, <2>1, SMT
    DEF Turn, NotBegun, ServersTurn, ToClient, ClientsTurn, ToServer, AllOver, ServerSetUp,
        ClientSetUp, Reading, Sending, Over
<1>5. Told' /\ ClosedByClient'
  <2>1. pc[client] \in Over => pc'[client] \in Over
    BY <1>2 DEF Over, Sending, Reading
  <2>2. \A q \in Programs : pc'[q] = "release" => pc[q] = "release" \/ "bHas_message" \in flags[q]
    BY <1>2
  <2> QED
    BY <1>1, <2>1, <2>2 DEF Told, ClosedByClient, ConnectionClosed, streamVars
<1> QED
  BY <1>3, <1>4, <1>5

\* What Sent and Received make of step and round.
LEMMA AfterSend ==
    ASSUME TypeOK, NEW p \in Programs, Sent(p)
    PROVE  /\ pc' \in [Programs -> Steps] /\ round' \in [Programs -> 1 .. Rounds]
           /\ \A q \in Programs : q # p => pc'[q] = pc[q] /\ round'[q] = round[q]
           /\ \/ /\ p = server \/ round[p] < Rounds
                 /\ pc'[p] = "recv"
                 /\ round'[p] = IF p = server THEN round[p] ELSE round[p] + 1
              \/ p = client /\ pc'[p] = "close" /\ round'[p] = round[p] /\ round[p] = Rounds
<1> USE PingPongAssumption DEF PingPongAssumption, Programs
<1>1. round[p] \in 1 .. Rounds
  BY DEF TypeOK
<1> QED
  BY <1>1 DEF Sent, Round, Goto, TypeOK, Steps

LEMMA AfterReceive ==
    ASSUME TypeOK, NEW p \in Programs, Received(p)
    PROVE  /\ pc' \in [Programs -> Steps] /\ round' \in [Programs -> 1 .. Rounds]
           /\ \A q \in Programs : q # p => pc'[q] = pc[q] /\ round'[q] = round[q]
           /\ \/ /\ p = client \/ round[p] < Rounds
                 /\ pc'[p] = "send"
                 /\ round'[p] = IF p = client THEN round[p] ELSE round[p] + 1
              \/ p = server /\ pc'[p] = "close" /\ round'[p] = round[p] /\ round[p] = Rounds
<1> USE PingPongAssumption DEF PingPongAssumption, Programs
<1>1. round[p] \in 1 .. Rounds
  BY DEF TypeOK
<1> QED
  BY <1>1 DEF Received, Round, Goto, TypeOK, Steps

\* A send passes the token on.
LEMMA CommittKeeps ==
    ASSUME Inv, NEW p \in Programs, Committ(p)
    PROVE  Inv'
<1> USE PingPongAssumption DEF PingPongAssumption, Programs, Inv
<1>0. PICK q \in Programs : q = Peer(p) /\ q # p
  BY DEF Peer
<1>1. /\ pc[p] = "commit" /\ UNCHANGED <<setUpVars, got, crashed>>
      /\ queue' = [queue EXCEPT ![q] = Append(@, round[p])]
      /\ Sent(p)
      /\ \/ /\ flags' = [flags EXCEPT ![q] = @ \cup {"bHas_message"}]
            /\ read_msg_number' = [read_msg_number EXCEPT ![q] = @ + 1]
         \/ UNCHANGED <<flags, read_msg_number>>
  BY <1>0 DEF Committ, May, Raise
<1>2. TypeOK'
  <2>1. round[p] \in 1 .. Rounds /\ queue[q] \in Seq(1 .. Rounds)
    BY <1>0 DEF TypeOK
  <2>2. Append(queue[q], round[p]) \in Seq(1 .. Rounds)
    BY <2>1
  <2>3. queue' \in [Programs -> Seq(1 .. Rounds)]
    BY <1>1, <2>2 DEF TypeOK
  <2>4. flags' \in [Programs -> SUBSET Flags] /\ read_msg_number' \in [Programs -> Nat]
    BY <1>1 DEF TypeOK, Flags
  <2> QED
    BY <1>1, <2>3, <2>4, AfterSend DEF TypeOK, setUpVars
<1>3. Turn'
  <2>1. /\ a' = a /\ b' = b
        /\ Way(q)' = Way(q) + 1 /\ Way(p)' = Way(p)
    <3>1. queue[q] \in Seq(1 .. Rounds) /\ queue'[q] = Append(queue[q], round[p])
          /\ queue'[p] = queue[p]
      BY <1>0, <1>1 DEF TypeOK
    <3>2. Len(queue'[q]) = Len(queue[q]) + 1
      BY <3>1
    <3> QED
      BY <1>1, <3>1, <3>2 DEF a, b, Way
  <2>2. CASE p = server
    <3>1. q = client
      BY <1>0, <2>2 DEF Peer
    <3>2. ServersTurn
      BY <1>1, <2>2, SMT
      DEF Turn, NotBegun, ServersTurn, ToClient, ClientsTurn, ToServer, AllOver, ServerSetUp,
          Reading, Over
    <3>3. pc'[server] = "recv" /\ pc'[client] = pc[client] /\ round'[server] = round[server]
          /\ round'[client] = round[client]
      BY <1>0, <1>1, <2>2, <3>1, AfterSend
    <3> QED
      BY <2>1, <2>2, <3>1, <3>2, <3>3, SMT DEF Turn, ServersTurn, ToClient, Reading
  <2>3. CASE p = client
    <3>1. q = server
      BY <1>0, <2>3 DEF Peer
    <3>2. ClientsTurn
      BY <1>1, <2>3, SMT
      DEF Turn, NotBegun, ServersTurn, ToClient, ClientsTurn, ToServer, AllOver, ClientSetUp,
          Reading, Over
    <3>3. /\ pc'[server] = pc[server] /\ round'[server] = round[server]
          /\ \/ pc'[client] = "recv" /\ round'[client] = round[client] + 1
             \/ pc'[client] = "close" /\ round[client] = Rounds
      BY <1>0, <1>1, <2>3, <3>1, AfterSend
    <3> QED
      BY <2>1, <2>3, <3>1, <3>2, <3>3, SMT DEF Turn, ClientsTurn, ToServer, Reading, Over
  <2> QED
    BY <2>2, <2>3
<1>4. Told'
  <2> SUFFICES ASSUME NEW r \in Programs, "bHas_message" \in flags'[r] \/ pc'[r] = "release"
               PROVE  read_msg_number'[r] > 0
    BY DEF Told
  <2>1. pc'[r] = "release" => pc[r] = "release"
    BY <1>1, AfterSend
  <2>2. read_msg_number[r] \in Nat /\ flags[r] \in SUBSET Flags
    BY DEF TypeOK
  <2>3. \/ flags'[r] = flags[r] /\ read_msg_number'[r] = read_msg_number[r]
        \/ read_msg_number'[r] = read_msg_number[r] + 1
    BY <1>1, <2>2 DEF TypeOK
  <2>4. CASE flags'[r] = flags[r] /\ read_msg_number'[r] = read_msg_number[r]
    BY <2>1, <2>4 DEF Told
  <2>5. CASE read_msg_number'[r] = read_msg_number[r] + 1
    BY <2>2, <2>5
  <2> QED
    BY <2>3, <2>4, <2>5
<1>5. ClosedByClient'
  <2>1. pc[client] \in Over => pc'[client] \in Over
    BY <1>1, AfterSend DEF Over
  <2>2. \A r \in Programs : ConnectionClosed(r)' => ConnectionClosed(r)
    BY <1>1 DEF TypeOK, ConnectionClosed
  <2> QED
    BY <2>1, <2>2 DEF ClosedByClient
<1> QED
  BY <1>2, <1>3, <1>4, <1>5

\* A recv that gives up is the last one of the server.
LEMMA ClosedKeeps ==
    ASSUME Inv, NEW p \in Programs, recv_closed(p)
    PROVE  Inv'
<1> USE PingPongAssumption DEF PingPongAssumption, Programs, Inv
<1>1. pc[p] = "recv_close" /\ UNCHANGED <<setUpVars, flags, streamVars, crashed>>
  BY DEF recv_closed, May
<1>2. a' = a /\ b' = b /\ \A q \in Programs : Way(q)' = Way(q)
  BY <1>1 DEF a, b, Way, streamVars
<1>3. CASE ConnectionClosed(p) /\ Received(p)
  <2>1. pc[client] \in Over /\ p = server
    BY <1>1, <1>3 DEF ClosedByClient, Over
  <2>2. ToServer /\ a = Rounds
    BY <1>1, <2>1, SMT
    DEF Turn, NotBegun, ServersTurn, ToClient, ClientsTurn, ToServer, AllOver, ServerSetUp,
        ClientSetUp, Reading, Sending, Over
  <2>3. round[server] = Rounds
    BY <2>2 DEF ToServer
  <2>4. pc' \in [Programs -> Steps] /\ round' \in [Programs -> 1 .. Rounds]
        /\ pc'[server] = "close" /\ pc'[client] = pc[client]
    BY <1>3, <2>1, <2>3, AfterReceive
  <2>5. TypeOK'
    BY <1>1, <2>4 DEF TypeOK, setUpVars, streamVars
  <2>6. Turn'
    <3>1. b \in Nat
      BY DEF TypeOK, b
    <3> QED
      BY <1>2, <2>1, <2>2, <2>3, <2>4, <3>1, SMT DEF Turn, ToServer, AllOver, Over
  <2>7. Told' /\ ClosedByClient'
    BY <1>1, <2>1, <2>4 DEF Told, ClosedByClient, ConnectionClosed, streamVars
  <2> QED
    BY <2>5, <2>6, <2>7
<1>4. CASE Goto(p, "recv") /\ UNCHANGED round
  <2>1. /\ pc' \in [Programs -> Steps] /\ pc'[p] = "recv"
        /\ \A q \in Programs : q # p => pc'[q] = pc[q]
    BY <1>4 DEF Goto, TypeOK, Steps
  <2>2. TypeOK'
    BY <1>1, <1>4, <2>1 DEF TypeOK, setUpVars, streamVars
  <2>3. Turn'
    BY <1>1, <1>2, <1>4, <2>1, SMT
    DEF Turn, NotBegun, ServersTurn, ToClient, ClientsTurn, ToServer, AllOver, ServerSetUp,
        ClientSetUp, Reading, Sending, Over
  <2>4. Told' /\ ClosedByClient'
    BY <1>1, <2>1 DEF Told, ClosedByClient, ConnectionClosed, streamVars, Over
  <2> QED
    BY <2>2, <2>3, <2>4
<1> QED
  BY <1>3, <1>4 DEF recv_closed

\* The head of one sequence goes to the end of another.
LEMMA TakenAndPut ==
    ASSUME NEW M, NEW s \in Seq(M), NEW t \in Seq(M), t # <<>>
    PROVE  /\ Tail(t) \in Seq(M) /\ Len(Tail(t)) = Len(t) - 1
           /\ Append(s, t[1]) \in Seq(M) /\ Len(Append(s, t[1])) = Len(s) + 1
           /\ Len(t) \in Nat \ {0}
  OBVIOUS

\* A recv that takes a message takes the token.
LEMMA ReleaseKeeps ==
    ASSUME Inv, NEW p \in Programs, Release(p)
    PROVE  Inv'
<1> USE PingPongAssumption DEF PingPongAssumption, Programs, Inv
<1>1. /\ pc[p] = "release" /\ queue[p] # <<>> /\ UNCHANGED <<setUpVars, crashed>>
      /\ got' = [got EXCEPT ![p] = Append(@, queue[p][1])]
      /\ queue' = [queue EXCEPT ![p] = Tail(@)]
      /\ read_msg_number' = [read_msg_number EXCEPT ![p] = @ - 1]
      /\ Received(p)
  BY DEF Release, May, delete_head_queue
<1>2. flags' = IF read_msg_number[p] > 1 THEN flags
               ELSE [flags EXCEPT ![p] = @ \ {"bHas_message"}]
  BY DEF Release, FlagAfter
<1>3. queue[p] \in Seq(1 .. Rounds) /\ got[p] \in Seq(1 .. Rounds)
      /\ read_msg_number[p] \in Nat /\ flags[p] \in SUBSET Flags
  BY DEF TypeOK
<1>4. read_msg_number[p] > 0
  BY <1>1 DEF Told
<1>5. /\ Tail(queue[p]) \in Seq(1 .. Rounds)
      /\ Len(Tail(queue[p])) = Len(queue[p]) - 1
      /\ Append(got[p], queue[p][1]) \in Seq(1 .. Rounds)
      /\ Len(Append(got[p], queue[p][1])) = Len(got[p]) + 1
      /\ Len(queue[p]) \in Nat \ {0}
  BY <1>1, <1>3, TakenAndPut, Zenon
<1>6. TypeOK'
  <2>1. queue' \in [Programs -> Seq(1 .. Rounds)] /\ got' \in [Programs -> Seq(1 .. Rounds)]
    BY <1>1, <1>5 DEF TypeOK
  <2>2. read_msg_number' \in [Programs -> Nat]
    <3>1. read_msg_number[p] - 1 \in Nat
      BY <1>3, <1>4
    <3>2. read_msg_number' = [read_msg_number EXCEPT ![p] = @ - 1]
      BY <1>1
    <3> QED
      BY <3>1, <3>2 DEF TypeOK
  <2>3. flags' \in [Programs -> SUBSET Flags]
    BY <1>2 DEF TypeOK
  <2> QED
    BY <1>1, <2>1, <2>2, <2>3, AfterReceive DEF TypeOK, setUpVars
<1>7. Turn'
  <2>1. \A r \in Programs : r # p => Way(r)' = Way(r) /\ got'[r] = got[r]
    BY <1>1 DEF Way, TypeOK
  <2>2. Way(p)' = Way(p) - 1 /\ Len(got'[p]) = Len(got[p]) + 1
    BY <1>1, <1>5 DEF Way, TypeOK
  <2>3. CASE p = client
    <3>1. ToClient
      BY <1>1, <1>5, <2>3, SMT
      DEF Turn, NotBegun, ServersTurn, ToClient, ClientsTurn, ToServer, AllOver, Sending, Over,
          Way
    <3>2. a' = a + 1 /\ b' = b
      BY <2>1, <2>2, <2>3 DEF a, b
    <3>3. pc'[server] = pc[server] /\ round' [server] = round[server]
          /\ pc'[client] = "send" /\ round'[client] = round[client]
      BY <1>1, <2>3, AfterReceive
    <3>4. Way(client)' = 0 /\ Way(server)' = 0
      BY <2>1, <2>2, <2>3, <3>1 DEF ToClient
    <3> QED
      BY <3>1, <3>2, <3>3, <3>4, SMT DEF Turn, ToClient, ClientsTurn, Sending, Reading
  <2>4. CASE p = server
    <3>1. ToServer
      BY <1>1, <1>5, <2>4, SMT
      DEF Turn, NotBegun, ServersTurn, ToClient, ClientsTurn, ToServer, AllOver, ServerSetUp,
          Sending, Over, Way
    <3>2. a' = a /\ b' = b + 1
      BY <2>1, <2>2, <2>4 DEF a, b
    <3>3. /\ pc'[client] = pc[client] /\ round'[client] = round[client]
          /\ \/ /\ round[server] < Rounds
                /\ pc'[server] = "send" /\ round'[server] = round[server] + 1
             \/ pc'[server] = "close" /\ round'[server] = round[server] /\ round[server] = Rounds
      BY <1>1, <2>4, AfterReceive
    <3>4. Way(client)' = 0 /\ Way(server)' = 0
      BY <2>1, <2>2, <2>4, <3>1 DEF ToServer
    <3>5. round[client] \in 1 .. Rounds /\ a \in Nat /\ b \in Nat
      BY DEF TypeOK, a, b
    <3> QED
      BY <3>1, <3>2, <3>3, <3>4, <3>5, SMT
      DEF Turn, ToServer, ServersTurn, AllOver, Sending, Reading, Over
  <2> QED
    BY <2>3, <2>4
<1>8. Told'
  <2> SUFFICES ASSUME NEW r \in Programs, "bHas_message" \in flags'[r] \/ pc'[r] = "release"
               PROVE  read_msg_number'[r] > 0
    BY DEF Told
  <2>1. CASE r = p
    <3>1. pc'[p] # "release"
      BY <1>1, AfterReceive
    <3>2. read_msg_number[p] > 1
      BY <1>2, <2>1, <3>1 DEF TypeOK
    <3> QED
      BY <1>1, <1>3, <2>1, <3>2 DEF TypeOK
  <2>2. CASE r # p
    <3>1. pc'[r] = pc[r] /\ flags'[r] = flags[r] /\ read_msg_number'[r] = read_msg_number[r]
      BY <1>1, <1>2, <2>2, AfterReceive DEF TypeOK
    <3> QED
      BY <3>1 DEF Told
  <2> QED
    BY <2>1, <2>2
<1>9. ClosedByClient'
  <2>1. pc[client] \in Over => pc'[client] \in Over
    BY <1>1, AfterReceive DEF Over
  <2>2. \A r \in Programs : ConnectionClosed(r)' => ConnectionClosed(r)
    BY <1>2 DEF TypeOK, ConnectionClosed
  <2> QED
    BY <2>1, <2>2 DEF ClosedByClient
<1> QED
  BY <1>6, <1>7, <1>8, <1>9

\* A program closes when the client is over.
LEMMA CloseKeeps ==
    ASSUME Inv, NEW p \in Programs, close(p)
    PROVE  Inv'
<1> USE PingPongAssumption DEF PingPongAssumption, Programs, Inv
<1>1. /\ pc[p] = "close" /\ UNCHANGED <<setUpVars, streamVars, crashed, round>>
      /\ flags' = [q \in Programs |->
             IF q = p
             THEN (flags[q] \cup {"bIs_close", "self_close"})
                      \ {"bHas_message", "bHas_new_resource"}
             ELSE flags[q] \cup {"bIs_close"}]
      /\ Goto(p, "closed")
  BY DEF close, May
<1>2. /\ pc' \in [Programs -> Steps] /\ pc'[p] = "closed"
      /\ \A q \in Programs : q # p => pc'[q] = pc[q]
  BY <1>1 DEF Goto, TypeOK, Steps
<1>3. TypeOK'
  <2>1. flags' \in [Programs -> SUBSET Flags]
    BY <1>1 DEF TypeOK, Flags
  <2> QED
    BY <1>1, <1>2, <2>1 DEF TypeOK, setUpVars, streamVars
<1>4. Turn'
  <2>1. a' = a /\ b' = b /\ \A q \in Programs : Way(q)' = Way(q)
    BY <1>1 DEF a, b, Way, streamVars
  <2> QED
    BY <1>1, <1>2, <2>1, SMT
    DEF Turn, NotBegun, ServersTurn, ToClient, ClientsTurn, ToServer, AllOver, ServerSetUp,
        ClientSetUp, Reading, Sending, Over, streamVars
<1>5. Told'
  <2>1. \A q \in Programs : "bHas_message" \in flags'[q] => "bHas_message" \in flags[q]
    BY <1>1
  <2> QED
    BY <1>1, <1>2, <2>1 DEF Told, streamVars
<1>6. ClosedByClient'
  <2>1. pc[client] \in Over
    BY <1>1, SMT
    DEF Turn, NotBegun, ServersTurn, ToClient, ClientsTurn, ToServer, AllOver, ServerSetUp,
        ClientSetUp, Reading, Sending, Over
  <2> QED
    BY <1>2, <2>1 DEF ClosedByClient, Over
<1> QED
  BY <1>3, <1>4, <1>5, <1>6

LEMMA InvNext == Inv /\ [Next]_vars => Inv'
<1>1. Inv /\ UNCHANGED vars => Inv'
  BY DEF Inv, TypeOK, Turn, NotBegun, ServersTurn, ToClient, ClientsTurn, ToServer, AllOver,
         Told, ClosedByClient, ConnectionClosed, a, b, Way, vars, setUpVars, streamVars
<1>2. ASSUME Inv, NEW p \in Programs, Run(p)
      PROVE  Inv'
  BY <1>2, SetUpKeeps, LookKeeps, CommittKeeps, ClosedKeeps, ReleaseKeeps, CloseKeeps
  DEF Run, SetUp
<1> QED
  BY <1>1, <1>2 DEF Next

-----------------------------------------------------------------------------
\* The types, for any number of rounds: no program takes more messages than it was
\* told of.
THEOREM RallyTyped == Spec => []TypeOK
<1> QED
  BY InvInit, InvNext, PTL DEF Spec, Inv

\* For any number of rounds, neither program is ever a message ahead.
THEOREM InStepSafe == Spec => []InStep
<1>1. Inv => InStep
  <2> SUFFICES ASSUME Inv PROVE InStep
    OBVIOUS
  <2>1. a \in Nat /\ b \in Nat
    BY DEF Inv, TypeOK, a, b, Programs
  <2>2. a - b \in {0, 1}
    BY <2>1, PingPongAssumption, SMT
    DEF PingPongAssumption, Inv, Turn, NotBegun, ServersTurn, ToClient, ClientsTurn, ToServer,
        AllOver
  <2> QED
    BY <2>2 DEF InStep, a, b
<1> QED
  BY <1>1, InvInit, InvNext, PTL DEF Spec

\* For any number of rounds, a server that is through has missed the message of the
\* last round at most, and the client none.
THEOREM MissesSafe == Spec => []MissesOnlyTheLast
<1>1. Inv => MissesOnlyTheLast
  <2> SUFFICES ASSUME Inv, pc[server] = "closed"
               PROVE  a = Rounds /\ b \in {Rounds - 1, Rounds}
    BY DEF MissesOnlyTheLast, a, b
  <2> QED
    BY SMT
    DEF Inv, Turn, NotBegun, ServersTurn, ToClient, ClientsTurn, ToServer, AllOver, ServerSetUp,
        Reading, Sending
<1> QED
  BY <1>1, InvInit, InvNext, PTL DEF Spec

-----------------------------------------------------------------------------
(* Joining what was received and what is on its way *)

\* Two sequences that count on, one after the other.
LEMMA JoinNumbered ==
    ASSUME NEW M, NEW s \in Seq(M), NEW t \in Seq(M),
           \A i \in 1 .. Len(s) : s[i] = i,
           \A i \in 1 .. Len(t) : t[i] = Len(s) + i
    PROVE  /\ s \o t \in Seq(M) /\ Len(s \o t) = Len(s) + Len(t)
           /\ \A i \in 1 .. Len(s \o t) : (s \o t)[i] = i
  OBVIOUS

LEMMA JoinOne ==
    ASSUME NEW M, NEW s \in Seq(M), NEW x \in M
    PROVE  s \o <<>> = s /\ s \o <<x>> = Append(s, x)
  BY ConcatEmptySeq, AppendIsConcat

\* The head of the second goes to the end of the first.
LEMMA JoinMove ==
    ASSUME NEW M, NEW s \in Seq(M), NEW t \in Seq(M), t # <<>>
    PROVE  /\ Append(s, t[1]) \o Tail(t) = s \o t
           /\ Len(s) < Len(s \o t) /\ (s \o t)[Len(s) + 1] = t[1]
<1>1. t[1] \in M /\ Len(t) \in Nat \ {0} /\ Len(s) \in Nat
  OBVIOUS
<1>2. PICK u \in Seq(M) : /\ u = Append(s, t[1])
                          /\ Len(u) = Len(s) + 1 /\ u[Len(s) + 1] = t[1]
                          /\ \A i \in 1 .. Len(s) : u[i] = s[i]
  <2>1. /\ Append(s, t[1]) \in Seq(M)
        /\ Len(Append(s, t[1])) = Len(s) + 1 /\ Append(s, t[1])[Len(s) + 1] = t[1]
        /\ \A i \in 1 .. Len(s) : Append(s, t[1])[i] = s[i]
    BY <1>1
  <2> QED
    BY <2>1, Zenon
<1>3. PICK v \in Seq(M) : /\ v = Tail(t)
                          /\ Len(v) = Len(t) - 1
                          /\ \A i \in 1 .. Len(v) : v[i] = t[i + 1]
  <2>1. /\ Tail(t) \in Seq(M)
        /\ Len(Tail(t)) = Len(t) - 1
        /\ \A i \in 1 .. Len(Tail(t)) : Tail(t)[i] = t[i + 1]
    BY <1>1
  <2> QED
    BY <2>1, Zenon
<1>4. /\ u \o v \in Seq(M) /\ s \o t \in Seq(M)
      /\ Len(u \o v) = Len(s \o t) /\ Len(s \o t) = Len(s) + Len(t)
  BY <1>1, <1>2, <1>3, ConcatProperties
<1>5. ASSUME NEW i \in 1 .. Len(u \o v) PROVE (u \o v)[i] = (s \o t)[i]
  <2>1. (u \o v)[i] = IF i <= Len(u) THEN u[i] ELSE v[i - Len(u)]
    BY <1>1, <1>2, <1>3, <1>4, ConcatProperties
  <2>2. (s \o t)[i] = IF i <= Len(s) THEN s[i] ELSE t[i - Len(s)]
    BY <1>1, <1>2, <1>3, <1>4, ConcatProperties
  <2> QED
    BY <1>1, <1>2, <1>3, <1>4, <2>1, <2>2
<1>6. u \o v = s \o t
  <2>1. PICK w \in Seq(M) : w = u \o v
    BY <1>4
  <2>2. PICK x \in Seq(M) : x = s \o t
    BY <1>4
  <2>3. Len(w) = Len(x) /\ \A i \in 1 .. Len(w) : w[i] = x[i]
    BY <1>4, <1>5, <2>1, <2>2
  <2> QED
    BY <2>1, <2>2, <2>3, SeqEqual
<1>7. (s \o t)[Len(s) + 1] = t[1]
  BY <1>1
<1> QED
  BY <1>1, <1>2, <1>3, <1>4, <1>6, <1>7

-----------------------------------------------------------------------------
(* The stream of each direction *)

\* The messages of a direction are numbered from 1: those received, and after them
\* those on their way.
Numbered ==
    \A p \in Programs :
        /\ \A i \in 1 .. Len(got[p]) : got[p][i] = i
        /\ \A i \in 1 .. Len(queue[p]) : queue[p][i] = Len(got[p]) + i

\* All a program has posted, as its peer has received it or will.
All(p) == got[p] \o queue[p]

LEMMA AllNumbered ==
    ASSUME TypeOK, Numbered, NEW p \in Programs
    PROVE  /\ All(p) \in Seq(1 .. Rounds) /\ Len(All(p)) = Len(got[p]) + Len(queue[p])
           /\ \A i \in 1 .. Len(All(p)) : All(p)[i] = i
<1>1. got[p] \in Seq(1 .. Rounds) /\ queue[p] \in Seq(1 .. Rounds)
  BY DEF TypeOK
<1> QED
  BY <1>1, JoinNumbered, Zenon DEF All, Numbered

\* The sender has the token: its next message carries the next number.
LEMMA NextNumber ==
    ASSUME Inv, NEW p \in Programs, pc[p] = "commit"
    PROVE  queue[Peer(p)] = <<>> /\ round[p] = Len(got[Peer(p)]) + 1
<1> USE PingPongAssumption DEF PingPongAssumption, Programs, Inv
<1>1. Len(queue[Peer(p)]) = 0 /\ round[p] = Len(got[Peer(p)]) + 1
  <2>1. CASE p = server
    BY <2>1, SMT
    DEF Turn, NotBegun, ServersTurn, ToClient, ClientsTurn, ToServer, AllOver, ServerSetUp,
        Reading, Over, Peer, Way, a, b
  <2>2. CASE p = client
    BY <2>2, SMT
    DEF Turn, NotBegun, ServersTurn, ToClient, ClientsTurn, ToServer, AllOver, ClientSetUp,
        Reading, Over, Peer, Way, a, b
  <2> QED
    BY <2>1, <2>2
<1>2. queue[Peer(p)] \in Seq(1 .. Rounds)
  BY DEF TypeOK, Peer
<1> QED
  BY <1>1, <1>2

\* A send posts the next number at the end.
LEMMA CommittPosts ==
    ASSUME Inv, Numbered, NEW p \in Programs, Committ(p)
    PROVE  /\ Numbered'
           /\ All(Peer(p))' = Append(All(Peer(p)), Len(All(Peer(p))) + 1)
           /\ All(p)' = All(p)
<1> USE PingPongAssumption DEF PingPongAssumption, Programs
<1>0. PICK q \in Programs : q = Peer(p) /\ q # p /\ p = Peer(q)
  BY DEF Peer
<1>1. /\ got' = got /\ queue' = [queue EXCEPT ![q] = Append(@, round[p])]
      /\ queue[q] = <<>> /\ round[p] = Len(got[q]) + 1
  BY <1>0, NextNumber DEF Committ, May
<1>2. /\ queue'[q] = <<Len(got[q]) + 1>> /\ queue'[p] = queue[p]
      /\ Len(queue'[q]) = 1 /\ queue'[q][1] = Len(got[q]) + 1
  <2>1. queue'[q] = Append(<<>>, Len(got[q]) + 1) /\ queue'[p] = queue[p]
    BY <1>0, <1>1 DEF Inv, TypeOK
  <2>2. Append(<<>>, Len(got[q]) + 1) = <<Len(got[q]) + 1>>
    OBVIOUS
  <2> QED
    BY <2>1, <2>2
<1>3. \A r \in Programs : r = p \/ r = q
  BY <1>0
<1>4. got[q] \in Seq(1 .. Rounds)
  BY DEF Inv, TypeOK
<1>5. Numbered'
  <2>1. \A i \in 1 .. Len(queue'[q]) : queue'[q][i] = Len(got'[q]) + i
    BY <1>1, <1>2, <1>4
  <2>2. queue'[p] = queue[p] /\ got' = got
    BY <1>1, <1>2
  <2> QED
    BY <1>3, <2>1, <2>2, Zenon DEF Numbered
<1>6. All(q) = got[q] /\ got'[q] \o queue'[q] = Append(got[q], Len(got[q]) + 1)
  <2>1. got[q] \in Seq(Nat) /\ Len(got[q]) + 1 \in Nat
    BY <1>4
  <2>2. got[q] \o <<>> = got[q]
        /\ got[q] \o <<Len(got[q]) + 1>> = Append(got[q], Len(got[q]) + 1)
    BY <2>1, JoinOne, Zenon
  <2> QED
    BY <1>1, <1>2, <2>2 DEF All
<1> QED
  BY <1>0, <1>1, <1>2, <1>5, <1>6 DEF All

\* A recv takes the next number, and changes nothing of what was posted.
LEMMA ReleaseReceives ==
    ASSUME Inv, Numbered, NEW p \in Programs, Release(p)
    PROVE  /\ Numbered'
           /\ \A r \in Programs : All(r)' = All(r)
           /\ Len(got[p]) < Len(All(p))
           /\ got' = [got EXCEPT ![p] = Append(@, All(p)[Len(@) + 1])]
<1>1. /\ queue[p] # <<>>
      /\ got' = [got EXCEPT ![p] = Append(@, queue[p][1])]
      /\ queue' = [queue EXCEPT ![p] = Tail(@)]
  BY DEF Release, delete_head_queue
<1>2. queue[p] \in Seq(1 .. Rounds) /\ got[p] \in Seq(1 .. Rounds)
  BY DEF Inv, TypeOK
<1>3. got'[p] = Append(got[p], queue[p][1]) /\ queue'[p] = Tail(queue[p])
  BY <1>1 DEF Inv, TypeOK
<1>4. Len(queue[p]) >= 1 /\ queue[p][1] = Len(got[p]) + 1
  BY <1>1, <1>2 DEF Numbered
<1>5. \A r \in Programs : r # p => got'[r] = got[r] /\ queue'[r] = queue[r]
  BY <1>1 DEF Inv, TypeOK
<1>6. Numbered'
  <2>1. \A i \in 1 .. Len(got'[p]) : got'[p][i] = i
    BY <1>2, <1>3, <1>4 DEF Numbered
  <2>2. \A i \in 1 .. Len(queue'[p]) : queue'[p][i] = Len(got'[p]) + i
    BY <1>2, <1>3, <1>4 DEF Numbered
  <2> QED
    BY <1>5, <2>1, <2>2 DEF Numbered
<1>7. /\ got'[p] \o queue'[p] = All(p)
      /\ All(p)[Len(got[p]) + 1] = queue[p][1] /\ Len(got[p]) < Len(All(p))
  <2>1. /\ Append(got[p], queue[p][1]) \o Tail(queue[p]) = got[p] \o queue[p]
        /\ Len(got[p]) < Len(got[p] \o queue[p])
        /\ (got[p] \o queue[p])[Len(got[p]) + 1] = queue[p][1]
    BY <1>1, <1>2, JoinMove, Zenon
  <2> QED
    BY <1>3, <2>1 DEF All
<1> QED
  BY <1>1, <1>5, <1>6, <1>7 DEF All

StreamInv == Inv /\ Numbered

LEMMA StreamInit == Init => StreamInv /\ S!Init
<1> SUFFICES ASSUME Init PROVE Numbered /\ S!Init
  BY InvInit DEF StreamInv
<1>1. \A p \in Programs : got[p] = <<>> /\ queue[p] = <<>> /\ pc[p] = "new"
  BY DEF Init
<1>2. Numbered
  BY <1>1 DEF Numbered
<1>3. \A p \in Programs : got[Peer(p)] \o queue[Peer(p)] = <<>>
  <2>1. \A p \in Programs : Peer(p) \in Programs
    BY DEF Peer, Programs
  <2>2. <<>> \o <<>> = <<>>
    OBVIOUS
  <2> QED
    BY <1>1, <2>1, <2>2
<1>4. S!Init
  BY <1>1, <1>3 DEF S!Init, S!Ends, Programs, Init
<1> QED
  BY <1>2, <1>4

LEMMA StreamStep ==
    StreamInv /\ [Next]_vars => StreamInv' /\ [S!Next]_S!vars
<1> SUFFICES ASSUME StreamInv, [Next]_vars PROVE Numbered' /\ [S!Next]_S!vars
  BY InvNext DEF StreamInv
<1> USE PingPongAssumption DEF PingPongAssumption, StreamInv
<1> DEFINE posted == [p \in Programs |-> got[Peer(p)] \o queue[Peer(p)]]
           shut == {p \in Programs : pc[p] = "closed"}
<1>0. /\ \A p \in Programs : Peer(p) \in Programs /\ Peer(Peer(p)) = p /\ Peer(p) # p
      /\ \A p \in Programs : posted[p] = All(Peer(p))
      /\ \A p \in Programs : posted'[p] = All(Peer(p))'
      /\ S!Ends = Programs
      /\ \A p \in Programs : S!Other(p) = Peer(p)
  <2>1. \A p \in Programs : Peer(p) \in Programs /\ Peer(Peer(p)) = p /\ Peer(p) # p
    BY DEF Programs, Peer
  <2>2. /\ \A p \in Programs : posted[p] = All(Peer(p))
        /\ \A p \in Programs : posted'[p] = got'[Peer(p)] \o queue'[Peer(p)]
        /\ \A p \in Programs : All(Peer(p))' = got'[Peer(p)] \o queue'[Peer(p)]
    BY Zenon DEF All
  <2>3. S!Ends = Programs /\ \A p \in Programs : S!Other(p) = Peer(p)
    BY DEF Programs, Peer, S!Ends, S!Other
  <2> QED
    BY <2>1, <2>2, <2>3, Zenon
<1>1. ASSUME UNCHANGED <<got, queue>>, UNCHANGED shut
      PROVE  Numbered' /\ UNCHANGED S!vars
  BY <1>1 DEF Numbered, S!vars
<1>2. ASSUME NEW p \in Programs, Committ(p)
      PROVE  Numbered' /\ S!Post(p)
  <2>1. /\ Numbered' /\ got' = got
        /\ All(Peer(p))' = Append(All(Peer(p)), Len(All(Peer(p))) + 1)
        /\ All(p)' = All(p)
    BY <1>2, CommittPosts DEF Committ
  <2>2. /\ All(Peer(p)) \in Seq(1 .. Rounds)
        /\ \A i \in 1 .. Len(All(Peer(p))) : All(Peer(p))[i] = i
    BY <1>0, AllNumbered DEF Inv
  <2>3. S!Extends(posted'[p], posted[p]) /\ S!Last(posted'[p]) > S!Last(posted[p])
    <3>1. PICK s \in Seq(1 .. Rounds) : s = All(Peer(p)) /\ \A i \in 1 .. Len(s) : s[i] = i
      BY <2>2
    <3>2. /\ Len(Append(s, Len(s) + 1)) = Len(s) + 1
          /\ SubSeq(Append(s, Len(s) + 1), 1, Len(s)) = s
          /\ Append(s, Len(s) + 1)[Len(s) + 1] = Len(s) + 1
          /\ Append(s, Len(s) + 1) # <<>>
      OBVIOUS
    <3>3. s # <<>> => s[Len(s)] = Len(s)
      BY <3>1
    <3>4. Len(s) \in Nat
      OBVIOUS
    <3>5. posted[p] = s /\ posted'[p] = Append(s, Len(s) + 1)
      BY <1>0, <2>1, <3>1
    <3> QED
      <4> HIDE DEF posted
      <4>1. S!Last(s) = Len(s) /\ S!Last(Append(s, Len(s) + 1)) = Len(s) + 1
        BY <3>2, <3>3, <3>4 DEF S!Last
      <4>2. S!Extends(Append(s, Len(s) + 1), s)
        BY <3>2 DEF S!Extends
      <4> QED
        BY <3>4, <3>5, <4>1, <4>2
  <2>4. posted' = [posted EXCEPT ![p] = posted'[p]]
    <3>1. \A q \in Programs : q # p => q = Peer(p) /\ posted'[q] = posted[q]
      <4>1. \A q \in Programs : q # p => q = Peer(p)
        BY DEF Programs, Peer
      <4> QED
        <5> HIDE DEF posted
        <5> QED
          BY <1>0, <2>1, <4>1
    <3> QED
      BY <3>1
  <2>5. p \notin shut /\ UNCHANGED shut
    <3>1. /\ pc[p] = "commit" /\ pc'[p] # "closed"
          /\ \A q \in Programs : q # p => pc'[q] = pc[q]
      BY <1>2, AfterSend DEF Committ, May, Inv
    <3> QED
      BY <3>1
  <2> QED
    BY <2>1, <2>3, <2>4, <2>5 DEF S!Post
<1>3. ASSUME NEW p \in Programs, Release(p)
      PROVE  Numbered' /\ S!Receive(p)
  <2>1. /\ Numbered' /\ \A r \in Programs : All(r)' = All(r)
        /\ Len(got[p]) < Len(All(p))
        /\ got' = [got EXCEPT ![p] = Append(@, All(p)[Len(@) + 1])]
    BY <1>3, ReleaseReceives
  <2>2. posted' = posted
    <3>1. \A q \in Programs : posted'[q] = posted[q]
      BY <1>0, <2>1, Zenon
    <3> QED
      BY <3>1
  <2>3. posted[S!Other(p)] = All(p)
    BY <1>0
  <2>4. p \notin shut /\ UNCHANGED shut
    <3>1. /\ pc[p] = "release" /\ pc'[p] # "closed"
          /\ \A q \in Programs : q # p => pc'[q] = pc[q]
      BY <1>3, AfterReceive DEF Release, May, Inv
    <3> QED
      BY <3>1
  <2> QED
    BY <2>1, <2>2, <2>3, <2>4 DEF S!Receive
<1>4. ASSUME NEW p \in Programs, close(p)
      PROVE  Numbered' /\ S!Shut(p)
  <2>1. UNCHANGED <<got, queue>> /\ pc[p] = "close" /\ pc' = [pc EXCEPT ![p] = "closed"]
    BY <1>4 DEF close, May, Goto, streamVars
  <2>2. p \notin shut /\ shut' = shut \cup {p}
    BY <2>1 DEF Inv, TypeOK
  <2>3. Numbered' /\ posted' = posted
    BY <2>1 DEF Numbered
  <2> QED
    BY <2>1, <2>2, <2>3 DEF S!Shut
<1>5. ASSUME NEW p \in Programs,
             SetUp(p) \/ Allocate(p) \/ recv_look(p) \/ recv_closed(p)
      PROVE  Numbered' /\ UNCHANGED S!vars
  <2>1. UNCHANGED <<got, queue>>
    BY <1>5 DEF SetUp, socket, bind, bind_upload, accept_initialise, accept_return, connect,
                connect_upload, connect_initialise, Crash, Allocate, recv_look, recv_closed,
                streamVars
  <2>2. \A q \in Programs : pc'[q] = "closed" <=> pc[q] = "closed"
    <3>1. CASE recv_closed(p)
      BY <3>1, AfterReceive DEF recv_closed, May, Goto, Inv, TypeOK
    <3>2. CASE SetUp(p) \/ Allocate(p) \/ recv_look(p)
      BY <3>2 DEF SetUp, socket, bind, bind_upload, accept_initialise, accept_return, connect,
                  connect_upload, connect_initialise, Crash, Allocate, recv_look, May, Goto,
                  Inv, TypeOK
    <3> QED
      BY <1>5, <3>1, <3>2
  <2> QED
    BY <1>1, <2>1, <2>2
<1>6. CASE UNCHANGED vars
  BY <1>1, <1>6 DEF vars, streamVars
<1> QED
  BY <1>0, <1>2, <1>3, <1>4, <1>5, <1>6 DEF Next, Run, SetUp, S!Next

\* For any number of rounds, the whole run of the two programs is a behaviour of
\* Stream: every recv returns what the peer sent, in order, each message once.
THEOREM OrderSafe == Spec => InOrder
<1> QED
  BY StreamInit, StreamStep, PTL DEF Spec, InOrder, S!Spec
=============================================================================
