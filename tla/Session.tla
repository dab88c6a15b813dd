------------------------------ MODULE Session ------------------------------
(***************************************************************************)
(* How a program reaches the engine: the rendezvous through the one public *)
(* segment scanfs, in which it is given a mailbox of its own, and then the *)
(* remote calls through that mailbox.                                      *)
(*                                                                         *)
(* A connector is a program in try_to_connect.  The hooked program         *)
(* (socket.c) and the stand-alone ones (client.c, server.c) wait for and   *)
(* clear different flags of the same segment.  The engine has one thread   *)
(* for the rendezvous and one handler thread for each mailbox.  Nothing    *)
(* but these flags orders them, so each load and store of a flag is a step *)
(* of its own; a block copy is one step.                                   *)
(*                                                                         *)
(* call_id is the same text in socket.c, client.c, server.c and plugin.c.  *)
(* What a call does in the engine is left to Sockets and Channel: here it  *)
(* is accepted or refused.                                                 *)
(***************************************************************************)
EXTENDS Integers, FiniteSets

CONSTANTS Connectors,
          Hooks,         \* the connectors that load socket.c
          Calls,         \* remote calls each connector makes
          Refused,       \* the calls the engine answers with an error
          Serialized     \* TRUE: one connector at a time in try_to_connect

ASSUME SessionAssumption ==
    /\ IsFiniteSet(Connectors) /\ Hooks \subseteq Connectors
    /\ Calls \in Nat \ {0} /\ Refused \subseteq 1 .. Calls
    /\ Serialized \in BOOLEAN

Boxes == 1 .. Cardinality(Connectors)      \* 0 is no mailbox
Numbers == 1 .. Calls
NoCall == -1

\* What the argument area of a mailbox holds.
Blank == <<"blank">>
Ask(c, k) == <<"ask", c, k>>
Stray == <<"stray">>               \* the answer to anything but a request
Asks == {Ask(c, k) : c \in Connectors, k \in Numbers}
Answer(word) == IF word \in Asks THEN <<"answer", word>> ELSE Stray
Words == {Blank, Stray} \cup Asks \cup {Answer(a) : a \in Asks}

VARIABLES
    sf,              \* the flags of scanfs that are up
    shmid,           \* the mailbox scanfs names
    epc,             \* step of the rendezvous thread
    boxes,           \* mailboxes the engine has made so far
    served,          \* the mailboxes with a handler thread
    pc,              \* step of the connector
    ncpc, g_shmid,   \* its mailbox as mapped, and as it will upload it
    call,            \* number of the call it makes
    ret, code,       \* the answer it copied, and what call_id returned
    box,             \* the mailboxes
    hpc, hargs       \* step of a handler, and the arguments it was called with

sfVars == <<sf, shmid>>
engineVars == <<epc, boxes, served>>
ownVars == <<ncpc, g_shmid>>
callVars == <<call, ret, code>>
handlerVars == <<hpc, hargs>>
vars == <<sfVars, engineVars, pc, ownVars, callVars, box, handlerVars>>

Goto(c, step) == pc' = [pc EXCEPT ![c] = step]
HGoto(b, step) == hpc' = [hpc EXCEPT ![b] = step]

\* Malloc_Zero and memset: a new mailbox is all zero.
NewBox == [call_id |-> 0, type |-> 0, args |-> Blank, exception |-> FALSE,
           handle |-> 0]

-----------------------------------------------------------------------------
(* try_to_connect *)

Connecting == {c \in Connectors : pc[c] \in
                   {"wait", "busy", "raise", "await", "attach", "id", "clear",
                    "clear_done", "clear_connector"}}

Start(c) ==
    /\ pc[c] = "new"
    /\ Serialized => Connecting = {}
    /\ Goto(c, "wait")
    /\ UNCHANGED <<sfVars, engineVars, ownVars, callVars, box, handlerVars>>

\* The hook waits for handling to be down.
hook_wait(c) ==
    /\ pc[c] = "wait" /\ c \in Hooks /\ "handling" \notin sf
    /\ Goto(c, "raise")
    /\ UNCHANGED <<sfVars, engineVars, ownVars, callVars, box, handlerVars>>

\* The others wait for has_connector and then busy to be down.
program_wait(c) ==
    /\ c \notin Hooks
    /\ \/ pc[c] = "wait" /\ "has_connector" \notin sf /\ Goto(c, "busy")
       \/ pc[c] = "busy" /\ "busy" \notin sf /\ Goto(c, "raise")
       \/ pc[c] = "busy" /\ "busy" \in sf /\ Goto(c, "wait")
    /\ UNCHANGED <<sfVars, engineVars, ownVars, callVars, box, handlerVars>>

raise_connector(c) ==
    /\ pc[c] = "raise"
    /\ sf' = sf \cup {"has_connector"}
    /\ Goto(c, "await")
    /\ UNCHANGED <<shmid, engineVars, ownVars, callVars, box, handlerVars>>

await_done(c) ==
    /\ pc[c] = "await" /\ "done" \in sf
    /\ Goto(c, "attach")
    /\ UNCHANGED <<sfVars, engineVars, ownVars, callVars, box, handlerVars>>

attach(c) ==
    /\ pc[c] = "attach"
    /\ ncpc' = [ncpc EXCEPT ![c] = shmid]
    /\ Goto(c, "id")
    /\ UNCHANGED <<sfVars, engineVars, g_shmid, callVars, box, handlerVars>>

remember_id(c) ==
    /\ pc[c] = "id"
    /\ g_shmid' = [g_shmid EXCEPT ![c] = shmid]
    /\ Goto(c, "clear")
    /\ UNCHANGED <<sfVars, engineVars, ncpc, callVars, box, handlerVars>>

\* The hook clears the whole segment, the mailbox it names included.
hook_clear(c) ==
    /\ pc[c] = "clear" /\ c \in Hooks
    /\ sf' = {} /\ shmid' = 0
    /\ Goto(c, "ready")
    /\ UNCHANGED <<engineVars, ownVars, callVars, box, handlerVars>>

\* mutant: done is left up for the next connector
ClearedButDone(step) == CASE step = "clear" -> "busy"
                          [] OTHER -> "has_connector"
\* The flag each of the three stores clears.
Cleared(step) == CASE step = "clear" -> "busy"
                   [] step = "clear_done" -> "done"
                   [] step = "clear_connector" -> "has_connector"

program_clear(c) ==
    /\ c \notin Hooks
    /\ \/ pc[c] = "clear" /\ Goto(c, "clear_done")
       \/ pc[c] = "clear_done" /\ Goto(c, "clear_connector")
       \/ pc[c] = "clear_connector" /\ Goto(c, "ready")
    /\ sf' = sf \ {Cleared(pc[c])}
    /\ UNCHANGED <<shmid, engineVars, ownVars, callVars, box, handlerVars>>

-----------------------------------------------------------------------------
(* wait_to_connect_target: the engine's side of the rendezvous *)

EngineStep(step, next) == epc = step /\ epc' = next

see_connector ==
    /\ EngineStep("scan", "take")
    /\ "has_connector" \in sf
    /\ UNCHANGED <<sfVars, boxes, served, pc, ownVars, callVars, box, handlerVars>>

take_connector ==
    /\ \/ EngineStep("take", "handling") /\ sf' = sf \ {"has_connector"}
       \/ EngineStep("handling", "busy") /\ sf' = sf \cup {"handling"}
       \/ EngineStep("busy", "make") /\ sf' = sf \cup {"busy"}
    /\ UNCHANGED <<shmid, boxes, served, pc, ownVars, callVars, box, handlerVars>>

\* CreateShareMemory, and the list cross_com.
make_mailbox ==
    /\ EngineStep("make", "name")
    /\ boxes' = boxes + 1
    /\ box' = [box EXCEPT ![boxes + 1] = NewBox]
    /\ UNCHANGED <<sfVars, served, pc, ownVars, callVars, handlerVars>>

name_mailbox ==
    /\ EngineStep("name", "thread")
    /\ shmid' = boxes
    /\ UNCHANGED <<sf, boxes, served, pc, ownVars, callVars, box, handlerVars>>

start_handler ==
    /\ EngineStep("thread", "done")
    /\ served' = served \cup {boxes}
    /\ UNCHANGED <<sfVars, boxes, pc, ownVars, callVars, box, handlerVars>>

\* mutant: handling is left up
LowerNothing == sf
LowerHandling == sf \ {"handling"}

tell_connector ==
    /\ \/ EngineStep("done", "lower_busy") /\ sf' = sf \cup {"done"}
       \/ EngineStep("lower_busy", "lower_handling") /\ sf' = sf \ {"busy"}
       \/ EngineStep("lower_handling", "scan") /\ sf' = LowerHandling
    /\ UNCHANGED <<shmid, boxes, served, pc, ownVars, callVars, box, handlerVars>>

-----------------------------------------------------------------------------
(* call_id: the program's side of a call *)

Mine(c) == box[ncpc[c]]
Put(c, field, value) ==
    box' = [box EXCEPT ![ncpc[c]] = [@ EXCEPT ![field] = value]]
CallStep(c, step, next) ==
    /\ pc[c] = step
    /\ Goto(c, next)
    /\ UNCHANGED <<sfVars, engineVars, ownVars, handlerVars>>

call_begin(c) ==
    /\ CallStep(c, "ready", "type")
    /\ ncpc[c] # 0
    /\ call' = [call EXCEPT ![c] = @ + 1]
    /\ Put(c, "call_id", call'[c])
    /\ UNCHANGED <<ret, code>>

\* type goes up first, then come the arguments, and handle goes down last.
call_post(c) ==
    /\ \/ CallStep(c, "type", "args") /\ Put(c, "type", 2)
       \/ CallStep(c, "args", "exception") /\ Put(c, "args", Ask(c, call[c]))
       \/ CallStep(c, "exception", "handle") /\ Put(c, "exception", FALSE)
       \/ CallStep(c, "handle", "called") /\ Put(c, "handle", 0)
    /\ UNCHANGED callVars

\* mutant: an answer that reports an error does not end the wait
AnsweredWell(c) == Mine(c).handle = 1 /\ Mine(c).type = 1 /\ ~Mine(c).exception
Answered(c) == Mine(c).handle = 1 /\ Mine(c).type = 1

call_answered(c) ==
    /\ CallStep(c, "called", "copied")
    /\ Answered(c)
    /\ ret' = [ret EXCEPT ![c] = Mine(c).args]
    /\ UNCHANGED <<call, code, box>>

call_done(c) ==
    /\ CallStep(c, "copied", "finish")
    /\ Put(c, "call_id", NoCall)
    /\ UNCHANGED callVars

ReturnCode(c) == IF Mine(c).exception THEN -1 ELSE 0

call_return(c) ==
    /\ CallStep(c, "finish", "returned")
    /\ code' = [code EXCEPT ![c] = ReturnCode(c)]
    /\ UNCHANGED <<call, ret, box>>

\* The program goes on with its next call; Calls bounds how many.
next_call(c) ==
    /\ call[c] < Calls
    /\ CallStep(c, "returned", "ready")
    /\ UNCHANGED <<callVars, box>>

-----------------------------------------------------------------------------
(* handler: the engine's side of a call *)

\* A request is pending while it is the program's, and not yet handled.
Pending(b) == box[b].type = 2 /\ box[b].handle = 0

Store(b, field, value) == box' = [box EXCEPT ![b] = [@ EXCEPT ![field] = value]]
HandlerStep(b, step, next) ==
    /\ hpc[b] = step
    /\ HGoto(b, next)
    /\ UNCHANGED <<sfVars, engineVars, pc, ownVars, callVars>>

\* The call itself, on the arguments that are there now.
serve(b) ==
    /\ b \in served
    /\ Pending(b) /\ box[b].call_id \in Numbers
    /\ HandlerStep(b, "idle", "error")
    /\ hargs' = [hargs EXCEPT ![b] = box[b].args]
    /\ UNCHANGED box

\* mutant: the mailbox is handed back before the answer is in it
ReplyHandleFirst(b) ==
    \/ HandlerStep(b, "type", "answer") /\ Store(b, "type", 1)
    \/ HandlerStep(b, "answer", "wipe") /\ Store(b, "handle", 1)
    \/ HandlerStep(b, "wipe", "handle") /\ Store(b, "args", Blank)
    \/ HandlerStep(b, "handle", "idle") /\ Store(b, "args", Answer(hargs[b]))
Reply(b) ==
    \/ HandlerStep(b, "type", "wipe") /\ Store(b, "type", 1)
    \/ HandlerStep(b, "wipe", "answer") /\ Store(b, "args", Blank)
    \/ HandlerStep(b, "answer", "handle") /\ Store(b, "args", Answer(hargs[b]))
    \/ HandlerStep(b, "handle", "idle") /\ Store(b, "handle", 1)

handler(b) ==
    \/ serve(b)
    \/ /\ HandlerStep(b, "error", "type")
       /\ Store(b, "exception", box[b].call_id \in Refused)
       /\ UNCHANGED hargs
    \/ Reply(b) /\ UNCHANGED hargs

-----------------------------------------------------------------------------
Init ==
    /\ sf = {} /\ shmid = 0
    /\ epc = "scan" /\ boxes = 0 /\ served = {}
    /\ pc = [c \in Connectors |-> "new"]
    /\ ncpc = [c \in Connectors |-> 0] /\ g_shmid = [c \in Connectors |-> 0]
    /\ call = [c \in Connectors |-> 0]
    /\ ret = [c \in Connectors |-> Blank] /\ code = [c \in Connectors |-> 0]
    /\ box = [b \in Boxes |-> NewBox]
    /\ hpc = [b \in Boxes |-> "idle"] /\ hargs = [b \in Boxes |-> Blank]

Connect(c) ==
    \/ Start(c) \/ hook_wait(c) \/ program_wait(c) \/ raise_connector(c)
    \/ await_done(c) \/ attach(c) \/ remember_id(c) \/ hook_clear(c)
    \/ program_clear(c)
Engine ==
    \/ see_connector \/ take_connector \/ make_mailbox \/ name_mailbox
    \/ start_handler \/ tell_connector
CallOf(c) ==
    \/ call_begin(c) \/ call_post(c) \/ call_answered(c) \/ call_done(c)
    \/ call_return(c) \/ next_call(c)

Next ==
    \/ Engine
    \/ \E c \in Connectors : Connect(c) \/ CallOf(c)
    \/ \E b \in Boxes : handler(b)

\* Every program and every thread of the engine keeps running.
Fairness ==
    /\ WF_vars(Engine)
    /\ \A c \in Connectors : WF_vars(Connect(c)) /\ WF_vars(CallOf(c))
    /\ \A b \in Boxes : WF_vars(handler(b))

Spec == Init /\ [][Next]_vars /\ Fairness

-----------------------------------------------------------------------------
(* Properties *)

Boxed == [call_id : Numbers \cup {0, NoCall}, type : 0 .. 2, args : Words,
          exception : BOOLEAN, handle : {0, 1}]

\* The types of the two segments and of the threads that share them: in particular
\* there are never more mailboxes than programs.
TypeOK ==
    /\ sf \subseteq {"has_connector", "handling", "busy", "done"}
    /\ shmid \in Boxes \cup {0} /\ boxes \in Boxes \cup {0} /\ served \subseteq Boxes
    /\ ncpc \in [Connectors -> Boxes \cup {0}]
    /\ g_shmid \in [Connectors -> Boxes \cup {0}]
    /\ call \in [Connectors -> Numbers \cup {0}]
    /\ ret \in [Connectors -> Words] /\ code \in [Connectors -> {0, -1}]
    /\ box \in [Boxes -> Boxed]
    /\ hargs \in [Boxes -> Words]

Connected(c) == pc[c] \notin {"new", "wait", "busy", "raise", "await", "attach"}

\* Once try_to_connect has mapped a mailbox, it is one that has a
\* handler, no other program has the same, and the id it will upload for its
\* peer (the second read of sf->shmid) is the one it mapped.
OwnMailbox ==
    \A c \in Connectors : Connected(c) =>
        /\ ncpc[c] \in served
        /\ pc[c] # "id" => g_shmid[c] = ncpc[c]
        /\ \A d \in Connectors \ {c} : ncpc[d] # ncpc[c]

\* call_id after the first of a mailbox: what it copies out is the engine's
\* answer to the arguments of this call, and it returns -1 exactly when the
\* engine refused the call.
LaterCallsRight ==
    \A c \in Connectors : pc[c] = "returned" /\ call[c] > 1 =>
        /\ ret[c] = Answer(Ask(c, call[c]))
        /\ code[c] = -1 <=> call[c] \in Refused

\* A program that starts gets through the rendezvous, whichever of the two
\* kinds of clean-up the program before it has made.
ConnectorServed == \A c \in Connectors : pc[c] = "new" ~> Connected(c)

\* The spin loop of call_id ends for every call after the first.
LaterCallsReturn ==
    \A c \in Connectors : \A k \in 2 .. Calls :
        (call[c] = k /\ pc[c] = "called") ~> (call[c] = k /\ pc[c] = "returned")
=============================================================================
