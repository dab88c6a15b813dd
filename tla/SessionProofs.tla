--------------------------- MODULE SessionProofs ---------------------------
(***************************************************************************)
(* The rendezvous and the remote calls, for any number of programs of      *)
(* either kind and any number of calls: theorems of module Session.        *)
(*                                                                         *)
(* Types hold of every interleaving.  With one connector at a time, the    *)
(* flags of scanfs take the rendezvous through four phases (PhaseInv),     *)
(* which give every program a mailbox of its own; and then only one        *)
(* program and one handler touch a mailbox, so that a call can be followed *)
(* store by store (CallInv).                                               *)
(***************************************************************************)
EXTENDS Session, FiniteSetTheorems, TLAPS

Steps == {"new", "wait", "busy", "raise", "await", "attach", "id", "clear",
          "clear_done", "clear_connector", "ready", "type", "args", "exception",
          "handle", "called", "copied", "finish", "returned"}
EngineSteps == {"scan", "take", "handling", "busy", "make", "name", "thread", "done",
                "lower_busy", "lower_handling"}
HandlerSteps == {"idle", "error", "type", "wipe", "answer", "handle"}

\* The programs that have raised has_connector, and the requests for a mailbox that
\* are still to be answered.
Raised == {c \in Connectors : pc[c] \notin {"new", "wait", "busy", "raise"}}
Seen == IF "has_connector" \in sf \/ epc = "take" THEN 1 ELSE 0
Taken == IF epc \in {"handling", "busy", "make"} THEN 1 ELSE 0

Calling == {"type", "args", "exception", "handle", "called", "copied", "finish", "returned"}

TypeInv ==
    /\ TypeOK
    /\ pc \in [Connectors -> Steps] /\ epc \in EngineSteps
    /\ hpc \in [Boxes -> HandlerSteps]
    /\ boxes + Seen + Taken <= Cardinality(Raised)
    /\ epc \in {"name", "thread", "done"} => boxes # 0
    /\ \A c \in Connectors :
           /\ pc[c] \in Calling => ncpc[c] # 0 /\ call[c] # 0
           /\ pc[c] = "ready" => call[c] < Calls
           /\ pc[c] \notin Calling \cup {"ready"} => call[c] = 0

-----------------------------------------------------------------------------
(* Types *)

LEMMA BoxNumbers ==
    /\ Cardinality(Connectors) \in Nat
    /\ \A S \in SUBSET Connectors : IsFiniteSet(S) /\ Cardinality(S) <= Cardinality(Connectors)
                                    /\ Cardinality(S) \in Nat
<1>1. IsFiniteSet(Connectors)
  BY SessionAssumption DEF SessionAssumption
<1> QED
  BY <1>1, FS_CardinalityType, FS_Subset

LEMMA WordsTyped ==
    /\ Blank \in Words
    /\ \A c \in Connectors, k \in Numbers : Ask(c, k) \in Words
    /\ \A w \in Words : Answer(w) \in Words
<1>1. Blank \in Words /\ Stray \in Words /\ Asks \subseteq Words
  BY DEF Words
<1>2. \A c \in Connectors, k \in Numbers : Ask(c, k) \in Asks
  BY DEF Asks
<1>3. ASSUME NEW w \in Words PROVE Answer(w) \in Words
  <2>1. CASE w \in Asks
    BY <2>1, Zenon DEF Words
  <2>2. CASE w \notin Asks
    BY <1>1, <2>2 DEF Answer
  <2> QED
    BY <2>1, <2>2
<1> QED
  BY <1>1, <1>2, <1>3

LEMMA NewBoxTyped == NewBox \in Boxed
  BY WordsTyped DEF NewBox, Boxed

\* A store to one field of a mailbox keeps it typed.
LEMMA StoreTyped ==
    ASSUME box \in [Boxes -> Boxed], NEW b \in Boxes
    PROVE  /\ \A v \in Numbers \cup {0, NoCall} :
                  Store(b, "call_id", v) => box' \in [Boxes -> Boxed]
           /\ \A v \in 0 .. 2 : Store(b, "type", v) => box' \in [Boxes -> Boxed]
           /\ \A v \in Words : Store(b, "args", v) => box' \in [Boxes -> Boxed]
           /\ \A v \in BOOLEAN : Store(b, "exception", v) => box' \in [Boxes -> Boxed]
           /\ \A v \in {0, 1} : Store(b, "handle", v) => box' \in [Boxes -> Boxed]
<1>0. box[b] \in Boxed
  OBVIOUS
<1>1. ASSUME NEW field, NEW value, [box[b] EXCEPT ![field] = value] \in Boxed,
             Store(b, field, value)
      PROVE  box' \in [Boxes -> Boxed]
  BY <1>1 DEF Store
<1>2. \A v \in Numbers \cup {0, NoCall} : [box[b] EXCEPT !["call_id"] = v] \in Boxed
  BY <1>0 DEF Boxed
<1>3. \A v \in 0 .. 2 : [box[b] EXCEPT !["type"] = v] \in Boxed
  BY <1>0 DEF Boxed
<1>4. \A v \in Words : [box[b] EXCEPT !["args"] = v] \in Boxed
  BY <1>0 DEF Boxed
<1>5. \A v \in BOOLEAN : [box[b] EXCEPT !["exception"] = v] \in Boxed
  BY <1>0 DEF Boxed
<1>6. \A v \in {0, 1} : [box[b] EXCEPT !["handle"] = v] \in Boxed
  BY <1>0 DEF Boxed
<1> QED
  BY <1>1, <1>2, <1>3, <1>4, <1>5, <1>6

LEMMA PutIsStore ==
    ASSUME NEW c, NEW field, NEW value
    PROVE  Put(c, field, value) <=> Store(ncpc[c], field, value)
  BY DEF Put, Store

LEMMA TypeInit == Init => TypeInv
<1> SUFFICES ASSUME Init PROVE TypeInv
  OBVIOUS
<1>1. Calls \in Nat /\ Calls > 0
  BY SessionAssumption DEF SessionAssumption
<1>2. TypeOK
  BY WordsTyped, NewBoxTyped DEF Init, TypeOK
<1>3. /\ pc \in [Connectors -> Steps] /\ epc \in EngineSteps
      /\ hpc \in [Boxes -> HandlerSteps]
  BY DEF Init, Steps, EngineSteps, HandlerSteps
<1>4. boxes + Seen + Taken <= Cardinality(Raised)
  <2>1. Cardinality(Raised) \in Nat
    BY BoxNumbers DEF Raised
  <2> QED
    BY <2>1 DEF Init, Seen, Taken
<1>5. /\ epc \in {"name", "thread", "done"} => boxes # 0
      /\ \A c \in Connectors :
             /\ pc[c] \in Calling => ncpc[c] # 0 /\ call[c] # 0
             /\ pc[c] = "ready" => call[c] < Calls
             /\ pc[c] \notin Calling \cup {"ready"} => call[c] = 0
  BY DEF Init, Calling
<1> QED
  BY <1>2, <1>3, <1>4, <1>5 DEF TypeInv

\* The engine makes no more mailboxes than programs have asked for one.
LEMMA TypeEngine == TypeInv /\ Engine => TypeInv'
<1> SUFFICES ASSUME TypeInv, Engine PROVE TypeInv'
  OBVIOUS
<1> USE DEF TypeInv
<1>1. UNCHANGED <<pc, ownVars, callVars, handlerVars>>
  BY DEF Engine, see_connector, take_connector, make_mailbox, name_mailbox, start_handler,
         tell_connector
<1>2. Raised' = Raised
  BY <1>1 DEF Raised
<1>3. /\ Cardinality(Raised) \in Nat /\ Cardinality(Connectors) \in Nat
      /\ Cardinality(Raised) <= Cardinality(Connectors)
  BY BoxNumbers DEF Raised
<1>4. /\ sf' \subseteq {"has_connector", "handling", "busy", "done"}
      /\ epc' \in EngineSteps
  BY DEF Engine, see_connector, take_connector, make_mailbox, name_mailbox, start_handler,
         tell_connector, LowerHandling, EngineStep, EngineSteps, TypeOK, sfVars
<1>5. /\ boxes' \in Nat /\ boxes' + Seen' + Taken' <= Cardinality(Raised)
      /\ epc' \in {"name", "thread", "done"} => boxes' # 0
  <2>1. boxes \in Nat
    BY <1>3 DEF TypeOK, Boxes
  <2>2. CASE make_mailbox
    <3>1. boxes' = boxes + 1 /\ sf' = sf /\ epc = "make" /\ epc' = "name"
      BY <2>2 DEF make_mailbox, EngineStep, sfVars
    <3> QED
      BY <1>3, <2>1, <3>1 DEF Seen, Taken
  <2>3. CASE see_connector
    BY <1>3, <2>1, <2>3 DEF see_connector, EngineStep, sfVars, Seen, Taken
  <2>4. CASE take_connector
    BY <1>3, <2>1, <2>4 DEF take_connector, EngineStep, sfVars, Seen, Taken
  <2>5. CASE name_mailbox \/ start_handler
    BY <1>3, <2>1, <2>5 DEF name_mailbox, start_handler, EngineStep, sfVars, Seen, Taken
  <2>6. CASE tell_connector
    BY <1>3, <2>1, <2>6 DEF tell_connector, LowerHandling, EngineStep, sfVars, Seen, Taken
  <2> QED
    BY <2>2, <2>3, <2>4, <2>5, <2>6 DEF Engine
<1>6. boxes' \in Boxes \cup {0}
  <2>1. Seen' \in Nat /\ Taken' \in Nat
    BY DEF Seen, Taken
  <2> QED
    BY <1>3, <1>5, <2>1 DEF Boxes
<1>7. shmid' \in Boxes \cup {0} /\ served' \subseteq Boxes
  <2>1. epc = "thread" => boxes \in Boxes
    BY DEF TypeOK
  <2> QED
    BY <2>1 DEF Engine, see_connector, take_connector, make_mailbox, name_mailbox, start_handler,
           tell_connector, EngineStep, TypeOK, sfVars
<1>8. box' \in [Boxes -> Boxed]
  <2>1. CASE make_mailbox
    BY <2>1, NewBoxTyped DEF make_mailbox, TypeOK
  <2> QED
    BY <2>1 DEF Engine, see_connector, take_connector, name_mailbox, start_handler,
                tell_connector, TypeOK
<1> QED
  BY <1>1, <1>2, <1>4, <1>5, <1>6, <1>7, <1>8 DEF TypeOK, ownVars, callVars, handlerVars

\* A program asks for one mailbox.
LEMMA TypeConnect == ASSUME TypeInv, NEW c \in Connectors, Connect(c) PROVE TypeInv'
<1> USE DEF TypeInv
<1>1. UNCHANGED <<engineVars, callVars, box, handlerVars>>
  BY DEF Connect, Start, hook_wait, program_wait, raise_connector, await_done, attach,
         remember_id, hook_clear, program_clear
<1>2. PICK step \in Steps \ Calling : Goto(c, step)
  BY DEF Connect, Start, hook_wait, program_wait, raise_connector, await_done, attach,
         remember_id, hook_clear, program_clear, Steps, Calling
<1>3. pc[c] \in Steps \ (Calling \cup {"ready"})
  BY DEF Connect, Start, hook_wait, program_wait, raise_connector, await_done, attach,
         remember_id, hook_clear, program_clear, Steps, Calling
<1>4. /\ pc' \in [Connectors -> Steps] /\ pc'[c] = step
      /\ \A d \in Connectors : d # c => pc'[d] = pc[d]
  BY <1>2 DEF Goto
<1>5. /\ sf' \subseteq {"has_connector", "handling", "busy", "done"}
      /\ shmid' \in Boxes \cup {0}
      /\ ncpc' \in [Connectors -> Boxes \cup {0}]
      /\ g_shmid' \in [Connectors -> Boxes \cup {0}]
      /\ \A d \in Connectors : d # c => ncpc'[d] = ncpc[d]
  BY SMTT(40), ZenonT(40) DEF Connect, Start, hook_wait, program_wait, raise_connector, await_done, attach,
         remember_id, hook_clear, program_clear, TypeOK, sfVars, ownVars
<1>6. TypeOK'
  BY <1>1, <1>5 DEF TypeOK, engineVars, callVars, handlerVars
<1>7. boxes' + Seen' + Taken' <= Cardinality(Raised')
  <2>1. /\ boxes \in Nat /\ Seen \in 0 .. 1 /\ Taken \in 0 .. 1 /\ boxes' = boxes /\ epc' = epc
        /\ Taken' = Taken /\ Seen' \in 0 .. 1
    <3>1. boxes \in Nat
      BY BoxNumbers DEF TypeOK, Boxes
    <3> QED
      BY <1>1, <3>1 DEF Seen, Taken, engineVars
  <2>2. Raised \in SUBSET Connectors /\ Raised' \in SUBSET Connectors
    BY DEF Raised
  <2>3. CASE raise_connector(c)
    <3>1. c \notin Raised /\ Raised' = Raised \cup {c}
      BY <1>4, <2>3 DEF Raised, raise_connector, Goto
    <3>2. Cardinality(Raised') = Cardinality(Raised) + 1
      BY <2>2, <3>1, BoxNumbers, FS_AddElement
    <3> QED
      BY <2>1, <2>2, <3>2, BoxNumbers DEF Seen
  <2>4. CASE ~raise_connector(c)
    <3>1. Seen' <= Seen
      BY <1>1, <2>4
      DEF Connect, Start, hook_wait, program_wait, await_done, attach, remember_id, hook_clear,
          program_clear, Cleared, Seen, engineVars, sfVars
    <3>2. Raised' = Raised
      BY <1>4, <2>4
      DEF Connect, Start, hook_wait, program_wait, await_done, attach, remember_id, hook_clear,
          program_clear, Raised, Goto
    <3> QED
      BY <2>1, <2>2, <3>1, <3>2, BoxNumbers
  <2> QED
    BY <2>3, <2>4
<1>8. \A d \in Connectors :
          /\ pc'[d] \in Calling => ncpc'[d] # 0 /\ call'[d] # 0
          /\ pc'[d] = "ready" => call'[d] < Calls
          /\ pc'[d] \notin Calling \cup {"ready"} => call'[d] = 0
  <2>1. call[c] = 0 /\ Calls \in Nat /\ Calls > 0
    BY <1>3, SessionAssumption DEF SessionAssumption
  <2> QED
    BY <1>1, <1>4, <1>5, <2>1 DEF callVars
<1> QED
  BY <1>1, <1>4, <1>6, <1>7, <1>8 DEF engineVars, handlerVars

\* A store of call_id goes to the program's own mailbox.
LEMMA TypeCall == ASSUME TypeInv, NEW c \in Connectors, CallOf(c) PROVE TypeInv'
<1> USE DEF TypeInv
<1>1. UNCHANGED <<sfVars, engineVars, ownVars, handlerVars>>
  BY DEF CallOf, call_begin, call_post, call_answered, call_done, call_return, next_call, CallStep
<1>2. /\ pc[c] \in Calling \cup {"ready"}
      /\ pc' \in [Connectors -> Steps] /\ pc'[c] \in Calling \cup {"ready"}
      /\ \A d \in Connectors : d # c => pc'[d] = pc[d]
  BY DEF CallOf, call_begin, call_post, call_answered, call_done, call_return, next_call,
         CallStep, Goto, Calling, Steps
<1>3. ncpc[c] \in Boxes
  BY <1>2 DEF CallOf, call_begin, call_post, call_answered, call_done, call_return, next_call,
              CallStep, TypeOK, Calling
<1>4. Calls \in Nat /\ call[c] \in 0 .. Calls
  BY SessionAssumption DEF SessionAssumption, TypeOK, Numbers
<1>5. /\ call' \in [Connectors -> Numbers \cup {0}]
      /\ \A d \in Connectors : d # c => call'[d] = call[d]
      /\ pc'[c] = "ready" => call'[c] < Calls
      /\ call'[c] # 0
  <2>1. CASE call_begin(c)
    <3>1. call[c] + 1 \in Numbers /\ call[c] + 1 # 0 /\ call' = [call EXCEPT ![c] = @ + 1] /\ pc'[c] = "type"
      BY <1>4, <2>1 DEF call_begin, CallStep, Goto, Numbers
    <3> QED
      BY <3>1 DEF TypeOK
  <2>2. CASE ~call_begin(c)
    <3>1. call' = call
      BY <2>2 DEF CallOf, call_post, call_answered, call_done, call_return, next_call, callVars
    <3>2. (pc'[c] = "ready" => call[c] < Calls) /\ pc[c] \in Calling
      BY <2>2 DEF CallOf, call_post, call_answered, call_done, call_return, next_call, CallStep,
                  Goto, Calling
    <3> QED
      BY <3>1, <3>2 DEF TypeOK
  <2> QED
    BY <2>1, <2>2
<1>6. box' \in [Boxes -> Boxed]
  <2>0. box \in [Boxes -> Boxed]
    BY DEF TypeOK
  <2>1. CASE call_begin(c)
    <3>1. Store(ncpc[c], "call_id", call'[c]) /\ call'[c] \in Numbers
      BY <1>4, <2>1, PutIsStore DEF call_begin, CallStep, Goto, Numbers, TypeOK
    <3> QED
      BY <1>3, <2>0, <3>1, StoreTyped
  <2>2. CASE call_post(c)
    <3>1. \/ Store(ncpc[c], "type", 2) \/ Store(ncpc[c], "args", Ask(c, call[c]))
          \/ Store(ncpc[c], "exception", FALSE) \/ Store(ncpc[c], "handle", 0)
      BY <2>2, PutIsStore DEF call_post
    <3>2. Store(ncpc[c], "args", Ask(c, call[c])) => Ask(c, call[c]) \in Words
      <4>1. call[c] \in Numbers
        BY <2>2 DEF call_post, CallStep, Calling, TypeOK
      <4> QED
        BY <4>1, WordsTyped
    <3>3. CASE Store(ncpc[c], "type", 2)
      <4>1. 2 \in 0 .. 2
        OBVIOUS
      <4> QED
        BY <1>3, <2>0, <3>3, <4>1, StoreTyped, Zenon
    <3>4. CASE Store(ncpc[c], "args", Ask(c, call[c]))
      BY <1>3, <2>0, <3>2, <3>4, StoreTyped, Zenon
    <3>5. CASE Store(ncpc[c], "exception", FALSE)
      BY <1>3, <2>0, <3>5, StoreTyped, Zenon
    <3>6. CASE Store(ncpc[c], "handle", 0)
      <4>1. 0 \in {0, 1}
        OBVIOUS
      <4> QED
        BY <1>3, <2>0, <3>6, <4>1, StoreTyped, Zenon
    <3> QED
      BY <3>1, <3>3, <3>4, <3>5, <3>6
  <2>3. CASE call_done(c)
    <3>1. Store(ncpc[c], "call_id", NoCall)
      BY <2>3, PutIsStore DEF call_done
    <3> QED
      BY <1>3, <2>0, <3>1, StoreTyped
  <2>4. CASE call_answered(c) \/ call_return(c) \/ next_call(c)
    BY <2>0, <2>4 DEF call_answered, call_return, next_call
  <2> QED
    BY <2>1, <2>2, <2>3, <2>4 DEF CallOf
<1>7. ret' \in [Connectors -> Words] /\ code' \in [Connectors -> {0, -1}]
  <2>1. Mine(c).args \in Words
    BY <1>3 DEF Mine, TypeOK, Boxed
  <2> QED
    BY <2>1 DEF CallOf, call_begin, call_post, call_answered, call_done, call_return, next_call,
                ReturnCode, TypeOK, callVars
<1>8. Raised' = Raised
  BY <1>2 DEF Raised, Calling
<1>9. \A d \in Connectors :
          /\ pc'[d] \in Calling => ncpc'[d] # 0 /\ call'[d] # 0
          /\ pc'[d] = "ready" => call'[d] < Calls
          /\ pc'[d] \notin Calling \cup {"ready"} => call'[d] = 0
  BY <1>1, <1>2, <1>3, <1>5, BoxNumbers DEF ownVars, Boxes
<1> QED
  BY <1>1, <1>2, <1>5, <1>6, <1>7, <1>8, <1>9
  DEF TypeOK, Seen, Taken, sfVars, engineVars, ownVars, handlerVars

\* A handler answers in its own mailbox.
LEMMA TypeHandler == ASSUME TypeInv, NEW b \in Boxes, handler(b) PROVE TypeInv'
<1> USE DEF TypeInv
<1>1. UNCHANGED <<sfVars, engineVars, pc, ownVars, callVars>>
  BY DEF handler, serve, Reply, HandlerStep
<1>2. hpc' \in [Boxes -> HandlerSteps]
  BY DEF handler, serve, Reply, HandlerStep, HGoto, HandlerSteps
<1>3. hargs' \in [Boxes -> Words]
  <2>1. box[b].args \in Words
    BY DEF TypeOK, Boxed
  <2> QED
    BY <2>1 DEF handler, serve, TypeOK
<1>4. box' \in [Boxes -> Boxed]
  <2>0. box \in [Boxes -> Boxed] /\ hargs[b] \in Words
    BY DEF TypeOK
  <2>1. CASE box' = box
    BY <2>0, <2>1
  <2>2. CASE box' # box
    <3>1. \/ Store(b, "exception", box[b].call_id \in Refused)
          \/ Store(b, "type", 1) \/ Store(b, "args", Blank)
          \/ Store(b, "args", Answer(hargs[b])) \/ Store(b, "handle", 1)
      BY <2>2 DEF handler, serve, Reply
    <3>2. (box[b].call_id \in Refused) \in BOOLEAN
      OBVIOUS
    <3>3. 1 \in 0 .. 2 /\ 1 \in {0, 1} /\ Blank \in Words /\ Answer(hargs[b]) \in Words
      BY <2>0, WordsTyped
    <3>4. CASE Store(b, "exception", box[b].call_id \in Refused)
      BY <2>0, <3>2, <3>4, StoreTyped, Zenon
    <3>5. CASE Store(b, "type", 1)
      BY <2>0, <3>3, <3>5, StoreTyped, Zenon
    <3>6. CASE Store(b, "args", Blank) \/ Store(b, "args", Answer(hargs[b]))
      BY <2>0, <3>3, <3>6, StoreTyped, Zenon
    <3>7. CASE Store(b, "handle", 1)
      BY <2>0, <3>3, <3>7, StoreTyped, Zenon
    <3> QED
      BY <3>1, <3>4, <3>5, <3>6, <3>7
  <2> QED
    BY <2>1, <2>2
<1> QED
  BY <1>1, <1>2, <1>3, <1>4
  DEF TypeOK, Raised, Seen, Taken, sfVars, engineVars, ownVars, callVars

LEMMA TypeNext == TypeInv /\ [Next]_vars => TypeInv'
<1>1. TypeInv /\ UNCHANGED vars => TypeInv'
  BY DEF TypeInv, TypeOK, Raised, Seen, Taken, vars, sfVars, engineVars, ownVars, callVars,
         handlerVars
<1> QED
  BY <1>1, TypeEngine, TypeConnect, TypeCall, TypeHandler DEF Next

\* The types, for any number of connectors in try_to_connect at once: there are
\* never more mailboxes than programs, and no call is made through shmid 0.
THEOREM SessionTyped == Spec => []TypeOK
<1>1. TypeInv => TypeOK
  BY DEF TypeInv
<1> QED
  BY <1>1, TypeInit, TypeNext, PTL DEF Spec
-----------------------------------------------------------------------------
(* The rendezvous, one connector at a time *)

ConnectingSteps == {"wait", "busy", "raise", "await", "attach", "id", "clear",
                    "clear_done", "clear_connector"}
\* A connector that has raised has_connector and has not lowered done yet.
At == {"await", "attach", "id", "clear", "clear_done"}
Mapped == {"id", "clear", "clear_done"}
\* The rendezvous thread has nothing left to tell.
Quiet == {"scan", "lower_busy", "lower_handling"}
Up(flag) == flag \in sf

NobodyAsks ==
    /\ \A c \in Connectors : pc[c] \notin At
    /\ ~Up("has_connector") /\ ~Up("done") /\ epc \in Quiet
Asked ==
    /\ \E c \in Connectors : pc[c] = "await"
    /\ Up("has_connector") /\ ~Up("done") /\ epc \in Quiet \cup {"take"}
Served ==
    /\ \E c \in Connectors : pc[c] = "await"
    /\ ~Up("has_connector") /\ ~Up("done")
    /\ epc \in {"handling", "busy", "make", "name", "thread", "done"}
    /\ epc \in {"name", "thread", "done"} => \A c \in Connectors : ncpc[c] # boxes
    /\ epc \in {"thread", "done"} => shmid = boxes
    /\ epc = "done" => boxes \in served
Told ==
    /\ \E c \in Connectors : pc[c] \in At
    /\ ~Up("has_connector") /\ Up("done") /\ epc \in Quiet
    /\ shmid = boxes /\ boxes \in served
    /\ \A c \in Connectors : ncpc[c] = boxes <=> pc[c] \in Mapped
    /\ \A c \in Connectors : pc[c] \in {"clear", "clear_done"} => g_shmid[c] = boxes

Alone == \A c, d \in Connectors :
             pc[c] \in ConnectingSteps /\ pc[d] \in ConnectingSteps => c = d

\* Mailboxes are handed out once, and in the order of their ids.
Numbered ==
    \A c \in Connectors :
        /\ ncpc[c] <= boxes
        /\ Connected(c) <=> ncpc[c] # 0
        /\ Connected(c) => ncpc[c] \in served
        /\ Connected(c) /\ pc[c] # "id" => g_shmid[c] = ncpc[c]
        /\ \A d \in Connectors \ {c} : ncpc[c] # 0 => ncpc[d] # ncpc[c]

PhaseInv ==
    /\ Alone
    /\ NobodyAsks \/ Asked \/ Served \/ Told
    /\ \A b \in served : b <= boxes
    /\ Numbered

\* The segment starts with all its flags down and no mailbox named.
LEMMA PhaseInit == Init => PhaseInv
  BY DEF Init, PhaseInv, Numbered, Alone, NobodyAsks, At, Quiet, Up, Connected, ConnectingSteps

LEMMA BoxNat == TypeInv => /\ boxes \in Nat /\ shmid \in Nat /\ served \subseteq Nat
                           /\ ncpc \in [Connectors -> Nat]
  BY BoxNumbers DEF TypeInv, TypeOK, Boxes

\* The rendezvous thread: a new mailbox is nobody's, and it has its handler before
\* done goes up.
LEMMA PhaseEngine == TypeInv /\ PhaseInv /\ Engine => PhaseInv'
<1> SUFFICES ASSUME TypeInv, PhaseInv, Engine PROVE PhaseInv'
  OBVIOUS
<1>0. /\ boxes \in Nat /\ served \subseteq Nat /\ ncpc \in [Connectors -> Nat]
      /\ UNCHANGED <<pc, ownVars>>
  BY BoxNat DEF Engine, see_connector, take_connector, make_mailbox, name_mailbox, start_handler,
         tell_connector
<1>1. Alone'
  BY <1>0 DEF PhaseInv, Alone
<1>2. boxes' \in Nat /\ boxes' >= boxes /\ served \subseteq served'
      /\ \A b \in served' : b <= boxes'
  <2>0. \A b \in served : b <= boxes
    BY DEF PhaseInv
  <2>1. CASE boxes' = boxes + 1 /\ served' = served
    BY <1>0, <2>0, <2>1
  <2>2. CASE boxes' = boxes /\ served' \in {served, served \cup {boxes}}
    BY <1>0, <2>0, <2>2
  <2> QED
    BY <2>1, <2>2 DEF Engine, see_connector, take_connector, make_mailbox, name_mailbox,
                      start_handler, tell_connector
<1>3. Numbered'
  BY <1>0, <1>2 DEF PhaseInv, Numbered, Connected, ownVars
<1>4. (NobodyAsks \/ Asked \/ Served \/ Told)'
  <2>1. CASE see_connector
    <3>1. Asked
      BY <2>1 DEF PhaseInv, see_connector, EngineStep, NobodyAsks, Asked, Served, Told, Up
    <3> QED
      BY <1>0, <2>1, <3>1 DEF see_connector, EngineStep, Asked, Up, sfVars
  <2>2. CASE take_connector
    <3>1. CASE epc = "take"
      <4>1. Asked
        BY <2>2, <3>1 DEF PhaseInv, NobodyAsks, Asked, Served, Told, Quiet
      <4> QED
        BY <1>0, <2>2, <3>1, <4>1 DEF take_connector, EngineStep, Asked, Served, Up
    <3>2. CASE epc # "take"
      <4>1. Served
        BY <2>2, <3>2
        DEF PhaseInv, take_connector, EngineStep, NobodyAsks, Asked, Served, Told, Quiet
      <4> QED
        BY <1>0, <2>2, <3>2, <4>1 DEF take_connector, EngineStep, Served, Up
    <3> QED
      BY <3>1, <3>2
  <2>3. CASE make_mailbox
    <3>1. Served
      BY <2>3 DEF PhaseInv, make_mailbox, EngineStep, NobodyAsks, Asked, Served, Told, Quiet
    <3>2. \A c \in Connectors : ncpc'[c] # boxes'
      <4>1. boxes' = boxes + 1
        BY <2>3 DEF make_mailbox
      <4> QED
        BY <1>0, <4>1 DEF PhaseInv, Numbered, ownVars
    <3> QED
      BY <1>0, <2>3, <3>1, <3>2 DEF make_mailbox, EngineStep, Served, Up, sfVars
  <2>4. CASE name_mailbox \/ start_handler
    <3>1. Served
      BY <2>4
      DEF PhaseInv, name_mailbox, start_handler, EngineStep, NobodyAsks, Asked, Served, Told, Quiet
    <3> QED
      BY <1>0, <2>4, <3>1
      DEF name_mailbox, start_handler, EngineStep, Served, Up, sfVars, ownVars
  <2>5. CASE tell_connector
    <3>1. CASE epc = "done"
      <4>1. Served
        BY <2>5, <3>1 DEF PhaseInv, NobodyAsks, Asked, Served, Told, Quiet
      <4>2. \A c \in Connectors : pc[c] \notin Mapped
        <5>1. PICK c \in Connectors : pc[c] = "await"
          BY <4>1 DEF Served
        <5> QED
          BY <5>1 DEF PhaseInv, Alone, ConnectingSteps, Mapped
      <4>3. \A c \in Connectors : ncpc[c] # boxes
        BY <3>1, <4>1 DEF Served
      <4> QED
        BY <1>0, <2>5, <3>1, <4>1, <4>2, <4>3
        DEF tell_connector, EngineStep, Served, Told, Up, ownVars, Quiet, Mapped, At
    <3>2. CASE epc # "done"
      <4>1. epc \in Quiet /\ epc' \in Quiet /\ UNCHANGED <<shmid, boxes, served>>
            /\ (Up("has_connector")' <=> Up("has_connector")) /\ (Up("done")' <=> Up("done"))
        BY <2>5, <3>2 DEF tell_connector, EngineStep, LowerHandling, Quiet, Up
      <4>2. ~Served
        BY <4>1 DEF Served, Quiet
      <4> QED
        BY <1>0, <4>1, <4>2 DEF PhaseInv, NobodyAsks, Asked, Told, ownVars
    <3> QED
      BY <3>1, <3>2
  <2> QED
    BY <2>1, <2>2, <2>3, <2>4, <2>5 DEF Engine
<1> QED
  BY <1>1, <1>2, <1>3, <1>4 DEF PhaseInv

\* Which phase it is, told by where the one connector is.
LEMMA WhichPhase ==
    ASSUME PhaseInv, NEW c \in Connectors, pc[c] \in ConnectingSteps
    PROVE  /\ \A d \in Connectors : d # c => pc[d] \notin ConnectingSteps /\ pc[d] \notin At
                                             /\ pc[d] \notin Mapped
           /\ pc[c] \notin At => NobodyAsks
           /\ pc[c] \in At /\ pc[c] # "await" => Told
           /\ pc[c] = "await" /\ Up("done") => Told
<1>1. \A d \in Connectors : d # c => pc[d] \notin ConnectingSteps
  BY DEF PhaseInv, Alone
<1>2. At \subseteq ConnectingSteps /\ Mapped \subseteq ConnectingSteps /\ "await" \in At
  BY DEF At, ConnectingSteps, Mapped
<1>3. pc[c] \notin At => NobodyAsks
  BY <1>1, <1>2 DEF PhaseInv, Asked, Served, Told
<1>4. pc[c] \in At /\ pc[c] # "await" => Told
  <2>1. \A d \in Connectors : pc[c] # "await" => pc[d] # "await"
    BY <1>1, <1>2
  <2> QED
    BY <2>1 DEF PhaseInv, NobodyAsks, Asked, Served
<1>5. pc[c] = "await" /\ Up("done") => Told
  BY DEF PhaseInv, NobodyAsks, Asked, Served
<1> QED
  BY <1>1, <1>2, <1>3, <1>4, <1>5

\* One connector at a time: the steps of the one there is.
LEMMA PhaseConnect ==
    ASSUME TypeInv, PhaseInv, Serialized, NEW c \in Connectors, Connect(c) PROVE PhaseInv'
<1>0. /\ UNCHANGED engineVars
      /\ boxes \in Nat /\ shmid \in Nat /\ ncpc \in [Connectors -> Nat]
      /\ pc \in [Connectors -> Steps] /\ g_shmid \in [Connectors -> Boxes \cup {0}]
      /\ ncpc \in [Connectors -> Boxes \cup {0}]
  BY BoxNat DEF TypeInv, TypeOK, Connect, Start, hook_wait, program_wait, raise_connector, await_done,
         attach, remember_id, hook_clear, program_clear
<1>1. \A d \in Connectors : d # c => pc'[d] = pc[d] /\ ncpc'[d] = ncpc[d] /\ g_shmid'[d] = g_shmid[d]
  BY <1>0 DEF Connect, Start, hook_wait, program_wait, raise_connector, await_done,
         attach, remember_id, hook_clear, program_clear, Goto, ownVars
<1>2. /\ \A d \in Connectors : d # c => pc[d] \notin ConnectingSteps
      /\ pc[c] \in ConnectingSteps \cup {"new"}
  <2>1. CASE Start(c)
    BY <2>1 DEF Start, Connecting, ConnectingSteps
  <2>2. CASE ~Start(c)
    <3>1. pc[c] \in ConnectingSteps
      BY <2>2 DEF Connect, hook_wait, program_wait, raise_connector, await_done,
         attach, remember_id, hook_clear, program_clear, ConnectingSteps
    <3> QED
      BY <3>1, WhichPhase
  <2> QED
    BY <2>1, <2>2
<1>3. Alone'
  BY <1>1, <1>2 DEF Alone
<1>4. \A d \in Connectors : d # c => pc[d] \notin At /\ pc[d] \notin Mapped /\ pc[d] # "await"
  BY <1>2 DEF At, Mapped, ConnectingSteps
<1>5. (\A b \in served : b <= boxes) /\ Numbered
  BY DEF PhaseInv
<1>6. (NobodyAsks \/ Asked \/ Served \/ Told)' /\ Numbered'
  <2>1. CASE Start(c) \/ hook_wait(c) \/ program_wait(c)
    <3>1. /\ pc[c] \in {"new", "wait", "busy"} /\ pc'[c] \in {"wait", "busy", "raise"}
          /\ UNCHANGED <<sfVars, ownVars>>
      BY <1>0, <2>1 DEF Start, hook_wait, program_wait, Goto
    <3>2. NobodyAsks
      BY <1>4, <3>1 DEF PhaseInv, At, Asked, Served, Told
    <3> QED
      BY <1>0, <1>1, <1>4, <1>5, <3>1, <3>2
      DEF NobodyAsks, Numbered, Connected, At, Up, engineVars, sfVars, ownVars
  <2>2. CASE raise_connector(c)
    <3>1. NobodyAsks /\ pc[c] = "raise" /\ pc'[c] = "await"
      BY <1>0, <2>2, WhichPhase DEF raise_connector, Goto, ConnectingSteps, At
    <3>2. Asked'
      BY <1>0, <2>2, <3>1 DEF raise_connector, NobodyAsks, Asked, Up, engineVars, Quiet
    <3>3. Numbered'
      BY <1>0, <1>1, <1>5, <2>2, <3>1 DEF raise_connector, Numbered, Connected, engineVars, ownVars
    <3> QED
      BY <3>2, <3>3
  <2>3. CASE await_done(c)
    <3>1. Told /\ pc[c] = "await" /\ pc'[c] = "attach"
      BY <1>0, <2>3, WhichPhase DEF await_done, Goto, ConnectingSteps, Up
    <3>2. Told'
      BY <1>0, <1>1, <2>3, <3>1
      DEF await_done, Told, At, Mapped, Up, engineVars, sfVars, ownVars
    <3>3. Numbered'
      BY <1>0, <1>1, <1>5, <2>3, <3>1 DEF await_done, Numbered, Connected, engineVars, ownVars
    <3> QED
      BY <3>2, <3>3
  <2>4. CASE attach(c)
    <3>1. Told /\ pc[c] = "attach" /\ pc'[c] = "id" /\ ncpc'[c] = boxes
      BY <1>0, <2>4, WhichPhase DEF attach, Goto, ConnectingSteps, At, Told
    <3>2. \A d \in Connectors : d # c => ncpc[d] # boxes
      BY <1>4, <3>1 DEF Told
    <3>3. Told'
      BY <1>0, <1>1, <1>4, <2>4, <3>1, <3>2 DEF attach, Told, At, Mapped, Up, engineVars, sfVars
    <3>4. boxes # 0
      BY <3>1 DEF Told, Mapped, TypeInv, TypeOK, Boxes
    <3>5. Numbered'
      BY <1>0, <1>1, <1>5, <2>4, <3>1, <3>2, <3>4
      DEF attach, Numbered, Connected, engineVars, ownVars, Told
    <3> QED
      BY <3>3, <3>5
  <2>5. CASE remember_id(c)
    <3>1. Told /\ pc[c] = "id" /\ pc'[c] = "clear" /\ g_shmid'[c] = boxes /\ ncpc[c] = boxes
      BY <1>0, <2>5, WhichPhase DEF remember_id, Goto, ConnectingSteps, At, Told, Mapped
    <3>2. Told'
      BY <1>0, <1>1, <1>4, <2>5, <3>1 DEF remember_id, Told, At, Mapped, Up, engineVars, sfVars
    <3>3. Numbered'
      BY <1>0, <1>1, <1>5, <2>5, <3>1 DEF remember_id, Numbered, Connected, engineVars, ownVars
    <3> QED
      BY <3>2, <3>3
  <2>6. CASE hook_clear(c) \/ program_clear(c)
    <3>1. /\ pc[c] \in {"clear", "clear_done", "clear_connector"}
          /\ pc'[c] \in {"clear_done", "clear_connector", "ready"}
          /\ UNCHANGED ownVars
      BY <1>0, <2>6 DEF hook_clear, program_clear, Goto
    <3>2. Numbered'
      BY <1>0, <1>1, <1>5, <3>1 DEF Numbered, Connected, engineVars, ownVars
    <3>3. CASE pc'[c] = "clear_done"
      <4>1. Told /\ pc[c] = "clear" /\ sf' = sf \ {"busy"} /\ shmid' = shmid
        BY <1>0, <2>6, <3>3, WhichPhase
        DEF hook_clear, program_clear, Goto, ConnectingSteps, At, Cleared
      <4>2. Told'
        BY <1>0, <1>1, <1>4, <3>1, <3>3, <4>1 DEF Told, At, Mapped, Up, engineVars, ownVars
      <4> QED
        BY <3>2, <4>2
    <3>4. CASE pc'[c] # "clear_done"
      <4>1. pc'[c] \notin At /\ epc \in Quiet
        BY <3>1, <3>4, WhichPhase DEF At, ConnectingSteps, Told, NobodyAsks
      <4>2. ~Up("has_connector")' /\ ~Up("done")'
        <5>1. CASE pc[c] = "clear_connector"
          <6>1. NobodyAsks /\ sf' \subseteq sf
            BY <2>6, <5>1, WhichPhase DEF At, ConnectingSteps, hook_clear, program_clear
          <6> QED
            BY <6>1 DEF NobodyAsks, Up
        <5>2. CASE pc[c] # "clear_connector"
          <6>1. Told
            BY <3>1, <5>2, WhichPhase DEF At, ConnectingSteps
          <6>2. sf' = {} \/ sf' = sf \ {"done"}
            BY <1>0, <2>6, <3>4, <5>2 DEF hook_clear, program_clear, Goto, Cleared
          <6> QED
            BY <6>1, <6>2 DEF Told, Up
        <5> QED
          BY <5>1, <5>2
      <4>3. NobodyAsks'
        BY <1>0, <1>1, <1>4, <4>1, <4>2 DEF NobodyAsks, engineVars
      <4> QED
        BY <3>2, <4>3
    <3> QED
      BY <3>3, <3>4
  <2> QED
    BY <2>1, <2>2, <2>3, <2>4, <2>5, <2>6 DEF Connect
<1> QED
  BY <1>0, <1>3, <1>5, <1>6 DEF PhaseInv, engineVars

\* The calls stay out of the rendezvous.
LEMMA PhaseCall ==
    ASSUME TypeInv, PhaseInv, NEW c \in Connectors, CallOf(c) PROVE PhaseInv'
<1>1. UNCHANGED <<sfVars, engineVars, ownVars>>
  BY DEF CallOf, call_begin, call_post, call_answered, call_done, call_return, next_call, CallStep
<1>2. /\ pc[c] \in Calling \cup {"ready"} /\ pc'[c] \in Calling \cup {"ready"}
      /\ \A d \in Connectors : d # c => pc'[d] = pc[d]
  BY DEF TypeInv, CallOf, call_begin, call_post, call_answered, call_done, call_return, next_call,
         CallStep, Goto, Calling, Steps
<1>3. \A d \in Connectors :
          /\ pc[d] \in ConnectingSteps <=> pc'[d] \in ConnectingSteps
          /\ pc[d] \in At <=> pc'[d] \in At
          /\ pc[d] \in Mapped <=> pc'[d] \in Mapped
          /\ pc[d] \in {"clear", "clear_done"} <=> pc'[d] \in {"clear", "clear_done"}
          /\ pc[d] = "await" <=> pc'[d] = "await"
          /\ pc[d] = "id" <=> pc'[d] = "id"
          /\ Connected(d) <=> Connected(d)'
  BY <1>2 DEF Calling, ConnectingSteps, At, Mapped, Connected
<1>4. Alone' /\ (\A b \in served' : b <= boxes') /\ Numbered'
  BY <1>1, <1>3 DEF PhaseInv, Alone, Numbered, engineVars, ownVars
<1>5. (NobodyAsks \/ Asked \/ Served \/ Told)'
  BY <1>1, <1>3 DEF PhaseInv, NobodyAsks, Asked, Served, Told, Up, engineVars, ownVars, sfVars
<1> QED
  BY <1>4, <1>5 DEF PhaseInv

LEMMA PhaseSame == PhaseInv /\ UNCHANGED <<sfVars, engineVars, pc, ownVars>> => PhaseInv'
<1> SUFFICES ASSUME PhaseInv, UNCHANGED <<sfVars, engineVars, pc, ownVars>> PROVE PhaseInv'
  OBVIOUS
<1>1. Alone' /\ (\A b \in served' : b <= boxes') /\ Numbered'
  BY DEF PhaseInv, Alone, Numbered, Connected, engineVars, ownVars
<1>2. (NobodyAsks \/ Asked \/ Served \/ Told)'
  BY DEF PhaseInv, NobodyAsks, Asked, Served, Told, Up, engineVars, ownVars, sfVars
<1> QED
  BY <1>1, <1>2 DEF PhaseInv

LEMMA PhaseNext ==
    ASSUME TypeInv, PhaseInv, Serialized, [Next]_vars PROVE PhaseInv'
<1>1. ASSUME NEW b \in Boxes, handler(b) PROVE PhaseInv'
  BY <1>1, PhaseSame DEF handler, serve, Reply, HandlerStep
<1>2. CASE UNCHANGED vars
  BY <1>2, PhaseSame DEF vars
<1> QED
  BY <1>1, <1>2, PhaseEngine, PhaseConnect, PhaseCall DEF Next

\* With one connector at a time, a program that has mapped a mailbox shares it
\* with no other, it has a handler, and its id is the one the program will tell its
\* peers: for any number of programs, whichever way each of them clears scanfs.
THEOREM MailboxSafe ==
    ASSUME Serialized
    PROVE  Spec => []OwnMailbox
<1>1. Init => TypeInv /\ PhaseInv
  BY TypeInit, PhaseInit
<1>2. TypeInv /\ PhaseInv /\ [Next]_vars => (TypeInv /\ PhaseInv)'
  BY TypeNext, PhaseNext
<1>3. TypeInv /\ PhaseInv => OwnMailbox
  <2>1. ASSUME PhaseInv, NEW c \in Connectors, NEW d \in Connectors \ {c}, Connected(c)
        PROVE  ncpc[c] \in served /\ (pc[c] # "id" => g_shmid[c] = ncpc[c]) /\ ncpc[d] # ncpc[c]
    BY <2>1 DEF PhaseInv, Numbered
  <2>2. ASSUME PhaseInv, NEW c \in Connectors, Connected(c)
        PROVE  ncpc[c] \in served /\ (pc[c] # "id" => g_shmid[c] = ncpc[c])
    BY <2>2 DEF PhaseInv, Numbered
  <2> QED
    BY <2>1, <2>2 DEF OwnMailbox
<1> QED
  BY <1>1, <1>2, <1>3, PTL DEF Spec

-----------------------------------------------------------------------------
(* The calls *)

\* The mailbox is the program's: the last answer is in it.
Idle(B, h) == h = "idle" /\ B.handle = 1 /\ B.type = 1

\* From the second call on, step by step.
Later(c, p, n, B, h, a, r, e) ==
    /\ p = "type" => Idle(B, h)
    /\ p \in {"type", "args", "exception", "handle", "called"} => B.call_id = n
    /\ p \in {"args", "exception", "handle"} => h = "idle" /\ B.handle = 1
    /\ p \in {"args", "exception", "handle"} => B.type = 2
    /\ p \in {"exception", "handle"} => B.args = Ask(c, n)
    /\ p = "called" =>
           \/ h = "idle" /\ B.handle = 0 /\ B.type = 2 /\ B.args = Ask(c, n)
           \/ h = "error" /\ B.handle = 0 /\ B.type = 2 /\ a = Ask(c, n)
           \/ /\ h \in {"type", "wipe", "answer", "handle"} /\ B.handle = 0
              /\ B.type = (IF h = "type" THEN 2 ELSE 1)
              /\ a = Ask(c, n) /\ (B.exception <=> n \in Refused)
              /\ h = "handle" => B.args = Answer(Ask(c, n))
           \/ Idle(B, h) /\ B.args = Answer(Ask(c, n)) /\ (B.exception <=> n \in Refused)
    /\ p \in {"copied", "finish", "returned"} => r = Answer(Ask(c, n))
    /\ p \in {"copied", "finish"} => (B.exception <=> n \in Refused)
    /\ p = "returned" => (e = -1 <=> n \in Refused)

\* In the first call the handler may run as soon as type is up.
First(p, B, h) ==
    /\ p = "type" => h = "idle" /\ B.handle = 0 /\ B.type = 0
    /\ h # "idle" => B.handle = 0
    /\ B.handle = 1 => B.type = 1
    /\ h \in {"error", "type"} => B.type = 2
    /\ h \in {"wipe", "answer", "handle"} => B.type = 1

Follows(c, p, n, B, h, a, r, e) ==
    /\ n = 0 => B = NewBox /\ h = "idle"
    /\ n = 1 => First(p, B, h)
    /\ n > 1 => Later(c, p, n, B, h, a, r, e)
    /\ n > 0 /\ p \in {"copied", "finish", "returned", "ready"} => Idle(B, h)

CallInv ==
    /\ \A c \in Connectors : ncpc[c] # 0 =>
           Follows(c, pc[c], call[c], box[ncpc[c]], hpc[ncpc[c]], hargs[ncpc[c]], ret[c], code[c])
    /\ \A b \in Boxes : (\A c \in Connectors : ncpc[c] # b) => box[b] = NewBox /\ hpc[b] = "idle"

LEMMA CallInit == Init => CallInv
  BY DEF Init, CallInv

Fields == {"call_id", "type", "args", "exception", "handle"}

\* A store changes one field of one mailbox.
LEMMA Stored ==
    ASSUME box \in [Boxes -> Boxed], NEW b \in Boxes, NEW field \in Fields, NEW value,
           Store(b, field, value)
    PROVE  /\ box'[b][field] = value
           /\ \A f \in Fields \ {field} : box'[b][f] = box[b][f]
           /\ \A d \in Boxes \ {b} : box'[d] = box[d]
<1>1. box[b] \in Boxed
  OBVIOUS
<1>2. DOMAIN box[b] = Fields
  BY <1>1 DEF Boxed, Fields
<1>3. box' = [box EXCEPT ![b] = [box[b] EXCEPT ![field] = value]]
  BY DEF Store
<1>4. box'[b] = [box[b] EXCEPT ![field] = value] /\ \A d \in Boxes \ {b} : box'[d] = box[d]
  BY <1>3
<1> QED
  BY <1>1, <1>2, <1>4 DEF Boxed

\* A program that has made no call yet has an empty mailbox, whatever it does.
LEMMA NoCallYet ==
    ASSUME NEW c, NEW p, NEW B, NEW h, NEW a, NEW r, NEW e
    PROVE  Follows(c, p, 0, B, h, a, r, e) <=> B = NewBox /\ h = "idle"
  BY DEF Follows

\* The engine makes a mailbox that is still empty.
LEMMA CallEngine == TypeInv /\ PhaseInv /\ CallInv /\ Engine => CallInv'
<1> SUFFICES ASSUME TypeInv, PhaseInv, CallInv, Engine PROVE CallInv'
  OBVIOUS
<1>1. UNCHANGED <<pc, ownVars, callVars, handlerVars>>
  BY DEF Engine, see_connector, take_connector, make_mailbox, name_mailbox, start_handler,
         tell_connector
<1>2. box' = box
  <2>1. CASE make_mailbox
    <3>1. \A c \in Connectors : ncpc[c] # boxes + 1
      BY BoxNat DEF PhaseInv, Numbered
    <3>2. boxes + 1 \in Boxes => box[boxes + 1] = NewBox
      BY <3>1 DEF CallInv
    <3> QED
      BY <2>1, <3>2 DEF make_mailbox, TypeInv, TypeOK
  <2> QED
    BY <2>1 DEF Engine, see_connector, take_connector, name_mailbox, start_handler,
         tell_connector
<1> QED
  BY <1>1, <1>2 DEF CallInv, ownVars, callVars, handlerVars

\* A program maps a mailbox that is still empty.
LEMMA CallConnect ==
    ASSUME TypeInv, PhaseInv, CallInv, NEW c \in Connectors, Connect(c) PROVE CallInv'
<1>1. UNCHANGED <<callVars, box, handlerVars>>
  BY DEF Connect, Start, hook_wait, program_wait, raise_connector, await_done, attach,
         remember_id, hook_clear, program_clear
<1>2. call[c] = 0 /\ call'[c] = 0 /\ \A d \in Connectors : d # c => pc'[d] = pc[d]
  BY <1>1 DEF TypeInv, Connect, Start, hook_wait, program_wait, raise_connector, await_done, attach,
         remember_id, hook_clear, program_clear, Calling, Steps, Goto, callVars
<1>3. CASE attach(c)
  <2>1. /\ ncpc[c] = 0 /\ ncpc'[c] = shmid /\ pc[c] = "attach"
        /\ \A d \in Connectors : d # c => ncpc'[d] = ncpc[d]
    BY <1>3 DEF attach, PhaseInv, Numbered, Connected, TypeInv, TypeOK
  <2>2. Told
    BY <2>1, WhichPhase DEF At, ConnectingSteps
  <2>3. \A d \in Connectors : ncpc[d] # shmid
    BY <2>1, <2>2, WhichPhase DEF Told, ConnectingSteps, Mapped
  <2>4. shmid \in Boxes
    BY <2>2 DEF Told, TypeInv, TypeOK
  <2>5. box[shmid] = NewBox /\ hpc[shmid] = "idle"
    BY <2>3, <2>4 DEF CallInv
  <2>6. Follows(c, pc'[c], call'[c], box'[ncpc'[c]], hpc'[ncpc'[c]], hargs'[ncpc'[c]],
                ret'[c], code'[c])
    BY <1>1, <1>2, <2>1, <2>5, NoCallYet DEF handlerVars
  <2>7. \A d \in Connectors : d # c /\ ncpc'[d] # 0 =>
            Follows(d, pc'[d], call'[d], box'[ncpc'[d]], hpc'[ncpc'[d]], hargs'[ncpc'[d]],
                    ret'[d], code'[d])
    BY <1>1, <1>2, <2>1 DEF CallInv, callVars, handlerVars
  <2>8. \A b \in Boxes : (\A d \in Connectors : ncpc'[d] # b) =>
            \A d \in Connectors : ncpc[d] # b
    BY <2>1 DEF Boxes
  <2> QED
    BY <1>1, <2>6, <2>7, <2>8 DEF CallInv, handlerVars
<1>4. CASE ~attach(c)
  <2>1. ncpc' = ncpc
    BY <1>4 DEF Connect, Start, hook_wait, program_wait, raise_connector, await_done,
         remember_id, hook_clear, program_clear, ownVars
  <2>2. ncpc[c] # 0 => Follows(c, pc'[c], call'[c], box'[ncpc'[c]], hpc'[ncpc'[c]], hargs'[ncpc'[c]],
                               ret'[c], code'[c])
    <3>1. ncpc[c] # 0 => Follows(c, pc[c], call[c], box[ncpc[c]], hpc[ncpc[c]], hargs[ncpc[c]],
                                 ret[c], code[c])
      BY DEF CallInv
    <3> QED
      BY <1>1, <1>2, <2>1, <3>1, NoCallYet DEF handlerVars
  <2> QED
    BY <1>1, <1>2, <2>1, <2>2 DEF CallInv, callVars, handlerVars
<1> QED
  BY <1>3, <1>4

\* The program's side of a call, in its own mailbox.
LEMMA CallCall ==
    ASSUME TypeInv, PhaseInv, CallInv, NEW c \in Connectors, CallOf(c) PROVE CallInv'
<1>1. UNCHANGED <<ncpc, hpc, hargs>>
  BY DEF CallOf, call_begin, call_post, call_answered, call_done, call_return, next_call, CallStep,
         ownVars, handlerVars
<1>2. PICK b \in Boxes : b = ncpc[c]
  BY DEF TypeInv, CallOf, call_begin, call_post, call_answered, call_done, call_return, next_call,
         CallStep, TypeOK, Calling
<1>3. b # 0 /\ Follows(c, pc[c], call[c], box[b], hpc[b], hargs[b], ret[c], code[c])
  BY <1>2, BoxNumbers DEF CallInv, Boxes
<1>4. /\ box \in [Boxes -> Boxed] /\ pc \in [Connectors -> Steps]
      /\ call \in [Connectors -> 0 .. Calls] /\ Calls \in Nat
      /\ ret \in [Connectors -> Words] /\ code \in [Connectors -> {0, -1}]
  BY SessionAssumption DEF SessionAssumption, TypeInv, TypeOK, Numbers
<1>5. \A field, value : Put(c, field, value) => Store(b, field, value)
  BY <1>2, PutIsStore
<1>6. \A d \in Boxes : d # b => box'[d] = box[d]
  <2>1. box' = box \/ \E field \in Fields : \E value : Store(b, field, value)
    BY <1>5 DEF CallOf, call_begin, call_post, call_answered, call_done, call_return, next_call, Fields
  <2> QED
    BY <1>4, <2>1, Stored
<1>7. \A d \in Connectors : d # c =>
          pc'[d] = pc[d] /\ call'[d] = call[d] /\ ret'[d] = ret[d] /\ code'[d] = code[d]
  BY <1>4 DEF CallOf, call_begin, call_post, call_answered, call_done, call_return, next_call, CallStep,
         Goto, callVars
<1>8. Follows(c, pc'[c], call'[c], box'[b], hpc[b], hargs[b], ret'[c], code'[c])
  <2>1. CASE call_begin(c)
    <3>1. /\ pc[c] = "ready" /\ pc'[c] = "type" /\ call'[c] = call[c] + 1
          /\ Store(b, "call_id", call'[c])
      BY <1>4, <1>5, <2>1 DEF call_begin, CallStep, Goto
    <3>2. box'[b].call_id = call'[c] /\ box'[b].type = box[b].type /\ box'[b].handle = box[b].handle
      BY <1>4, <3>1, Stored DEF Fields
    <3> QED
      BY <1>3, <1>4, <3>1, <3>2 DEF Follows, Later, First, Idle, NewBox
  <2>2. CASE call_post(c)
    <3>1. call'[c] = call[c] /\ call[c] # 0 /\ pc[c] \in Calling /\ ret' = ret /\ code' = code
      BY <2>2 DEF call_post, callVars, TypeInv, CallStep, Calling
    <3>2. CASE pc[c] = "type"
      <4>1. pc'[c] = "args" /\ Store(b, "type", 2)
        BY <1>4, <1>5, <2>2, <3>2 DEF call_post, CallStep, Goto
      <4>2. /\ box'[b].type = 2 /\ box'[b].call_id = box[b].call_id
            /\ box'[b].handle = box[b].handle
        BY <1>4, <4>1, Stored DEF Fields
      <4> QED
        BY <1>3, <1>4, <3>1, <3>2, <4>1, <4>2 DEF Follows, Later, First, Idle
    <3>3. CASE pc[c] = "args"
      <4>1. pc'[c] = "exception" /\ Store(b, "args", Ask(c, call[c]))
        BY <1>4, <1>5, <2>2, <3>3 DEF call_post, CallStep, Goto
      <4>2. /\ box'[b].type = box[b].type /\ box'[b].call_id = box[b].call_id
            /\ box'[b].handle = box[b].handle /\ box'[b].args = Ask(c, call[c])
        BY <1>4, <4>1, Stored DEF Fields
      <4> QED
        BY <1>3, <1>4, <3>1, <3>3, <4>1, <4>2 DEF Follows, Later, First, Idle
    <3>4. CASE pc[c] = "exception"
      <4>1. pc'[c] = "handle" /\ Store(b, "exception", FALSE)
        BY <1>4, <1>5, <2>2, <3>4 DEF call_post, CallStep, Goto
      <4>2. /\ box'[b].type = box[b].type /\ box'[b].call_id = box[b].call_id
            /\ box'[b].handle = box[b].handle /\ box'[b].args = box[b].args
        BY <1>4, <4>1, Stored DEF Fields
      <4> QED
        BY <1>3, <1>4, <3>1, <3>4, <4>1, <4>2 DEF Follows, Later, First, Idle
    <3>5. CASE pc[c] = "handle"
      <4>1. pc'[c] = "called" /\ Store(b, "handle", 0)
        BY <1>4, <1>5, <2>2, <3>5 DEF call_post, CallStep, Goto
      <4>2. /\ box'[b].type = box[b].type /\ box'[b].call_id = box[b].call_id
            /\ box'[b].handle = 0 /\ box'[b].args = box[b].args
        BY <1>4, <4>1, Stored DEF Fields
      <4> QED
        BY <1>3, <1>4, <3>1, <3>5, <4>1, <4>2 DEF Follows, Later, First, Idle
    <3> QED
      BY <2>2, <3>2, <3>3, <3>4, <3>5 DEF call_post, CallStep
  <2>3. CASE call_answered(c)
    <3>1. /\ pc[c] = "called" /\ pc'[c] = "copied" /\ box' = box /\ call'[c] = call[c]
          /\ ret'[c] = box[b].args /\ box[b].handle = 1 /\ box[b].type = 1 /\ call[c] # 0
      BY <1>2, <1>4, <2>3 DEF call_answered, CallStep, Goto, Mine, Answered, TypeInv, Calling
    <3> QED
      BY <1>3, <1>4, <3>1 DEF Follows, Later, First, Idle
  <2>4. CASE call_done(c)
    <3>1. /\ pc[c] = "copied" /\ pc'[c] = "finish" /\ call'[c] = call[c] /\ ret' = ret
          /\ Store(b, "call_id", NoCall) /\ call[c] # 0
      BY <1>4, <1>5, <2>4 DEF call_done, CallStep, Goto, callVars, TypeInv, Calling
    <3>2. /\ box'[b].type = box[b].type /\ box'[b].exception = box[b].exception
          /\ box'[b].handle = box[b].handle
      BY <1>4, <3>1, Stored DEF Fields
    <3> QED
      BY <1>3, <1>4, <3>1, <3>2 DEF Follows, Later, First, Idle
  <2>5. CASE call_return(c)
    <3>1. /\ pc[c] = "finish" /\ pc'[c] = "returned" /\ call'[c] = call[c] /\ ret' = ret
          /\ box' = box /\ call[c] # 0 /\ code'[c] = (IF box[b].exception THEN -1 ELSE 0)
      BY <1>2, <1>4, <2>5 DEF call_return, CallStep, Goto, TypeInv, Calling, Mine, ReturnCode
    <3> QED
      BY <1>3, <1>4, <3>1 DEF Follows, Later, First, Idle
  <2>6. CASE next_call(c)
    <3>1. /\ pc[c] = "returned" /\ pc'[c] = "ready" /\ call'[c] = call[c] /\ box' = box
          /\ call[c] # 0
      BY <1>4, <2>6 DEF next_call, CallStep, Goto, callVars, TypeInv, Calling
    <3> QED
      BY <1>3, <1>4, <3>1 DEF Follows, Later, First, Idle
  <2> QED
    BY <2>1, <2>2, <2>3, <2>4, <2>5, <2>6 DEF CallOf
<1>9. \A d \in Connectors : d # c /\ ncpc[d] # 0 => ncpc[d] \in Boxes \ {b}
  <2>1. Connected(c) /\ \A d \in Connectors : ncpc[d] \in Boxes \cup {0}
    BY <1>2, <1>3 DEF PhaseInv, Numbered, TypeInv, TypeOK
  <2> QED
    BY <1>2, <2>1 DEF PhaseInv, Numbered
<1>10. \A d \in Connectors : ncpc'[d] # 0 =>
           Follows(d, pc'[d], call'[d], box'[ncpc'[d]], hpc'[ncpc'[d]], hargs'[ncpc'[d]],
                   ret'[d], code'[d])
  <2>1. ASSUME NEW d \in Connectors, d # c, ncpc[d] # 0
        PROVE  Follows(d, pc'[d], call'[d], box'[ncpc[d]], hpc[ncpc[d]], hargs[ncpc[d]],
                       ret'[d], code'[d])
    BY <1>6, <1>7, <1>9, <2>1 DEF CallInv
  <2> QED
    BY <1>1, <1>2, <1>8, <2>1
<1>11. \A d \in Boxes : (\A e \in Connectors : ncpc'[e] # d) => box'[d] = NewBox /\ hpc'[d] = "idle"
  BY <1>1, <1>2, <1>6 DEF CallInv
<1> QED
  BY <1>10, <1>11 DEF CallInv

\* A handler serves the program whose mailbox it has, and no other.
LEMMA CallHandler ==
    ASSUME TypeInv, PhaseInv, CallInv, NEW b \in Boxes, handler(b) PROVE CallInv'
<1>1. UNCHANGED <<pc, ncpc, call, ret, code>>
  BY DEF handler, serve, Reply, HandlerStep, ownVars, callVars
<1>2. /\ box \in [Boxes -> Boxed] /\ hpc \in [Boxes -> HandlerSteps]
      /\ hargs \in [Boxes -> Words] /\ call \in [Connectors -> 0 .. Calls] /\ Calls \in Nat
  BY SessionAssumption DEF SessionAssumption, TypeInv, TypeOK, Numbers
<1>3. \A d \in Boxes : d # b => box'[d] = box[d] /\ hpc'[d] = hpc[d] /\ hargs'[d] = hargs[d]
  <2>1. box' = box \/ \E field \in Fields : \E value : Store(b, field, value)
    BY DEF handler, serve, Reply, Fields
  <2>2. \A d \in Boxes : d # b => box'[d] = box[d]
    BY <1>2, <2>1, Stored
  <2> QED
    BY <1>2, <2>2 DEF handler, serve, Reply, HandlerStep, HGoto
<1>4. hpc[b] = "idle" => box[b].type = 2 /\ box[b].handle = 0
  BY DEF handler, serve, Reply, HandlerStep, Pending
<1>5. \E c \in Connectors : ncpc[c] = b
  BY <1>4 DEF CallInv, NewBox
<1>6. PICK c \in Connectors : ncpc[c] = b
  BY <1>5
<1>7. b # 0 /\ Follows(c, pc[c], call[c], box[b], hpc[b], hargs[b], ret[c], code[c])
  BY <1>6, BoxNumbers DEF CallInv, Boxes
<1>8. call[c] # 0 /\ call[c] \in Nat /\ pc[c] \in Calling \cup {"ready"}
      /\ pc[c] \notin {"copied", "finish", "returned", "ready"}
      /\ (call[c] > 1 => pc[c] = "called")
  <2>1. call[c] # 0 /\ call[c] \in Nat
    BY <1>2, <1>4, <1>7 DEF Follows, NewBox
  <2>2. pc[c] \in Calling \cup {"ready"}
    BY <2>1 DEF TypeInv
  <2>3. ~Idle(box[b], hpc[b])
    BY <1>4 DEF Idle
  <2> QED
    BY <1>4, <1>7, <2>1, <2>2, <2>3 DEF Follows, Later, Calling
<1>9. Follows(c, pc[c], call[c], box'[b], hpc'[b], hargs'[b], ret[c], code[c])
  <2>1. CASE serve(b)
    <3>1. /\ hpc[b] = "idle" /\ hpc'[b] = "error" /\ box' = box /\ hargs'[b] = box[b].args
      BY <1>2, <2>1 DEF serve, HandlerStep, HGoto
    <3> QED
      BY <1>4, <1>7, <1>8, <3>1 DEF Follows, Later, First, Idle
  <2>2. CASE HandlerStep(b, "error", "type") /\ Store(b, "exception", box[b].call_id \in Refused)
             /\ UNCHANGED hargs
    <3>1. hpc[b] = "error" /\ hpc'[b] = "type" /\ hargs'[b] = hargs[b]
      BY <1>2, <2>2 DEF HandlerStep, HGoto
    <3>2. /\ box'[b].type = box[b].type /\ box'[b].handle = box[b].handle
          /\ box'[b].call_id = box[b].call_id
          /\ box'[b].exception = (box[b].call_id \in Refused)
      BY <1>2, <2>2, Stored DEF Fields
    <3> QED
      BY <1>7, <1>8, <3>1, <3>2 DEF Follows, Later, First, Idle
  <2>3. CASE HandlerStep(b, "type", "wipe") /\ Store(b, "type", 1) /\ UNCHANGED hargs
    <3>1. hpc[b] = "type" /\ hpc'[b] = "wipe" /\ hargs'[b] = hargs[b]
      BY <1>2, <2>3 DEF HandlerStep, HGoto
    <3>2. /\ box'[b].type = 1 /\ box'[b].handle = box[b].handle
          /\ box'[b].call_id = box[b].call_id /\ box'[b].exception = box[b].exception
      BY <1>2, <2>3, Stored DEF Fields
    <3> QED
      BY <1>7, <1>8, <3>1, <3>2 DEF Follows, Later, First, Idle
  <2>4. CASE HandlerStep(b, "wipe", "answer") /\ Store(b, "args", Blank) /\ UNCHANGED hargs
    <3>1. hpc[b] = "wipe" /\ hpc'[b] = "answer" /\ hargs'[b] = hargs[b]
      BY <1>2, <2>4 DEF HandlerStep, HGoto
    <3>2. /\ box'[b].type = box[b].type /\ box'[b].handle = box[b].handle
          /\ box'[b].call_id = box[b].call_id /\ box'[b].exception = box[b].exception
      BY <1>2, <2>4, Stored DEF Fields
    <3> QED
      BY <1>7, <1>8, <3>1, <3>2 DEF Follows, Later, First, Idle
  <2>5. CASE HandlerStep(b, "answer", "handle") /\ Store(b, "args", Answer(hargs[b]))
             /\ UNCHANGED hargs
    <3>1. hpc[b] = "answer" /\ hpc'[b] = "handle" /\ hargs'[b] = hargs[b]
      BY <1>2, <2>5 DEF HandlerStep, HGoto
    <3>2. /\ box'[b].type = box[b].type /\ box'[b].handle = box[b].handle
          /\ box'[b].call_id = box[b].call_id /\ box'[b].exception = box[b].exception
          /\ box'[b].args = Answer(hargs[b])
      BY <1>2, <2>5, Stored DEF Fields
    <3> QED
      BY <1>7, <1>8, <3>1, <3>2 DEF Follows, Later, First, Idle
  <2>6. CASE HandlerStep(b, "handle", "idle") /\ Store(b, "handle", 1) /\ UNCHANGED hargs
    <3>1. hpc[b] = "handle" /\ hpc'[b] = "idle" /\ hargs'[b] = hargs[b]
      BY <1>2, <2>6 DEF HandlerStep, HGoto
    <3>2. /\ box'[b].type = box[b].type /\ box'[b].handle = 1 /\ box'[b].args = box[b].args
          /\ box'[b].call_id = box[b].call_id /\ box'[b].exception = box[b].exception
      BY <1>2, <2>6, Stored DEF Fields
    <3> QED
      BY <1>7, <1>8, <3>1, <3>2 DEF Follows, Later, First, Idle
  <2> QED
    BY <2>1, <2>2, <2>3, <2>4, <2>5, <2>6 DEF handler, Reply
<1>10. \A d \in Connectors : d # c /\ ncpc[d] # 0 => ncpc[d] \in Boxes \ {b}
  <2>1. Connected(c) /\ \A d \in Connectors : ncpc[d] \in Boxes \cup {0}
    BY <1>6, <1>7 DEF PhaseInv, Numbered, TypeInv, TypeOK
  <2> QED
    BY <1>6, <2>1 DEF PhaseInv, Numbered
<1>11. \A d \in Connectors : ncpc'[d] # 0 =>
           Follows(d, pc'[d], call'[d], box'[ncpc'[d]], hpc'[ncpc'[d]], hargs'[ncpc'[d]],
                   ret'[d], code'[d])
  <2>1. ASSUME NEW d \in Connectors, d # c, ncpc[d] # 0
        PROVE  Follows(d, pc[d], call[d], box'[ncpc[d]], hpc'[ncpc[d]], hargs'[ncpc[d]],
                       ret[d], code[d])
    BY <1>3, <1>10, <2>1 DEF CallInv
  <2> QED
    BY <1>1, <1>6, <1>9, <2>1
<1>12. \A d \in Boxes : (\A e \in Connectors : ncpc'[e] # d) => box'[d] = NewBox /\ hpc'[d] = "idle"
  BY <1>1, <1>3, <1>6 DEF CallInv
<1> QED
  BY <1>11, <1>12 DEF CallInv

\* One connector at a time in try_to_connect, but any number of programs in their
\* calls: every call_id after the first of a mailbox copies out the engine's answer
\* to its own arguments, and returns -1 exactly when the engine refused it.
THEOREM CallsSafe ==
    ASSUME Serialized
    PROVE  Spec => []LaterCallsRight
<1>1. Init => TypeInv /\ PhaseInv /\ CallInv
  BY TypeInit, PhaseInit, CallInit
<1>2. TypeInv /\ PhaseInv /\ CallInv /\ [Next]_vars => (TypeInv /\ PhaseInv /\ CallInv)'
  <2>1. CallInv /\ UNCHANGED vars => CallInv'
    BY DEF CallInv, vars, ownVars, callVars, handlerVars
  <2>2. TypeInv /\ PhaseInv /\ CallInv /\ Next => CallInv'
    BY CallEngine, CallConnect, CallCall, CallHandler DEF Next
  <2> QED
    BY <2>1, <2>2, TypeNext, PhaseNext
<1>3. TypeInv /\ PhaseInv /\ CallInv => LaterCallsRight
  <2>1. ASSUME TypeInv, PhaseInv, CallInv, NEW c \in Connectors, pc[c] = "returned", call[c] > 1
        PROVE  ret[c] = Answer(Ask(c, call[c])) /\ (code[c] = -1 <=> call[c] \in Refused)
    <3>1. ncpc[c] # 0
      BY <2>1 DEF TypeInv, Calling
    <3>2. Later(c, pc[c], call[c], box[ncpc[c]], hpc[ncpc[c]], hargs[ncpc[c]], ret[c], code[c])
      BY <2>1, <3>1 DEF CallInv, Follows
    <3> QED
      BY <2>1, <3>2 DEF Later
  <2> QED
    BY <2>1 DEF LaterCallsRight
<1> QED
  BY <1>1, <1>2, <1>3, PTL DEF Spec
=============================================================================
