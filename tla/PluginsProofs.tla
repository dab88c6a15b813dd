--------------------------- MODULE PluginsProofs ---------------------------
(***************************************************************************)
(* The registry of plugins, for every directory of files, every set of     *)
(* functions and every wish: theorems of module Plugins.                   *)
(*                                                                         *)
(* Three facts carry everything.  hook_init lists a plugin with the ID that*)
(* plugin was told, so that the search of Register finds the caller or     *)
(* nobody (ListInv); an entry of the function table, once there, is        *)
(* replaced and never removed (CallInv); and what a call has run is told by*)
(* its step once nobody writes the table any more (RunInv).                *)
(***************************************************************************)
EXTENDS Plugins, TLAPS

ListInv ==
    /\ lpc \in {"load", "add"} =>
           /\ file \in Files \ left /\ ID[file] = count /\ plugin[file] = 0
    /\ lpc = "load" => spc[file] = "none"
    /\ lpc = "add" => Kind[file] = "good"
    /\ \A f \in left : plugin[f] = 0 /\ spc[f] = "none"
    /\ \A f \in Files : plugin[f] # 0 => plugin[f] = ID[f] /\ plugin[f] < count
    /\ \A f, g \in Files : plugin[f] # 0 /\ plugin[f] = plugin[g] => f = g
    /\ \A f \in Files : spc[f] # "none" =>
           /\ Kind[f] = "good"
           /\ plugin[f] # 0 \/ (lpc = "add" /\ file = f)

CallInv ==
    pc \in {"control", "action", "finish", "running"} => socket_driver_table[called] # NULL

Inv == TypeOK /\ ListInv /\ CallInv /\ OwnerRegistered /\ DiesOnlyLoading

-----------------------------------------------------------------------------
LEMMA InvInit == Init => Inv
<1> SUFFICES ASSUME Init PROVE Inv
  OBVIOUS
<1>1. TypeOK
  <2>1. Wanted \in [Files -> Functions]
    BY PluginsAssumption DEF PluginsAssumption, Init
  <2>2. socket_driver_control \in [Functions -> Controls]
    BY DEF Init, Controls
  <2>3. spc \in [Files -> Steps] /\ socket_driver_table \in [Functions -> Files \cup {NULL}]
    BY DEF Init, Steps
  <2>4. /\ plugin \in [Files -> Nat] /\ ID \in [Files -> Nat] /\ exits \in [Files -> Nat]
        /\ count \in Nat \ {0} /\ calls \in Nat
    BY DEF Init
  <2>5. lpc \in Loading /\ pc \in Looks /\ called \in Functions
    BY PluginsAssumption DEF PluginsAssumption, Init, Loading, Looks
  <2>6. /\ file \in Files \cup {NULL} /\ left \subseteq Files
        /\ plugin_exit \in Files \cup {NULL} /\ bEnablePlugin \in BOOLEAN
    BY DEF Init
  <2> QED
    BY <2>1, <2>2, <2>3, <2>4, <2>5, <2>6 DEF TypeOK
<1>2. ListInv /\ CallInv /\ OwnerRegistered /\ DiesOnlyLoading
  BY DEF Init, ListInv, CallInv, OwnerRegistered, DiesOnlyLoading
<1> QED
  BY <1>1, <1>2 DEF Inv

\* The search of Register finds the plugin that called it, or none.
LEMMA FoundIsCaller ==
    ASSUME TypeOK, ListInv, NEW f \in Files, spc[f] # "none",
           NEW g \in Files, plugin[g] # 0, plugin[g] = ID[f]
    PROVE  g = f
<1>1. CASE plugin[f] # 0
  BY <1>1 DEF ListInv
<1>2. CASE lpc = "add" /\ file = f
  <2>1. ID[f] = count /\ plugin[g] < count
    BY <1>2 DEF ListInv
  <2> QED
    BY <2>1 DEF TypeOK
<1> QED
  BY <1>1, <1>2 DEF ListInv

\* Storing one field of a function's control keeps the controls typed.
LEMMA SetTyped ==
    ASSUME TypeOK, NEW f \in Files, NEW field, NEW value, Set(f, field, value),
           \/ field \in {"enable", "fixed"} /\ value \in BOOLEAN
           \/ field = "action" /\ value \in {"return_finish", "return_running"}
           \/ field = "plugin" /\ value \in Files
    PROVE  socket_driver_control' \in [Functions -> Controls]
<1> DEFINE c == socket_driver_control[Wanted[f]]
<1>1. c \in Controls /\ Wanted[f] \in Functions
  BY DEF TypeOK
<1>2. [c EXCEPT ![field] = value] \in Controls
  BY <1>1 DEF Controls
<1> QED
  BY <1>1, <1>2 DEF TypeOK, Set

-----------------------------------------------------------------------------
(* hook_init *)

\* The loading keeps the list a list of what its plugins were told.
LEMMA LoadKeeps == Inv /\ ~crashed /\ Load => Inv'
<1> SUFFICES ASSUME Inv, ~crashed, Load PROVE Inv'
  OBVIOUS
<1> USE DEF Inv
<1>1. ASSUME NEW f \in Files, plugin_register(f)
      PROVE  TypeOK' /\ ListInv' /\ UNCHANGED <<Wanted, plugin, spc, taskVars, callVars, crashed>>
             /\ lpc # "done" /\ lpc' # "done"
  <2>1. TypeOK'
    BY <1>1, SMT DEF plugin_register, TypeOK, Loading, taskVars, callVars
  <2>2. ListInv'
    BY <1>1, SMT DEF plugin_register, TypeOK, Loading, ListInv
  <2> QED
    BY <1>1, <2>1, <2>2 DEF plugin_register
<1>2. ASSUME refuse_version
      PROVE  TypeOK' /\ ListInv' /\ UNCHANGED <<Wanted, plugin, spc, taskVars, callVars>>
             /\ lpc # "done" /\ lpc' # "done"
  <2>1. TypeOK'
    BY <1>2, SMT DEF refuse_version, Die, TypeOK, Loading, loadVars, taskVars, callVars
  <2>2. ListInv'
    BY <1>2, SMT DEF refuse_version, Die, TypeOK, ListInv, loadVars
  <2> QED
    BY <1>2, <2>1, <2>2 DEF refuse_version, Die, loadVars
<1>3. ASSUME dlsym
      PROVE  TypeOK' /\ ListInv' /\ UNCHANGED <<Wanted, taskVars, callVars, crashed>>
             /\ lpc # "done" /\ lpc' # "done"
  <2>0. file \in Files
    BY <1>3 DEF dlsym, ListInv
  <2>1. TypeOK'
    BY <1>3, <2>0, SMT DEF dlsym, SGoto, TypeOK, Loading, Steps, taskVars, callVars
  <2>2. ListInv'
    BY <1>3, <2>0, SMT DEF dlsym, SGoto, TypeOK, ListInv
  <2> QED
    BY <1>3, <2>1, <2>2 DEF dlsym
<1>4. ASSUME add_list
      PROVE  TypeOK' /\ ListInv' /\ UNCHANGED <<Wanted, taskVars, callVars, crashed>>
             /\ lpc # "done" /\ lpc' # "done"
  <2>0. file \in Files /\ count \in Nat
    BY <1>4 DEF add_list, ListInv, TypeOK
  <2>1. TypeOK'
    BY <1>4, <2>0, SMT DEF add_list, Listed, NextCount, TypeOK, Loading, taskVars, callVars
  <2>2. ListInv'
    BY <1>4, <2>0, SMT DEF add_list, Listed, NextCount, TypeOK, ListInv
  <2> QED
    BY <1>4, <2>1, <2>2 DEF add_list
<1>5. ASSUME hook_init_return
      PROVE  TypeOK' /\ ListInv' /\ UNCHANGED <<Wanted, taskVars, callVars, crashed>>
  <2>1. TypeOK'
    BY <1>5, SMT DEF hook_init_return, TypeOK, Loading, taskVars, callVars
  <2>2. ListInv'
    BY <1>5, SMT DEF hook_init_return, TypeOK, ListInv
  <2> QED
    BY <1>5, <2>1, <2>2 DEF hook_init_return
<1>6. UNCHANGED <<Wanted, taskVars, callVars>> /\ TypeOK' /\ ListInv'
  BY <1>1, <1>2, <1>3, <1>4, <1>5 DEF Load
<1>7. CallInv' /\ OwnerRegistered'
  BY <1>6, Zenon DEF CallInv, OwnerRegistered, Good, taskVars, callVars
<1>8. DiesOnlyLoading'
  BY <1>1, <1>2, <1>3, <1>4, <1>5 DEF Load, DiesOnlyLoading
<1> QED
  BY <1>6, <1>7, <1>8

-----------------------------------------------------------------------------
(* The set-up of a plugin *)

\* A set-up step moves the step of its plugin and leaves hook_init's state alone.
LEMMA StepTyped ==
    ASSUME TypeOK, ListInv, NEW f \in Files, spc[f] # "none", UNCHANGED loadVars,
           NEW step \in Steps \ {"none"}, SGoto(f, step)
    PROVE  spc' \in [Files -> Steps] /\ ListInv'
<1>1. spc' \in [Files -> Steps]
  BY DEF TypeOK, SGoto
<1>2. \A g \in Files : (spc'[g] = "none") <=> (spc[g] = "none")
  BY DEF TypeOK, SGoto
<1>3. ListInv'
  BY <1>2, SMT DEF ListInv, TypeOK, loadVars
<1> QED
  BY <1>1, <1>3

\* The owner of a function is left alone by every store but that of Register.
LEMMA OwnerKept ==
    ASSUME TypeOK, OwnerRegistered, NEW f \in Files, Wanted' = Wanted,
           NEW field \in {"enable", "fixed", "action"}, NEW value, Set(f, field, value)
    PROVE  OwnerRegistered'
<1>1. \A fn \in Functions : socket_driver_control'[fn].plugin = socket_driver_control[fn].plugin
  <2> SUFFICES ASSUME NEW fn \in Functions
               PROVE  socket_driver_control'[fn].plugin = socket_driver_control[fn].plugin
    OBVIOUS
  <2>1. socket_driver_control[fn] \in Controls /\ Wanted[f] \in Functions
    BY DEF TypeOK
  <2> QED
    BY <2>1 DEF TypeOK, Set, Controls
<1> QED
  BY <1>1 DEF OwnerRegistered, Good

\* A set-up step keeps the invariant.
LEMMA SetUpKeeps ==
    ASSUME Inv, ~crashed, NEW f \in Files, SetUp(f)
    PROVE  Inv'
<1> USE DEF Inv
<1>1. CASE plugin_setup(f)
  <2>1. spc' \in [Files -> Steps] /\ ListInv'
    BY <1>1, StepTyped DEF plugin_setup, Steps
  <2> QED
    BY <1>1, <2>1
    DEF plugin_setup, TypeOK, CallInv, OwnerRegistered, Good, DiesOnlyLoading, loadVars, callVars
<1>2. CASE Register(f)
  <2>1. spc' \in [Files -> Steps] /\ ListInv'
    BY <1>2, StepTyped DEF Register, Steps
  <2> QED
    BY <1>2, <2>1
    DEF Register, TypeOK, CallInv, OwnerRegistered, Good, DiesOnlyLoading, loadVars, taskVars,
        callVars
<1>3. CASE Register_search(f)
  <2>1. CASE (\A g \in Files : plugin[g] = 0) /\ Die
    <3>1. lpc # "done"
      BY <1>3, <2>1 DEF ListInv, Register_search
    <3> QED
      BY <2>1, <3>1
      DEF Die, TypeOK, ListInv, CallInv, OwnerRegistered, Good, DiesOnlyLoading, loadVars,
          taskVars, callVars
  <2>2. CASE \E g \in Files : plugin[g] # 0 /\ plugin[g] = ID[f] /\ Set(f, "plugin", g)
    <3>1. PICK g \in Files : plugin[g] # 0 /\ plugin[g] = ID[f] /\ Set(f, "plugin", g)
      BY <2>2
    <3>2. spc[f] # "none"
      BY <1>3 DEF Register_search
    <3>3. g = f
      BY <3>1, <3>2, FoundIsCaller
    <3>4. CASE ~Die
      <4>1. /\ UNCHANGED <<loadVars, bEnablePlugin, callVars, crashed, socket_driver_table>>
            /\ SGoto(f, "store")
        BY <1>3, <3>1, <3>4 DEF Register_search, TableMeanwhile
      <4>2. spc' \in [Files -> Steps] /\ ListInv'
        BY <4>1, <3>2, StepTyped DEF Steps
      <4>3. socket_driver_control' \in [Functions -> Controls]
        BY <3>1, SetTyped
      <4>4. f \in Good
        BY <3>2 DEF ListInv, Good
      <4>5. OwnerRegistered'
        <5> SUFFICES ASSUME NEW fn \in Functions, socket_driver_control'[fn].plugin # NULL
                     PROVE  /\ socket_driver_control'[fn].plugin \in Good
                            /\ Wanted[socket_driver_control'[fn].plugin] = fn
          BY <4>1 DEF OwnerRegistered, Good, loadVars
        <5>1. socket_driver_control[fn] \in Controls /\ Wanted[f] \in Functions
          BY DEF TypeOK
        <5>2. CASE fn = Wanted[f]
          BY <3>1, <3>3, <4>4, <5>1, <5>2 DEF TypeOK, Set, Controls
        <5>3. CASE fn # Wanted[f]
          BY <3>1, <5>1, <5>3 DEF TypeOK, Set, OwnerRegistered
        <5> QED
          BY <5>2, <5>3
      <4> QED
        BY <4>1, <4>2, <4>3, <4>5 DEF TypeOK, CallInv, DiesOnlyLoading, loadVars, callVars
    <3>5. CASE Die
      BY <1>3, <3>1, <3>5 DEF Register_search, Die
    <3> QED
      BY <3>4, <3>5
  <2>3. CASE UNCHANGED socket_driver_control /\ SGoto(f, "store")
             /\ UNCHANGED <<loadVars, bEnablePlugin, callVars, crashed, socket_driver_table>>
    <3>1. spc' \in [Files -> Steps] /\ ListInv'
      BY <1>3, <2>3, StepTyped DEF Register_search, Steps
    <3> QED
      BY <2>3, <3>1
      DEF TypeOK, CallInv, OwnerRegistered, Good, DiesOnlyLoading, loadVars, callVars
  <2> QED
    BY <1>3, <2>1, <2>2, <2>3 DEF Register_search, TableMeanwhile
<1>4. CASE Register_store(f)
  <2>1. spc' \in [Files -> Steps] /\ ListInv'
    BY <1>4, StepTyped DEF Register_store, Steps
  <2>2. f # NULL
    BY PluginsAssumption DEF PluginsAssumption
  <2>3. socket_driver_table' \in [Functions -> Files \cup {NULL}]
    BY <1>4 DEF Register_store, TypeOK
  <2>4. CallInv'
    BY <1>4, <2>2, SMT DEF Register_store, TypeOK, CallInv, callVars
  <2> QED
    BY <1>4, <2>1, <2>3, <2>4
    DEF Register_store, TypeOK, OwnerRegistered, Good, DiesOnlyLoading, loadVars, callVars
<1>5. CASE Enable(f) \/ Fixed(f) \/ Action(f) \/ Close(f)
  <2>1. /\ UNCHANGED <<loadVars, bEnablePlugin, socket_driver_table, callVars, crashed>>
        /\ spc[f] # "none"
        /\ \E step \in Steps \ {"none"} : SGoto(f, step)
    BY <1>5 DEF Enable, Fixed, Action, Close, Steps
  <2>2. spc' \in [Files -> Steps] /\ ListInv'
    BY <2>1, StepTyped
  <2>3. \/ UNCHANGED socket_driver_control
        \/ \E value \in BOOLEAN : Set(f, "enable", value) \/ Set(f, "fixed", value)
        \/ Set(f, "action", ActionOf(f))
    BY <1>5 DEF Enable, Fixed, Action, Close
  <2>4. ActionOf(f) \in {"return_finish", "return_running"}
    BY DEF ActionOf
  <2>5. socket_driver_control' \in [Functions -> Controls] /\ OwnerRegistered'
    <3>0. Wanted' = Wanted
      BY <2>1 DEF loadVars
    <3>1. CASE UNCHANGED socket_driver_control
      BY <3>0, <3>1 DEF TypeOK, OwnerRegistered, Good
    <3>2. ASSUME NEW value \in BOOLEAN, Set(f, "enable", value) \/ Set(f, "fixed", value)
          PROVE  socket_driver_control' \in [Functions -> Controls] /\ OwnerRegistered'
      BY <3>0, <3>2, SetTyped, OwnerKept
    <3>3. CASE Set(f, "action", ActionOf(f))
      BY <2>4, <3>0, <3>3, SetTyped, OwnerKept
    <3> QED
      BY <2>3, <3>1, <3>2, <3>3
  <2> QED
    BY <2>1, <2>2, <2>5 DEF TypeOK, CallInv, DiesOnlyLoading, loadVars, callVars
<1> QED
  BY <1>1, <1>2, <1>3, <1>4, <1>5 DEF SetUp

-----------------------------------------------------------------------------
(* The calls of the program *)

\* A step of an interception function keeps the invariant: what it found in the
\* table it still finds there when it calls.
LEMMA ProgramKeeps == Inv /\ Program => Inv'
<1> SUFFICES ASSUME Inv, Program PROVE Inv'
  OBVIOUS
<1> USE DEF Inv
<1>1. UNCHANGED <<loadVars, spc, taskVars, crashed>>
  BY DEF Program, call, test_plugins, test_table, test_enable, test_action, call_plugin,
         call_embedded, look, run
<1>2. ListInv' /\ OwnerRegistered' /\ DiesOnlyLoading'
  BY <1>1 DEF ListInv, OwnerRegistered, Good, DiesOnlyLoading, loadVars, taskVars
<1>3. pc' \in Looks /\ called' \in Functions /\ calls' \in Nat
  BY SMT DEF TypeOK, Looks, Program, call, test_plugins, test_table, test_enable, test_action,
         call_plugin, call_embedded, look, run
<1>4. CallInv'
  BY <1>1, SMT DEF CallInv, taskVars, Program, call, test_plugins, test_table, test_enable,
         test_action, call_plugin, call_embedded, look, run
<1>5. TypeOK'
  BY <1>1, <1>3 DEF TypeOK, loadVars, taskVars
<1> QED
  BY <1>2, <1>4, <1>5

LEMMA InvNext == Inv /\ [Next]_vars => Inv'
<1>1. Inv /\ UNCHANGED vars => Inv'
  BY DEF Inv, TypeOK, ListInv, CallInv, OwnerRegistered, Good, DiesOnlyLoading, vars, loadVars,
         taskVars, callVars
<1> QED
  BY <1>1, LoadKeeps, SetUpKeeps, ProgramKeeps DEF Next

-----------------------------------------------------------------------------
\* What SealedStays says of one step.
SealedStep == \A fn \in Functions : Sealed(fn) => (Sealed(fn)' /\ UNCHANGED socket_driver_table[fn])

\* A step keeps a function sealed if it takes no fixed mark away, lets no set-up
\* past the test of Register that found the mark, and stores nothing to the table.
LEMMA SealKept ==
    ASSUME Wanted' = Wanted, socket_driver_table' = socket_driver_table,
           \A fn \in Functions :
               socket_driver_control[fn].fixed => socket_driver_control'[fn].fixed,
           \A f \in Good : spc'[f] \in {"search", "store"} =>
               \/ spc[f] \in {"search", "store"}
               \/ ~socket_driver_control[Wanted[f]].fixed
    PROVE  SealedStep
  BY Zenon DEF SealedStep, Sealed, Good

\* A store to another field than fixed, or of TRUE, takes no mark away.
LEMMA MarkKept ==
    ASSUME TypeOK, NEW f \in Files, NEW field, NEW value, Set(f, field, value),
           field # "fixed" \/ value = TRUE
    PROVE  \A fn \in Functions :
               socket_driver_control[fn].fixed => socket_driver_control'[fn].fixed
<1> SUFFICES ASSUME NEW fn \in Functions, socket_driver_control[fn].fixed
             PROVE  socket_driver_control'[fn].fixed
  OBVIOUS
<1>1. socket_driver_control[fn] \in Controls /\ Wanted[f] \in Functions
  BY DEF TypeOK
<1> QED
  BY <1>1 DEF TypeOK, Set, Controls

LEMMA SealedNext == Inv /\ [Next]_vars => [SealedStep]_vars
<1> SUFFICES ASSUME Inv, Next PROVE SealedStep
  OBVIOUS
<1> USE DEF Inv
<1>1. CASE Load
  <2>1. /\ Wanted' = Wanted /\ UNCHANGED taskVars
        /\ spc' = spc \/ (file \in Files /\ SGoto(file, "on"))
    BY <1>1, SMT DEF Load, plugin_register, refuse_version, Die, dlsym, add_list,
                hook_init_return, loadVars, ListInv
  <2>2. \A f \in Good : spc'[f] \in {"search", "store"} => spc[f] \in {"search", "store"}
    BY <2>1, SMT DEF SGoto, TypeOK, Good
  <2> QED
    BY <2>1, <2>2, SealKept DEF taskVars
<1>2. CASE Program
  <2>1. UNCHANGED <<loadVars, spc, taskVars>>
    BY <1>2 DEF Program, call, test_plugins, test_table, test_enable, test_action, call_plugin,
           call_embedded, look, run
  <2> QED
    BY <2>1, SealKept DEF loadVars, taskVars
<1>3. ASSUME NEW f \in Files, SetUp(f)
      PROVE  SealedStep
  <2>1. ASSUME NEW step, step \notin {"search", "store"}, SGoto(f, step)
        PROVE  \A g \in Good : spc'[g] \in {"search", "store"} => spc[g] \in {"search", "store"}
    BY <2>1, SMT DEF SGoto, TypeOK, Good
  <2>2. CASE plugin_setup(f)
    BY <2>1, <2>2, SealKept DEF plugin_setup, loadVars
  <2>3. CASE Register(f)
    <3>1. \A g \in Good : spc'[g] \in {"search", "store"} =>
              spc[g] \in {"search", "store"} \/ ~socket_driver_control[Wanted[g]].fixed
      BY <2>3, SMT DEF Register, IsFixed, SGoto, TypeOK, Good
    <3> QED
      BY <2>3, <3>1, SealKept DEF Register, loadVars, taskVars
  <2>4. CASE Register_search(f)
    <3>1. CASE Die
      BY <3>1, SealKept DEF Die, loadVars, taskVars
    <3>2. CASE ~Die
      <4>1. /\ UNCHANGED <<loadVars, socket_driver_table>> /\ SGoto(f, "store")
            /\ UNCHANGED socket_driver_control \/ \E g \in Files : Set(f, "plugin", g)
            /\ spc[f] = "search"
        BY <2>4, <3>2 DEF Register_search, TableMeanwhile
      <4>2. \A fn \in Functions :
                socket_driver_control[fn].fixed => socket_driver_control'[fn].fixed
        <5>1. CASE UNCHANGED socket_driver_control
          BY <5>1
        <5>2. ASSUME NEW g \in Files, Set(f, "plugin", g)
              PROVE  \A fn \in Functions :
                         socket_driver_control[fn].fixed => socket_driver_control'[fn].fixed
          <6>1. "plugin" # "fixed"
            OBVIOUS
          <6> QED
            BY <5>2, <6>1, MarkKept
        <5> QED
          BY <4>1, <5>1, <5>2
      <4>3. \A g \in Good : spc'[g] \in {"search", "store"} => spc[g] \in {"search", "store"}
        BY <4>1, SMT DEF SGoto, TypeOK, Good
      <4> QED
        BY <4>1, <4>2, <4>3, SealKept DEF loadVars
    <3> QED
      BY <3>1, <3>2
  <2>5. CASE Register_store(f)
    <3>1. f \in Good
      BY <2>5 DEF Register_store, ListInv, Good
    <3>2. \A fn \in Functions : Sealed(fn) => fn # Wanted[f]
      BY <2>5, <3>1 DEF Register_store, Sealed
    <3>3. \A g \in Good : spc'[g] \in {"search", "store"} => spc[g] \in {"search", "store"}
      BY <2>5, SMT DEF Register_store, SGoto, TypeOK, Good
    <3>4. \A fn \in Functions : fn # Wanted[f] => socket_driver_table'[fn] = socket_driver_table[fn]
      BY <2>5, SMT DEF Register_store, TypeOK
    <3>5. Wanted' = Wanted /\ socket_driver_control' = socket_driver_control
      BY <2>5 DEF Register_store, loadVars
    <3> QED
      BY <3>2, <3>3, <3>4, <3>5, Zenon DEF SealedStep, Sealed, Good
  <2>6. CASE Enable(f) \/ Fixed(f) \/ Action(f) \/ Close(f)
    <3>1. /\ UNCHANGED <<loadVars, socket_driver_table>>
          /\ \E step \in Steps \ {"search", "store"} : SGoto(f, step)
          /\ \/ UNCHANGED socket_driver_control
             \/ Set(f, "fixed", TRUE) \/ Set(f, "action", ActionOf(f))
             \/ \E value \in BOOLEAN : Set(f, "enable", value)
      BY <2>6 DEF Enable, Fixed, Action, Close, Steps
    <3>2. \A fn \in Functions :
              socket_driver_control[fn].fixed => socket_driver_control'[fn].fixed
      <4>1. CASE UNCHANGED socket_driver_control
        BY <4>1
      <4>2. ASSUME NEW field \in {"enable", "action"}, NEW value, Set(f, field, value)
            PROVE  \A fn \in Functions :
                       socket_driver_control[fn].fixed => socket_driver_control'[fn].fixed
        <5>1. field # "fixed"
          OBVIOUS
        <5> QED
          BY <4>2, <5>1, MarkKept
      <4>3. CASE Set(f, "fixed", TRUE)
        BY <4>3, MarkKept
      <4> QED
        BY <3>1, <4>1, <4>2, <4>3
    <3> QED
      BY <2>1, <3>1, <3>2, SealKept DEF loadVars
  <2> QED
    BY <1>3, <2>2, <2>3, <2>4, <2>5, <2>6 DEF SetUp
<1> QED
  BY <1>1, <1>2, <1>3 DEF Next

-----------------------------------------------------------------------------
\* The variables keep their types, whatever files stand in the directory.
THEOREM PluginsTyped == Spec => []TypeOK
<1> QED
  BY InvInit, InvNext, PTL DEF Spec, Inv

\* For every directory of files: the owner of a function is a loaded plugin that
\* registered for it, although IDs are given again and the list is not locked.
THEOREM OwnerSafe == Spec => []OwnerRegistered
<1> QED
  BY InvInit, InvNext, PTL DEF Spec, Inv

\* For every directory of files: no interception function calls through an empty
\* entry, at whatever step of whatever set-up it looks at the table.
THEOREM CallSafe == Spec => []NeverCallsNull
<1>1. Inv => NeverCallsNull
  BY DEF Inv, CallInv, NeverCallsNull
<1> QED
  BY <1>1, InvInit, InvNext, PTL DEF Spec

\* For every directory of files: the loading kills the program at once or not
\* at all.
THEOREM LoadingSafe == Spec => []DiesOnlyLoading
<1> QED
  BY InvInit, InvNext, PTL DEF Spec, Inv

\* For every directory of files: a function that is fixed, with no Register of it
\* under way, keeps its plugin for good.
THEOREM SealedSafe == Spec => SealedStays
<1>1. Inv /\ [Next]_vars => [\A fn \in Functions : Sealed(fn) =>
           (Sealed(fn)' /\ UNCHANGED socket_driver_table[fn])]_vars
  BY SealedNext DEF SealedStep
<1> QED
  BY <1>1, InvInit, InvNext, PTL DEF Spec, SealedStays

-----------------------------------------------------------------------------
\* A call that began after all set-ups sees a table nobody writes any more; what
\* it has run is told by its step.
RunInv ==
    late =>
        /\ SetUpOver /\ lpc = "done"
        /\ called # "send" =>
               /\ pc \in {"enabled", "table", "control", "action", "finish", "running"} =>
                      ran = <<>>
               /\ pc = "finish" => TestFinish
               /\ pc = "default" => ran \in {<<>>, <<socket_driver_table[called]>>}
               /\ (pc = "out" /\ TestRunning) =>
                      ran \in {<<Default>>, <<socket_driver_table[called], Default>>}

LEMMA Appended ==
    ASSUME NEW x, NEW y
    PROVE  Append(<<>>, x) = <<x>> /\ Append(<<x>>, y) = <<x, y>>
<1> DEFINE S == {x, y}
<1>1. <<>> \in Seq(S) /\ x \in S /\ <<x>> \in Seq(S) /\ y \in S /\ <<x, y>> \in Seq(S)
  OBVIOUS
<1>2. Append(<<>>, x) = <<x>>
  <2>1. Append(<<>>, x) \in Seq(S) /\ Len(Append(<<>>, x)) = 1 /\ Append(<<>>, x)[1] = x
    BY <1>1
  <2> QED
    BY <1>1, <2>1
<1>3. Append(<<x>>, y) = <<x, y>>
  <2> DEFINE s == Append(<<x>>, y)
             t == <<x, y>>
  <2>1. s \in Seq(S) /\ Len(s) = 2 /\ s[1] = x /\ s[2] = y
    BY <1>1
  <2>2. t \in Seq(S) /\ Len(t) = 2 /\ t[1] = x /\ t[2] = y
    OBVIOUS
  <2> HIDE DEF s, t
  <2>3. s = t
    BY <2>1, <2>2
  <2> QED
    BY <2>3 DEF s, t
<1> QED
  BY <1>2, <1>3

\* Once all set-ups are over and hook_init has returned, only the program moves.
LEMMA OnlyProgram ==
    ASSUME Inv, SetUpOver, lpc = "done", Next
    PROVE  Program
<1>1. ~Load
  BY DEF Load, plugin_register, refuse_version, dlsym, add_list, hook_init_return
<1>2. ASSUME NEW f \in Files, SetUp(f)
      PROVE  FALSE
  <2>1. spc[f] \in {"none", "end"}
    BY DEF Inv, ListInv, SetUpOver, Good
  <2> QED
    BY <1>2, <2>1 DEF SetUp, plugin_setup, Register, Register_search, Register_store, Enable,
                      Fixed, Action, Close
<1> QED
  BY <1>1, <1>2 DEF Next

\* A step of an interception function keeps the record of what the call has run.
LEMMA ProgramRuns ==
    ASSUME Inv, RunInv, Program
    PROVE  RunInv'
<1>1. UNCHANGED <<loadVars, spc, taskVars, crashed>>
  BY DEF Program, call, test_plugins, test_table, test_enable, test_action, call_plugin,
         call_embedded, look, run
<1>2. lpc' = lpc /\ (SetUpOver' <=> SetUpOver)
  BY <1>1 DEF SetUpOver, Good, loadVars
<1>3. CASE \E fn \in Functions : call(fn)
  <2>1. lpc = "done" /\ late' = SetUpOver /\ ran' = <<>> /\ pc' = "enabled"
    BY <1>3 DEF call
  <2> QED
    BY <1>2, <2>1 DEF RunInv
<1>4. CASE ~\E fn \in Functions : call(fn)
  <2> SUFFICES ASSUME late', called # "send"
               PROVE  /\ pc' \in {"enabled", "table", "control", "action", "finish", "running"} =>
                             ran' = <<>>
                      /\ pc' = "finish" => TestFinish
                      /\ pc' = "default" => ran' \in {<<>>, <<socket_driver_table[called]>>}
                      /\ (pc' = "out" /\ TestRunning) =>
                             ran' \in {<<Default>>, <<socket_driver_table[called], Default>>}
    <3>1. late' = late /\ called' = called
      BY <1>4 DEF Program, test_plugins, test_table, test_enable, test_action, call_plugin,
             call_embedded, look, run
    <3> QED
      BY <1>1, <1>2, <3>1 DEF RunInv, TestFinish, TestRunning, taskVars
  <2>1. late
    BY <1>4 DEF Program, test_plugins, test_table, test_enable, test_action, call_plugin,
           call_embedded, look, run
  <2>2. CASE test_plugins \/ test_table \/ test_enable \/ test_action
    BY <2>1, <2>2
    DEF RunInv, test_plugins, test_table, test_enable, test_action, look
  <2>3. CASE pc = "finish" /\ run(socket_driver_table[called], "out")
    <3>1. ~TestRunning
      BY <2>1, <2>3 DEF RunInv, TestFinish, TestRunning
    <3> QED
      BY <2>3, <3>1 DEF run
  <2>4. CASE pc = "running" /\ run(socket_driver_table[called], "default")
    BY <2>1, <2>4, Appended, Zenon DEF RunInv, run
  <2>5. CASE call_embedded
    <3>1. pc = "default" /\ run(Default, "out")
      BY <2>5 DEF call_embedded, SendsPlugin
    <3>2. ran \in {<<>>, <<socket_driver_table[called]>>}
      BY <2>1, <3>1 DEF RunInv
    <3>3. ran' = Append(ran, Default) /\ pc' = "out"
      BY <3>1 DEF run
    <3>4. ran' \in {<<Default>>, <<socket_driver_table[called], Default>>}
      BY <3>2, <3>3, Appended, Zenon
    <3> QED
      BY <3>3, <3>4
  <2> QED
    BY <1>4, <2>2, <2>3, <2>4, <2>5 DEF Program, call_plugin
<1> QED
  BY <1>3, <1>4

LEMMA RunNext == Inv /\ RunInv /\ [Next]_vars => RunInv'
<1> SUFFICES ASSUME Inv, RunInv, [Next]_vars
             PROVE  RunInv'
  OBVIOUS
<1>1. CASE UNCHANGED vars
  BY <1>1 DEF RunInv, SetUpOver, Good, TestFinish, TestRunning, vars, loadVars, taskVars, callVars
<1>2. CASE Program
  BY <1>2, ProgramRuns
<1>3. CASE Next /\ ~Program
  <2>1. late' = late
    <3>1. CASE Load
      BY <3>1, Zenon DEF Load, plugin_register, refuse_version, Die, dlsym, add_list,
                         hook_init_return, callVars
    <3>2. ASSUME NEW f \in Files, SetUp(f)
          PROVE  late' = late
      BY <3>2, Zenon DEF SetUp, plugin_setup, Register, Register_search, Register_store, Die,
                         Enable, Fixed, Action, Close, callVars
    <3> QED
      BY <1>3, <3>1, <3>2 DEF Next
  <2>2. ~late
    BY <1>3, OnlyProgram DEF RunInv
  <2> QED
    BY <2>1, <2>2 DEF RunInv
<1> QED
  BY <1>1, <1>2, <1>3

\* For every directory of files: a call that began when all set-ups were over and
\* whose function is to run the default as well has run the default once, in the
\* end, and before it at most the plugin; in every function but send.
THEOREM RunningSafe == Spec => []RunningRunsDefault
<1>1. Init => RunInv
  BY DEF Init, RunInv
<1>2. RunInv => RunningRunsDefault
  BY DEF RunInv, RunningRunsDefault, RunsDefault, TestRunning
<1> QED
  BY <1>1, <1>2, InvInit, InvNext, RunNext, PTL DEF Spec
=============================================================================
