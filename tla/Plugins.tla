------------------------------ MODULE Plugins ------------------------------
(***************************************************************************)
(* Plugins: the loading by the constructor hook_init, the calls a plugin   *)
(* makes while it sets itself up, and the interception functions of the    *)
(* program that look at what the plugins left in the task structure.       *)
(*                                                                         *)
(* Each plugin sets itself up in a thread of its own, which is started     *)
(* before the plugin is in the list.  The program calls once hook_init is  *)
(* over, but the set-ups may still run.  Nothing in the task structure is  *)
(* locked: every load and store of the three parties is a step.  Only the  *)
(* walk of Register along the list and its store of what it found are one: *)
(* the IDs in the list differ, and a listed plugin keeps its own.          *)
(*                                                                         *)
(* A set-up is that of the plugin the repository ships: switch plugins on, *)
(* Register, Enable, Fixed, Action, looking at no result.  All interception*)
(* functions look at the same four fields, with the same text in socket.c, *)
(* client.c and server.c.                                                  *)
(***************************************************************************)
EXTENDS Integers, FiniteSets, Sequences

CONSTANTS Files,         \* what stands in PLUGIN_PATH
          NULL,
          Kind,          \* Kind[f]: how far the loading of f gets
          Functions,     \* the functions that can be taken over
          Wishes,        \* what each file may be after: functions of Files
          Fixers,        \* the plugins that call Fixed
          Runners,       \* those that ask for return_running
          Closers,       \* those that call Close in the end
          MaxCalls       \* calls the program makes

Kinds == {"good",        \* is loaded
          "unusable",    \* not a library, or plugin_register refuses
          "version",     \* an unsupported version
          "noexit",      \* without plugin_exit
          "nosetup"}     \* without plugin_setup

ASSUME PluginsAssumption ==
    /\ IsFiniteSet(Files) /\ NULL \notin Files
    /\ Kind \in [Files -> Kinds]
    /\ "send" \in Functions
    /\ Wishes \subseteq [Files -> Functions]
    /\ Fixers \subseteq Files /\ Runners \subseteq Files /\ Closers \subseteq Files
    /\ MaxCalls \in Nat

Good == {f \in Files : Kind[f] = "good"}
Default == <<"default">>       \* the embedded function

VARIABLES
    Wanted,              \* Wanted[f]: the function f registers for
    lpc, file, left,     \* of hook_init: step, file at hand, files to come
    count, plugin_exit,  \* its counter, and the last plugin_exit it looked up
    plugin,              \* the list: plugin[f] is the ID f has there, or 0
    ID,                  \* the ID f was told when it registered
    exits,               \* how often plugin_exit of f was called
    spc,                 \* step of the set-up of f
    bEnablePlugin,
    socket_driver_table,       \* per function: who took it over, or NULL
    socket_driver_control,     \* per function: enable, action, fixed, plugin
    pc, called, calls,   \* of the program: step, function, calls made
    ran,                 \* what its last call has run
    late,                \* that call began when all set-ups were over
    crashed              \* the program died

loadVars == <<Wanted, lpc, file, left, count, plugin_exit, plugin, ID, exits>>
taskVars == <<bEnablePlugin, socket_driver_table, socket_driver_control>>
callVars == <<pc, called, calls, ran, late>>
vars == <<loadVars, spc, taskVars, callVars, crashed>>

Die == crashed' = TRUE /\ UNCHANGED <<loadVars, spc, taskVars, callVars>>
SGoto(f, step) == spc' = [spc EXCEPT ![f] = step]

-----------------------------------------------------------------------------
(* hook_init *)

\* The next file is opened, and its plugin_register told the counter as its ID.
plugin_register(f) ==
    /\ lpc = "scan" /\ f \in left
    /\ left' = left \ {f}
    /\ ID' = [ID EXCEPT ![f] = count]
    /\ \/ Kind[f] = "unusable" /\ UNCHANGED <<lpc, file>>
       \/ Kind[f] # "unusable" /\ lpc' = "load" /\ file' = f
    /\ UNCHANGED <<Wanted, count, plugin_exit, plugin, exits, spc, taskVars, callVars,
                   crashed>>

\* The plugin_exit called for a plugin of another version is the one looked up for
\* an earlier file, if any.
refuse_version ==
    /\ lpc = "load" /\ Kind[file] = "version"
    /\ \/ plugin_exit = NULL /\ Die
       \/ /\ plugin_exit # NULL
          /\ exits' = [exits EXCEPT ![plugin_exit] = @ + 1]
          /\ lpc' = "scan"
          /\ UNCHANGED <<Wanted, file, left, count, plugin_exit, plugin, ID, spc,
                         taskVars, callVars, crashed>>

\* dlsym of plugin_exit and plugin_setup, and pthread_create.
dlsym ==
    /\ lpc = "load" /\ Kind[file] # "version"
    /\ plugin_exit' = IF Kind[file] = "noexit" THEN NULL ELSE file
    /\ \/ Kind[file] = "good" /\ lpc' = "add" /\ SGoto(file, "on")
       \/ Kind[file] # "good" /\ lpc' = "scan" /\ UNCHANGED spc
    /\ UNCHANGED <<Wanted, file, left, count, plugin, ID, exits, taskVars, callVars,
                   crashed>>

\* mutant: the plugin is counted and not listed
NotListed == plugin
Listed == [plugin EXCEPT ![file] = count]

\* mutant: the counter stays
CountStays == count
NextCount == count + 1

add_list ==
    /\ lpc = "add"
    /\ plugin' = Listed
    /\ count' = NextCount
    /\ lpc' = "scan"
    /\ UNCHANGED <<Wanted, file, left, plugin_exit, ID, exits, spc, taskVars, callVars,
                   crashed>>

hook_init_return ==
    /\ lpc = "scan" /\ left = {}
    /\ lpc' = "done"
    /\ UNCHANGED <<Wanted, file, left, count, plugin_exit, plugin, ID, exits, spc,
                   taskVars, callVars, crashed>>

-----------------------------------------------------------------------------
(* The set-up of a plugin *)

Set(f, field, value) ==
    socket_driver_control' = [socket_driver_control EXCEPT ![Wanted[f]][field] = value]

plugin_setup(f) ==
    /\ spc[f] = "on"
    /\ bEnablePlugin' = TRUE
    /\ SGoto(f, "register")
    /\ UNCHANGED <<loadVars, socket_driver_table, socket_driver_control, callVars,
                   crashed>>

\* mutant: Register does not look whether the function is fixed
NeverFixed(fn) == FALSE
IsFixed(fn) == socket_driver_control[fn].fixed

Register(f) ==
    /\ spc[f] = "register"
    /\ SGoto(f, IF IsFixed(Wanted[f]) THEN "enable" ELSE "search")
    /\ UNCHANGED <<loadVars, taskVars, callVars, crashed>>

\* mutant: nobody has the function while it is registered anew
TableEmptied(f) == [socket_driver_table EXCEPT ![Wanted[f]] = NULL]
TableMeanwhile(f) == socket_driver_table

\* The plugin is looked up by its ID; the search starts behind the list's head, which
\* is no plugin and whose target is no pointer: an empty list is dereferenced.
Register_search(f) ==
    LET found == {g \in Files : plugin[g] # 0 /\ plugin[g] = ID[f]} IN
    /\ spc[f] = "search"
    /\ \/ (\A g \in Files : plugin[g] = 0) /\ Die
       \/ /\ \E g \in Files : plugin[g] # 0
          /\ \/ \E g \in found : Set(f, "plugin", g)
             \/ found = {} /\ UNCHANGED socket_driver_control
          /\ socket_driver_table' = TableMeanwhile(f)
          /\ SGoto(f, "store")
          /\ UNCHANGED <<loadVars, bEnablePlugin, callVars, crashed>>

Register_store(f) ==
    /\ spc[f] = "store"
    /\ socket_driver_table' = [socket_driver_table EXCEPT ![Wanted[f]] = f]
    /\ SGoto(f, "enable")
    /\ UNCHANGED <<loadVars, bEnablePlugin, socket_driver_control, callVars, crashed>>

Enable(f) ==
    /\ spc[f] = "enable"
    /\ Set(f, "enable", TRUE)
    /\ SGoto(f, "fix")
    /\ UNCHANGED <<loadVars, bEnablePlugin, socket_driver_table, callVars, crashed>>

Fixed(f) ==
    /\ spc[f] = "fix"
    /\ \/ f \in Fixers /\ Set(f, "fixed", TRUE)
       \/ f \notin Fixers /\ UNCHANGED socket_driver_control
    /\ SGoto(f, "action")
    /\ UNCHANGED <<loadVars, bEnablePlugin, socket_driver_table, callVars, crashed>>

ActionOf(f) == IF f \in Runners THEN "return_running" ELSE "return_finish"

Action(f) ==
    /\ spc[f] = "action"
    /\ Set(f, "action", ActionOf(f))
    /\ SGoto(f, IF f \in Closers THEN "close" ELSE "end")
    /\ UNCHANGED <<loadVars, bEnablePlugin, socket_driver_table, callVars, crashed>>

Close(f) ==
    /\ spc[f] = "close"
    /\ Set(f, "enable", FALSE)
    /\ SGoto(f, "end")
    /\ UNCHANGED <<loadVars, bEnablePlugin, socket_driver_table, callVars, crashed>>

-----------------------------------------------------------------------------
(* A call of the program: any of the interception functions *)

SetUpOver == \A f \in Good : spc[f] = "end"

call(fn) ==
    /\ lpc = "done" /\ pc = "out" /\ calls < MaxCalls
    /\ pc' = "enabled"
    /\ called' = fn
    /\ calls' = calls + 1
    /\ ran' = <<>>
    /\ late' = SetUpOver
    /\ UNCHANGED <<loadVars, spc, taskVars, crashed>>

look(step, test, next, otherwise) ==
    /\ pc = step
    /\ pc' = IF test THEN next ELSE otherwise
    /\ UNCHANGED <<loadVars, spc, taskVars, called, calls, ran, late, crashed>>

test_plugins == look("enabled", bEnablePlugin, "table", "default")
test_table == look("table", socket_driver_table[called] # NULL, "control", "default")
test_enable == look("control", socket_driver_control[called].enable, "action", "default")

\* mutant: the tests of the two actions are swapped
TestRunning == socket_driver_control[called].action = "return_running"
TestFinish == socket_driver_control[called].action = "return_finish"
test_action == look("action", TestFinish, "finish", "running")

run(what, next) ==
    /\ ran' = Append(ran, what)
    /\ pc' = next
    /\ UNCHANGED <<loadVars, spc, taskVars, called, calls, late, crashed>>

call_plugin == \/ pc = "finish" /\ run(socket_driver_table[called], "out")
               \/ pc = "running" /\ run(socket_driver_table[called], "default")

\* embedded_send looks once more for a plugin, enabled or not.
SendsPlugin == called = "send" /\ socket_driver_table["send"] # NULL /\ bEnablePlugin

call_embedded ==
    /\ pc = "default"
    /\ \/ SendsPlugin /\ run(socket_driver_table["send"], "out")
       \/ ~SendsPlugin /\ run(Default, "out")

-----------------------------------------------------------------------------
Init ==
    /\ Wanted \in Wishes
    /\ lpc = "scan" /\ file = NULL /\ left = Files
    /\ count = 1 /\ plugin_exit = NULL
    /\ plugin = [f \in Files |-> 0]
    /\ ID = [f \in Files |-> 0]
    /\ exits = [f \in Files |-> 0]
    /\ spc = [f \in Files |-> "none"]
    /\ bEnablePlugin = FALSE
    /\ socket_driver_table = [fn \in Functions |-> NULL]
    /\ socket_driver_control = [fn \in Functions |->
           [enable |-> FALSE, action |-> "return_finish", fixed |-> FALSE,
            plugin |-> NULL]]
    /\ pc = "out" /\ called = "send" /\ calls = 0 /\ ran = <<>> /\ late = FALSE
    /\ crashed = FALSE

Load == \/ \E f \in Files : plugin_register(f)
        \/ refuse_version \/ dlsym \/ add_list \/ hook_init_return

SetUp(f) ==
    \/ plugin_setup(f) \/ Register(f) \/ Register_search(f) \/ Register_store(f)
    \/ Enable(f) \/ Fixed(f) \/ Action(f) \/ Close(f)

Program ==
    \/ \E fn \in Functions : call(fn)
    \/ test_plugins \/ test_table \/ test_enable \/ test_action
    \/ call_plugin \/ call_embedded

Next == ~crashed /\ (Load \/ (\E f \in Files : SetUp(f)) \/ Program)

Spec == Init /\ [][Next]_vars

-----------------------------------------------------------------------------
(* Properties *)

Controls == [enable : BOOLEAN, action : {"return_finish", "return_running"},
             fixed : BOOLEAN, plugin : Files \cup {NULL}]

Loading == {"scan", "load", "add", "done"}
Steps == {"none", "on", "register", "search", "store", "enable", "fix", "action",
          "close", "end"}
Looks == {"out", "enabled", "table", "control", "action", "finish", "running", "default"}

\* The type invariant.
TypeOK ==
    /\ Wanted \in [Files -> Functions]
    /\ lpc \in Loading /\ file \in Files \cup {NULL} /\ left \subseteq Files
    /\ count \in Nat \ {0} /\ plugin_exit \in Files \cup {NULL}
    /\ plugin \in [Files -> Nat] /\ ID \in [Files -> Nat] /\ exits \in [Files -> Nat]
    /\ spc \in [Files -> Steps]
    /\ bEnablePlugin \in BOOLEAN
    /\ socket_driver_table \in [Functions -> Files \cup {NULL}]
    /\ socket_driver_control \in [Functions -> Controls]
    /\ pc \in Looks /\ called \in Functions /\ calls \in Nat

\* Whoever stands as the owner of a function is a loaded plugin that registered for
\* it, although an ID that was told to a plugin refused afterwards is given again and
\* the list grows while it is searched.
OwnerRegistered ==
    \A fn \in Functions :
        LET owner == socket_driver_control[fn].plugin
        IN  owner # NULL => owner \in Good /\ Wanted[owner] = fn

\* A set-up thread may run before its plugin is listed, and an empty list kills the
\* program, as does a first plugin of another version: but only while hook_init
\* runs.  What it has loaded does not kill the program afterwards.
DiesOnlyLoading == crashed => lpc # "done"

\* An interception function tests the table and calls through it later: there is a
\* function to call whatever the set-ups do in between.
NeverCallsNull == pc \in {"finish", "running"} => socket_driver_table[called] # NULL

\* A function is sealed when it is fixed and no Register that found it free is
\* still under way.
Sealed(fn) ==
    /\ socket_driver_control[fn].fixed
    /\ \A f \in Good : Wanted[f] = fn => spc[f] \notin {"search", "store"}

\* A sealed function stays sealed, and with the plugin that has it.  (A fixed one
\* need not: Register tests and stores in two steps.)
SealedStays ==
    [][\A fn \in Functions : Sealed(fn) =>
           (Sealed(fn)' /\ UNCHANGED socket_driver_table[fn])]_vars

\* What a call that began after all set-ups has run, when its function is to run the
\* default as well: the default once, in the end, and before it at most the plugin.
RunsDefault(fn) ==
    (/\ called = fn /\ late /\ pc = "out"
     /\ socket_driver_control[fn].action = "return_running")
    => ran \in {<<Default>>, <<socket_driver_table[fn], Default>>}

\* return_running lets the default run, in every function but send.
RunningRunsDefault == \A fn \in Functions \ {"send"} : RunsDefault(fn)

\* return_running lets the default of send run.  (It does not: embedded_send calls
\* the plugin again and returns.)
SendRunsDefault == RunsDefault("send")
=============================================================================
