---------------------------- MODULE PluginManager ----------------------------
(***************************************************************************)
(* src/plugin/pluginManager.ts, with the part of the StellarClient's       *)
(* constructor that uses it.  A call that awaits a plugin's hook is a task; *)
(* two may be under way at once, while clients are constructed.            *)
(*                                                                         *)
(* Every plugin has all hooks and middleware.  A plugin registered again   *)
(* is a new instance; instances are numbered in that order, which is the   *)
(* order of the Map.  register() with autoInstall is Register followed by  *)
(* Install.                                                                *)
(***************************************************************************)
EXTENDS Integers, Sequences, FiniteSets, SequencesExt

CONSTANTS
  Plugins,
  Clients,
  PluginTasks,  \* identities of calls that wait for a hook
  MaxInstances  \* bound on registrations

ASSUME PluginAssumption == MaxInstances \in Nat

VARIABLES
  pluginOf,   \* the plugin of each instance
  registered, \* the instances in the Map
  installed,  \* those whose `installed' is set
  clients,    \* the manager's clients, in the order they were added
  applied,    \* each client: "none", "waiting" for applyToClient, or "applied"
  served,     \* the instances whose middleware each client has
  pluginTasks, \* what each call waits for
  excused     \* <<i, c>> where a hook failed before i reached c

pluginVars == <<pluginOf, registered, installed, clients, applied, served, pluginTasks, excused>>
registry == <<pluginOf, registered, installed>>
fleet == <<clients, applied>>

NoTask == [kind |-> "none", i |-> 0, todo |-> {}, at |-> 0]
Free(t) == pluginTasks[t].kind = "none"
Current(p) == {i \in registered : pluginOf[i] = p}

PluginInit ==
  /\ pluginOf = <<>> /\ registered = {} /\ installed = {} /\ clients = <<>>
  /\ applied = [c \in Clients |-> "none"] /\ served = [c \in Clients |-> {}]
  /\ pluginTasks = [t \in PluginTasks |-> NoTask] /\ excused = {}

\* getInstalled(); the order of the Map is that of the numbers.
GetInstalled == registered \cap installed

Register(p) ==
  /\ Current(p) = {} /\ Len(pluginOf) < MaxInstances
  /\ pluginOf' = Append(pluginOf, p)
  /\ registered' = registered \cup {Len(pluginOf) + 1}
  /\ UNCHANGED <<installed, fleet, served, pluginTasks, excused>>

\* install(), up to the await of onInstall
Install(t, p) ==
  /\ Free(t)
  /\ \E i \in Current(p) \ installed :
       pluginTasks' = [pluginTasks EXCEPT ![t] = [NoTask EXCEPT !.kind = "install", !.i = i]]
  /\ UNCHANGED <<registry, fleet, served, excused>>

\* An installation goes on with the client at index `at', if there is one: the
\* Set is iterated as it is at that moment.
NextClient(t, at) ==
  pluginTasks' = [pluginTasks EXCEPT ![t] =
    IF at <= Len(clients) THEN [@ EXCEPT !.kind = "clients", !.at = at] ELSE NoTask]

\* onInstall has returned.
Installed(t) ==
  /\ pluginTasks[t].kind = "install"
  /\ installed' = installed \cup {pluginTasks[t].i}
  /\ NextClient(t, 1)
  /\ UNCHANGED <<pluginOf, registered, fleet, served, excused>>

\* afterClientInit has returned, in an installation.
ClientServed(t) ==
  /\ pluginTasks[t].kind = "clients"
  /\ served' = [served EXCEPT ![clients[pluginTasks[t].at]] = @ \cup {pluginTasks[t].i}]
  /\ NextClient(t, pluginTasks[t].at + 1)
  /\ UNCHANGED <<registry, fleet, excused>>

\* uninstall(), up to the await of onUninstall.  unregister() starts it and
\* deletes the plugin at once.
Uninstall(t, p, unregister) ==
  /\ Free(t)
  /\ \E i \in Current(p) \cap installed :
       /\ pluginTasks' = [pluginTasks EXCEPT ![t] = [NoTask EXCEPT !.kind = "uninstall", !.i = i]]
       /\ registered' = IF unregister THEN registered \ {i} ELSE registered
  /\ UNCHANGED <<pluginOf, installed, fleet, served, excused>>

\* onUninstall has returned; the clients keep the middleware.
Uninstalled(t) ==
  /\ pluginTasks[t].kind = "uninstall"
  /\ installed' = installed \ {pluginTasks[t].i}
  /\ pluginTasks' = [pluginTasks EXCEPT ![t] = NoTask]
  /\ UNCHANGED <<pluginOf, registered, fleet, served, excused>>

\* unregister() of a plugin that is not installed, or just being installed
UnregisterOnly(p) ==
  /\ Current(p) \ installed # {}
  /\ registered' = registered \ Current(p)
  /\ UNCHANGED <<pluginOf, installed, fleet, served, pluginTasks, excused>>

\* The constructor of a client: with the plugin manager it takes the middleware
\* of the plugins installed, and sets a timer for applyToClient(), which will
\* add it again; without, the application may call that.
ConstructClient(c, usePluginManager) ==
  /\ applied[c] = "none"
  /\ applied' = [applied EXCEPT ![c] = "waiting"]
  /\ served' = [served EXCEPT ![c] = IF usePluginManager THEN GetInstalled ELSE {}]
  /\ UNCHANGED <<registry, clients, pluginTasks, excused>>

\* Mutant: the plugins are applied before the client is added.
ApplyWithoutAdding(t, c) ==
  /\ applied[c] = "waiting" /\ Free(t)
  /\ applied' = [applied EXCEPT ![c] = "applied"]
  /\ pluginTasks' = [pluginTasks EXCEPT ![t] =
       IF GetInstalled = {} THEN NoTask
       ELSE [kind |-> "apply", i |-> 0, todo |-> GetInstalled, at |-> Len(clients) + 1]]
  /\ clients' = IF GetInstalled = {} THEN clients ELSE Append(clients, c)
  /\ UNCHANGED <<registry, served, excused>>

\* applyToClient(): the client is added, and the plugins are those installed at
\* this moment.
ApplyToClient(t, c) ==
  /\ applied[c] = "waiting" /\ Free(t)
  /\ applied' = [applied EXCEPT ![c] = "applied"]
  /\ clients' = Append(clients, c)
  /\ pluginTasks' = [pluginTasks EXCEPT ![t] =
       IF GetInstalled = {} THEN NoTask
       ELSE [kind |-> "apply", i |-> 0, todo |-> GetInstalled, at |-> Len(clients) + 1]]
  /\ UNCHANGED <<registry, served, excused>>

\* afterClientInit has returned, in applyToClient().
PluginApplied(t) ==
  /\ pluginTasks[t].kind = "apply"
  /\ \E i \in pluginTasks[t].todo :
       /\ \A j \in pluginTasks[t].todo : i <= j
       /\ served' = [served EXCEPT ![clients[pluginTasks[t].at]] = @ \cup {i}]
       /\ pluginTasks' = [pluginTasks EXCEPT ![t] =
            IF @.todo = {i} THEN NoTask
            ELSE [@ EXCEPT !.todo = pluginTasks[t].todo \ {i}]]
  /\ UNCHANGED <<registry, fleet, excused>>

\* The hook a task waits for fails, and the task with it.
HookFails(t) ==
  /\ ~Free(t)
  /\ excused' = excused \cup
       CASE pluginTasks[t].kind = "clients" ->
              {<<pluginTasks[t].i, clients[k]>> : k \in pluginTasks[t].at..Len(clients)}
         [] pluginTasks[t].kind = "apply" ->
              {<<i, clients[pluginTasks[t].at]>> : i \in pluginTasks[t].todo}
         [] OTHER -> {}
  /\ pluginTasks' = [pluginTasks EXCEPT ![t] = NoTask]
  /\ UNCHANGED <<registry, fleet, served>>

PluginNext ==
  \/ \E p \in Plugins : Register(p) \/ UnregisterOnly(p)
  \/ \E t \in PluginTasks :
       \/ \E p \in Plugins : \/ Install(t, p)
                             \/ \E u \in BOOLEAN : Uninstall(t, p, u)
       \/ \E c \in Clients : ApplyToClient(t, c)
       \/ Installed(t) \/ ClientServed(t) \/ Uninstalled(t) \/ PluginApplied(t) \/ HookFails(t)
  \/ \E c \in Clients, u \in BOOLEAN : ConstructClient(c, u)

PluginSpec == PluginInit /\ [][PluginNext]_pluginVars

-----------------------------------------------------------------------------
(* Properties *)

PluginTypeOK ==
  /\ pluginOf \in Seq(Plugins) /\ registered \cup installed \subseteq DOMAIN pluginOf
  /\ clients \in Seq(Clients) /\ IsInjective(clients)
  /\ applied \in [Clients -> {"none", "waiting", "applied"}]
  /\ served \in [Clients -> SUBSET DOMAIN pluginOf]
  /\ \A t \in PluginTasks :
       pluginTasks[t].kind \in {"none", "install", "clients", "uninstall", "apply"}

(* However installations, removals and the construction of clients overlap:
   once all calls have returned, each installed plugin's middleware is in each
   client that was given to applyToClient(), unless a hook failed before it got
   there.  (src/plugin/pluginManager.ts:60-82, 144-150) *)
PluginsReachClients ==
  (\A t \in PluginTasks : Free(t)) =>
    \A i \in registered \cap installed, c \in Clients :
      applied[c] = "applied" => i \in served[c] \/ <<i, c>> \in excused
=============================================================================
