------------------------------ MODULE Registries ------------------------------
(***************************************************************************)
(* AdapterRegistry and CapabilityRegistry.  findAdapter() asks one adapter *)
(* after the other whether it supports a contract and awaits each answer,  *)
(* while adapters are registered and unregistered: it goes through the Map *)
(* itself, in which an entry keeps its place when its name is set again    *)
(* and comes last when it is new.                                          *)
(*                                                                         *)
(* An adapter is known by its number; which contracts it supports does not *)
(* change.  A descriptor of the capability registry is stored under its    *)
(* type and under the id of its contract, if it has one.  Descriptors are  *)
(* valid: what validate() refuses is not stored.                           *)
(***************************************************************************)
EXTENDS Integers, FiniteSets, FiniteSetsExt

CONSTANTS
  AdapterNames,
  NoAdapter,        \* undefined or null
  Configured,       \* config.defaultAdapter, or NoAdapter
  ContractTypes, DescriptorIds,
  MaxAdapters,      \* bounds on the adapters,
  MaxUnregistered,  \*   those taken out again,
  MaxDescriptors    \*   and the descriptors that are registered

ASSUME RegistryAssumption ==
  /\ NoAdapter \notin AdapterNames /\ Configured \in AdapterNames \cup {NoAdapter}
  /\ ContractTypes \cap DescriptorIds = {} /\ NoAdapter \notin DescriptorIds \cup ContractTypes
  /\ {MaxAdapters, MaxUnregistered, MaxDescriptors} \subseteq Nat

VARIABLES
  adapters,       \* entries of the Map: [name, place, number, supports]
  defaultName,
  registeredAdapters, \* adapters registered so far,
  unregistered,   \*   and names unregistered
  search,         \* the findAdapter() in flight, or the last one
  descriptors,    \* key -> the number of its descriptor
  described       \* number -> [type, id]; all that were registered

registryVars == <<adapters, defaultName, registeredAdapters, unregistered, search, descriptors,
                  described>>
adapterVars == <<adapters, defaultName, registeredAdapters, unregistered, search>>
descriptorVars == <<descriptors, described>>

\* `throughout' are the adapters that are registered since the search began: history.
NoSearch == [stage |-> "none", asked |-> 0, answers |-> FALSE, throughout |-> {},
             found |-> 0]

RegistryInit ==
  /\ adapters = {} /\ defaultName = Configured
  /\ registeredAdapters = 0 /\ unregistered = 0 /\ search = NoSearch
  /\ descriptors = [key \in {} |-> 0] /\ described = <<>>

Names == {entry.name : entry \in adapters}

Still(entries) == [search EXCEPT !.throughout = @ \cap entries]

RegisterAdapter(name, supports) ==
  /\ registeredAdapters < MaxAdapters /\ registeredAdapters' = registeredAdapters + 1
  /\ LET before == {entry \in adapters : entry.name = name}
         place == IF before = {} THEN registeredAdapters + 1
                  ELSE (CHOOSE entry \in before : TRUE).place
     IN  adapters' = (adapters \ before) \cup
           {[name |-> name, place |-> place, number |-> registeredAdapters + 1,
             supports |-> supports]}
  /\ search' = Still(adapters')
  /\ defaultName' = IF defaultName = NoAdapter THEN name ELSE defaultName
  /\ UNCHANGED <<unregistered, descriptorVars>>

\* Mutant: the default stays, whatever is unregistered.
DefaultStays(name) == defaultName

\* The default when a name is unregistered
DefaultWithout(name) == IF defaultName = name THEN NoAdapter ELSE defaultName

UnregisterAdapter(name) ==
  /\ unregistered < MaxUnregistered /\ unregistered' = unregistered + 1
  /\ adapters' = {entry \in adapters : entry.name # name}
  /\ search' = Still(adapters')
  /\ defaultName' = DefaultWithout(name)
  /\ UNCHANGED <<registeredAdapters, descriptorVars>>

\* setDefault(), when it does not throw
SetDefault(name) ==
  /\ name \in Names /\ defaultName # name /\ defaultName' = name
  /\ UNCHANGED <<adapters, registeredAdapters, unregistered, search, descriptorVars>>

\* Mutant: the search skips the entry behind the one it asked.
AfterNext(entries, place) == {entry \in entries : entry.place > place + 1}

\* The entries of the Map behind a place
After(entries, place) == {entry \in entries : entry.place > place}

\* The search comes to the next entry, whose adapter it asks, or to its end.
AskNext(s, entries) ==
  IF After(entries, s.asked) = {}
  THEN [s EXCEPT !.stage = "over", !.found = 0]
  ELSE LET next == CHOOSE entry \in After(entries, s.asked) :
                     \A other \in After(entries, s.asked) : entry.place <= other.place
       IN  [s EXCEPT !.stage = "asking", !.asked = next.place, !.answers = next.supports,
                     !.found = next.number]

StartSearch ==
  /\ search.stage # "asking"
  /\ search' = AskNext([NoSearch EXCEPT !.throughout = adapters], adapters)
  /\ UNCHANGED <<adapters, defaultName, registeredAdapters, unregistered, descriptorVars>>

\* supports() of the adapter resolves.
SupportsAnswers ==
  /\ search.stage = "asking"
  /\ search' = IF search.answers THEN [search EXCEPT !.stage = "over"]
               ELSE AskNext(search, adapters)
  /\ UNCHANGED <<adapters, defaultName, registeredAdapters, unregistered, descriptorVars>>

\* Mutant: what was stored under the id is kept.
StoredOnce(d) ==
  {d.type} \cup (IF d.id \in DOMAIN descriptors THEN {} ELSE {d.id} \ {NoAdapter})

\* The keys that CapabilityRegistry.register() sets
StoredUnder(d) == {d.type} \cup ({d.id} \ {NoAdapter})

RegisterDescriptor(d) ==
  /\ Cardinality(DOMAIN described) < MaxDescriptors
  /\ LET number == Cardinality(DOMAIN described) + 1
     IN  /\ described' = [n \in 1..number |-> IF n = number THEN d ELSE described[n]]
         /\ descriptors' = [key \in DOMAIN descriptors \cup StoredUnder(d) |->
                              IF key \in StoredUnder(d) THEN number ELSE descriptors[key]]
  /\ UNCHANGED adapterVars

AdapterNext ==
  \/ \E name \in AdapterNames :
       \/ \E supports \in BOOLEAN : RegisterAdapter(name, supports)
       \/ UnregisterAdapter(name) \/ SetDefault(name)
  \/ StartSearch \/ SupportsAnswers

DescriptorNext ==
  \E type \in ContractTypes, id \in DescriptorIds \cup {NoAdapter} :
    RegisterDescriptor([type |-> type, id |-> id])

RegistryNext == AdapterNext \/ DescriptorNext
RegistrySpec == RegistryInit /\ [][RegistryNext]_registryVars

-----------------------------------------------------------------------------
(* Properties *)

(* Every variable has its type.
   (src/adapters/adapterRegistry.ts:4, src/registry/capabilityRegistry.ts:13) *)
RegistryTypeOK ==
  /\ IsFiniteSet(adapters)
  /\ \A entry \in adapters :
       /\ entry.name \in AdapterNames /\ entry.supports \in BOOLEAN
       /\ entry.place \in 1..entry.number /\ entry.number \in 1..registeredAdapters
  /\ defaultName \in AdapterNames \cup {NoAdapter}
  /\ registeredAdapters \in 0..MaxAdapters /\ unregistered \in 0..MaxUnregistered
  /\ search.stage \in {"none", "asking", "over"} /\ search.throughout \subseteq adapters
  /\ \A n \in DOMAIN described : described[n].type \in ContractTypes

(* However adapters come and go while findAdapter() awaits their answers, no
   adapter that was registered all along is passed over: without a result
   none of them supports the contract, and none of those in front of the one
   found does.
   (src/adapters/adapterRegistry.ts:34) *)
SearchPassesOverNone ==
  search.stage = "over" =>
    /\ search.found # 0 => search.answers
    /\ \A entry \in search.throughout :
         entry.supports => search.found # 0 /\ entry.place >= search.asked

(* The default is an adapter that is registered, the one configured, or none; and
   it is none beside registered adapters only after it was unregistered.
   (src/adapters/adapterRegistry.ts:21) *)
DefaultIsRegistered ==
  /\ defaultName \in Names \cup {Configured, NoAdapter}
  /\ defaultName = NoAdapter /\ adapters # {} => unregistered > 0

(* A lookup finds, by type and by id, the descriptor of them registered last.
   (src/registry/capabilityRegistry.ts:26) *)
LookupFindsLatest ==
  \A key \in DescriptorIds \cup ContractTypes :
    LET named == {n \in DOMAIN described : key \in {described[n].type, described[n].id}}
    IN  IF named = {} THEN key \notin DOMAIN descriptors
        ELSE key \in DOMAIN descriptors /\ descriptors[key] = Max(named)

(* What the registries answer, of which the parts are stated above.
   (src/adapters/adapterRegistry.ts:33) *)
RegistriesTellTruth == SearchPassesOverNone /\ DefaultIsRegistered /\ LookupFindsLatest
=============================================================================
