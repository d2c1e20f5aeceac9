--------------------------- MODULE ContractMetadata ---------------------------
(***************************************************************************)
(* ContractMetadataRegistry: contracts with their deployments, registered  *)
(* under their names and handed out again.  What is storedAt, what a caller  *)
(* passed in and what it was handed are objects made of objects, and they  *)
(* must share none: the caller may write to those it holds at any time.    *)
(*                                                                         *)
(* An object is a cell of the heap, and a reference to it its number; the  *)
(* cells of one metadata are the metadata itself, its two arrays and the   *)
(* deployments in the second.  Of its members there are the version, the   *)
(* capabilities and the environments of the deployments; supportedFeatures *)
(* and tags are arrays like the capabilities.  HasRoom bounds the objects.  *)
(***************************************************************************)
EXTENDS Integers, FiniteSets, Sequences, SequencesExt

CONSTANTS
  MetadataNames, Environments, Capabilities,
  Cells,         \* cells of the heap, numbers: those of the metadata of every name and
                 \*   of two that the caller holds
  NoCell,        \* no reference
  MaxRevisions   \* bound on the versions callers write

ASSUME MetadataAssumption ==
  /\ Cells \subseteq Nat /\ IsFiniteSet(Cells) /\ NoCell \notin Cells /\ MaxRevisions \in Nat

VARIABLES
  objects,   \* the heap: cell -> the object in it, or FreeCell
  storedAt,  \* the Map: name -> the cell of its metadata
  held,      \* the metadata the caller holds
  published, \* name -> what the metadata said as it was registered; history
  revision

metadataVars == <<objects, storedAt, held, published, revision>>

FreeCell == [kind |-> "free"]
NotPublished == [version |-> 0, capabilities |-> <<>>, environments |-> <<>>]

Metadata(version, capabilities, deployments) ==
  [kind |-> "metadata", version |-> version, capabilities |-> capabilities,
   deployments |-> deployments]
Array(members) == [kind |-> "array", members |-> members]
Deployment(environment) == [kind |-> "deployment", environment |-> environment]

\* The objects that a metadata refers to, and itself
Deployments(memory, cell) == memory[memory[cell].deployments].members
PartsOf(memory, cell) ==
  {cell, memory[cell].capabilities, memory[cell].deployments} \cup
    ToSet(Deployments(memory, cell))

\* What a metadata says, read through its references
Says(memory, cell) ==
  [version |-> memory[cell].version,
   capabilities |-> memory[memory[cell].capabilities].members,
   environments |-> [i \in DOMAIN Deployments(memory, cell) |->
                       memory[Deployments(memory, cell)[i]].environment]]

\* Cells that nobody refers to are free again.
Collected(memory, roots) ==
  LET live == UNION {PartsOf(memory, root) : root \in roots \ {NoCell}}
  IN  [cell \in Cells |-> IF cell \in live THEN memory[cell] ELSE FreeCell]

FreeCells(memory) == {cell \in Cells : memory[cell] = FreeCell}
Below(cells, cell) == Cardinality({other \in cells : other < cell})

\* Bound: there are cells for n more objects.
HasRoom(memory, n) == n <= Cardinality(FreeCells(memory))

\* The cell for the n-th of new objects, from 0
NewCell(memory, n) ==
  LET free == FreeCells(memory) IN CHOOSE cell \in free : Below(free, cell) = n

\* Mutant: the array of deployments is copied, the deployments are not.
CopiedToo(memory, cell) == PartsOf(memory, cell) \ ToSet(Deployments(memory, cell))

\* The objects that cloneMetadata() copies
Copied(memory, cell) == PartsOf(memory, cell)

\* Which new cell each copied object goes to, as pairs
Moves(memory, cell) ==
  LET copied == Copied(memory, cell)
  IN  {<<c, NewCell(memory, Below(copied, c))>> : c \in copied}

Moved(moves, c) ==
  IF \E move \in moves : move[1] = c THEN (CHOOSE move \in moves : move[1] = c)[2] ELSE c

\* What is written to the place of object c: it refers to copies where there are some.
Copy(memory, cell, moves, c) ==
  CASE c = cell -> Metadata(memory[c].version, Moved(moves, memory[c].capabilities),
                            Moved(moves, memory[c].deployments))
    [] c = memory[cell].deployments ->
         Array([i \in DOMAIN memory[c].members |-> Moved(moves, memory[c].members[i])])
    [] OTHER -> memory[c]

\* cloneMetadata(): the heap with the copy, and its cell
Clone(memory, cell) ==
  LET moves == Moves(memory, cell)
  IN  [objects |-> [c \in Cells |->
                      IF \E move \in moves : move[2] = c
                      THEN Copy(memory, cell, moves, (CHOOSE move \in moves : move[2] = c)[1])
                      ELSE memory[c]],
       cell |-> Moved(moves, cell)]

CloneHasRoom(memory, cell) == HasRoom(memory, Cardinality(Copied(memory, cell)))

MetadataInit ==
  /\ objects = [cell \in Cells |-> FreeCell] /\ held = NoCell /\ revision = 0
  /\ storedAt = [name \in MetadataNames |-> NoCell]
  /\ published = [name \in MetadataNames |-> NotPublished]

\* Mutant: the environments are not compared.
AnyEnvironments(says) == says.capabilities # <<>> /\ says.environments # <<>>

\* validate(): a capability, and deployments each of an environment of its own
ValidMetadata(says) ==
  says.capabilities # <<>> /\ says.environments # <<>> /\ IsInjective(says.environments)

Roots(store, hold) == {store[name] : name \in MetadataNames} \cup {hold}

\* The caller writes a metadata of its own.
Write(environments, capabilities) ==
  /\ revision < MaxRevisions /\ revision' = revision + 1
  /\ LET memory == Collected(objects, Roots(storedAt, NoCell))
         cell(n) == NewCell(memory, n)
         deployments == [i \in DOMAIN environments |-> cell(i + 2)]
     IN  /\ HasRoom(memory, Len(environments) + 3)
         /\ held' = cell(0)
         /\ objects' = [c \in Cells |->
              CASE c = cell(0) -> Metadata(revision + 1, cell(1), cell(2))
                [] c = cell(1) -> Array(capabilities)
                [] c = cell(2) -> Array(deployments)
                [] \E i \in DOMAIN environments : deployments[i] = c ->
                     Deployment(environments[CHOOSE i \in DOMAIN environments :
                                               deployments[i] = c])
                [] OTHER -> memory[c]]
  /\ UNCHANGED <<storedAt, published>>

\* The caller writes to an object of the metadata it holds.
Change(cell, object) ==
  /\ objects[cell] # object
  /\ objects' = Collected([objects EXCEPT ![cell] = object], Roots(storedAt, held))
  /\ UNCHANGED <<storedAt, held, published, revision>>

ChangeHeld ==
  /\ held # NoCell
  /\ LET metadata == objects[held]
         deployments == Deployments(objects, held)
     IN  \/ \E capabilities \in SeqOf(Capabilities, 1) :
              Change(metadata.capabilities, Array(capabilities))
         \/ Change(metadata.deployments, Array(<<>>))
         \/ \E i \in DOMAIN deployments, environment \in Environments :
              Change(deployments[i], Deployment(environment))
         \/ Change(held, [metadata EXCEPT !.version = 0])

\* Mutant: what is stored is what the caller passed.
StoredAsGiven(memory, cell) == [objects |-> memory, cell |-> cell]

\* What register() stores: `normalized'
Normalized(memory, cell) == Clone(memory, cell)

\* register(): stores a copy and returns a copy of that, which the caller keeps
\* in place of its own or drops; what is not valid is refused and changes nothing.
RegisterMetadata(name, keeps) ==
  /\ held # NoCell /\ ValidMetadata(Says(objects, held))
  /\ LET normalized == Normalized(objects, held)
         store == [storedAt EXCEPT ![name] = normalized.cell]
         memory == Collected(normalized.objects, Roots(store, held))
         returned == Clone(memory, normalized.cell)
     IN  /\ CloneHasRoom(objects, held) /\ CloneHasRoom(memory, normalized.cell)
         /\ storedAt' = store
         /\ held' = IF keeps THEN returned.cell ELSE held
         /\ objects' = Collected(returned.objects, Roots(storedAt', held'))
  /\ published' = [published EXCEPT ![name] = Says(objects, held)]
  /\ UNCHANGED revision

\* matches(): the options the caller gives are met; NoCell stands for one not given.
MetadataMatches(says, environment, capability) ==
  /\ environment \in ToSet(says.environments) \cup {NoCell}
  /\ capability \in ToSet(says.capabilities) \cup {NoCell}

\* get(), and list(), of whose results the caller keeps one
GetMetadata(name, environment, capability) ==
  /\ storedAt[name] # NoCell
  /\ MetadataMatches(Says(objects, storedAt[name]), environment, capability)
  /\ LET memory == Collected(objects, Roots(storedAt, NoCell))
         clone == Clone(memory, storedAt[name])
     IN  /\ CloneHasRoom(memory, storedAt[name])
         /\ objects' = clone.objects /\ held' = clone.cell
  /\ UNCHANGED <<storedAt, published, revision>>

UnregisterMetadata(name) ==
  /\ storedAt[name] # NoCell
  /\ storedAt' = [storedAt EXCEPT ![name] = NoCell]
  /\ published' = [published EXCEPT ![name] = NotPublished]
  /\ objects' = Collected(objects, Roots(storedAt', held))
  /\ UNCHANGED <<held, revision>>

MetadataNext ==
  \/ \E environments \in SeqOf(Environments, 2), capabilities \in SeqOf(Capabilities, 1) :
       Write(environments, capabilities)
  \/ ChangeHeld
  \/ \E name \in MetadataNames :
       \/ \E keeps \in BOOLEAN : RegisterMetadata(name, keeps)
       \/ \E environment \in Environments \cup {NoCell}, capability \in Capabilities \cup {NoCell} :
            GetMetadata(name, environment, capability)
       \/ UnregisterMetadata(name)

MetadataSpec == MetadataInit /\ [][MetadataNext]_metadataVars

-----------------------------------------------------------------------------
(* Properties *)

(* Every variable has its type, and references lead to objects of theirs.
   (src/registry/contractMetadataRegistry.ts:51) *)
MetadataTypeOK ==
  /\ DOMAIN objects = Cells
  /\ \A cell \in Cells : objects[cell].kind \in {"free", "metadata", "array", "deployment"}
  /\ storedAt \in [MetadataNames -> Cells \cup {NoCell}] /\ held \in Cells \cup {NoCell}
  /\ revision \in 0..MaxRevisions
  /\ \A root \in Roots(storedAt, held) \ {NoCell} :
       /\ objects[root].kind = "metadata"
       /\ \A cell \in ToSet(Deployments(objects, root)) : objects[cell].kind = "deployment"

(* Whatever callers do to the metadata they passed in or were handed, the
   registry tells of each contract what was registered last, and stays valid: no
   lookup by environment has two deployments to choose from.
   (src/registry/contractMetadataRegistry.ts:65, 147) *)
MetadataIsKept ==
  \A name \in MetadataNames :
    storedAt[name] # NoCell =>
      /\ Says(objects, storedAt[name]) = published[name]
      /\ published[name].capabilities # <<>>
      /\ \A environment \in Environments :
           Cardinality({i \in DOMAIN published[name].environments :
                          published[name].environments[i] = environment}) <= 1
=============================================================================
