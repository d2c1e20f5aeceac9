------------------------------ MODULE Conversions ------------------------------
(***************************************************************************)
(* Three pure functions of the SDK, each called with inputs of every kind: *)
(* decodeScVal() of packages/core joins the limbs of a wide integer;       *)
(* readSpecSection() finds the entries of a contract's specification among *)
(* the sections of a WASM file; and getRequiredSigners() collects accounts *)
(* from the authorization entries of a simulation.                         *)
(*                                                                         *)
(* The encodings themselves are external: limbs as the Stellar SDK makes   *)
(* them, sections as a compiler writes them.  A byte is a number; a limb   *)
(* has LimbSize values, 2^64 in the code, and a byte of LEB128 GroupSize,  *)
(* 2^7 in the code, and as many that say that another byte follows.  The   *)
(* length before an entry of the specification, four bytes in the code, is *)
(* one, and so is the header of the file.                                  *)
(***************************************************************************)
EXTENDS Integers, Sequences, SequencesExt

CONSTANTS
  LimbSize, GroupSize,
  EntryLengths,    \* lengths of the entries of a specification
  SpecName, OtherName,
  Signers          \* public keys, and ids of contracts

ASSUME ConversionAssumption ==
  /\ LimbSize \in Nat \ {0} /\ GroupSize \in Nat /\ GroupSize > 1 /\ EntryLengths \subseteq Nat
  /\ {SpecName, OtherName} \subseteq 0..(GroupSize - 1) /\ SpecName # OtherName

VARIABLE conversion   \* the call that was made, if any: <<function, input, output>>

ConversionInit == conversion = <<>>

Converts(of, input, output) ==
  /\ conversion = <<>>
  /\ conversion' = <<of, input, output>>

\* What is left of a number that is divided so many times
Quotient(number, divisor, times) ==
  LET left[k \in Nat] == IF k = 0 THEN number ELSE left[k - 1] \div divisor
  IN  left[times]

-----------------------------------------------------------------------------
(* Integers of limbs *)

IntegerTypes == {[limbs |-> 2, signed |-> FALSE], [limbs |-> 2, signed |-> TRUE],
                 [limbs |-> 4, signed |-> FALSE], [limbs |-> 4, signed |-> TRUE]}

\* How many integers a type has, and how many of a signed type are not negative
SizeOf(type) ==
  IF type.limbs = 2 THEN LimbSize * LimbSize ELSE LimbSize * LimbSize * LimbSize * LimbSize
HalfOf(type) == SizeOf(type) \div 2

Values(type) == IF type.signed THEN -HalfOf(type)..(HalfOf(type) - 1) ELSE 0..(SizeOf(type) - 1)

\* The limbs, the most significant first; it alone has a sign.
LimbsOf(value, type) ==
  [i \in 1..type.limbs |->
     LET rest == Quotient(value, LimbSize, type.limbs - i)
     IN  IF i = 1 THEN rest ELSE rest % LimbSize]

\* Mutant: the limbs are joined from the other end.
JoinReversed(limbs) ==
  LET sum[i \in 0..Len(limbs)] ==
        IF i = 0 THEN 0 ELSE sum[i - 1] + limbs[i] * LimbSize ^ (i - 1)
  IN  sum[Len(limbs)]

\* The limbs shifted to their places and joined; no two overlap, so | is +.
Join(limbs) ==
  LET sum[i \in 0..Len(limbs)] == IF i = 0 THEN 0 ELSE sum[i - 1] * LimbSize + limbs[i]
  IN  sum[Len(limbs)]

\* decodeScVal(), of an integer: what is greater than the greatest is negative.
DecodeInteger(limbs, type) ==
  LET raw == Join(limbs)
  IN  IF type.signed /\ raw > HalfOf(type) - 1 THEN raw - SizeOf(type) ELSE raw

CallDecode(value, type) ==
  Converts("decodeScVal", [value |-> value, type |-> type],
           DecodeInteger(LimbsOf(value, type), type))

-----------------------------------------------------------------------------
(* Sections of a WASM file *)

\* As a compiler writes them: numbers in groups, the least significant first
Encoded(number) ==
  LET size == CHOOSE k \in 1..(number + 1) :
                /\ Quotient(number, GroupSize, k) = 0
                /\ \A j \in 1..(k - 1) : Quotient(number, GroupSize, j) # 0
  IN  [i \in 1..size |->
         LET rest == Quotient(number, GroupSize, i - 1)
         IN  IF i < size THEN GroupSize + (rest % GroupSize) ELSE rest]

Zeros(n) == [i \in 1..n |-> 0]

\* An entry is its length and what it consists of.
Framed(lengths) ==
  LET framed[i \in 0..Len(lengths)] ==
        IF i = 0 THEN <<>> ELSE framed[i - 1] \o (<<lengths[i]>> \o Zeros(lengths[i]))
  IN  framed[Len(lengths)]

\* A custom section has a name of one byte, and the payload behind it.
NameBytes(section) == IF section.id = 0 THEN Encoded(1) \o <<section.name>> ELSE <<>>
SectionBytes(section) ==
  LET body == NameBytes(section) \o Framed(section.entries)
  IN  <<section.id>> \o (Encoded(Len(body)) \o body)

FileOf(sections) ==
  LET file[i \in 0..Len(sections)] ==
        IF i = 0 THEN <<0>> ELSE file[i - 1] \o SectionBytes(sections[i])
  IN  file[Len(sections)]

\* `buf[offset] & mask': behind the end there is nothing, which counts as 0.
ByteAt(wasm, offset) == IF offset \in DOMAIN wasm THEN wasm[offset] ELSE 0

\* readLEB128(): the value, and the number of bytes it took
ReadLEB128(wasm, offset) ==
  LET byte(k) == ByteAt(wasm, offset + k - 1)
      bytesRead == CHOOSE k \in 1..(Len(wasm) + 1) :
                     byte(k) < GroupSize /\ \A j \in 1..(k - 1) : byte(j) >= GroupSize
      value[k \in Nat] ==   \* of the last k bytes
        IF k = 0 THEN 0
        ELSE (byte(bytesRead - k + 1) % GroupSize) + GroupSize * value[k - 1]
  IN  <<value[bytesRead], bytesRead>>

\* Mutant: the payload is taken for one entry.
OneEntry(wasm, first, end) == IF first >= end THEN <<>> ELSE <<wasm[first]>>

\* The entries of a payload, as their lengths; a length behind the file cannot be read.
EntriesFrom(wasm, first, end) ==
  LET turn[k \in Nat] ==
        IF k = 0 THEN [pos |-> first, entries |-> <<>>]
        ELSE LET t == turn[k - 1]
             IN  IF t.pos < end /\ t.pos <= Len(wasm)
                 THEN [pos |-> t.pos + 1 + wasm[t.pos], entries |-> Append(t.entries, wasm[t.pos])]
                 ELSE t
  IN  turn[Len(wasm)].entries

\* sectionEnd, of a section whose size stands at `start'
SectionEnd(start, size) == start + size[2] + size[1]

\* The entries of the section at an offset, if it is the one looked for
SpecEntriesAt(wasm, offset, size) ==
  LET length == ReadLEB128(wasm, offset + 1 + size[2])
      name == offset + 1 + size[2] + length[2]
  IN  IF wasm[offset] = 0 /\ ByteAt(wasm, name) = SpecName
      THEN EntriesFrom(wasm, name + length[1], SectionEnd(offset + 1, size)) ELSE <<>>

\* readSpecSection(); offsets count from 1 here.
ReadSpecSection(wasm) ==
  LET turn[k \in Nat] ==
        IF k = 0 THEN [offset |-> 2, entries |-> <<>>]
        ELSE LET t == turn[k - 1]
                 size == ReadLEB128(wasm, t.offset + 1)
             IN  IF t.offset <= Len(wasm)
                 THEN [offset |-> SectionEnd(t.offset + 1, size),
                       entries |-> t.entries \o SpecEntriesAt(wasm, t.offset, size)]
                 ELSE t
  IN  turn[Len(wasm)].entries

CallReadSpec(sections) ==
  Converts("readSpecSection", sections, ReadSpecSection(FileOf(sections)))

-----------------------------------------------------------------------------
(* Signers of a simulation *)

\* An entry of the authorization: decoded, as a string, or one that cannot be
\* decoded; of the source account, an account or a contract.
Item(form, credentials, signer) ==
  [form |-> form, credentials |-> credentials, signer |-> signer]

Account(item) == item.form # "broken" /\ item.credentials = "account"

\* Mutant: what is in the result is taken, and the raw results only without it.
EitherItems(simulation) == IF simulation.auth # <<>> THEN simulation.auth ELSE simulation.results

\* collectAuthEntries(), before decoding: what is parsed, and of every raw result
AllItems(simulation) == simulation.auth \o simulation.results

\* getRequiredSigners(): each account once, in the order of their first entries
RequiredSigners(simulation) ==
  LET items == AllItems(simulation)
      signers[i \in 0..Len(items)] ==
        IF i = 0 THEN <<>>
        ELSE IF Account(items[i]) /\ items[i].signer \notin Range(signers[i - 1])
             THEN Append(signers[i - 1], items[i].signer) ELSE signers[i - 1]
  IN  signers[Len(items)]

CallSigners(simulation) ==
  Converts("getRequiredSigners", simulation, RequiredSigners(simulation))

-----------------------------------------------------------------------------
Sections == [id : {0, 1}, name : {SpecName, OtherName}, entries : SeqOf(EntryLengths, 2)]
AuthItems == {Item(form, credentials, signer) : form \in {"decoded", "string", "broken"},
            credentials \in {"source", "account", "contract"}, signer \in Signers}

\* The parsed auth and the raw results are each absent, empty or short.
Authorizations == [auth : SeqOf(AuthItems, 1), results : SeqOf(AuthItems, 1)] \cup
  [auth : {<<>>}, results : SeqOf(AuthItems, 2)]

ConversionNext ==
  \/ \E type \in IntegerTypes : \E value \in Values(type) : CallDecode(value, type)
  \/ \E sections \in SeqOf(Sections, 2) : CallReadSpec(sections)
  \/ \E simulation \in Authorizations : CallSigners(simulation)

ConversionSpec == ConversionInit /\ [][ConversionNext]_conversion

-----------------------------------------------------------------------------
(* Properties *)

(* The variable has its type.  (packages/core/src/utils/simulationParser.ts:40) *)
ConversionTypeOK ==
  conversion # <<>> =>
    /\ Len(conversion) = 3
    /\ conversion[1] \in {"decodeScVal", "readSpecSection", "getRequiredSigners"}

\* The entries of the sections that are named for it
IsSpec(section) == section.id = 0 /\ section.name = SpecName
SpecEntries(sections) ==
  LET entries[i \in 0..Len(sections)] ==
        IF i = 0 THEN <<>>
        ELSE entries[i - 1] \o (IF IsSpec(sections[i]) THEN sections[i].entries ELSE <<>>)
  IN  entries[Len(sections)]

(* Every integer comes out of its limbs as it went in, also the negative ones and
   those at the limits of their types; the entries found in a file are those of
   the sections named for it, in their order, wherever these stand; and the
   signers are the accounts that some entry names, each once.
   (packages/core/src/utils/simulationParser.ts:62,
    packages/core/src/codegen/wasmParser.ts:75, src/utils/getRequiredSigners.ts:27) *)
ConversionsAreExact ==
  conversion # <<>> =>
    LET input == conversion[2]
        output == conversion[3]
    IN  /\ conversion[1] = "decodeScVal" => output = input.value
        /\ conversion[1] = "readSpecSection" => output = SpecEntries(input)
        /\ conversion[1] = "getRequiredSigners" =>
             /\ IsInjective(output)
             /\ Range(output) = {item.signer : item \in
                  {item \in Range(input.auth) \cup Range(input.results) : Account(item)}}
=============================================================================
