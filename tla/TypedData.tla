------------------------------ MODULE TypedData ------------------------------
(***************************************************************************)
(* What a Ledger is sent to sign typed data (sign_typed_data.go of         *)
(* hw/ledger): the definitions of the types the message needs, each one    *)
(* once, and then its values in the order of these definitions.            *)
(* Typed data are [types, primary, domain, message]. A field of a type is  *)
(* [name, type, size, array]: size is the number in the name of the type,  *)
(* bits in uint256 and bytes in bytes32, and 0 where there is none. Arrays *)
(* are those written "[]". A struct is a function of the names of its      *)
(* fields, an array a sequence. What the device makes of the commands is   *)
(* modelled from them.                                                     *)
(***************************************************************************)
EXTENDS Integers, SequencesExt

CONSTANTS
  Counts,     \* 256: an array is counted in one byte
  Messages    \* typed data to try

Domain == "EIP712Domain"
Sized  == {"int", "uint", "bytesN"}

(***************************************************************************)
(* The definitions. acc: the types visited, and those done, last one first.*)
(***************************************************************************)
RECURSIVE Visit(_, _, _)
Visit(types, acc, t) ==
  IF t \in acc.visited THEN acc
  ELSE LET inside == FoldLeft(LAMBDA a, f : IF f.type \in DOMAIN types
                                            THEN Visit(types, a, f.type) ELSE a,
                              [acc EXCEPT !.visited = @ \cup {t}], types[t])
       IN [inside EXCEPT !.order = <<t>> \o @]

GetTypeOrder(td) ==
  LET none   == [visited |-> {}, order |-> <<>>]
      domain == IF Domain \in DOMAIN td.types THEN Visit(td.types, none, Domain) ELSE none
  IN Visit(td.types, domain, td.primary).order

\* A size is divided by 8, also that of bytesN, which is one of bytes already; that of a
\* custom type is not sent. Variant: the size is sent as it is.
SendStructFieldDefBits(f) ==
  [cmd |-> "field", key |-> f.name, type |-> f.type, array |-> f.array,
   size |-> IF f.type \in Sized THEN f.size ELSE 0]

SendStructFieldDef(f) ==
  [cmd |-> "field", key |-> f.name, type |-> f.type, array |-> f.array,
   size |-> IF f.type \in Sized THEN f.size \div 8 ELSE 0]

SendStructDefinition(td) ==
  FlattenSeq([i \in DOMAIN GetTypeOrder(td) |->
    LET t == GetTypeOrder(td)[i] IN
    <<[cmd |-> "struct", type |-> t]>>
      \o [j \in DOMAIN td.types[t] |-> SendStructFieldDef(td.types[t][j])]])

(***************************************************************************)
(* The values.                                                             *)
(***************************************************************************)
SendRootStruct(t) == [cmd |-> "root", type |-> t]

\* Numbers are sent without their sign.
SendFieldValue(v, type) ==
  [cmd |-> "value", value |-> IF type \in {"int", "uint"} /\ v < 0 THEN -v ELSE v]

RECURSIVE SendMessagePayloads(_, _, _)
SendMessagePayloads(types, t, data) ==
  LET one(f, v) == IF f.type \in DOMAIN types
                   THEN <<SendRootStruct(f.type)>> \o SendMessagePayloads(types, f.type, v)
                   ELSE <<SendFieldValue(v, f.type)>>
      all(f, v) == IF f.array
                   THEN <<[cmd |-> "array", count |-> Len(v) % Counts]>>
                          \o FlattenSeq([i \in DOMAIN v |-> one(f, v[i])])
                   ELSE one(f, v)
  IN FlattenSeq([i \in DOMAIN types[t] |-> all(types[t][i], data[types[t][i].name])])

SendStructImplementation(td) ==
  LET fields == IF Domain \in DOMAIN td.types THEN td.types[Domain] ELSE <<>>
  IN <<SendRootStruct(Domain)>>
       \o [i \in DOMAIN fields |-> SendFieldValue(td.domain[fields[i].name], fields[i].type)]
       \o <<SendRootStruct(td.primary)>>
       \o SendMessagePayloads(td.types, td.primary, td.message)

(***************************************************************************)
(* The device. It takes each definition down, then reads the values by     *)
(* them; a struct or a value that is not the one its definitions call for  *)
(* makes it give up, as a definition does that it has already.             *)
(***************************************************************************)
Refused == [types |-> <<>>, last |-> "refused"]

TakeDefinition(acc, c) ==
  IF acc.last = "refused" THEN acc
  ELSE IF c.cmd = "struct"
       THEN IF c.type \in DOMAIN acc.types THEN Refused
            ELSE [types |-> (c.type :> <<>>) @@ acc.types, last |-> c.type]
       ELSE [acc EXCEPT !.types[acc.last] =
               Append(@, [name |-> c.key, type |-> c.type, array |-> c.array,
                          size |-> IF c.type = "bytesN" THEN c.size ELSE c.size * 8])]

LedgerTypes(cmds) == FoldLeft(TakeDefinition, [types |-> <<>>, last |-> "none"], cmds).types

\* What stands at the head of cmds, as [value, rest]; "array", "root" and "value" are told
\* apart by the field that is due.
RECURSIVE TakeStruct(_, _, _)
TakeStruct(types, t, cmds) ==
  LET one(f, cs) ==
        IF f.type \in DOMAIN types
        THEN TakeStruct(types, f.type, cs)
        ELSE [value |-> cs[1].value, rest |-> Tail(cs)]
      more(f, acc, i) ==
        LET o == one(f, acc.rest) IN [value |-> Append(acc.value, o.value), rest |-> o.rest]
      all(f, cs) ==
        IF f.array
        THEN FoldLeft(LAMBDA a, i : more(f, a, i), [value |-> <<>>, rest |-> Tail(cs)],
                      [i \in 1..cs[1].count |-> i])
        ELSE one(f, cs)
      take(acc, f) ==
        LET a == all(f, acc.rest) IN [value |-> (f.name :> a.value) @@ acc.value, rest |-> a.rest]
  IN FoldLeft(take, [value |-> <<>>, rest |-> Tail(cmds)], types[t])

\* The fields as the device knows them: those of the definition, but for the size of
\* bytesN, of which it is told an eighth.
AsTold(fields) ==
  [j \in DOMAIN fields |->
    IF fields[j].type = "bytesN" THEN [fields[j] EXCEPT !.size = @ \div 8] ELSE fields[j]]

\* A struct with its numbers as the device gets them, without their signs.
RECURSIVE Unsigned(_, _, _)
Unsigned(fields, types, data) ==
  LET one(f, v) == IF f.type \in DOMAIN types THEN Unsigned(types[f.type], types, v)
                   ELSE IF f.type = "int" /\ v < 0 THEN -v ELSE v
      all(f, v) == IF f.array THEN [i \in DOMAIN v |-> one(f, v[i])] ELSE one(f, v)
  IN [n \in DOMAIN data |->
       LET f == CHOOSE g \in ToSet(fields) : g.name = n IN all(f, data[n])]

\* The device that was sent the definitions and then the values knows every type that the
\* domain or the message needs, and holds the domain and the message themselves, with
\* nothing left over: nesting, arrays, types used twice or by themselves and the order of
\* the definitions never put a value where another belongs. Two things it has wrong: the
\* sizes of bytesN and the signs of negative numbers.
TypedDataSent ==
  \A td \in Messages :
    LET known  == LedgerTypes(SendStructDefinition(td))
        cmds   == SendStructImplementation(td)
        domain == TakeStruct(known, Domain, cmds)
        taken  == TakeStruct(known, td.primary, domain.rest)
    IN /\ known = [t \in DOMAIN known |-> AsTold(td.types[t])]
       /\ Head(cmds).type = Domain /\ Head(domain.rest).type = td.primary
       /\ domain.value = td.domain
       /\ taken.value = Unsigned(td.types[td.primary], td.types, td.message)
       /\ taken.rest = <<>>
=============================================================================
