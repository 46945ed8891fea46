---------------------------- MODULE Advertising ----------------------------
(***************************************************************************)
(* The advertising data of main.cpp as pure operators: the repeater's own  *)
(* advertisement (populate_advertising_data) and the classification of a   *)
(* scanned one (check_for_uuid), which walks the AD structures with        *)
(* BTstack's ad_iterator.  A byte string is a sequence of naturals below   *)
(* 256; offsets into it are counted from 0, as in ad_context_t.            *)
(***************************************************************************)
EXTENDS Integers, Sequences, SequencesExt

\* BleConnection.h
ServiceUuidReversed == <<92, 75, 58, 44, 29, 142, 63, 155, 90, 76, 158, 74, 45, 94, 123, 244>>
ServiceName         == <<82, 101, 112, 101, 97, 116, 101, 114>>     \* "Repeater"
ServiceUUIDNotFound     == 0
ServiceUUIDFound        == 1
ServiceUUIDAndNameFound == 3

\* bluetooth_data_types.h and main.cpp
TypeFlags      == 1
TypeShortName  == 8
TypeFullName   == 9
UuidListTypes  == {6, 7, 21}   \* incomplete / complete list, solicitation
NameTypes      == {TypeShortName, TypeFullName}
AdvMaxLength   == 31           \* BLE_ADVERTISING_MAX_LENGTH
LeOnlyGeneral  == 6            \* BLE_FLAGS_LE_ONLY_GENERAL_DISC_MODE

\* populate_advertising_data for a service name nm: the flags, the service
\* UUID list, then as much of the name as the 31 bytes leave room for, as
\* a complete name when all of it fits and a shortened one otherwise.
\* Mutant: the room for the name computed one byte short.
PopulateShortByOne(nm) ==
  LET head == <<2, TypeFlags, LeOnlyGeneral, 17, 6>> \o ServiceUuidReversed
      room == (AdvMaxLength - Len(head) - 3) % 256
      fit  == IF room < Len(nm) % 256 THEN room ELSE Len(nm) % 256
  IN  head \o <<fit + 1, IF fit = Len(nm) % 256 THEN TypeFullName ELSE TypeShortName>>
      \o SubSeq(nm, 1, fit)

PopulateAdvertisingData(nm) ==
  LET head == <<2, TypeFlags, LeOnlyGeneral, 17, 6>> \o ServiceUuidReversed
      room == (AdvMaxLength - Len(head) - 2) % 256
      fit  == IF room < Len(nm) % 256 THEN room ELSE Len(nm) % 256
  IN  head \o <<fit + 1, IF fit = Len(nm) % 256 THEN TypeFullName ELSE TypeShortName>>
      \o SubSeq(nm, 1, fit)

\* BTstack's ad_iterator: a structure is a length byte, a type byte and
\* length - 1 data bytes.  Iteration stops at the end of the data, at a
\* zero length, or at a structure that would run past the end.
RECURSIVE AdStructures(_, _)
AdStructures(buf, off) ==
  IF off + 1 >= Len(buf) \/ buf[off + 1] = 0 \/ off + 1 + buf[off + 1] > Len(buf)
  THEN <<>>
  ELSE <<[type |-> buf[off + 2], at |-> off + 2]>> \o AdStructures(buf, off + 1 + buf[off + 1])

\* The n bytes memcmp reads from offset at.  memcmp reads its full length,
\* past the structure when it is shorter; a byte past the advertising data
\* lies outside the report and is taken to differ (-1).
BytesAt(buf, at, n) == [i \in 1..n |-> IF at + i <= Len(buf) THEN buf[at + i] ELSE -1]

\* check_for_uuid: every UUID list structure sets found_uuid and every name
\* structure sets found_name, each from a memcmp of its first bytes; the
\* last structure of each kind decides.
CheckForUuid(buf) ==
  LET step(f, s) ==
        CASE s.type \in UuidListTypes ->
               [f EXCEPT !.uuid = BytesAt(buf, s.at, 16) = ServiceUuidReversed]
          [] s.type \in NameTypes ->
               [f EXCEPT !.name = BytesAt(buf, s.at, Len(ServiceName)) = ServiceName]
          [] OTHER -> f
      found == FoldLeft(step, [uuid |-> FALSE, name |-> FALSE], AdStructures(buf, 0))
  IN  IF ~found.uuid THEN ServiceUUIDNotFound
      ELSE IF found.name THEN ServiceUUIDAndNameFound ELSE ServiceUUIDFound

====
