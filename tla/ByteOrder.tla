-------------------------------- MODULE ByteOrder --------------------------------
(***************************************************************************)
(* byte_order.hpp: numbers on their way are BigEndian; a host of the other *)
(* order turns the bytes of each number round, going and coming.           *)
(* A number is two bytes, in its host's order while it is in memory.       *)
(***************************************************************************)
EXTENDS Integers, Sequences, SequencesExt

DANEJOE_NETWORK_BYTE_ORDER == "BigEndian"
ByteOrders == {"LittleEndian", "BigEndian"}

InMemory(host, n) ==
  IF host = "BigEndian" THEN <<n \div 256, n % 256>> ELSE <<n % 256, n \div 256>>

ReadFromMemory(host, bytes) ==
  IF host = "BigEndian" THEN bytes[1] * 256 + bytes[2] ELSE bytes[2] * 256 + bytes[1]

\* Found out from where a 1 has its low byte.
get_local_byte_order(host) == IF InMemory(host, 1)[1] = 1 THEN "LittleEndian" ELSE "BigEndian"

is_network_byte_order(host) == get_local_byte_order(host) = DANEJOE_NETWORK_BYTE_ORDER

\* convert_byte_order of one number, and of count numbers one after the other.
ConvertByteOrder(host, bytes) == IF is_network_byte_order(host) THEN bytes ELSE Reverse(bytes)

ConvertEach(host, numbers) ==
  [i \in DOMAIN numbers |-> IF is_network_byte_order(host) THEN numbers[i] ELSE Reverse(numbers[i])]

ToNetworkByteOrder(host, n)   == ConvertByteOrder(host, InMemory(host, n))
ToLocalByteOrder(host, bytes) == ReadFromMemory(host, ConvertEach(host, <<bytes>>)[1])
=============================================================================
