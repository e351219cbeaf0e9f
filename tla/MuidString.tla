----------------------------- MODULE MuidString -----------------------------
(***************************************************************************)
(* An id as a number and as the string that is used as a key and sent over *)
(* the wire (toHex64, toBase32_64, MUID.toString; src/src/muid.ts).  The   *)
(* conversion of ids with a high half is not the base-32 numeral: it runs  *)
(* from the most significant hex digit and emits the low five bits of what *)
(* it has gathered, when it has gathered that much.                        *)
(*                                                                         *)
(* A string is the sequence of its digits' values.                         *)
(***************************************************************************)
EXTENDS Muid

CONSTANTS
    HalfWord,    \* 2^32: where `high` begins
    MachineIDs,  \* 2^machineIDBitLen
    MachineID    \* the process's machine id

ASSUME MachineAssumption == MachineIDs \in Nat /\ MachineID \in 0..(MachineIDs - 1)
(* HalfWord is a power of two: it has no odd divisor but 1. *)
ASSUME HalfWordAssumption ==
    /\ HalfWord \in Nat \ {0}
    /\ \A d \in 1..HalfWord : HalfWord % d = 0 => d = 1 \/ d % 2 = 0

(* [Timestamp][MachineID][ShardIndex][Counter] *)
PackFields(id) ==
    ((id.time * MachineIDs + MachineID) * Shards + id.shard) * (CounterMask + 1) + id.counter

(* Number.prototype.toString(base) *)
Numeral(n, base) ==
    LET digits[m \in 0..n] ==
          IF m < base THEN <<m>> ELSE Append(digits[m \div base], m % base)
    IN  digits[n]

(* Mutant: forgets to keep what it has not emitted. *)
GatherAndReset(acc, digit) ==
    LET num == acc.num * 16 + digit
    IN  IF num >= 32 THEN [num |-> 0, result |-> Append(acc.result, num % 32)]
                     ELSE [num |-> num, result |-> acc.result]

(* One round of the loop over hex digits. *)
Gather(acc, digit) ==
    LET num == acc.num * 16 + digit
    IN  IF num >= 32 THEN [num |-> num \div 32, result |-> Append(acc.result, num % 32)]
                     ELSE [num |-> num, result |-> acc.result]

(* The loop, from the most significant digit on. *)
GatherAll(hex) ==
    LET gathered[i \in 0..Len(hex)] ==
          IF i = 0 THEN [num |-> 0, result |-> <<>>] ELSE Gather(gathered[i - 1], hex[i])
    IN  gathered[Len(hex)]

ToBase32(value) ==
    IF value < HalfWord THEN Numeral(value, 32)
    ELSE LET end == GatherAll(Numeral(value, 16))
         IN  IF end.num > 0 THEN <<end.num>> \o end.result ELSE end.result

Values == 0..(Timestamps * MachineIDs * Shards * (CounterMask + 1) - 1)
Strings == [v \in Values |-> ToBase32(v)]

(* The string of a drawn id is that of no other value: registry keys and   *)
(* references on the wire, which are strings, are as unique as the ids.    *)
StringsNameIds ==
    \A i \in 1..Len(ids) : \A v \in Values :
        Strings[v] = Strings[PackFields(ids[i])] => v = PackFields(ids[i])
=============================================================================
