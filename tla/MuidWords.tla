----------------------------- MODULE MuidWords ------------------------------
(***************************************************************************)
(* The generator as it computes: in words of two halves, with masks and    *)
(* shifts (src/src/muid.ts:32-129, 384-463).  Muid keeps a word's bit      *)
(* fields apart; here the words are made and taken apart as the code does, *)
(* one draw for one draw of Muid, and WordsAgree says that the fields are  *)
(* what the words hold: no borrow, carry or overlap is lost between them.  *)
(*                                                                         *)
(* The halves have 32 bits each in the code; here they may differ, and an  *)
(* operation's result is cut to the width of its half.                     *)
(***************************************************************************)
EXTENDS MuidString, SequencesExt

CONSTANTS
    HighBits, LowBits,            \* 32 and 32
    TimestampBits, MachineBits,   \* config.timestampBitLen and machineIDBitLen
    CPUs,                         \* the number of cores, as far as it is known
    Host,                         \* the machine's name, as character codes
    HashBasis, HashPrime,         \* 0x811c9dc5 and 0x01000193
    DoubleBits,                   \* 53: the bits of a number's significand
    SafeHigh                      \* 2^21: a high half up to which a number is exact

WordBits == HighBits + LowBits

Pow2[n \in Nat] == IF n = 0 THEN 1 ELSE 2 * Pow2[n - 1]

(* ShardedGenerators: the smallest power of two that gives every cpu a     *)
(* shard, thirty-two at most.                                              *)
ShardBits == CHOOSE bits \in 0..5 :
                /\ Pow2[bits] >= CPUs \/ bits = 5
                /\ \A fewer \in 0..(bits - 1) : Pow2[fewer] < CPUs

(* "Calculate bit lengths and shifts" *)
CounterBits == WordBits - TimestampBits - MachineBits - ShardBits
TimestampShift == MachineBits + ShardBits + CounterBits
MachineShift == ShardBits + CounterBits
ShardShift == CounterBits

(* Muid's constants are those this configuration makes. *)
ASSUME ConfigAssumption ==
    /\ {HighBits, LowBits, TimestampBits, MachineBits} \subseteq Nat
    /\ HighBits <= LowBits
    /\ CPUs \in Nat \ {0} /\ CounterBits > 0
    /\ Word = Pow2[WordBits] /\ HalfWord = Pow2[LowBits]
    /\ Timestamps = Pow2[TimestampBits] /\ TimeWrap = Word \div Pow2[CounterBits]
    /\ CounterMask = Pow2[CounterBits] - 1
    /\ Shards = Pow2[ShardBits]
    /\ MachineIDs = Pow2[MachineBits]
    /\ Host \in Seq(Nat) /\ {HashBasis, HashPrime, DoubleBits, SafeHigh} \subseteq Nat
    /\ LowBits % 4 = 0
(* The counter and the shard are short fields, as the default widths make  *)
(* them: with a counter of a half or more, its mask would be all ones.     *)
ASSUME ShortFieldsAssumption == CounterBits < LowBits /\ ShardBits <= LowBits

VARIABLES
    words,  \* Generator.state of each shard
    muid    \* the last word id() has made

wordVars == <<vars, words, muid>>

-----------------------------------------------------------------------------
(* Bitwise operators: a number is the set of its ones *)

Ones(n) == {i \in 0..(WordBits - 1) : (n \div Pow2[i]) % 2 = 1}

FromOnes(S) ==
    LET sum[k \in Nat] ==
          IF k = 0 THEN 0 ELSE sum[k - 1] + (IF k - 1 \in S THEN Pow2[k - 1] ELSE 0)
    IN  sum[WordBits]

BitOr(a, b) == FromOnes(Ones(a) \cup Ones(b))
BitAnd(a, b) == FromOnes(Ones(a) \cap Ones(b))

-----------------------------------------------------------------------------
(* 64-bit arithmetic using two 32-bit numbers *)

Make64(high, low) == [high |-> high % Pow2[HighBits], low |-> low % Pow2[LowBits]]

From32(value) == Make64(0, value)

Add64(a, b) ==
    LET carry == IF a.low + b.low >= Pow2[LowBits] THEN 1 ELSE 0
    IN  Make64(a.high + b.high + carry, a.low + b.low)

(* Mutant: forgets the borrow. *)
Sub64Halves(a, b) == Make64(a.high - b.high, a.low - b.low)

Sub64(a, b) ==
    LET borrow == IF a.low < b.low THEN 1 ELSE 0
    IN  Make64(a.high - b.high - borrow, a.low - b.low)

(* The bits that leave the low half enter the high one. *)
Shl64(value, bits) ==
    CASE bits = 0 -> value
      [] bits >= WordBits -> Make64(0, 0)
      [] bits \in LowBits..(WordBits - 1) ->
           Make64(value.low * Pow2[bits - LowBits], 0)
      [] OTHER -> Make64(BitOr(value.high * Pow2[bits], value.low \div Pow2[LowBits - bits]),
                         value.low * Pow2[bits])

(* The bits that leave the high half enter the low one. *)
Shr64(value, bits) ==
    CASE bits = 0 -> value
      [] bits >= WordBits -> Make64(0, 0)
      [] bits \in LowBits..(WordBits - 1) ->
           Make64(0, value.high \div Pow2[bits - LowBits])
      [] OTHER -> Make64(value.high \div Pow2[bits],
                         BitOr(value.low \div Pow2[bits], value.high * Pow2[LowBits - bits]))

Or64(a, b) == Make64(BitOr(a.high, b.high), BitOr(a.low, b.low))
And64(a, b) == Make64(BitAnd(a.high, b.high), BitAnd(a.low, b.low))

(* cmp64(a, b) < 0; it is 0 when the words are equal *)
Less64(a, b) == a.high < b.high \/ (a.high = b.high /\ a.low < b.low)
Gte64(a, b) == ~Less64(a, b)

Value(word) == word.high * Pow2[LowBits] + word.low

-----------------------------------------------------------------------------
(* hashString, and the fields' masks *)

(* A product of numbers has the bits of the significand that fit, rounded  *)
(* to nearest, ties to even.                                               *)
Rounded(n) ==
    LET unit == CHOOSE u \in {Pow2[i] : i \in 0..LowBits} :
                  n < u * Pow2[DoubleBits] /\ (u = 1 \/ n >= u * Pow2[DoubleBits - 1])
        kept == n \div unit
        up   == 2 * (n % unit) > unit \/ (2 * (n % unit) = unit /\ kept % 2 = 1)
    IN  (kept + (IF up THEN 1 ELSE 0)) * unit

(* The character is or-ed in, the high half cut off, and the low one       *)
(* multiplied by the prime.                                                *)
HashChar(hash, char) ==
    From32(Rounded(And64(Or64(hash, From32(char)), Make64(0, Pow2[LowBits] - 1)).low * HashPrime))
HashString(str) == FoldLeft(HashChar, Make64(HashBasis, 0), str)

(* 2^bits - 1, as long as that fits a half; all ones otherwise. *)
Mask(bits) ==
    IF bits >= LowBits THEN Make64(Pow2[HighBits] - 1, Pow2[LowBits] - 1)
    ELSE Sub64(Shl64(From32(1), bits), From32(1))

(* getDefaultConfig masks the hash, the constructor masks it again. *)
MachineWord == And64(From32(BitAnd(HashString(Host).low, Pow2[MachineBits] - 1)), Mask(MachineBits))
ASSUME MachineWordAssumption == MachineID = Value(MachineWord)
ShardWord(s) == From32(BitAnd(s, Pow2[ShardBits] - 1))

NewState == From32(1)

(* A time that does not fit the low half is cut in two, the epoch always.  *)
Halves(time) == Make64(time \div Pow2[LowBits], time)
NowWord(reading) ==
    Sub64(IF reading >= Pow2[LowBits] THEN Halves(reading) ELSE From32(reading), Halves(Epoch))

LastWord(state64) == Shr64(state64, CounterBits)
CounterWord(state64) == And64(state64, Mask(CounterBits))

ProtectedWord(now, last) == IF Less64(now, last) THEN last ELSE now

StepWord(now, state64) ==
    IF now # LastWord(state64) THEN [now |-> now, counter |-> From32(1)]
    ELSE IF Gte64(CounterWord(state64), Mask(CounterBits))
      THEN [now |-> Add64(now, From32(1)), counter |-> From32(1)]
      ELSE [now |-> now, counter |-> Add64(CounterWord(state64), From32(1))]

StateWord(step) == Or64(Shl64(step.now, CounterBits), step.counter)

(* Structure: [Timestamp][MachineID][ShardIndex][Counter] *)
IdWord(s, step) ==
    Or64(Or64(Or64(Shl64(step.now, TimestampShift), Shl64(MachineWord, MachineShift)),
              Shl64(ShardWord(s), ShardShift)),
         step.counter)

NextWord(reading) ==
    StepWord(ProtectedWord(NowWord(reading), LastWord(words[index])), words[index])

WordInit ==
    /\ Init
    /\ words = [s \in ShardIndexes |-> NewState]
    /\ muid = From32(0)

WordMake(reading) ==
    /\ Make(reading)
    /\ words' = [words EXCEPT ![index] = StateWord(NextWord(reading))]
    /\ muid' = IdWord(index, NextWord(reading))

WordNext == \E reading \in Readings : WordMake(reading)

WordSpec == WordInit /\ [][WordNext]_wordVars

-----------------------------------------------------------------------------
(* toHex, toDecimal *)

(* eight digits *)
Padded(digits) == [i \in 1..(LowBits \div 4 - Len(digits)) |-> 0] \o digits

ToHex64(word) ==
    IF word.high = 0 THEN Numeral(word.low, 16)
    ELSE Numeral(word.high, 16) \o Padded(Numeral(word.low, 16))

(* The long division has no effect; large numbers are written with a 0x.   *)
ToString64(word) ==
    IF word.high < SafeHigh THEN [radix |-> 10, digits |-> Numeral(Value(word), 10)]
    ELSE [radix |-> 16, digits |-> ToHex64(word)]

(* MUID.toHex and MUID.toDecimal *)
Spellings(word) ==
    {[radix |-> 16, digits |-> ToHex64(word)], ToString64(word)}

-----------------------------------------------------------------------------

(* The words hold the fields and nothing else: a shard's state its time    *)
(* and counter, an id its time, machine, shard and counter -- across the   *)
(* border of the halves, for a time that borrows from the high half, and   *)
(* when the counter overflows (muid.ts:419-463).  And whichever way an id  *)
(* is spelled, in one number or half by half, the digits are its value's;  *)
(* toBase32_64 starts from the ones of toHex64 (muid.ts:179-199).          *)
WordsAgree ==
    /\ \A s \in ShardIndexes :
         Value(words[s]) = state[s].time * (CounterMask + 1) + state[s].counter
    /\ ids # <<>> => Value(muid) = PackFields(Last(ids))
    /\ \A spelling \in Spellings(muid) :
         spelling.digits = Numeral(Value(muid), spelling.radix)
=============================================================================
