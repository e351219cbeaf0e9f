----------------------------- MODULE MuidProofs -----------------------------
(***************************************************************************)
(* A process never draws an id twice, and no two ids have the same string, *)
(* for any widths of the fields, any number of shards and any clock that   *)
(* stays past the epoch and within the timestamp field.  The words hold    *)
(* the fields and their spellings are numerals, for any widths and clock.  *)
(*                                                                         *)
(* Ids of two shards differ in the shard.  Ids of one shard increase: its  *)
(* state is never before an id it has drawn, and each draw moves it on.    *)
(*                                                                         *)
(* The string of a value with a high half is no numeral, but each round of *)
(* the loop that makes it can be undone from what it leaves; and the       *)
(* string has as many bits as the value, so the strings of the two         *)
(* branches of toBase32_64 do not meet.                                    *)
(*                                                                         *)
(* Bitwise or adds numbers that have no one in common, and with a mask it  *)
(* leaves a rest; a shift multiplies or divides a whole word, whichever    *)
(* half its bits end up in.  So every word the generator makes has the     *)
(* value its fields add up to.                                             *)
(***************************************************************************)
EXTENDS MuidWords, SequenceTheorems, WellFoundedInduction, TLAPS

USE DEF ShardIndexes, Times, Counters

(* A field keeps a number that fits it. *)
LEMMA FieldKeeps ==
    ASSUME NEW n \in Nat, NEW x \in Nat, x < n
    PROVE  x % n = x
BY SMT

(* The turn passes to another shard or back to the first. *)
LEMMA TurnStays ==
    ASSUME NEW n \in Nat \ {0}, NEW i \in 0..(n - 1)
    PROVE  (i + 1) % n \in 0..(n - 1)
<1>1. CASE i + 1 < n
  BY <1>1, FieldKeeps
<1>2. CASE i + 1 = n
  BY <1>2, SMT
<1> QED BY <1>1, <1>2

(* What a draw does to a shard: time and counter stay in range, the time   *)
(* grows by at most one past clock and state, and the step is later.       *)
LEMMA StepMoves ==
    ASSUME ClockFits,
           NEW reading \in Readings,
           NEW last \in [time : Times, counter : Counters],
           NEW left \in 1..MaxDraws,
           last.time + left < Timestamps
    PROVE  LET step == Step(ProtectedTime(reading, last), last)
           IN  /\ step \in [time : Nat, counter : Counters]
               /\ step.time + (left - 1) < Timestamps
               /\ Before(last, step)
<1>1. /\ reading \in Nat /\ Epoch \in Nat /\ Word \in Nat /\ MaxDraws \in Nat
      /\ Timestamps \in Nat \ {0} /\ Timestamps <= Word /\ CounterMask \in Nat \ {0}
      /\ TimeWrap \in Nat
  BY ReadingsAssumption, WidthsAssumption, DrawsAssumption
<1>2. reading - Epoch \in Nat /\ reading - Epoch + MaxDraws < Timestamps
  BY <1>1 DEF ClockFits
<1>3. SinceEpoch(reading) = reading - Epoch
  BY <1>1, <1>2, FieldKeeps DEF SinceEpoch
<1>4. last.time \in Nat /\ last.counter \in Counters
  BY <1>1
<1> DEFINE now == ProtectedTime(reading, last)
<1>5. now \in Nat /\ now >= last.time /\ now + left < Timestamps
  BY <1>1, <1>2, <1>3, <1>4 DEF ProtectedTime
<1>6. (now + 1) % Word = now + 1
  BY <1>1, <1>5, FieldKeeps
<1> HIDE DEF now
<1>7. CASE now # last.time
  BY <1>1, <1>4, <1>5, <1>7 DEF Step, Before, now
<1>8. CASE now = last.time /\ last.counter >= CounterMask
  BY <1>1, <1>4, <1>5, <1>6, <1>8 DEF Step, Before, now
<1>9. CASE now = last.time /\ ~(last.counter >= CounterMask)
  BY <1>1, <1>4, <1>5, <1>9 DEF Step, Before, now
<1> QED BY <1>7, <1>8, <1>9

(* What has been drawn is an id. *)
LEMMA Drawn ==
    ASSUME ids \in Seq(IdSet), NEW i \in 1..Len(ids)
    PROVE  /\ ids[i] \in IdSet
           /\ ids[i].time \in Nat /\ ids[i].counter \in Nat
           /\ ids[i].shard \in ShardIndexes
<1>1. ids[i] \in IdSet
  OBVIOUS
<1> QED BY <1>1, WidthsAssumption DEF IdSet

(* Increasing ids of a shard and distinct shards make distinct ids. *)
LEMMA IncreasingIsUnique ==
    ASSUME TypeOK, ShardIdsIncrease
    PROVE  IdsUnique
<1> SUFFICES ASSUME NEW i \in 1..Len(ids), NEW j \in 1..Len(ids), ids[i] = ids[j], i < j
             PROVE  FALSE
  BY DEF IdsUnique
<1>1. Before(ids[i], ids[j])
  BY DEF ShardIdsIncrease
<1>2. ids[i].time \in Nat /\ ids[i].counter \in Nat
  BY Drawn DEF TypeOK
<1> QED BY <1>1, <1>2 DEF Before

-----------------------------------------------------------------------------

LEMMA InitSound ==
    ASSUME ClockFits
    PROVE  Init => MuidSound
<1> SUFFICES ASSUME Init PROVE MuidSound
  OBVIOUS
<1>1. TypeOK
  BY ShardsAssumption, WidthsAssumption DEF Init, TypeOK
<1>2. Len(ids) = 0
  BY DEF Init
<1>3. TimeFits
  BY <1>2, DrawsAssumption, WidthsAssumption DEF Init, TimeFits, ClockFits
<1> QED BY <1>1, <1>2, <1>3 DEF MuidSound, StateIsLatest, ShardIdsIncrease

LEMMA MakeSound ==
    ASSUME ClockFits, MuidSound, NEW reading \in Readings, Make(reading)
    PROVE  MuidSound'
<1> DEFINE last == state[index]
           step == Step(ProtectedTime(reading, last), last)
           left == MaxDraws - Len(ids)
           n == Len(ids) + 1
<1>1. /\ ids \in Seq(IdSet) /\ index \in ShardIndexes
      /\ state \in [ShardIndexes -> [time : Times, counter : Counters]]
      /\ last \in [time : Times, counter : Counters]
      /\ Len(ids) \in Nat
  BY DEF MuidSound, TypeOK
<1>2. left \in 1..MaxDraws /\ last.time + left < Timestamps
  BY <1>1, DrawsAssumption DEF MuidSound, TimeFits, Make
<1>3. /\ step \in [time : Nat, counter : Counters]
      /\ step.time + (left - 1) < Timestamps
      /\ Before(last, step)
  BY <1>1, <1>2, StepMoves
<1>4. /\ step.time \in Nat /\ step.time < Timestamps
      /\ step.time \in Times
  BY <1>2, <1>3, WidthsAssumption, DrawsAssumption
<1> HIDE DEF last, step, left
<1>5. /\ StateOf(step) = [time |-> step.time, counter |-> step.counter]
      /\ IdOf(index, step) = [time |-> step.time, shard |-> index, counter |-> step.counter]
  BY <1>4, WidthsAssumption, FieldKeeps DEF StateOf, IdOf
<1>6. /\ StateOf(step) \in [time : Times, counter : Counters]
      /\ IdOf(index, step) \in IdSet
  BY <1>1, <1>3, <1>4, <1>5, WidthsAssumption DEF IdSet
<1>7. /\ state' = [state EXCEPT ![index] = StateOf(step)]
      /\ ids' = Append(ids, IdOf(index, step))
      /\ index' = (index + 1) % Shards
  BY DEF Make, NextStep, step, last
<1>8. Len(ids') = n /\ ids'[n] = IdOf(index, step) /\ \A i \in 1..Len(ids) : ids'[i] = ids[i]
  BY <1>1, <1>7
<1>9. TypeOK'
  BY <1>1, <1>6, <1>7, TurnStays, ShardsAssumption DEF TypeOK
<1>10. TimeFits'
  <2> SUFFICES ASSUME NEW s \in ShardIndexes
               PROVE  state'[s].time + (MaxDraws - Len(ids')) < Timestamps
    BY DEF TimeFits
  <2>1. CASE s = index
    <3>1. state'[s].time = step.time
      BY <1>1, <1>5, <1>7, <2>1
    <3> QED BY <1>1, <1>3, <1>8, <3>1, DrawsAssumption, WidthsAssumption DEF left
  <2>2. CASE s # index
    <3>1. state'[s] = state[s] /\ state[s].time \in Nat
      BY <1>1, <1>7, <2>2, WidthsAssumption
    <3>2. state[s].time + (MaxDraws - Len(ids)) < Timestamps
      BY DEF MuidSound, TimeFits
    <3> QED BY <1>1, <1>8, <3>1, <3>2, DrawsAssumption, WidthsAssumption
  <2> QED BY <2>1, <2>2
<1>11. \A i \in 1..Len(ids) : ids[i].shard = index => Before(ids[i], step)
  <2> SUFFICES ASSUME NEW i \in 1..Len(ids), ids[i].shard = index PROVE Before(ids[i], step)
    OBVIOUS
  <2>1. ~Before(last, ids[i])
    BY DEF MuidSound, StateIsLatest, last
  <2>2. /\ ids[i].time \in Nat /\ ids[i].counter \in Nat
        /\ last.time \in Nat /\ last.counter \in Nat
        /\ step.time \in Nat /\ step.counter \in Nat
    BY <1>1, <1>3, Drawn, WidthsAssumption
  <2> QED BY <1>3, <2>1, <2>2 DEF Before
<1>12. StateIsLatest'
  <2> SUFFICES ASSUME NEW i \in 1..n PROVE ~Before(state'[ids'[i].shard], ids'[i])
    BY <1>8 DEF StateIsLatest
  <2>1. CASE i = n
    <3>1. state'[ids'[i].shard] = StateOf(step) /\ ids'[i] = IdOf(index, step)
      BY <1>1, <1>5, <1>7, <1>8, <2>1
    <3> QED BY <1>3, <1>4, <1>5, <3>1 DEF Before
  <2>2. CASE i # n /\ ids[i].shard = index
    <3>1. i \in 1..Len(ids) /\ ids'[i] = ids[i] /\ state'[ids'[i].shard] = StateOf(step)
      BY <1>1, <1>7, <1>8, <2>2
    <3>2. Before(ids[i], step)
      BY <1>11, <2>2, <3>1
    <3>3. ids[i].time \in Nat /\ ids[i].counter \in Nat
      BY <1>1, <3>1, Drawn
    <3> QED BY <1>3, <1>4, <1>5, <3>1, <3>2, <3>3 DEF Before
  <2>3. CASE i # n /\ ids[i].shard # index
    <3>1. i \in 1..Len(ids) /\ ids'[i] = ids[i]
      BY <1>1, <1>8, <2>3
    <3>2. ids[i].shard \in ShardIndexes
      BY <1>1, <3>1, Drawn
    <3>3. state'[ids'[i].shard] = state[ids[i].shard]
      BY <1>1, <1>7, <2>3, <3>1, <3>2
    <3> QED BY <3>1, <3>3 DEF MuidSound, StateIsLatest
  <2> QED BY <2>1, <2>2, <2>3
<1>13. ShardIdsIncrease'
  <2> SUFFICES ASSUME NEW i \in 1..n, NEW j \in 1..n, i < j, ids'[i].shard = ids'[j].shard
               PROVE  Before(ids'[i], ids'[j])
    BY <1>8 DEF ShardIdsIncrease
  <2>1. i \in 1..Len(ids) /\ ids'[i] = ids[i]
    BY <1>1, <1>8
  <2>2. CASE j = n
    <3>1. ids'[j] = [time |-> step.time, shard |-> index, counter |-> step.counter]
      BY <1>5, <1>8, <2>2
    <3>2. Before(ids[i], step)
      BY <1>11, <2>1, <3>1
    <3> QED BY <2>1, <3>1, <3>2 DEF Before
  <2>3. CASE j # n
    <3>1. j \in 1..Len(ids) /\ ids'[j] = ids[j]
      BY <1>1, <1>8, <2>3
    <3>2. ids[i].shard = ids[j].shard
      BY <2>1, <3>1
    <3> QED BY <2>1, <3>1, <3>2 DEF MuidSound, ShardIdsIncrease
  <2> QED BY <2>2, <2>3
<1> QED BY <1>9, <1>10, <1>12, <1>13 DEF MuidSound

(* Ids of a shard only increase, and stay within their fields. *)
THEOREM Sound ==
    ASSUME ClockFits
    PROVE  Spec => []MuidSound
<1>1. Init => MuidSound
  BY InitSound
<1>2. MuidSound /\ [Next]_vars => MuidSound'
  <2> SUFFICES ASSUME MuidSound, [Next]_vars PROVE MuidSound'
    OBVIOUS
  <2>1. CASE Next
    BY <2>1, MakeSound DEF Next
  <2>2. CASE UNCHANGED vars
    BY <2>2 DEF vars, MuidSound, TypeOK, TimeFits, StateIsLatest, ShardIdsIncrease
  <2> QED BY <2>1, <2>2
<1> QED BY <1>1, <1>2, PTL DEF Spec

(* No id is drawn twice (make, muid.ts:519). *)
THEOREM NeverTwice ==
    ASSUME ClockFits
    PROVE  Spec => []IdsUnique
<1>1. MuidSound => IdsUnique
  BY IncreasingIsUnique DEF MuidSound
<1> QED BY <1>1, Sound, PTL

-----------------------------------------------------------------------------
(***************************************************************************)
(* Induction over the naturals without an operator parameter: the          *)
(* predicate is a set.                                                     *)
(***************************************************************************)

(* Every non-empty set of naturals has a least member.                     *)
LEMMA LeastNatural ==
    ASSUME NEW S, S \subseteq Nat, S # {}
    PROVE  \E n \in S : \A m \in S : n <= m
<1> DEFINE R == OpToRel(<, Nat)
<1>1. IsWellFoundedOn(R, Nat)
  BY NatLessThanWellFounded
<1>2. \A m, n \in Nat : m < n => <<m, n>> \in R
  BY Zenon DEF OpToRel
<1>3. \E n \in S : \A m \in S : ~ (<<m, n>> \in R)
  <2> HIDE DEF R
  <2> QED
    BY <1>1, WFMin, Zenon
<1>4. PICK n \in S : \A m \in S : ~ (m < n)
  BY <1>2, <1>3, Zenon
<1> QED
  BY <1>4

(* A set that has every natural whose predecessors it has is Nat.          *)
LEMMA StrongInduction ==
    ASSUME NEW S, \A n \in Nat : (\A m \in 0..(n - 1) : m \in S) => n \in S
    PROVE  \A n \in Nat : n \in S
<1> SUFFICES ASSUME Nat \ S # {}
             PROVE  FALSE
  OBVIOUS
<1>1. PICK n \in Nat \ S : \A m \in Nat \ S : n <= m
  BY LeastNatural
<1>2. \A m \in 0..(n - 1) : m \in S
  BY <1>1
<1> QED
  BY <1>1, <1>2

-----------------------------------------------------------------------------
(* Quotient and rest.                                                      *)

LEMMA Division ==
    ASSUME NEW b \in Nat \ {0}, NEW n \in Nat
    PROVE  /\ n \div b \in Nat /\ n % b \in 0..(b - 1)
           /\ n = b * (n \div b) + (n % b)
BY SMT

LEMMA DivisionShrinks ==
    ASSUME NEW b \in Nat, b >= 2, NEW n \in Nat, ~(n < b)
    PROVE  n \div b \in 1..(n - 1)
BY SMT

LEMMA DivisionUnique ==
    ASSUME NEW b \in Nat \ {0}, NEW q \in Nat, NEW r \in 0..(b - 1)
    PROVE  (b * q + r) \div b = q /\ (b * q + r) % b = r
BY SMT

-----------------------------------------------------------------------------
(* Number.prototype.toString                                               *)

(* The recursive function inside Numeral.                                  *)
IsNumerals(f, n, base) ==
    f = [m \in 0..n |-> IF m < base THEN <<m>> ELSE Append(f[m \div base], m % base)]

LEMMA NumeralsAgree ==
    ASSUME NEW base \in Nat, base >= 2, NEW n \in Nat, NEW m \in Nat,
           NEW f, IsNumerals(f, n, base), NEW g, IsNumerals(g, m, base)
    PROVE  \A i \in 0..n : i <= m => f[i] = g[i]
<1> DEFINE S == {i \in Nat : i <= n /\ i <= m => f[i] = g[i]}
<1>1. ASSUME NEW i \in Nat, \A j \in 0..(i - 1) : j \in S
      PROVE  i \in S
  <2> SUFFICES ASSUME i <= n, i <= m
               PROVE  f[i] = g[i]
    OBVIOUS
  <2>1. CASE i < base
    BY <2>1 DEF IsNumerals
  <2>2. CASE ~(i < base)
    <3>1. i \div base \in 1..(i - 1)
      BY <2>2, DivisionShrinks, Zenon
    <3>2. f[i \div base] = g[i \div base]
      BY <1>1, <3>1
    <3>3. f[i] = Append(f[i \div base], i % base) /\ g[i] = Append(g[i \div base], i % base)
      <4>1. i \in 0..n /\ i \in 0..m
        OBVIOUS
      <4> QED
        BY <2>2, <4>1, Zenon DEF IsNumerals
    <3> QED
      BY <3>2, <3>3
  <2> QED
    BY <2>1, <2>2
<1>2. \A i \in Nat : i \in S
  <2> HIDE DEF S
  <2> QED
    BY <1>1, StrongInduction
<1> QED
  BY <1>2

LEMMA NumeralsExist ==
    ASSUME NEW base \in Nat, base >= 2
    PROVE  \A n \in Nat : \E f : IsNumerals(f, n, base)
<1> DEFINE S == {n \in Nat : \E f : IsNumerals(f, n, base)}
<1>1. ASSUME NEW n \in Nat, \A m \in 0..(n - 1) : m \in S
      PROVE  \E f : IsNumerals(f, n, base)
  <2>1. CASE n < base
    <3> DEFINE f == [m \in 0..n |-> <<m>>]
    <3>1. \A m \in 0..n : m < base
      BY <2>1
    <3>2. IsNumerals(f, n, base)
      BY <3>1 DEF IsNumerals
    <3> QED
      BY <3>2
  <2>2. CASE ~(n < base)
    <3>0. n \div base \in 1..(n - 1)
      BY <2>2, DivisionShrinks, Zenon
    <3>1. n - 1 \in 0..(n - 1) /\ n \div base \in 0..(n - 1) /\ n - 1 \in Nat
      BY <3>0
    <3>2. PICK g : IsNumerals(g, n - 1, base)
      BY <1>1, <3>1
    <3> DEFINE f == [m \in 0..n |-> IF m = n THEN Append(g[n \div base], n % base) ELSE g[m]]
    <3>3. \A m \in 0..(n - 1) : f[m] = g[m]
      BY <3>1
    <3>4. f[n] = IF n < base THEN <<n>> ELSE Append(f[n \div base], n % base)
      BY <2>2, <3>1
    <3>5. ASSUME NEW m \in 0..(n - 1)
          PROVE  f[m] = IF m < base THEN <<m>> ELSE Append(f[m \div base], m % base)
      <4>1. g[m] = IF m < base THEN <<m>> ELSE Append(g[m \div base], m % base)
        BY <3>2, Zenon DEF IsNumerals
      <4>2. ~(m < base) => m \div base \in 0..(n - 1)
        <5> HAVE ~(m < base)
        <5>1. m \in Nat
          OBVIOUS
        <5>2. m \div base \in 1..(m - 1)
          BY <5>1, DivisionShrinks, Zenon
        <5> QED
          BY <5>2
      <4>3. ~(m < base) => f[m \div base] = g[m \div base]
        BY <3>3, <4>2
      <4> HIDE DEF f
      <4> QED
        BY <3>3, <4>1, <4>3
    <3>6. f = [m \in 0..n |-> f[m]]
      OBVIOUS
    <3>7. \A m \in 0..n : m = n \/ m \in 0..(n - 1)
      OBVIOUS
    <3> HIDE DEF f
    <3>8. \A m \in 0..n : f[m] = IF m < base THEN <<m>> ELSE Append(f[m \div base], m % base)
      BY <3>4, <3>5, <3>7
    <3>9. IsNumerals(f, n, base)
      BY <3>6, <3>8, Zenon DEF IsNumerals
    <3> QED
      BY <3>9
  <2> QED
    BY <2>1, <2>2
<1>2. \A n \in Nat : n \in S
  <2>1. \A n \in Nat : (\A m \in 0..(n - 1) : m \in S) => n \in S
    BY <1>1
  <2> HIDE DEF S
  <2> QED
    BY <2>1, StrongInduction
<1> QED
  BY <1>2

(* The last digit is the rest, the others are the quotient's.              *)
LEMMA NumeralStep ==
    ASSUME NEW base \in Nat, base >= 2, NEW n \in Nat
    PROVE  Numeral(n, base) =
             IF n < base THEN <<n>> ELSE Append(Numeral(n \div base, base), n % base)
<1> DEFINE digits(m) == CHOOSE f : IsNumerals(f, m, base)
<1>1. \A m \in Nat : IsNumerals(digits(m), m, base)
  BY NumeralsExist, Zenon
<1>2. \A m \in Nat : Numeral(m, base) = digits(m)[m]
  BY Zenon DEF Numeral, IsNumerals
<1> HIDE DEF digits
<1>3. digits(n)[n] = IF n < base THEN <<n>> ELSE Append(digits(n)[n \div base], n % base)
  <2>1. n \in 0..n
    OBVIOUS
  <2> QED
    BY <1>1, <2>1, Zenon DEF IsNumerals
<1>4. CASE n < base
  BY <1>2, <1>3, <1>4
<1>5. CASE ~(n < base)
  <2>0. n \div base \in 1..(n - 1)
    BY <1>5, DivisionShrinks, Zenon
  <2>1. n \div base \in 0..n /\ n \div base \in Nat /\ n \div base <= n \div base
    BY <2>0
  <2>2. digits(n)[n \div base] = digits(n \div base)[n \div base]
    BY <1>1, <2>1, NumeralsAgree
  <2> QED
    BY <1>2, <1>3, <1>5, <2>1, <2>2
<1> QED
  BY <1>4, <1>5

(* What Append does, and that it can be undone.                            *)
LEMMA AppendTakesApart ==
    ASSUME NEW S, NEW s \in Seq(S), NEW d \in S
    PROVE  /\ Append(s, d) \in Seq(S)
           /\ Len(s) \in Nat /\ Len(Append(s, d)) = Len(s) + 1
           /\ Append(s, d)[Len(s) + 1] = d
           /\ \A i \in 1..Len(s) : Append(s, d)[i] = s[i]
OBVIOUS

(* A numeral has digits, the first of them is not 0 unless the number is.  *)
LEMMA NumeralShape ==
    ASSUME NEW base \in Nat, base >= 2
    PROVE  \A n \in Nat :
             /\ Numeral(n, base) \in Seq(0..(base - 1))
             /\ Len(Numeral(n, base)) \in Nat \ {0}
             /\ n # 0 => Numeral(n, base)[1] # 0
<1> DEFINE Shaped(n) == /\ Numeral(n, base) \in Seq(0..(base - 1))
                        /\ Len(Numeral(n, base)) \in Nat \ {0}
                        /\ n # 0 => Numeral(n, base)[1] # 0
           S == {n \in Nat : Shaped(n)}
<1>1. ASSUME NEW n \in Nat, \A m \in 0..(n - 1) : m \in S
      PROVE  Shaped(n)
  <2>1. CASE n < base
    <3>1. Numeral(n, base) = <<n>>
      BY <2>1, NumeralStep
    <3> QED
      BY <2>1, <3>1
  <2>2. CASE ~(n < base)
    <3> DEFINE q == n \div base
               s == Numeral(q, base)
    <3>1. q \in 1..(n - 1)
      BY <2>2, DivisionShrinks, Zenon
    <3>2. Shaped(q) /\ q # 0
      BY <1>1, <3>1
    <3>3. Numeral(n, base) = Append(s, n % base)
      BY <2>2, NumeralStep
    <3>4. n % base \in 0..(base - 1)
      BY Division
    <3> HIDE DEF q, s
    <3>5. s \in Seq(0..(base - 1)) /\ Len(s) \in Nat \ {0} /\ s[1] # 0
      BY <3>2 DEF s
    <3>6. Append(s, n % base)[1] = s[1]
      BY <3>4, <3>5
    <3> QED
      BY <3>3, <3>4, <3>5, <3>6, AppendTakesApart
  <2> QED
    BY <2>1, <2>2
<1>2. \A n \in Nat : n \in S
  <2>1. \A n \in Nat : (\A m \in 0..(n - 1) : m \in S) => n \in S
    <3> HIDE DEF Shaped
    <3> QED
      BY <1>1
  <2> HIDE DEF S
  <2> QED
    BY <2>1, StrongInduction
<1> QED
  BY <1>2

(* A numeral of one digit, and one of several.                             *)
LEMMA NumeralShort ==
    ASSUME NEW base \in Nat, base >= 2, NEW n \in Nat, n < base
    PROVE  Len(Numeral(n, base)) = 1 /\ Numeral(n, base)[1] = n
<1>1. Numeral(n, base) = <<n>>
  BY NumeralStep
<1> QED
  BY <1>1

LEMMA NumeralLong ==
    ASSUME NEW base \in Nat, base >= 2, NEW n \in Nat, ~(n < base)
    PROVE  /\ n \div base \in 1..(n - 1)
           /\ n % base \in 0..(base - 1)
           /\ n = base * (n \div base) + (n % base)
           /\ Numeral(n \div base, base) \in Seq(0..(base - 1))
           /\ Numeral(n, base) = Append(Numeral(n \div base, base), n % base)
           /\ Len(Numeral(n, base)) = Len(Numeral(n \div base, base)) + 1
           /\ Numeral(n, base)[1] = Numeral(n \div base, base)[1]
           /\ Len(Numeral(n, base)) > 1
<1>1. n \div base \in 1..(n - 1)
  BY DivisionShrinks, Zenon
<1>2. n % base \in 0..(base - 1) /\ n = base * (n \div base) + (n % base)
  BY Division
<1>3. n \div base \in Nat
  BY <1>1
<1>4. /\ Numeral(n \div base, base) \in Seq(0..(base - 1))
      /\ Len(Numeral(n \div base, base)) \in Nat \ {0}
  BY <1>3, NumeralShape
<1>5. Numeral(n, base) = Append(Numeral(n \div base, base), n % base)
  BY NumeralStep
<1>6. /\ Len(Numeral(n, base)) = Len(Numeral(n \div base, base)) + 1
      /\ Numeral(n, base)[1] = Numeral(n \div base, base)[1]
      /\ Len(Numeral(n, base)) > 1
  <2> DEFINE Digit == 0..(base - 1)
             s == Numeral(n \div base, base)
             a == n % base
  <2>1. s \in Seq(Digit) /\ Len(s) \in Nat \ {0} /\ a \in Digit
    BY <1>2, <1>4
  <2> HIDE DEF Digit, s, a
  <2>2. /\ Len(Append(s, a)) = Len(s) + 1
        /\ \A i \in 1..Len(s) : Append(s, a)[i] = s[i]
    BY <2>1, AppendTakesApart
  <2>3. Append(s, a)[1] = s[1] /\ Len(Append(s, a)) > 1
    BY <2>1, <2>2
  <2> QED
    BY <1>5, <2>2, <2>3, Zenon DEF s, a
<1> QED
  BY <1>1, <1>2, <1>4, <1>5, <1>6, Zenon

(* Two numbers do not share a numeral.                                     *)
LEMMA NumeralInjective ==
    ASSUME NEW base \in Nat, base >= 2
    PROVE  \A n, m \in Nat : Numeral(n, base) = Numeral(m, base) => n = m
<1> DEFINE Named(n) == \A m \in Nat : Numeral(n, base) = Numeral(m, base) => n = m
           S == {n \in Nat : Named(n)}
<1>1. ASSUME NEW n \in Nat, \A m \in 0..(n - 1) : m \in S,
             NEW m \in Nat, Numeral(n, base) = Numeral(m, base)
      PROVE  n = m
  <2>1. CASE n < base /\ m < base
    <3>1. Numeral(n, base)[1] = n /\ Numeral(m, base)[1] = m
      BY <2>1, NumeralShort, Zenon
    <3> QED
      BY <1>1, <3>1
  <2>2. CASE ~(n < base) /\ ~(m < base)
    <3> DEFINE q == n \div base
               p == m \div base
               a == n % base
               b == m % base
               Digit == 0..(base - 1)
    <3>1. /\ q \in 1..(n - 1) /\ n = base * q + a
          /\ Numeral(q, base) \in Seq(Digit) /\ a \in Digit
          /\ Numeral(n, base) = Append(Numeral(q, base), a)
      BY <2>2, NumeralLong, Zenon
    <3>2. /\ p \in 1..(m - 1) /\ m = base * p + b
          /\ Numeral(p, base) \in Seq(Digit) /\ b \in Digit
          /\ Numeral(m, base) = Append(Numeral(p, base), b)
      BY <2>2, NumeralLong, Zenon
    <3> HIDE DEF q, p, a, b, Digit
    <3>3. Append(Numeral(q, base), a) = Append(Numeral(p, base), b)
      BY <1>1, <3>1, <3>2
    <3>4. Numeral(q, base) = Numeral(p, base) /\ a = b
      BY <3>1, <3>2, <3>3, AppendInjective
    <3>5. q \in 0..(n - 1) /\ p \in Nat
      BY <3>1, <3>2
    <3>6. q = p
      BY <1>1, <3>4, <3>5
    <3> QED
      BY <3>1, <3>2, <3>4, <3>6
  <2>3. CASE n < base /\ ~(m < base)
    <3>1. Len(Numeral(n, base)) = 1 /\ Len(Numeral(m, base)) > 1
      BY <2>3, NumeralShort, NumeralLong, Zenon
    <3> QED
      BY <1>1, <3>1
  <2>4. CASE ~(n < base) /\ m < base
    <3>1. Len(Numeral(n, base)) > 1 /\ Len(Numeral(m, base)) = 1
      BY <2>4, NumeralShort, NumeralLong, Zenon
    <3> QED
      BY <1>1, <3>1
  <2> QED
    BY <2>1, <2>2, <2>3, <2>4, Zenon
<1>2. \A n \in Nat : n \in S
  <2>1. \A n \in Nat : (\A m \in 0..(n - 1) : m \in S) => n \in S
    <3> SUFFICES ASSUME NEW n \in Nat, \A m \in 0..(n - 1) : m \in S
                 PROVE  Named(n)
      OBVIOUS
    <3> QED
      BY <1>1
  <2> HIDE DEF S
  <2> QED
    BY <2>1, StrongInduction
<1> QED
  BY <1>2

-----------------------------------------------------------------------------
(* The loop of toBase32_64                                                 *)

Gathered == [num : Nat, result : Seq(0..31)]
NothingYet == [num |-> 0, result |-> <<>>]

(* The recursive function inside GatherAll.                                *)
IsGathering(g, hex) ==
    g = [i \in 0..Len(hex) |-> IF i = 0 THEN NothingYet ELSE Gather(g[i - 1], hex[i])]

LEMMA GatheringExists ==
    ASSUME NEW hex \in Seq(Nat)
    PROVE  \E g : IsGathering(g, hex)
<1> DEFINE Upto(k, g) == g = [i \in 0..k |-> IF i = 0 THEN NothingYet ELSE Gather(g[i - 1], hex[i])]
           S == {k \in Nat : \E g : Upto(k, g)}
<1>1. ASSUME NEW k \in Nat, \A j \in 0..(k - 1) : j \in S
      PROVE  \E g : Upto(k, g)
  <2>1. CASE k = 0
    <3>1. Upto(k, [i \in 0..k |-> NothingYet])
      BY <2>1
    <3> QED
      BY <3>1
  <2>2. CASE k # 0
    <3>1. k - 1 \in 0..(k - 1)
      BY <2>2
    <3>2. PICK g : Upto(k - 1, g)
      BY <1>1, <3>1
    <3> DEFINE f == [i \in 0..k |-> IF i = k THEN Gather(g[k - 1], hex[k]) ELSE g[i]]
    <3>3. f = [i \in 0..k |-> f[i]] /\ f[k] = Gather(g[k - 1], hex[k])
      OBVIOUS
    <3>4. \A i \in 0..(k - 1) : f[i] = g[i]
      OBVIOUS
    <3>5. f[0] = NothingYet
      BY <2>2, <3>2
    <3>6. \A i \in 1..(k - 1) : f[i - 1] = g[i - 1] /\ f[i] = Gather(g[i - 1], hex[i])
      <4> SUFFICES ASSUME NEW i \in 1..(k - 1)
                   PROVE  f[i - 1] = g[i - 1] /\ f[i] = Gather(g[i - 1], hex[i])
        OBVIOUS
      <4>1. i \in 0..(k - 1) /\ i - 1 \in 0..(k - 1) /\ i # 0
        OBVIOUS
      <4>2. g[i] = IF i = 0 THEN NothingYet ELSE Gather(g[i - 1], hex[i])
        BY <3>2, <4>1, Zenon
      <4> HIDE DEF f
      <4> QED
        BY <3>4, <4>1, <4>2
    <3>7. f[k - 1] = g[k - 1]
      BY <3>1, <3>4
    <3> HIDE DEF f
    <3>8. ASSUME NEW i \in 0..k
          PROVE  f[i] = IF i = 0 THEN NothingYet ELSE Gather(f[i - 1], hex[i])
      <4>1. CASE i = 0
        BY <3>5, <4>1
      <4>2. CASE i = k
        BY <2>2, <3>3, <3>7, <4>2
      <4>3. CASE i \in 1..(k - 1)
        BY <3>6, <4>3
      <4> QED
        BY <4>1, <4>2, <4>3
    <3>9. Upto(k, f)
      BY <3>3, <3>8, Zenon
    <3> QED
      BY <3>9
  <2> QED
    BY <2>1, <2>2
<1>2. \A k \in Nat : k \in S
  <2>1. \A k \in Nat : (\A j \in 0..(k - 1) : j \in S) => k \in S
    BY <1>1
  <2> HIDE DEF S
  <2> QED
    BY <2>1, StrongInduction
<1>3. Len(hex) \in Nat
  OBVIOUS
<1> QED
  BY <1>2, <1>3, Zenon DEF IsGathering

(* The loop after its rounds, from a function that records them.           *)
LEMMA GatherAllRecords ==
    ASSUME NEW hex \in Seq(Nat)
    PROVE  \E g : IsGathering(g, hex) /\ GatherAll(hex) = g[Len(hex)]
<1> DEFINE g == CHOOSE f : IsGathering(f, hex)
<1>1. IsGathering(g, hex)
  BY GatheringExists, Zenon
<1>2. GatherAll(hex) = g[Len(hex)]
  BY Zenon DEF GatherAll, IsGathering, NothingYet
<1> QED
  BY <1>1, <1>2

LEMMA GatherNothing == GatherAll(<<>>) = NothingYet
<1>1. <<>> \in Seq(Nat) /\ Len(<<>>) = 0
  OBVIOUS
<1>2. PICK g : IsGathering(g, <<>>) /\ GatherAll(<<>>) = g[Len(<<>>)]
  BY <1>1, GatherAllRecords
<1> QED
  BY <1>1, <1>2 DEF IsGathering

(* One digit more is one round more.                                       *)
LEMMA GatherAllAppend ==
    ASSUME NEW hex \in Seq(Nat), NEW d \in Nat
    PROVE  GatherAll(Append(hex, d)) = Gather(GatherAll(hex), d)
<1> DEFINE more == Append(hex, d)
           n == Len(hex)
<1>1. /\ more \in Seq(Nat) /\ n \in Nat /\ Len(more) = n + 1 /\ more[n + 1] = d
      /\ \A i \in 1..n : more[i] = hex[i]
  BY AppendTakesApart
<1>2. PICK g : IsGathering(g, hex) /\ GatherAll(hex) = g[n]
  BY GatherAllRecords
<1>3. PICK f : IsGathering(f, more) /\ GatherAll(more) = f[Len(more)]
  BY <1>1, GatherAllRecords
<1> HIDE DEF more, n
<1>4. /\ g[0] = NothingYet
      /\ \A i \in 1..n : g[i] = Gather(g[i - 1], hex[i])
  <2>1. \A i \in 0..n : g[i] = IF i = 0 THEN NothingYet ELSE Gather(g[i - 1], hex[i])
    BY <1>2, Zenon DEF IsGathering, n
  <2> QED
    BY <1>1, <2>1
<1>5. /\ f[0] = NothingYet
      /\ \A i \in 1..(n + 1) : f[i] = Gather(f[i - 1], more[i])
  BY <1>1, <1>3 DEF IsGathering
<1> DEFINE S == {i \in Nat : i <= n => f[i] = g[i]}
<1>6. ASSUME NEW i \in Nat, \A j \in 0..(i - 1) : j \in S
      PROVE  i \in S
  <2> SUFFICES ASSUME i <= n
               PROVE  f[i] = g[i]
    OBVIOUS
  <2>1. CASE i = 0
    BY <1>4, <1>5, <2>1
  <2>2. CASE i # 0
    <3>1. i \in 1..n /\ i \in 1..(n + 1) /\ i - 1 \in 0..(i - 1) /\ i - 1 <= n
      BY <1>1, <2>2
    <3>2. f[i - 1] = g[i - 1]
      BY <1>6, <3>1
    <3> HIDE DEF S
    <3> QED
      BY <1>1, <1>4, <1>5, <3>1, <3>2
  <2> QED
    BY <2>1, <2>2
<1>7. n \in S
  <2> HIDE DEF S
  <2>1. \A i \in Nat : i \in S
    BY <1>6, StrongInduction
  <2> QED
    BY <1>1, <2>1
<1>8. f[n] = g[n]
  BY <1>1, <1>7
<1>9. f[n + 1] = Gather(f[n], more[n + 1])
  <2>1. n + 1 \in 1..(n + 1) /\ (n + 1) - 1 = n
    BY <1>1
  <2> HIDE DEF S
  <2> QED
    BY <1>5, <2>1
<1> HIDE DEF S
<1> QED
  BY <1>1, <1>2, <1>3, <1>8, <1>9 DEF more

-----------------------------------------------------------------------------
(* The string of a value with a high half                                  *)

Code(v) == GatherAll(Numeral(v, 16))
Codes == [num : 1..31, result : Seq(0..31)]

LEMMA CodeFirst ==
    ASSUME NEW v \in 1..15
    PROVE  Code(v) = [num |-> v, result |-> <<>>]
<1>1. Numeral(v, 16) = <<v>>
  BY NumeralStep
<1>2. <<v>> = Append(<<>>, v) /\ <<>> \in Seq(Nat) /\ v \in Nat
  OBVIOUS
<1>3. Code(v) = Gather(GatherAll(<<>>), v)
  BY <1>1, <1>2, GatherAllAppend DEF Code
<1>4. Code(v) = Gather(NothingYet, v)
  BY <1>3, GatherNothing
<1> QED
  BY <1>4 DEF Gather, NothingYet

LEMMA CodeNext ==
    ASSUME NEW v \in Nat, ~(v < 16)
    PROVE  /\ v \div 16 \in 1..(v - 1) /\ v % 16 \in 0..15
           /\ v = 16 * (v \div 16) + (v % 16)
           /\ Code(v) = Gather(Code(v \div 16), v % 16)
<1>1. /\ v \div 16 \in 1..(v - 1) /\ v % 16 \in 0..15
      /\ v = 16 * (v \div 16) + (v % 16)
      /\ Numeral(v \div 16, 16) \in Seq(0..15)
      /\ Numeral(v, 16) = Append(Numeral(v \div 16, 16), v % 16)
  <2>1. 16 \in Nat /\ 16 >= 2 /\ 16 - 1 = 15
    OBVIOUS
  <2> QED
    BY <2>1, NumeralLong
<1>2. Numeral(v \div 16, 16) \in Seq(Nat) /\ v % 16 \in Nat
  <2>1. 0..15 \subseteq Nat
    OBVIOUS
  <2> QED
    BY <1>1, <2>1, SeqMonotonic
<1>3. Code(v) = Gather(Code(v \div 16), v % 16)
  BY <1>1, <1>2, GatherAllAppend DEF Code
<1> QED
  BY <1>1, <1>3

(* What five bits and a hex digit leave when the low five are taken.       *)
LEMMA TakeFiveBits ==
    ASSUME NEW num \in 2..31, NEW d \in 0..15
    PROVE  /\ num * 16 + d >= 32
           /\ (num * 16 + d) \div 32 = num \div 2
           /\ (num * 16 + d) % 32 = (num % 2) * 16 + d
           /\ num \div 2 \in 1..15 /\ num % 2 \in 0..1
           /\ num = 2 * (num \div 2) + (num % 2)
           /\ (num % 2) * 16 + d \in 0..31
BY SMT

(* A round keeps its digit, or emits one and keeps half of what it had.    *)
LEMMA GatherKeeps ==
    ASSUME NEW acc \in Codes, NEW d \in 0..15, acc.num = 1
    PROVE  /\ Gather(acc, d).num = 16 + d
           /\ Gather(acc, d).result = acc.result
           /\ Gather(acc, d) \in Codes
<1>1. acc.result \in Seq(0..31)
  BY DEF Codes
<1>2. Gather(acc, d) = [num |-> 16 + d, result |-> acc.result]
  BY DEF Gather
<1>3. 16 + d \in 1..31
  OBVIOUS
<1> QED
  BY <1>1, <1>2, <1>3 DEF Codes

Emitted(acc, d) == (acc.num % 2) * 16 + d

LEMMA GatherEmits ==
    ASSUME NEW acc \in Codes, NEW d \in 0..15, acc.num # 1
    PROVE  /\ acc.num \div 2 \in 1..15 /\ acc.num % 2 \in 0..1
           /\ acc.num = 2 * (acc.num \div 2) + (acc.num % 2)
           /\ Emitted(acc, d) \in 0..31
           /\ acc.result \in Seq(0..31)
           /\ Gather(acc, d).num = acc.num \div 2
           /\ Gather(acc, d).result = Append(acc.result, Emitted(acc, d))
           /\ Gather(acc, d) \in Codes
<1> DEFINE num == acc.num
           e == Emitted(acc, d)
<1>1. num \in 2..31 /\ acc.result \in Seq(0..31)
  BY DEF Codes
<1>2. /\ num * 16 + d >= 32
      /\ (num * 16 + d) \div 32 = num \div 2
      /\ (num * 16 + d) % 32 = e
      /\ num \div 2 \in 1..15 /\ num % 2 \in 0..1
      /\ num = 2 * (num \div 2) + (num % 2)
      /\ e \in 0..31
  BY <1>1, TakeFiveBits, Zenon DEF Emitted
<1>3. Gather(acc, d) = [num |-> num \div 2, result |-> Append(acc.result, e)]
  <2> HIDE DEF e
  <2> QED
    BY <1>2 DEF Gather
<1> HIDE DEF e
<1>4. Append(acc.result, e) \in Seq(0..31)
  BY <1>1, <1>2, AppendTakesApart
<1>5. num \div 2 \in 1..31
  BY <1>2
<1>6. /\ Gather(acc, d).num = num \div 2
      /\ Gather(acc, d).result = Append(acc.result, e)
      /\ Gather(acc, d) \in Codes
  <2> DEFINE r == Append(acc.result, e)
             k == num \div 2
  <2>1. r \in Seq(0..31) /\ k \in 1..31 /\ Gather(acc, d) = [num |-> k, result |-> r]
    BY <1>3, <1>4, <1>5
  <2> HIDE DEF r, k
  <2>2. Gather(acc, d).num = k /\ Gather(acc, d).result = r /\ Gather(acc, d) \in Codes
    BY <2>1 DEF Codes
  <2> QED
    BY <2>2 DEF r, k
<1> QED
  BY <1>1, <1>2, <1>6, Zenon DEF e

LEMMA CodeShape == \A v \in Nat : v # 0 => Code(v) \in Codes
<1> DEFINE S == {v \in Nat : v # 0 => Code(v) \in Codes}
<1>1. ASSUME NEW v \in Nat, \A w \in 0..(v - 1) : w \in S, v # 0
      PROVE  Code(v) \in Codes
  <2>1. CASE v < 16
    <3>1. v \in 1..15 /\ v \in 1..31
      BY <1>1, <2>1
    <3>2. Code(v) = [num |-> v, result |-> <<>>]
      BY <3>1, CodeFirst
    <3>3. <<>> \in Seq(0..31)
      OBVIOUS
    <3>4. \A n \in 1..31 : \A r \in Seq(0..31) : [num |-> n, result |-> r] \in Codes
      BY DEF Codes
    <3> QED
      BY <3>1, <3>2, <3>3, <3>4, Zenon
  <2>2. CASE ~(v < 16)
    <3>1. v \div 16 \in 1..(v - 1) /\ v % 16 \in 0..15 /\ Code(v) = Gather(Code(v \div 16), v % 16)
      BY <2>2, CodeNext
    <3>2. Code(v \div 16) \in Codes
      BY <1>1, <3>1
    <3> QED
      BY <3>1, <3>2, GatherKeeps, GatherEmits, Zenon
  <2> QED
    BY <2>1, <2>2
<1>2. \A v \in Nat : v \in S
  <2>1. \A v \in Nat : (\A w \in 0..(v - 1) : w \in S) => v \in S
    BY <1>1
  <2> HIDE DEF S
  <2> QED
    BY <2>1, StrongInduction
<1> QED
  BY <1>2

(* Each round can be undone: what it left tells which kind it was.         *)
LEMMA GatherInjective ==
    ASSUME NEW a \in Codes, NEW b \in Codes, NEW d \in 0..15, NEW e \in 0..15,
           Gather(a, d) = Gather(b, e)
    PROVE  a = b /\ d = e
<1> DEFINE n == Gather(a, d).num
           r == Gather(a, d).result
<1>1. /\ a.num \in 1..31 /\ a.result \in Seq(0..31)
      /\ b.num \in 1..31 /\ b.result \in Seq(0..31)
      /\ a.num = b.num /\ a.result = b.result => a = b
  BY DEF Codes
<1>2. /\ a.num = 1 => n = 16 + d /\ r = a.result
      /\ b.num = 1 => n = 16 + e /\ r = b.result
  BY GatherKeeps, Zenon
<1>3. a.num # 1 => /\ a.num \div 2 \in 1..15 /\ a.num % 2 \in 0..1
                   /\ a.num = 2 * (a.num \div 2) + (a.num % 2)
                   /\ Emitted(a, d) \in 0..31
                   /\ n = a.num \div 2 /\ r = Append(a.result, Emitted(a, d))
  BY GatherEmits, Zenon
<1>4. b.num # 1 => /\ b.num \div 2 \in 1..15 /\ b.num % 2 \in 0..1
                   /\ b.num = 2 * (b.num \div 2) + (b.num % 2)
                   /\ Emitted(b, e) \in 0..31
                   /\ n = b.num \div 2 /\ r = Append(b.result, Emitted(b, e))
  BY GatherEmits, Zenon
<1> HIDE DEF n, r
<1>5. CASE a.num = 1 /\ b.num = 1
  BY <1>1, <1>2, <1>5
<1>6. CASE a.num # 1 /\ b.num # 1
  <2>1. a.result = b.result /\ Emitted(a, d) = Emitted(b, e)
    <3>1. Append(a.result, Emitted(a, d)) = Append(b.result, Emitted(b, e))
      BY <1>3, <1>4, <1>6
    <3>2. Emitted(a, d) \in 0..31 /\ Emitted(b, e) \in 0..31
      BY <1>3, <1>4, <1>6
    <3> DEFINE Digit == 0..31
               x == Emitted(a, d)
               y == Emitted(b, e)
               s == a.result
               t == b.result
    <3>3. /\ s \in Seq(Digit) /\ t \in Seq(Digit) /\ x \in Digit /\ y \in Digit
          /\ Append(s, x) = Append(t, y)
      BY <1>1, <3>1, <3>2
    <3> HIDE DEF Digit, x, y, s, t
    <3>4. s = t /\ x = y
      BY <3>3, AppendInjective
    <3> QED
      BY <3>4 DEF x, y, s, t
  <2> DEFINE h == a.num \div 2
             k == b.num \div 2
             x == a.num % 2
             y == b.num % 2
  <2>2. x \in 0..1 /\ y \in 0..1 /\ h = k /\ a.num = 2 * h + x /\ b.num = 2 * k + y
    BY <1>3, <1>4, <1>6
  <2>3. x * 16 + d = y * 16 + e
    BY <2>1 DEF Emitted
  <2> HIDE DEF h, k, x, y
  <2>4. x = y /\ d = e
    BY <2>2, <2>3
  <2> QED
    BY <1>1, <2>1, <2>2, <2>4
<1>7. CASE (a.num = 1 /\ b.num # 1) \/ (a.num # 1 /\ b.num = 1)
  <2>1. (n = 16 + d \/ n = 16 + e) /\ n \in 1..15
    BY <1>2, <1>3, <1>4, <1>7, Zenon
  <2> QED
    BY <2>1
<1> QED
  BY <1>5, <1>6, <1>7

(* Two values do not share what the loop leaves.                           *)
LEMMA CodeInjective ==
    \A v, w \in Nat : v # 0 /\ w # 0 /\ Code(v) = Code(w) => v = w
<1> DEFINE Coded(v) == \A w \in Nat : v # 0 /\ w # 0 /\ Code(v) = Code(w) => v = w
           S == {v \in Nat : Coded(v)}
<1>1. ASSUME NEW v \in 1..15, NEW w \in Nat, ~(w < 16)
      PROVE  Code(v) # Code(w)
  <2> DEFINE acc == Code(w \div 16)
             d == w % 16
  <2>1. Code(v).num <= 15 /\ Code(v).result = <<>>
    BY CodeFirst
  <2>2. w \div 16 \in 1..(w - 1) /\ d \in 0..15 /\ Code(w) = Gather(acc, d)
    BY <1>1, CodeNext
  <2>3. acc \in Codes
    BY <2>2, CodeShape
  <2> HIDE DEF acc, d
  <2>4. CASE acc.num = 1
    <3>1. Code(w).num = 16 + d
      BY <2>2, <2>3, <2>4, GatherKeeps
    <3> QED
      BY <2>1, <2>2, <3>1
  <2>5. CASE acc.num # 1
    <3>1. /\ Code(w).result = Append(acc.result, Emitted(acc, d))
          /\ Emitted(acc, d) \in 0..31 /\ acc.result \in Seq(0..31)
      BY <2>2, <2>3, <2>5, GatherEmits, Zenon
    <3>2. Len(Code(w).result) = Len(acc.result) + 1 /\ Len(acc.result) \in Nat
      BY <3>1, AppendTakesApart
    <3> QED
      BY <2>1, <3>2
  <2> QED
    BY <2>4, <2>5
<1>2. ASSUME NEW v \in Nat, \A u \in 0..(v - 1) : u \in S,
             NEW w \in Nat, v # 0, w # 0, Code(v) = Code(w)
      PROVE  v = w
  <2>1. CASE v < 16 /\ w < 16
    <3>1. Code(v).num = v /\ Code(w).num = w
      BY <1>2, <2>1, CodeFirst
    <3> QED
      BY <1>2, <3>1
  <2>2. CASE ~(v < 16) /\ ~(w < 16)
    <3> DEFINE q == v \div 16
               p == w \div 16
               a == v % 16
               b == w % 16
    <3>1. q \in 1..(v - 1) /\ a \in 0..15 /\ v = 16 * q + a /\ Code(v) = Gather(Code(q), a)
      BY <2>2, CodeNext
    <3>2. p \in 1..(w - 1) /\ b \in 0..15 /\ w = 16 * p + b /\ Code(w) = Gather(Code(p), b)
      BY <2>2, CodeNext
    <3> HIDE DEF q, p, a, b
    <3>3. Code(q) \in Codes /\ Code(p) \in Codes
      BY <3>1, <3>2, CodeShape
    <3>4. Code(q) = Code(p) /\ a = b
      BY <1>2, <3>1, <3>2, <3>3, GatherInjective
    <3>5. q \in 0..(v - 1) /\ q # 0 /\ p \in Nat /\ p # 0
      BY <3>1, <3>2
    <3>6. q = p
      BY <1>2, <3>4, <3>5
    <3> QED
      BY <3>1, <3>2, <3>4, <3>6
  <2>3. CASE v < 16 /\ ~(w < 16)
    BY <1>1, <1>2, <2>3
  <2>4. CASE ~(v < 16) /\ w < 16
    <3>1. w \in 1..15
      BY <1>2, <2>4
    <3> QED
      BY <1>1, <1>2, <2>4, <3>1
  <2> QED
    BY <2>1, <2>2, <2>3, <2>4, Zenon
<1>3. \A v \in Nat : v \in S
  <2>1. \A v \in Nat : (\A u \in 0..(v - 1) : u \in S) => v \in S
    <3> SUFFICES ASSUME NEW v \in Nat, \A u \in 0..(v - 1) : u \in S
                 PROVE  Coded(v)
      OBVIOUS
    <3> QED
      BY <1>2
  <2> HIDE DEF S
  <2> QED
    BY <2>1, StrongInduction
<1> QED
  BY <1>3

-----------------------------------------------------------------------------
(* A string has the bits of its value: the string of a value in the low    *)
(* half is never that of one with a high half.                             *)

Bits(n) == Len(Numeral(n, 2))

LEMMA BitsAreNatural == \A n \in Nat : Bits(n) \in Nat \ {0}
BY NumeralShape DEF Bits

LEMMA BitsOfBit == \A n \in 0..1 : Bits(n) = 1
BY NumeralShort DEF Bits

LEMMA BitsOfHalf ==
    ASSUME NEW h \in Nat \ {0}, NEW b \in 0..1
    PROVE  Bits(2 * h + b) = Bits(h) + 1
<1>1. ~(2 * h + b < 2) /\ 2 * h + b \in Nat /\ (2 * h + b) \div 2 = h /\ 2 >= 2 /\ 2 \in Nat
  BY SMT
<1> DEFINE n == 2 * h + b
<1> HIDE DEF n
<1>2. Len(Numeral(n, 2)) = Len(Numeral(n \div 2, 2)) + 1
  BY <1>1, NumeralLong DEF n
<1> QED
  BY <1>1, <1>2 DEF Bits, n

LEMMA BitsSmall ==
    /\ Bits(1) = 1
    /\ \A n \in 2..3 : Bits(n) = 2
    /\ \A n \in 4..7 : Bits(n) = 3
    /\ \A n \in 8..15 : Bits(n) = 4
    /\ \A n \in 16..31 : Bits(n) = 5
<1>1. Bits(1) = 1
  BY BitsOfBit
<1>2. \A n \in 2..31 : n \div 2 \in Nat \ {0} /\ n % 2 \in 0..1 /\ n = 2 * (n \div 2) + (n % 2)
  BY SMT
<1>3. \A n \in 2..31 : Bits(n) = Bits(n \div 2) + 1
  BY <1>2, BitsOfHalf
<1>4. \A n \in 2..3 : Bits(n) = 2
  <2>1. \A n \in 2..3 : n \in 2..31 /\ n \div 2 = 1
    BY SMT
  <2> QED
    BY <1>1, <1>3, <2>1
<1>5. \A n \in 4..7 : Bits(n) = 3
  <2>1. \A n \in 4..7 : n \in 2..31 /\ n \div 2 \in 2..3
    BY SMT
  <2> QED
    BY <1>3, <1>4, <2>1
<1>6. \A n \in 8..15 : Bits(n) = 4
  <2>1. \A n \in 8..15 : n \in 2..31 /\ n \div 2 \in 4..7
    BY SMT
  <2> QED
    BY <1>3, <1>5, <2>1
<1>7. \A n \in 16..31 : Bits(n) = 5
  <2>1. \A n \in 16..31 : n \in 2..31 /\ n \div 2 \in 8..15
    BY SMT
  <2> QED
    BY <1>3, <1>6, <2>1
<1> QED
  BY <1>1, <1>4, <1>5, <1>6, <1>7

(* A hex digit has four bits, a digit of base 32 five.                     *)
LEMMA BitsOfHex ==
    ASSUME NEW h \in Nat \ {0}, NEW d \in 0..15
    PROVE  Bits(16 * h + d) = Bits(h) + 4
<1>1. PICK b3 \in 0..1, b2 \in 0..1, b1 \in 0..1, b0 \in 0..1 : d = 8 * b3 + 4 * b2 + 2 * b1 + b0
  BY SMT
<1>2. Bits(2 * h + b3) = Bits(h) + 1
  BY BitsOfHalf
<1>3. Bits(2 * (2 * h + b3) + b2) = Bits(2 * h + b3) + 1
  <2>1. 2 * h + b3 \in Nat \ {0}
    OBVIOUS
  <2> QED
    BY <2>1, BitsOfHalf
<1>4. Bits(2 * (2 * (2 * h + b3) + b2) + b1) = Bits(2 * (2 * h + b3) + b2) + 1
  <2>1. 2 * (2 * h + b3) + b2 \in Nat \ {0}
    OBVIOUS
  <2> QED
    BY <2>1, BitsOfHalf
<1>5. Bits(2 * (2 * (2 * (2 * h + b3) + b2) + b1) + b0) = Bits(2 * (2 * (2 * h + b3) + b2) + b1) + 1
  <2>1. 2 * (2 * (2 * h + b3) + b2) + b1 \in Nat \ {0}
    OBVIOUS
  <2> QED
    BY <2>1, BitsOfHalf
<1>6. 16 * h + d = 2 * (2 * (2 * (2 * h + b3) + b2) + b1) + b0
  BY <1>1
<1>7. Bits(h) \in Nat
  BY BitsAreNatural
<1> QED
  BY <1>2, <1>3, <1>4, <1>5, <1>6, <1>7

LEMMA BitsOfBase32 ==
    ASSUME NEW h \in Nat \ {0}, NEW d \in 0..31
    PROVE  Bits(32 * h + d) = Bits(h) + 5
<1>1. PICK b \in 0..1, e \in 0..15 : d = 16 * b + e
  BY SMT
<1>2. Bits(2 * h + b) = Bits(h) + 1
  BY BitsOfHalf
<1>3. 2 * h + b \in Nat \ {0} /\ 32 * h + d = 16 * (2 * h + b) + e
  BY <1>1
<1>4. Bits(32 * h + d) = Bits(2 * h + b) + 4
  BY <1>3, BitsOfHex
<1> QED
  BY <1>2, <1>4, BitsAreNatural

LEMMA CodeParts ==
    ASSUME NEW acc \in Codes
    PROVE  acc.num # 0 /\ Len(acc.result) \in Nat
<1>1. acc.num \in 1..31 /\ acc.result \in Seq(0..31)
  BY DEF Codes
<1>2. Len(acc.result) \in Nat
  BY <1>1, LenProperties
<1>3. \A n \in 1..31 : n # 0
  OBVIOUS
<1>4. acc.num # 0
  BY <1>1, <1>3, Zenon
<1> QED
  BY <1>2, <1>4

(* The bits of a base-32 numeral.                                          *)
LEMMA NumeralBits ==
    \A v \in Nat : v # 0 =>
        Bits(Numeral(v, 32)[1]) + 5 * (Len(Numeral(v, 32)) - 1) = Bits(v)
<1> DEFINE Weighed(v) == Bits(Numeral(v, 32)[1]) + 5 * (Len(Numeral(v, 32)) - 1) = Bits(v)
           S == {v \in Nat : v # 0 => Weighed(v)}
<1>0. 32 \in Nat /\ 32 >= 2
  OBVIOUS
<1>1. ASSUME NEW v \in Nat, \A w \in 0..(v - 1) : w \in S, v # 0
      PROVE  Weighed(v)
  <2>1. CASE v < 32
    <3>1. Len(Numeral(v, 32)) = 1 /\ Numeral(v, 32)[1] = v
      BY <1>0, <2>1, NumeralShort
    <3>2. Bits(v) \in Nat
      BY BitsAreNatural
    <3>3. Bits(Numeral(v, 32)[1]) = Bits(v) /\ Len(Numeral(v, 32)) - 1 = 0
      BY <3>1
    <3>4. Bits(v) + 5 * 0 = Bits(v)
      BY <3>2
    <3> QED
      BY <3>3, <3>4, Zenon
  <2>2. CASE ~(v < 32)
    <3> DEFINE q == v \div 32
               d == v % 32
    <3>0. /\ q \in 1..(v - 1) /\ d \in 0..(32 - 1) /\ v = 32 * q + d
          /\ Len(Numeral(v, 32)) = Len(Numeral(q, 32)) + 1
          /\ Numeral(v, 32)[1] = Numeral(q, 32)[1]
      BY <1>0, <2>2, NumeralLong, Zenon
    <3>1. /\ q \in 1..(v - 1) /\ d \in 0..31 /\ v = 32 * q + d
          /\ Len(Numeral(v, 32)) = Len(Numeral(q, 32)) + 1
          /\ Numeral(v, 32)[1] = Numeral(q, 32)[1]
      BY <3>0, 32 - 1 = 31
    <3> HIDE DEF q, d
    <3>2. Weighed(q) /\ q \in Nat \ {0}
      BY <1>1, <3>1
    <3>3. Bits(v) = Bits(q) + 5
      BY <3>1, <3>2, BitsOfBase32
    <3>4. Len(Numeral(q, 32)) \in Nat /\ Numeral(q, 32)[1] \in Nat
      <4>1. Numeral(q, 32) \in Seq(0..(32 - 1)) /\ Len(Numeral(q, 32)) \in Nat \ {0}
        BY <1>0, <3>2, NumeralShape
      <4> QED
        BY <4>1
    <3>5. Bits(Numeral(q, 32)[1]) \in Nat
      BY <3>4, BitsAreNatural
    <3> QED
      BY <3>1, <3>2, <3>3, <3>4, <3>5
  <2> QED
    BY <2>1, <2>2
<1>2. \A v \in Nat : v \in S
  <2>1. \A v \in Nat : (\A w \in 0..(v - 1) : w \in S) => v \in S
    <3> HIDE DEF Weighed
    <3> QED
      BY <1>1
  <2> HIDE DEF S
  <2> QED
    BY <2>1, StrongInduction
<1> QED
  BY <1>2

(* The bits of what the loop leaves.                                       *)
LEMMA CodeBits ==
    \A v \in Nat : v # 0 => Bits(Code(v).num) + 5 * Len(Code(v).result) = Bits(v)
<1> DEFINE Weighed(v) == Bits(Code(v).num) + 5 * Len(Code(v).result) = Bits(v)
           S == {v \in Nat : v # 0 => Weighed(v)}
<1>1. ASSUME NEW v \in Nat, \A w \in 0..(v - 1) : w \in S, v # 0
      PROVE  Weighed(v)
  <2>1. CASE v < 16
    <3>0. v \in 1..15
      BY <1>1, <2>1
    <3>1. Code(v).num = v /\ Code(v).result = <<>>
      BY <3>0, CodeFirst
    <3>2. Bits(Code(v).num) = Bits(v) /\ Len(Code(v).result) = 0 /\ Bits(v) \in Nat
      BY <3>1, BitsAreNatural
    <3> HIDE DEF Code
    <3> QED
      BY <3>2
  <2>2. CASE ~(v < 16)
    <3> DEFINE q == v \div 16
               d == v % 16
               acc == Code(q)
    <3>1. q \in 1..(v - 1) /\ d \in 0..15 /\ v = 16 * q + d /\ Code(v) = Gather(acc, d)
      BY <2>2, CodeNext
    <3>2. acc \in Codes
      BY <3>1, CodeShape
    <3>3. Weighed(q) /\ q \in Nat \ {0}
      BY <1>1, <3>1
    <3> HIDE DEF q, d
    <3>4. Bits(v) = Bits(q) + 4
      BY <3>1, <3>3, BitsOfHex
    <3>5. Bits(acc.num) + 5 * Len(acc.result) = Bits(q)
      BY <3>3
    <3> HIDE DEF acc
    <3>6. acc.num \in 1..31 /\ acc.result \in Seq(0..31) /\ Len(acc.result) \in Nat
      BY <3>2 DEF Codes
    <3>7. CASE acc.num = 1
      <4>1. Code(v).num = 16 + d /\ Code(v).result = acc.result
        BY <3>1, <3>2, <3>7, GatherKeeps
      <4>2. Bits(16 + d) = 5 /\ Bits(1) = 1
        BY <3>1, BitsSmall
      <4> QED
        BY <3>4, <3>5, <3>6, <3>7, <4>1, <4>2
    <3>8. CASE acc.num # 1
      <4> DEFINE h == acc.num \div 2
                 b == acc.num % 2
                 e == Emitted(acc, d)
      <4>1. /\ h \in 1..15 /\ b \in 0..1 /\ acc.num = 2 * h + b
            /\ e \in 0..31
            /\ Code(v).num = h /\ Code(v).result = Append(acc.result, e)
        BY <3>1, <3>2, <3>8, GatherEmits, Zenon
      <4> HIDE DEF h, b, e
      <4>2. Bits(acc.num) = Bits(h) + 1 /\ Bits(h) \in Nat
        <5>1. h \in Nat \ {0}
          BY <4>1
        <5> QED
          BY <4>1, <5>1, BitsOfHalf, BitsAreNatural
      <4>3. Len(Code(v).result) = Len(acc.result) + 1
        BY <3>6, <4>1, AppendTakesApart
      <4>4. Bits(Code(v).num) = Bits(h)
        BY <4>1
      <4> QED
        <5>1. Bits(h) + 5 * (Len(acc.result) + 1) = Bits(v)
          BY <3>4, <3>5, <3>6, <4>2
        <5> QED
          BY <4>3, <4>4, <5>1, Zenon
    <3> QED
      BY <3>7, <3>8
  <2> QED
    BY <2>1, <2>2
<1>2. \A v \in Nat : v \in S
  <2>1. \A v \in Nat : (\A w \in 0..(v - 1) : w \in S) => v \in S
    <3> HIDE DEF Weighed
    <3> QED
      BY <1>1
  <2> HIDE DEF S
  <2> QED
    BY <2>1, StrongInduction
<1> QED
  BY <1>2

PowerOfTwo(n) == \A d \in 1..n : n % d = 0 => d = 1 \/ d % 2 = 0

LEMMA PowerOfTwoHalves ==
    ASSUME NEW n \in Nat \ {0}, PowerOfTwo(n), n # 1
    PROVE  \E h \in Nat \ {0} : h < n /\ n = 2 * h /\ PowerOfTwo(h)
<1>1. n % n = 0 /\ n \in 1..n
  <2>1. (n * 1 + 0) % n = 0
    BY DivisionUnique
  <2> QED
    BY <2>1
<1>2. n % 2 = 0
  BY <1>1 DEF PowerOfTwo
<1> DEFINE h == n \div 2
<1>3. h \in Nat \ {0} /\ h < n /\ n = 2 * h
  BY <1>2, SMT
<1> HIDE DEF h
<1>4. ASSUME NEW d \in 1..h, h % d = 0
      PROVE  d = 1 \/ d % 2 = 0
  <2> DEFINE q == h \div d
  <2>1. d \in Nat \ {0} /\ d \in 1..n
    BY <1>3
  <2>2. q \in Nat /\ h = d * q + (h % d)
    BY <1>3, <2>1, Division
  <2> HIDE DEF q
  <2>3. h = d * q
    BY <1>4, <2>1, <2>2
  <2>4. n = d * (2 * q) + 0
    BY <1>3, <2>1, <2>2, <2>3
  <2>5. 2 * q \in Nat /\ 0 \in 0..(d - 1)
    BY <2>1, <2>2
  <2>6. n % d = 0
    BY <2>1, <2>4, <2>5, DivisionUnique
  <2> QED
    BY <2>1, <2>6 DEF PowerOfTwo
<1> QED
  BY <1>3, <1>4 DEF PowerOfTwo

(* A power of two divides the numbers by their bits.                       *)
LEMMA PowerOfTwoSplits ==
    \A n \in Nat : n # 0 /\ PowerOfTwo(n) =>
        \A v, w \in Nat : v # 0 /\ v < n /\ w >= n => Bits(v) < Bits(w)
<1> DEFINE Splits(n) == \A v, w \in Nat : v # 0 /\ v < n /\ w >= n => Bits(v) < Bits(w)
           S == {n \in Nat : n # 0 /\ PowerOfTwo(n) => Splits(n)}
<1>1. ASSUME NEW n \in Nat, \A m \in 0..(n - 1) : m \in S, n # 0, PowerOfTwo(n),
             NEW v \in Nat, NEW w \in Nat, v # 0, v < n, w >= n
      PROVE  Bits(v) < Bits(w)
  <2>1. PICK h \in Nat \ {0} : h < n /\ n = 2 * h /\ PowerOfTwo(h)
    BY <1>1, PowerOfTwoHalves
  <2>2. Splits(h)
    BY <1>1, <2>1
  <2> DEFINE q == w \div 2
             b == w % 2
  <2>3. q \in Nat \ {0} /\ b \in 0..1 /\ w = 2 * q + b /\ q >= h
    BY <1>1, <2>1, SMT
  <2> HIDE DEF q, b
  <2>4. Bits(w) = Bits(q) + 1 /\ Bits(q) \in Nat \ {0}
    BY <2>3, BitsOfHalf, BitsAreNatural
  <2>5. CASE v = 1
    BY <2>4, <2>5, BitsSmall
  <2>6. CASE v # 1
    <3> DEFINE p == v \div 2
               a == v % 2
    <3>1. p \in Nat \ {0} /\ a \in 0..1 /\ v = 2 * p + a /\ p < h
      BY <1>1, <2>1, <2>6, SMT
    <3> HIDE DEF p, a
    <3>2. Bits(v) = Bits(p) + 1 /\ Bits(p) \in Nat
      BY <3>1, BitsOfHalf, BitsAreNatural
    <3>3. Bits(p) < Bits(q)
      BY <2>2, <2>3, <3>1
    <3> QED
      BY <2>4, <3>2, <3>3
  <2> QED
    BY <2>5, <2>6
<1>2. \A n \in Nat : n \in S
  <2>1. \A n \in Nat : (\A m \in 0..(n - 1) : m \in S) => n \in S
    <3> SUFFICES ASSUME NEW n \in Nat, \A m \in 0..(n - 1) : m \in S,
                        n # 0, PowerOfTwo(n), NEW v \in Nat, NEW w \in Nat,
                        v # 0, v < n, w >= n
                 PROVE  Bits(v) < Bits(w)
      OBVIOUS
    <3> HIDE DEF S
    <3> QED
      BY <1>1
  <2> HIDE DEF S
  <2> QED
    BY <2>1, StrongInduction
<1> QED
  BY <1>2

-----------------------------------------------------------------------------

(* The string of a value with a high half: what the loop kept comes first. *)
LEMMA HighString ==
    ASSUME NEW v \in Nat, ~(v < HalfWord)
    PROVE  /\ v # 0 /\ Code(v) \in Codes
           /\ Len(ToBase32(v)) = Len(Code(v).result) + 1
           /\ ToBase32(v)[1] = Code(v).num
           /\ \A i \in 1..Len(Code(v).result) : ToBase32(v)[i + 1] = Code(v).result[i]
<1>1. v # 0 /\ Code(v) \in Codes
  BY HalfWordAssumption, CodeShape
<1> DEFINE num == Code(v).num
           result == Code(v).result
<1>2. num \in 1..31 /\ result \in Seq(0..31)
  BY <1>1 DEF Codes
<1>3. ToBase32(v) = <<num>> \o result
  <2>1. ToBase32(v) = IF num > 0 THEN <<num>> \o result ELSE result
    BY Zenon DEF ToBase32, Code
  <2>2. num > 0
    <3> HIDE DEF num
    <3> QED
      BY <1>2
  <2> QED
    BY <2>1, <2>2, Zenon
<1> HIDE DEF num, result
<1>4. /\ Len(ToBase32(v)) = Len(result) + 1
      /\ ToBase32(v)[1] = num
      /\ \A i \in 1..Len(result) : ToBase32(v)[i + 1] = result[i]
  BY <1>2, <1>3
<1> QED
  BY <1>1, <1>4 DEF num, result

(* No two values have the same string, for any word whose halves begin at  *)
(* a power of two: toBase32_64 loses nothing, though it is no numeral of   *)
(* the value.                                                              *)
THEOREM ToBase32Injective ==
    \A v, w \in Nat : ToBase32(v) = ToBase32(w) => v = w
<1>1. ASSUME NEW v \in Nat, NEW w \in Nat, v < HalfWord, ~(w < HalfWord),
             ToBase32(v) = ToBase32(w)
      PROVE  FALSE
  <2>1. ToBase32(v) = Numeral(v, 32)
    BY <1>1 DEF ToBase32
  <2>2. /\ w # 0 /\ Code(w) \in Codes
        /\ Len(Numeral(v, 32)) = Len(Code(w).result) + 1
        /\ Numeral(v, 32)[1] = Code(w).num
    BY <1>1, <2>1, HighString
  <2>3. Code(w).num # 0 /\ Len(Code(w).result) \in Nat
    BY <2>2, CodeParts, Zenon
  <2>4. v # 0
    <3>1. 32 \in Nat /\ 32 >= 2 /\ 0 < 32 /\ 0 \in Nat
      OBVIOUS
    <3>2. Numeral(0, 32)[1] = 0
      BY <3>1, NumeralShort
    <3> QED
      BY <2>2, <2>3, <3>2
  <2>5. Bits(v) = Bits(w)
    <3>1. Bits(Numeral(v, 32)[1]) + 5 * (Len(Numeral(v, 32)) - 1) = Bits(v)
      BY <2>4, NumeralBits
    <3>2. Bits(Code(w).num) + 5 * Len(Code(w).result) = Bits(w)
      BY <2>2, CodeBits
    <3>3. Len(Numeral(v, 32)) - 1 = Len(Code(w).result)
      BY <2>2, <2>3
    <3> QED
      BY <2>2, <3>1, <3>2, <3>3, Zenon
  <2>6. PowerOfTwo(HalfWord) /\ HalfWord \in Nat /\ HalfWord # 0 /\ w >= HalfWord
    BY <1>1, HalfWordAssumption DEF PowerOfTwo
  <2>7. Bits(v) < Bits(w) /\ Bits(v) \in Nat
    BY <1>1, <2>4, <2>6, PowerOfTwoSplits, BitsAreNatural
  <2> QED
    BY <2>5, <2>7
<1>2. ASSUME NEW v \in Nat, NEW w \in Nat, ~(v < HalfWord), ~(w < HalfWord),
             ToBase32(v) = ToBase32(w)
      PROVE  v = w
  <2> DEFINE a == Code(v)
             b == Code(w)
  <2>1. /\ v # 0 /\ a \in Codes
        /\ Len(ToBase32(v)) = Len(a.result) + 1
        /\ ToBase32(v)[1] = a.num
        /\ \A i \in 1..Len(a.result) : ToBase32(v)[i + 1] = a.result[i]
    BY <1>2, HighString
  <2>2. /\ w # 0 /\ b \in Codes
        /\ Len(ToBase32(w)) = Len(b.result) + 1
        /\ ToBase32(w)[1] = b.num
        /\ \A i \in 1..Len(b.result) : ToBase32(w)[i + 1] = b.result[i]
    BY <1>2, HighString
  <2> HIDE DEF a, b
  <2>3. /\ a.result \in Seq(0..31) /\ b.result \in Seq(0..31)
        /\ a.num = b.num /\ a.result = b.result => a = b
    BY <2>1, <2>2 DEF Codes
  <2>4. Len(a.result) = Len(b.result) /\ a.num = b.num
    BY <1>2, <2>1, <2>2, <2>3
  <2>5. \A i \in 1..Len(a.result) : a.result[i] = b.result[i]
    BY <1>2, <2>1, <2>2, <2>4
  <2>6. a.result = b.result
    BY <2>3, <2>4, <2>5, SeqEqual
  <2>7. a = b
    BY <2>3, <2>4, <2>6
  <2> QED
    BY <2>1, <2>2, <2>7, CodeInjective DEF a, b
<1>3. ASSUME NEW v \in Nat, NEW w \in Nat, v < HalfWord, w < HalfWord,
             ToBase32(v) = ToBase32(w)
      PROVE  v = w
  <2>1. Numeral(v, 32) = Numeral(w, 32)
    BY <1>3 DEF ToBase32
  <2>2. 32 \in Nat /\ 32 >= 2
    OBVIOUS
  <2> QED
    BY <2>1, <2>2, NumeralInjective
<1> QED
  BY <1>1, <1>2, <1>3, Zenon

(* What is drawn packs into a value. *)
LEMMA PacksIntoValue ==
    ASSUME ids \in Seq(IdSet), NEW i \in 1..Len(ids)
    PROVE  PackFields(ids[i]) \in Values
<1> DEFINE t == ids[i].time
           s == ids[i].shard
           c == ids[i].counter
           T == Timestamps
           M == MachineIDs
           H == Shards
           C == CounterMask + 1
<1>1. /\ T \in Nat /\ M \in Nat /\ H \in Nat /\ C \in Nat
      /\ t \in 0..(T - 1) /\ MachineID \in 0..(M - 1) /\ s \in 0..(H - 1) /\ c \in 0..(C - 1)
  <2>1. ids[i] \in IdSet
    OBVIOUS
  <2> QED
    BY <2>1, WidthsAssumption, ShardsAssumption, MachineAssumption DEF IdSet
<1>2. PackFields(ids[i]) = ((t * M + MachineID) * H + s) * C + c
  BY DEF PackFields
<1>3. Values = 0..(T * M * H * C - 1)
  BY DEF Values
<1> HIDE DEF t, s, c, T, M, H, C
<1>4. ASSUME NEW a \in Nat, NEW b \in Nat, NEW x \in 0..(a - 1), NEW y \in 0..(b - 1)
      PROVE  x * b + y \in 0..(a * b - 1) /\ a * b \in Nat
  BY SMT
<1>5. t * M + MachineID \in 0..(T * M - 1) /\ T * M \in Nat
  BY <1>1, <1>4
<1>6. (t * M + MachineID) * H + s \in 0..(T * M * H - 1) /\ T * M * H \in Nat
  BY <1>1, <1>4, <1>5
<1>7. ((t * M + MachineID) * H + s) * C + c \in 0..(T * M * H * C - 1)
  BY <1>1, <1>4, <1>6
<1> QED
  BY <1>2, <1>3, <1>7

(* The string of a drawn id is that of no other value (what a registry and *)
(* a peer take for granted of the ids they use as keys; muid.ts:195-217).  *)
THEOREM StringsName ==
    ASSUME ClockFits
    PROVE  Spec => []StringsNameIds
<1>1. MuidSound => StringsNameIds
  <2> SUFFICES ASSUME MuidSound, NEW i \in 1..Len(ids), NEW v \in Values,
                      Strings[v] = Strings[PackFields(ids[i])]
               PROVE  v = PackFields(ids[i])
    BY DEF StringsNameIds
  <2>1. PackFields(ids[i]) \in Values
    BY PacksIntoValue DEF MuidSound, TypeOK
  <2>2. ToBase32(v) = ToBase32(PackFields(ids[i]))
    BY <2>1 DEF Strings
  <2>3. Values \subseteq Nat
    BY DEF Values
  <2> QED
    BY <2>1, <2>2, <2>3, ToBase32Injective
<1> QED
  BY <1>1, Sound, PTL

-----------------------------------------------------------------------------
(* Functions defined by recursion on the naturals: one exists for every    *)
(* first value a and every step F.                                         *)

IsIteration(f, a, F, n) ==
    /\ f \in [0..n -> Nat]
    /\ f[0] = a
    /\ \A k \in 1..n : f[k] = F[<<k - 1, f[k - 1]>>]

Iteration(a, F, n) == CHOOSE f : IsIteration(f, a, F, n)

LEMMA IterationsExist ==
    ASSUME NEW a \in Nat, NEW F \in [Nat \X Nat -> Nat]
    PROVE  \A n \in Nat : IsIteration(Iteration(a, F, n), a, F, n)
<1> DEFINE S == {n \in Nat : \E f : IsIteration(f, a, F, n)}
<1>1. ASSUME NEW n \in Nat, \A m \in 0..(n - 1) : m \in S
      PROVE  n \in S
  <2>1. CASE n = 0
    <3>1. IsIteration([k \in 0..0 |-> a], a, F, 0)
      BY DEF IsIteration
    <3> QED
      BY <2>1, <3>1
  <2>2. CASE n # 0
    <3>1. PICK f : IsIteration(f, a, F, n - 1)
      BY <1>1, <2>2
    <3> DEFINE g == [k \in 0..n |-> IF k = n THEN F[<<n - 1, f[n - 1]>>] ELSE f[k]]
    <3>2. \A k \in 0..(n - 1) : f[k] \in Nat
      BY <2>2, <3>1 DEF IsIteration
    <3>3. F[<<n - 1, f[n - 1]>>] \in Nat
      BY <2>2, <3>2
    <3>4. g \in [0..n -> Nat]
      BY <3>2, <3>3
    <3>5. g[0] = a
      BY <2>2, <3>1 DEF IsIteration
    <3>6. ASSUME NEW k \in 1..n
          PROVE  g[k] = F[<<k - 1, g[k - 1]>>]
      <4>1. k \in 0..n /\ k - 1 \in 0..n /\ k - 1 # n
        OBVIOUS
      <4>2. g[k - 1] = f[k - 1]
        BY <4>1
      <4>3. CASE k = n
        <5>1. g[k] = F[<<n - 1, f[n - 1]>>]
          BY <4>1, <4>3
        <5> QED
          BY <4>2, <4>3, <5>1
      <4>4. CASE k # n
        <5>1. g[k] = f[k]
          BY <4>1, <4>4
        <5>2. k \in 1..(n - 1)
          BY <4>4
        <5>3. f[k] = F[<<k - 1, f[k - 1]>>]
          BY <3>1, <5>2, Zenon DEF IsIteration
        <5> QED
          BY <4>2, <5>1, <5>3
      <4> QED
        BY <4>3, <4>4
    <3>7. IsIteration(g, a, F, n)
      <4> HIDE DEF g
      <4> QED
        BY <3>4, <3>5, <3>6 DEF IsIteration
    <3> QED
      BY <3>7
  <2> QED
    BY <2>1, <2>2
<1>2. \A n \in Nat : n \in S
  <2> HIDE DEF S
  <2> QED
    BY <1>1, StrongInduction
<1> QED
  BY <1>2, Zenon DEF Iteration

LEMMA IterationsAgree ==
    ASSUME NEW a \in Nat, NEW F \in [Nat \X Nat -> Nat], NEW n \in Nat,
           NEW f, IsIteration(f, a, F, n), NEW g, IsIteration(g, a, F, n + 1)
    PROVE  \A k \in 0..n : f[k] = g[k]
<1> DEFINE S == {k \in Nat : k <= n => f[k] = g[k]}
<1>1. ASSUME NEW k \in Nat, \A m \in 0..(k - 1) : m \in S
      PROVE  k \in S
  <2> SUFFICES ASSUME k <= n
               PROVE  f[k] = g[k]
    OBVIOUS
  <2>1. CASE k = 0
    BY <2>1 DEF IsIteration
  <2>2. CASE k # 0
    <3>1. f[k - 1] = g[k - 1]
      BY <1>1, <2>2
    <3>2. k \in 1..n /\ k \in 1..(n + 1)
      BY <2>2
    <3> QED
      BY <3>1, <3>2, Zenon DEF IsIteration
  <2> QED
    BY <2>1, <2>2
<1>2. \A k \in Nat : k \in S
  <2> HIDE DEF S
  <2> QED
    BY <1>1, StrongInduction
<1> QED
  BY <1>2

IsRecursion(f, a, F) ==
    /\ f \in [Nat -> Nat]
    /\ f[0] = a
    /\ \A k \in Nat : f[k + 1] = F[<<k, f[k]>>]

LEMMA Recursion ==
    ASSUME NEW a \in Nat, NEW F \in [Nat \X Nat -> Nat]
    PROVE  \E f : IsRecursion(f, a, F)
<1> DEFINE f == [n \in Nat |-> Iteration(a, F, n)[n]]
<1>1. \A n \in Nat : IsIteration(Iteration(a, F, n), a, F, n)
  BY IterationsExist
<1>2. f \in [Nat -> Nat]
  BY <1>1 DEF IsIteration
<1>3. f[0] = a
  BY <1>1 DEF IsIteration
<1>4. ASSUME NEW k \in Nat
      PROVE  f[k + 1] = F[<<k, f[k]>>]
  <2> DEFINE g == Iteration(a, F, k)
             h == Iteration(a, F, k + 1)
  <2>1. IsIteration(g, a, F, k) /\ IsIteration(h, a, F, k + 1)
    BY <1>1
  <2> HIDE DEF g, h
  <2>2. g[k] = h[k]
    BY <2>1, IterationsAgree
  <2>3. h[k + 1] = F[<<k, h[k]>>]
    BY <2>1 DEF IsIteration
  <2> QED
    BY <2>2, <2>3 DEF g, h
<1> QED
  <2> HIDE DEF f
  <2>1. IsRecursion(f, a, F)
    BY <1>2, <1>3, <1>4 DEF IsRecursion
  <2> QED
    BY <2>1, Zenon

-----------------------------------------------------------------------------
(* Powers of two.                                                          *)

LEMMA Pow2Step ==
    /\ Pow2 \in [Nat -> Nat]
    /\ Pow2[0] = 1
    /\ \A n \in Nat : Pow2[n + 1] = 2 * Pow2[n]
<1> DEFINE F == [p \in Nat \X Nat |-> 2 * p[2]]
           IsPow2(f) == f = [n \in Nat |-> IF n = 0 THEN 1 ELSE 2 * f[n - 1]]
<1>1. F \in [Nat \X Nat -> Nat]
  OBVIOUS
<1>2. \A k, m \in Nat : F[<<k, m>>] = 2 * m
  OBVIOUS
<1>3. PICK f : IsRecursion(f, 1, F)
  <2> HIDE DEF F
  <2> QED
    BY <1>1, Recursion
<1> HIDE DEF F
<1>4. \A n \in Nat : f[n] = IF n = 0 THEN 1 ELSE 2 * f[n - 1]
  <2> SUFFICES ASSUME NEW n \in Nat, n # 0
               PROVE  f[n] = 2 * f[n - 1]
    BY <1>3 DEF IsRecursion
  <2>1. n - 1 \in Nat /\ (n - 1) + 1 = n
    OBVIOUS
  <2>2. f[(n - 1) + 1] = F[<<n - 1, f[n - 1]>>] /\ f[n - 1] \in Nat
    BY <1>3, <2>1, Zenon DEF IsRecursion
  <2> QED
    BY <1>2, <2>1, <2>2
<1>5. IsPow2(f)
  BY <1>3, <1>4 DEF IsRecursion
<1>6. Pow2 = CHOOSE g : IsPow2(g)
  BY Zenon DEF Pow2
<1>7. IsPow2(Pow2)
  <2> HIDE DEF IsPow2
  <2> QED
    BY <1>5, <1>6, Zenon
<1>8. /\ DOMAIN Pow2 = Nat
      /\ \A n \in Nat : Pow2[n] = IF n = 0 THEN 1 ELSE 2 * Pow2[n - 1]
  BY <1>7
<1>9. \A n \in Nat : Pow2[n] \in Nat
  <2> DEFINE S == {n \in Nat : Pow2[n] \in Nat}
  <2>1. ASSUME NEW n \in Nat, \A m \in 0..(n - 1) : m \in S
        PROVE  n \in S
    <3>1. n # 0 => Pow2[n - 1] \in Nat
      BY <2>1
    <3> QED
      BY <1>8, <3>1
  <2>2. \A n \in Nat : n \in S
    <3> HIDE DEF S
    <3> QED
      BY <2>1, StrongInduction
  <2> QED
    BY <2>2
<1>10. Pow2 = [n \in Nat |-> Pow2[n]]
  BY <1>7
<1>11. Pow2 \in [Nat -> Nat]
  BY <1>9, <1>10
<1>12. ASSUME NEW n \in Nat
       PROVE  Pow2[n + 1] = 2 * Pow2[n]
  <2>1. n + 1 \in Nat /\ n + 1 # 0 /\ (n + 1) - 1 = n
    OBVIOUS
  <2> QED
    BY <1>8, <2>1
<1> QED
  BY <1>8, <1>11, <1>12

LEMMA Pow2Positive == \A n \in Nat : Pow2[n] \in Nat \ {0}
<1> DEFINE S == {n \in Nat : Pow2[n] # 0}
<1>1. ASSUME NEW n \in Nat, \A m \in 0..(n - 1) : m \in S
      PROVE  n \in S
  <2>1. CASE n = 0
    BY <2>1, Pow2Step
  <2>2. CASE n # 0
    <3>1. n - 1 \in Nat /\ (n - 1) + 1 = n /\ Pow2[n - 1] # 0
      BY <1>1, <2>2
    <3>2. Pow2[n] = 2 * Pow2[n - 1] /\ Pow2[n - 1] \in Nat
      BY <3>1, Pow2Step
    <3> QED
      BY <3>1, <3>2
  <2> QED
    BY <2>1, <2>2
<1>2. \A n \in Nat : n \in S
  <2> HIDE DEF S
  <2> QED
    BY <1>1, StrongInduction
<1> QED
  BY <1>2, Pow2Step

LEMMA Pow2Plus ==
    ASSUME NEW m \in Nat, NEW n \in Nat
    PROVE  Pow2[m + n] = Pow2[m] * Pow2[n]
<1> DEFINE S == {k \in Nat : Pow2[m + k] = Pow2[m] * Pow2[k]}
<1>1. ASSUME NEW k \in Nat, \A j \in 0..(k - 1) : j \in S
      PROVE  k \in S
  <2>1. CASE k = 0
    BY <2>1, Pow2Step
  <2>2. CASE k # 0
    <3>1. k - 1 \in Nat /\ (k - 1) + 1 = k /\ Pow2[m + (k - 1)] = Pow2[m] * Pow2[k - 1]
      BY <1>1, <2>2
    <3>2. m + (k - 1) \in Nat /\ (m + (k - 1)) + 1 = m + k
      BY <3>1
    <3>3. Pow2[k] = 2 * Pow2[k - 1] /\ Pow2[m + k] = 2 * Pow2[m + (k - 1)]
      BY <3>1, <3>2, Pow2Step
    <3>4. Pow2[m] \in Nat /\ Pow2[k - 1] \in Nat
      BY <3>1, Pow2Step
    <3> QED
      BY <3>1, <3>3, <3>4
  <2> QED
    BY <2>1, <2>2
<1>2. \A k \in Nat : k \in S
  <2> HIDE DEF S
  <2> QED
    BY <1>1, StrongInduction
<1> QED
  BY <1>2

(* A power splits at any smaller exponent.                                 *)
LEMMA Pow2Splits ==
    ASSUME NEW k \in Nat, NEW i \in 0..k
    PROVE  /\ k - i \in Nat
           /\ Pow2[k] = Pow2[k - i] * Pow2[i]
           /\ Pow2[i] <= Pow2[k]
<1>1. k - i \in Nat /\ i \in Nat /\ (k - i) + i = k
  OBVIOUS
<1>2. Pow2[k] = Pow2[k - i] * Pow2[i]
  BY <1>1, Pow2Plus
<1>3. Pow2[k - i] \in Nat \ {0} /\ Pow2[i] \in Nat
  BY <1>1, Pow2Positive
<1> QED
  BY <1>1, <1>2, <1>3

-----------------------------------------------------------------------------
(* A number is the sum of its ones.                                        *)

(* The recursive function inside FromOnes: the ones below k.               *)
SumOf(S) ==
    LET sum[k \in Nat] ==
          IF k = 0 THEN 0 ELSE sum[k - 1] + (IF k - 1 \in S THEN Pow2[k - 1] ELSE 0)
    IN  sum

LEMMA SumStep ==
    ASSUME NEW S
    PROVE  /\ SumOf(S) \in [Nat -> Nat]
           /\ SumOf(S)[0] = 0
           /\ \A k \in Nat : SumOf(S)[k + 1] = SumOf(S)[k] + (IF k \in S THEN Pow2[k] ELSE 0)
<1> DEFINE Weight(k) == IF k \in S THEN Pow2[k] ELSE 0
           F == [p \in Nat \X Nat |-> p[2] + Weight(p[1])]
           IsSum(f) == f = [k \in Nat |-> IF k = 0 THEN 0 ELSE f[k - 1] + Weight(k - 1)]
<1>1. \A k \in Nat : Weight(k) \in Nat
  BY Pow2Step
<1>2. SumOf(S) = CHOOSE f : IsSum(f)
  BY Zenon DEF SumOf
<1> HIDE DEF Weight
<1>3. F \in [Nat \X Nat -> Nat]
  BY <1>1
<1>4. \A k, m \in Nat : F[<<k, m>>] = m + Weight(k)
  OBVIOUS
<1> HIDE DEF F
<1>5. PICK f : IsRecursion(f, 0, F)
  BY <1>3, Recursion
<1>6. \A k \in Nat : f[k] = IF k = 0 THEN 0 ELSE f[k - 1] + Weight(k - 1)
  <2> SUFFICES ASSUME NEW k \in Nat, k # 0
               PROVE  f[k] = f[k - 1] + Weight(k - 1)
    BY <1>5 DEF IsRecursion
  <2>1. k - 1 \in Nat /\ (k - 1) + 1 = k
    OBVIOUS
  <2>2. f[(k - 1) + 1] = F[<<k - 1, f[k - 1]>>] /\ f[k - 1] \in Nat
    BY <1>5, <2>1, Zenon DEF IsRecursion
  <2> QED
    BY <1>4, <2>1, <2>2
<1>7. IsSum(f)
  BY <1>5, <1>6 DEF IsRecursion
<1>8. IsSum(SumOf(S))
  <2> HIDE DEF IsSum
  <2> QED
    BY <1>2, <1>7, Zenon
<1> DEFINE s == SumOf(S)
<1>9. /\ s = [k \in Nat |-> s[k]]
      /\ \A k \in Nat : s[k] = IF k = 0 THEN 0 ELSE s[k - 1] + Weight(k - 1)
  BY <1>8
<1> HIDE DEF s
<1>10. \A k \in Nat : s[k] \in Nat
  <2> DEFINE T == {k \in Nat : s[k] \in Nat}
  <2>1. ASSUME NEW k \in Nat, \A m \in 0..(k - 1) : m \in T
        PROVE  k \in T
    <3>1. k # 0 => s[k - 1] \in Nat /\ Weight(k - 1) \in Nat
      BY <1>1, <2>1
    <3> QED
      BY <1>9, <3>1
  <2>2. \A k \in Nat : k \in T
    <3> HIDE DEF T
    <3> QED
      BY <2>1, StrongInduction
  <2> QED
    BY <2>2
<1>11. s \in [Nat -> Nat]
  BY <1>9, <1>10
<1>12. s[0] = 0
  BY <1>9
<1>13. ASSUME NEW k \in Nat
       PROVE  s[k + 1] = s[k] + Weight(k)
  <2>1. k + 1 \in Nat /\ k + 1 # 0 /\ (k + 1) - 1 = k
    OBVIOUS
  <2> QED
    BY <1>9, <2>1
<1> QED
  BY <1>11, <1>12, <1>13 DEF s, Weight

LEMMA FromOnesSum == \A S : FromOnes(S) = SumOf(S)[WordBits]
BY Zenon DEF FromOnes, SumOf

LEMMA ShardBitsExist == ShardBits \in 0..5
<1> DEFINE Enough(bits) ==
             /\ Pow2[bits] >= CPUs \/ bits = 5
             /\ \A fewer \in 0..(bits - 1) : Pow2[fewer] < CPUs
<1>1. CPUs \in Nat /\ \A n \in 0..5 : Pow2[n] \in Nat
  BY ConfigAssumption, Pow2Step
<1>2. \E bits \in 0..5 : Enough(bits)
  <2>1. CASE \E bits \in 0..5 : Pow2[bits] >= CPUs
    <3> DEFINE S == {bits \in 0..5 : Pow2[bits] >= CPUs}
    <3>1. S \subseteq Nat /\ S # {}
      BY <2>1
    <3>2. PICK bits \in S : \A m \in S : bits <= m
      <4> HIDE DEF S
      <4> QED
        BY <3>1, LeastNatural
    <3>3. bits \in 0..5 /\ Pow2[bits] >= CPUs
      OBVIOUS
    <3>4. \A fewer \in 0..(bits - 1) : Pow2[fewer] < CPUs
      BY <1>1, <3>2
    <3> QED
      BY <3>3, <3>4
  <2>2. CASE \A bits \in 0..5 : ~(Pow2[bits] >= CPUs)
    BY <1>1, <2>2
  <2> QED
    BY <2>1, <2>2
<1>3. ShardBits = CHOOSE bits \in 0..5 : Enough(bits)
  BY Zenon DEF ShardBits
<1> QED
  <2> HIDE DEF Enough
  <2> QED
    BY <1>2, <1>3, Zenon

LEMMA BitsAssumed ==
    /\ HighBits \in Nat /\ LowBits \in Nat /\ WordBits \in Nat
    /\ HighBits <= LowBits /\ LowBits >= 2 /\ CounterBits \in 1..(LowBits - 1)
    /\ WordBits = HighBits + LowBits
    /\ TimestampBits \in Nat /\ MachineBits \in Nat
    /\ ShardBits \in 0..5 /\ ShardBits <= LowBits
<1>1. /\ HighBits \in Nat /\ LowBits \in Nat /\ WordBits \in Nat
      /\ WordBits = HighBits + LowBits
      /\ TimestampBits \in Nat /\ MachineBits \in Nat
      /\ HighBits <= LowBits
  BY ConfigAssumption DEF WordBits
<1>2. ShardBits \in 0..5
  BY ShardBitsExist
<1>3. CounterBits \in Int
  BY <1>1, <1>2 DEF CounterBits
<1>4. CounterBits \in 1..(LowBits - 1)
  BY <1>1, <1>3, ConfigAssumption, ShortFieldsAssumption
<1> QED
  BY <1>1, <1>2, <1>4, ShortFieldsAssumption

(* The rest modulo a power gains the next bit.                             *)
LEMMA RestStep ==
    ASSUME NEW n \in Nat, NEW p \in Nat \ {0}
    PROVE  n % (2 * p) = (n % p) + p * ((n \div p) % 2)
<1> DEFINE q == n \div p
           r == n % p
           h == q \div 2
           b == q % 2
<1>1. q \in Nat /\ r \in 0..(p - 1) /\ n = p * q + r
  BY Division
<1>2. h \in Nat /\ b \in 0..1 /\ q = 2 * h + b
  BY <1>1
<1> HIDE DEF q, r, h, b
<1>3. n = (2 * p) * h + (p * b + r)
  BY <1>1, <1>2
<1>4. p * b + r \in 0..(2 * p - 1)
  <2>1. CASE b = 0
    BY <1>1, <2>1
  <2>2. CASE b = 1
    BY <1>1, <2>2
  <2> QED
    BY <1>2, <2>1, <2>2
<1>5. n % (2 * p) = p * b + r
  <2> DEFINE d == 2 * p
             e == p * b + r
  <2>1. d \in Nat \ {0} /\ e \in 0..(d - 1) /\ n = d * h + e
    BY <1>3, <1>4
  <2> HIDE DEF d, e
  <2>2. n % d = e
    BY <1>2, <2>1, DivisionUnique
  <2> QED
    BY <2>2 DEF d, e
<1> QED
  BY <1>1, <1>2, <1>5 DEF b, r, q

LEMMA SumOnes ==
    ASSUME NEW n \in Nat
    PROVE  \A k \in 0..WordBits : SumOf(Ones(n))[k] = n % Pow2[k]
<1> DEFINE S == {k \in Nat : k <= WordBits => SumOf(Ones(n))[k] = n % Pow2[k]}
<1>1. ASSUME NEW k \in Nat, \A j \in 0..(k - 1) : j \in S
      PROVE  k \in S
  <2> SUFFICES ASSUME k <= WordBits
               PROVE  SumOf(Ones(n))[k] = n % Pow2[k]
    OBVIOUS
  <2>1. CASE k = 0
    BY <2>1, SumStep, Pow2Step
  <2>2. CASE k # 0
    <3> DEFINE j == k - 1
               p == Pow2[j]
    <3>1. j \in Nat /\ j + 1 = k /\ j \in 0..(WordBits - 1) /\ j \in 0..(k - 1)
      BY <2>2, BitsAssumed
    <3> HIDE DEF j
    <3>2. SumOf(Ones(n))[j] = n % p
      BY <1>1, <3>1, BitsAssumed
    <3>3. SumOf(Ones(n))[k] = SumOf(Ones(n))[j] + (IF j \in Ones(n) THEN p ELSE 0)
      BY <3>1, SumStep
    <3>4. Pow2[k] = 2 * p /\ p \in Nat \ {0}
      BY <3>1, Pow2Step, Pow2Positive
    <3>5. j \in Ones(n) <=> (n \div p) % 2 = 1
      BY <3>1 DEF Ones
    <3> HIDE DEF p
    <3>6. n % (2 * p) = (n % p) + p * ((n \div p) % 2)
      BY <3>4, RestStep
    <3>7. (n \div p) % 2 \in 0..1 /\ n % p \in Nat
      BY <3>4
    <3>8. p * ((n \div p) % 2) = IF j \in Ones(n) THEN p ELSE 0
      BY <3>4, <3>5, <3>7
    <3> QED
      BY <3>2, <3>3, <3>4, <3>6, <3>8
  <2> QED
    BY <2>1, <2>2
<1>2. \A k \in Nat : k \in S
  <2> HIDE DEF S
  <2> QED
    BY <1>1, StrongInduction
<1> QED
  BY <1>2

LEMMA SumDisjoint ==
    ASSUME NEW S, NEW T, S \cap T = {}
    PROVE  \A k \in Nat : SumOf(S \cup T)[k] = SumOf(S)[k] + SumOf(T)[k]
<1> DEFINE U == S \cup T
           P == {k \in Nat : SumOf(U)[k] = SumOf(S)[k] + SumOf(T)[k]}
<1>1. ASSUME NEW k \in Nat, \A j \in 0..(k - 1) : j \in P
      PROVE  k \in P
  <2>1. CASE k = 0
    BY <2>1, SumStep
  <2>2. CASE k # 0
    <3> DEFINE j == k - 1
    <3>1. j \in Nat /\ j + 1 = k /\ j \in 0..(k - 1)
      BY <2>2
    <3> HIDE DEF j
    <3>2. SumOf(U)[j] = SumOf(S)[j] + SumOf(T)[j]
      BY <1>1, <3>1
    <3>3. /\ SumOf(U)[k] = SumOf(U)[j] + (IF j \in U THEN Pow2[j] ELSE 0)
          /\ SumOf(S)[k] = SumOf(S)[j] + (IF j \in S THEN Pow2[j] ELSE 0)
          /\ SumOf(T)[k] = SumOf(T)[j] + (IF j \in T THEN Pow2[j] ELSE 0)
      BY <3>1, SumStep
    <3>4. SumOf(S)[j] \in Nat /\ SumOf(T)[j] \in Nat /\ Pow2[j] \in Nat
      BY <3>1, SumStep, Pow2Step
    <3>5. j \in U <=> j \in S \/ j \in T
      OBVIOUS
    <3>6. ~(j \in S /\ j \in T)
      OBVIOUS
    <3> HIDE DEF U
    <3> QED
      BY <3>2, <3>3, <3>4, <3>5, <3>6
  <2> QED
    BY <2>1, <2>2
<1>2. \A k \in Nat : k \in P
  <2> HIDE DEF P
  <2> QED
    BY <1>1, StrongInduction
<1> QED
  BY <1>2

(* With the ones from m on cut away, the sum stops growing at m.           *)
LEMMA SumBelow ==
    ASSUME NEW S, NEW m \in Nat
    PROVE  \A k \in Nat : SumOf(S \cap 0..(m - 1))[k] = SumOf(S)[IF k <= m THEN k ELSE m]
<1> DEFINE T == S \cap 0..(m - 1)
           P == {k \in Nat : SumOf(T)[k] = SumOf(S)[IF k <= m THEN k ELSE m]}
<1>1. ASSUME NEW k \in Nat, \A j \in 0..(k - 1) : j \in P
      PROVE  k \in P
  <2>1. CASE k = 0
    BY <2>1, SumStep
  <2>2. CASE k # 0
    <3> DEFINE j == k - 1
    <3>1. j \in Nat /\ j + 1 = k /\ j \in 0..(k - 1)
      BY <2>2
    <3> HIDE DEF j
    <3>2. SumOf(T)[j] = SumOf(S)[IF j <= m THEN j ELSE m]
      BY <1>1, <3>1
    <3>3. /\ SumOf(T)[k] = SumOf(T)[j] + (IF j \in T THEN Pow2[j] ELSE 0)
          /\ SumOf(S)[k] = SumOf(S)[j] + (IF j \in S THEN Pow2[j] ELSE 0)
      BY <3>1, SumStep
    <3>4. SumOf(S)[m] \in Nat
      BY SumStep
    <3>5. j \in T <=> j \in S /\ j < m
      BY <3>1
    <3> HIDE DEF T
    <3>6. CASE k <= m
      BY <3>1, <3>2, <3>3, <3>5, <3>6
    <3>7. CASE j = m
      BY <3>1, <3>2, <3>3, <3>4, <3>5, <3>7
    <3>8. CASE j > m
      BY <3>1, <3>2, <3>3, <3>4, <3>5, <3>8
    <3> QED
      BY <3>1, <3>6, <3>7, <3>8
  <2> QED
    BY <2>1, <2>2
<1>2. \A k \in Nat : k \in P
  <2> HIDE DEF P
  <2> QED
    BY <1>1, StrongInduction
<1> QED
  BY <1>2

(* Bits of a number: below k a multiple of 2^k has none, from k on a       *)
(* number less than 2^k has none, and 2^k - 1 has all below k.             *)
LEMMA OnesOfMultiple ==
    ASSUME NEW x \in Nat, NEW k \in Nat, NEW i \in Ones(x * Pow2[k])
    PROVE  i >= k
<1> SUFFICES ASSUME i < k PROVE FALSE
  BY DEF Ones
<1>1. i \in Nat
  BY DEF Ones
<1> DEFINE p == Pow2[i]
           j == (k - i) - 1
           h == x * Pow2[j]
<1>2. j \in Nat /\ j + 1 = k - i /\ k - i \in Nat
  BY <1>1
<1> HIDE DEF j
<1>3. Pow2[k] = Pow2[k - i] * p
  BY <1>1, Pow2Splits
<1>4. Pow2[k - i] = 2 * Pow2[j] /\ Pow2[j] \in Nat
  BY <1>2, Pow2Step
<1>5. p \in Nat \ {0}
  BY <1>1, Pow2Positive
<1> HIDE DEF p
<1>6. h \in Nat
  BY <1>4
<1>7. x * Pow2[k] = p * (2 * h) + 0
  BY <1>3, <1>4, <1>5
<1> HIDE DEF h
<1>8. (p * (2 * h) + 0) \div p = 2 * h
  BY <1>5, <1>6, DivisionUnique
<1>9. (2 * h) % 2 = 0
  BY <1>6
<1> QED
  BY <1>7, <1>8, <1>9 DEF Ones, p

LEMMA OnesBelow ==
    ASSUME NEW k \in Nat, NEW n \in 0..(Pow2[k] - 1), NEW i \in Ones(n)
    PROVE  i < k
<1> SUFFICES ASSUME i >= k PROVE FALSE
  BY DEF Ones
<1>1. i \in Nat /\ k \in 0..i
  BY DEF Ones
<1>2. Pow2[k] <= Pow2[i]
  BY <1>1, Pow2Splits
<1>3. Pow2[k] \in Nat /\ Pow2[i] \in Nat \ {0}
  BY <1>1, Pow2Positive
<1>4. n \div Pow2[i] = 0
  BY <1>2, <1>3
<1> QED
  BY <1>4 DEF Ones

LEMMA OnesOfMask ==
    ASSUME NEW k \in 0..WordBits
    PROVE  Ones(Pow2[k] - 1) = 0..(k - 1)
<1>1. Pow2[k] \in Nat \ {0}
  BY BitsAssumed, Pow2Positive
<1>2. ASSUME NEW i \in Ones(Pow2[k] - 1)
      PROVE  i \in 0..(k - 1)
  <2>1. i \in Nat
    BY DEF Ones
  <2>2. i < k
    BY <1>1, OnesBelow
  <2> QED
    BY <2>1, <2>2
<1>3. ASSUME NEW i \in 0..(k - 1)
      PROVE  i \in Ones(Pow2[k] - 1)
  <2> DEFINE p == Pow2[i]
             j == (k - i) - 1
             h == Pow2[j]
  <2>1. j \in Nat /\ j + 1 = k - i /\ i \in Nat /\ k - i \in Nat /\ i \in 0..k
    OBVIOUS
  <2> HIDE DEF j
  <2>2. Pow2[k] = (2 * h) * p
    BY <2>1, Pow2Splits, Pow2Step
  <2>3. p \in Nat \ {0} /\ h \in Nat \ {0}
    BY <2>1, Pow2Positive
  <2> DEFINE q == 2 * h - 1
             r == p - 1
  <2>4. q \in Nat /\ r \in 0..(p - 1)
    BY <2>3
  <2> HIDE DEF p, h
  <2>5. Pow2[k] - 1 = p * q + r
    BY <2>2, <2>3
  <2>6. q % 2 = 1
    BY <2>3
  <2> HIDE DEF q, r
  <2>7. (p * q + r) \div p = q
    BY <2>3, <2>4, DivisionUnique
  <2>8. i \in 0..(WordBits - 1)
    BY BitsAssumed
  <2> QED
    BY <2>5, <2>6, <2>7, <2>8 DEF Ones, p
<1> QED
  BY <1>2, <1>3

LEMMA BitwiseAreNatural == 
    ASSUME NEW a, NEW b
    PROVE  BitOr(a, b) \in Nat /\ BitAnd(a, b) \in Nat
BY FromOnesSum, SumStep, BitsAssumed DEF BitOr, BitAnd

(* Numbers with no bit in common add up without carries.                   *)
LEMMA BitOrAdds ==
    ASSUME NEW a \in 0..(Pow2[WordBits] - 1), NEW b \in 0..(Pow2[WordBits] - 1),
           Ones(a) \cap Ones(b) = {}
    PROVE  BitOr(a, b) = a + b
<1>1. WordBits \in 0..WordBits /\ WordBits \in Nat
  BY BitsAssumed
<1>2. SumOf(Ones(a))[WordBits] = a % Pow2[WordBits] /\ SumOf(Ones(b))[WordBits] = b % Pow2[WordBits]
  BY <1>1, SumOnes
<1>3. Pow2[WordBits] \in Nat
  BY <1>1, Pow2Step
<1>4. a % Pow2[WordBits] = a /\ b % Pow2[WordBits] = b
  BY <1>3
<1>5. SumOf(Ones(a) \cup Ones(b))[WordBits] = SumOf(Ones(a))[WordBits] + SumOf(Ones(b))[WordBits]
  BY <1>1, SumDisjoint
<1> QED
  BY <1>2, <1>4, <1>5, FromOnesSum DEF BitOr

(* Two fields, in either order.                                            *)
LEMMA BitOrFields ==
    ASSUME NEW k \in 0..WordBits, NEW x \in Nat, NEW b \in 0..(Pow2[k] - 1),
           x * Pow2[k] < Pow2[WordBits]
    PROVE  /\ BitOr(x * Pow2[k], b) = x * Pow2[k] + b
           /\ BitOr(b, x * Pow2[k]) = x * Pow2[k] + b
<1>1. WordBits \in Nat /\ k \in Nat /\ Pow2[k] \in Nat /\ Pow2[WordBits] \in Nat
  BY BitsAssumed, Pow2Step
<1>2. Pow2[k] <= Pow2[WordBits]
  BY <1>1, Pow2Splits
<1> DEFINE a == x * Pow2[k]
<1>3. a \in Nat
  BY <1>1
<1>4. \A i \in Ones(a) : i >= k
  BY <1>1, OnesOfMultiple
<1>5. \A i \in Ones(b) : i < k
  BY <1>1, OnesBelow
<1>6. Ones(a) \cap Ones(b) = {}
  <2>1. \A i : ~(i >= k /\ i < k) \/ i \notin Ones(b)
    BY <1>1 DEF Ones
  <2> HIDE DEF a
  <2> QED
    BY <1>4, <1>5, <2>1
<1> HIDE DEF a
<1>7. a \in 0..(Pow2[WordBits] - 1) /\ b \in 0..(Pow2[WordBits] - 1)
  BY <1>1, <1>2, <1>3 DEF a
<1>8. BitOr(a, b) = a + b
  BY <1>6, <1>7, BitOrAdds
<1>9. Ones(b) \cup Ones(a) = Ones(a) \cup Ones(b)
  OBVIOUS
<1> QED
  BY <1>8, <1>9 DEF BitOr, a

LEMMA BitAndMask ==
    ASSUME NEW n \in Nat, NEW k \in 0..WordBits
    PROVE  BitAnd(n, Pow2[k] - 1) = n % Pow2[k]
<1>1. k \in Nat /\ WordBits \in Nat
  BY BitsAssumed
<1>2. BitAnd(n, Pow2[k] - 1) = SumOf(Ones(n) \cap 0..(k - 1))[WordBits]
  BY OnesOfMask, FromOnesSum DEF BitAnd
<1>3. SumOf(Ones(n) \cap 0..(k - 1))[WordBits] = SumOf(Ones(n))[k]
  <2>1. SumOf(Ones(n) \cap 0..(k - 1))[WordBits]
          = SumOf(Ones(n))[IF WordBits <= k THEN WordBits ELSE k]
    BY <1>1, SumBelow
  <2> QED
    BY <1>1, <2>1
<1> QED
  BY <1>2, <1>3, SumOnes

-----------------------------------------------------------------------------
(* Rests of integers.                                                      *)

LEMMA RestUnique ==
    ASSUME NEW d \in Nat \ {0}, NEW q \in Int, NEW r \in 0..(d - 1)
    PROVE  (d * q + r) % d = r
BY SMT

LEMMA IntDivision ==
    ASSUME NEW d \in Nat \ {0}, NEW n \in Int
    PROVE  n \div d \in Int /\ n % d \in 0..(d - 1) /\ n = d * (n \div d) + (n % d)
BY SMT

LEMMA RestShifts ==
    ASSUME NEW d \in Nat \ {0}, NEW q \in Int, NEW n \in Int
    PROVE  (d * q + n) % d = n % d
<1> DEFINE p == n \div d
           r == n % d
<1>1. p \in Int /\ r \in 0..(d - 1) /\ n = d * p + r
  BY IntDivision
<1> HIDE DEF p, r
<1>2. q + p \in Int /\ d * q + n = d * (q + p) + r
  BY <1>1
<1>3. (d * (q + p) + r) % d = r
  BY <1>1, <1>2, RestUnique
<1> QED
  BY <1>2, <1>3 DEF r

(* A half that is cut off above another.                                   *)
LEMMA RestOfHalves ==
    ASSUME NEW h \in Nat \ {0}, NEW l \in Nat \ {0}, NEW n \in Int, NEW y \in 0..(l - 1)
    PROVE  (n * l + y) % (h * l) = (n % h) * l + y
<1> DEFINE q == n \div h
           r == n % h
           d == h * l
           e == r * l + y
<1>1. q \in Int /\ r \in 0..(h - 1) /\ n = h * q + r
  BY IntDivision
<1>2. d \in Nat \ {0}
  OBVIOUS
<1> HIDE DEF q, r
<1>3. e \in 0..(d - 1)
  <2>1. r + 1 <= h /\ r \in Nat
    BY <1>1
  <2>2. (r + 1) * l <= h * l
    BY <2>1
  <2> QED
    BY <2>1, <2>2
<1>4. n * l + y = d * q + e
  BY <1>1
<1> HIDE DEF d, e
<1>5. (d * q + e) % d = e
  BY <1>1, <1>2, <1>3, RestUnique
<1> QED
  BY <1>4, <1>5 DEF d, e, r

-----------------------------------------------------------------------------
(* Words and their values.                                                 *)

WordSet == [high : 0..(Pow2[HighBits] - 1), low : 0..(Pow2[LowBits] - 1)]

LEMMA HalfSizes ==
    /\ Pow2[HighBits] \in Nat \ {0} /\ Pow2[LowBits] \in Nat \ {0}
    /\ Word = Pow2[HighBits] * Pow2[LowBits]
    /\ Word = Pow2[WordBits]
    /\ Word \in Nat \ {0}
<1>1. Pow2[HighBits] \in Nat \ {0} /\ Pow2[LowBits] \in Nat \ {0}
  BY BitsAssumed, Pow2Positive
<1>2. Pow2[WordBits] = Pow2[HighBits] * Pow2[LowBits]
  BY BitsAssumed, Pow2Plus
<1>3. Word = Pow2[WordBits] /\ Pow2[WordBits] \in Nat \ {0}
  BY BitsAssumed, Pow2Positive, ConfigAssumption
<1> QED
  BY <1>1, <1>2, <1>3

LEMMA Halved ==
    ASSUME NEW w \in WordSet
    PROVE  /\ w.high \in 0..(Pow2[HighBits] - 1)
           /\ w.low \in 0..(Pow2[LowBits] - 1)
           /\ w = [high |-> w.high, low |-> w.low]
BY DEF WordSet

LEMMA MakeWord ==
    ASSUME NEW h \in Int, NEW l \in Int
    PROVE  /\ Make64(h, l) \in WordSet
           /\ Make64(h, l).high = h % Pow2[HighBits]
           /\ Make64(h, l).low = l % Pow2[LowBits]
           /\ h \in 0..(Pow2[HighBits] - 1) => Make64(h, l).high = h
           /\ l \in 0..(Pow2[LowBits] - 1) => Make64(h, l).low = l
<1>1. /\ h % Pow2[HighBits] \in 0..(Pow2[HighBits] - 1)
      /\ l % Pow2[LowBits] \in 0..(Pow2[LowBits] - 1)
  BY HalfSizes, IntDivision
<1>2. /\ h \in 0..(Pow2[HighBits] - 1) => h % Pow2[HighBits] = h
      /\ l \in 0..(Pow2[LowBits] - 1) => l % Pow2[LowBits] = l
  BY HalfSizes, FieldKeeps
<1> QED
  BY <1>1, <1>2 DEF Make64, WordSet

LEMMA ValueOfHalves ==
    ASSUME NEW w \in WordSet
    PROVE  /\ Value(w) \in 0..(Word - 1)
           /\ Value(w) \div Pow2[LowBits] = w.high
           /\ Value(w) % Pow2[LowBits] = w.low
<1> DEFINE L == Pow2[LowBits]
           H == Pow2[HighBits]
           h == w.high
           l == w.low
<1>1. h \in 0..(H - 1) /\ l \in 0..(L - 1) /\ H \in Nat \ {0} /\ L \in Nat \ {0} /\ Word = H * L
  BY Halved, HalfSizes
<1>2. Value(w) = L * h + l
  BY <1>1 DEF Value
<1> HIDE DEF L, H, h, l
<1>3. L * h + l \in 0..(Word - 1)
  <2>1. (h + 1) * L <= H * L
    BY <1>1
  <2> QED
    BY <1>1, <2>1
<1>4. (L * h + l) \div L = h /\ (L * h + l) % L = l
  BY <1>1, DivisionUnique
<1> QED
  BY <1>2, <1>3, <1>4 DEF L, h, l

LEMMA ValueInjective ==
    ASSUME NEW a \in WordSet, NEW b \in WordSet, Value(a) = Value(b)
    PROVE  a = b
BY ValueOfHalves, Halved

(* Cutting the high half off at its width is cutting the value off.        *)
LEMMA ValueOfMake ==
    ASSUME NEW h \in Int, NEW l \in 0..(Pow2[LowBits] - 1)
    PROVE  Value(Make64(h, l)) = (h * Pow2[LowBits] + l) % Word
<1> DEFINE L == Pow2[LowBits]
           H == Pow2[HighBits]
<1>1. Make64(h, l).high = h % H /\ Make64(h, l).low = l
  BY MakeWord
<1>2. H \in Nat \ {0} /\ L \in Nat \ {0} /\ Word = H * L
  BY HalfSizes
<1>3. Value(Make64(h, l)) = (h % H) * L + l
  BY <1>1 DEF Value
<1> HIDE DEF L, H
<1>4. l \in 0..(L - 1)
  BY DEF L
<1>5. (h * L + l) % (H * L) = (h % H) * L + l
  BY <1>2, <1>4, RestOfHalves
<1> QED
  BY <1>2, <1>3, <1>5 DEF L

-----------------------------------------------------------------------------
(* What each operation on words does to their values.                      *)

LEMMA From32Value ==
    ASSUME NEW n \in 0..(Pow2[LowBits] - 1)
    PROVE  From32(n) \in WordSet /\ Value(From32(n)) = n
<1>1. 0 \in 0..(Pow2[HighBits] - 1)
  BY HalfSizes
<1>2. /\ From32(n) \in WordSet
      /\ From32(n).high = 0 /\ From32(n).low = n
  <2>1. From32(n) = Make64(0, n) /\ n \in Int /\ 0 \in Int
    BY HalfSizes DEF From32
  <2> QED
    BY <1>1, <2>1, MakeWord
<1>3. 0 * Pow2[LowBits] + n = n
  BY HalfSizes
<1> QED
  BY <1>2, <1>3 DEF Value

LEMMA Add64Value ==
    ASSUME NEW a \in WordSet, NEW b \in WordSet
    PROVE  /\ Add64(a, b) \in WordSet
           /\ Value(Add64(a, b)) = (Value(a) + Value(b)) % Word
<1> DEFINE L == Pow2[LowBits]
           carry == IF a.low + b.low >= L THEN 1 ELSE 0
           h == a.high + b.high + carry
           l == a.low + b.low
<1>1. /\ a.high \in Nat /\ b.high \in Nat /\ L \in Nat \ {0}
      /\ a.low \in 0..(L - 1) /\ b.low \in 0..(L - 1)
  BY Halved, HalfSizes
<1>2. Add64(a, b) = Make64(h, l)
  BY DEF Add64
<1>3. h \in Int /\ l \in Int
  BY <1>1
<1>4. Make64(h, l) = Make64(h, l % L)
  <2>1. l % L \in 0..(L - 1)
    BY <1>1, <1>3, IntDivision
  <2>2. (l % L) % L = l % L
    BY <1>1, <2>1, FieldKeeps
  <2> QED
    BY <2>2 DEF Make64
<1>5. l % L = l - carry * L /\ l % L \in 0..(L - 1)
  <2>1. CASE carry = 1
    <3> DEFINE r == l - L
    <3>1. r \in 0..(L - 1) /\ l = L * 1 + r
      BY <1>1, <2>1
    <3> HIDE DEF L, l, r
    <3>2. (L * 1 + r) % L = r
      BY <1>1, <3>1, RestUnique
    <3> QED
      BY <1>1, <2>1, <3>1, <3>2 DEF r
  <2>2. CASE carry = 0
    BY <1>1, <2>2, FieldKeeps
  <2> QED
    BY <2>1, <2>2
<1>6. Value(Make64(h, l % L)) = (h * L + (l % L)) % Word
  BY <1>3, <1>5, ValueOfMake
<1>7. h * L + (l % L) = Value(a) + Value(b)
  <2>1. carry \in 0..1
    OBVIOUS
  <2> HIDE DEF carry
  <2>2. h * L = a.high * L + b.high * L + carry * L
    BY <1>1, <2>1
  <2>3. Value(a) = a.high * L + a.low /\ Value(b) = b.high * L + b.low
    BY DEF Value
  <2>4. a.high * L \in Int /\ b.high * L \in Int /\ carry * L \in Int
    BY <1>1, <2>1
  <2> QED
    BY <1>1, <1>5, <2>2, <2>3, <2>4
<1> QED
  BY <1>2, <1>3, <1>4, <1>6, <1>7, MakeWord

LEMMA Sub64Value ==
    ASSUME NEW a \in WordSet, NEW b \in WordSet
    PROVE  /\ Sub64(a, b) \in WordSet
           /\ Value(Sub64(a, b)) = (Value(a) - Value(b)) % Word
<1> DEFINE L == Pow2[LowBits]
           borrow == IF a.low < b.low THEN 1 ELSE 0
           h == a.high - b.high - borrow
           l == a.low - b.low
<1>1. /\ a.high \in Nat /\ b.high \in Nat /\ L \in Nat \ {0}
      /\ a.low \in 0..(L - 1) /\ b.low \in 0..(L - 1)
  BY Halved, HalfSizes
<1>2. Sub64(a, b) = Make64(h, l)
  BY DEF Sub64
<1>3. h \in Int /\ l \in Int
  BY <1>1
<1>4. Make64(h, l) = Make64(h, l % L)
  <2>1. l % L \in 0..(L - 1)
    BY <1>1, <1>3, IntDivision
  <2>2. (l % L) % L = l % L
    BY <1>1, <2>1, FieldKeeps
  <2> QED
    BY <2>2 DEF Make64
<1>5. l % L = l + borrow * L /\ l % L \in 0..(L - 1)
  <2>1. CASE borrow = 1
    <3> DEFINE r == l + L
    <3>1. r \in 0..(L - 1) /\ l = L * (-1) + r
      BY <1>1, <2>1
    <3> HIDE DEF L, l, r
    <3>2. (L * (-1) + r) % L = r
      BY <1>1, <3>1, RestUnique
    <3> QED
      BY <1>1, <2>1, <3>1, <3>2 DEF r
  <2>2. CASE borrow = 0
    BY <1>1, <2>2, FieldKeeps
  <2> QED
    BY <2>1, <2>2
<1>6. Value(Make64(h, l % L)) = (h * L + (l % L)) % Word
  BY <1>3, <1>5, ValueOfMake
<1>7. h * L + (l % L) = Value(a) - Value(b)
  <2>1. borrow \in 0..1
    OBVIOUS
  <2> HIDE DEF borrow
  <2>2. h * L = a.high * L - b.high * L - borrow * L
    BY <1>1, <2>1
  <2>3. Value(a) = a.high * L + a.low /\ Value(b) = b.high * L + b.low
    BY DEF Value
  <2>4. a.high * L \in Int /\ b.high * L \in Int /\ borrow * L \in Int
    BY <1>1, <2>1
  <2> QED
    BY <1>1, <1>5, <2>2, <2>3, <2>4
<1> QED
  BY <1>2, <1>3, <1>4, <1>6, <1>7, MakeWord

LEMMA Less64Value ==
    ASSUME NEW a \in WordSet, NEW b \in WordSet
    PROVE  Less64(a, b) <=> Value(a) < Value(b)
<1> DEFINE L == Pow2[LowBits]
           x == a.high
           y == b.high
<1>1. /\ x \in Nat /\ y \in Nat /\ L \in Nat \ {0}
      /\ a.low \in 0..(L - 1) /\ b.low \in 0..(L - 1)
      /\ Value(a) = x * L + a.low /\ Value(b) = y * L + b.low
  BY Halved, HalfSizes DEF Value
<1> HIDE DEF L, x, y
<1>2. CASE x < y
  <2>1. (x + 1) * L <= y * L
    BY <1>1, <1>2
  <2>2. Value(a) < Value(b)
    BY <1>1, <2>1
  <2> QED
    BY <1>2, <2>2 DEF Less64, x, y
<1>3. CASE y < x
  <2>1. (y + 1) * L <= x * L
    BY <1>1, <1>3
  <2>2. ~(Value(a) < Value(b))
    BY <1>1, <2>1
  <2>3. ~(x < y) /\ x # y
    BY <1>1, <1>3
  <2> QED
    BY <2>2, <2>3 DEF Less64, x, y
<1>4. CASE x = y
  <2>1. ~(x < y)
    BY <1>1, <1>4
  <2> QED
    BY <1>1, <1>4, <2>1 DEF Less64, x, y
<1> QED
  BY <1>1, <1>2, <1>3, <1>4

(* A shift to the left multiplies, and what leaves the word is lost.       *)
LEMMA Shl64Value ==
    ASSUME NEW w \in WordSet, NEW b \in Nat
    PROVE  /\ Shl64(w, b) \in WordSet
           /\ Value(Shl64(w, b)) = (Value(w) * Pow2[b]) % Word
<1> DEFINE L == Pow2[LowBits]
           H == Pow2[HighBits]
           h == w.high
           l == w.low
           v == Value(w)
<1>1. /\ h \in 0..(H - 1) /\ l \in 0..(L - 1) /\ H \in Nat \ {0} /\ L \in Nat \ {0}
      /\ Word = H * L /\ v = h * L + l /\ v \in 0..(Word - 1) /\ Word \in Nat \ {0}
  BY Halved, HalfSizes, ValueOfHalves DEF Value
<1> HIDE DEF L, H, h, l, v
<1>2. CASE b = 0
  <2>1. Shl64(w, b) = w
    <3>1. ~(b >= WordBits) /\ b \notin LowBits..(WordBits - 1)
      BY <1>2, BitsAssumed
    <3> QED
      BY <1>2, <3>1 DEF Shl64
  <2>2. v * Pow2[b] = v
    BY <1>1, <1>2, Pow2Step
  <2>3. v % Word = v
    BY <1>1, FieldKeeps
  <2> QED
    BY <2>1, <2>2, <2>3 DEF v
<1>3. CASE b >= WordBits /\ b # 0
  <2>1. Shl64(w, b) = Make64(0, 0)
    <3>1. b \notin LowBits..(WordBits - 1)
      BY <1>3, BitsAssumed
    <3> QED
      BY <1>3, <3>1 DEF Shl64
  <2>2. b - WordBits \in Nat /\ Pow2[b] = Pow2[b - WordBits] * Pow2[WordBits]
    BY <1>3, BitsAssumed, Pow2Splits
  <2> DEFINE q == v * Pow2[b - WordBits]
  <2>3. q \in Int /\ v * Pow2[b] = Word * q + 0
    BY <1>1, <2>2, Pow2Step, HalfSizes
  <2> HIDE DEF q
  <2>4. (Word * q + 0) % Word = 0
    BY <1>1, <2>3, RestUnique
  <2>5. Value(Make64(0, 0)) = 0 /\ Make64(0, 0) \in WordSet
    BY From32Value, HalfSizes DEF From32
  <2> QED
    BY <2>1, <2>3, <2>4, <2>5 DEF v
<1>4. CASE b \in LowBits..(WordBits - 1) /\ b # 0
  <2> DEFINE p == Pow2[b - LowBits]
             g == Pow2[b - HighBits]
  <2>1. Shl64(w, b) = Make64(l * p, 0)
    <3>1. ~(b >= WordBits)
      BY <1>4, BitsAssumed
    <3> QED
      BY <1>4, <3>1 DEF Shl64, l
  <2>2. LowBits \in 0..b /\ HighBits \in 0..b /\ b - LowBits \in Nat /\ b - HighBits \in Nat
    BY <1>4, BitsAssumed
  <2>3. Pow2[b] = p * L /\ p \in Nat /\ Pow2[b] = g * H /\ g \in Nat
    BY <2>2, Pow2Splits, Pow2Step DEF L, H
  <2> HIDE DEF p, g
  <2>4. l * p \in Int /\ 0 \in 0..(L - 1)
    BY <1>1, <2>3
  <2>5. /\ Make64(l * p, 0) \in WordSet
        /\ Value(Make64(l * p, 0)) = ((l * p) * L + 0) % Word
    BY <2>4, MakeWord, ValueOfMake DEF L
  <2> DEFINE q == h * g
             r == (l * p) * L + 0
  <2>6. q \in Int /\ r \in Int
    BY <1>1, <2>3
  <2>7. v * Pow2[b] = Word * q + r
    <3>1. (h * L) * Pow2[b] = (H * L) * (h * g)
      BY <1>1, <2>3
    <3>2. l * Pow2[b] = (l * p) * L
      BY <1>1, <2>3
    <3>3. (h * L + l) * Pow2[b] = (h * L) * Pow2[b] + l * Pow2[b]
      BY <1>1, Pow2Step
    <3> QED
      BY <1>1, <2>4, <3>1, <3>2, <3>3
  <2> HIDE DEF q, r
  <2>8. (Word * q + r) % Word = r % Word
    BY <1>1, <2>6, RestShifts
  <2> QED
    BY <2>1, <2>5, <2>7, <2>8 DEF r, v
<1>5. CASE b \in 1..(LowBits - 1)
  <2> DEFINE P == Pow2[b]
             Q == Pow2[LowBits - b]
             q == l \div Q
             r == l % Q
             x == BitOr(h * P, q)
  <2>1. Shl64(w, b) = Make64(x, l * P)
    <3>1. ~(b >= WordBits) /\ b \notin LowBits..(WordBits - 1) /\ b # 0
      BY <1>5, BitsAssumed
    <3> QED
      BY <3>1 DEF Shl64, h, l
  <2>2. L = Q * P /\ P \in Nat \ {0} /\ Q \in Nat \ {0}
    <3>1. b \in 0..LowBits /\ LowBits - b \in Nat
      BY <1>5, BitsAssumed
    <3> QED
      BY <3>1, BitsAssumed, Pow2Splits, Pow2Positive DEF L
  <2>3. q \in Nat /\ r \in 0..(Q - 1) /\ l = Q * q + r
    <3> HIDE DEF P, Q
    <3>1. l \in Nat
      BY <1>1
    <3> QED
      BY <2>2, <3>1, Division
  <2>4. q < P
    <3> SUFFICES ASSUME q >= P PROVE FALSE
      BY <2>2, <2>3
    <3>1. Q * q >= Q * P
      BY <2>2, <2>3
    <3> QED
      BY <1>1, <2>2, <2>3, <3>1
  <2>5. h * P < Pow2[WordBits]
    <3>1. P <= L
      BY <2>2
    <3>2. h * P <= h * L
      BY <1>1, <2>2, <3>1
    <3>3. (h + 1) * L <= H * L
      BY <1>1
    <3> QED
      BY <1>1, <2>2, <3>2, <3>3, HalfSizes
  <2>6. x = h * P + q
    <3>1. b \in 0..WordBits
      BY <1>5, BitsAssumed
    <3> HIDE DEF q, P
    <3>2. h \in Nat /\ q \in 0..(P - 1)
      BY <1>1, <2>2, <2>3, <2>4
    <3> QED
      BY <2>5, <3>1, <3>2, BitOrFields DEF P
  <2> HIDE DEF P, Q, q, r, x
  <2>7. r * P \in 0..(L - 1) /\ l * P = L * q + r * P
    <3>1. (r + 1) * P <= Q * P
      BY <2>2, <2>3
    <3> QED
      BY <2>2, <2>3, <3>1
  <2>8. (l * P) % L = r * P
    <3> DEFINE e == r * P
    <3>1. e \in 0..(L - 1) /\ l * P = L * q + e
      BY <2>7
    <3> HIDE DEF e
    <3>2. (L * q + e) % L = e
      BY <1>1, <2>3, <3>1, RestUnique
    <3> QED
      BY <3>1, <3>2 DEF e
  <2>9. Make64(x, l * P) = Make64(x, r * P)
    <3>1. (r * P) % L = r * P
      BY <1>1, <2>7, FieldKeeps
    <3> QED
      BY <2>8, <3>1 DEF Make64, L
  <2>10. x \in Int
    BY <1>1, <2>2, <2>3, <2>6
  <2>11. /\ Make64(x, r * P) \in WordSet
         /\ Value(Make64(x, r * P)) = (x * L + r * P) % Word
    BY <2>7, <2>10, MakeWord, ValueOfMake DEF L
  <2>12. x * L + r * P = v * P
    <3>1. v * P = (h * L) * P + l * P
      BY <1>1, <2>2
    <3>2. x * L = (h * P) * L + q * L
      BY <1>1, <2>2, <2>3, <2>6
    <3> QED
      BY <1>1, <2>2, <2>3, <2>7, <3>1, <3>2
  <2> QED
    BY <2>1, <2>9, <2>11, <2>12 DEF P, v
<1> QED
  BY <1>2, <1>3, <1>4, <1>5, BitsAssumed

(* A shift to the right within a half divides.                             *)
LEMMA Shr64Value ==
    ASSUME NEW w \in WordSet, NEW b \in 1..(LowBits - 1)
    PROVE  /\ Shr64(w, b) \in WordSet
           /\ Value(Shr64(w, b)) = Value(w) \div Pow2[b]
<1> DEFINE L == Pow2[LowBits]
           H == Pow2[HighBits]
           P == Pow2[b]
           Q == Pow2[LowBits - b]
           h == w.high
           l == w.low
           v == Value(w)
           hq == h \div P
           hr == h % P
           lq == l \div P
           lr == l % P
           x == BitOr(lq, h * Q)
           y == hr * Q + lq
<1>1. /\ h \in 0..(H - 1) /\ l \in 0..(L - 1) /\ H \in Nat \ {0} /\ L \in Nat \ {0}
      /\ Word = H * L /\ v = h * L + l
  BY Halved, HalfSizes DEF Value
<1>2. L = Q * P /\ P \in Nat \ {0} /\ Q \in Nat \ {0}
  <2>1. b \in 0..LowBits /\ LowBits - b \in Nat
    BY BitsAssumed
  <2> QED
    BY <2>1, BitsAssumed, Pow2Splits, Pow2Positive
<1>3. Shr64(w, b) = Make64(hq, x)
  <2>1. ~(b >= WordBits) /\ b \notin LowBits..(WordBits - 1) /\ b # 0
    BY BitsAssumed
  <2> QED
    BY <2>1 DEF Shr64
<1>4. /\ hq \in Nat /\ hr \in 0..(P - 1) /\ h = P * hq + hr
      /\ lq \in Nat /\ lr \in 0..(P - 1) /\ l = P * lq + lr
  <2> HIDE DEF P, h, l
  <2>1. h \in Nat /\ l \in Nat
    BY <1>1
  <2> QED
    BY <1>2, <2>1, Division
<1> HIDE DEF L, H, h, l, v, P, Q, hq, hr, lq, lr, x
<1>5. lq < Q
  <2> SUFFICES ASSUME lq >= Q PROVE FALSE
    BY <1>2, <1>4
  <2>1. P * lq >= P * Q
    BY <1>2, <1>4
  <2> QED
    BY <1>1, <1>2, <1>4, <2>1
<1>6. hq \in 0..(H - 1)
  <2>1. P * hq >= hq
    BY <1>2, <1>4
  <2> QED
    BY <1>1, <1>2, <1>4, <2>1
<1>7. h * Q < Pow2[WordBits]
  <2>1. Q <= L
    BY <1>2
  <2>2. h * Q <= h * L
    BY <1>1, <1>2, <2>1
  <2>3. (h + 1) * L <= H * L
    BY <1>1
  <2> QED
    BY <1>1, <1>2, <2>2, <2>3, HalfSizes
<1>8. x = h * Q + lq
  <2>1. LowBits - b \in 0..WordBits
    BY BitsAssumed
  <2>2. h \in Nat /\ lq \in 0..(Q - 1)
    BY <1>1, <1>2, <1>4, <1>5
  <2> QED
    BY <1>7, <2>1, <2>2, BitOrFields DEF Q, x
<1>9. y \in 0..(L - 1) /\ x = L * hq + y
  <2>1. (hr + 1) * Q <= P * Q
    BY <1>2, <1>4
  <2>2. h * Q = (P * hq) * Q + hr * Q
    BY <1>2, <1>4
  <2>3. (P * hq) * Q = L * hq
    BY <1>2, <1>4
  <2>4. (hr + 1) * Q = hr * Q + Q /\ hr * Q \in Nat
    BY <1>2, <1>4
  <2> QED
    BY <1>2, <1>4, <1>5, <1>8, <2>1, <2>2, <2>3, <2>4
<1> HIDE DEF y
<1>10. x % L = y /\ x \in Int
  BY <1>1, <1>4, <1>9, RestUnique
<1>11. /\ Make64(hq, x) \in WordSet
       /\ Make64(hq, x).high = hq
       /\ Make64(hq, x).low = y
  BY <1>4, <1>6, <1>10, MakeWord DEF H, L
<1>12. Value(Make64(hq, x)) = x
  BY <1>1, <1>4, <1>9, <1>11 DEF Value, L
<1>13. v = P * x + lr
  <2>1. h * L = (h * Q) * P
    BY <1>1, <1>2
  <2>2. P * (h * Q + lq) = (h * Q) * P + P * lq
    BY <1>1, <1>2, <1>4
  <2> QED
    BY <1>1, <1>2, <1>4, <1>8, <2>1, <2>2
<1>14. x \in Nat
  BY <1>1, <1>4, <1>9
<1>15. v \div P = x
  BY <1>2, <1>4, <1>13, <1>14, DivisionUnique
<1> QED
  BY <1>3, <1>11, <1>12, <1>15 DEF v, P

(* Words that are fields of one word are put together, wherever the border *)
(* between them is.                                                        *)
LEMMA Or64Fields ==
    ASSUME NEW a \in WordSet, NEW b \in WordSet, NEW k \in 0..WordBits, NEW x \in Nat,
           Value(a) = x * Pow2[k], Value(b) < Pow2[k]
    PROVE  /\ Or64(a, b) \in WordSet
           /\ Value(Or64(a, b)) = Value(a) + Value(b)
<1> DEFINE L == Pow2[LowBits]
           H == Pow2[HighBits]
           P == Pow2[k]
           high == BitOr(a.high, b.high)
           low == BitOr(a.low, b.low)
<1>1. /\ a.high \in 0..(H - 1) /\ a.low \in 0..(L - 1) /\ H \in Nat \ {0} /\ L \in Nat \ {0}
      /\ b.high \in 0..(H - 1) /\ b.low \in 0..(L - 1) /\ P \in Nat \ {0}
      /\ Word = H * L
  BY Halved, HalfSizes, Pow2Positive, BitsAssumed
<1>2. /\ Value(a) = a.high * L + a.low /\ Value(b) = b.high * L + b.low
      /\ Value(a) \in Nat /\ Value(b) \in Nat
      /\ Value(a) % L = a.low /\ Value(b) % L = b.low
      /\ Value(a) \div L = a.high /\ Value(b) \div L = b.high
  BY ValueOfHalves, HalfSizes DEF Value
<1>3. H <= Pow2[WordBits] /\ L <= Pow2[WordBits]
  BY BitsAssumed, Pow2Splits
<1>4. 0 \in 0..WordBits /\ Pow2[0] = 1 /\ Pow2[WordBits] \in Nat
  BY BitsAssumed, Pow2Step
<1>5. SUFFICES /\ high = a.high + b.high /\ high \in 0..(H - 1)
               /\ low = a.low + b.low /\ low \in 0..(L - 1)
  <2>1. Or64(a, b) = Make64(high, low)
    BY DEF Or64
  <2> HIDE DEF high, low, L, H
  <2>2. high \in 0..(H - 1) /\ low \in 0..(L - 1) /\ high \in Int /\ low \in Int
    BY <1>1, <1>5
  <2>3. /\ Make64(high, low) \in WordSet
        /\ Make64(high, low).high = high /\ Make64(high, low).low = low
    BY <2>2, MakeWord DEF L, H
  <2>4. Value(Make64(high, low)) = high * L + low
    BY <2>3 DEF Value, L
  <2>5. high * L = a.high * L + b.high * L
    BY <1>1, <1>5
  <2>6. a.high * L \in Int /\ b.high * L \in Int
    BY <1>1
  <2>7. Value(Make64(high, low)) = (a.high * L + b.high * L) + (a.low + b.low)
    BY <1>5, <2>4, <2>5
  <2>8. Value(Make64(high, low)) = Value(a) + Value(b)
    <3> DEFINE ha == a.high * L
               hb == b.high * L
    <3>1. ha \in Int /\ hb \in Int /\ Value(a) = ha + a.low /\ Value(b) = hb + b.low
      BY <1>2, <2>6
    <3>2. a.low \in Int /\ b.low \in Int
      BY <1>1
    <3>3. Value(Make64(high, low)) = (ha + hb) + (a.low + b.low)
      BY <2>7
    <3> HIDE DEF ha, hb
    <3> QED
      BY <3>1, <3>2, <3>3
  <2> QED
    BY <2>1, <2>3, <2>8
<1>6. CASE k <= LowBits
  <2> DEFINE D == Pow2[LowBits - k]
             y == x % D
  <2>1. L = D * P /\ D \in Nat \ {0}
    <3>1. k \in 0..LowBits /\ LowBits - k \in Nat
      BY <1>6, BitsAssumed
    <3> QED
      BY <3>1, BitsAssumed, Pow2Splits, Pow2Positive
  <2> HIDE DEF D
  <2>2. y \in 0..(D - 1)
    BY <2>1, Division
  <2> HIDE DEF L, P, y
  <2>3. Value(b) \in Nat /\ Value(b) < L
    <3>1. P <= L
      <4>1. P \in Nat /\ D \in Nat /\ D >= 1
        BY <1>1, <2>1
      <4>2. D * P >= 1 * P
        BY <4>1
      <4> QED
        BY <2>1, <4>1, <4>2
    <3>2. Value(b) \in Nat /\ Value(b) < P
      BY <1>2 DEF P
    <3> QED
      BY <1>1, <3>1, <3>2
  <2>4. b.high = 0 /\ b.low = Value(b)
    <3>1. b.high = 0
      <4> SUFFICES ASSUME b.high >= 1 PROVE FALSE
        BY <1>1
      <4>1. b.high * L >= L
        BY <1>1
      <4> QED
        BY <1>1, <1>2, <2>3, <4>1
    <3> QED
      BY <1>1, <1>2, <3>1
  <2>5. a.low = y * P
    <3>1. 0 \in 0..(P - 1) /\ x \in Int
      BY <1>1
    <3>2. (x * P + 0) % (D * P) = (x % D) * P + 0
      BY <1>1, <2>1, <3>1, RestOfHalves
    <3> QED
      BY <1>1, <1>2, <2>1, <2>2, <3>2 DEF y, P
  <2>6. y * P + b.low \in 0..(L - 1)
    <3>1. (y + 1) * P <= D * P
      BY <1>1, <2>1, <2>2
    <3>2. (y + 1) * P = y * P + P /\ y * P \in Nat
      BY <1>1, <2>2
    <3>3. b.low < P
      BY <2>4 DEF P
    <3> QED
      BY <1>1, <2>1, <3>1, <3>2, <3>3
  <2>7. low = y * P + b.low
    <3>1. y * P < Pow2[WordBits] /\ y \in Nat /\ b.low \in 0..(P - 1)
      <4>1. y * P <= L - 1 /\ b.low < P
        BY <1>1, <2>2, <2>4, <2>5 DEF P
      <4> QED
        BY <1>1, <1>3, <1>4, <2>2, <4>1 DEF L
    <3> QED
      BY <2>5, <3>1, BitOrFields DEF P
  <2>8. high = a.high + 0
    <3>1. a.high \in Nat /\ a.high * Pow2[0] = a.high /\ a.high < Pow2[WordBits]
          /\ 0 \in 0..(Pow2[0] - 1)
      BY <1>1, <1>3, <1>4
    <3>2. BitOr(a.high * Pow2[0], 0) = a.high * Pow2[0] + 0
      BY <1>4, <3>1, BitOrFields
    <3> QED
      BY <2>4, <3>1, <3>2
  <2> QED
    BY <1>1, <2>4, <2>5, <2>6, <2>7, <2>8 DEF L
<1>7. CASE k > LowBits
  <2> DEFINE j == k - LowBits
             J == Pow2[j]
             E == Pow2[HighBits - j]
  <2>1. /\ P = J * L /\ J \in Nat \ {0} /\ H = E * J /\ E \in Nat \ {0}
        /\ j \in 0..WordBits
    <3>1. LowBits \in 0..k /\ j \in 0..HighBits /\ j \in Nat /\ HighBits - j \in Nat
          /\ j \in 0..WordBits /\ k \in Nat
      BY <1>7, BitsAssumed
    <3> HIDE DEF j
    <3>2. P = J * L
      BY <3>1, Pow2Splits DEF j
    <3> QED
      BY <3>1, <3>2, BitsAssumed, Pow2Splits, Pow2Positive
  <2> HIDE DEF j, J, E, L, H, P
  <2>3. Value(a) = L * (x * J) + 0
    <3>1. Value(a) = x * P
      BY DEF P
    <3> QED
      BY <1>1, <2>1, <3>1
  <2>4. x * J \in Nat /\ 0 \in 0..(L - 1)
    BY <1>1, <2>1
  <2>5. a.low = 0 /\ a.high = x * J
    <3> DEFINE q == x * J
    <3> HIDE DEF q
    <3>1. (L * q + 0) \div L = q /\ (L * q + 0) % L = 0
      BY <1>1, <2>4, DivisionUnique DEF q
    <3> QED
      BY <1>2, <2>3, <3>1 DEF q
  <2>6. b.high < J
    <3> SUFFICES ASSUME b.high >= J PROVE FALSE
      BY <1>1, <2>1
    <3>1. b.high * L >= J * L
      BY <1>1, <2>1
    <3>2. b.high * L \in Nat /\ J * L \in Nat
      BY <1>1, <2>1
    <3> QED
      BY <1>1, <1>2, <2>1, <3>1, <3>2 DEF P
  <2>7. high = x * J + b.high
    <3>1. x * J < Pow2[WordBits]
      BY <1>1, <1>3, <1>4, <2>4, <2>5 DEF H
    <3>2. b.high \in 0..(J - 1)
      BY <1>1, <2>1, <2>6
    <3>3. BitOr(x * J, b.high) = x * J + b.high
      BY <2>1, <3>1, <3>2, BitOrFields DEF J
    <3> QED
      BY <2>5, <3>3
  <2>8. x * J + b.high \in 0..(H - 1)
    <3>1. x < E
      <4> SUFFICES ASSUME x >= E PROVE FALSE
        BY <2>1
      <4>1. x * J >= E * J
        BY <2>1
      <4> QED
        BY <1>1, <2>1, <2>5, <4>1
    <3>2. (x + 1) * J <= E * J
      BY <2>1, <3>1
    <3>3. (x + 1) * J = x * J + J
      BY <2>1
    <3> QED
      BY <1>1, <2>1, <2>4, <2>6, <3>2, <3>3
  <2>9. low = 0 + b.low
    <3>1. b.low \in Nat /\ b.low * Pow2[0] = b.low /\ b.low < Pow2[WordBits]
          /\ 0 \in 0..(Pow2[0] - 1)
      BY <1>1, <1>3, <1>4 DEF L
    <3>2. BitOr(0, b.low * Pow2[0]) = b.low * Pow2[0] + 0
      BY <1>4, <3>1, BitOrFields
    <3> QED
      BY <2>5, <3>1, <3>2
  <2> QED
    BY <1>1, <2>5, <2>7, <2>8, <2>9 DEF H, L
<1> QED
  BY <1>6, <1>7, BitsAssumed

-----------------------------------------------------------------------------
(* The fields' places and sizes.                                           *)

LEMMA FieldSizes ==
    /\ CounterMask + 1 = Pow2[CounterBits] /\ CounterMask + 1 \in Nat \ {0}
    /\ 2 * (CounterMask + 1) <= Pow2[LowBits] /\ Shards <= Pow2[LowBits]
    /\ Shards \in Nat \ {0} /\ MachineIDs \in Nat \ {0} /\ Timestamps \in Nat \ {0}
    /\ ShardShift \in Nat /\ Pow2[ShardShift] = CounterMask + 1
    /\ MachineShift \in Nat /\ Pow2[MachineShift] = Shards * (CounterMask + 1)
    /\ TimestampShift \in Nat /\ Pow2[TimestampShift] = MachineIDs * Pow2[MachineShift]
    /\ ShardShift \in 0..WordBits /\ MachineShift \in 0..WordBits /\ TimestampShift \in 0..WordBits
    /\ Word = Timestamps * Pow2[TimestampShift]
    /\ Word = TimeWrap * (CounterMask + 1) /\ TimeWrap \in Nat \ {0}
<1>1. /\ CounterBits \in Nat /\ ShardBits \in Nat /\ MachineBits \in Nat /\ TimestampBits \in Nat
      /\ CounterBits < LowBits /\ LowBits \in Nat /\ WordBits \in Nat /\ CounterBits <= WordBits
      /\ ShardBits <= LowBits
  BY BitsAssumed
<1>2. /\ ShardShift = CounterBits /\ MachineShift = ShardBits + ShardShift
      /\ TimestampShift = MachineBits + MachineShift
      /\ WordBits = TimestampBits + TimestampShift
      /\ WordBits = (WordBits - CounterBits) + CounterBits
  <2>1. CounterBits = WordBits - TimestampBits - MachineBits - ShardBits
    BY DEF CounterBits
  <2> QED
    BY <1>1, <2>1 DEF ShardShift, MachineShift, TimestampShift
<1>3. /\ ShardShift \in Nat /\ MachineShift \in Nat /\ TimestampShift \in Nat
      /\ WordBits - CounterBits \in Nat
      /\ ShardShift <= WordBits /\ MachineShift <= WordBits /\ TimestampShift <= WordBits
  BY <1>1, <1>2
<1>4. /\ Timestamps = Pow2[TimestampBits] /\ CounterMask = Pow2[CounterBits] - 1
      /\ Shards = Pow2[ShardBits] /\ MachineIDs = Pow2[MachineBits]
      /\ TimeWrap = Word \div Pow2[CounterBits] /\ Word = Pow2[WordBits]
  BY ConfigAssumption
<1>5. /\ Pow2[CounterBits] \in Nat \ {0} /\ Timestamps \in Nat \ {0} /\ Shards \in Nat \ {0}
      /\ MachineIDs \in Nat \ {0} /\ Pow2[WordBits - CounterBits] \in Nat \ {0}
  BY <1>1, <1>3, <1>4, Pow2Positive
<1>6. CounterMask + 1 = Pow2[CounterBits]
  BY <1>4, <1>5
<1>7. Shards <= Pow2[LowBits]
  BY <1>1, <1>4, Pow2Splits
<1>8. 2 * (CounterMask + 1) <= Pow2[LowBits]
  <2>1. Pow2[CounterBits + 1] = 2 * Pow2[CounterBits] /\ CounterBits + 1 \in 0..LowBits
    BY <1>1, Pow2Step
  <2>2. Pow2[CounterBits + 1] <= Pow2[LowBits]
    BY <1>1, <2>1, Pow2Splits
  <2> QED
    BY <1>6, <2>1, <2>2
<1>9. /\ Pow2[MachineShift] = Pow2[ShardBits] * Pow2[ShardShift]
      /\ Pow2[TimestampShift] = Pow2[MachineBits] * Pow2[MachineShift]
      /\ Pow2[WordBits] = Pow2[TimestampBits] * Pow2[TimestampShift]
      /\ Pow2[WordBits] = Pow2[WordBits - CounterBits] * Pow2[CounterBits]
  <2>1. Pow2[MachineShift] = Pow2[ShardBits] * Pow2[ShardShift]
    BY <1>1, <1>2, <1>3, Pow2Plus
  <2>2. Pow2[TimestampShift] = Pow2[MachineBits] * Pow2[MachineShift]
    BY <1>1, <1>2, <1>3, Pow2Plus
  <2>3. Pow2[WordBits] = Pow2[TimestampBits] * Pow2[TimestampShift]
    BY <1>1, <1>2, <1>3, Pow2Plus
  <2>4. Pow2[WordBits] = Pow2[WordBits - CounterBits] * Pow2[CounterBits]
    BY <1>1, <1>3, Pow2Splits
  <2> QED
    BY <2>1, <2>2, <2>3, <2>4
<1>10. TimeWrap = Pow2[WordBits - CounterBits]
  <2> DEFINE d == Pow2[CounterBits]
             q == Pow2[WordBits - CounterBits]
  <2>1. d \in Nat \ {0} /\ q \in Nat /\ 0 \in 0..(d - 1)
    BY <1>5
  <2>2. Word = d * q + 0
    BY <1>4, <1>9, <2>1
  <2> HIDE DEF d, q
  <2>3. (d * q + 0) \div d = q
    BY <2>1, DivisionUnique
  <2> QED
    BY <1>4, <2>2, <2>3 DEF d, q
<1> QED
  BY <1>2, <1>3, <1>4, <1>5, <1>6, <1>7, <1>8, <1>9, <1>10

(* The counter's mask is one of its bits, for it is a short field.         *)
LEMMA MaskOfCounter ==
    LET mask == Mask(CounterBits)
    IN  mask \in WordSet /\ Value(mask) = CounterMask /\ mask.high = 0 /\ mask.low = CounterMask
<1> DEFINE one == From32(1)
           shifted == Shl64(one, CounterBits)
           mask == Mask(CounterBits)
           C == CounterMask + 1
           L == Pow2[LowBits]
<1>1. /\ C \in Nat \ {0} /\ C = Pow2[CounterBits] /\ 2 * C <= L /\ L \in Nat \ {0}
      /\ C < Word /\ CounterMask = C - 1 /\ Word \in Nat \ {0} /\ CounterMask \in Nat
  <2>1. L <= Word
    <3>1. Pow2[HighBits] * L >= 1 * L
      BY HalfSizes
    <3> QED
      BY <3>1, HalfSizes
  <2> QED
    BY <2>1, FieldSizes, HalfSizes, WidthsAssumption
<1>2. mask = Sub64(shifted, one)
  BY BitsAssumed DEF Mask
<1>3. one \in WordSet /\ Value(one) = 1
  <2>1. 1 \in 0..(L - 1)
    BY <1>1
  <2> QED
    BY <2>1, From32Value
<1> HIDE DEF one, mask, C, L
<1>4. shifted \in WordSet /\ Value(shifted) = C
  <2>1. CounterBits \in Nat
    BY BitsAssumed
  <2>2. shifted \in WordSet /\ Value(shifted) = (1 * C) % Word
    BY <1>1, <1>3, <2>1, Shl64Value
  <2> QED
    BY <1>1, <2>2, FieldKeeps
<1> HIDE DEF shifted
<1>5. mask \in WordSet /\ Value(mask) = (C - 1) % Word
  BY <1>2, <1>3, <1>4, Sub64Value
<1>6. Value(mask) = CounterMask
  BY <1>1, <1>5, FieldKeeps
<1>7. mask.high = CounterMask \div L /\ mask.low = CounterMask % L
  BY <1>5, <1>6, ValueOfHalves DEF L
<1>8. CounterMask \div L = 0 /\ CounterMask % L = CounterMask
  BY <1>1
<1> QED
  BY <1>5, <1>6, <1>7, <1>8 DEF mask

(* Last and counter are the fields of a shard's state.                     *)
LEMMA StateFields ==
    ASSUME NEW w \in WordSet, NEW time \in Nat, NEW counter \in Counters,
           Value(w) = time * (CounterMask + 1) + counter
    PROVE  /\ LastWord(w) \in WordSet /\ Value(LastWord(w)) = time
           /\ CounterWord(w) \in WordSet /\ Value(CounterWord(w)) = counter
<1> DEFINE C == CounterMask + 1
           L == Pow2[LowBits]
           mask == Mask(CounterBits)
<1>1. /\ C \in Nat \ {0} /\ C = Pow2[CounterBits] /\ CounterMask = C - 1 /\ CounterMask \in Nat
      /\ L \in Nat \ {0} /\ C <= L
  <2>1. C <= L
    BY FieldSizes, HalfSizes
  <2> QED
    BY <2>1, FieldSizes, HalfSizes, WidthsAssumption
<1>2. counter \in 0..(C - 1) /\ Value(w) = C * time + counter
  <2>1. Value(w) = time * C + counter
    OBVIOUS
  <2> HIDE DEF C
  <2> QED
    BY <1>1, <2>1
<1>3. Value(w) \div C = time /\ Value(w) % C = counter
  <2> HIDE DEF C
  <2>1. (C * time + counter) \div C = time /\ (C * time + counter) % C = counter
    BY <1>1, <1>2, DivisionUnique
  <2> QED
    BY <1>2, <2>1
<1>4. LastWord(w) \in WordSet /\ Value(LastWord(w)) = time
  <2>1. CounterBits \in 1..(LowBits - 1)
    BY BitsAssumed
  <2> QED
    BY <1>1, <1>3, <2>1, Shr64Value DEF LastWord
<1>5. mask.high = 0 /\ mask.low = CounterMask
  BY MaskOfCounter
<1>6. w.low \in 0..(L - 1) /\ w.high \in Nat /\ Value(w) = w.high * L + w.low
  BY Halved, HalfSizes DEF Value
<1>7. w.low % C = counter
  <2> DEFINE D == Pow2[LowBits - CounterBits]
             q == w.high * D
  <2>1. L = D * C /\ D \in Nat
    <3>1. CounterBits \in 0..LowBits /\ LowBits - CounterBits \in Nat
      BY BitsAssumed
    <3> QED
      BY <1>1, <3>1, BitsAssumed, Pow2Splits, Pow2Step
  <2> HIDE DEF L, C, D
  <2>2. q \in Int /\ Value(w) = C * q + w.low
    <3>1. w.high * (D * C) = C * (w.high * D)
      BY <1>1, <1>6, <2>1
    <3> QED
      BY <1>6, <2>1, <3>1
  <2> HIDE DEF q
  <2>3. (C * q + w.low) % C = w.low % C
    <3>1. w.low \in Int
      BY <1>1, <1>6
    <3> QED
      BY <1>1, <2>2, <3>1, RestShifts
  <2> QED
    BY <1>3, <2>2, <2>3
<1>8. BitAnd(w.low, mask.low) = counter
  <2>1. CounterBits \in 0..WordBits /\ mask.low = Pow2[CounterBits] - 1 /\ w.low \in Nat
    BY <1>1, <1>5, <1>6, BitsAssumed
  <2> HIDE DEF mask
  <2> QED
    BY <1>1, <1>7, <2>1, BitAndMask
<1>9. BitAnd(w.high, mask.high) = 0
  <2>1. 0 \in 0..WordBits /\ mask.high = Pow2[0] - 1 /\ Pow2[0] = 1 /\ w.high \in Nat
    BY <1>5, <1>6, BitsAssumed, Pow2Step
  <2>2. w.high % 1 = 0
    BY <2>1
  <2> HIDE DEF mask
  <2> QED
    BY <2>1, <2>2, BitAndMask
<1>10. CounterWord(w) = From32(counter)
  BY <1>8, <1>9 DEF CounterWord, And64, From32
<1>11. counter \in 0..(L - 1)
  BY <1>1, <1>2
<1> QED
  BY <1>4, <1>10, <1>11, From32Value

LEMMA HalvesValue ==
    ASSUME NEW time \in Nat
    PROVE  Halves(time) \in WordSet /\ Value(Halves(time)) = time % Word
<1> DEFINE L == Pow2[LowBits]
           q == time \div L
           r == time % L
<1>1. L \in Nat \ {0} /\ Word \in Nat \ {0}
  BY HalfSizes
<1>2. q \in Nat /\ r \in 0..(L - 1) /\ time = L * q + r
  <2> HIDE DEF L
  <2> QED
    BY <1>1, Division
<1>3. Halves(time) = Make64(q, r)
  <2>1. r % L = r
    <3> HIDE DEF L, r
    <3> QED
      BY <1>1, <1>2, FieldKeeps
  <2> QED
    BY <2>1 DEF Halves, Make64
<1>4. /\ Make64(q, r) \in WordSet
      /\ Value(Make64(q, r)) = (q * L + r) % Word
  <2>1. q \in Int /\ r \in Int
    BY <1>1, <1>2
  <2> QED
    BY <1>2, <2>1, MakeWord, ValueOfMake
<1>5. q * L + r = time
  <2> HIDE DEF L, q, r
  <2> QED
    BY <1>1, <1>2
<1> QED
  BY <1>3, <1>4, <1>5

(* "sub64(now, epoch)", for a time of any size. *)
LEMMA NowWordValue ==
    ASSUME NEW reading \in Readings
    PROVE  NowWord(reading) \in WordSet /\ Value(NowWord(reading)) = SinceEpoch(reading)
<1> DEFINE L == Pow2[LowBits]
           a == IF reading >= L THEN Halves(reading) ELSE From32(reading)
           b == Halves(Epoch)
           x == reading % Word
           y == Epoch % Word
           p == reading \div Word
           q == Epoch \div Word
<1>1. reading \in Nat /\ Epoch \in Nat /\ Word \in Nat \ {0} /\ L \in Nat \ {0} /\ L <= Word
  <2>1. Pow2[HighBits] * L >= 1 * L
    BY HalfSizes
  <2> QED
    BY <2>1, HalfSizes, ReadingsAssumption
<1>2. a \in WordSet /\ Value(a) = x
  <2>1. CASE reading >= L
    BY <1>1, <2>1, HalvesValue
  <2>2. CASE ~(reading >= L)
    <3>1. reading \in 0..(L - 1) /\ x = reading
      BY <1>1, <2>2, FieldKeeps
    <3> QED
      BY <2>2, <3>1, From32Value
  <2> QED
    BY <2>1, <2>2
<1>3. b \in WordSet /\ Value(b) = y
  BY <1>1, HalvesValue
<1>4. NowWord(reading) = Sub64(a, b)
  BY DEF NowWord
<1>5. /\ x \in Nat /\ y \in Nat /\ p \in Int /\ q \in Int
      /\ reading = Word * p + x /\ Epoch = Word * q + y
  BY <1>1, Division
<1> HIDE DEF a, b, x, y, p, q
<1>6. NowWord(reading) \in WordSet /\ Value(NowWord(reading)) = (x - y) % Word
  BY <1>2, <1>3, <1>4, Sub64Value
<1>7. reading - Epoch = Word * (p - q) + (x - y)
  <2>1. Word * (p - q) = Word * p - Word * q /\ Word * p \in Int /\ Word * q \in Int
    BY <1>1, <1>5
  <2> QED
    BY <1>5, <2>1
<1>8. (Word * (p - q) + (x - y)) % Word = (x - y) % Word
  <2>1. p - q \in Int /\ x - y \in Int
    BY <1>5
  <2> QED
    BY <1>1, <2>1, RestShifts
<1> QED
  BY <1>6, <1>7, <1>8 DEF SinceEpoch

LEMMA SinceEpochFits ==
    ASSUME NEW reading \in Readings
    PROVE  SinceEpoch(reading) \in 0..(Word - 1)
<1>1. reading - Epoch \in Int /\ Word \in Nat \ {0}
  BY HalfSizes, ReadingsAssumption
<1> QED
  BY <1>1, IntDivision DEF SinceEpoch

(* The step from a state that is its fields.                               *)
LEMMA StepWordFields ==
    ASSUME NEW reading \in Readings,
           NEW last \in [time : Times, counter : Counters],
           NEW w \in WordSet,
           Value(w) = last.time * (CounterMask + 1) + last.counter
    PROVE  LET now == ProtectedTime(reading, last)
               step == Step(now, last)
               made == StepWord(ProtectedWord(NowWord(reading), LastWord(w)), w)
           IN  /\ step.time \in Nat /\ step.counter \in Counters
               /\ made.now \in WordSet /\ Value(made.now) = step.time
               /\ made.counter \in WordSet /\ Value(made.counter) = step.counter
<1> DEFINE now == ProtectedTime(reading, last)
           step == Step(now, last)
           lastWord == LastWord(w)
           nowWord == ProtectedWord(NowWord(reading), lastWord)
           made == StepWord(nowWord, w)
           counter == CounterWord(w)
           mask == Mask(CounterBits)
           one == From32(1)
<1>1. /\ last.time \in Nat /\ last.counter \in Counters /\ last.time \in Times
      /\ CounterMask \in Nat \ {0} /\ Word \in Nat \ {0} /\ TimeWrap \in Nat
      /\ last.time < Word
  BY WidthsAssumption, HalfSizes
<1>2. /\ lastWord \in WordSet /\ Value(lastWord) = last.time
      /\ counter \in WordSet /\ Value(counter) = last.counter
  BY <1>1, StateFields
<1>3. nowWord \in WordSet /\ Value(nowWord) = now
  <2>1. /\ NowWord(reading) \in WordSet /\ Value(NowWord(reading)) = SinceEpoch(reading)
    BY NowWordValue
  <2>2. Less64(NowWord(reading), lastWord) <=> SinceEpoch(reading) < last.time
    BY <1>2, <2>1, Less64Value
  <2> HIDE DEF lastWord
  <2> QED
    BY <1>2, <2>1, <2>2 DEF ProtectedWord, ProtectedTime
<1>4. now \in 0..(Word - 1)
  BY <1>1, SinceEpochFits DEF ProtectedTime
<1>5. mask \in WordSet /\ Value(mask) = CounterMask
  BY MaskOfCounter
<1>6. one \in WordSet /\ Value(one) = 1
  <2>1. 1 \in 0..(Pow2[LowBits] - 1)
    BY FieldSizes, WidthsAssumption, HalfSizes
  <2> QED
    BY <2>1, From32Value
<1>7. Gte64(counter, mask) <=> last.counter >= CounterMask
  <2>1. Less64(counter, mask) <=> last.counter < CounterMask
    BY <1>2, <1>5, Less64Value
  <2> QED
    BY <1>1, <2>1 DEF Gte64
<1>8. nowWord # lastWord <=> now # last.time
  BY <1>2, <1>3, ValueInjective
<1>9. made = IF nowWord # lastWord THEN [now |-> nowWord, counter |-> one]
             ELSE IF Gte64(counter, mask) THEN [now |-> Add64(nowWord, one), counter |-> one]
             ELSE [now |-> nowWord, counter |-> Add64(counter, one)]
  BY DEF StepWord
<1>10. step = IF now # last.time THEN [time |-> now, counter |-> 1]
              ELSE IF last.counter >= CounterMask THEN [time |-> (now + 1) % Word, counter |-> 1]
              ELSE [time |-> now, counter |-> last.counter + 1]
  BY DEF Step
<1>11. 1 \in Counters /\ (now + 1) % Word \in Nat
  BY <1>1, <1>4
<1>12. Add64(nowWord, one) \in WordSet /\ Value(Add64(nowWord, one)) = (now + 1) % Word
  BY <1>3, <1>6, Add64Value
<1>13. ~(last.counter >= CounterMask) =>
         /\ last.counter + 1 \in Counters
         /\ Add64(counter, one) \in WordSet /\ Value(Add64(counter, one)) = last.counter + 1
  <2> SUFFICES ASSUME ~(last.counter >= CounterMask)
               PROVE  /\ last.counter + 1 \in Counters
                      /\ Add64(counter, one) \in WordSet
                      /\ Value(Add64(counter, one)) = last.counter + 1
    OBVIOUS
  <2>1. last.counter + 1 \in Counters /\ last.counter + 1 < Word /\ last.counter + 1 \in Nat
    <3>1. CounterMask < Word
      <4>1. 1 * (CounterMask + 1) <= TimeWrap * (CounterMask + 1)
        BY FieldSizes
      <4> QED
        BY <1>1, <4>1, FieldSizes
    <3> QED
      BY <1>1, <3>1
  <2>2. (last.counter + 1) % Word = last.counter + 1
    BY <1>1, <2>1, FieldKeeps
  <2>3. /\ Add64(counter, one) \in WordSet
        /\ Value(Add64(counter, one)) = (last.counter + 1) % Word
    BY <1>2, <1>6, Add64Value
  <2> QED
    BY <2>1, <2>2, <2>3
<1> HIDE DEF now, step, nowWord, lastWord, made, counter, mask, one
<1> SUFFICES /\ step.time \in Nat /\ step.counter \in Counters
             /\ made.now \in WordSet /\ Value(made.now) = step.time
             /\ made.counter \in WordSet /\ Value(made.counter) = step.counter
  BY DEF now, step, nowWord, lastWord, made
<1>14. CASE now # last.time
  BY <1>3, <1>4, <1>6, <1>8, <1>9, <1>10, <1>11, <1>14
<1>15. CASE now = last.time /\ last.counter >= CounterMask
  BY <1>6, <1>7, <1>8, <1>9, <1>10, <1>11, <1>12, <1>15
<1>16. CASE now = last.time /\ ~(last.counter >= CounterMask)
  BY <1>3, <1>4, <1>7, <1>8, <1>9, <1>10, <1>13, <1>16
<1> QED
  BY <1>14, <1>15, <1>16

(* "Structure: [Timestamp][Counter]". *)
LEMMA StateWordValue ==
    ASSUME NEW step, NEW made,
           step.time \in Nat, step.counter \in Counters,
           made.now \in WordSet, Value(made.now) = step.time,
           made.counter \in WordSet, Value(made.counter) = step.counter
    PROVE  /\ StateWord(made) \in WordSet
           /\ Value(StateWord(made)) = (step.time % TimeWrap) * (CounterMask + 1) + step.counter
<1> DEFINE C == CounterMask + 1
           t == step.time % TimeWrap
           shifted == Shl64(made.now, CounterBits)
<1>1. /\ C \in Nat \ {0} /\ C = Pow2[CounterBits] /\ TimeWrap \in Nat \ {0}
      /\ Word = TimeWrap * C /\ CounterBits \in Nat /\ CounterBits \in 0..WordBits
      /\ CounterMask \in Nat /\ step.counter < C
  BY FieldSizes, BitsAssumed, WidthsAssumption
<1>2. t \in Nat
  BY <1>1
<1>3. shifted \in WordSet /\ Value(shifted) = (step.time * C) % Word
  BY <1>1, Shl64Value
<1>4. (step.time * C + 0) % (TimeWrap * C) = t * C + 0
  <2>1. 0 \in 0..(C - 1) /\ step.time \in Int
    BY <1>1
  <2> HIDE DEF C
  <2> QED
    BY <1>1, <2>1, RestOfHalves
<1> HIDE DEF C, t, shifted
<1>5. Value(shifted) = t * Pow2[CounterBits]
  BY <1>1, <1>2, <1>3, <1>4
<1>6. /\ Or64(shifted, made.counter) \in WordSet
      /\ Value(Or64(shifted, made.counter)) = Value(shifted) + Value(made.counter)
  BY <1>1, <1>2, <1>3, <1>5, Or64Fields
<1> QED
  BY <1>1, <1>5, <1>6 DEF StateWord, C, t, shifted

LEMMA MachineWordValue == MachineWord \in WordSet /\ Value(MachineWord) = MachineID
<1>1. MachineWord \in WordSet
  BY BitwiseAreNatural, MakeWord DEF MachineWord, And64
<1> QED
  BY <1>1, MachineWordAssumption

LEMMA ShardWordValue ==
    ASSUME NEW s \in ShardIndexes
    PROVE  ShardWord(s) \in WordSet /\ Value(ShardWord(s)) = s
<1>1. ShardBits \in 0..WordBits /\ s \in Nat /\ Shards = Pow2[ShardBits] /\ s < Shards
      /\ Shards \in Nat \ {0} /\ Shards <= Pow2[LowBits] /\ Pow2[LowBits] \in Nat
  <2>1. ShardBits \in 0..WordBits
    BY BitsAssumed
  <2>2. Shards = Pow2[ShardBits]
    BY ConfigAssumption
  <2>3. Shards \in Nat \ {0} /\ Shards <= Pow2[LowBits] /\ Pow2[LowBits] \in Nat
    BY FieldSizes, HalfSizes
  <2>4. s \in Nat /\ s < Shards
    BY <2>3
  <2> QED
    BY <2>1, <2>2, <2>3, <2>4
<1>2. BitAnd(s, Pow2[ShardBits] - 1) = s
  BY <1>1, BitAndMask, FieldKeeps
<1>3. s \in 0..(Pow2[LowBits] - 1)
  BY <1>1
<1> QED
  BY <1>2, <1>3, From32Value DEF ShardWord

(* "Structure: [Timestamp][MachineID][ShardIndex][Counter]". *)
LEMMA IdWordValue ==
    ASSUME NEW s \in ShardIndexes, NEW step, NEW made,
           step.time \in Nat, step.counter \in Counters,
           made.now \in WordSet, Value(made.now) = step.time,
           made.counter \in WordSet, Value(made.counter) = step.counter
    PROVE  /\ IdWord(s, made) \in WordSet
           /\ Value(IdWord(s, made)) = PackFields(IdOf(s, step))
<1> DEFINE C == CounterMask + 1
           t == step.time % Timestamps
           m == MachineID
           T == Pow2[TimestampShift]
           M == Pow2[MachineShift]
           first == Shl64(made.now, TimestampShift)
           second == Shl64(MachineWord, MachineShift)
           third == Shl64(ShardWord(s), ShardShift)
           x == t * MachineIDs + m
           y == x * Shards + s
           one == Or64(first, second)
           two == Or64(one, third)
<1>1. /\ C \in Nat \ {0} /\ C = Pow2[ShardShift] /\ Timestamps \in Nat \ {0}
      /\ T = MachineIDs * M /\ M = Shards * C /\ Word = Timestamps * T
      /\ MachineIDs \in Nat \ {0} /\ Shards \in Nat \ {0}
      /\ ShardShift \in Nat /\ MachineShift \in Nat /\ TimestampShift \in Nat
      /\ ShardShift \in 0..WordBits /\ MachineShift \in 0..WordBits
      /\ TimestampShift \in 0..WordBits
  BY FieldSizes
<1>2. /\ M \in Nat \ {0} /\ T \in Nat \ {0} /\ Word \in Nat \ {0}
  BY <1>1, Pow2Positive, HalfSizes
<1>3. /\ t \in Nat /\ m \in 0..(MachineIDs - 1) /\ s \in 0..(Shards - 1)
      /\ step.counter \in 0..(C - 1) /\ step.counter \in Nat
  <2>1. step.counter \in 0..(C - 1) /\ step.counter \in Nat
    BY WidthsAssumption
  <2>2. m \in 0..(MachineIDs - 1)
    BY MachineAssumption
  <2> QED
    BY <1>1, <2>1, <2>2
<1>4. first \in WordSet /\ Value(first) = t * T
  <2>1. first \in WordSet /\ Value(first) = (step.time * T) % Word
    BY <1>1, Shl64Value
  <2>2. 0 \in 0..(T - 1) /\ step.time \in Int
    BY <1>2
  <2>3. (step.time * T + 0) % (Timestamps * T) = t * T + 0
    <3> HIDE DEF T
    <3> QED
      BY <1>1, <1>2, <2>2, RestOfHalves
  <2> HIDE DEF T, t, first
  <2> QED
    BY <1>1, <1>2, <1>3, <2>1, <2>3
<1>5. second \in WordSet /\ Value(second) = m * M /\ m * M < T
  <2>1. second \in WordSet /\ Value(second) = (m * M) % Word
    BY <1>1, MachineWordValue, Shl64Value
  <2> HIDE DEF T, M, m, second
  <2>2. m * M \in Nat /\ m * M < T
    <3>1. (m + 1) * M <= MachineIDs * M
      BY <1>1, <1>2, <1>3
    <3>2. (m + 1) * M = m * M + M /\ m * M \in Nat
      BY <1>2, <1>3
    <3> QED
      BY <1>1, <1>2, <3>1, <3>2
  <2>3. T <= Word
    <3>1. 1 * T <= Timestamps * T
      BY <1>1, <1>2
    <3> QED
      BY <1>1, <1>2, <3>1
  <2>4. (m * M) % Word = m * M
    <3> DEFINE n == m * M
    <3>1. n \in Nat /\ n < Word
      BY <1>2, <2>2, <2>3
    <3> HIDE DEF n
    <3>2. n % Word = n
      BY <1>2, <3>1, FieldKeeps
    <3> QED
      BY <3>2 DEF n
  <2> QED
    BY <2>1, <2>2, <2>4
<1>6. third \in WordSet /\ Value(third) = s * C /\ s * C < M
  <2>1. third \in WordSet /\ Value(third) = (s * C) % Word
    <3>1. ShardWord(s) \in WordSet /\ Value(ShardWord(s)) = s
      BY ShardWordValue
    <3>2. third \in WordSet /\ Value(third) = (Value(ShardWord(s)) * Pow2[ShardShift]) % Word
      BY <1>1, <3>1, Shl64Value
    <3> HIDE DEF C, third
    <3> QED
      BY <1>1, <3>1, <3>2
  <2> HIDE DEF M, C, T, third
  <2>2. s * C \in Nat /\ s * C < M
    <3>1. (s + 1) * C <= Shards * C
      BY <1>1, <1>2, <1>3
    <3>2. (s + 1) * C = s * C + C /\ s * C \in Nat
      BY <1>1, <1>3
    <3> QED
      BY <1>1, <1>2, <3>1, <3>2
  <2>3. M <= Word
    <3>1. 1 * M <= MachineIDs * M /\ 1 * T <= Timestamps * T
      BY <1>1, <1>2
    <3> QED
      BY <1>1, <1>2, <3>1
  <2>4. (s * C) % Word = s * C
    <3> DEFINE n == s * C
    <3>1. n \in Nat /\ n < Word
      BY <1>2, <2>2, <2>3
    <3> HIDE DEF n
    <3>2. n % Word = n
      BY <1>2, <3>1, FieldKeeps
    <3> QED
      BY <3>2 DEF n
  <2> QED
    BY <2>1, <2>2, <2>4
<1> HIDE DEF C, t, m, T, M, first, second, third
<1>7. one \in WordSet /\ Value(one) = x * M /\ x \in Nat
  <2>1. one \in WordSet /\ Value(one) = Value(first) + Value(second)
    BY <1>1, <1>3, <1>4, <1>5, Or64Fields DEF T
  <2>2. t * T = (t * MachineIDs) * M
    BY <1>1, <1>2, <1>3
  <2>3. t * MachineIDs \in Nat /\ m \in Nat
    BY <1>1, <1>3
  <2> DEFINE u == t * MachineIDs
  <2>4. (u + m) * M = u * M + m * M
    BY <1>2, <2>3
  <2> HIDE DEF one
  <2> QED
    BY <1>4, <1>5, <2>1, <2>2, <2>3, <2>4
<1> HIDE DEF one, x
<1>8. two \in WordSet /\ Value(two) = y * C /\ y \in Nat
  <2>1. two \in WordSet /\ Value(two) = Value(one) + Value(third)
    BY <1>1, <1>6, <1>7, Or64Fields DEF M
  <2>2. x * M = (x * Shards) * C
    BY <1>1, <1>2, <1>7
  <2>3. x * Shards \in Nat /\ s \in Nat
    BY <1>1, <1>3, <1>7
  <2> DEFINE u == x * Shards
  <2>4. (u + s) * C = u * C + s * C
    BY <1>1, <2>3
  <2> HIDE DEF two
  <2> QED
    BY <1>6, <1>7, <2>1, <2>2, <2>3, <2>4
<1> HIDE DEF two, y
<1>9. /\ Or64(two, made.counter) \in WordSet
      /\ Value(Or64(two, made.counter)) = Value(two) + Value(made.counter)
  <2>1. Value(made.counter) < Pow2[ShardShift] /\ Value(two) = y * Pow2[ShardShift]
    BY <1>1, <1>3, <1>8
  <2> QED
    BY <1>1, <1>8, <2>1, Or64Fields
<1>10. IdWord(s, made) = Or64(two, made.counter)
  BY DEF IdWord, two, one, first, second, third
<1>11. PackFields(IdOf(s, step)) = y * C + step.counter
  BY DEF PackFields, IdOf, y, x, t, m, C
<1> QED
  BY <1>8, <1>9, <1>10, <1>11

-----------------------------------------------------------------------------
(* Hexadecimal numerals, half by half.                                     *)

Zeros(n) == [i \in 1..n |-> 0]
PadTo(d, digits) == Zeros(d - Len(digits)) \o digits

LEMMA ZerosShape == \A n \in Nat : Zeros(n) \in Seq(Nat) /\ Len(Zeros(n)) = n
BY DEF Zeros

LEMMA ConcatAppend ==
    ASSUME NEW s \in Seq(Nat), NEW t \in Seq(Nat), NEW r \in Nat
    PROVE  Append(s \o t, r) = s \o Append(t, r)
<1>1. /\ s \o t \in Seq(Nat) /\ Append(t, r) \in Seq(Nat)
      /\ Append(s \o t, r) \in Seq(Nat) /\ s \o Append(t, r) \in Seq(Nat)
  OBVIOUS
<1>2. Len(Append(s \o t, r)) = Len(s) + Len(t) + 1 /\ Len(s \o Append(t, r)) = Len(s) + Len(t) + 1
  OBVIOUS
<1>3. \A i \in 1..(Len(s) + Len(t) + 1) : Append(s \o t, r)[i] = (s \o Append(t, r))[i]
  OBVIOUS
<1> QED
  BY <1>1, <1>2, <1>3, SeqEqual

LEMMA ZerosAppend ==
    ASSUME NEW n \in Nat
    PROVE  Append(Zeros(n), 0) = Zeros(n + 1)
BY DEF Zeros

LEMMA ConcatOne ==
    ASSUME NEW s \in Seq(Nat), NEW r \in Nat
    PROVE  s \o <<r>> = Append(s, r)
OBVIOUS

LEMMA HexIsNatural ==
    ASSUME NEW n \in Nat
    PROVE  Numeral(n, 16) \in Seq(Nat) /\ Len(Numeral(n, 16)) \in Nat \ {0}
<1>1. Numeral(n, 16) \in Seq(0..(16 - 1)) /\ Len(Numeral(n, 16)) \in Nat \ {0}
  <2>1. 16 \in Nat /\ 16 >= 2
    OBVIOUS
  <2> QED
    BY <2>1, NumeralShape, Zenon
<1> QED
  BY <1>1

LEMMA HexStep ==
    ASSUME NEW q \in Nat, NEW r \in 0..15
    PROVE  Numeral(16 * q + r, 16) = IF q = 0 THEN <<r>> ELSE Append(Numeral(q, 16), r)
<1> DEFINE n == 16 * q + r
<1>1. n \in Nat /\ (n < 16 <=> q = 0) /\ n \div 16 = q /\ n % 16 = r
  OBVIOUS
<1>2. q = 0 => n = r
  OBVIOUS
<1> HIDE DEF n
<1>3. Numeral(n, 16) = IF n < 16 THEN <<n>> ELSE Append(Numeral(n \div 16, 16), n % 16)
  <2>1. 16 \in Nat /\ 16 >= 2
    OBVIOUS
  <2> QED
    BY <1>1, <2>1, NumeralStep, Zenon
<1> QED
  BY <1>1, <1>2, <1>3 DEF n

(* A digit more in the low part.                                           *)
LEMMA PadStep ==
    ASSUME NEW d \in Nat \ {0}, NEW q \in Nat, NEW r \in 0..15,
           Len(Numeral(q, 16)) <= d
    PROVE  /\ Len(Numeral(16 * q + r, 16)) <= d + 1
           /\ PadTo(d + 1, Numeral(16 * q + r, 16)) = Append(PadTo(d, Numeral(q, 16)), r)
<1> DEFINE s == Numeral(q, 16)
           t == Numeral(16 * q + r, 16)
<1>1. s \in Seq(Nat) /\ Len(s) \in Nat \ {0} /\ Len(s) <= d
  BY HexIsNatural
<1>2. t = IF q = 0 THEN <<r>> ELSE Append(s, r)
  BY HexStep
<1> SUFFICES /\ Len(t) <= d + 1
             /\ PadTo(d + 1, t) = Append(PadTo(d, s), r)
  OBVIOUS
<1>3. q = 0 => s = <<0>>
  <2>1. 16 * 0 + 0 = 0 /\ 0 \in 0..15 /\ 0 \in Nat
    OBVIOUS
  <2>2. Numeral(16 * 0 + 0, 16) = <<0>>
    BY <2>1, HexStep
  <2> QED
    BY <2>1, <2>2
<1> HIDE DEF s, t
<1>4. CASE q # 0
  <2>1. Len(t) = Len(s) + 1
    BY <1>1, <1>2, <1>4
  <2>2. (d + 1) - Len(t) = d - Len(s) /\ d - Len(s) \in Nat
    BY <1>1, <2>1
  <2> DEFINE z == Zeros(d - Len(s))
  <2>3. z \in Seq(Nat)
    BY <2>2, ZerosShape
  <2>4. PadTo(d + 1, t) = z \o Append(s, r)
    BY <1>2, <1>4, <2>2 DEF PadTo
  <2>5. PadTo(d, s) = z \o s
    BY DEF PadTo
  <2> HIDE DEF z
  <2>6. Append(z \o s, r) = z \o Append(s, r)
    BY <1>1, <2>3, ConcatAppend
  <2> QED
    <3>1. Len(t) <= d + 1
      BY <1>1, <2>1
    <3>2. PadTo(d + 1, t) = Append(PadTo(d, s), r)
      BY <2>4, <2>5, <2>6, Zenon
    <3> QED
      BY <3>1, <3>2
<1>5. CASE q = 0
  <2>1. t = <<r>> /\ Len(t) = 1 /\ s = <<0>> /\ Len(s) = 1
    BY <1>2, <1>3, <1>5
  <2>2. PadTo(d + 1, t) = Zeros(d) \o <<r>> /\ PadTo(d, s) = Zeros(d - 1) \o <<0>>
    BY <2>1 DEF PadTo
  <2>3. /\ Zeros(d) \in Seq(Nat) /\ Zeros(d - 1) \in Seq(Nat) /\ d - 1 \in Nat
        /\ (d - 1) + 1 = d
    BY ZerosShape
  <2>4. Zeros(d) \o <<r>> = Append(Zeros(d), r)
    BY <2>3, ConcatOne
  <2>5. Zeros(d - 1) \o <<0>> = Append(Zeros(d - 1), 0)
    BY <2>3, ConcatOne
  <2>6. Append(Zeros(d - 1), 0) = Zeros(d)
    BY <2>3, ZerosAppend
  <2> QED
    <3>1. Len(t) <= d + 1
      BY <2>1
    <3>2. PadTo(d + 1, t) = Append(PadTo(d, s), r)
      BY <2>2, <2>4, <2>5, <2>6, Zenon
    <3> QED
      BY <3>1, <3>2
<1> QED
  BY <1>4, <1>5

LEMMA HexHalves ==
    \A d \in Nat \ {0} : \A high \in Nat \ {0} : \A low \in 0..(Pow2[4 * d] - 1) :
        /\ Numeral(high * Pow2[4 * d] + low, 16) = Numeral(high, 16) \o PadTo(d, Numeral(low, 16))
        /\ Len(Numeral(low, 16)) <= d
<1> DEFINE Holds(d) ==
             \A high \in Nat \ {0} : \A low \in 0..(Pow2[4 * d] - 1) :
               /\ Numeral(high * Pow2[4 * d] + low, 16)
                    = Numeral(high, 16) \o PadTo(d, Numeral(low, 16))
               /\ Len(Numeral(low, 16)) <= d
           S == {d \in Nat : d # 0 => Holds(d)}
<1>1. Pow2[4] = 16
  <2>1. Pow2[0 + 1] = 2 /\ Pow2[1 + 1] = 4 /\ Pow2[2 + 1] = 8 /\ Pow2[3 + 1] = 16
    BY Pow2Step
  <2> QED
    BY <2>1
<1>2. ASSUME NEW d \in Nat, \A m \in 0..(d - 1) : m \in S
      PROVE  d \in S
  <2> SUFFICES ASSUME d # 0, NEW high \in Nat \ {0}, NEW low \in 0..(Pow2[4 * d] - 1)
               PROVE  /\ Numeral(high * Pow2[4 * d] + low, 16)
                           = Numeral(high, 16) \o PadTo(d, Numeral(low, 16))
                      /\ Len(Numeral(low, 16)) <= d
    OBVIOUS
  <2> DEFINE e == d - 1
             E == Pow2[4 * e]
             q == low \div 16
             r == low % 16
  <2>1. e \in Nat /\ d = e + 1 /\ e \in 0..(d - 1)
    OBVIOUS
  <2>2. Pow2[4 * d] = E * 16 /\ E \in Nat \ {0}
    <3>1. 4 * d = 4 * e + 4 /\ 4 * e \in Nat
      BY <2>1
    <3>2. Pow2[4 * e + 4] = Pow2[4 * e] * Pow2[4]
      BY <3>1, Pow2Plus
    <3> QED
      BY <1>1, <3>1, <3>2, Pow2Positive
  <2>3. low \in Nat /\ q \in Nat /\ r \in 0..15 /\ low = 16 * q + r
    BY <2>2, Pow2Step
  <2> HIDE DEF e, E, q, r
  <2>4. q \in 0..(E - 1)
    BY <2>2, <2>3
  <2> DEFINE n == high * E + q
  <2>5. n \in Nat \ {0} /\ high * Pow2[4 * d] + low = 16 * n + r
    <3>1. high * E \in Nat \ {0}
      BY <2>2
    <3>2. high * (E * 16) = 16 * (high * E)
      BY <2>2
    <3> QED
      BY <2>2, <2>3, <3>1, <3>2
  <2>6. Numeral(16 * n + r, 16) = Append(Numeral(n, 16), r)
    <3> HIDE DEF n
    <3> QED
      BY <2>3, <2>5, HexStep
  <2>7. Numeral(high, 16) \in Seq(Nat) /\ r \in Nat
    <3>1. high \in Nat /\ r \in Nat
      BY <2>3
    <3> QED
      BY <3>1, HexIsNatural, Zenon
  <2>8. CASE e = 0
    <3>1. E = 1 /\ q = 0 /\ n = high
      BY <2>2, <2>4, <2>8, Pow2Step DEF E
    <3>2. Numeral(low, 16) = <<r>>
      BY <2>3, <3>1, HexStep
    <3>3. PadTo(d, Numeral(low, 16)) = <<r>>
      <4>1. d - Len(<<r>>) = 0
        BY <2>1, <2>8
      <4>2. Zeros(0) \in Seq(Nat) /\ Len(Zeros(0)) = 0
        BY ZerosShape
      <4>3. <<r>> \in Seq(Nat)
        BY <2>7
      <4>4. Zeros(0) = <<>>
        BY <4>2
      <4>5. <<>> \o <<r>> = <<r>>
        BY <4>3, ConcatEmptySeq
      <4>6. PadTo(d, <<r>>) = Zeros(0) \o <<r>>
        BY <4>1 DEF PadTo
      <4> QED
        BY <3>2, <4>4, <4>5, <4>6
    <3>4. Append(Numeral(high, 16), r) = Numeral(high, 16) \o <<r>>
      BY <2>7, ConcatOne
    <3>5. Len(Numeral(low, 16)) <= d
      <4>1. Len(<<r>>) = 1 /\ d = 1
        BY <2>1, <2>8
      <4>2. Len(Numeral(low, 16)) = 1
        BY <3>2, <4>1, Zenon
      <4>3. 1 <= d
        BY <4>1
      <4> QED
        BY <4>2, <4>3, Zenon
    <3> HIDE DEF n
    <3> QED
      BY <2>5, <2>6, <3>1, <3>3, <3>4, <3>5
  <2>9. CASE e # 0
    <3>1. Holds(e)
      BY <1>2, <2>1, <2>9
    <3>2. /\ Numeral(n, 16) = Numeral(high, 16) \o PadTo(e, Numeral(q, 16))
          /\ Len(Numeral(q, 16)) <= e
      BY <2>4, <3>1 DEF E
    <3>3. /\ Len(Numeral(low, 16)) <= d
          /\ PadTo(d, Numeral(low, 16)) = Append(PadTo(e, Numeral(q, 16)), r)
      <4>1. e \in Nat \ {0}
        BY <2>1, <2>9
      <4> QED
        BY <2>1, <2>3, <3>2, <4>1, PadStep
    <3> DEFINE s == Numeral(high, 16)
               t == PadTo(e, Numeral(q, 16))
    <3>4. t \in Seq(Nat)
      <4>1. Numeral(q, 16) \in Seq(Nat) /\ Len(Numeral(q, 16)) \in Nat
        BY <2>3, HexIsNatural
      <4>2. e - Len(Numeral(q, 16)) \in Nat
        BY <2>1, <3>2, <4>1
      <4>3. Zeros(e - Len(Numeral(q, 16))) \in Seq(Nat)
        BY <4>2, ZerosShape
      <4> QED
        BY <4>1, <4>3 DEF PadTo
    <3> HIDE DEF s, t, n
    <3>5. Append(s \o t, r) = s \o Append(t, r)
      BY <2>7, <3>4, ConcatAppend DEF s
    <3> QED
      BY <2>5, <2>6, <3>2, <3>3, <3>5 DEF s, t
  <2> QED
    BY <2>8, <2>9
<1>3. \A d \in Nat : d \in S
  <2> HIDE DEF S
  <2> QED
    BY <1>2, StrongInduction
<1> QED
  BY <1>3

(* Whichever way a word is spelled, the digits are its value's.            *)
LEMMA SpellingsAreNumerals ==
    ASSUME NEW w \in WordSet, NEW spelling \in Spellings(w)
    PROVE  spelling.digits = Numeral(Value(w), spelling.radix)
<1> DEFINE L == Pow2[LowBits]
           d == LowBits \div 4
<1>1. /\ w.high \in Nat /\ w.low \in 0..(L - 1) /\ L \in Nat \ {0}
      /\ Value(w) = w.high * L + w.low
  BY Halved, HalfSizes DEF Value
<1>2. ToHex64(w) = Numeral(Value(w), 16)
  <2>1. CASE w.high = 0
    <3>1. Value(w) = w.low
      BY <1>1, <2>1
    <3> QED
      BY <2>1, <3>1 DEF ToHex64
  <2>2. CASE w.high # 0
    <3>1. d \in Nat \ {0} /\ 4 * d = LowBits
      <4>1. LowBits % 4 = 0 /\ LowBits \in Nat /\ LowBits >= 2
        BY BitsAssumed, ConfigAssumption
      <4> QED
        BY <4>1
    <3>2. Padded(Numeral(w.low, 16)) = PadTo(d, Numeral(w.low, 16))
      BY DEF Padded, PadTo, Zeros
    <3> HIDE DEF d
    <3>3. w.high \in Nat \ {0} /\ w.low \in 0..(Pow2[4 * d] - 1)
      BY <1>1, <2>2, <3>1
    <3>4. Numeral(w.high * Pow2[4 * d] + w.low, 16)
            = Numeral(w.high, 16) \o PadTo(d, Numeral(w.low, 16))
      BY <3>1, <3>3, HexHalves
    <3>5. w.high * Pow2[4 * d] + w.low = Value(w)
      BY <1>1, <3>1
    <3> QED
      BY <2>2, <3>2, <3>4, <3>5 DEF ToHex64
  <2> QED
    BY <2>1, <2>2
<1>3. spelling = [radix |-> 16, digits |-> Numeral(Value(w), 16)]
      \/ spelling = [radix |-> 10, digits |-> Numeral(Value(w), 10)]
  BY <1>2 DEF Spellings, ToString64
<1> QED
  BY <1>3

-----------------------------------------------------------------------------
(* The inductive invariant: halves are halves, and they hold the fields.   *)

WordsSound ==
    /\ TypeOK
    /\ words \in [ShardIndexes -> WordSet]
    /\ muid \in WordSet
    /\ WordsAgree

LEMMA WordInitSound == WordInit => WordsSound
<1> SUFFICES ASSUME WordInit PROVE WordsSound
  OBVIOUS
<1>1. TypeOK
  BY ShardsAssumption, WidthsAssumption DEF WordInit, Init, TypeOK
<1>2. /\ From32(1) \in WordSet /\ Value(From32(1)) = 1
      /\ From32(0) \in WordSet
  <2>1. 0 \in 0..(Pow2[LowBits] - 1) /\ 1 \in 0..(Pow2[LowBits] - 1)
    BY FieldSizes, HalfSizes, WidthsAssumption
  <2> QED
    BY <2>1, From32Value
<1>3. words \in [ShardIndexes -> WordSet] /\ muid \in WordSet
  BY <1>2 DEF WordInit, NewState
<1>4. ASSUME NEW s \in ShardIndexes
      PROVE  Value(words[s]) = state[s].time * (CounterMask + 1) + state[s].counter
  <2>1. state[s].time = 0 /\ state[s].counter = 1 /\ Value(words[s]) = 1
    BY <1>2 DEF WordInit, Init, NewState
  <2>2. 0 * (CounterMask + 1) + 1 = 1
    BY FieldSizes
  <2> QED
    BY <2>1, <2>2
<1>5. ids = <<>>
  BY DEF WordInit, Init
<1> QED
  BY <1>1, <1>3, <1>4, <1>5, SpellingsAreNumerals DEF WordsSound, WordsAgree

LEMMA WordMakeSound ==
    ASSUME WordsSound, NEW reading \in Readings, WordMake(reading)
    PROVE  WordsSound'
<1> DEFINE last == state[index]
           w == words[index]
           step == Step(ProtectedTime(reading, last), last)
           made == StepWord(ProtectedWord(NowWord(reading), LastWord(w)), w)
<1>1. /\ ids \in Seq(IdSet) /\ index \in ShardIndexes
      /\ state \in [ShardIndexes -> [time : Times, counter : Counters]]
      /\ words \in [ShardIndexes -> WordSet]
      /\ \A s \in ShardIndexes :
           Value(words[s]) = state[s].time * (CounterMask + 1) + state[s].counter
  BY DEF WordsSound, TypeOK, WordsAgree
<1>2. /\ last \in [time : Times, counter : Counters] /\ w \in WordSet
      /\ Value(w) = last.time * (CounterMask + 1) + last.counter
  BY <1>1
<1>3. /\ state' = [state EXCEPT ![index] = StateOf(step)]
      /\ ids' = Append(ids, IdOf(index, step))
      /\ index' = (index + 1) % Shards
      /\ words' = [words EXCEPT ![index] = StateWord(made)]
      /\ muid' = IdWord(index, made)
  BY DEF WordMake, Make, NextStep, NextWord
<1> HIDE DEF last, w
<1>4. /\ step.time \in Nat /\ step.counter \in Counters
      /\ made.now \in WordSet /\ Value(made.now) = step.time
      /\ made.counter \in WordSet /\ Value(made.counter) = step.counter
  BY <1>2, StepWordFields
<1> HIDE DEF step, made
<1>5. /\ StateWord(made) \in WordSet
      /\ Value(StateWord(made)) = (step.time % TimeWrap) * (CounterMask + 1) + step.counter
  BY <1>4, StateWordValue
<1>6. /\ IdWord(index, made) \in WordSet
      /\ Value(IdWord(index, made)) = PackFields(IdOf(index, step))
  BY <1>1, <1>4, IdWordValue
<1>7. /\ StateOf(step) \in [time : Times, counter : Counters]
      /\ StateOf(step).time = step.time % TimeWrap /\ StateOf(step).counter = step.counter
      /\ IdOf(index, step) \in IdSet
  <2>1. step.time % TimeWrap \in Times /\ step.time % Timestamps \in 0..(Timestamps - 1)
    BY <1>4, FieldSizes, Division
  <2> QED
    BY <1>1, <1>4, <2>1 DEF StateOf, IdOf, IdSet
<1>8. TypeOK'
  BY <1>1, <1>3, <1>7, TurnStays, ShardsAssumption DEF TypeOK
<1>9. words' \in [ShardIndexes -> WordSet] /\ muid' \in WordSet
  BY <1>1, <1>3, <1>5, <1>6
<1>10. ASSUME NEW s \in ShardIndexes
       PROVE  Value(words'[s]) = state'[s].time * (CounterMask + 1) + state'[s].counter
  <2>1. CASE s = index
    <3>1. words'[s] = StateWord(made) /\ state'[s] = StateOf(step)
      BY <1>1, <1>3, <2>1
    <3> QED
      BY <1>5, <1>7, <3>1
  <2>2. CASE s # index
    <3>1. words'[s] = words[s] /\ state'[s] = state[s]
      BY <1>1, <1>3, <2>2
    <3> QED
      BY <1>1, <3>1
  <2> QED
    BY <2>1, <2>2
<1>11. Value(muid') = PackFields(Last(ids'))
  <2>1. Last(ids') = IdOf(index, step)
    BY <1>1, <1>3, <1>7 DEF Last
  <2> QED
    BY <1>3, <1>6, <2>1
<1>12. \A spelling \in Spellings(muid') :
         spelling.digits = Numeral(Value(muid'), spelling.radix)
  BY <1>9, SpellingsAreNumerals
<1> QED
  BY <1>8, <1>9, <1>10, <1>11, <1>12 DEF WordsSound, WordsAgree

(* At each draw the words hold the fields, and their spellings are         *)
(* numerals: the arithmetic in halves, the masks and the shifts lose       *)
(* nothing (muid.ts:32-199, 419-463).                                      *)
THEOREM WordsHoldFields == WordSpec => []WordsAgree
<1>1. WordsSound /\ [WordNext]_wordVars => WordsSound'
  <2> SUFFICES ASSUME WordsSound, [WordNext]_wordVars PROVE WordsSound'
    OBVIOUS
  <2>1. CASE WordNext
    BY <2>1, WordMakeSound DEF WordNext
  <2>2. CASE UNCHANGED wordVars
    BY <2>2 DEF wordVars, vars, WordsSound, TypeOK, WordsAgree
  <2> QED
    BY <2>1, <2>2
<1>2. WordsSound => WordsAgree
  BY DEF WordsSound
<1> QED
  BY <1>1, <1>2, WordInitSound, PTL DEF WordSpec
=============================================================================
