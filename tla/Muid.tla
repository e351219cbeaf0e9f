-------------------------------- MODULE Muid --------------------------------
(***************************************************************************)
(* The generator of the ids that name registered objects and instructions  *)
(* (src/src/muid.ts).  make() asks the shards in turn; each shard is a     *)
(* Generator with a state of its own, made of a timestamp and a counter    *)
(* within that millisecond.                                                *)
(*                                                                         *)
(* Words are kept as their bit fields.  The id's fields do not overlap     *)
(* because the counter stays within its mask; the machine field is the     *)
(* same in all ids of a process and is left out here.  The counter's width *)
(* is what the timestamp, machine and shard fields leave of the word, so   *)
(* an id keeps Timestamps values of the time and a state TimeWrap values.  *)
(*                                                                         *)
(* Date.now() may return anything, the clock may step back.                *)
(***************************************************************************)
EXTENDS Integers, Sequences

CONSTANTS
    Readings,    \* what Date.now() may return
    Epoch,       \* config.epoch
    Word,        \* 2^64
    Timestamps,  \* 2^timestampBitLen
    TimeWrap,    \* 2^(64 - counterBitLen)
    CounterMask, \* counterBitMask, 2^counterBitLen - 1
    Shards,      \* the number of generators, a power of two
    MaxDraws     \* bound: how many ids are drawn

ASSUME ReadingsAssumption == Readings \subseteq Nat /\ Epoch \in Nat
ASSUME WidthsAssumption ==
    /\ Word \in Nat /\ TimeWrap \in Nat /\ Timestamps \in Nat \ {0}
    /\ Timestamps <= TimeWrap /\ TimeWrap <= Word
    /\ CounterMask \in Nat \ {0}
ASSUME ShardsAssumption == Shards \in Nat \ {0}
ASSUME DrawsAssumption == MaxDraws \in Nat

VARIABLES
    state,  \* Generator.state of each shard: its time and counter
    index,  \* ShardedGenerators.index
    ids     \* the ids drawn so far, in order

vars == <<state, index, ids>>

ShardIndexes == 0..(Shards - 1)

Init ==
    /\ state = [s \in ShardIndexes |-> [time |-> 0, counter |-> 1]]
    /\ index = 0
    /\ ids = <<>>

(* sub64(now, epoch): before the epoch it wraps. *)
SinceEpoch(reading) == (reading - Epoch) % Word

(* "Protect against clock moving backwards" *)
ProtectedTime(reading, last) ==
    IF SinceEpoch(reading) < last.time THEN last.time ELSE SinceEpoch(reading)

(* Mutant: the full counter starts again within the millisecond. *)
StepWithinMillisecond(now, last) ==
    IF now # last.time \/ last.counter >= CounterMask
      THEN [time |-> now, counter |-> 1]
      ELSE [time |-> now, counter |-> last.counter + 1]

(* The time and counter that follow: count within a millisecond, start at  *)
(* one in another, and when the counter is full take a millisecond that    *)
(* has not begun yet.                                                      *)
Step(now, last) ==
    IF now # last.time THEN [time |-> now, counter |-> 1]
    ELSE IF last.counter >= CounterMask THEN [time |-> (now + 1) % Word, counter |-> 1]
    ELSE [time |-> now, counter |-> last.counter + 1]

(* Shifts keep the low bits: each field holds what fits. *)
StateOf(step) == [time |-> step.time % TimeWrap, counter |-> step.counter]

(* Mutant: the shard is left out of the id. *)
IdWithoutShard(s, step) ==
    [time |-> step.time % Timestamps, shard |-> 0, counter |-> step.counter]

IdOf(s, step) == [time |-> step.time % Timestamps, shard |-> s, counter |-> step.counter]

NextStep(reading) == Step(ProtectedTime(reading, state[index]), state[index])

(* make(): the next shard's id(). *)
Make(reading) ==
    /\ Len(ids) < MaxDraws
    /\ state' = [state EXCEPT ![index] = StateOf(NextStep(reading))]
    /\ ids' = Append(ids, IdOf(index, NextStep(reading)))
    /\ index' = (index + 1) % Shards

Next == \E reading \in Readings : Make(reading)

Spec == Init /\ [][Next]_vars

-----------------------------------------------------------------------------

Times == 0..(TimeWrap - 1)
Counters == 1..CounterMask
IdSet == [time : 0..(Timestamps - 1), shard : ShardIndexes, counter : Counters]

TypeOK ==
    /\ state \in [ShardIndexes -> [time : Times, counter : Counters]]
    /\ index \in ShardIndexes
    /\ ids \in Seq(IdSet)

(* The clock is at or past the epoch and far enough from the end of the    *)
(* timestamp field (69 years after it) that counters that overflow, at     *)
(* worst once a draw, do not carry a shard's time over it.                 *)
ClockFits ==
    /\ MaxDraws < Timestamps
    /\ \A reading \in Readings : Epoch <= reading /\ reading - Epoch + MaxDraws < Timestamps

(* A shard's time stays within the timestamp field. *)
TimeFits == \A s \in ShardIndexes : state[s].time + (MaxDraws - Len(ids)) < Timestamps

(* Of two draws of a shard, by time and then by counter. *)
Before(a, b) == a.time < b.time \/ (a.time = b.time /\ a.counter < b.counter)

(* A shard's state is at or past every id it has drawn. *)
StateIsLatest ==
    \A i \in 1..Len(ids) : ~Before(state[ids[i].shard], ids[i])

(* The ids of one shard increase from draw to draw, whatever the clock     *)
(* does: a step back, a burst that overflows the counter, a clock that     *)
(* catches up with the time taken in advance (muid.ts:432-449).            *)
ShardIdsIncrease ==
    \A i, j \in 1..Len(ids) :
        i < j /\ ids[i].shard = ids[j].shard => Before(ids[i], ids[j])

(* The inductive invariant, for a clock that fits. *)
MuidSound ==
    /\ TypeOK
    /\ TimeFits
    /\ StateIsLatest
    /\ ShardIdsIncrease

(* No id is drawn twice, by one shard or by two: what ObjectRegistry takes *)
(* for granted of the ids it draws (registry.ts:21).                       *)
IdsUnique == \A i, j \in 1..Len(ids) : ids[i] = ids[j] => i = j
=============================================================================
