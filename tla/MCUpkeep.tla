------------------------------ MODULE MCUpkeep ------------------------------
(***************************************************************************)
(* Seven parts that have nothing to do with each other, each on its own:    *)
(* which one steps is decided once and for all by part.                    *)
(***************************************************************************)
EXTENDS GasSchedule, MCMigration, Guardians, MetadataIntervals, TransferParsing,
        MCNftCreateRole, ShardCreators

CONSTANTS t1, t2, m0, m1

-----------------------------------------------------------------------------
(* Gas: one function of each kind.                                         *)

MCLockOf == [f \in Functions |->
               CASE f = "DCDTTransfer" -> "shared"
                 [] f = "GuardAccount" -> "exclusive"
                 [] f = "MigrateDataTrie" -> "copied"]

-----------------------------------------------------------------------------
(* Intervals: words of five bits, counts that do not fit their list, and   *)
(* those that wrap.                                                        *)

Interval(m, n) == [first |-> m, last |-> n]
SomeIntervals ==
  {Interval(1, 1), Interval(1, 2), Interval(2, 1), Interval(0, 1), Interval(2, MaxWord)}
Groups(token, counts, length) ==
  [token: {token}, count: counts, list: BoundedSeq(SomeIntervals, length)]

MCRequests ==
  [groups: {<<g>> : g \in Groups(14, {0, 1, 2, 13, 16}, 2)}
             \cup {<<g, h>> : g \in Groups(14, {0, 1, 16}, 1), h \in Groups(13, {0, 1, 2}, 1)},
   spare: 0..1]

-----------------------------------------------------------------------------
(* Parsing: a user 20 and a contract c1 on shard 1, a contract d1 on shard *)
(* 2.  The data has lists of one and two tokens, counts that fit them and  *)
(* counts that do not, values with leading zeros and values of more than   *)
(* 32 bytes, destinations that are no addresses, calls with and without    *)
(* arguments, and an argument that is empty where the function should be.  *)

c1 == 22
d1 == 23
MCShardOfAddress == [x \in Addresses |-> IF x = d1 THEN 2 ELSE 1]

TokenName == Bytes(7, 10)
FunctionName == Bytes(8, 3)
Empty == Bytes(0, 0)
Calls == {<<>>, <<FunctionName>>, <<FunctionName, Empty>>, <<Empty, FunctionName>>}
Huge == NumberBytes(TwoTo256)
Values == {NumberBytes(1), NumberBytes(2), Bytes(2, 40), Huge}
Destinations == {AddressBytes(x) : x \in Addresses} \cup {Bytes(3, 1)}
WithCall(function, lists) ==
  [function: {function}, args: {l \o c : l \in lists, c \in Calls}]

Items == {<<TokenName, Bytes(n, 1), v>> : n \in {0, 1}, v \in Values}
           \cup {<<TokenName, Bytes(TwoTo64 + 1, 9), NumberBytes(2)>>}
SecondItems == {<<TokenName, Bytes(1, 1), v>> : v \in {NumberBytes(2), Huge}}
ItemLists == Items \cup {i \o j : i \in Items, j \in SecondItems}

MCData ==
  WithCall("DCDTTransfer",
    {<<TokenName>>} \cup {<<TokenName, v>> : v \in Values \cup {ZeroByteArray}})
  \cup WithCall("DCDTNFTTransfer",
    {<<TokenName, n, v, x>> : n \in {ZeroByteArray, Bytes(1, 1), Bytes(TwoTo64 + 1, 9)},
                              v \in Values \cup {ZeroByteArray}, x \in Destinations})
  \cup WithCall("MultiDCDTNFTTransfer",
    {<<x, NumberBytes(n)>> \o l : x \in Destinations, n \in 0..2, l \in ItemLists})

-----------------------------------------------------------------------------
(* Creators: nonces of three bits and last bytes of one, so that the two   *)
(* ranges meet, and one begins at zero.                                    *)

MCLastByte == [a \in {m0, m1} |-> IF a = m0 THEN 0 ELSE 1]

-----------------------------------------------------------------------------
VARIABLE part

UpkeepInit ==
  /\ part \in {"gas", "migration", "guardians", "intervals", "parsing", "creator", "creators"}
  /\ GasInit /\ MigrationInit /\ GuardInit /\ IntervalsInit /\ ParsingInit
  /\ Init /\ ShardInit
  /\ part # "migration" => builtInCost = CHOOSE p \in Prices : TRUE

creatorVars == <<vars, shardVars>>

GasPart ==
  part = "gas" /\ GasNext
  /\ UNCHANGED <<part, migrationVars, guardVars, intervalVars, parsingVars, creatorVars>>
MigrationPart ==
  part = "migration" /\ MigrationNext
  /\ UNCHANGED <<part, gasVars, guardVars, intervalVars, parsingVars, creatorVars>>
\* The last epoch of the instance does not end.
GuardiansPart ==
  part = "guardians" /\ (GuardNext \/ (currentEpoch = MaxEpoch /\ UNCHANGED guardVars))
  /\ UNCHANGED <<part, gasVars, migrationVars, intervalVars, parsingVars, creatorVars>>
IntervalsPart ==
  part = "intervals" /\ IntervalsNext
  /\ UNCHANGED <<part, gasVars, migrationVars, guardVars, parsingVars, creatorVars>>
ParsingPart ==
  part = "parsing" /\ ParsingNext
  /\ UNCHANGED <<part, gasVars, migrationVars, guardVars, intervalVars, creatorVars>>
\* A collection with one creator, whose role moves
CreatorPart ==
  part = "creator" /\ Next
  /\ UNCHANGED <<part, gasVars, migrationVars, guardVars, intervalVars, parsingVars, shardVars>>
\* A collection with creators on several shards
CreatorsPart ==
  part = "creators" /\ ShardNext
  /\ UNCHANGED <<part, gasVars, migrationVars, guardVars, intervalVars, parsingVars, vars>>

UpkeepNext ==
  \/ GasPart \/ MigrationPart \/ GuardiansPart \/ IntervalsPart \/ ParsingPart
  \/ CreatorPart \/ CreatorsPart

UpkeepSpec ==
  /\ UpkeepInit
  /\ [][UpkeepNext]_<<part, gasVars, migrationVars, guardVars, intervalVars, parsingVars,
                      creatorVars>>
  /\ GasFairness /\ IntervalsFairness /\ Fairness

\* Every part keeps its types (the type invariants of the seven modules).
UpkeepTypeOK ==
  /\ GasTypeOK /\ MigrationTypeOK /\ GuardTypeOK /\ IntervalsTypeOK /\ ParsingTypeOK
  /\ TypeOK /\ ShardTypeOK
=============================================================================
