---------------------------- MODULE ShardManager ----------------------------
(***************************************************************************)
(* Placement of orders on database shards (loms shardmanager).  A new      *)
(* order goes to the shard its user hashes to; later requests carry only   *)
(* the order id, and the shard is read back from the id's last three       *)
(* decimal digits.  Two shards may be configured on one database.          *)
(***************************************************************************)
EXTENDS Integers

CONSTANTS
    Users,      \* user ids
    Hash,       \* murmur3.Sum32 of a user's key
    NShards,    \* length of the configured list of shard pools
    Dbs,        \* databases behind the pools
    Shards      \* the list of shard pools: shard index -> database

MaxShards == 1000

ShardIndexes == 0 .. (NShards - 1)

ASSUME ShardCountAssumption == NShards \in 1 .. MaxShards
ASSUME UsersAssumption == Users \subseteq Int
ASSUME HashAssumption == Hash \in [Users -> Nat]
ASSUME ShardsAssumption == Shards \in [ShardIndexes -> Dbs]

GetShardIndexByKey(user) == Hash[user] % NShards

\* Taken as it is written: prevId is expected to be a multiple of MaxShards.
GenerateUniqId(prevId, index) == prevId + MaxShards + index

\* Go's remainder has the sign of the dividend.
GetShardIndexFromId(id) == IF id >= 0 THEN id % 1000 ELSE -((-id) % 1000)

\* Pick answers ErrShardIndexOutOfRange unless InRange(index); a negative index
\* passes, and panics.
InRange(index) == index < NShards
Pick(index) == Shards[index]

\* Mutant: the last id is taken as it is, its own shard digits included.
GeneratedIdsUnaligned(ids, index) ==
    IF ids = {}
    THEN {GenerateUniqId(MaxShards, index)}
    ELSE {GenerateUniqId(last, index) : last \in {m \in ids : \A n \in ids : n <= m}}

\* generateId of ordersrepo: ids is the set of ids the statement sees.  It
\* looks at the greatest one, whatever shard that order belongs to.
GeneratedIds(ids, index) ==
    IF ids = {}
    THEN {GenerateUniqId(MaxShards, index)}
    ELSE {GenerateUniqId(last - (last % MaxShards), index) :
             last \in {m \in ids : \A n \in ids : n <= m}}
=============================================================================
