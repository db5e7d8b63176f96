------------------------------ MODULE TokenHash ------------------------------
(***************************************************************************)
(* TokenHasher::hash_tokens_with_blocks_all: the token sequence is cut in  *)
(* blocks, and the hash of a block is the digest of the hash before it and *)
(* of the block's tokens, written as bytes in the way of the algorithm.    *)
(*                                                                         *)
(* SHA-256 is an ideal digest: it gives each byte string it has not seen   *)
(* yet a digest that no other string has.  (The builtin algorithm is left  *)
(* out: hash_tokens_with_blocks_all panics with it.)                       *)
(***************************************************************************)
EXTENDS Naturals, SequencesExt

CONSTANTS
    BlockSize,   \* config.block_size
    Width,       \* bytes of a digest: 32 in the code
    Digest,      \* digests the ideal SHA-256 may give
    SeedDigest,  \* the digest of the seed
    Inputs       \* token sequences tried

VARIABLES
    algorithm,   \* "sha256", "cbor" or "cross_language"
    unfull,      \* unfull_chunk
    tokens,      \* [1 .. 2 -> token sequence]
    out,         \* [1 .. 2 -> hash and offset of its blocks so far]
    seen,        \* what has been digested: [written, hash]
    fed          \* history: what the last block was hashed from

hashingVars == <<algorithm, unfull, tokens, out, seen, fed>>

-----------------------------------------------------------------------------
(* Integers as bytes.  No value here needs more than 32 bits.              *)
Weight == <<1, 256, 65536, 16777216>>

IsU32(v) == v \in Nat /\ v \div 65536 < 65536

Byte(v, i) == IF i \in DOMAIN Weight THEN (v \div Weight[i]) % 256 ELSE 0

LittleEndian(v, n) == [i \in 1 .. n |-> Byte(v, i)]

BigEndian(v, n) == Reverse(LittleEndian(v, n))

Zeros(n) == [i \in 1 .. n |-> 0]

(* The tokens one after the other, four bytes each.                        *)
U32s(ts) ==
    [n \in 1 .. 4 * Len(ts) |-> Byte(ts[((n - 1) \div 4) + 1], ((n - 1) % 4) + 1)]

(* sha256_hash: the bincode of Some(prefix), the tokens and None.          *)
Bincode(prefix, ts) ==
    <<1>> \o LittleEndian(Len(prefix), 8) \o prefix
          \o LittleEndian(Len(ts), 8) \o U32s(ts) \o <<0>>

(* cbor_write_major_u64.                                                   *)
(* A wrong one in which a value of 24 still fits in the head.              *)
ShortUpTo24(major, v) ==
    IF v <= 24 THEN <<32 * major + v>> ELSE <<32 * major + 26>> \o BigEndian(v, 4)

cbor_write_major_u64(major, v) ==
    CASE v <= 23                -> <<32 * major + v>>
      [] v > 23 /\ v <= 255      -> <<32 * major + 24>> \o BigEndian(v, 1)
      [] v > 255 /\ v <= 65535   -> <<32 * major + 25>> \o BigEndian(v, 2)
      [] v > 65535              -> <<32 * major + 26>> \o BigEndian(v, 4)

(* sha256_cbor_hash: the array of the prefix, the tokens and no keys.      *)
Cbor(prefix, ts) ==
    cbor_write_major_u64(4, 3)
      \o cbor_write_major_u64(2, Len(prefix)) \o prefix
      \o cbor_write_major_u64(4, Len(ts))
      \o FlattenSeq([i \in DOMAIN ts |-> cbor_write_major_u64(0, ts[i])])
      \o cbor_write_major_u64(4, 0)

(* The integer of the bytes, without its leading zeros, filled up at the   *)
(* end.  The integer 0 is one byte.                                        *)
ZeroLed(bytes) == bytes[1] = 0

Normalised(bytes) ==
    LET digits == { i \in DOMAIN bytes : bytes[i] # 0 }
        first == IF digits = {} THEN Len(bytes) ELSE Min(digits)
    IN  SubSeq(bytes, first, Len(bytes)) \o Zeros(first - 1)

CrossLanguage(prefix, ts) == Normalised(prefix) \o U32s(ts)

Written(prefix, ts) ==
    CASE algorithm = "sha256" -> Bincode(prefix, ts)
      [] algorithm = "cbor" -> Cbor(prefix, ts)
      [] algorithm = "cross_language" -> CrossLanguage(prefix, ts)

-----------------------------------------------------------------------------
Bytes == [1 .. Width -> 0 .. 255]

(* Tokens are u32, the block size fits in one, and the ideal digest gives  *)
(* no other string the digest of the seed.                                 *)
HashingAssumption ==
    /\ IsU32(BlockSize) /\ BlockSize # 0
    /\ Width \in 1 .. 255
    /\ Digest \subseteq Bytes /\ SeedDigest \in Bytes \ Digest
    /\ \A ts \in Inputs : ts \in Seq(Nat) /\ \A i \in DOMAIN ts : IsU32(ts[i])

(* tokens.chunks(block_size)                                               *)
Chunks(k) == (Len(tokens[k]) + BlockSize - 1) \div BlockSize

Chunk(k, i) ==
    SubSeq(tokens[k], (i - 1) * BlockSize + 1, Min({i * BlockSize, Len(tokens[k])}))

(* compute_none_hash                                                       *)
NoneHash == IF algorithm = "cross_language" THEN Zeros(Width) ELSE SeedDigest

(* A wrong chain that starts anew with every block.                        *)
AlwaysNone(k) == NoneHash

current_hash(k) == IF out[k] = <<>> THEN NoneHash ELSE Last(out[k]).hash

(* The last chunk counts only if it is full or unfull_chunk is set.        *)
More(k) ==
    LET i == Len(out[k]) + 1
    IN  /\ i <= Chunks(k)
        /\ i = Chunks(k) /\ Len(Chunk(k, i)) < BlockSize => unfull

(* A wrong offset: where the block ends in the sequence.                   *)
EndOf(k, chunk) == Len(out[k]) * BlockSize + Len(chunk)

(* The offset of a TokenBlock is the number of tokens in it.               *)
offset(k, chunk) == Len(chunk)

HashBlock(k, digest) ==
    LET chunk == Chunk(k, Len(out[k]) + 1)
        written == Written(current_hash(k), chunk)
    IN  /\ More(k)
        /\ k = 2 => ~More(1)
        /\ \/ [written |-> written, hash |-> digest] \in seen
           \/ \A s \in seen : s.written # written /\ s.hash # digest
        /\ seen' = seen \union {[written |-> written, hash |-> digest]}
        /\ out' = [out EXCEPT ![k] = Append(@, [hash |-> digest, offset |-> offset(k, chunk)])]
        /\ fed' = [prefix |-> current_hash(k), chunk |-> chunk, written |-> written]
        /\ UNCHANGED <<algorithm, unfull, tokens>>

HashingInit ==
    /\ algorithm \in {"sha256", "cbor", "cross_language"}
    /\ unfull \in BOOLEAN
    /\ tokens \in [1 .. 2 -> Inputs]
    /\ out = [k \in 1 .. 2 |-> <<>>]
    /\ seen = {}
    /\ fed = <<>>

HashNext(k) == \E digest \in Digest : HashBlock(k, digest)

HashingNext == \E k \in 1 .. 2 : HashNext(k)

HashingSpec == HashingInit /\ [][HashingNext]_hashingVars

-----------------------------------------------------------------------------
(* A reader of CBOR, after RFC 8949, for what the hasher writes: major     *)
(* type, value and the bytes after the head.                               *)
BigEndianValue(bytes) ==
    LET value[i \in 0 .. Len(bytes)] ==
            IF i = 0 THEN 0 ELSE 256 * value[i - 1] + bytes[i]
    IN  value[Len(bytes)]

(* The bytes of the value after a head: how many it says there are.        *)
ValueSize(info) ==
    CASE info < 24 -> 0 [] info = 24 -> 1 [] info = 25 -> 2 [] info = 26 -> 4

ReadHead(s) ==
    LET info == s[1] % 32
        size == ValueSize(info)
    IN  [major |-> s[1] \div 32,
         value |-> IF size = 0 THEN info ELSE BigEndianValue(SubSeq(s, 2, 1 + size)),
         rest  |-> SubSeq(s, size + 2, Len(s))]

(* The n unsigned integers at the start of s, and the rest.                *)
ReadInts(s, n) ==
    LET read[i \in 0 .. n] ==
            IF i = 0 THEN [ints |-> <<>>, rest |-> s]
            ELSE LET head == ReadHead(read[i - 1].rest)
                 IN  [ints |-> Append(read[i - 1].ints, head.value), rest |-> head.rest]
    IN  read[n]

ReadCbor(s) ==
    LET tuple  == ReadHead(s)
        prefix == ReadHead(tuple.rest)
        array  == ReadHead(SubSeq(prefix.rest, prefix.value + 1, Len(prefix.rest)))
        ints   == ReadInts(array.rest, array.value)
    IN  [prefix |-> SubSeq(prefix.rest, 1, prefix.value), chunk |-> ints.ints,
         rest |-> ints.rest]

-----------------------------------------------------------------------------
HashingTypeOK ==
    /\ algorithm \in {"sha256", "cbor", "cross_language"} /\ unfull \in BOOLEAN
    /\ tokens \in [1 .. 2 -> Inputs]
    /\ \A k \in 1 .. 2 : \A i \in DOMAIN out[k] :
          out[k][i].hash \in Digest /\ out[k][i].offset \in 1 .. BlockSize
    /\ \A s \in seen : \A i \in DOMAIN s.written : s.written[i] \in 0 .. 255

(* The hash of a block names the prefix that ends with it: two blocks of   *)
(* any two token sequences have the same hash exactly if they are at the   *)
(* same place and all tokens up to their ends agree.  Only the cross       *)
(* language algorithm may give other blocks the same hash, after a hash    *)
(* that starts with a zero byte (hash.rs:367-414, 447-461).                *)
HashNamesPrefix ==
    \A k, l \in 1 .. 2 : \A i \in DOMAIN out[k], j \in DOMAIN out[l] :
        LET same == i = j /\ \A n \in 1 .. i : Chunk(k, n) = Chunk(l, n)
            zeroLed == \/ \E n \in 1 .. i - 1 : ZeroLed(out[k][n].hash)
                       \/ \E n \in 1 .. j - 1 : ZeroLed(out[l][n].hash)
        IN  /\ same => out[k][i].hash = out[l][j].hash
            /\ out[k][i].hash = out[l][j].hash =>
                   same \/ (algorithm = "cross_language" /\ zeroLed)

(* What is digested with CBOR reads back, by the rules of CBOR, as the     *)
(* prefix and the tokens, with an empty array after them: other engines    *)
(* that digest the same tuple get the same hash (hash.rs:283-353).         *)
CborReadsBack ==
    algorithm = "cbor" /\ fed # <<>> =>
        ReadCbor(fed.written) = [prefix |-> fed.prefix, chunk |-> fed.chunk, rest |-> <<128>>]
=============================================================================
