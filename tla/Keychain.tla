------------------------------ MODULE Keychain ------------------------------
(***************************************************************************)
(* The non-native key of circuit-types/src/keychain.rs: a big unsigned     *)
(* integer held as KEY_WORDS scalar words of SCALAR_MAX_BYTES bytes each,  *)
(* and its conversions to and from an ed25519 public key.                  *)
(*                                                                         *)
(* Bytes are digits to the base ByteBase (256 in the code); the widths     *)
(* keep the code's relations: a scalar's buffer is one byte longer than a  *)
(* word, and the group order lies between the two.                         *)
(***************************************************************************)
EXTENDS Field, SequencesExt

CONSTANTS
    ByteBase,           \* the number of values of a byte
    SCALAR_MAX_BYTES,   \* bytes of a key held in one scalar (31)
    ScalarBufferBytes,  \* bytes of a scalar's buffer (32)
    GroupOrder,         \* the order of the Ristretto scalar field
    ROOT_KEY_WORDS,     \* words of a root key (2)
    PUBLIC_KEY_LENGTH   \* bytes of an ed25519 public key (32)

ASSUME
    /\ ByteBase \in Nat \ {0, 1}
    /\ ScalarBufferBytes = SCALAR_MAX_BYTES + 1
    /\ ByteBase ^ SCALAR_MAX_BYTES < GroupOrder
    /\ GroupOrder < ByteBase ^ ScalarBufferBytes
    /\ PUBLIC_KEY_LENGTH <= SCALAR_MAX_BYTES * ROOT_KEY_WORDS

-----------------------------------------------------------------------------
(* Bytes *)

\* BigUint::to_bytes_le: the digits, least significant first, without
\* trailing zeros; zero is one zero byte.
RECURSIVE ToBytesLe(_)
ToBytesLe(val) ==
    IF val < ByteBase THEN <<val>>
    ELSE <<val % ByteBase>> \o ToBytesLe(val \div ByteBase)

\* BigUint::from_bytes_le.
FromBytesLe(bytes) ==
    FoldRight(LAMBDA byte, acc : byte + ByteBase * acc, bytes, 0)

\* slice::chunks: consecutive chunks of size bytes, the last one shorter.
RECURSIVE Chunks(_, _)
Chunks(bytes, size) ==
    IF Len(bytes) <= size THEN IF bytes = <<>> THEN <<>> ELSE <<bytes>>
    ELSE <<SubSeq(bytes, 1, size)>> \o Chunks(SubSeq(bytes, size + 1, Len(bytes)), size)

\* iter.chain(repeat(pad)).take(n): pad a short sequence, cut a long one.
PadTake(seq, pad, n) == [i \in 1..n |-> IF i <= Len(seq) THEN seq[i] ELSE pad]

\* Scalar::from_bytes_mod_order and Scalar::to_bytes.
ScalarFromBytesModOrder(bytes_buf) == FromBytesLe(bytes_buf) % GroupOrder
ScalarToBytes(scalar) == PadTake(ToBytesLe(scalar), 0, ScalarBufferBytes)

-----------------------------------------------------------------------------
(* Mutated forms *)

\* The split that does not fill the key up with zero words.
SplitWithoutZeroWords(val, KEY_WORDS) ==
    LET chunks == Chunks(ToBytesLe(val), SCALAR_MAX_BYTES)
    IN  [i \in DOMAIN chunks |->
            ScalarFromBytesModOrder(PadTake(chunks[i], 0, ScalarBufferBytes))]

\* The words put back together from their whole buffers.
CombineWholeBuffers(key_words) ==
    FromBytesLe(FlattenSeq([i \in DOMAIN key_words |-> ScalarToBytes(key_words[i])]))

-----------------------------------------------------------------------------
(* NonNativeKey *)

\* split_biguint_into_words: one scalar for every chunk of SCALAR_MAX_BYTES
\* bytes, then zero words up to KEY_WORDS, and no word past KEY_WORDS.
SplitBiguintIntoWords(val, KEY_WORDS) ==
    LET chunks == Chunks(ToBytesLe(val), SCALAR_MAX_BYTES)
        words == [i \in DOMAIN chunks |->
                    ScalarFromBytesModOrder(PadTake(chunks[i], 0, ScalarBufferBytes))]
    IN  PadTake(words, 0, KEY_WORDS)

\* combine_words_into_biguint: the low SCALAR_MAX_BYTES bytes of every word.
CombineWordsIntoBiguint(key_words) ==
    FromBytesLe(FlattenSeq([i \in DOMAIN key_words |->
        SubSeq(ScalarToBytes(key_words[i]), 1, SCALAR_MAX_BYTES)]))

\* Serialize and Deserialize: the key travels as the hex string of its
\* big integer; the string itself is the integer it spells.
SerializeKey(key_words) == CombineWordsIntoBiguint(key_words)
DeserializeKey(val, KEY_WORDS) == SplitBiguintIntoWords(val, KEY_WORDS)

\* From<&NonNativeKey> for DalekKey: the key's bytes without trailing zeros
\* go to DalekKey::from_bytes, which takes PUBLIC_KEY_LENGTH bytes and no
\* other number, and the result is unwrapped.
DalekKeyFromNonNative(key_words) ==
    LET key_bytes == ToBytesLe(CombineWordsIntoBiguint(key_words))
    IN  IF Len(key_bytes) = PUBLIC_KEY_LENGTH THEN Ok(key_bytes) ELSE Panic

\* From<DalekKey> for NonNativeKey.
NonNativeFromDalekKey(key_bytes, KEY_WORDS) ==
    SplitBiguintIntoWords(FromBytesLe(key_bytes), KEY_WORDS)

=============================================================================
