----------------------------- MODULE Algorithms -----------------------------
(***************************************************************************)
(* The sequential code of the circuit crates, the wallet and the chain     *)
(* clients, run call by call: the match result and its openings, the       *)
(* Merkle opening gadget, the default authentication paths, the non-native *)
(* key, the circuit_type macro and the methods it derives, the wallet and  *)
(* the Poseidon hash inputs.                                               *)
(*                                                                         *)
(* One behaviour is one use of the code: an operation, its argument, and   *)
(* the results of the functions the use calls, one step for each call and  *)
(* in the order a caller makes them (a proof is made and then verified, a  *)
(* value is serialised and then read back, a wallet is reblinded again and *)
(* again).  A behaviour ends when the last call has returned.              *)
(***************************************************************************)
EXTENDS Merkle, MatchResult, Wallet

CONSTANTS
    Inputs(_),          \* the arguments an operation is called with
    MaxReblinds         \* bound on the reblinds of one wallet

ASSUME MaxReblinds \in Nat \ {0}

VARIABLES
    call                \* [op, arg, res]: the use, and the results so far

vars == <<call>>

Ops ==
    {"open", "open_and_authenticate", "commit", "authenticated_scalars",
     "merkle", "default_path", "chain", "chain_str", "key", "dalek_key", "scalars",
     "serde", "randomness", "macro", "generics", "reblind", "circuit_wallet",
     "remove_default_elements",
     "balance_and_fee", "commitments", "indexmap", "wallet_hash", "order_hash",
     "match_hash"}

arg == call.arg
res == call.res

\* The use is op and stage of its calls have returned.
At(op, stage) == call.op = op /\ Len(res) = stage

\* The next call returns value.
Return(value) == call' = [call EXCEPT !.res = Append(@, value)]

-----------------------------------------------------------------------------
(* Match result *)

OpenMatch ==
    /\ At("open", 0)
    /\ Return(Open(arg.match_res, arg.fabric))

OpenAndAuthenticateMatch ==
    /\ At("open_and_authenticate", 0)
    /\ Return(OpenAndAuthenticate(arg.match_res, arg.fabric))

CommitMatch ==
    /\ At("commit", 0)
    /\ Return(Commit(arg.match_res, arg.fabric))

\* The prover sends the commitments, the verifier commits to them.
SendCommitments ==
    /\ At("commit", 1)
    /\ IsOk(res[1])
    /\ Return(IntoCommitments(res[1].val[1].comm))

CommitMatchVerifier ==
    /\ At("commit", 2)
    /\ Return(CommitVerifier(res[1].val[1].comm))

FlattenMatch ==
    /\ At("authenticated_scalars", 0)
    /\ Return(IntoAuthenticatedScalars(arg.match_res))

RebuildMatch ==
    /\ At("authenticated_scalars", 1)
    /\ Return(TryFromAuthenticatedScalars(res[1]))

-----------------------------------------------------------------------------
(* Merkle opening and default paths *)

MerkleProve ==
    /\ At("merkle", 0)
    /\ Return(Prove(arg.witness, arg.statement))

MerkleVerify ==
    /\ At("merkle", 1)
    /\ Return(Verify(res[1].commitments, arg.statement, res[1].proof))

DarkpoolDefaultPath ==
    /\ At("default_path", 0)
    /\ arg.client = "darkpool"
    /\ Return(DarkpoolDefaultAuthenticationPath(arg.height))

StarknetDefaultPath ==
    /\ At("default_path", 0)
    /\ arg.client = "starknet"
    /\ Return(StarknetDefaultAuthenticationPath(arg.height))

\* A chain is named and the name read back; or a string is read.
DisplayChain ==
    /\ At("chain", 0)
    /\ Return(ChainDisplay(arg))

ParseDisplayedChain ==
    /\ At("chain", 1)
    /\ Return(ChainFromStr(res[1]))

ParseChain ==
    /\ At("chain_str", 0)
    /\ Return(ChainFromStr(arg))

-----------------------------------------------------------------------------
(* Non-native key *)

SplitKey ==
    /\ At("key", 0)
    /\ Return(SplitBiguintIntoWords(arg, ROOT_KEY_WORDS))

CombineKey ==
    /\ At("key", 1)
    /\ Return(CombineWordsIntoBiguint(res[1]))

\* The key is serialised and read back.
SerializeKeyWords ==
    /\ At("key", 2)
    /\ Return(DeserializeKey(SerializeKey(res[1]), ROOT_KEY_WORDS))

KeyFromDalek ==
    /\ At("dalek_key", 0)
    /\ Return(NonNativeFromDalekKey(arg, ROOT_KEY_WORDS))

KeyToDalek ==
    /\ At("dalek_key", 1)
    /\ Return(DalekKeyFromNonNative(res[1]))

-----------------------------------------------------------------------------
(* Derived methods *)

SerializeValue ==
    /\ At("scalars", 0)
    /\ Return(ToScalars(arg.ty, arg.value))

DeserializeValue ==
    /\ At("scalars", 1)
    /\ Return(FromScalars(arg.ty, res[1]))

SerdeSerializeValue ==
    /\ At("serde", 0)
    /\ Return(SerdeSerialize(arg.ty, arg.value))

\* The deserializer reads the vector that was written or a part of it, or
\* fails on what it is given.
SerdeDeserializeValue ==
    /\ At("serde", 1)
    /\ \E read \in {Ok(SubSeq(res[1], 1, received)) : received \in 0..Len(res[1])}
                  \cup {Err("SerializationError")} :
            Return(SerdeDeserialize(arg.ty, read))

DrawRandomness ==
    /\ At("randomness", 0)
    /\ Return(CommitmentRandomness(arg.ty, arg.value, arg.rng))

-----------------------------------------------------------------------------
(* The macro *)

ParseArgs ==
    /\ At("macro", 0)
    /\ Return(ParseMacroArgs(arg.parsed_args))

GenerateTypes ==
    /\ At("macro", 1)
    /\ IsOk(res[1])
    /\ Return(CircuitTypeImpl(arg.target_struct, res[1].val[1]))

MergeTwoGenerics ==
    /\ At("generics", 0)
    /\ Return(MergeGenerics(arg.generics1, arg.generics2))

FilterMerged ==
    /\ At("generics", 1)
    /\ IsOk(res[1])
    /\ Return(FilterGenerics(res[1].val[1], arg.generics1))

-----------------------------------------------------------------------------
(* Wallet *)

\* reblind_wallet on the wallet as the reblind before left it.
Reblind ==
    /\ call.op = "reblind"
    /\ Len(res) < MaxReblinds
    /\ Return(ReblindWallet(IF res = <<>> THEN arg ELSE Last(res)))

ConvertWallet ==
    /\ At("circuit_wallet", 0)
    /\ Return(IntoSizedCircuitWallet(arg))

RemoveDefaults ==
    /\ At("remove_default_elements", 0)
    /\ Return(RemoveDefaultElements(arg))

BalanceAndFee ==
    /\ At("balance_and_fee", 0)
    /\ Return(GetBalanceAndFeeForOrder(arg.wallet, arg.order))

Commitments ==
    /\ At("commitments", 0)
    /\ Return([private |-> GetPrivateShareCommitment(arg),
               shares |-> GetWalletShareCommitment(arg),
               nullifier |-> GetWalletNullifier(arg),
               needs_proof |-> NeedsNewCommitmentProof(arg)])

WriteIndexmap ==
    /\ At("indexmap", 0)
    /\ Return(SerializeIndexmap(arg))

ReadIndexmap ==
    /\ At("indexmap", 1)
    /\ Return(DeserializeIndexmap(res[1]))

-----------------------------------------------------------------------------
(* Poseidon hashes *)

\* The wallets of the argument are hashed one after the other; the second
\* with a sponge of its own, or with the sponge the first hash used.
HashFirstWallet ==
    /\ At("wallet_hash", 0)
    /\ Return(Evaluate(WalletHashInput(arg.wallets[1]), <<>>))

HashSecondWallet ==
    /\ At("wallet_hash", 1)
    /\ Return(Evaluate(WalletHashInput(arg.wallets[2]),
                       IF arg.reuse_sponge THEN res[1].sponge ELSE <<>>))

HashOrders ==
    /\ At("order_hash", 0)
    /\ Return(Evaluate(OrderHashInput(arg), <<>>))

HashMatches ==
    /\ At("match_hash", 0)
    /\ Return(Evaluate(MatchHashInput(arg), <<>>))

-----------------------------------------------------------------------------
Init ==
    \E op \in Ops : \E input \in Inputs(op) :
        call = [op |-> op, arg |-> input, res |-> <<>>]

Next ==
    \/ OpenMatch \/ OpenAndAuthenticateMatch
    \/ CommitMatch \/ SendCommitments \/ CommitMatchVerifier
    \/ FlattenMatch \/ RebuildMatch
    \/ MerkleProve \/ MerkleVerify
    \/ DarkpoolDefaultPath \/ StarknetDefaultPath
    \/ DisplayChain \/ ParseDisplayedChain \/ ParseChain
    \/ SplitKey \/ CombineKey \/ SerializeKeyWords
    \/ KeyFromDalek \/ KeyToDalek
    \/ SerializeValue \/ DeserializeValue
    \/ SerdeSerializeValue \/ SerdeDeserializeValue
    \/ DrawRandomness
    \/ ParseArgs \/ GenerateTypes
    \/ MergeTwoGenerics \/ FilterMerged
    \/ Reblind \/ ConvertWallet \/ RemoveDefaults \/ BalanceAndFee \/ Commitments
    \/ WriteIndexmap \/ ReadIndexmap
    \/ HashFirstWallet \/ HashSecondWallet \/ HashOrders \/ HashMatches

Spec == Init /\ [][Next]_vars

-----------------------------------------------------------------------------
(* Properties *)

Done(op, stages) == call.op = op /\ Len(res) >= stages

ErrorNames == {"none", "panic", "SerializationError", "OpeningError", "SharingError"}

\* The type invariant: a use is of a known operation; a fallible call
\* returns one value or a known error and never both; and a key that was
\* split (split_biguint_into_words) has ROOT_KEY_WORDS words, each a scalar
\* of the group.
TypeOK ==
    /\ call.op \in Ops
    /\ \A op \in {"open", "open_and_authenticate", "commit", "macro", "generics"} :
        Done(op, 1) =>
            /\ res[1].err \in ErrorNames
            /\ Len(res[1].val) = IF IsOk(res[1]) THEN 1 ELSE 0
    /\ Done("key", 1) =>
            /\ Len(res[1]) = ROOT_KEY_WORDS
            /\ \A i \in DOMAIN res[1] : res[1][i] \in 0..(GroupOrder - 1)

FieldsOfMatch == {"quote_mint", "base_mint", "quote_amount", "base_amount", "direction"}

\* A match that comes out of Open::open over a fabric that delivers, or
\* out of open_and_authenticate over any fabric, is the match the parties
\* shared: every field that fits a u64 has the value that was shared in that
\* field (match.rs, open, open_and_authenticate and TryFrom<&[u64]>).
OpenReturnsTheMatch ==
    /\ Done("open", 1) /\ arg.fabric = "delivered" => IsOk(res[1])
    /\ \/ Done("open", 1) /\ arg.fabric = "delivered"
       \/ Done("open_and_authenticate", 1) /\ IsOk(res[1])
       => \A f \in FieldsOfMatch :
            arg.match_res[f] < U64 => res[1].val[1][f] = arg.match_res[f]

\* The proof an honest prover makes for the opening of the leftmost leaf of
\* a tree verifies against the root of that tree, when the statement names
\* the height the opening has (merkle.rs, prove and verify: the verifier
\* finds the leaf and the opening among the commitments by that height).
MerkleLeftmostOpeningVerifies ==
    Done("merkle", 2)
    /\ arg.index = 0
    /\ LeafHash(arg.witness.leaf_data) = arg.tree[1]
    /\ arg.statement.tree_height = Len(arg.witness.opening) + 1
    => res[2] = "ok"

\* A proof verifies against the root of a tree only if the leaf it opens is
\* in the tree (merkle.rs, compute_and_constrain_root: the root computed
\* from the witness is constrained to the root of the statement).
MerkleOpeningIsSound ==
    Done("merkle", 2) /\ res[2] = "ok" =>
        \E i \in DOMAIN arg.tree : arg.tree[i] = LeafHash(arg.witness.leaf_data)

\* The default authentication path of the darkpool client is the opening of
\* a leaf of the tree whose leaves are all empty (darkpool-client
\* constants.rs, DEFAULT_AUTHENTICATION_PATH: the running value is hashed
\* with itself at every level).
DefaultPathOpensEmptyTree ==
    Done("default_path", 1) /\ arg.client = "darkpool" =>
        \A index \in 0..(2 ^ arg.height - 1) :
            res[1] = AuthPath(EmptyTree(EMPTY_LEAF_VALUE, arg.height), index)

\* A key that fits ROOT_KEY_WORDS words of SCALAR_MAX_BYTES bytes is what
\* its words combine to, and the words read back from its serialised form
\* are its words (keychain.rs, split_biguint_into_words,
\* combine_words_into_biguint, Serialize and Deserialize).
KeyWordsRoundTrip ==
    /\ Done("key", 2) /\ arg < ByteBase ^ (SCALAR_MAX_BYTES * ROOT_KEY_WORDS)
        => res[2] = arg
    /\ Done("key", 3) => res[3] = res[1]

\* A value of an annotated struct, serialised to scalars and read back by
\* the derived from_scalars, is the value, and the iterator is used up
\* (circuit_type.rs, build_serialize_method and build_deserialize_method:
\* both walk the fields in declaration order).
ScalarsRoundTrip ==
    Done("scalars", 2) =>
        /\ IsOk(res[2])
        /\ res[2].val[1].val = arg.value
        /\ res[2].val[1].rest = <<>>

\* However often a wallet is reblinded, no private share and no blinder is
\* used twice: not in one wallet, and not in two versions of the wallet
\* (wallet.rs, reblind_wallet: the two hash chains start from different
\* shares of the wallet before).
ReblindSharesAreFresh ==
    call.op = "reblind" =>
        LET versions == <<arg>> \o res
            secrets == FlattenSeq([v \in DOMAIN versions |->
                            Append(versions[v].private_shares, versions[v].blinder)])
        IN  IsInjective(secrets)

\* A wallet within the size of the circuit wallet loses nothing by the
\* conversion: every list of the circuit wallet has its full size, and
\* without the defaults that fill it, it is the list of the wallet
\* (wallet.rs, From<Wallet> for SizedCircuitWallet).
CircuitWalletKeepsEveryElement ==
    LET Kept(list, default) == SelectSeq(list, LAMBDA e : e # default)
    IN  Done("circuit_wallet", 1)
        /\ Len(arg.balances) <= MAX_BALANCES
        /\ Len(arg.orders) <= MAX_ORDERS
        /\ Len(arg.fees) <= MAX_FEES
        => /\ Len(res[1].balances) = MAX_BALANCES
           /\ Len(res[1].orders) = MAX_ORDERS
           /\ Len(res[1].fees) = MAX_FEES
           /\ Kept(res[1].balances, DefaultBalance)
                = Kept(Values(arg.balances), DefaultBalance)
           /\ Kept(res[1].orders, DefaultOrder) = Kept(Values(arg.orders), DefaultOrder)
           /\ Kept(res[1].fees, DefaultFee) = Kept(arg.fees, DefaultFee)

\* Two wallets of one size, each hashed with a sponge of its own, have the
\* same hash only if they are the same wallet: the hash input leaves out no
\* field of a balance or of an order (poseidon.rs, WalletHashInput and
\* PoseidonVectorHashGadget::evaluate).
WalletHashBindsWallet ==
    Done("wallet_hash", 2) /\ ~arg.reuse_sponge /\ res[1].hash = res[2].hash
        => arg.wallets[1] = arg.wallets[2]

=============================================================================
