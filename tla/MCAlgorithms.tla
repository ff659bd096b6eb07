---------------------------- MODULE MCAlgorithms ----------------------------
(***************************************************************************)
(* Algorithms for TLC: the arguments every operation is called with.       *)
(* Widths are scaled (a u64 holds eight values, a byte four); the sets are *)
(* small and hold the cases that differ: a field at the width of a u64, a  *)
(* list longer than the circuit wallet, a key with a zero top byte, a      *)
(* struct whose generics clash with the ones the macro adds.               *)
(***************************************************************************)
EXTENDS Algorithms

\* Injective sequences over a set, up to a length.
InjectiveSeqs(S, n) == {s \in BoundedSeq(S, n) : IsInjective(s)}

-----------------------------------------------------------------------------
(* Match results: amounts and mints below and at the width of a u64 *)

MCMatches ==
    [quote_mint : {1, U64 + 2}, base_mint : {2, 3}, quote_amount : {3, 4},
     base_amount : {5, U64 + 5}, direction : {0, 1}]

MCFabrics == {"delivered", "network_error", "tampered"}

MCMatchCalls == [match_res : MCMatches, fabric : MCFabrics]

-----------------------------------------------------------------------------
(* Merkle trees of height MERKLE_HEIGHT over two leaves' data *)

MCLeafData == {<<Sc(1)>>, <<Sc(2)>>}

MCTrees == [1..(2 ^ (MERKLE_HEIGHT - 1)) -> {LeafHash(data) : data \in MCLeafData}]

MCMerkleCalls ==
    {[tree |-> tree, index |-> index,
      witness |-> [leaf_data |-> leaf_data, opening |-> AuthPath(tree, index)],
      statement |-> [expected_root |-> TreeRoot(tree), tree_height |-> tree_height]] :
        tree \in MCTrees, index \in 0..(2 ^ (MERKLE_HEIGHT - 1) - 1),
        leaf_data \in MCLeafData,
        tree_height \in {0, MERKLE_HEIGHT, MERKLE_HEIGHT + 1, MERKLE_HEIGHT + 3}}

MCPathCalls == [client : {"darkpool", "starknet"}, height : 1..MERKLE_HEIGHT]

\* The chains, and strings in any case.
MCChains == {"Mainnet", "Testnet", "Devnet"}
MCChainStrings == [word : {"mainnet", "testnet", "devnet", "localnet"}, lower : BOOLEAN]

-----------------------------------------------------------------------------
(* Keys: every key of up to one byte more than a root key holds *)

MCKeys == 0..(ByteBase ^ (SCALAR_MAX_BYTES * ROOT_KEY_WORDS + 1) - 1)

MCDalekKeys == [1..PUBLIC_KEY_LENGTH -> 0..(ByteBase - 1)]

-----------------------------------------------------------------------------
(* Values of the annotated structs *)

RECURSIVE ValuesOf(_)
ValuesOf(ty) ==
    IF IsStruct(ty)
    THEN FoldLeft(LAMBDA values, field :
                    {value @@ (field.ident :> x) : value \in values, x \in ValuesOf(field.ty)},
                  {<<>>}, StructOf(ty).fields)
    ELSE CASE ty = "ExternalTransferDirection" -> {"Deposit", "Withdrawal"}
           [] ty = "[Scalar; KEY_WORDS]" -> [1..ROOT_KEY_WORDS -> {1, 2}]
           [] OTHER -> {1, 2}

MCTypes ==
    {"PublicIdentificationKey", "SecretIdentificationKey", "NonNativeKey",
     "PublicSigningKey", "PublicKeyChain", "Fee", "Note", "ExternalTransfer", "TestType"}

MCValueCalls == UNION {[ty : {ty}, value : ValuesOf(ty)] : ty \in MCTypes}

MCRandomnessCalls ==
    UNION {[ty : {ty}, value : ValuesOf(ty), rng : {<<11, 12, 13, 14, 15>>}] :
            ty \in MCTypes}

-----------------------------------------------------------------------------
(* The macro: structs with and without generics, every set of arguments *)

AllArgs ==
    <<ARG_SERDE, ARG_SINGLEPROVER_TYPE, ARG_MPC_TYPE, ARG_MULTIPROVER_TYPE,
      ARG_LINKABLE_TYPE, ARG_MULTIPROVER_LINKABLE_TYPES, ARG_SHARE_TYPE>>

MCParsedArgs ==
    {SelectSeq(AllArgs, LAMBDA a : a \in args) : args \in SUBSET KnownArgs}
    \cup {<<ARG_SERDE, "unknown">>}

MCParams ==
    {[ident |-> "N", kind |-> "type"], [ident |-> "T", kind |-> "type"],
     [ident |-> "KEY_WORDS", kind |-> "const"], [ident |-> "'a", kind |-> "lifetime"]}

MCGenerics ==
    [params : InjectiveSeqs(MCParams, 2), where_clause : {<<>>, <<<<"T: Clone">>>>}]

MCStructs ==
    {NonNativeKey, Fee, TestType}
    \cup {[Fee EXCEPT !.ident = NewIdent("Generic"),
                      !.generics = [params |-> <<param>>, where_clause |-> <<>>]] :
            param \in MCParams}

MCMacroCalls == [target_struct : MCStructs, parsed_args : MCParsedArgs]

MCGenericsCalls == [generics1 : MCGenerics, generics2 : MCGenerics]

-----------------------------------------------------------------------------
(* Wallets *)

Entries(keys, values, n) ==
    {entries \in BoundedSeq([key : keys, value : values], n) :
        IsInjective([k \in DOMAIN entries |-> entries[k].key])}

\* A balance is held under its mint.
MCBalances ==
    {balances \in Entries(0..2, [mint : 0..2, amount : 0..1], 2) :
        \A k \in DOMAIN balances : balances[k].key = balances[k].value.mint}

MCOrder(side) ==
    [quote_mint |-> 1, base_mint |-> 2, side |-> side, amount |-> 1, price |-> 1]

MCOrders == Entries({"o1", "o2"}, {DefaultOrder, MCOrder("Buy"), MCOrder("Sell")}, 2)

MCFee(gas_token_amount) ==
    [settle_key |-> 1, gas_addr |-> 1, gas_token_amount |-> gas_token_amount,
     percentage_fee |-> 1]

MCFees == BoundedSeq({DefaultFee, MCFee(1)}, 2)

MCShares == {shares \in [1..3 -> {Sc(1), Sc(2), Sc(3), Sc(4)}] : IsInjective(shares)}

MCWallet(balances, orders, fees, shares) ==
    [wallet_id |-> "w", balances |-> balances, orders |-> orders, fees |-> fees,
     key_chain |-> [public_keys |-> "pk", secret_keys |-> "sk"], blinder |-> Sc(0),
     metadata |-> "m", private_shares |-> shares,
     blinded_public_shares |-> [k \in 1..3 |-> Sc(10 + k)],
     merkle_proof |-> <<>>, proof_staleness |-> 0]

MCWallets ==
    {MCWallet(balances, orders, fees, <<Sc(1), Sc(2), Sc(3)>>) :
        balances \in MCBalances, orders \in MCOrders, fees \in MCFees}

MCSharedWallets == {MCWallet(<<>>, <<>>, <<>>, shares) : shares \in MCShares}

MCBalanceCalls ==
    {[wallet |-> MCWallet(balances, <<>>, fees, <<Sc(1), Sc(2), Sc(3)>>),
      order |-> MCOrder(side)] :
        balances \in MCBalances, fees \in BoundedSeq({DefaultFee, MCFee(1), MCFee(2)}, 2),
        side \in {"Buy", "Sell"}}

-----------------------------------------------------------------------------
(* Wallets and matches as the hash gadget sees them *)

MCWalletVars ==
    [balances : [1..1 -> [amount : 1..2, mint : 1..2]],
     orders : [1..1 -> [base_mint : {1}, quote_mint : {2}, side : 0..1, price : 1..2,
                        amount : {1}]]]

MCHashCalls == [wallets : MCWalletVars \X MCWalletVars, reuse_sponge : BOOLEAN]

MCMatchVars ==
    [matches1 : BoundedSeq([amount : {1}, mint : 1..2, side : 0..1], 1),
     matches2 : BoundedSeq([amount : {1}, mint : 1..2, side : 0..1], 1)]

-----------------------------------------------------------------------------
MCInputs(op) ==
    CASE op \in {"open", "open_and_authenticate", "commit", "authenticated_scalars"} ->
            MCMatchCalls
      [] op = "merkle" -> MCMerkleCalls
      [] op = "default_path" -> MCPathCalls
      [] op = "chain" -> MCChains
      [] op = "chain_str" -> MCChainStrings
      [] op = "key" -> MCKeys
      [] op = "dalek_key" -> MCDalekKeys
      [] op \in {"scalars", "serde"} -> MCValueCalls
      [] op = "randomness" -> MCRandomnessCalls
      [] op = "macro" -> MCMacroCalls
      [] op = "generics" -> MCGenericsCalls
      [] op \in {"reblind", "commitments"} -> MCSharedWallets
      [] op \in {"circuit_wallet", "remove_default_elements"} -> MCWallets
      [] op = "balance_and_fee" -> MCBalanceCalls
      [] op = "indexmap" -> MCBalances
      [] op = "wallet_hash" -> MCHashCalls
      [] op = "order_hash" -> MCWalletVars
      [] op = "match_hash" -> MCMatchVars

=============================================================================
