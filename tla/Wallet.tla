------------------------------- MODULE Wallet -------------------------------
(***************************************************************************)
(* The relayer's wallet of common/src/types/wallet.rs: its conversion to   *)
(* the fixed-size circuit wallet, its commitments, its reblinding and the  *)
(* look-ups a match needs; and the hash inputs the Poseidon gadget of      *)
(* src/circuits/poseidon.rs builds from a wallet and from a match.         *)
(*                                                                         *)
(* An IndexMap is the sequence of its [key, value] entries in insertion    *)
(* order.  Shares, blinders and commitments are field elements of module   *)
(* Field.                                                                  *)
(***************************************************************************)
EXTENDS BaseType

CONSTANTS
    MAX_BALANCES,       \* constants::MAX_BALANCES
    MAX_ORDERS,         \* constants::MAX_ORDERS
    MAX_FEES            \* constants::MAX_FEES

ASSUME {MAX_BALANCES, MAX_ORDERS, MAX_FEES} \subseteq Nat \ {0}

DefaultBalance == [mint |-> 0, amount |-> 0]
DefaultOrder ==
    [quote_mint |-> 0, base_mint |-> 0, side |-> "Buy", amount |-> 0, price |-> 0]

\* IndexMap::into_values and IndexMap::get (an Option: <<>> or one value).
Values(map) == [k \in DOMAIN map |-> map[k].value]
Get(map, key) == Values(SelectSeq(map, LAMBDA entry : entry.key = key))

\* crypto::hash::evaluate_hash_chain: length successive hashes of the seed.
EvaluateHashChain(seed, length) ==
    LET Link(chain, i) ==
            Append(chain, Sponge(<<IF chain = <<>> THEN seed ELSE Last(chain)>>))
    IN  FoldLeft(Link, <<>>, [i \in 1..length |-> i])

\* create_wallet_shares_from_private: the public share of the k-th scalar of
\* the wallet is that scalar less its private share, blinded.  The scalar
\* is named by its place.
CreateWalletSharesFromPrivate(circuit_wallet, private_shares, blinder) ==
    [private |-> private_shares,
     public |-> [k \in DOMAIN private_shares |->
                    [s |-> -2, in |-> <<Sc(k), private_shares[k], blinder>>]]]

-----------------------------------------------------------------------------
(* Mutated forms *)

\* The conversion that sizes the balances by the bound of the orders.
IntoSizedCircuitWalletBySizeOfOrders(wallet) ==
    [balances |-> PadTake(Values(wallet.balances), DefaultBalance, MAX_ORDERS),
     orders |-> PadTake(Values(wallet.orders), DefaultOrder, MAX_ORDERS),
     fees |-> PadTake(wallet.fees, DefaultFee, MAX_FEES),
     keys |-> wallet.key_chain.public_keys,
     blinder |-> wallet.blinder]

\* The reblinding that seeds both chains with the last share.
ReblindFromLastShare(wallet) ==
    LET shares == wallet.private_shares
        n_shares == Len(shares)
        chain == EvaluateHashChain(shares[n_shares], 2)
        new_shares == CreateWalletSharesFromPrivate(wallet,
            Append(EvaluateHashChain(shares[n_shares], n_shares - 1), chain[2]),
            chain[1])
    IN  [wallet EXCEPT !.private_shares = new_shares.private,
                       !.blinded_public_shares = new_shares.public,
                       !.blinder = chain[1]]

\* The wallet hash input that leaves the side of an order out.
WalletHashInputWithoutSide(wallet) ==
    FlattenSeq([k \in DOMAIN wallet.balances |->
                    <<wallet.balances[k].amount, wallet.balances[k].mint>>])
    \o FlattenSeq([k \in DOMAIN wallet.orders |->
                    <<wallet.orders[k].base_mint, wallet.orders[k].quote_mint,
                      wallet.orders[k].price, wallet.orders[k].amount>>])

-----------------------------------------------------------------------------
(* Wallet *)

\* Clone for Wallet: every field copied, the staleness counter by its value.
Clone(wallet) == [f \in DOMAIN wallet |-> wallet[f]]

\* serialize_indexmap: the entries as a vector, in insertion order.
SerializeIndexmap(map) == map

\* deserialize_indexmap: the vector collected into a map; a key met again
\* keeps its place and takes the later value.
DeserializeIndexmap(vec) ==
    LET Insert(map, entry) ==
            IF \E k \in DOMAIN map : map[k].key = entry.key
            THEN [k \in DOMAIN map |-> IF map[k].key = entry.key THEN entry ELSE map[k]]
            ELSE Append(map, entry)
    IN  FoldLeft(Insert, <<>>, vec)

\* From<Wallet> for SizedCircuitWallet: the values of every list, default
\* elements after them, and no more than the size of the list.
IntoSizedCircuitWallet(wallet) ==
    [balances |-> PadTake(Values(wallet.balances), DefaultBalance, MAX_BALANCES),
     orders |-> PadTake(Values(wallet.orders), DefaultOrder, MAX_ORDERS),
     fees |-> PadTake(wallet.fees, DefaultFee, MAX_FEES),
     keys |-> wallet.key_chain.public_keys,
     blinder |-> wallet.blinder]

\* get_private_share_commitment, get_wallet_share_commitment and
\* get_wallet_nullifier.
GetPrivateShareCommitment(wallet) == Sponge(wallet.private_shares)
GetWalletShareCommitment(wallet) ==
    Sponge(<<GetPrivateShareCommitment(wallet)>> \o wallet.blinded_public_shares)
GetWalletNullifier(wallet) ==
    Sponge(<<GetWalletShareCommitment(wallet), wallet.blinder>>)

\* reblind_wallet: the new blinder and its private share are the next two
\* values of the hash chain of the last private share; the other private
\* shares are the chain of the share before it.  The shares are those of a
\* SizedWalletShare, whose keys and blinder alone are more than two scalars.
ReblindWallet(wallet) ==
    LET private_shares_serialized == wallet.private_shares
        n_shares == Len(private_shares_serialized)
        blinder_and_private_share ==
            EvaluateHashChain(private_shares_serialized[n_shares], 2)
        new_blinder == blinder_and_private_share[1]
        new_private_shares ==
            Append(EvaluateHashChain(private_shares_serialized[n_shares - 1],
                                     n_shares - 1),
                   blinder_and_private_share[2])
        shares == CreateWalletSharesFromPrivate(IntoSizedCircuitWallet(Clone(wallet)),
                                                new_private_shares, new_blinder)
    IN  [wallet EXCEPT !.private_shares = shares.private,
                       !.blinded_public_shares = shares.public,
                       !.blinder = new_blinder]

\* needs_new_commitment_proof.
NeedsNewCommitmentProof(wallet) == FALSE

\* remove_default_elements: retain what is not the default, in order.
RemoveDefaultElements(wallet) ==
    [wallet EXCEPT
        !.balances = SelectSeq(@, LAMBDA e : e.value # DefaultBalance),
        !.orders = SelectSeq(@, LAMBDA e : e.value # DefaultOrder),
        !.fees = SelectSeq(@, LAMBDA fee : ~FeeIsDefault(fee))]

\* get_balance_and_fee_for_order: the balance of the mint the order spends,
\* the first fee that is not the default, and the balance of its gas token,
\* which must cover the gas; None when one of them is missing.
GetBalanceAndFeeForOrder(wallet, order) ==
    LET order_mint == IF order.side = "Buy" THEN order.quote_mint ELSE order.base_mint
        balance == Get(wallet.balances, order_mint)
        fee == SelectSeq(wallet.fees, LAMBDA f : ~FeeIsDefault(f))
        fee_balance == Get(wallet.balances, fee[1].gas_addr)
    IN  IF \/ balance = <<>>
           \/ fee = <<>>
           \/ fee_balance = <<>>
           \/ fee_balance[1].amount < fee[1].gas_token_amount
        THEN <<>>
        ELSE <<[balance |-> balance[1], fee |-> fee[1], fee_balance |-> fee_balance[1]]>>

-----------------------------------------------------------------------------
(* Poseidon hash inputs *)

\* From<&WalletVar> for OrderHashInput: five elements for every order.
OrderHashInput(wallet) ==
    FlattenSeq([k \in DOMAIN wallet.orders |->
                    <<wallet.orders[k].base_mint, wallet.orders[k].quote_mint,
                      wallet.orders[k].side, wallet.orders[k].price,
                      wallet.orders[k].amount>>])

\* From<&WalletVar> for WalletHashInput: two elements for every balance,
\* then the elements of the orders.
WalletHashInput(wallet) ==
    FlattenSeq([k \in DOMAIN wallet.balances |->
                    <<wallet.balances[k].amount, wallet.balances[k].mint>>])
    \o FlattenSeq([k \in DOMAIN wallet.orders |->
                    <<wallet.orders[k].base_mint, wallet.orders[k].quote_mint,
                      wallet.orders[k].side, wallet.orders[k].price,
                      wallet.orders[k].amount>>])

\* From<&MatchResultVariable> for MatchHashInput: three elements for every
\* match of the first list, then of the second.
MatchHashInput(match_res) ==
    LET matches == match_res.matches1 \o match_res.matches2
    IN  FlattenSeq([k \in DOMAIN matches |->
                    <<matches[k].amount, matches[k].mint, matches[k].side>>])

\* PoseidonVectorHashGadget::evaluate: absorb every element into the sponge
\* that is passed in, squeeze one.  The sponge keeps what it absorbed.
Evaluate(elements, poseidon_sponge) ==
    LET absorbed == poseidon_sponge \o [k \in DOMAIN elements |-> Sc(elements[k])]
    IN  [sponge |-> absorbed, hash |-> Sponge(absorbed)]

=============================================================================
