------------------------------- MODULE Merkle -------------------------------
(***************************************************************************)
(* The Merkle opening gadget of circuits/src/zk_gadgets/merkle.rs and the  *)
(* default authentication paths the two chain clients compute              *)
(* (darkpool-client/src/constants.rs, starknet-client/src/lib.rs), with    *)
(* the darkpool client's Chain.                                            *)
(* Field elements are the hash terms of module Field.                      *)
(***************************************************************************)
EXTENDS Field, SequencesExt

CONSTANTS
    MERKLE_HEIGHT       \* constants::MERKLE_HEIGHT, the height of the on-chain tree

ASSUME MERKLE_HEIGHT \in Nat \ {0}

-----------------------------------------------------------------------------
\* The value of an empty leaf: one scalar in the darkpool client, another
\* in the Starknet client.
EMPTY_LEAF_VALUE == Sc(0)
StarknetEmptyLeafValue == Sc(1)

-----------------------------------------------------------------------------
(* Mutated forms *)

\* The gadget that computes the root and constrains nothing.
RootNeverConstrained(leaf_node, opening, expected_root) == TRUE

\* The commitments split as if the leaf came before the opening.
CommitmentsSplitLeafFirst(witness_commitments, tree_height) ==
    LET leaf_len == Len(witness_commitments) - (tree_height - 1)
    IN  [leaf |-> SubSeq(witness_commitments, 1, leaf_len),
         opening |-> SubSeq(witness_commitments, leaf_len + 1, Len(witness_commitments))]

\* The path whose running value is never advanced.
DefaultPathNeverAdvanced(height) ==
    [i \in 1..height |-> Sponge(<<EMPTY_LEAF_VALUE, EMPTY_LEAF_VALUE>>)]

-----------------------------------------------------------------------------
(* PoseidonMerkleHashGadget *)

\* leaf_hash: the leaf's preimage, sponge hashed into one element.
LeafHash(values) == Sponge(values)

\* hash_internal_nodes: the parent of two nodes.
HashInternalNodes(left, right) == Sponge(<<left, right>>)

\* compute_root: hash the leaf, then fold the opening into it.  The running
\* hash is the left input at every level: there is no path selection.
ComputeRoot(leaf_node, opening) ==
    FoldLeft(HashInternalNodes, LeafHash(leaf_node), opening)

\* compute_and_constrain_root: the one constraint, expected_root = root.
ConstraintSatisfied(leaf_node, opening, expected_root) ==
    expected_root = ComputeRoot(leaf_node, opening)

\* prove: commit to the leaf and to the opening, apply the constraint, and
\* hand out the commitments, opening first.  A commitment stands for the
\* value it hides; the proof remembers the circuit it was made for and
\* whether the witness satisfied it.
Prove(witness, statement) ==
    [commitments |-> witness.opening \o witness.leaf_data,
     proof |-> [leaf_len |-> Len(witness.leaf_data),
                opening_len |-> Len(witness.opening),
                satisfied |-> ConstraintSatisfied(witness.leaf_data, witness.opening,
                                                  statement.expected_root)]]

\* The verifier's partition of the commitments by the statement's height.
SplitCommitments(witness_commitments, tree_height) ==
    [leaf |-> SubSeq(witness_commitments, tree_height, Len(witness_commitments)),
     opening |-> SubSeq(witness_commitments, 1, tree_height - 1)]

\* tree_height - 1 underflows for a height of zero, and a slice bound past
\* the end of the commitments panics.
SplitPanics(witness_commitments, tree_height) ==
    \/ tree_height = 0
    \/ tree_height - 1 > Len(witness_commitments)

\* verify: partition the commitments, rebuild the circuit, check the proof.
\* The proof verifies when it was made for the circuit the verifier built
\* and the committed values satisfy it.
Verify(witness_commitments, statement, proof) ==
    IF SplitPanics(witness_commitments, statement.tree_height) THEN "panic"
    ELSE LET vars == SplitCommitments(witness_commitments, statement.tree_height)
         IN  IF /\ Len(vars.leaf) = proof.leaf_len
                /\ Len(vars.opening) = proof.opening_len
                /\ ConstraintSatisfied(vars.leaf, vars.opening, statement.expected_root)
             THEN "ok" ELSE "verification_error"

-----------------------------------------------------------------------------
(* DEFAULT_AUTHENTICATION_PATH *)

\* darkpool-client: push the running value, then hash it with itself.
DarkpoolPathFrom(curr_val, height) ==
    LET Push(acc, i) == [values |-> Append(acc.values, acc.curr_val),
                         curr_val |-> Sponge(<<acc.curr_val, acc.curr_val>>)]
    IN  FoldLeft(Push, [values |-> <<>>, curr_val |-> curr_val],
                 [i \in 1..height |-> i]).values

DarkpoolDefaultAuthenticationPath(height) ==
    DarkpoolPathFrom(EMPTY_LEAF_VALUE, height)

\* starknet-client: curr_val is never reassigned; every entry is the hash of
\* two empty leaves.
StarknetDefaultAuthenticationPath(height) ==
    LET curr_val == StarknetEmptyLeafValue
    IN  [i \in 1..height |-> Sponge(<<curr_val, curr_val>>)]

-----------------------------------------------------------------------------
(* Chain *)

\* A string is the word it spells and whether all of it is in lower case.
Str(word, lower) == [word |-> word, lower |-> lower]
ToLowercase(s) == Str(s.word, TRUE)

\* Display for Chain.
ChainDisplay(chain) ==
    CASE chain = "Mainnet" -> Str("mainnet", TRUE)
      [] chain = "Testnet" -> Str("testnet", TRUE)
      [] chain = "Devnet" -> Str("devnet", TRUE)

\* FromStr for Chain: the string is matched in lower case.
ChainFromStr(s) ==
    CASE ToLowercase(s) = Str("mainnet", TRUE) -> Ok("Mainnet")
      [] ToLowercase(s) = Str("testnet", TRUE) -> Ok("Testnet")
      [] ToLowercase(s) = Str("devnet", TRUE) -> Ok("Devnet")
      [] OTHER -> Err("Invalid chain")

-----------------------------------------------------------------------------
(* Reference definitions: a binary tree over a row of leaf digests *)

RECURSIVE TreeRoot(_)
TreeRoot(digests) ==
    IF Len(digests) = 1 THEN digests[1]
    ELSE LET half == Len(digests) \div 2
         IN  Sponge(<<TreeRoot(SubSeq(digests, 1, half)),
                      TreeRoot(SubSeq(digests, half + 1, Len(digests)))>>)

\* The sister nodes of leaf index (counted from zero), from the leaf up.
RECURSIVE AuthPath(_, _)
AuthPath(digests, index) ==
    IF Len(digests) = 1 THEN <<>>
    ELSE LET half == Len(digests) \div 2
             lower == SubSeq(digests, 1, half)
             upper == SubSeq(digests, half + 1, Len(digests))
         IN  IF index < half
             THEN Append(AuthPath(lower, index), TreeRoot(upper))
             ELSE Append(AuthPath(upper, index - half), TreeRoot(lower))

\* The tree of 2^height empty leaves.
EmptyTree(empty_leaf, height) == [i \in 1..(2 ^ height) |-> empty_leaf]

=============================================================================
