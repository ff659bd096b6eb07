------------------------------- MODULE Field --------------------------------
(***************************************************************************)
(* What the algorithm modules share: the outcome of a call, the scalars    *)
(* that are numbers, and the field elements that are hashes.               *)
(***************************************************************************)
EXTENDS Integers, Sequences

CONSTANTS
    U64                 \* the number of values of a u64 (2^64 in the code)

ASSUME U64 \in Nat \ {0}

\* A call returns a value, returns an error, or panics; an outcome that is
\* not a value has none.
Ok(v) == [err |-> "none", val |-> <<v>>]
Err(e) == [err |-> e, val |-> <<>>]
Panic == Err("panic")
IsOk(outcome) == outcome.err = "none"

\* mpc_scalar::scalar_to_u64: the low eight bytes of the scalar.
ScalarToU64(scalar) == scalar % U64

\* A field element is a term: a scalar with the value n, or the Poseidon
\* hash of a sequence of terms.  The hash is a free constructor, so two
\* hashes are equal exactly when their inputs are: what a model can tell
\* apart is which values are hashed, and in which order.
Sc(n) == [s |-> n, in |-> <<>>]

\* The Poseidon sponge: absorb the elements in order, squeeze one.
Sponge(elements) == [s |-> -1, in |-> elements]

=============================================================================
