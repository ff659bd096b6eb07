---------------------------- MODULE MatchResult -----------------------------
(***************************************************************************)
(* The match result of circuits/src/types/match.rs: its two serialised     *)
(* forms, its opening out of the MPC fabric and its commitment.            *)
(*                                                                         *)
(* An authenticated scalar stands for the value the two parties share; a   *)
(* commitment and a constraint-system variable stand for the value they    *)
(* hide.  What the model keeps is which field travels in which position.   *)
(***************************************************************************)
EXTENDS Field

\* The number of scalars in a match tuple.
MATCH_SIZE_SCALARS == 5

-----------------------------------------------------------------------------
(* Mutated form *)

\* The plain deserialiser reading the fields in the order the authenticated
\* one does.
TryFromU64Interleaved(values) ==
    IF Len(values) # MATCH_SIZE_SCALARS THEN Err("SerializationError")
    ELSE Ok([quote_mint |-> values[1], base_mint |-> values[3],
             quote_amount |-> values[2], base_amount |-> values[4],
             direction |-> values[5]])

-----------------------------------------------------------------------------
(* Serialised forms *)

\* TryFrom<&[u64]> for MatchResult.
TryFromU64(values) ==
    IF Len(values) # MATCH_SIZE_SCALARS THEN Err("SerializationError")
    ELSE Ok([quote_mint |-> values[1], base_mint |-> values[2],
             quote_amount |-> values[3], base_amount |-> values[4],
             direction |-> values[5]])

\* From<AuthenticatedMatchResult> for Vec<AuthenticatedScalar>.
IntoAuthenticatedScalars(match_res) ==
    <<match_res.quote_mint, match_res.base_mint, match_res.quote_amount,
      match_res.base_amount, match_res.direction>>

\* TryFrom<&[AuthenticatedScalar]> for AuthenticatedMatchResult: the second
\* value is read as the quote amount and the third as the base mint.
TryFromAuthenticatedScalars(values) ==
    IF Len(values) # MATCH_SIZE_SCALARS THEN Err("SerializationError")
    ELSE Ok([quote_mint |-> values[1], quote_amount |-> values[2],
             base_mint |-> values[3], base_amount |-> values[4],
             direction |-> values[5]])

\* From<AuthenticatedCommittedMatchResult> for Vec<..CompressedRistretto>.
IntoCommitments(match_res) ==
    <<match_res.quote_mint, match_res.base_mint, match_res.quote_amount,
      match_res.base_amount, match_res.direction>>

-----------------------------------------------------------------------------
(* Opening *)

\* batch_open and batch_open_and_authenticate, by what the fabric did: the
\* opening is delivered, the network fails, or the peer sends a share that
\* is not its own.  Only the authenticated opening notices the last.
BatchOpen(values, fabric, authenticate) ==
    CASE fabric = "delivered" -> Ok(values)
      [] fabric = "network_error" -> Err("OpeningError")
      [] fabric = "tampered" ->
            IF authenticate THEN Err("OpeningError")
            ELSE Ok([i \in DOMAIN values |-> values[i] + 1])

\* The body the two openings share: flatten, open, cast every opened scalar
\* to a u64, deserialise.
OpenWith(match_res, fabric, authenticate) ==
    LET flattened_self == IntoAuthenticatedScalars(match_res)
        opened == BatchOpen(flattened_self, fabric, authenticate)
    IN  IF ~IsOk(opened) THEN Err(opened.err)
        ELSE TryFromU64([i \in DOMAIN opened.val[1] |->
                            ScalarToU64(opened.val[1][i])])

\* Open::open.
Open(match_res, fabric) == OpenWith(match_res, fabric, FALSE)

\* Open::open_and_authenticate.
OpenAndAuthenticate(match_res, fabric) == OpenWith(match_res, fabric, TRUE)

-----------------------------------------------------------------------------
(* Commitment *)

\* CommitSharedProver::commit: five blinders, one batch commitment in field
\* order, and the variables and commitments taken back by position.
Commit(match_res, fabric) ==
    LET values == <<match_res.quote_mint, match_res.base_mint,
                    match_res.quote_amount, match_res.base_amount,
                    match_res.direction>>
        ByPosition(s) == [quote_mint |-> s[1], base_mint |-> s[2],
                          quote_amount |-> s[3], base_amount |-> s[4],
                          direction |-> s[5]]
    IN  IF fabric = "network_error" THEN Err("SharingError")
        ELSE Ok([vars |-> ByPosition(values), comm |-> ByPosition(values)])

\* CommitVerifier::commit_verifier: the verifier commits field by field and
\* names each variable after its field; it does not error.
CommitVerifier(committed) ==
    Ok([quote_mint |-> committed.quote_mint, base_mint |-> committed.base_mint,
        quote_amount |-> committed.quote_amount,
        base_amount |-> committed.base_amount,
        direction |-> committed.direction])

=============================================================================
