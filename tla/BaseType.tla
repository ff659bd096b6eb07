------------------------------ MODULE BaseType ------------------------------
(***************************************************************************)
(* The structs of circuit-types/src (keychain.rs, fee.rs, note.rs,         *)
(* transfers.rs) that carry the circuit_type attribute, and the methods    *)
(* the macro derives for them in circuit-macros/src/circuit_type.rs: the   *)
(* serialisation to scalars, the deserialisation from an iterator of       *)
(* scalars, the commitment randomness and the serde implementations.       *)
(*                                                                         *)
(* A value of a struct is a function from its field names; a derived       *)
(* method is the function the generated code computes.                     *)
(***************************************************************************)
EXTENDS CircuitType, Keychain, TLC

-----------------------------------------------------------------------------
(* The annotated structs *)

StructField(ident, ty) == [ident |-> ident, ty |-> ty]
NoGenerics == [params |-> <<>>, where_clause |-> <<>>]

AllFamilies ==
    <<ARG_SINGLEPROVER_TYPE, ARG_MPC_TYPE, ARG_MULTIPROVER_TYPE, ARG_LINKABLE_TYPE,
      ARG_SHARE_TYPE>>

PublicIdentificationKey ==
    [ident |-> NewIdent("PublicIdentificationKey"), args |-> AllFamilies,
     generics |-> NoGenerics, fields |-> <<StructField("key", "Scalar")>>]

SecretIdentificationKey ==
    [ident |-> NewIdent("SecretIdentificationKey"),
     args |-> <<ARG_SERDE, ARG_SINGLEPROVER_TYPE>>,
     generics |-> NoGenerics, fields |-> <<StructField("key", "Scalar")>>]

NonNativeKey ==
    [ident |-> NewIdent("NonNativeKey"), args |-> <<ARG_SERDE>> \o AllFamilies,
     generics |-> [params |-> <<[ident |-> "KEY_WORDS", kind |-> "const"]>>,
                   where_clause |-> <<>>],
     fields |-> <<StructField("key_words", "[Scalar; KEY_WORDS]")>>]

PublicKeyChain ==
    [ident |-> NewIdent("PublicKeyChain"), args |-> <<ARG_SERDE>> \o AllFamilies,
     generics |-> NoGenerics,
     fields |-> <<StructField("pk_root", "PublicSigningKey"),
                  StructField("pk_match", "PublicIdentificationKey")>>]

Fee ==
    [ident |-> NewIdent("Fee"), args |-> <<ARG_SERDE>> \o AllFamilies,
     generics |-> NoGenerics,
     fields |-> <<StructField("settle_key", "BigUint"), StructField("gas_addr", "BigUint"),
                  StructField("gas_token_amount", "u64"),
                  StructField("percentage_fee", "FixedPoint")>>]

Note ==
    [ident |-> NewIdent("Note"), args |-> <<ARG_SERDE, ARG_SINGLEPROVER_TYPE>>,
     generics |-> NoGenerics,
     fields |-> <<StructField("mint", "BigUint"), StructField("amount", "u64"),
                  StructField("receiver", "PublicIdentificationKey"),
                  StructField("blinder", "Scalar")>>]

ExternalTransfer ==
    [ident |-> NewIdent("ExternalTransfer"),
     args |-> <<ARG_SERDE, ARG_SINGLEPROVER_TYPE>>,
     generics |-> NoGenerics,
     fields |-> <<StructField("account_addr", "BigUint"), StructField("mint", "BigUint"),
                  StructField("amount", "BigUint"),
                  StructField("direction", "ExternalTransferDirection")>>]

\* The struct of the macro's own tests.
TestType ==
    [ident |-> NewIdent("TestType"),
     args |-> <<ARG_SINGLEPROVER_TYPE, ARG_MPC_TYPE, ARG_MULTIPROVER_TYPE,
                ARG_LINKABLE_TYPE, ARG_MULTIPROVER_LINKABLE_TYPES, ARG_SHARE_TYPE>>,
     generics |-> NoGenerics, fields |-> <<StructField("val", "Scalar")>>]

AnnotatedStructs ==
    {PublicIdentificationKey, SecretIdentificationKey, NonNativeKey, PublicKeyChain,
     Fee, Note, ExternalTransfer, TestType}

\* PublicSigningKey and SecretSigningKey are NonNativeKey<ROOT_KEY_WORDS>.
Aliased(ty) ==
    IF ty \in {"PublicSigningKey", "SecretSigningKey"} THEN "NonNativeKey" ELSE ty

IsStruct(ty) == \E st \in AnnotatedStructs : st.ident = NewIdent(Aliased(ty))
StructOf(ty) == CHOOSE st \in AnnotatedStructs : st.ident = NewIdent(Aliased(ty))

-----------------------------------------------------------------------------
(* Mutated forms *)

RECURSIVE ToScalars(_, _), FromScalars(_, _), CommitmentRandomness(_, _, _)

\* The deserialiser that fills the fields from the last to the first.
DeserializeLastFieldFirst(self_struct, i) ==
    LET ParseField(acc, field) ==
            IF ~IsOk(acc) THEN Panic
            ELSE LET parsed == FromScalars(field.ty, acc.val[1].rest)
                 IN  IF ~IsOk(parsed) THEN Panic
                     ELSE Ok([val |-> acc.val[1].val @@ (field.ident :> parsed.val[1].val),
                              rest |-> parsed.val[1].rest])
    IN  FoldLeft(ParseField, Ok([val |-> <<>>, rest |-> i]), Reverse(self_struct.fields))

-----------------------------------------------------------------------------
(* The types that implement BaseType by hand *)

\* ExternalTransferDirection::to_scalars: the discriminant, Deposit = 0.
DirectionToScalars(direction) == <<IF direction = "Deposit" THEN 0 ELSE 1>>

\* ExternalTransferDirection::from_scalars: the next scalar, cast to a u64;
\* an empty iterator and a value other than 0 and 1 panic.
DirectionFromScalars(i) ==
    IF i = <<>> \/ ScalarToU64(Head(i)) \notin {0, 1} THEN Panic
    ELSE Ok([val |-> IF ScalarToU64(Head(i)) = 0 THEN "Deposit" ELSE "Withdrawal",
             rest |-> Tail(i)])

\* The types whose value is one scalar, and the array of key words.
LeafToScalars(ty, value) ==
    CASE ty = "ExternalTransferDirection" -> DirectionToScalars(value)
      [] ty = "[Scalar; KEY_WORDS]" -> value
      [] OTHER -> <<value>>

LeafFromScalars(ty, i) ==
    CASE ty = "ExternalTransferDirection" -> DirectionFromScalars(i)
      [] ty = "[Scalar; KEY_WORDS]" ->
            IF Len(i) < ROOT_KEY_WORDS THEN Panic
            ELSE Ok([val |-> SubSeq(i, 1, ROOT_KEY_WORDS),
                     rest |-> SubSeq(i, ROOT_KEY_WORDS + 1, Len(i))])
      [] OTHER -> IF i = <<>> THEN Panic ELSE Ok([val |-> Head(i), rest |-> Tail(i)])

-----------------------------------------------------------------------------
(* The derived methods *)

\* build_serialize_method: res.extend(self.field.to_scalars()) for every
\* field, in declaration order.
BuildSerializeMethod(self_struct, self) ==
    FlattenSeq([k \in DOMAIN self_struct.fields |->
        ToScalars(self_struct.fields[k].ty, self[self_struct.fields[k].ident])])

\* build_deserialize_method: Self { field: <Ty>::from_scalars(i), ... }; the
\* fields take their scalars from the one iterator in declaration order,
\* and a field that panics panics the whole.
BuildDeserializeMethod(self_struct, i) ==
    LET ParseField(acc, field) ==
            IF ~IsOk(acc) THEN Panic
            ELSE LET parsed == FromScalars(field.ty, acc.val[1].rest)
                 IN  IF ~IsOk(parsed) THEN Panic
                     ELSE Ok([val |-> acc.val[1].val @@ (field.ident :> parsed.val[1].val),
                              rest |-> parsed.val[1].rest])
    IN  FoldLeft(ParseField, Ok([val |-> <<>>, rest |-> i]), self_struct.fields)

\* build_commitment_randomness_method: every field draws its randomness
\* from the one generator, in declaration order; r is what the generator
\* has yet to give.
BuildCommitmentRandomnessMethod(base_type, self, r) ==
    LET Draw(acc, field) ==
            LET drawn == CommitmentRandomness(field.ty, self[field.ident], acc.r)
            IN  [res |-> acc.res \o drawn.res, r |-> drawn.r]
    IN  FoldLeft(Draw, [res |-> <<>>, r |-> r], base_type.fields)

\* BaseType::to_scalars and BaseType::from_scalars of a type.
ToScalars(ty, value) ==
    IF IsStruct(ty) THEN BuildSerializeMethod(StructOf(ty), value)
    ELSE LeafToScalars(ty, value)

FromScalars(ty, i) ==
    IF IsStruct(ty) THEN BuildDeserializeMethod(StructOf(ty), i)
    ELSE LeafFromScalars(ty, i)

\* CircuitBaseType::commitment_randomness of a type: one random scalar for
\* every scalar of a leaf.
CommitmentRandomness(ty, value, r) ==
    IF IsStruct(ty) THEN BuildCommitmentRandomnessMethod(StructOf(ty), value, r)
    ELSE LET n == Len(LeafToScalars(ty, value))
         IN  [res |-> SubSeq(r, 1, n), r |-> SubSeq(r, n + 1, Len(r))]

\* build_serde_methods: the value travels as the vector of its scalars.
\* Deserialising reads the vector, returning the deserializer's error when
\* it has one, and hands the vector to the deserialise method: what is left
\* over is dropped, and a vector that is too short panics.
SerdeSerialize(ty, value) == ToScalars(ty, value)
SerdeDeserialize(ty, res) ==
    LET parsed == FromScalars(ty, res.val[1])
    IN  IF ~IsOk(res) THEN res
        ELSE IF IsOk(parsed) THEN Ok(parsed.val[1].val) ELSE Panic

-----------------------------------------------------------------------------
(* Methods of the structs *)

\* Fee::is_default.
DefaultFee ==
    [settle_key |-> 0, gas_addr |-> 0, gas_token_amount |-> 0, percentage_fee |-> 0]
FeeIsDefault(fee) == fee = DefaultFee

\* Note::commitment: the Poseidon hash of the note's scalars.
NoteCommitment(note) ==
    LET vals == ToScalars("Note", note)
    IN  Sponge([k \in DOMAIN vals |-> Sc(vals[k])])

=============================================================================
