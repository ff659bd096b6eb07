----------------------------- MODULE CircuitType -----------------------------
(***************************************************************************)
(* The circuit_type attribute macro of circuit-macros/src/circuit_type.rs  *)
(* and circuit_type/mpc_types.rs: its arguments and their validation, the  *)
(* items it generates for a struct and the generics of those items.  The   *)
(* methods it derives are in module BaseType.                              *)
(*                                                                         *)
(* The macro writes Rust; the model holds what the written code is.  An    *)
(* identifier is the sequence of its parts, a struct is its identifier,    *)
(* its generics and its fields in declaration order, and a generated item  *)
(* is the trait or type it provides and the type it provides it for.       *)
(***************************************************************************)
EXTENDS Field, SequencesExt

\* The arguments of the attribute.
ARG_SINGLEPROVER_TYPE == "singleprover_circuit"
ARG_MPC_TYPE == "mpc"
ARG_MULTIPROVER_TYPE == "multiprover_circuit"
ARG_LINKABLE_TYPE == "linkable"
ARG_MULTIPROVER_LINKABLE_TYPES == "multiprover_linkable"
ARG_SHARE_TYPE == "secret_share"
ARG_SERDE == "serde"

KnownArgs ==
    {ARG_SINGLEPROVER_TYPE, ARG_MPC_TYPE, ARG_MULTIPROVER_TYPE, ARG_LINKABLE_TYPE,
     ARG_MULTIPROVER_LINKABLE_TYPES, ARG_SHARE_TYPE, ARG_SERDE}

\* MacroArgs and its Default: one flag for every argument, all unset.
MacroArgs == [KnownArgs -> BOOLEAN]
DefaultMacroArgs == [a \in KnownArgs |-> FALSE]

-----------------------------------------------------------------------------
(* Arguments *)

\* MacroArgs::validate: every assertion holds.
Validate(args) ==
    /\ args[ARG_MULTIPROVER_TYPE] =>
            args[ARG_SINGLEPROVER_TYPE] /\ args[ARG_MPC_TYPE]
    /\ args[ARG_LINKABLE_TYPE] => args[ARG_SINGLEPROVER_TYPE]
    /\ args[ARG_MULTIPROVER_LINKABLE_TYPES] =>
            args[ARG_SINGLEPROVER_TYPE] /\ args[ARG_LINKABLE_TYPE]
    /\ args[ARG_SHARE_TYPE] => args[ARG_SINGLEPROVER_TYPE]

\* parse_macro_args: set the flag of every argument, panic on one that is
\* not known, and validate what was set.
ParseMacroArgs(parsed_args) ==
    LET macro_args == [a \in KnownArgs |-> a \in Range(parsed_args)]
    IN  IF /\ Range(parsed_args) \subseteq KnownArgs
           /\ Validate(macro_args)
        THEN Ok(macro_args) ELSE Panic

-----------------------------------------------------------------------------
(* Identifiers and generics *)

\* new_ident, ident_with_prefix and ident_with_suffix.
NewIdent(name) == <<name>>
IdentWithPrefix(original, prefix) == <<prefix>> \o original
IdentWithSuffix(original, suffix) == original \o <<suffix>>

\* ident_strip_prefix and ident_strip_suffix: the identifier without the
\* part, or the identifier itself when it has no such part.  Of an
\* identifier that is the part alone the empty identifier <<>> is left.
IdentStripPrefix(original, prefix) ==
    IF original # <<>> /\ Head(original) = prefix THEN Tail(original) ELSE original
IdentStripSuffix(original, suffix) ==
    IF original # <<>> /\ Last(original) = suffix THEN Front(original) ELSE original

\* A set of generics: its parameters in order, each [ident, kind], and its
\* where clause: <<>> when there is none, else the one sequence of its
\* predicates.
Predicates(generics) ==
    IF generics.where_clause = <<>> THEN <<>> ELSE generics.where_clause[1]

\* build_mpc_generics: <N: MpcNetwork + Send, S: SharedValueSource<Scalar>>.
BuildMpcGenerics ==
    [params |-> <<[ident |-> "N", kind |-> "type"], [ident |-> "S", kind |-> "type"]>>,
     where_clause |-> <<>>]

\* params_from_generics: the identifiers, or a panic on a lifetime.
ParamsFromGenerics(generics) ==
    IF \E p \in Range(generics.params) : p.kind = "lifetime" THEN Panic
    ELSE Ok([i \in DOMAIN generics.params |-> generics.params[i].ident])

\* ident_with_generics: the identifier followed by the parameters.
IdentWithGenerics(ident, generics) ==
    LET params == ParamsFromGenerics(generics)
    IN  IF IsOk(params) THEN Ok([ident |-> ident, params |-> params.val[1]]) ELSE Panic

\* merge_generics: the first set, then the parameters of the second whose
\* identifier the first does not declare (a lifetime always passes), and
\* one where clause with the predicates of both.
MergeGenerics(generics1, generics2) ==
    LET idents == ParamsFromGenerics(generics1)
        Kept(param) == param.kind = "lifetime" \/ param.ident \notin Range(idents.val[1])
    IN  IF ~IsOk(idents) THEN Panic
        ELSE Ok([params |-> generics1.params \o SelectSeq(generics2.params, Kept),
                 where_clause |-> <<Predicates(generics1) \o Predicates(generics2)>>])

\* filter_generics: the base without the parameters the filter declares;
\* its where clause stays as it is.
FilterGenerics(base, filter) ==
    LET idents == ParamsFromGenerics(filter)
        Kept(param) == param.kind = "lifetime" \/ param.ident \notin Range(idents.val[1])
    IN  IF ~IsOk(idents) THEN Panic
        ELSE Ok([base EXCEPT !.params = SelectSeq(@, Kept)])

-----------------------------------------------------------------------------
(* Generated items *)

\* The prefix of the MPC type of a base type.
MPC_TYPE_PREFIX == "Authenticated"

\* The item that provides a trait or a type for an identifier.
Item(provides, ident) == [provides |-> provides, for |-> ident]

\* The items of a step that may panic, joined to the items so far.
Extend(out_tokens, built) ==
    IF IsOk(out_tokens) /\ IsOk(built)
    THEN Ok(out_tokens.val[1] \cup built.val[1]) ELSE Panic

\* build_modified_struct_from_associated_types: the base struct's fields, in
\* order and under their names, each with the associated type of its own
\* type; the name and the generics are the ones given.
BuildModifiedStruct(base_type, new_name, generics, trait, associated) ==
    [ident |-> new_name,
     generics |-> generics,
     fields |-> [i \in DOMAIN base_type.fields |->
                    [ident |-> base_type.fields[i].ident,
                     ty |-> <<base_type.fields[i].ty, trait, associated>>]]]

\* impl_clone_by_fields: Clone for the struct with its generics.
ImplCloneByFields(base_struct) ==
    IF IsOk(IdentWithGenerics(base_struct.ident, base_struct.generics))
    THEN Ok({Item("Clone", base_struct.ident)}) ELSE Panic

\* build_base_type_impl: BaseType for the struct under its own generics.
BuildBaseTypeImpl(base_type) ==
    IF IsOk(ParamsFromGenerics(base_type.generics))
    THEN Ok({Item("BaseType", base_type.ident)}) ELSE Panic

\* build_mpc_base_type_impl: MpcBaseType for the base struct, under the
\* merged generics, naming the Authenticated struct as its allocated type.
BuildMpcBaseTypeImpl(base_struct) ==
    LET impl_generics == MergeGenerics(BuildMpcGenerics, base_struct.generics)
    IN  IF /\ IsOk(impl_generics)
           /\ IsOk(IdentWithGenerics(base_struct.ident, base_struct.generics))
           /\ IsOk(IdentWithGenerics(base_struct.ident, impl_generics.val[1]))
        THEN Ok({Item("MpcBaseType", base_struct.ident)}) ELSE Panic

\* build_mpc_type_impl: MpcType for the Authenticated struct.
BuildMpcTypeImpl(mpc_type, base_type) ==
    LET impl_generics == MergeGenerics(BuildMpcGenerics, base_type.generics)
    IN  IF /\ IsOk(impl_generics)
           /\ IsOk(IdentWithGenerics(mpc_type.ident, impl_generics.val[1]))
           /\ IsOk(IdentWithGenerics(base_type.ident, base_type.generics))
        THEN Ok({Item("MpcType", mpc_type.ident)}) ELSE Panic

\* build_mpc_type: the Authenticated struct, its MpcType and Clone impls, and
\* the multiprover types when either flag asks for them.
BuildMpcType(base_struct, include_multiprover, multiprover_base_only) ==
    LET new_name_ident == IdentWithPrefix(base_struct.ident, MPC_TYPE_PREFIX)
        generics == MergeGenerics(BuildMpcGenerics, base_struct.generics)
        mpc_type == BuildModifiedStruct(base_struct, new_name_ident, generics.val[1],
                                        "MpcBaseType", "AllocatedType")
        multiprover == IF include_multiprover \/ multiprover_base_only
                       THEN {Item("MultiproverCircuitBaseType", new_name_ident)}
                       ELSE {}
    IN  IF ~IsOk(generics) THEN Panic
        ELSE Extend(Extend(Ok({Item("struct", new_name_ident)} \cup multiprover),
                           BuildMpcTypeImpl(mpc_type, base_struct)),
                    ImplCloneByFields(mpc_type))

\* build_mpc_types.
BuildMpcTypes(base_struct, include_multiprover, multiprover_base_only) ==
    Extend(BuildMpcBaseTypeImpl(base_struct),
           BuildMpcType(base_struct, include_multiprover, multiprover_base_only))

\* What the builders of the other submodules provide for a struct: the
\* trait of their family, and the multiprover trait under their flag.
BuildOtherTypes(target_struct, trait, multiprover_trait, include_multiprover) ==
    Ok({Item(trait, target_struct.ident)}
       \cup IF include_multiprover
            THEN {Item(multiprover_trait, target_struct.ident)} ELSE {})

\* circuit_type_impl: the struct itself, its BaseType, and the types of
\* every family the arguments switch on.
CircuitTypeImpl(target_struct, macro_args) ==
    LET Family(arg, built) == IF macro_args[arg] THEN built ELSE Ok({})
        base == Extend(Ok({Item("struct", target_struct.ident)}),
                       BuildBaseTypeImpl(target_struct))
        singleprover == Family(ARG_SINGLEPROVER_TYPE,
            BuildOtherTypes(target_struct, "CircuitBaseType", "", FALSE))
        mpc == Family(ARG_MPC_TYPE,
            BuildMpcTypes(target_struct, macro_args[ARG_MULTIPROVER_TYPE], FALSE))
        linkable == Family(ARG_LINKABLE_TYPE,
            BuildOtherTypes(target_struct, "LinkableBaseType",
                "MultiproverLinkableBaseType",
                macro_args[ARG_MULTIPROVER_LINKABLE_TYPES]))
        secret_share == Family(ARG_SHARE_TYPE,
            BuildOtherTypes(target_struct, "SecretShareBaseType", "", FALSE))
    IN  Extend(Extend(Extend(Extend(base, singleprover), mpc), linkable), secret_share)

=============================================================================
