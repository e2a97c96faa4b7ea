-------------------------- MODULE TransactionArgs --------------------------
(***************************************************************************)
(* How the arguments of a call become a transaction (rpc_transactions.go,  *)
(* rpc_simulate.go, rpc_calls.go): its type is given or inferred, fields   *)
(* that do not fit the type are refused, missing ones are filled in, and   *)
(* makeUnsignedTransaction takes what the type has a place for.            *)
(*                                                                         *)
(* Arguments are the fields that are not nil and, among the lists, those   *)
(* that are empty.  "gas" stands for the nonce too, "proofs" for blob      *)
(* commitments and proofs, which come together; given proofs and hashes    *)
(* are those of the blobs.                                                 *)
(***************************************************************************)
EXTENDS Integers, FiniteSetsExt

CONSTANT Callers   \* of "send", "sign", "simulate" and "trace"

DynamicFees == {"maxFeePerGas", "maxPriorityFeePerGas"}
BlobFields == {"maxFeePerBlobGas", "blobVersionedHashes", "blobs", "proofs"}
Fields == {"gas", "gasPrice", "accessList", "authorizationList", "to", "input"} \cup DynamicFees \cup BlobFields
Lists == {"authorizationList", "blobVersionedHashes", "blobs"}

NoType == -1
LegacyTx == 0
AccessListTx == 1
DynamicFeeTx == 2
BlobTx == 3
SetCodeTx == 4

VARIABLE args   \* the caller, and the type, fields and empty lists it gives

ArgsInit ==
    \E c \in Callers, t \in NoType..(SetCodeTx + 1), s \in SUBSET Fields :
        \E e \in SUBSET (s \cap Lists) : args = [caller |-> c, type |-> t, set |-> s, empty |-> e]

-----------------------------------------------------------------------------

\* transactionType: the newest type that a field asks for.
TypeOfField ==
    [authorizationList |-> SetCodeTx, blobs |-> BlobTx, blobVersionedHashes |-> BlobTx, maxFeePerBlobGas |-> BlobTx,
     maxFeePerGas |-> DynamicFeeTx, maxPriorityFeePerGas |-> DynamicFeeTx,
     accessList |-> AccessListTx, gasPrice |-> LegacyTx]

\* simulationTransactionType.
SimulatedTypeOfField == [authorizationList |-> SetCodeTx, blobVersionedHashes |-> BlobTx, gasPrice |-> LegacyTx]

TransactionType(a) ==
    LET typeOf == IF a.caller = "simulate" THEN SimulatedTypeOfField ELSE TypeOfField
        types  == {typeOf[f] : f \in a.set \cap DOMAIN typeOf}
    IN IF a.type # NoType THEN a.type ELSE IF types = {} THEN DynamicFeeTx ELSE Max(types)

\* Mutant: authorizations of a dynamic-fee transaction are not looked at.
FieldsWithoutAuthorizations(type, blobFields) ==
    CASE type = LegacyTx     -> DynamicFees \cup {"accessList", "authorizationList"} \cup blobFields
      [] type = AccessListTx -> DynamicFees \cup {"authorizationList"} \cup blobFields
      [] type = DynamicFeeTx -> {"gasPrice"} \cup blobFields
      [] type = BlobTx       -> {"gasPrice", "authorizationList"}
      [] type = SetCodeTx    -> {"gasPrice"} \cup blobFields
      [] OTHER               -> Fields

\* The fields that a type refuses.
RefusedFields(type, blobFields) ==
    CASE type = LegacyTx     -> DynamicFees \cup {"accessList", "authorizationList"} \cup blobFields
      [] type = AccessListTx -> DynamicFees \cup {"authorizationList"} \cup blobFields
      [] type = DynamicFeeTx -> {"gasPrice", "authorizationList"} \cup blobFields
      [] type = BlobTx       -> {"gasPrice", "authorizationList"}
      [] type = SetCodeTx    -> {"gasPrice"} \cup blobFields
      [] OTHER               -> Fields

\* The list is not nil and has elements.
Some(a, list) == list \in a.set /\ list \notin a.empty

\* validateTransactionFields.
ValidFields(type, a) ==
    /\ type <= SetCodeTx
    /\ a.set \cap RefusedFields(type, BlobFields) = {}
    /\ type \in {BlobTx, SetCodeTx} => "to" \in a.set
    /\ type = SetCodeTx => Some(a, "authorizationList")
    /\ a.set \cap {"to", "input"} # {}

\* validateSimulationTransactionFields, with sanitizeCall's refusal of sidecars.
ValidSimulatedFields(type, a) ==
    /\ type <= SetCodeTx
    /\ a.set \cap {"blobs", "proofs"} = {}
    /\ a.set \cap RefusedFields(type, {"blobVersionedHashes"}) = {}
    /\ type \in {BlobTx, SetCodeTx} => "to" \in a.set
    /\ type = SetCodeTx => Some(a, "authorizationList")
    /\ type = BlobTx => Some(a, "blobVersionedHashes")

\* The fees of a type: fillTransactionFees, sanitizeCall.
FeesOf(type) ==
    CASE type \in {LegacyTx, AccessListTx} -> {"gasPrice"}
      [] type = BlobTx                     -> DynamicFees \cup {"maxFeePerBlobGas"}
      [] OTHER                             -> DynamicFees

\* eth_signTransaction computes no gas, nonce or fee, except the blob fee.
Complete(type, a) == {"gas"} \cup FeesOf(type) \subseteq a.set \cup {"maxFeePerBlobGas"}

\* prepareBlobSidecar.
ValidSidecar(a) ==
    IF "blobs" \in a.set
    THEN Some(a, "blobs") /\ ("blobVersionedHashes" \in a.set => Some(a, "blobVersionedHashes"))
    ELSE "proofs" \notin a.set /\ Some(a, "blobVersionedHashes")

\* What buildAndSignTransaction, processBlock and a traced call let pass.
Builds(type, a) ==
    CASE a.caller \in {"send", "sign"} ->
            /\ ValidFields(type, a)
            /\ a.caller = "sign" => Complete(type, a)
            /\ type = BlobTx => ValidSidecar(a)
      [] a.caller = "simulate" -> ValidSimulatedFields(type, a)
      [] a.caller = "trace" -> type <= SetCodeTx /\ (type \in {BlobTx, SetCodeTx} => "to" \in a.set)

\* The fields that are not nil when the transaction is built; a traced call
\* fills in every quantity.
Filled(type, a) ==
    a.set \cup {"gas"}
    \cup (IF a.caller = "trace" THEN DynamicFees \cup {"gasPrice", "maxFeePerBlobGas"} ELSE FeesOf(type))
    \cup (IF type = BlobTx /\ "blobs" \in a.set THEN {"blobVersionedHashes", "proofs"} ELSE {})

\* makeUnsignedTransaction: the pointers it follows unchecked,
Dereferenced(type) ==
    {"gas"} \cup FeesOf(type) \cup (IF type \in {BlobTx, SetCodeTx} THEN {"to"} ELSE {})

\* and the fields that the transaction has.
Carried(type) ==
    {"gas", "to", "input"}
    \cup CASE type = LegacyTx     -> {"gasPrice"}
           [] type = AccessListTx -> {"gasPrice", "accessList"}
           [] type = DynamicFeeTx -> DynamicFees \cup {"accessList"}
           [] type = BlobTx       -> DynamicFees \cup BlobFields \cup {"accessList"}
           [] type = SetCodeTx    -> DynamicFees \cup {"accessList", "authorizationList"}

-----------------------------------------------------------------------------

\* Whatever combination of fields a client gives: no nil pointer is followed;
\* a transaction that is signed or simulated is of a type that carries
\* everything its client set (in a simulation "maxFeePerBlobGas is present without
\* hashes" is the exception the code names), and no empty list of blobs or
\* authorizations where there has to be one.
BuildsWhole ==
    LET type == TransactionType(args)
    IN Builds(type, args) =>
        /\ Dereferenced(type) \subseteq Filled(type, args)
        /\ args.caller # "trace" =>
              /\ args.set \subseteq Carried(type) \cup (IF args.caller = "simulate" THEN {"maxFeePerBlobGas"} ELSE {})
              /\ type = BlobTx => Some([args EXCEPT !.set = Filled(type, args)], "blobVersionedHashes")
              /\ type = SetCodeTx => Some(args, "authorizationList")

=============================================================================
