------------------------- MODULE DenomValidatorTests -------------------------
(***************************************************************************)
(* The unit tests of validate_denom (contract.rs, mod tests) as state      *)
(* predicates of the driver, and the instance they run on: what the tests' *)
(* strings, DENOM_PREFIX and mock resolvers fix about the constants.  The  *)
(* tests are checked by MC_DenomValidator and proved, for every constant   *)
(* that meets the instance hypothesis, in DenomValidatorTestProofs.        *)
(***************************************************************************)
EXTENDS DenomValidatorDriver

(* The error mock_dependencies_with_query_error answers a FullDenom query  *)
(* with: its handler refuses an empty creator, then an empty subdenom; any *)
(* other query gets its own request back, which full_denom cannot read as  *)
(* a FullDenomResponse, so it fails as well.                               *)
QueryErrorMock(c, s) ==
    CASE c = <<>> -> "invalid creator address"
      [] s = <<>> -> "invalid subdenom"
      [] OTHER    -> "unreadable response"

(* The test instance: "/" is the separator, "f" stands for "factory" and   *)
(* "x" for MOCK_CONTRACT_ADDR, DENOM_NAME and "invalid", whose lower-case   *)
(* forms differ from that of "f"; the resolver accepts the query of         *)
(* factory/contract/mydenom (mock_dependencies) and refuses the one with an *)
(* empty creator (the handler of mock_dependencies_with_query_error).      *)
ValidatorTestInstance ==
    /\ Slash = "/"
    /\ {"f", "x"} \subseteq Char
    /\ FactoryPrefix = <<"f">>
    /\ AsciiLower["x"] # AsciiLower["f"]
    /\ Resolves(<<"x">>, <<"x">>)
    /\ ~Resolves(<<>>, <<"x">>)

ASSUME ValidatorTestAssumption == ValidatorTestInstance

---------------------------------------------------------------------------
(* The unit tests of validate_denom (contract.rs, mod tests), with "f" for *)
(* DENOM_PREFIX, "x" for MOCK_CONTRACT_ADDR, DENOM_NAME and "invalid".     *)

\* factory/contract/mydenom is accepted
msg_validate_denom_too_many_parts_valid ==
    input = <<"f", "/", "x", "/", "x">> => verdict = DenomOk

\* factory/contract/mydenom/invalid: "denom must have 3 parts ..., had 4"
msg_validate_denom_too_many_parts_invalid ==
    input = <<"f", "/", "x", "/", "x", "/", "x">> =>
        verdict = [kind |-> "InvalidDenom", denom |-> input,
                   message |-> [why |-> "parts", had |-> 4]]

\* factory/contract: "denom must have 3 parts ..., had 2"
msg_validate_denom_not_enough_parts_invalid ==
    input = <<"f", "/", "x">> =>
        verdict = [kind |-> "InvalidDenom", denom |-> input,
                   message |-> [why |-> "parts", had |-> 2]]

\* invalid/contract/mydenom: "prefix must be 'factory', was invalid"
msg_validate_denom_denom_prefix_invalid ==
    input = <<"x", "/", "x", "/", "x">> =>
        verdict = [kind |-> "InvalidDenom", denom |-> input,
                   message |-> [why |-> "prefix", was |-> <<"x">>]]

\* factory//mydenom under the query-error mock: an InvalidDenom naming the
\* denom whose message contains "invalid creator address"
msg_validate_denom_creator_address_invalid ==
    input = <<"f", "/", "/", "x">> =>
        /\ verdict.kind = "InvalidDenom"
        /\ verdict.denom = input
        /\ verdict.message.why = "resolver"
        /\ QueryErrorMock(verdict.message.creator, verdict.message.subdenom)
              = "invalid creator address"

(* The model of validate_denom gives, on the input of each unit test of    *)
(* validate_denom, the result that test asserts: the model agrees with the *)
(* repository's own account of the function, exact error texts included.  *)
ValidatorUnitTests ==
    /\ msg_validate_denom_too_many_parts_valid
    /\ msg_validate_denom_too_many_parts_invalid
    /\ msg_validate_denom_not_enough_parts_invalid
    /\ msg_validate_denom_denom_prefix_invalid
    /\ msg_validate_denom_creator_address_invalid
=============================================================================
