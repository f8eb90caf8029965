-------------------------- MODULE TokenFactoryTests --------------------------
(***************************************************************************)
(* The unit tests of instantiate, query and execute (contract.rs, mod      *)
(* tests) as state predicates of the contract, and what the tests' mock    *)
(* dependencies fix about the constants.  The tests are checked by         *)
(* MC_TokenFactory and proved, for every constant that meets the instance  *)
(* hypothesis, in TokenFactoryTestProofs.                                  *)
(***************************************************************************)
EXTENDS TokenFactory

(* The unit tests of the entry points (contract.rs, mod tests), with "x"   *)
(* for MOCK_CONTRACT_ADDR and DENOM_NAME, "F" for the unvalidated          *)
(* addresses "transferme" and "tome", and MaxAmount for the amount 100.    *)
(* The tests call execute on fresh dependencies; the handlers read no      *)
(* storage, so any state after instantiate stands for that.                *)
TestDenom == <<"f", "/", "x", "/", "x">>

(* The test instance: "/" is the separator and "f" stands for "factory";   *)
(* mock_dependencies resolves the query (contract, mydenom) to the denom   *)
(* factory/contract/mydenom, and its address validator accepts             *)
(* MOCK_CONTRACT_ADDR.                                                     *)
HandlerTestInstance ==
    /\ Slash = "/"
    /\ {"f", "x"} \subseteq Char
    /\ FactoryPrefix = <<"f">>
    /\ Resolves(<<"x">>, <<"x">>)
    /\ FullDenom(<<"x">>, <<"x">>) = TestDenom
    /\ <<"x">> \in ValidAddr

ASSUME HandlerTestAssumption == HandlerTestInstance

\* instantiate returns a response without messages
proper_initialization ==
    call.op = "Instantiate" => response.messages = <<>>

\* GetDenom(contract, mydenom) answers factory/contract/mydenom
query_get_denom ==
    call = [op |-> "GetDenom", creator_address |-> <<"x">>, subdenom |-> <<"x">>] =>
        response.data.denom = TestDenom

\* CreateDenom(mydenom): one CreateDenom message without metadata, the one
\* attribute method = create_denom, and no data
msg_create_denom_success ==
    call = [op |-> "CreateDenom", subdenom |-> <<"x">>] =>
        /\ response.messages = << [type |-> "CreateDenom", subdenom |-> <<"x">>,
                                   metadata |-> <<>>] >>
        /\ response.attributes = << <<"method", "create_denom">> >>
        /\ "data" \notin DOMAIN response

\* CreateDenom("") fails with InvalidSubdenom
msg_create_denom_invalid_subdenom ==
    call = [op |-> "CreateDenom", subdenom |-> <<>>] =>
        ~response.ok /\ response.error.kind = "InvalidSubdenom"

\* BurnTokens(factory/contract/mydenom, 100, None): one BurnTokens message
\* without burn_from_address, the one attribute method = burn_tokens, no data
msg_burn_tokens_success ==
    call = [op |-> "BurnTokens", denom |-> TestDenom, amount |-> MaxAmount,
            burn_from_address |-> <<>>] =>
        /\ response.messages = << [type |-> "BurnTokens", denom |-> TestDenom,
                                   amount |-> MaxAmount, burn_from_address |-> <<>>] >>
        /\ response.attributes = << <<"method", "burn_tokens">> >>
        /\ "data" \notin DOMAIN response

\* BurnTokens with Some(contract address) succeeds
msg_burn_tokens_input_address ==
    call = [op |-> "BurnTokens", denom |-> TestDenom, amount |-> MaxAmount,
            burn_from_address |-> << <<"x">> >>] =>
        response.ok

\* ForceTransfer between two addresses addr_validate would refuse succeeds
msg_force_transfer_tokens_address ==
    call = [op |-> "ForceTransfer", denom |-> TestDenom, amount |-> MaxAmount,
            from_address |-> <<"F">>, to_address |-> <<"F">>] =>
        response.ok

(* The model of the entry points gives, on the call of each unit test of   *)
(* instantiate, query and execute, the response that test asserts: the     *)
(* messages, the attributes and the errors the repository's tests pin down *)
(* and the other properties leave free.                                    *)
HandlerUnitTests ==
    response # NoValue =>
        /\ proper_initialization
        /\ query_get_denom
        /\ msg_create_denom_success
        /\ msg_create_denom_invalid_subdenom
        /\ msg_burn_tokens_success
        /\ msg_burn_tokens_input_address
        /\ msg_force_transfer_tokens_address
=============================================================================
