----------------------- MODULE TokenFactoryTestProofs -----------------------
(***************************************************************************)
(* The unit tests of instantiate, query and execute, which MC_TokenFactory *)
(* checks on its one instance, proved for every set of addresses, denoms,  *)
(* amounts and resolver that agree with the tests' mock dependencies (the  *)
(* hypothesis HandlerTestInstance), from the invariant ReplyInv that every *)
(* response is the reply the handlers' early returns give to the call.     *)
(***************************************************************************)
EXTENDS TokenFactoryTests, TokenFactoryReplyProofs, TLAPS

(* Whatever the contract was called with before, each call of a unit test  *)
(* of the entry points is answered as that test asserts: instantiate with  *)
(* no messages, get_denom with factory/contract/mydenom, create_denom with *)
(* one CreateDenom message and the method attribute or InvalidSubdenom for *)
(* an empty subdenom, burn_tokens with one BurnTokens message, and         *)
(* force_transfer with success for addresses addr_validate would refuse.   *)
THEOREM HandlerTestsPass == Spec => []HandlerUnitTests
<1>1. ReplyInv => HandlerUnitTests
    <2> SUFFICES ASSUME ReplyInv, response # NoValue
                 PROVE  HandlerUnitTests
        BY DEF HandlerUnitTests
    <2>1. response = Reply(call)
        BY DEF ReplyInv
    <2>2. /\ Slash = "/"
          /\ "f" \in Char /\ "x" \in Char
          /\ FactoryPrefix = <<"f">>
          /\ Resolves(<<"x">>, <<"x">>)
          /\ FullDenom(<<"x">>, <<"x">>) = TestDenom
          /\ <<"x">> \in ValidAddr
        BY HandlerTestAssumption DEF HandlerTestInstance
    <2>3. ValidateDenom(TestDenom) = DenomOk
        BY <2>2, TestDenomValid DEF TestDenom
    <2>4. MaxAmount # 0
        BY InputAssumption
    <2>5. proper_initialization
        BY <2>1 DEF proper_initialization, Reply
    <2>6. query_get_denom
        BY <2>1, <2>2 DEF query_get_denom, Reply
    <2>7. msg_create_denom_success
        BY <2>1 DEF msg_create_denom_success, Reply, Accepted, CreateDenomMsg, None
    <2>8. msg_create_denom_invalid_subdenom
        BY <2>1 DEF msg_create_denom_invalid_subdenom, Reply, Rejected, InvalidSubdenom
    <2>9. msg_burn_tokens_success
        BY <2>1, <2>3, <2>4
        DEF msg_burn_tokens_success, Reply, Accepted, BurnMsg, OptAddrRejected, None
    <2>10. msg_burn_tokens_input_address
        BY <2>1, <2>2, <2>3, <2>4
        DEF msg_burn_tokens_input_address, Reply, Accepted, OptAddrRejected, None
    <2>11. msg_force_transfer_tokens_address
        <3> SUFFICES ASSUME call = [op |-> "ForceTransfer", denom |-> TestDenom,
                                    amount |-> MaxAmount, from_address |-> <<"F">>,
                                    to_address |-> <<"F">>]
                     PROVE  response.ok
            BY DEF msg_force_transfer_tokens_address
        <3>1. response = Accepted(ForceTransferMsg(TestDenom, MaxAmount, <<"F">>, <<"F">>),
                                  "force_transfer_tokens")
            BY <2>1, <2>3, <2>4 DEF Reply
        <3>. QED
            BY <3>1 DEF Accepted
    <2>. QED
        BY <2>5, <2>6, <2>7, <2>8, <2>9, <2>10, <2>11 DEF HandlerUnitTests
<1>. QED
    BY <1>1, AlwaysReply, PTL
=============================================================================
