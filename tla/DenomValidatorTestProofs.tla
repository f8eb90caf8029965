---------------------- MODULE DenomValidatorTestProofs ----------------------
(***************************************************************************)
(* The unit tests of validate_denom, which MC_DenomValidator checks on its *)
(* one instance, proved for every alphabet, case mapping, resolver and     *)
(* bound that agree with the tests' strings and mocks (the hypothesis      *)
(* ValidatorTestInstance), from the driver's invariant and the lemmas on   *)
(* the tests' strings in DenomValidatorProofs.                             *)
(***************************************************************************)
EXTENDS DenomValidatorTests, DenomValidatorDriverProofs, TLAPS

(* On every input of a unit test of validate_denom, the verdict the driver *)
(* records is the result that test asserts: Ok for factory/contract/       *)
(* mydenom, the part counts 4 and 2, the prefix "invalid", and the         *)
(* resolver's "invalid creator address" for factory//mydenom.              *)
THEOREM ValidatorTestsPass == DriverSpec => []ValidatorUnitTests
<1>1. DriverInit => DriverInv
    BY EmptySeq DEF DriverInit, DriverInv, String
<1>2. DriverInv => ValidatorUnitTests
    <2> SUFFICES ASSUME DriverInv PROVE ValidatorUnitTests
        OBVIOUS
    <2>1. verdict = ValidateDenom(input)
        BY DEF DriverInv
    <2>2. /\ Slash = "/"
          /\ "f" \in Char /\ "x" \in Char
          /\ FactoryPrefix = <<"f">>
          /\ AsciiLower["x"] # AsciiLower["f"]
          /\ Resolves(<<"x">>, <<"x">>)
          /\ ~Resolves(<<>>, <<"x">>)
        BY ValidatorTestAssumption DEF ValidatorTestInstance
    <2>3. msg_validate_denom_too_many_parts_valid
        BY <2>1, <2>2, TestDenomValid DEF msg_validate_denom_too_many_parts_valid
    <2>4. msg_validate_denom_too_many_parts_invalid
        BY <2>1, <2>2, FourPartDenom
        DEF msg_validate_denom_too_many_parts_invalid, InvalidDenom, PartsMsg
    <2>5. msg_validate_denom_not_enough_parts_invalid
        BY <2>1, <2>2, TwoPartDenom
        DEF msg_validate_denom_not_enough_parts_invalid, InvalidDenom, PartsMsg
    <2>6. msg_validate_denom_denom_prefix_invalid
        BY <2>1, <2>2, WrongPrefixDenom
        DEF msg_validate_denom_denom_prefix_invalid, InvalidDenom, PrefixMsg
    <2>7. msg_validate_denom_creator_address_invalid
        BY <2>1, <2>2, EmptyCreatorDenom
        DEF msg_validate_denom_creator_address_invalid, InvalidDenom, ResolverMsg,
            QueryErrorMock
    <2>. QED
        BY <2>3, <2>4, <2>5, <2>6, <2>7 DEF ValidatorUnitTests
<1>. QED
    BY <1>1, <1>2, DriverStep, PTL DEF DriverSpec
=============================================================================
