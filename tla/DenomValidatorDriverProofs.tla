--------------------- MODULE DenomValidatorDriverProofs ---------------------
(***************************************************************************)
(* ValidateDenomCorrect, which MC_DenomValidator checks on every string of *)
(* up to 7 characters, proved for every string, alphabet, prefix, case     *)
(* mapping, resolver and bound.                                            *)
(***************************************************************************)
EXTENDS DenomValidatorDriver, DenomValidatorProofs, TLAPS

\* the inductive invariant: the input is a string, and the recorded verdict
\* is what validate_denom returns on it
DriverInv ==
    /\ input \in String
    /\ verdict = ValidateDenom(input)

\* every step of the driver keeps the verdict that of the current input
LEMMA DriverStep == DriverInv /\ [DriverNext]_dvars => DriverInv'
<1> SUFFICES ASSUME DriverInv, [DriverNext]_dvars PROVE DriverInv'
    OBVIOUS
<1>1. CASE Clear
    BY <1>1, EmptySeq DEF Clear, DriverInv, String
<1>2. ASSUME NEW c \in Char, Type(c) PROVE DriverInv'
    <2>1. input' \in String
        BY <1>2, AppendProperties DEF Type, DriverInv, String
    <2>. QED
        BY <1>2, <2>1 DEF Type, DriverInv
<1>3. CASE UNCHANGED dvars
    BY <1>3 DEF DriverInv, dvars
<1>. QED
    BY <1>1, <1>2, <1>3 DEF DriverNext

(* validate_denom accepts exactly the denoms of DenomGrammar, and every    *)
(* refusal names the denom and reports the part count, the prefix found   *)
(* or the query the resolver refused, whatever the string.                 *)
THEOREM VerdictsCorrect == DriverSpec => []ValidateDenomCorrect
<1>1. DriverInit => DriverInv
    BY EmptySeq DEF DriverInit, DriverInv, String
<1>2. DriverInv => ValidateDenomCorrect
    <2> SUFFICES ASSUME DriverInv PROVE ValidateDenomCorrect
        OBVIOUS
    <2>1. input \in String /\ verdict = ValidateDenom(input)
        BY DEF DriverInv
    <2>2. (verdict = DenomOk) <=> DenomGrammar(input)
        BY <2>1, ValidateDenomSound, ValidateDenomComplete
    <2>3. verdict # DenomOk =>
             /\ verdict.denom = input
             /\ verdict.message.why = "parts" =>
                  verdict.message.had = Len(Split(input)) /\ verdict.message.had # 3
             /\ verdict.message.why = "prefix" =>
                  /\ verdict.message.was = Split(input)[1]
                  /\ ~EqIgnoreAsciiCase(verdict.message.was, FactoryPrefix)
             /\ verdict.message.why = "resolver" =>
                  /\ verdict.message.creator = Split(input)[2]
                  /\ verdict.message.subdenom = Split(input)[3]
        BY <2>1, ValidateDenomReports
    <2>. QED
        BY <2>2, <2>3 DEF ValidateDenomCorrect
<1>. QED
    BY <1>1, <1>2, DriverStep, PTL DEF DriverSpec
=============================================================================
