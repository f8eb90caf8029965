------------------------ MODULE DenomValidatorDriver ------------------------
(***************************************************************************)
(* A driver for validate_denom: it builds strings one character at a time *)
(* and records the verdict of ValidateDenom on each, so that what          *)
(* validate_denom returns can be stated as an invariant and checked by TLC *)
(* on every string of a bounded length, and proved for every string.      *)
(***************************************************************************)
EXTENDS DenomValidator

CONSTANT MaxDenomLen  \* the longest denom the driver builds

ASSUME MaxDenomLenAssumption == MaxDenomLen \in Nat

VARIABLES input, verdict

dvars == <<input, verdict>>

DriverInit ==
    /\ input = <<>>
    /\ verdict = ValidateDenom(<<>>)

\* extend the input by one character and validate it
Type(c) ==
    /\ Len(input) < MaxDenomLen
    /\ input' = Append(input, c)
    /\ verdict' = ValidateDenom(input')

\* start again from the empty string
Clear ==
    /\ input' = <<>>
    /\ verdict' = ValidateDenom(<<>>)

DriverNext == Clear \/ \E c \in Char : Type(c)

DriverSpec == DriverInit /\ [][DriverNext]_dvars

---------------------------------------------------------------------------
(* validate_denom accepts exactly the strings of the form p/c/s with p     *)
(* "factory" up to case and (c, s) accepted by the resolver, and every     *)
(* refusal names the denom and reports what was wrong: the observed part   *)
(* count (never 3), the observed prefix (never "factory"), or the          *)
(* resolver's error for the query it was sent, which asks about the second *)
(* part as the creator and the third as the subdenom.  The parts are those *)
(* of Split; MC_DenomValidator checks Split against a reference split in   *)
(* the same run.                                                           *)
ValidateDenomCorrect ==
    /\ (verdict = DenomOk) <=> DenomGrammar(input)
    /\ verdict # DenomOk =>
         /\ verdict.denom = input
         /\ verdict.message.why = "parts" =>
              verdict.message.had = Len(Split(input)) /\ verdict.message.had # 3
         /\ verdict.message.why = "prefix" =>
              /\ verdict.message.was = Split(input)[1]
              /\ ~EqIgnoreAsciiCase(verdict.message.was, FactoryPrefix)
         /\ verdict.message.why = "resolver" =>
              /\ verdict.message.creator = Split(input)[2]
              /\ verdict.message.subdenom = Split(input)[3]
=============================================================================
