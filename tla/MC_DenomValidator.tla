-------------------------- MODULE MC_DenomValidator --------------------------
(***************************************************************************)
(* Model-checking harness for validate_denom: the driver of               *)
(* DenomValidatorDriver on every string of up to 7 characters, a resolver  *)
(* that answers the query of every unit test of DenomValidatorTests as its *)
(* mock does, and a recursive reference split that Split is checked       *)
(* against before the run.                                                 *)
(***************************************************************************)
EXTENDS DenomValidatorTests

\* the alphabet: "f" stands for "factory", "F" for its upper-case form
MCFactoryPrefix == <<"f">>

MCAsciiLower == [c \in {"f", "F", "x", "/"} |-> IF c = "F" THEN "f" ELSE c]

(* The resolver of the harness refuses what the handler of the query-error *)
(* mock refuses (an empty creator or subdenom) and accepts the rest, as    *)
(* mock_dependencies does: on the query of every unit test it answers as   *)
(* the mock that test uses.                                                *)
MCResolves(c, s) == c # <<>> /\ s # <<>>

\* the longest denom the driver builds: long enough for the four-part denom
\* of msg_validate_denom_too_many_parts_invalid
MCMaxDenomLen == 7

---------------------------------------------------------------------------
\* Reference definition of str::split: a character either starts a new part
\* (the separator) or is prepended to the first part of the rest.
RECURSIVE SplitRef(_)
SplitRef(s) ==
    IF s = <<>> THEN << <<>> >>
    ELSE LET rest == SplitRef(Tail(s)) IN
         IF Head(s) = Slash THEN << <<>> >> \o rest
         ELSE [rest EXCEPT ![1] = <<Head(s)>> \o @]

\* every string the driver builds
MCStrings == UNION {[1..n -> Char] : n \in 0..MCMaxDenomLen}

(* A sanity check of the harness, evaluated once before the run: on every  *)
(* string the driver builds, the non-recursive Split of DenomValidator cuts *)
(* the same parts as the reference definition of str::split.  It checks    *)
(* the model's rendering of the library call, not the contract.            *)
ASSUME SplitAgreesWithReference == \A s \in MCStrings : Split(s) = SplitRef(s)
=============================================================================
