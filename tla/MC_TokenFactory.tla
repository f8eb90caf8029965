--------------------------- MODULE MC_TokenFactory ---------------------------
(***************************************************************************)
(* A small instance of the contract for TLC.  Characters: "f" stands for   *)
(* "factory", "F" for its upper-case form, "x" for any other letter and    *)
(* "/" is the separator.  The resolver is the one of the contract's tests. *)
(***************************************************************************)
EXTENDS TokenFactoryTests

MCFactoryPrefix == <<"f">>

MCAsciiLower == [c \in {"f", "F", "x", "/"} |-> IF c = "F" THEN "f" ELSE c]

(* The resolver refuses what the handler of mock_dependencies_with_query_ *)
(* error refuses, an empty creator or subdenom, and accepts the rest, as   *)
(* mock_dependencies does: on the query of every unit test it answers as   *)
(* the mock that test uses.                                                *)
MCResolves(c, s) == c # <<>> /\ s # <<>>

\* mock_dependencies: every query is answered with factory/creator/subdenom
MCFullDenom(c, s) == MCFactoryPrefix \o <<"/">> \o c \o <<"/">> \o s

\* "x" is the contract's address; the upper-case "F" is not a valid address
MCAddr == {<<"x">>, <<"f">>, <<"F">>}
MCValidAddr == {<<"x">>, <<"f">>}
MCContractAddr == <<"x">>

(* One denom for every way validate_denom can end: valid, valid with the   *)
(* prefix in upper case, wrong prefix, prefix of the wrong length, empty   *)
(* creator, empty subdenom, one, two and four parts.                       *)
MCDenoms ==
    { <<"f", "/", "x", "/", "x">>,
      <<"F", "/", "x", "/", "f">>,
      <<"x", "/", "x", "/", "x">>,
      <<"f", "f", "/", "x", "/", "x">>,
      <<"f", "/", "/", "x">>,
      <<"f", "/", "x", "/">>,
      <<>>,
      <<"f", "/", "x">>,
      <<"f", "/", "x", "/", "x", "/", "x">> }

\* empty, plain, and containing a separator
MCSubdenoms == { <<>>, <<"x">>, <<"x", "/", "x">> }
=============================================================================
