--------------------------- MODULE DenomValidator ---------------------------
(***************************************************************************)
(* validate_denom of the tokenfactory contract (contract.rs): split the    *)
(* denom on '/', require exactly three parts, require the first part to be *)
(* "factory" up to ASCII case, then ask the chain's resolver               *)
(* (TokenQuerier::full_denom) about the creator and the subdenom.          *)
(*                                                                         *)
(* Strings are sequences over a small alphabet Char.  The split is written *)
(* without recursion (the positions of the separators and their ranks) so *)
(* that the module can be used by the proofs; MC_DenomValidator checks it  *)
(* against a recursive reference definition.                               *)
(***************************************************************************)
EXTENDS Naturals, Sequences, FiniteSets

CONSTANTS
    Char,           \* the characters strings are made of
    Slash,          \* the separator '/'
    FactoryPrefix,  \* the string "factory"
    AsciiLower,     \* char::to_ascii_lowercase on Char
    Resolves(_, _)  \* TokenQuerier::full_denom(creator, subdenom) is Ok

String == Seq(Char)

ASSUME CharAssumption ==
    /\ Slash \in Char
    /\ FactoryPrefix \in String
    /\ AsciiLower \in [Char -> Char]

---------------------------------------------------------------------------
(* str::split('/') followed by collect(): the positions of the separators, *)
(* the number of parts (one more than the separators), and the k-th part,  *)
(* the text between the (k-1)-th and the k-th separator.                   *)
SlashAt(s) == {i \in 1..Len(s) : s[i] = Slash}

PartCount(s) == Cardinality(SlashAt(s)) + 1

\* the rank of separator i: how many separators lie at or before it
SlashRank(s, i) == Cardinality({j \in SlashAt(s) : j <= i})

\* the end of part k: 0 before the first part, Len(s) + 1 after the last
Boundary(s, k) ==
    IF k = 0 THEN 0
    ELSE IF k = PartCount(s) THEN Len(s) + 1
    ELSE CHOOSE i \in SlashAt(s) : SlashRank(s, i) = k

Split(s) ==
    [k \in 1..PartCount(s) |-> SubSeq(s, Boundary(s, k - 1) + 1, Boundary(s, k) - 1)]

\* Defect variant: a case-sensitive comparison.
EqCaseSensitive(a, b) == a = b

\* str::eq_ignore_ascii_case
EqIgnoreAsciiCase(a, b) ==
    /\ Len(a) = Len(b)
    /\ \A i \in 1..Len(a) : AsciiLower[a[i]] = AsciiLower[b[i]]

---------------------------------------------------------------------------
(* TokenFactoryError::InvalidDenom { denom, message }: the message is      *)
(* modelled by what it reports: the count of parts, the prefix that was   *)
(* found, or the resolver's error, which is determined by the query it     *)
(* refused (the creator and the subdenom it was asked about).              *)
InvalidDenom(d, msg) == [kind |-> "InvalidDenom", denom |-> d, message |-> msg]

\* Defect variant: the count of separators reported in place of the parts.
PartsMsgSeparators(n) == [why |-> "parts", had |-> n - 1]

PartsMsg(n) == [why |-> "parts", had |-> n]

PrefixMsg(p) == [why |-> "prefix", was |-> p]

ResolverMsg(c, s) == [why |-> "resolver", creator |-> c, subdenom |-> s]

DenomMessages ==
    [why : {"parts"}, had : Nat] \cup [why : {"prefix"}, was : String]
        \cup [why : {"resolver"}, creator : String, subdenom : String]

\* Result::Ok(())
DenomOk == [kind |-> "Ok"]

DenomResults ==
    {DenomOk} \cup [kind : {"InvalidDenom"}, denom : String, message : DenomMessages]

\* Defect variant: "at least three parts", so that factory/c/a/b passes.
ValidateDenomAtLeast3(d) ==
    LET parts == Split(d) IN
    IF PartCount(d) < 3
    THEN InvalidDenom(d, PartsMsg(PartCount(d)))
    ELSE IF ~EqIgnoreAsciiCase(parts[1], FactoryPrefix)
    THEN InvalidDenom(d, PrefixMsg(parts[1]))
    ELSE IF ~Resolves(parts[2], parts[3])
    THEN InvalidDenom(d, ResolverMsg(parts[2], parts[3]))
    ELSE DenomOk

\* validate_denom(deps, denom): each check returns early, in code order
ValidateDenom(d) ==
    LET parts == Split(d) IN
    IF PartCount(d) # 3
    THEN InvalidDenom(d, PartsMsg(PartCount(d)))
    ELSE IF ~EqIgnoreAsciiCase(parts[1], FactoryPrefix)
    THEN InvalidDenom(d, PrefixMsg(parts[1]))
    ELSE IF ~Resolves(parts[2], parts[3])
    THEN InvalidDenom(d, ResolverMsg(parts[2], parts[3]))
    ELSE DenomOk

---------------------------------------------------------------------------
(* What a valid denom is, stated without the split and without its        *)
(* helpers: the string is p/c/s with exactly two separators, p lowers to   *)
(* "factory" character by character, and the resolver accepts creator c    *)
(* and subdenom s.                                                         *)
Lowered(p) == [k \in 1..Len(p) |-> AsciiLower[p[k]]]

DenomGrammar(d) ==
    \E i, j \in 1..Len(d) :
        /\ i < j
        /\ \A k \in 1..Len(d) : d[k] = Slash <=> k \in {i, j}
        /\ Lowered(SubSeq(d, 1, i - 1)) = Lowered(FactoryPrefix)
        /\ Resolves(SubSeq(d, i + 1, j - 1), SubSeq(d, j + 1, Len(d)))

=============================================================================
