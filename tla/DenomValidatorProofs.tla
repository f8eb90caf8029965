------------------------- MODULE DenomValidatorProofs -------------------------
(***************************************************************************)
(* Proofs about validate_denom, for every alphabet, separator, prefix,     *)
(* case mapping and resolver that satisfy CharAssumption: the split of a   *)
(* three-part string, and what validate_denom accepts and reports.         *)
(***************************************************************************)
EXTENDS DenomValidator, FiniteSetTheorems, SequenceTheorems, TLAPS

---------------------------------------------------------------------------
(* Lemmas about the split of validate_denom.                               *)

\* the separators of a string are a finite set, so the part count is a number
LEMMA PartCountType ==
    ASSUME NEW s \in String
    PROVE  /\ IsFiniteSet(SlashAt(s))
           /\ Cardinality(SlashAt(s)) \in Nat
           /\ PartCount(s) \in Nat \ {0}
<1>1. IsFiniteSet(1..Len(s))
    BY FS_Interval
<1>2. SlashAt(s) \in SUBSET (1..Len(s))
    BY DEF SlashAt
<1>3. IsFiniteSet(SlashAt(s))
    BY <1>1, <1>2, FS_Subset
<1>4. Cardinality(SlashAt(s)) \in Nat
    BY <1>3, FS_CardinalityType
<1>. QED
    BY <1>3, <1>4 DEF PartCount

\* a string split into three parts has exactly two separators a < b
LEMMA TwoSlashes ==
    ASSUME NEW s \in String, PartCount(s) = 3
    PROVE  \E a, b \in 1..Len(s) : a < b /\ SlashAt(s) = {a, b}
<1> DEFINE S == SlashAt(s)
<1>1. IsFiniteSet(S) /\ Cardinality(S) = 2
    BY PartCountType DEF PartCount
<1>2. PICK x \in S : TRUE
    <2>1. S # {}
        BY <1>1, FS_EmptySet
    <2>. QED
        BY <2>1
<1>3. IsFiniteSet(S \ {x}) /\ Cardinality(S \ {x}) = 1
    BY <1>1, <1>2, FS_RemoveElement
<1>4. PICK y : S \ {x} = {y}
    BY <1>3, FS_Singleton
<1>5. S = {x, y} /\ x # y
    BY <1>2, <1>4
<1>6. S \subseteq 1..Len(s)
    BY DEF SlashAt
<1>. QED
    <2>1. CASE x < y
        BY <1>5, <1>6, <2>1
    <2>2. CASE y < x
        BY <1>5, <1>6, <2>2
    <2>. QED
        BY <1>5, <1>6, <2>1, <2>2

\* the first part of a three-part string ends before a separator of it
LEMMA FirstBoundary ==
    ASSUME NEW s \in String, PartCount(s) = 3
    PROVE  Boundary(s, 1) \in 1..Len(s)
<1>1. PICK a, b \in 1..Len(s) : a < b /\ SlashAt(s) = {a, b}
    BY TwoSlashes
<1>2. {j \in SlashAt(s) : j <= a} = {a}
    BY <1>1
<1>3. SlashRank(s, a) = 1
    BY <1>2, FS_Singleton DEF SlashRank
<1>4. \E i \in SlashAt(s) : SlashRank(s, i) = 1
    BY <1>1, <1>3
<1>5. Boundary(s, 1) = CHOOSE i \in SlashAt(s) : SlashRank(s, i) = 1
    BY DEF Boundary
<1>. QED
    BY <1>1, <1>4, <1>5

\* two distinct values make a set of two
LEMMA PairCardinality ==
    ASSUME NEW a, NEW b, a # b
    PROVE  IsFiniteSet({a, b}) /\ Cardinality({a, b}) = 2
<1>1. IsFiniteSet({a}) /\ Cardinality({a}) = 1
    BY FS_Singleton
<1>2. {a, b} = {a} \cup {b} /\ b \notin {a}
    OBVIOUS
<1>. QED
    BY <1>1, <1>2, FS_AddElement

\* the three parts of a three-part string lie around its two separators a < b
LEMMA ThreeParts ==
    ASSUME NEW s \in String, PartCount(s) = 3
    PROVE  \E a, b \in 1..Len(s) :
              /\ a < b
              /\ SlashAt(s) = {a, b}
              /\ Split(s)[1] = SubSeq(s, 1, a - 1)
              /\ Split(s)[2] = SubSeq(s, a + 1, b - 1)
              /\ Split(s)[3] = SubSeq(s, b + 1, Len(s))
<1>1. PICK a, b \in 1..Len(s) : a < b /\ SlashAt(s) = {a, b}
    BY TwoSlashes
<1>2. SlashRank(s, a) = 1
    <2>1. {j \in SlashAt(s) : j <= a} = {a}
        BY <1>1
    <2>. QED
        BY <2>1, FS_Singleton DEF SlashRank
<1>3. SlashRank(s, b) = 2
    <2>1. {j \in SlashAt(s) : j <= b} = {a, b}
        BY <1>1
    <2>2. a # b
        BY <1>1
    <2>3. Cardinality({a, b}) = 2
        BY <2>2, PairCardinality
    <2>. QED
        BY <2>1, <2>3 DEF SlashRank
<1>4. Boundary(s, 1) = a
    <2>1. Boundary(s, 1) = CHOOSE i \in SlashAt(s) : SlashRank(s, i) = 1
        BY DEF Boundary
    <2>2. \E i \in SlashAt(s) : SlashRank(s, i) = 1
        BY <1>1, <1>2
    <2>3. Boundary(s, 1) \in {a, b} /\ SlashRank(s, Boundary(s, 1)) = 1
        BY <1>1, <2>1, <2>2
    <2>. QED
        BY <1>3, <2>3
<1>5. Boundary(s, 2) = b
    <2>1. Boundary(s, 2) = CHOOSE i \in SlashAt(s) : SlashRank(s, i) = 2
        BY DEF Boundary
    <2>2. \E i \in SlashAt(s) : SlashRank(s, i) = 2
        BY <1>1, <1>3
    <2>3. Boundary(s, 2) \in {a, b} /\ SlashRank(s, Boundary(s, 2)) = 2
        BY <1>1, <2>1, <2>2
    <2>. QED
        BY <1>2, <2>3
<1>6. Boundary(s, 0) = 0 /\ Boundary(s, 3) = Len(s) + 1
    BY DEF Boundary
<1>7. \A k \in 1..3 : Split(s)[k] = SubSeq(s, Boundary(s, k - 1) + 1, Boundary(s, k) - 1)
    BY DEF Split
<1>8. Split(s)[1] = SubSeq(s, 1, a - 1)
    <2>1. Split(s)[1] = SubSeq(s, Boundary(s, 0) + 1, Boundary(s, 1) - 1)
        BY <1>7
    <2>. QED
        BY <2>1, <1>4, <1>6
<1>9. Split(s)[2] = SubSeq(s, a + 1, b - 1)
    <2>1. Split(s)[2] = SubSeq(s, Boundary(s, 1) + 1, Boundary(s, 2) - 1)
        BY <1>7
    <2>. QED
        BY <2>1, <1>4, <1>5
<1>10. Split(s)[3] = SubSeq(s, b + 1, Len(s))
    <2>1. Split(s)[3] = SubSeq(s, Boundary(s, 2) + 1, Boundary(s, 3) - 1)
        BY <1>7
    <2>. QED
        BY <2>1, <1>5, <1>6
<1>. QED
    BY <1>1, <1>8, <1>9, <1>10

\* strings equal up to ASCII case have equal lower-case forms
LEMMA EqLowered ==
    ASSUME NEW p \in String, NEW q \in String, EqIgnoreAsciiCase(p, q)
    PROVE  Lowered(p) = Lowered(q)
BY DEF EqIgnoreAsciiCase, Lowered

\* validate_denom always returns Ok or an InvalidDenom of the declared shape
LEMMA ValidateDenomType ==
    ASSUME NEW d \in String
    PROVE  ValidateDenom(d) \in DenomResults
<1>1. CASE PartCount(d) # 3
    <2>1. PartCount(d) \in Nat
        BY PartCountType
    <2>. QED
        BY <1>1, <2>1 DEF ValidateDenom, InvalidDenom, PartsMsg, DenomResults, DenomMessages
<1>2. CASE PartCount(d) = 3
    <2>1. PICK a, b \in 1..Len(d) :
              /\ a < b
              /\ Split(d)[1] = SubSeq(d, 1, a - 1)
              /\ Split(d)[2] = SubSeq(d, a + 1, b - 1)
              /\ Split(d)[3] = SubSeq(d, b + 1, Len(d))
        BY <1>2, ThreeParts
    <2>2. Split(d)[1] \in String /\ Split(d)[2] \in String /\ Split(d)[3] \in String
        BY <2>1, SubSeqProperties DEF String
    <2>. QED
        BY <1>2, <2>2 DEF ValidateDenom, InvalidDenom, PrefixMsg, ResolverMsg, DenomOk,
                          DenomResults, DenomMessages
<1>. QED
    BY <1>1, <1>2

\* a denom validate_denom accepts has the form factory/creator/subdenom
\* that the resolver accepts
LEMMA ValidateDenomSound ==
    ASSUME NEW d \in String, ValidateDenom(d) = DenomOk
    PROVE  DenomGrammar(d)
<1>1. PartCount(d) = 3
    BY DEF ValidateDenom, InvalidDenom, DenomOk
<1>2. /\ EqIgnoreAsciiCase(Split(d)[1], FactoryPrefix)
      /\ Resolves(Split(d)[2], Split(d)[3])
    BY <1>1 DEF ValidateDenom, InvalidDenom, DenomOk
<1>3. PICK a, b \in 1..Len(d) :
          /\ a < b
          /\ SlashAt(d) = {a, b}
          /\ Split(d)[1] = SubSeq(d, 1, a - 1)
          /\ Split(d)[2] = SubSeq(d, a + 1, b - 1)
          /\ Split(d)[3] = SubSeq(d, b + 1, Len(d))
    BY <1>1, ThreeParts
<1>4. \A k \in 1..Len(d) : d[k] = Slash <=> k \in {a, b}
    BY <1>3 DEF SlashAt
<1>5. Lowered(SubSeq(d, 1, a - 1)) = Lowered(FactoryPrefix)
    <2>1. SubSeq(d, 1, a - 1) \in String
        BY <1>3, SubSeqProperties DEF String
    <2>. QED
        BY <1>2, <1>3, <2>1, EqLowered, CharAssumption
<1>6. Resolves(SubSeq(d, a + 1, b - 1), SubSeq(d, b + 1, Len(d)))
    BY <1>2, <1>3
<1>. QED
    BY <1>3, <1>4, <1>5, <1>6 DEF DenomGrammar

\* strings with equal lower-case forms are equal up to ASCII case
LEMMA LoweredEq ==
    ASSUME NEW p \in String, NEW q \in String, Lowered(p) = Lowered(q)
    PROVE  EqIgnoreAsciiCase(p, q)
<1>1. 1..Len(p) = 1..Len(q)
    <2>1. DOMAIN Lowered(p) = 1..Len(p) /\ DOMAIN Lowered(q) = 1..Len(q)
        BY DEF Lowered
    <2>. QED
        BY <2>1
<1>2. Len(p) = Len(q)
    <2>1. Len(p) \in Nat /\ Len(q) \in Nat
        BY DEF String
    <2>. QED
        BY <1>1, <2>1
<1>3. \A i \in 1..Len(p) : AsciiLower[p[i]] = AsciiLower[q[i]]
    <2> TAKE i \in 1..Len(p)
    <2>1. Lowered(p)[i] = AsciiLower[p[i]] /\ Lowered(q)[i] = AsciiLower[q[i]]
        BY <1>1 DEF Lowered
    <2>. QED
        BY <2>1
<1>. QED
    BY <1>2, <1>3 DEF EqIgnoreAsciiCase

\* every string of the form factory/creator/subdenom that the resolver
\* accepts passes validate_denom
LEMMA ValidateDenomComplete ==
    ASSUME NEW d \in String, DenomGrammar(d)
    PROVE  ValidateDenom(d) = DenomOk
<1>1. PICK i, j \in 1..Len(d) :
          /\ i < j
          /\ \A k \in 1..Len(d) : d[k] = Slash <=> k \in {i, j}
          /\ Lowered(SubSeq(d, 1, i - 1)) = Lowered(FactoryPrefix)
          /\ Resolves(SubSeq(d, i + 1, j - 1), SubSeq(d, j + 1, Len(d)))
    BY DEF DenomGrammar
<1>2. SlashAt(d) = {i, j}
    BY <1>1 DEF SlashAt
<1>3. PartCount(d) = 3
    <2>1. Cardinality({i, j}) = 2
        <3>1. i # j
            BY <1>1
        <3>. QED
            BY <3>1, PairCardinality
    <2>. QED
        BY <1>2, <2>1 DEF PartCount
<1>4. PICK a, b \in 1..Len(d) :
          /\ a < b
          /\ SlashAt(d) = {a, b}
          /\ Split(d)[1] = SubSeq(d, 1, a - 1)
          /\ Split(d)[2] = SubSeq(d, a + 1, b - 1)
          /\ Split(d)[3] = SubSeq(d, b + 1, Len(d))
    BY <1>3, ThreeParts
<1>5. a = i /\ b = j
    <2>1. {a, b} = {i, j}
        BY <1>2, <1>4
    <2>2. (a = i \/ a = j) /\ (b = i \/ b = j) /\ (i = a \/ i = b) /\ (j = a \/ j = b)
        BY <2>1
    <2>. QED
        BY <1>1, <1>4, <2>2
<1>6. EqIgnoreAsciiCase(Split(d)[1], FactoryPrefix)
    <2>1. SubSeq(d, 1, i - 1) \in String
        BY <1>1, SubSeqProperties DEF String
    <2>. QED
        BY <1>1, <1>4, <1>5, <2>1, LoweredEq, CharAssumption
<1>7. Resolves(Split(d)[2], Split(d)[3])
    BY <1>1, <1>4, <1>5
<1>. QED
    BY <1>3, <1>6, <1>7 DEF ValidateDenom

---------------------------------------------------------------------------
(* What validate_denom reports.                                            *)

\* the split of a string has one part more than the string has separators
LEMMA SplitLen ==
    ASSUME NEW s \in String
    PROVE  Len(Split(s)) = PartCount(s)
<1> DEFINE n == PartCount(s)
           Parts == {Split(s)[k] : k \in 1..n}
<1>1. n \in Nat
    BY PartCountType
<1>2. Split(s) \in [1..n -> Parts]
    BY DEF Split
<1>3. Split(s) \in Seq(Parts)
    BY <1>1, <1>2, SeqDef
<1>4. Len(Split(s)) \in Nat /\ DOMAIN Split(s) = 1..Len(Split(s))
    BY <1>3, LenProperties
<1>5. DOMAIN Split(s) = 1..n
    BY DEF Split
<1>. QED
    BY <1>1, <1>4, <1>5

\* a refusal of validate_denom names the denom and reports the part count
\* (never 3), the prefix found (never "factory"), or the second and third
\* parts as the query the resolver refused
LEMMA ValidateDenomReports ==
    ASSUME NEW d \in String, ValidateDenom(d) # DenomOk
    PROVE  /\ ValidateDenom(d).denom = d
           /\ ValidateDenom(d).message.why = "parts" =>
                 /\ ValidateDenom(d).message.had = Len(Split(d))
                 /\ ValidateDenom(d).message.had # 3
           /\ ValidateDenom(d).message.why = "prefix" =>
                 /\ ValidateDenom(d).message.was = Split(d)[1]
                 /\ ~EqIgnoreAsciiCase(ValidateDenom(d).message.was, FactoryPrefix)
           /\ ValidateDenom(d).message.why = "resolver" =>
                 /\ ValidateDenom(d).message.creator = Split(d)[2]
                 /\ ValidateDenom(d).message.subdenom = Split(d)[3]
<1>1. CASE PartCount(d) # 3
    <2>1. ValidateDenom(d) = InvalidDenom(d, PartsMsg(PartCount(d)))
        BY <1>1 DEF ValidateDenom
    <2>2. Len(Split(d)) = PartCount(d)
        BY SplitLen
    <2>. QED
        BY <1>1, <2>1, <2>2 DEF InvalidDenom, PartsMsg
<1>2. CASE PartCount(d) = 3 /\ ~EqIgnoreAsciiCase(Split(d)[1], FactoryPrefix)
    <2>1. ValidateDenom(d) = InvalidDenom(d, PrefixMsg(Split(d)[1]))
        BY <1>2 DEF ValidateDenom
    <2>. QED
        BY <1>2, <2>1 DEF InvalidDenom, PrefixMsg
<1>3. CASE /\ PartCount(d) = 3
           /\ EqIgnoreAsciiCase(Split(d)[1], FactoryPrefix)
           /\ ~Resolves(Split(d)[2], Split(d)[3])
    <2>1. ValidateDenom(d) = InvalidDenom(d, ResolverMsg(Split(d)[2], Split(d)[3]))
        BY <1>3 DEF ValidateDenom
    <2>. QED
        BY <2>1 DEF InvalidDenom, ResolverMsg
<1>4. CASE /\ PartCount(d) = 3
           /\ EqIgnoreAsciiCase(Split(d)[1], FactoryPrefix)
           /\ Resolves(Split(d)[2], Split(d)[3])
    BY <1>4 DEF ValidateDenom
<1>. QED
    BY <1>1, <1>2, <1>3, <1>4

---------------------------------------------------------------------------
(* When validate_denom reports a refusal of the resolver, the query it     *)
(* reports is the one the code sends: the text between the two separators *)
(* of the denom as the creator and the text after the second separator as *)
(* the subdenom, never the other way round.                                *)
THEOREM ResolverQueryParts ==
    ASSUME NEW d \in String,
           ValidateDenom(d) # DenomOk,
           ValidateDenom(d).message.why = "resolver"
    PROVE  \E a, b \in 1..Len(d) :
              /\ a < b
              /\ SlashAt(d) = {a, b}
              /\ ValidateDenom(d).message.creator = SubSeq(d, a + 1, b - 1)
              /\ ValidateDenom(d).message.subdenom = SubSeq(d, b + 1, Len(d))
<1>1. PartCount(d) = 3
    <2>1. SUFFICES ASSUME PartCount(d) # 3 PROVE FALSE
        OBVIOUS
    <2>2. ValidateDenom(d).message.why = "parts"
        BY <2>1 DEF ValidateDenom, InvalidDenom, PartsMsg
    <2>. QED
        BY <2>2
<1>2. ~EqIgnoreAsciiCase(Split(d)[1], FactoryPrefix) => ValidateDenom(d).message.why = "prefix"
    BY <1>1 DEF ValidateDenom, InvalidDenom, PrefixMsg
<1>3. ValidateDenom(d) = InvalidDenom(d, ResolverMsg(Split(d)[2], Split(d)[3]))
    BY <1>1, <1>2 DEF ValidateDenom
<1>4. PICK a, b \in 1..Len(d) :
          /\ a < b
          /\ SlashAt(d) = {a, b}
          /\ Split(d)[2] = SubSeq(d, a + 1, b - 1)
          /\ Split(d)[3] = SubSeq(d, b + 1, Len(d))
    BY <1>1, ThreeParts
<1>5. ValidateDenom(d).message = ResolverMsg(Split(d)[2], Split(d)[3])
    BY <1>3 DEF InvalidDenom
<1>6. /\ ValidateDenom(d).message.creator = Split(d)[2]
      /\ ValidateDenom(d).message.subdenom = Split(d)[3]
    BY <1>5 DEF ResolverMsg
<1>. QED
    BY <1>4, <1>6
---------------------------------------------------------------------------
(* validate_denom on the strings of its unit tests, for every constant     *)
(* that agrees with the tests on the separator, the prefix and the answers *)
(* of the resolver: "f" stands for "factory" and "x" for the other words.  *)

\* a part of one character is that character
LEMMA OneCharPart ==
    ASSUME NEW S, NEW s \in Seq(S), NEW i \in 1..Len(s)
    PROVE  SubSeq(s, i, i) = <<s[i]>>
<1>1. s[i] \in S
    BY ElementOfSeq
<1>2. SubSeq(s, i, i) \in Seq(S) /\ Len(SubSeq(s, i, i)) = 1 /\ SubSeq(s, i, i)[1] = s[i]
    BY <1>1, SubSeqProperties
<1>3. <<s[i]>> \in Seq(S) /\ Len(<<s[i]>>) = 1 /\ <<s[i]>>[1] = s[i]
    BY <1>1
<1>4. \A j \in 1..Len(SubSeq(s, i, i)) : SubSeq(s, i, i)[j] = <<s[i]>>[j]
    BY <1>2, <1>3
<1>. QED
    BY <1>2, <1>3, <1>4, SeqEqual

\* a string of three parts split at separators a < b
LEMMA SplitAt ==
    ASSUME NEW s \in String, NEW a \in 1..Len(s), NEW b \in 1..Len(s),
           a < b, SlashAt(s) = {a, b}
    PROVE  /\ PartCount(s) = 3
           /\ Split(s)[1] = SubSeq(s, 1, a - 1)
           /\ Split(s)[2] = SubSeq(s, a + 1, b - 1)
           /\ Split(s)[3] = SubSeq(s, b + 1, Len(s))
<1>1. PartCount(s) = 3
    <2>1. a # b
        OBVIOUS
    <2>2. Cardinality({a, b}) = 2
        BY <2>1, PairCardinality
    <2>. QED
        BY <2>2 DEF PartCount
<1>2. \E a2, b2 \in 1..Len(s) :
          /\ a2 < b2
          /\ SlashAt(s) = {a2, b2}
          /\ Split(s)[1] = SubSeq(s, 1, a2 - 1)
          /\ Split(s)[2] = SubSeq(s, a2 + 1, b2 - 1)
          /\ Split(s)[3] = SubSeq(s, b2 + 1, Len(s))
    BY <1>1, ThreeParts, Zenon
<1>3. PICK a2, b2 \in 1..Len(s) :
          /\ a2 < b2
          /\ SlashAt(s) = {a2, b2}
          /\ Split(s)[1] = SubSeq(s, 1, a2 - 1)
          /\ Split(s)[2] = SubSeq(s, a2 + 1, b2 - 1)
          /\ Split(s)[3] = SubSeq(s, b2 + 1, Len(s))
    BY <1>2
<1>4. a2 = a /\ b2 = b
    <2>1. {a2, b2} = {a, b}
        BY <1>3
    <2>2. (a2 = a \/ a2 = b) /\ (b2 = a \/ b2 = b) /\ (a = a2 \/ a = b2)
        BY <2>1
    <2>. QED
        BY <1>3, <2>2
<1>. QED
    BY <1>1, <1>3, <1>4

\* factory/contract/mydenom is accepted
LEMMA TestDenomValid ==
    ASSUME Slash = "/", "f" \in Char, "x" \in Char, FactoryPrefix = <<"f">>,
           Resolves(<<"x">>, <<"x">>)
    PROVE  ValidateDenom(<<"f", "/", "x", "/", "x">>) = DenomOk
<1> DEFINE d == <<"f", "/", "x", "/", "x">>
<1>1. d \in String
    BY CharAssumption DEF String
<1>2. \A k \in 1..Len(d) : d[k] = Slash <=> k \in {2, 4}
    <2> SUFFICES ASSUME NEW k \in 1..5 PROVE d[k] = Slash <=> k \in {2, 4}
        OBVIOUS
    <2>1. k = 1 \/ k = 2 \/ k = 3 \/ k = 4 \/ k = 5
        OBVIOUS
    <2>. QED
        BY <2>1
<1>3. SubSeq(d, 1, 1) = <<"f">> /\ SubSeq(d, 3, 3) = <<"x">> /\ SubSeq(d, 5, 5) = <<"x">>
    <2>1. d \in Seq(Char) /\ {1, 3, 5} \subseteq 1..Len(d)
        BY <1>1 DEF String
    <2>2. SubSeq(d, 1, 1) = <<d[1]>>
        BY <2>1, OneCharPart
    <2>3. SubSeq(d, 3, 3) = <<d[3]>>
        BY <2>1, OneCharPart
    <2>4. SubSeq(d, 5, 5) = <<d[5]>>
        BY <2>1, OneCharPart
    <2>. QED
        BY <2>2, <2>3, <2>4
<1>4. DenomGrammar(d)
    <2>1. 2 \in 1..Len(d) /\ 4 \in 1..Len(d) /\ 2 < 4
        OBVIOUS
    <2>2. SubSeq(d, 1, 2 - 1) = FactoryPrefix
        BY <1>3
    <2>3. SubSeq(d, 2 + 1, 4 - 1) = <<"x">> /\ SubSeq(d, 4 + 1, Len(d)) = <<"x">>
        BY <1>3
    <2>4. Lowered(SubSeq(d, 1, 2 - 1)) = Lowered(FactoryPrefix)
        BY <2>2
    <2>5. Resolves(SubSeq(d, 2 + 1, 4 - 1), SubSeq(d, 4 + 1, Len(d)))
        BY <2>3
    <2>. QED
        BY <1>2, <2>1, <2>4, <2>5 DEF DenomGrammar
<1>. QED
    BY <1>1, <1>4, ValidateDenomComplete

\* factory/contract/mydenom/invalid has four parts
LEMMA FourPartDenom ==
    ASSUME Slash = "/"
    PROVE  LET d == <<"f", "/", "x", "/", "x", "/", "x">>
           IN  ValidateDenom(d) = InvalidDenom(d, PartsMsg(4))
<1> DEFINE d == <<"f", "/", "x", "/", "x", "/", "x">>
<1>1. SlashAt(d) = {2, 4} \cup {6}
    <2>1. SUFFICES ASSUME NEW k \in 1..7 PROVE d[k] = Slash <=> k \in {2, 4, 6}
        BY DEF SlashAt
    <2>2. k = 1 \/ k = 2 \/ k = 3 \/ k = 4 \/ k = 5 \/ k = 6 \/ k = 7
        OBVIOUS
    <2>. QED
        BY <2>2
<1>2. IsFiniteSet({2, 4}) /\ Cardinality({2, 4}) = 2
    <2>1. 2 # 4
        OBVIOUS
    <2>. QED
        BY <2>1, PairCardinality
<1>3. Cardinality({2, 4} \cup {6}) = 3
    BY <1>2, FS_AddElement
<1>4. PartCount(d) = 4
    BY <1>1, <1>3 DEF PartCount
<1>. QED
    BY <1>4 DEF ValidateDenom

\* factory/contract has two parts
LEMMA TwoPartDenom ==
    ASSUME Slash = "/"
    PROVE  LET d == <<"f", "/", "x">>
           IN  ValidateDenom(d) = InvalidDenom(d, PartsMsg(2))
<1> DEFINE d == <<"f", "/", "x">>
<1>1. SlashAt(d) = {2}
    <2>1. SUFFICES ASSUME NEW k \in 1..3 PROVE d[k] = Slash <=> k = 2
        BY DEF SlashAt
    <2>2. k = 1 \/ k = 2 \/ k = 3
        OBVIOUS
    <2>. QED
        BY <2>2
<1>2. Cardinality({2}) = 1
    BY FS_Singleton
<1>3. PartCount(d) = 2
    BY <1>1, <1>2 DEF PartCount
<1>. QED
    BY <1>3 DEF ValidateDenom

\* invalid/contract/mydenom has a prefix other than "factory"
LEMMA WrongPrefixDenom ==
    ASSUME Slash = "/", "x" \in Char, FactoryPrefix = <<"f">>,
           AsciiLower["x"] # AsciiLower["f"]
    PROVE  LET d == <<"x", "/", "x", "/", "x">>
           IN  ValidateDenom(d) = InvalidDenom(d, PrefixMsg(<<"x">>))
<1> DEFINE d == <<"x", "/", "x", "/", "x">>
<1>1. d \in String /\ d \in Seq(Char) /\ 1 \in 1..Len(d)
    BY CharAssumption DEF String
<1>2. SlashAt(d) = {2, 4}
    <2>1. SUFFICES ASSUME NEW k \in 1..5 PROVE d[k] = Slash <=> k \in {2, 4}
        BY DEF SlashAt
    <2>2. k = 1 \/ k = 2 \/ k = 3 \/ k = 4 \/ k = 5
        OBVIOUS
    <2>. QED
        BY <2>2
<1>3. PartCount(d) = 3 /\ Split(d)[1] = SubSeq(d, 1, 2 - 1)
    <2>1. 2 \in 1..Len(d) /\ 4 \in 1..Len(d) /\ 2 < 4
        OBVIOUS
    <2>. QED
        BY <1>1, <1>2, <2>1, SplitAt
<1>4. Split(d)[1] = <<"x">>
    <2>1. SubSeq(d, 1, 1) = <<d[1]>>
        BY <1>1, OneCharPart
    <2>. QED
        BY <1>3, <2>1
<1>5. ~EqIgnoreAsciiCase(<<"x">>, FactoryPrefix)
    BY DEF EqIgnoreAsciiCase
<1>. QED
    BY <1>3, <1>4, <1>5 DEF ValidateDenom

\* factory//mydenom asks the resolver about an empty creator
LEMMA EmptyCreatorDenom ==
    ASSUME Slash = "/", "f" \in Char, "x" \in Char, FactoryPrefix = <<"f">>,
           ~Resolves(<<>>, <<"x">>)
    PROVE  LET d == <<"f", "/", "/", "x">>
           IN  ValidateDenom(d) = InvalidDenom(d, ResolverMsg(<<>>, <<"x">>))
<1> DEFINE d == <<"f", "/", "/", "x">>
<1>1. d \in String /\ d \in Seq(Char) /\ {1, 4} \subseteq 1..Len(d)
    BY CharAssumption DEF String
<1>2. SlashAt(d) = {2, 3}
    <2>1. SUFFICES ASSUME NEW k \in 1..4 PROVE d[k] = Slash <=> k \in {2, 3}
        BY DEF SlashAt
    <2>2. k = 1 \/ k = 2 \/ k = 3 \/ k = 4
        OBVIOUS
    <2>. QED
        BY <2>2
<1>3. /\ PartCount(d) = 3
      /\ Split(d)[1] = SubSeq(d, 1, 2 - 1)
      /\ Split(d)[2] = SubSeq(d, 2 + 1, 3 - 1)
      /\ Split(d)[3] = SubSeq(d, 3 + 1, Len(d))
    <2>1. 2 \in 1..Len(d) /\ 3 \in 1..Len(d) /\ 2 < 3
        OBVIOUS
    <2>. QED
        BY <1>1, <1>2, <2>1, SplitAt
<1>4. Split(d)[1] = <<"f">> /\ Split(d)[2] = <<>> /\ Split(d)[3] = <<"x">>
    <2>1. SubSeq(d, 1, 1) = <<d[1]>>
        BY <1>1, OneCharPart
    <2>2. SubSeq(d, 4, 4) = <<d[4]>>
        BY <1>1, OneCharPart
    <2>3. SubSeq(d, 3, 2) = <<>>
        <3>1. 3 \in Int /\ 2 \in Int /\ 2 < 3
            OBVIOUS
        <3>. QED
            BY <3>1, SubSeqEmpty, Zenon
    <2>4. 2 - 1 = 1 /\ 2 + 1 = 3 /\ 3 - 1 = 2 /\ 3 + 1 = 4 /\ Len(d) = 4
        OBVIOUS
    <2>5. Split(d)[1] = <<"f">>
        BY <1>3, <2>1, <2>4
    <2>6. Split(d)[2] = <<>>
        BY <1>3, <2>3, <2>4
    <2>7. Split(d)[3] = <<"x">>
        BY <1>3, <2>2, <2>4
    <2>. QED
        BY <2>5, <2>6, <2>7
<1>5. EqIgnoreAsciiCase(<<"f">>, FactoryPrefix)
    BY DEF EqIgnoreAsciiCase
<1>. QED
    BY <1>3, <1>4, <1>5 DEF ValidateDenom
=============================================================================
