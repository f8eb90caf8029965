--------------------- MODULE TokenFactoryRefinementProofs ---------------------
(***************************************************************************)
(* The contract implements its abstract specification TokenFactoryAbstract *)
(* under the refinement mapping AbsOutcome, for every value of the         *)
(* constants: the initial state maps to the abstract initial state, and    *)
(* every step of a handler maps to Accept, Reject, Answer or AInstantiate. *)
(***************************************************************************)
EXTENDS TokenFactoryProofs

---------------------------------------------------------------------------
(* The two modules speak of the same options and the same grammar.         *)

\* Option<String> of the abstract commands is the one of msg.rs
LEMMA SameOption ==
    ASSUME NEW S
    PROVE  /\ Abs!Option(S) = Option(S)
           /\ Abs!None = None
           /\ Abs!Amount = Amount
BY DEF Abs!Option, Option, Abs!None, None, Some, Abs!Amount, Amount

\* the abstract promise uses the grammar of DenomValidator
LEMMA SameGrammar ==
    ASSUME NEW d
    PROVE  Abs!DenomGrammar(d) <=> DenomGrammar(d)
BY DEF Abs!DenomGrammar, DenomGrammar, Abs!Lowered, Lowered

\* validate_denom accepts exactly the strings of the grammar
LEMMA ValidateDenomExact ==
    ASSUME NEW d \in Denoms
    PROVE  ValidateDenom(d) = DenomOk <=> Abs!DenomGrammar(d)
BY InputAssumption, ValidateDenomSound, ValidateDenomComplete, SameGrammar

\* an optional address is valid for the promise exactly when addr_validate
\* lets it through
LEMMA OptionValid ==
    ASSUME NEW opt \in Option(Addr)
    PROVE  opt \in Abs!Option(ValidAddr) <=> ~OptAddrRejected(opt)
<1>1. opt \in Option(ValidAddr) <=> ~OptAddrRejected(opt)
    BY AddrAssumption DEF Option, None, Some, OptAddrRejected
<1>. QED
    BY <1>1, SameOption

---------------------------------------------------------------------------
(* What the refinement mapping makes of the responses of the handlers.     *)

\* an error response is seen as a refusal
LEMMA RejectedOutcome ==
    ASSUME NEW e \in Errors
    PROVE  LET r == Rejected(e) IN r # NoValue /\ ~r.ok
<1>1. Rejected(e) \in Responses
    BY RejectedType
<1>. QED
    BY <1>1, NoValueAssumption DEF Rejected

\* an accepted execute is seen as accepted with its one message
LEMMA AcceptedOutcome ==
    ASSUME NEW m \in Messages, NEW meth \in Methods
    PROVE  LET r == Accepted(m, meth) IN
           /\ r # NoValue /\ r.ok /\ "data" \notin DOMAIN r
           /\ r.messages = <<m>>
<1>1. Accepted(m, meth) \in Responses
    BY AcceptedType
<1>. QED
    BY <1>1, NoValueAssumption DEF Accepted

---------------------------------------------------------------------------
\* instantiate is the abstract AInstantiate of the same sender
LEMMA InstantiateStep ==
    ASSUME NEW sender \in Addr, Instantiate(sender)
    PROVE  Abs!AInstantiate(sender)
<1>1. response' \in Responses
    BY DEF Instantiate, Responses
<1>2. AbsOutcome' = [accepted |-> TRUE, effects |-> <<>>]
    BY <1>1, NoValueAssumption DEF Instantiate, AbsOutcome
<1>. QED
    BY <1>2 DEF Instantiate, Instantiated, Abs!AInstantiate

\* create_denom accepts exactly the nonempty subdenoms
LEMMA CreateDenomStep ==
    ASSUME NEW sub \in Subdenoms, CreateDenom(sub)
    PROVE  Abs!Accept \/ Abs!Reject
<1>1. /\ owner # NoValue /\ owner' = owner
      /\ call' = [op |-> "CreateDenom", subdenom |-> sub]
      /\ call' \in Abs!Commands
    BY DEF CreateDenom, Instantiated, Abs!Commands
<1>2. Abs!Valid(call') <=> sub # <<>>
    BY <1>1 DEF Abs!Valid
<1>3. CASE sub = <<>>
    <2>1. response' = Rejected(InvalidSubdenom(sub))
        BY <1>3 DEF CreateDenom
    <2>2. InvalidSubdenom(sub) \in Errors
        BY DEF Errors
    <2>3. AbsOutcome' = [accepted |-> FALSE]
        BY <2>1, <2>2, RejectedOutcome DEF AbsOutcome
    <2>. QED
        BY <1>1, <1>2, <1>3, <2>3 DEF Abs!Reject
<1>4. CASE sub # <<>>
    <2>1. response' = Accepted(CreateDenomMsg(sub), "create_denom")
        BY <1>4 DEF CreateDenom
    <2>2. CreateDenomMsg(sub) \in Messages /\ "create_denom" \in Methods
        BY DEF CreateDenomMsg, Messages, Methods
    <2>3. AbsOutcome' = [accepted |-> TRUE, effects |-> <<CreateDenomMsg(sub)>>]
        BY <2>1, <2>2, AcceptedOutcome DEF AbsOutcome
    <2>4. Abs!Effect(call') = CreateDenomMsg(sub)
        BY <1>1, SameOption DEF Abs!Effect, CreateDenomMsg
    <2>. QED
        BY <1>1, <1>2, <1>4, <2>3, <2>4 DEF Abs!Accept
<1>. QED
    BY <1>3, <1>4

\* change_admin accepts exactly a valid new admin with a denom of the grammar
LEMMA ChangeAdminStep ==
    ASSUME NEW d \in Denoms, NEW a \in Addr, ChangeAdmin(d, a)
    PROVE  Abs!Accept \/ Abs!Reject
<1>1. /\ owner # NoValue /\ owner' = owner
      /\ call' = [op |-> "ChangeAdmin", denom |-> d, new_admin_address |-> a]
      /\ call' \in Abs!Commands
    BY DEF ChangeAdmin, Instantiated, Abs!Commands
<1>2. Abs!Valid(call') <=> a \in ValidAddr /\ ValidateDenom(d) = DenomOk
    BY <1>1, ValidateDenomExact DEF Abs!Valid
<1>3. CASE ~(a \in ValidAddr /\ ValidateDenom(d) = DenomOk)
    <2>1. PICK e \in Errors : response' = Rejected(e)
        <3>1. CASE a \notin ValidAddr
            <4>1. InvalidAddress(a) \in Errors
                BY DEF Errors
            <4>. QED
                BY <3>1, <4>1 DEF ChangeAdmin
        <3>2. CASE a \in ValidAddr
            <4>1. ValidateDenom(d) # DenomOk
                BY <1>3, <3>2
            <4>2. ValidateDenom(d) \in Errors
                BY <4>1, DenomRefusalIsError
            <4>. QED
                BY <3>2, <4>1, <4>2 DEF ChangeAdmin
        <3>. QED
            BY <3>1, <3>2
    <2>2. AbsOutcome' = [accepted |-> FALSE]
        BY <2>1, RejectedOutcome DEF AbsOutcome
    <2>. QED
        BY <1>1, <1>2, <1>3, <2>2 DEF Abs!Reject
<1>4. CASE a \in ValidAddr /\ ValidateDenom(d) = DenomOk
    <2>1. response' = Accepted(ChangeAdminMsg(d, a), "change_admin")
        BY <1>4 DEF ChangeAdmin
    <2>2. ChangeAdminMsg(d, a) \in Messages /\ "change_admin" \in Methods
        BY DEF ChangeAdminMsg, Messages, Methods
    <2>3. AbsOutcome' = [accepted |-> TRUE, effects |-> <<ChangeAdminMsg(d, a)>>]
        BY <2>1, <2>2, AcceptedOutcome DEF AbsOutcome
    <2>4. Abs!Effect(call') = ChangeAdminMsg(d, a)
        BY <1>1 DEF Abs!Effect, ChangeAdminMsg
    <2>. QED
        BY <1>1, <1>2, <1>4, <2>3, <2>4 DEF Abs!Accept
<1>. QED
    BY <1>3, <1>4

\* mint_tokens accepts exactly a nonzero amount, a valid or absent recipient
\* and a denom of the grammar, and mints to the recipient or to the contract
LEMMA MintTokensStep ==
    ASSUME NEW d \in Denoms, NEW amt \in Amount, NEW to \in Option(Addr),
           MintTokens(d, amt, to)
    PROVE  Abs!Accept \/ Abs!Reject
<1>1. /\ owner # NoValue /\ owner' = owner
      /\ call' = [op |-> "MintTokens", denom |-> d, amount |-> amt, mint_to_address |-> to]
      /\ call' \in Abs!Commands
    BY SameOption DEF MintTokens, Instantiated, Abs!Commands
<1>2. Abs!Valid(call') <=> amt # 0 /\ ~OptAddrRejected(to) /\ ValidateDenom(d) = DenomOk
    BY <1>1, ValidateDenomExact, OptionValid DEF Abs!Valid
<1>3. CASE ~(amt # 0 /\ ~OptAddrRejected(to) /\ ValidateDenom(d) = DenomOk)
    <2>1. PICK e \in Errors : response' = Rejected(e)
        <3>1. CASE amt = 0
            BY <3>1 DEF MintTokens, Errors
        <3>2. CASE amt # 0 /\ OptAddrRejected(to)
            <4>1. InvalidAddress(to[1]) \in Errors
                BY <3>2, AddrRefusalIsError
            <4>. QED
                BY <3>2, <4>1 DEF MintTokens
        <3>3. CASE amt # 0 /\ ~OptAddrRejected(to)
            <4>1. ValidateDenom(d) # DenomOk
                BY <1>3, <3>3
            <4>2. ValidateDenom(d) \in Errors
                BY <4>1, DenomRefusalIsError
            <4>. QED
                BY <3>3, <4>1, <4>2 DEF MintTokens
        <3>. QED
            BY <3>1, <3>2, <3>3
    <2>2. AbsOutcome' = [accepted |-> FALSE]
        BY <2>1, RejectedOutcome DEF AbsOutcome
    <2>. QED
        BY <1>1, <1>2, <1>3, <2>2 DEF Abs!Reject
<1>4. CASE amt # 0 /\ ~OptAddrRejected(to) /\ ValidateDenom(d) = DenomOk
    <2>1. response' = Accepted(MintMsg(d, amt, MintRecipient(to)), "mint_tokens")
        BY <1>4 DEF MintTokens
    <2>2. MintMsg(d, amt, MintRecipient(to)) \in Messages /\ "mint_tokens" \in Methods
        <3>1. MintRecipient(to) \in Addr
            BY SomeAddr, AddrAssumption DEF MintRecipient
        <3>. QED
            BY <3>1 DEF MintMsg, Messages, Methods
    <2>3. AbsOutcome' = [accepted |-> TRUE,
                         effects |-> <<MintMsg(d, amt, MintRecipient(to))>>]
        BY <2>1, <2>2, AcceptedOutcome DEF AbsOutcome
    <2>4. Abs!Effect(call') = MintMsg(d, amt, MintRecipient(to))
        BY <1>1, SameOption DEF Abs!Effect, MintMsg, MintRecipient
    <2>. QED
        BY <1>1, <1>2, <1>4, <2>3, <2>4 DEF Abs!Accept
<1>. QED
    BY <1>3, <1>4

\* burn_tokens accepts exactly a nonzero amount, a valid or absent source
\* and a denom of the grammar, and burns from Some(addr) or from self
LEMMA BurnTokensStep ==
    ASSUME NEW d \in Denoms, NEW amt \in Amount, NEW from \in Option(Addr),
           BurnTokens(d, amt, from)
    PROVE  Abs!Accept \/ Abs!Reject
<1>1. /\ owner # NoValue /\ owner' = owner
      /\ call' = [op |-> "BurnTokens", denom |-> d, amount |-> amt, burn_from_address |-> from]
      /\ call' \in Abs!Commands
    BY SameOption DEF BurnTokens, Instantiated, Abs!Commands
<1>2. Abs!Valid(call') <=> amt # 0 /\ ~OptAddrRejected(from) /\ ValidateDenom(d) = DenomOk
    BY <1>1, ValidateDenomExact, OptionValid DEF Abs!Valid
<1>3. CASE ~(amt # 0 /\ ~OptAddrRejected(from) /\ ValidateDenom(d) = DenomOk)
    <2>1. PICK e \in Errors : response' = Rejected(e)
        <3>1. CASE amt = 0
            BY <3>1 DEF BurnTokens, Errors
        <3>2. CASE amt # 0 /\ OptAddrRejected(from)
            <4>1. InvalidAddress(from[1]) \in Errors
                BY <3>2, AddrRefusalIsError
            <4>. QED
                BY <3>2, <4>1 DEF BurnTokens
        <3>3. CASE amt # 0 /\ ~OptAddrRejected(from)
            <4>1. ValidateDenom(d) # DenomOk
                BY <1>3, <3>3
            <4>2. ValidateDenom(d) \in Errors
                BY <4>1, DenomRefusalIsError
            <4>. QED
                BY <3>3, <4>1, <4>2 DEF BurnTokens
        <3>. QED
            BY <3>1, <3>2, <3>3
    <2>2. AbsOutcome' = [accepted |-> FALSE]
        BY <2>1, RejectedOutcome DEF AbsOutcome
    <2>. QED
        BY <1>1, <1>2, <1>3, <2>2 DEF Abs!Reject
<1>4. CASE amt # 0 /\ ~OptAddrRejected(from) /\ ValidateDenom(d) = DenomOk
    <2>1. response' = Accepted(BurnMsg(d, amt, from), "burn_tokens")
        BY <1>4 DEF BurnTokens
    <2>2. BurnMsg(d, amt, from) \in Messages /\ "burn_tokens" \in Methods
        BY DEF BurnMsg, Messages, Methods
    <2>3. AbsOutcome' = [accepted |-> TRUE, effects |-> <<BurnMsg(d, amt, from)>>]
        BY <2>1, <2>2, AcceptedOutcome DEF AbsOutcome
    <2>4. Abs!Effect(call') = BurnMsg(d, amt, from)
        BY <1>1 DEF Abs!Effect, BurnMsg
    <2>. QED
        BY <1>1, <1>2, <1>4, <2>3, <2>4 DEF Abs!Accept
<1>. QED
    BY <1>3, <1>4

\* force_transfer accepts exactly a nonzero amount with a denom of the
\* grammar, whatever its two addresses
LEMMA ForceTransferStep ==
    ASSUME NEW d \in Denoms, NEW amt \in Amount, NEW from \in Addr, NEW to \in Addr,
           ForceTransfer(d, amt, from, to)
    PROVE  Abs!Accept \/ Abs!Reject
<1>1. /\ owner # NoValue /\ owner' = owner
      /\ call' = [op |-> "ForceTransfer", denom |-> d, amount |-> amt,
                  from_address |-> from, to_address |-> to]
      /\ call' \in Abs!Commands
    BY SameOption DEF ForceTransfer, Instantiated, Abs!Commands
<1>2. Abs!Valid(call') <=> amt # 0 /\ ValidateDenom(d) = DenomOk
    BY <1>1, ValidateDenomExact DEF Abs!Valid
<1>3. CASE ~(amt # 0 /\ ValidateDenom(d) = DenomOk)
    <2>1. PICK e \in Errors : response' = Rejected(e)
        <3>1. CASE amt = 0
            BY <3>1 DEF ForceTransfer, Errors
        <3>2. CASE amt # 0
            <4>1. ValidateDenom(d) # DenomOk
                BY <1>3, <3>2
            <4>2. ValidateDenom(d) \in Errors
                BY <4>1, DenomRefusalIsError
            <4>. QED
                BY <3>2, <4>1, <4>2 DEF ForceTransfer
        <3>. QED
            BY <3>1, <3>2
    <2>2. AbsOutcome' = [accepted |-> FALSE]
        BY <2>1, RejectedOutcome DEF AbsOutcome
    <2>. QED
        BY <1>1, <1>2, <1>3, <2>2 DEF Abs!Reject
<1>4. CASE amt # 0 /\ ValidateDenom(d) = DenomOk
    <2>1. response' = Accepted(ForceTransferMsg(d, amt, from, to), "force_transfer_tokens")
        BY <1>4 DEF ForceTransfer
    <2>2. /\ ForceTransferMsg(d, amt, from, to) \in Messages
          /\ "force_transfer_tokens" \in Methods
        BY DEF ForceTransferMsg, Messages, Methods
    <2>3. AbsOutcome' = [accepted |-> TRUE,
                         effects |-> <<ForceTransferMsg(d, amt, from, to)>>]
        BY <2>1, <2>2, AcceptedOutcome DEF AbsOutcome
    <2>4. Abs!Effect(call') = ForceTransferMsg(d, amt, from, to)
        BY <1>1 DEF Abs!Effect, ForceTransferMsg
    <2>. QED
        BY <1>1, <1>2, <1>4, <2>3, <2>4 DEF Abs!Accept
<1>. QED
    BY <1>3, <1>4

\* get_denom answers the resolver's full denom, or aborts when it refuses
LEMMA GetDenomStep ==
    ASSUME NEW c \in Addr, NEW sub \in Subdenoms, GetDenom(c, sub)
    PROVE  Abs!Answer
<1>1. /\ owner # NoValue /\ owner' = owner
      /\ call' = [op |-> "GetDenom", creator_address |-> c, subdenom |-> sub]
      /\ call' \in Abs!Queries
    BY DEF GetDenom, Instantiated, Abs!Queries
<1>2. CASE Resolves(c, sub)
    <2>1. response' = [ok |-> TRUE, data |-> [denom |-> FullDenom(c, sub)]]
        BY <1>2 DEF GetDenom
    <2>2. response' \in Responses
        BY <2>1, ResolverAssumption DEF Responses
    <2>3. AbsOutcome' = [answer |-> FullDenom(c, sub)]
        BY <2>1, <2>2, NoValueAssumption DEF AbsOutcome
    <2>. QED
        BY <1>1, <1>2, <2>3 DEF Abs!Answer
<1>3. CASE ~Resolves(c, sub)
    <2>1. response' = Rejected(QueryAbort) /\ QueryAbort \in Errors
        BY <1>3 DEF GetDenom, Errors
    <2>2. AbsOutcome' = [accepted |-> FALSE]
        BY <2>1, RejectedOutcome DEF AbsOutcome
    <2>. QED
        BY <1>1, <1>3, <2>2 DEF Abs!Answer
<1>. QED
    BY <1>2, <1>3

---------------------------------------------------------------------------
(* The contract implements TokenFactoryAbstract: it accepts exactly the    *)
(* valid commands (nonzero amounts, the addresses it validates valid, a    *)
(* denom of the form factory/creator/subdenom the resolver accepts, a      *)
(* nonempty subdenom) and an accepted command emits exactly the one        *)
(* message that mirrors it, for every address validator, resolver and set  *)
(* of inputs.  Only TypeOK is needed as an invariant, for the stuttering   *)
(* steps and the shape of a refusal.                                       *)
THEOREM Refinement == Spec => AbstractSpec
<1>1. Init => Abs!AInit
    BY DEF Init, Abs!AInit, AbsOutcome
<1>2. TypeOK /\ [Next]_vars => [Abs!ANext]_Abs!avars
    <2> SUFFICES ASSUME TypeOK, [Next]_vars PROVE [Abs!ANext]_Abs!avars
        OBVIOUS
    <2>1. ASSUME NEW sender \in Addr, Instantiate(sender) PROVE Abs!ANext
        BY <2>1, InstantiateStep DEF Abs!ANext
    <2>2. ASSUME NEW sub \in Subdenoms, CreateDenom(sub) PROVE Abs!ANext
        BY <2>2, CreateDenomStep DEF Abs!ANext
    <2>3. ASSUME NEW d \in Denoms, NEW a \in Addr, ChangeAdmin(d, a) PROVE Abs!ANext
        BY <2>3, ChangeAdminStep DEF Abs!ANext
    <2>4. ASSUME NEW d \in Denoms, NEW amt \in Amount, NEW to \in Option(Addr),
                 MintTokens(d, amt, to)
          PROVE Abs!ANext
        BY <2>4, MintTokensStep DEF Abs!ANext
    <2>5. ASSUME NEW d \in Denoms, NEW amt \in Amount, NEW from \in Option(Addr),
                 BurnTokens(d, amt, from)
          PROVE Abs!ANext
        BY <2>5, BurnTokensStep DEF Abs!ANext
    <2>6. ASSUME NEW d \in Denoms, NEW amt \in Amount, NEW from \in Addr, NEW to \in Addr,
                 ForceTransfer(d, amt, from, to)
          PROVE Abs!ANext
        BY <2>6, ForceTransferStep DEF Abs!ANext
    <2>7. ASSUME NEW c \in Addr, NEW sub \in Subdenoms, GetDenom(c, sub) PROVE Abs!ANext
        BY <2>7, GetDenomStep DEF Abs!ANext
    <2>8. CASE UNCHANGED vars
        BY <2>8 DEF vars, Abs!avars, AbsOutcome
    <2>. QED
        BY <2>1, <2>2, <2>3, <2>4, <2>5, <2>6, <2>7, <2>8 DEF Next
<1>. QED
    BY <1>1, <1>2, TypeCorrect, PTL DEF Spec, AbstractSpec, Abs!ASpec
=============================================================================
