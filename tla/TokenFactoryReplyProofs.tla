----------------------- MODULE TokenFactoryReplyProofs -----------------------
(***************************************************************************)
(* The invariant that every response is the reply the handlers' early     *)
(* returns give to the call, and from it the proof that a query the       *)
(* resolver refuses aborts (QueryRefusalAborts).                           *)
(***************************************************************************)
EXTENDS TokenFactoryProofs, TLAPS

---------------------------------------------------------------------------
(* The answer to a call as a function of the call: the handlers' early     *)
(* returns, written as one conditional per handler.  It is used only as    *)
(* the invariant that the response is the reply to the call.               *)
Reply(c) ==
    CASE c.op = "Instantiate" ->
            [ok |-> TRUE, messages |-> <<>>,
             attributes |-> << <<"method", "instantiate">>, <<"owner", c.sender>> >>]
      [] c.op = "CreateDenom" ->
            IF c.subdenom = <<>> THEN Rejected(InvalidSubdenom(c.subdenom))
            ELSE Accepted(CreateDenomMsg(c.subdenom), "create_denom")
      [] c.op = "ChangeAdmin" ->
            IF c.new_admin_address \notin ValidAddr
            THEN Rejected(InvalidAddress(c.new_admin_address))
            ELSE IF ValidateDenom(c.denom) # DenomOk THEN Rejected(ValidateDenom(c.denom))
            ELSE Accepted(ChangeAdminMsg(c.denom, c.new_admin_address), "change_admin")
      [] c.op = "MintTokens" ->
            IF c.amount = 0 THEN Rejected(ZeroAmount)
            ELSE IF OptAddrRejected(c.mint_to_address)
            THEN Rejected(InvalidAddress(c.mint_to_address[1]))
            ELSE IF ValidateDenom(c.denom) # DenomOk THEN Rejected(ValidateDenom(c.denom))
            ELSE Accepted(MintMsg(c.denom, c.amount, MintRecipient(c.mint_to_address)),
                          "mint_tokens")
      [] c.op = "BurnTokens" ->
            IF c.amount = 0 THEN Rejected(ZeroAmount)
            ELSE IF OptAddrRejected(c.burn_from_address)
            THEN Rejected(InvalidAddress(c.burn_from_address[1]))
            ELSE IF ValidateDenom(c.denom) # DenomOk THEN Rejected(ValidateDenom(c.denom))
            ELSE Accepted(BurnMsg(c.denom, c.amount, c.burn_from_address), "burn_tokens")
      [] c.op = "ForceTransfer" ->
            IF c.amount = 0 THEN Rejected(ZeroAmount)
            ELSE IF ValidateDenom(c.denom) # DenomOk THEN Rejected(ValidateDenom(c.denom))
            ELSE Accepted(ForceTransferMsg(c.denom, c.amount, c.from_address, c.to_address),
                          "force_transfer_tokens")
      [] c.op = "GetDenom" ->
            IF Resolves(c.creator_address, c.subdenom)
            THEN [ok |-> TRUE, data |-> [denom |-> FullDenom(c.creator_address, c.subdenom)]]
            ELSE Rejected(QueryAbort)

\* the inductive invariant: no response before the first call, and after it
\* the response is the reply to the call
ReplyInv ==
    IF call = NoValue THEN response = NoValue ELSE response = Reply(call)

\* the call of a handler is never the sentinel
LEMMA CallNotNoValue ==
    ASSUME NEW c \in Calls
    PROVE  c # NoValue
BY NoValueAssumption

\* every step of the contract answers its call with the reply to it
LEMMA ReplyStep == ReplyInv /\ [Next]_vars => ReplyInv'
<1> SUFFICES ASSUME ReplyInv, [Next]_vars PROVE ReplyInv'
    OBVIOUS
<1>1. ASSUME NEW sender \in Addr, Instantiate(sender) PROVE ReplyInv'
    <2>1. call' \in Calls
        BY <1>1 DEF Instantiate, Calls
    <2>. QED
        BY <1>1, <2>1, CallNotNoValue DEF Instantiate, Reply, ReplyInv
<1>2. ASSUME NEW sub \in Subdenoms, CreateDenom(sub) PROVE ReplyInv'
    <2>1. call' \in Calls
        BY <1>2 DEF CreateDenom, Calls
    <2>. QED
        BY <1>2, <2>1, CallNotNoValue DEF CreateDenom, Reply, ReplyInv
<1>3. ASSUME NEW d \in Denoms, NEW a \in Addr, ChangeAdmin(d, a) PROVE ReplyInv'
    <2>1. call' \in Calls
        BY <1>3 DEF ChangeAdmin, Calls
    <2>. QED
        BY <1>3, <2>1, CallNotNoValue DEF ChangeAdmin, Reply, ReplyInv
<1>4. ASSUME NEW d \in Denoms, NEW amt \in Amount, NEW to \in Option(Addr),
             MintTokens(d, amt, to)
      PROVE ReplyInv'
    <2>1. call' \in Calls
        BY <1>4 DEF MintTokens, Calls
    <2>. QED
        BY <1>4, <2>1, CallNotNoValue DEF MintTokens, Reply, ReplyInv
<1>5. ASSUME NEW d \in Denoms, NEW amt \in Amount, NEW from \in Option(Addr),
             BurnTokens(d, amt, from)
      PROVE ReplyInv'
    <2>1. call' \in Calls
        BY <1>5 DEF BurnTokens, Calls
    <2>. QED
        BY <1>5, <2>1, CallNotNoValue DEF BurnTokens, Reply, ReplyInv
<1>6. ASSUME NEW d \in Denoms, NEW amt \in Amount, NEW from \in Addr, NEW to \in Addr,
             ForceTransfer(d, amt, from, to)
      PROVE ReplyInv'
    <2>1. call' \in Calls
        BY <1>6 DEF ForceTransfer, Calls
    <2>. QED
        BY <1>6, <2>1, CallNotNoValue DEF ForceTransfer, Reply, ReplyInv
<1>7. ASSUME NEW c \in Addr, NEW sub \in Subdenoms, GetDenom(c, sub) PROVE ReplyInv'
    <2>1. call' \in Calls
        BY <1>7 DEF GetDenom, Calls
    <2>. QED
        BY <1>7, <2>1, CallNotNoValue DEF GetDenom, Reply, ReplyInv
<1>8. CASE UNCHANGED vars
    BY <1>8 DEF vars, ReplyInv
<1>. QED
    BY <1>1, <1>2, <1>3, <1>4, <1>5, <1>6, <1>7, <1>8 DEF Next

\* every reachable state has a response that is the reply to its call
LEMMA AlwaysReply == Spec => []ReplyInv
<1>1. Init => ReplyInv
    BY DEF Init, ReplyInv
<1>. QED
    BY <1>1, ReplyStep, PTL DEF Spec

(* A get_denom query the resolver refuses aborts, whatever was called      *)
(* before, and one it accepts answers the resolver's denom for the creator *)
(* and subdenom asked about: the unwrap of get_denom turns no refusal into *)
(* an answer or an error value.                                            *)
THEOREM QueriesAbortOnRefusal == Spec => []QueryRefusalAborts
<1>1. ReplyInv => QueryRefusalAborts
    BY DEF ReplyInv, Reply, QueryRefusalAborts
<1>. QED
    BY <1>1, AlwaysReply, PTL
=============================================================================
