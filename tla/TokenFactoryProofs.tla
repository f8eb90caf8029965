-------------------------- MODULE TokenFactoryProofs --------------------------
(***************************************************************************)
(* Proofs about the tokenfactory contract model, for every value of the    *)
(* constants that satisfies the assumptions of DenomValidator and          *)
(* TokenFactory.                                                           *)
(***************************************************************************)
EXTENDS TokenFactory, DenomValidatorProofs, TLAPS

---------------------------------------------------------------------------
(* Type correctness.                                                       *)

\* the two shapes of an execute response
LEMMA AcceptedType ==
    ASSUME NEW m \in Messages, NEW meth \in Methods
    PROVE  Accepted(m, meth) \in Responses
BY DEF Accepted, Responses

LEMMA RejectedType ==
    ASSUME NEW e \in Errors
    PROVE  Rejected(e) \in Responses
BY DEF Rejected, Responses

\* a refusal of validate_denom is one of the contract's errors
LEMMA DenomRefusalIsError ==
    ASSUME NEW d \in Denoms, ValidateDenom(d) # DenomOk
    PROVE  ValidateDenom(d) \in Errors
<1>1. ValidateDenom(d) \in DenomResults \ {DenomOk}
    BY ValidateDenomType, InputAssumption
<1>. QED
    BY <1>1 DEF Errors

\* the address in a given Option<String> is one of the addresses
LEMMA SomeAddr ==
    ASSUME NEW to \in Option(Addr), to # None
    PROVE  to = Some(to[1]) /\ to[1] \in Addr
BY DEF Option, None, Some

\* an address refused by addr_validate is reported as one of the errors
LEMMA AddrRefusalIsError ==
    ASSUME NEW opt \in Option(Addr), OptAddrRejected(opt)
    PROVE  InvalidAddress(opt[1]) \in Errors
BY SomeAddr DEF OptAddrRejected, Errors

\* every step of the contract keeps the state of the shapes TypeOK declares
LEMMA TypeStep == TypeOK /\ [Next]_vars => TypeOK'
<1> SUFFICES ASSUME TypeOK, [Next]_vars PROVE TypeOK'
    OBVIOUS
<1>. USE DEF TypeOK
<1>1. ASSUME NEW sender \in Addr, Instantiate(sender) PROVE TypeOK'
    BY <1>1 DEF Instantiate, Version, Calls, Responses
<1>2. ASSUME NEW sub \in Subdenoms, CreateDenom(sub) PROVE TypeOK'
    <2>1. call' \in Calls
        BY <1>2 DEF CreateDenom, Calls
    <2>2. CreateDenomMsg(sub) \in Messages
        BY DEF CreateDenomMsg, Messages
    <2>3. InvalidSubdenom(sub) \in Errors
        BY DEF Errors
    <2>4. response' \in Responses
        BY <1>2, <2>2, <2>3, AcceptedType, RejectedType DEF CreateDenom, Methods
    <2>. QED
        BY <1>2, <2>1, <2>4 DEF CreateDenom
<1>3. ASSUME NEW d \in Denoms, NEW a \in Addr, ChangeAdmin(d, a) PROVE TypeOK'
    <2>1. call' \in Calls
        BY <1>3 DEF ChangeAdmin, Calls
    <2>2. ChangeAdminMsg(d, a) \in Messages
        BY DEF ChangeAdminMsg, Messages
    <2>3. InvalidAddress(a) \in Errors
        BY DEF Errors
    <2>4. response' \in Responses
        BY <1>3, <2>2, <2>3, AcceptedType, RejectedType, DenomRefusalIsError
           DEF ChangeAdmin, Methods
    <2>. QED
        BY <1>3, <2>1, <2>4 DEF ChangeAdmin
<1>4. ASSUME NEW d \in Denoms, NEW amt \in Amount, NEW to \in Option(Addr),
             MintTokens(d, amt, to)
      PROVE TypeOK'
    <2>1. call' \in Calls
        BY <1>4 DEF MintTokens, Calls
    <2>2. MintMsg(d, amt, MintRecipient(to)) \in Messages
        <3>1. MintRecipient(to) \in Addr
            BY SomeAddr, AddrAssumption DEF MintRecipient
        <3>. QED
            BY <3>1 DEF MintMsg, Messages
    <2>3. ZeroAmount \in Errors
        BY DEF Errors
    <2>4. response' \in Responses
        BY <1>4, <2>2, <2>3, AcceptedType, RejectedType, DenomRefusalIsError,
           AddrRefusalIsError
           DEF MintTokens, Methods
    <2>. QED
        BY <1>4, <2>1, <2>4 DEF MintTokens
<1>5. ASSUME NEW d \in Denoms, NEW amt \in Amount, NEW from \in Option(Addr),
             BurnTokens(d, amt, from)
      PROVE TypeOK'
    <2>1. call' \in Calls
        BY <1>5 DEF BurnTokens, Calls
    <2>2. BurnMsg(d, amt, from) \in Messages
        BY DEF BurnMsg, Messages
    <2>3. ZeroAmount \in Errors
        BY DEF Errors
    <2>4. response' \in Responses
        BY <1>5, <2>2, <2>3, AcceptedType, RejectedType, DenomRefusalIsError,
           AddrRefusalIsError
           DEF BurnTokens, Methods
    <2>. QED
        BY <1>5, <2>1, <2>4 DEF BurnTokens
<1>6. ASSUME NEW d \in Denoms, NEW amt \in Amount, NEW from \in Addr, NEW to \in Addr,
             ForceTransfer(d, amt, from, to)
      PROVE TypeOK'
    <2>1. call' \in Calls
        BY <1>6 DEF ForceTransfer, Calls
    <2>2. ForceTransferMsg(d, amt, from, to) \in Messages
        BY DEF ForceTransferMsg, Messages
    <2>3. ZeroAmount \in Errors
        BY DEF Errors
    <2>4. response' \in Responses
        BY <1>6, <2>2, <2>3, AcceptedType, RejectedType, DenomRefusalIsError
           DEF ForceTransfer, Methods
    <2>. QED
        BY <1>6, <2>1, <2>4 DEF ForceTransfer
<1>7. ASSUME NEW c \in Addr, NEW sub \in Subdenoms, GetDenom(c, sub) PROVE TypeOK'
    <2>1. call' \in Calls
        BY <1>7 DEF GetDenom, Calls
    <2>2. QueryAbort \in Errors
        BY DEF Errors
    <2>3. FullDenom(c, sub) \in String
        BY ResolverAssumption
    <2>4. [ok |-> TRUE, data |-> [denom |-> FullDenom(c, sub)]] \in Responses
        BY <2>3 DEF Responses
    <2>5. response' \in Responses
        BY <1>7, <2>2, <2>4, RejectedType DEF GetDenom
    <2>. QED
        BY <1>7, <2>1, <2>5 DEF GetDenom
<1>8. CASE UNCHANGED vars
    BY <1>8 DEF vars
<1>. QED
    BY <1>1, <1>2, <1>3, <1>4, <1>5, <1>6, <1>7, <1>8 DEF Next

(* Every call the contract handles leaves its storage, the call and the    *)
(* response of the shapes declared by TypeOK: in particular every error    *)
(* an execute returns is one of the TokenFactoryError values and every     *)
(* message one of the five TokenFactoryMsg forms.                          *)
THEOREM TypeCorrect == Spec => []TypeOK
<1>1. Init => TypeOK
    BY DEF Init, TypeOK
<1>. QED
    BY <1>1, TypeStep, PTL DEF Spec

---------------------------------------------------------------------------
(* Addresses in emitted messages.                                          *)

\* an Option<String> address that addr_validate let through is a valid one
LEMMA OptAddrAccepted ==
    ASSUME NEW opt \in Option(Addr), ~OptAddrRejected(opt)
    PROVE  /\ opt \in Option(ValidAddr)
           /\ MintRecipient(opt) \in ValidAddr
<1>1. CASE opt = None
    BY <1>1, AddrAssumption DEF Option, MintRecipient
<1>2. CASE opt # None
    BY <1>2, SomeAddr DEF OptAddrRejected, Option, Some, MintRecipient
<1>. QED
    BY <1>1, <1>2

\* a step that does not leave an accepted ChangeAdmin, MintTokens or
\* BurnTokens as the last call satisfies the property vacuously
LEMMA NotAddressCall ==
    ASSUME NEW c, NEW r, c.op \notin DenomOps \/ c.op = "ForceTransfer"
    PROVE  LET m == r.messages[1] IN
           (r # NoValue /\ r.ok /\ c.op \in DenomOps) /\ c.op # "ForceTransfer" =>
              CASE c.op = "ChangeAdmin" ->
                      m.new_admin_address = c.new_admin_address
                      /\ m.new_admin_address \in ValidAddr
                [] c.op = "MintTokens" ->
                      m.mint_to_address = MintRecipient(c.mint_to_address)
                      /\ m.mint_to_address \in ValidAddr
                [] c.op = "BurnTokens" ->
                      m.burn_from_address = c.burn_from_address
                      /\ m.burn_from_address \in Option(ValidAddr)
OBVIOUS

(* The addresses change_admin, mint_tokens and burn_tokens put into their  *)
(* messages are the caller's and passed addr_validate (or are the         *)
(* contract's own address for a mint without recipient), for every set of *)
(* addresses and every validator.  The property speaks of the last step   *)
(* only, so TypeOK and the property itself are an inductive invariant.    *)
THEOREM AddressesValidated == Spec => []EmittedAddressesValidated
<1> DEFINE IInv == TypeOK /\ EmittedAddressesValidated
<1>1. Init => IInv
    BY DEF Init, TypeOK, EmittedAddressesValidated, LastAccepted
<1>2. IInv /\ [Next]_vars => IInv'
    <2> SUFFICES ASSUME IInv, [Next]_vars PROVE IInv'
        OBVIOUS
    <2>1. TypeOK'
        BY TypeStep
    <2>2. EmittedAddressesValidated'
        <3>1. ASSUME NEW sender \in Addr, Instantiate(sender)
              PROVE  EmittedAddressesValidated'
            <4>1. call'.op \notin DenomOps
                BY <3>1 DEF Instantiate, DenomOps
            <4>. QED
                BY <4>1, NotAddressCall DEF EmittedAddressesValidated, LastAccepted
        <3>2. ASSUME NEW sub \in Subdenoms, CreateDenom(sub)
              PROVE  EmittedAddressesValidated'
            <4>1. call'.op \notin DenomOps
                BY <3>2 DEF CreateDenom, DenomOps
            <4>. QED
                BY <4>1, NotAddressCall DEF EmittedAddressesValidated, LastAccepted
        <3>3. ASSUME NEW c \in Addr, NEW sub \in Subdenoms, GetDenom(c, sub)
              PROVE  EmittedAddressesValidated'
            <4>1. call'.op \notin DenomOps
                BY <3>3 DEF GetDenom, DenomOps
            <4>. QED
                BY <4>1, NotAddressCall DEF EmittedAddressesValidated, LastAccepted
        <3>4. ASSUME NEW d \in Denoms, NEW amt \in Amount, NEW from \in Addr,
                     NEW to \in Addr, ForceTransfer(d, amt, from, to)
              PROVE  EmittedAddressesValidated'
            <4>1. call'.op = "ForceTransfer"
                BY <3>4 DEF ForceTransfer
            <4>. QED
                BY <4>1, NotAddressCall DEF EmittedAddressesValidated, LastAccepted
        <3>5. ASSUME NEW d \in Denoms, NEW a \in Addr, ChangeAdmin(d, a)
              PROVE  EmittedAddressesValidated'
            <4>1. call'.op = "ChangeAdmin" /\ call'.new_admin_address = a
                BY <3>5 DEF ChangeAdmin
            <4>2. response'.ok => response' = Accepted(ChangeAdminMsg(d, a), "change_admin")
                                  /\ a \in ValidAddr
                BY <3>5 DEF ChangeAdmin, Rejected
            <4>. QED
                BY <4>1, <4>2 DEF EmittedAddressesValidated, LastAccepted, Accepted,
                                  ChangeAdminMsg
        <3>6. ASSUME NEW d \in Denoms, NEW amt \in Amount, NEW to \in Option(Addr),
                     MintTokens(d, amt, to)
              PROVE  EmittedAddressesValidated'
            <4>1. call'.op = "MintTokens" /\ call'.mint_to_address = to
                BY <3>6 DEF MintTokens
            <4>2. response'.ok =>
                    /\ response' = Accepted(MintMsg(d, amt, MintRecipient(to)), "mint_tokens")
                    /\ ~OptAddrRejected(to)
                BY <3>6 DEF MintTokens, Rejected
            <4>. QED
                BY <4>1, <4>2, OptAddrAccepted
                   DEF EmittedAddressesValidated, LastAccepted, Accepted, MintMsg
        <3>7. ASSUME NEW d \in Denoms, NEW amt \in Amount, NEW from \in Option(Addr),
                     BurnTokens(d, amt, from)
              PROVE  EmittedAddressesValidated'
            <4>1. call'.op = "BurnTokens" /\ call'.burn_from_address = from
                BY <3>7 DEF BurnTokens
            <4>2. response'.ok =>
                    /\ response' = Accepted(BurnMsg(d, amt, from), "burn_tokens")
                    /\ ~OptAddrRejected(from)
                BY <3>7 DEF BurnTokens, Rejected
            <4>. QED
                BY <4>1, <4>2, OptAddrAccepted
                   DEF EmittedAddressesValidated, LastAccepted, Accepted, BurnMsg
        <3>8. CASE UNCHANGED vars
            BY <3>8 DEF vars, EmittedAddressesValidated, LastAccepted, MintRecipient
        <3>. QED
            BY <3>1, <3>2, <3>3, <3>4, <3>5, <3>6, <3>7, <3>8 DEF Next
    <2>. QED
        BY <2>1, <2>2
<1>. QED
    BY <1>1, <1>2, PTL DEF Spec

---------------------------------------------------------------------------
(* Denoms in emitted messages.                                             *)

(* Every message change_admin, mint_tokens, burn_tokens or force_transfer *)
(* emits names the caller's denom, and that denom has the form            *)
(* factory/creator/subdenom with the prefix "factory" up to ASCII case and *)
(* (creator, subdenom) accepted by the resolver: validate_denom lets no    *)
(* other string through, for every resolver and every alphabet.  As for    *)
(* the addresses, the property speaks of the last step only.               *)
THEOREM DenomsWellFormed == Spec => []EmittedDenomsWellFormed
<1> DEFINE IInv == TypeOK /\ EmittedDenomsWellFormed
<1>1. Init => IInv
    BY DEF Init, TypeOK, EmittedDenomsWellFormed, LastAccepted
<1>2. IInv /\ [Next]_vars => IInv'
    <2> SUFFICES ASSUME IInv, [Next]_vars PROVE IInv'
        OBVIOUS
    <2>1. TypeOK'
        BY TypeStep
    <2>2. EmittedDenomsWellFormed'
        <3>1. ASSUME NEW sender \in Addr, Instantiate(sender)
              PROVE  EmittedDenomsWellFormed'
            BY <3>1 DEF Instantiate, DenomOps, EmittedDenomsWellFormed, LastAccepted
        <3>2. ASSUME NEW sub \in Subdenoms, CreateDenom(sub)
              PROVE  EmittedDenomsWellFormed'
            BY <3>2 DEF CreateDenom, DenomOps, EmittedDenomsWellFormed, LastAccepted
        <3>3. ASSUME NEW c \in Addr, NEW sub \in Subdenoms, GetDenom(c, sub)
              PROVE  EmittedDenomsWellFormed'
            BY <3>3 DEF GetDenom, DenomOps, EmittedDenomsWellFormed, LastAccepted
        <3>4. ASSUME NEW d \in Denoms, NEW a \in Addr, ChangeAdmin(d, a)
              PROVE  EmittedDenomsWellFormed'
            <4>1. call'.denom = d
                BY <3>4 DEF ChangeAdmin
            <4>2. response'.ok =>
                    /\ response'.messages[1] = ChangeAdminMsg(d, a)
                    /\ ValidateDenom(d) = DenomOk
                BY <3>4 DEF ChangeAdmin, Rejected, Accepted
            <4>3. ValidateDenom(d) = DenomOk => DenomGrammar(d)
                BY InputAssumption, ValidateDenomSound
            <4>. QED
                BY <4>1, <4>2, <4>3 DEF EmittedDenomsWellFormed, LastAccepted, ChangeAdminMsg
        <3>5. ASSUME NEW d \in Denoms, NEW amt \in Amount, NEW to \in Option(Addr),
                     MintTokens(d, amt, to)
              PROVE  EmittedDenomsWellFormed'
            <4>1. call'.denom = d
                BY <3>5 DEF MintTokens
            <4>2. response'.ok =>
                    /\ response'.messages[1] = MintMsg(d, amt, MintRecipient(to))
                    /\ ValidateDenom(d) = DenomOk
                BY <3>5 DEF MintTokens, Rejected, Accepted
            <4>3. ValidateDenom(d) = DenomOk => DenomGrammar(d)
                BY InputAssumption, ValidateDenomSound
            <4>. QED
                BY <4>1, <4>2, <4>3 DEF EmittedDenomsWellFormed, LastAccepted, MintMsg
        <3>6. ASSUME NEW d \in Denoms, NEW amt \in Amount, NEW from \in Option(Addr),
                     BurnTokens(d, amt, from)
              PROVE  EmittedDenomsWellFormed'
            <4>1. call'.denom = d
                BY <3>6 DEF BurnTokens
            <4>2. response'.ok =>
                    /\ response'.messages[1] = BurnMsg(d, amt, from)
                    /\ ValidateDenom(d) = DenomOk
                BY <3>6 DEF BurnTokens, Rejected, Accepted
            <4>3. ValidateDenom(d) = DenomOk => DenomGrammar(d)
                BY InputAssumption, ValidateDenomSound
            <4>. QED
                BY <4>1, <4>2, <4>3 DEF EmittedDenomsWellFormed, LastAccepted, BurnMsg
        <3>7. ASSUME NEW d \in Denoms, NEW amt \in Amount, NEW from \in Addr,
                     NEW to \in Addr, ForceTransfer(d, amt, from, to)
              PROVE  EmittedDenomsWellFormed'
            <4>1. call'.denom = d
                BY <3>7 DEF ForceTransfer
            <4>2. response'.ok =>
                    /\ response'.messages[1] = ForceTransferMsg(d, amt, from, to)
                    /\ ValidateDenom(d) = DenomOk
                BY <3>7 DEF ForceTransfer, Rejected, Accepted
            <4>3. ValidateDenom(d) = DenomOk => DenomGrammar(d)
                BY InputAssumption, ValidateDenomSound
            <4>. QED
                BY <4>1, <4>2, <4>3 DEF EmittedDenomsWellFormed, LastAccepted, ForceTransferMsg
        <3>8. CASE UNCHANGED vars
            BY <3>8 DEF vars, EmittedDenomsWellFormed, LastAccepted
        <3>. QED
            BY <3>1, <3>2, <3>3, <3>4, <3>5, <3>6, <3>7, <3>8 DEF Next
    <2>. QED
        BY <2>1, <2>2
<1>. QED
    BY <1>1, <1>2, PTL DEF Spec

---------------------------------------------------------------------------
(* The order of the checks.                                                *)

\* every refusal of validate_denom is an InvalidDenom
LEMMA DenomRefusalKind ==
    ASSUME NEW d \in Denoms, ValidateDenom(d) # DenomOk
    PROVE  ValidateDenom(d).kind = "InvalidDenom"
<1>1. ValidateDenom(d) \in DenomResults
    BY ValidateDenomType, InputAssumption
<1>. QED
    BY <1>1 DEF DenomResults, DenomOk

\* the error values of the three checks are told apart by their kind
LEMMA ErrorKinds ==
    ASSUME NEW a
    PROVE  /\ ZeroAmount.kind = "ZeroAmount"
           /\ InvalidAddress(a).kind = "InvalidAddress"
           /\ InvalidAddress(a).address = a
           /\ Rejected(ZeroAmount) # Rejected(InvalidAddress(a))
BY DEF ZeroAmount, InvalidAddress, Rejected

(* The checks of every handler happen in the order of the code, for every  *)
(* input: ZeroAmount is returned exactly for a zero amount, an             *)
(* InvalidAddress names the address the call gave and comes after the     *)
(* amount check, and an InvalidDenom comes only after every address and   *)
(* amount check passed and is the error validate_denom returned.          *)
THEOREM ChecksInCodeOrder == Spec => []CheckOrder
<1>1. Init => CheckOrder
    BY DEF Init, CheckOrder
<1>2. CheckOrder /\ [Next]_vars => CheckOrder'
    <2> SUFFICES ASSUME CheckOrder, [Next]_vars PROVE CheckOrder'
        OBVIOUS
    <2>1. ASSUME NEW sender \in Addr, Instantiate(sender) PROVE CheckOrder'
        BY <2>1 DEF Instantiate, CheckOrder, DenomOps
    <2>2. ASSUME NEW sub \in Subdenoms, CreateDenom(sub) PROVE CheckOrder'
        BY <2>2 DEF CreateDenom, CheckOrder, DenomOps
    <2>3. ASSUME NEW c \in Addr, NEW sub \in Subdenoms, GetDenom(c, sub) PROVE CheckOrder'
        BY <2>3 DEF GetDenom, CheckOrder, DenomOps
    <2>4. ASSUME NEW d \in Denoms, NEW a \in Addr, ChangeAdmin(d, a) PROVE CheckOrder'
        <3>1. /\ call'.op = "ChangeAdmin" /\ call'.denom = d
              /\ call'.op \in DenomOps /\ call'.op \notin AmountOps
              /\ CheckedAddress(call') = Some(a)
            BY <2>4 DEF ChangeAdmin, DenomOps, AmountOps, CheckedAddress
        <3>2. CASE a \notin ValidAddr /\ response' = Rejected(InvalidAddress(a))
            BY <3>1, <3>2, ErrorKinds DEF CheckOrder, Rejected
        <3>3. CASE a \in ValidAddr /\ ValidateDenom(d) # DenomOk
                   /\ response' = Rejected(ValidateDenom(d))
            <4>1. ~OptAddrRejected(Some(a))
                BY <3>3 DEF OptAddrRejected, Some, None
            <4>2. ValidateDenom(d).kind = "InvalidDenom"
                BY <3>3, DenomRefusalKind
            <4>. QED
                BY <3>1, <3>3, <4>1, <4>2 DEF CheckOrder, Rejected
        <3>4. CASE a \in ValidAddr /\ ValidateDenom(d) = DenomOk
                   /\ response' = Accepted(ChangeAdminMsg(d, a), "change_admin")
            BY <3>1, <3>4 DEF CheckOrder, Accepted
        <3>. QED
            BY <2>4, <3>2, <3>3, <3>4 DEF ChangeAdmin
    <2>5. ASSUME NEW d \in Denoms, NEW amt \in Amount, NEW to \in Option(Addr),
                 MintTokens(d, amt, to)
          PROVE CheckOrder'
        <3>1. /\ call'.denom = d /\ call'.amount = amt
              /\ call'.op \in DenomOps /\ call'.op \in AmountOps
              /\ CheckedAddress(call') = to
            BY <2>5 DEF MintTokens, DenomOps, AmountOps, CheckedAddress
        <3>2. CASE amt = 0 /\ response' = Rejected(ZeroAmount)
            BY <3>1, <3>2, ErrorKinds DEF CheckOrder, Rejected
        <3>3. CASE amt # 0 /\ OptAddrRejected(to) /\ response' = Rejected(InvalidAddress(to[1]))
            <4>1. to = Some(to[1])
                BY <3>3, SomeAddr DEF OptAddrRejected
            <4>. QED
                BY <3>1, <3>3, <4>1, ErrorKinds DEF CheckOrder, Rejected
        <3>4. CASE amt # 0 /\ ~OptAddrRejected(to) /\ ValidateDenom(d) # DenomOk
                   /\ response' = Rejected(ValidateDenom(d))
            <4>1. ValidateDenom(d).kind = "InvalidDenom"
                BY <3>4, DenomRefusalKind
            <4>. QED
                BY <3>1, <3>4, <4>1, ErrorKinds DEF CheckOrder, Rejected
        <3>5. CASE amt # 0 /\ ~OptAddrRejected(to) /\ ValidateDenom(d) = DenomOk
                   /\ response' = Accepted(MintMsg(d, amt, MintRecipient(to)), "mint_tokens")
            BY <3>1, <3>5 DEF CheckOrder, Accepted, Rejected
        <3>. QED
            BY <2>5, <3>2, <3>3, <3>4, <3>5 DEF MintTokens
    <2>6. ASSUME NEW d \in Denoms, NEW amt \in Amount, NEW from \in Option(Addr),
                 BurnTokens(d, amt, from)
          PROVE CheckOrder'
        <3>1. /\ call'.denom = d /\ call'.amount = amt
              /\ call'.op \in DenomOps /\ call'.op \in AmountOps
              /\ CheckedAddress(call') = from
            BY <2>6 DEF BurnTokens, DenomOps, AmountOps, CheckedAddress
        <3>2. CASE amt = 0 /\ response' = Rejected(ZeroAmount)
            BY <3>1, <3>2, ErrorKinds DEF CheckOrder, Rejected
        <3>3. CASE amt # 0 /\ OptAddrRejected(from)
                   /\ response' = Rejected(InvalidAddress(from[1]))
            <4>1. from = Some(from[1])
                BY <3>3, SomeAddr DEF OptAddrRejected
            <4>. QED
                BY <3>1, <3>3, <4>1, ErrorKinds DEF CheckOrder, Rejected
        <3>4. CASE amt # 0 /\ ~OptAddrRejected(from) /\ ValidateDenom(d) # DenomOk
                   /\ response' = Rejected(ValidateDenom(d))
            <4>1. ValidateDenom(d).kind = "InvalidDenom"
                BY <3>4, DenomRefusalKind
            <4>. QED
                BY <3>1, <3>4, <4>1, ErrorKinds DEF CheckOrder, Rejected
        <3>5. CASE amt # 0 /\ ~OptAddrRejected(from) /\ ValidateDenom(d) = DenomOk
                   /\ response' = Accepted(BurnMsg(d, amt, from), "burn_tokens")
            BY <3>1, <3>5 DEF CheckOrder, Accepted, Rejected
        <3>. QED
            BY <2>6, <3>2, <3>3, <3>4, <3>5 DEF BurnTokens
    <2>7. ASSUME NEW d \in Denoms, NEW amt \in Amount, NEW from \in Addr, NEW to \in Addr,
                 ForceTransfer(d, amt, from, to)
          PROVE CheckOrder'
        <3>1. /\ call'.denom = d /\ call'.amount = amt
              /\ call'.op \in DenomOps /\ call'.op \in AmountOps
              /\ CheckedAddress(call') = None
            BY <2>7 DEF ForceTransfer, DenomOps, AmountOps, CheckedAddress
        <3>2. ~OptAddrRejected(None)
            BY DEF OptAddrRejected
        <3>3. CASE amt = 0 /\ response' = Rejected(ZeroAmount)
            BY <3>1, <3>3, ErrorKinds DEF CheckOrder, Rejected
        <3>4. CASE amt # 0 /\ ValidateDenom(d) # DenomOk
                   /\ response' = Rejected(ValidateDenom(d))
            <4>1. ValidateDenom(d).kind = "InvalidDenom"
                BY <3>4, DenomRefusalKind
            <4>. QED
                BY <3>1, <3>2, <3>4, <4>1, ErrorKinds DEF CheckOrder, Rejected
        <3>5. CASE amt # 0 /\ ValidateDenom(d) = DenomOk
                   /\ response' = Accepted(ForceTransferMsg(d, amt, from, to),
                                           "force_transfer_tokens")
            BY <3>1, <3>5 DEF CheckOrder, Accepted, Rejected
        <3>. QED
            BY <2>7, <3>3, <3>4, <3>5 DEF ForceTransfer
    <2>8. CASE UNCHANGED vars
        BY <2>8 DEF vars, CheckOrder, CheckedAddress
    <2>. QED
        BY <2>1, <2>2, <2>3, <2>4, <2>5, <2>6, <2>7, <2>8 DEF Next
<1>. QED
    BY <1>1, <1>2, PTL DEF Spec
=============================================================================
