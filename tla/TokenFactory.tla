----------------------------- MODULE TokenFactory -----------------------------
(***************************************************************************)
(* The tokenfactory demo contract (contract.rs, msg.rs) as the host sees   *)
(* it: one entry-point call at a time, each handled to completion.  The    *)
(* contract's storage is the owner record and the cw2 version; every call  *)
(* leaves the call it handled in `call` and what it returned in            *)
(* `response`: an error, or the messages and attributes of the Response.   *)
(*                                                                         *)
(* The external collaborators are constants: the address validator        *)
(* (deps.api.addr_validate accepts ValidAddr), the resolver of the chain   *)
(* (Resolves, FullDenom) and the contract's own address.                   *)
(***************************************************************************)
EXTENDS DenomValidator

CONSTANTS
    Addr,             \* address strings the callers pass
    ValidAddr,        \* the ones deps.api.addr_validate accepts
    ContractAddr,     \* env.contract.address
    Denoms,           \* denom strings the callers pass
    Subdenoms,        \* subdenom strings the callers pass
    MaxAmount,        \* largest Uint128 amount the callers pass
    FullDenom(_, _),  \* the denom full_denom(creator, subdenom) returns
    ContractVersion,  \* CONTRACT_VERSION (CARGO_PKG_VERSION)
    NoValue           \* before instantiate: no owner, no call, no response

ASSUME AddrAssumption ==
    /\ Addr \subseteq String
    /\ ValidAddr \subseteq Addr
    /\ ContractAddr \in ValidAddr

ASSUME ResolverAssumption ==
    \A c \in Addr, s \in Subdenoms : FullDenom(c, s) \in String

ASSUME InputAssumption ==
    /\ Denoms \subseteq String
    /\ Subdenoms \subseteq String
    /\ MaxAmount \in Nat \ {0}
    /\ NoValue \notin String

VARIABLES
    owner,     \* STATE: State { owner }
    version,   \* cw2 contract version item
    call,      \* the entry-point call handled last
    response   \* what that call returned

vars == <<owner, version, call, response>>

---------------------------------------------------------------------------
(* Option<String> of msg.rs *)
None == <<>>
Some(a) == <<a>>
Option(S) == {None} \cup {Some(a) : a \in S}

\* Uint128 values the callers pass; only zero is told apart by the code
Amount == 0..MaxAmount

\* TokenFactoryMsg values the handlers emit (token_bindings)
CreateDenomMsg(sub) ==
    [type |-> "CreateDenom", subdenom |-> sub, metadata |-> None]
ChangeAdminMsg(d, a) ==
    [type |-> "ChangeAdmin", denom |-> d, new_admin_address |-> a]
MintMsg(d, amt, to) ==
    [type |-> "MintTokens", denom |-> d, amount |-> amt, mint_to_address |-> to]
BurnMsg(d, amt, from) ==
    [type |-> "BurnTokens", denom |-> d, amount |-> amt, burn_from_address |-> from]
ForceTransferMsg(d, amt, from, to) ==
    [type |-> "ForceTransfer", denom |-> d, amount |-> amt,
     from_address |-> from, to_address |-> to]

\* TokenFactoryError variants other than InvalidDenom
InvalidSubdenom(sub) == [kind |-> "InvalidSubdenom", subdenom |-> sub]
ZeroAmount == [kind |-> "ZeroAmount"]
\* the StdError of addr_validate, passed on by `?`
InvalidAddress(a) == [kind |-> "InvalidAddress", address |-> a]
\* the panic of unwrap() in get_denom, which aborts the query
QueryAbort == [kind |-> "Abort"]

\* Defect variant: the method attribute is not added.
AcceptedNoAttribute(msg, m) == [ok |-> TRUE, messages |-> <<msg>>, attributes |-> <<>>]

\* Ok(Response::new().add_attribute("method", m).add_message(msg))
Accepted(msg, m) ==
    [ok |-> TRUE, messages |-> <<msg>>, attributes |-> << <<"method", m>> >>]

Rejected(e) == [ok |-> FALSE, error |-> e]

\* Defect variant: the optional address is never validated.
OptAddrNeverRejected(opt) == FALSE

\* an Option<String> address given and refused by deps.api.addr_validate
OptAddrRejected(opt) == opt # None /\ opt[1] \notin ValidAddr

Instantiated == owner # NoValue

---------------------------------------------------------------------------
Init ==
    /\ owner = NoValue
    /\ version = NoValue
    /\ call = NoValue
    /\ response = NoValue

\* instantiate: store the sender as owner and the cw2 version
Instantiate(sender) ==
    /\ ~Instantiated
    /\ owner' = sender
    /\ version' = [contract |-> "crates.io:tokenfactory-demo", version |-> ContractVersion]
    /\ call' = [op |-> "Instantiate", sender |-> sender]
    /\ response' = [ok |-> TRUE, messages |-> <<>>,
                    attributes |-> << <<"method", "instantiate">>, <<"owner", sender>> >>]

\* execute(CreateDenom { subdenom }) -> create_denom
CreateDenom(sub) ==
    /\ Instantiated
    /\ call' = [op |-> "CreateDenom", subdenom |-> sub]
    /\ \/ /\ sub = <<>>
          /\ response' = Rejected(InvalidSubdenom(sub))
       \/ /\ sub # <<>>
          /\ response' = Accepted(CreateDenomMsg(sub), "create_denom")
    /\ UNCHANGED <<owner, version>>

\* execute(ChangeAdmin { denom, new_admin_address }) -> change_admin
ChangeAdmin(d, a) ==
    /\ Instantiated
    /\ call' = [op |-> "ChangeAdmin", denom |-> d, new_admin_address |-> a]
    /\ \/ /\ a \notin ValidAddr
          /\ response' = Rejected(InvalidAddress(a))
       \/ /\ a \in ValidAddr
          /\ ValidateDenom(d) # DenomOk
          /\ response' = Rejected(ValidateDenom(d))
       \/ /\ a \in ValidAddr
          /\ ValidateDenom(d) = DenomOk
          /\ response' = Accepted(ChangeAdminMsg(d, a), "change_admin")
    /\ UNCHANGED <<owner, version>>

\* Defect variant: the recipient given by the caller is ignored.
MintRecipientAlwaysContract(to) == ContractAddr

\* Defect variant: the Option is passed on as it came, with no default.
MintRecipientUnresolved(to) == to

\* the recipient of mint_tokens: mint_to_address, else the contract itself
MintRecipient(to) == IF to = None THEN ContractAddr ELSE to[1]

\* execute(MintTokens { denom, amount, mint_to_address }) -> mint_tokens
MintTokens(d, amt, to) ==
    /\ Instantiated
    /\ call' = [op |-> "MintTokens", denom |-> d, amount |-> amt, mint_to_address |-> to]
    /\ \/ /\ amt = 0
          /\ response' = Rejected(ZeroAmount)
       \/ /\ amt # 0
          /\ OptAddrRejected(to)
          /\ response' = Rejected(InvalidAddress(to[1]))
       \/ /\ amt # 0
          /\ ~OptAddrRejected(to)
          /\ ValidateDenom(d) # DenomOk
          /\ response' = Rejected(ValidateDenom(d))
       \/ /\ amt # 0
          /\ ~OptAddrRejected(to)
          /\ ValidateDenom(d) = DenomOk
          /\ response' = Accepted(MintMsg(d, amt, MintRecipient(to)), "mint_tokens")
    /\ UNCHANGED <<owner, version>>

\* execute(BurnTokens { denom, amount, burn_from_address }) -> burn_tokens;
\* burn_contract_tokens(.., addr) carries Some(addr), the _from_self form None
BurnTokens(d, amt, from) ==
    /\ Instantiated
    /\ call' = [op |-> "BurnTokens", denom |-> d, amount |-> amt, burn_from_address |-> from]
    /\ \/ /\ amt = 0
          /\ response' = Rejected(ZeroAmount)
       \/ /\ amt # 0
          /\ OptAddrRejected(from)
          /\ response' = Rejected(InvalidAddress(from[1]))
       \/ /\ amt # 0
          /\ ~OptAddrRejected(from)
          /\ ValidateDenom(d) # DenomOk
          /\ response' = Rejected(ValidateDenom(d))
       \/ /\ amt # 0
          /\ ~OptAddrRejected(from)
          /\ ValidateDenom(d) = DenomOk
          /\ response' = Accepted(BurnMsg(d, amt, from), "burn_tokens")
    /\ UNCHANGED <<owner, version>>

\* Defect variant: the denom is validated before the amount.
ForceTransferDenomFirst(d, amt, from, to) ==
    /\ Instantiated
    /\ call' = [op |-> "ForceTransfer", denom |-> d, amount |-> amt,
                from_address |-> from, to_address |-> to]
    /\ \/ /\ ValidateDenom(d) # DenomOk
          /\ response' = Rejected(ValidateDenom(d))
       \/ /\ ValidateDenom(d) = DenomOk
          /\ amt = 0
          /\ response' = Rejected(ZeroAmount)
       \/ /\ amt # 0
          /\ ValidateDenom(d) = DenomOk
          /\ response' = Accepted(ForceTransferMsg(d, amt, from, to), "force_transfer_tokens")
    /\ UNCHANGED <<owner, version>>

\* execute(ForceTransfer { .. }) -> force_transfer: from and to are not validated
ForceTransfer(d, amt, from, to) ==
    /\ Instantiated
    /\ call' = [op |-> "ForceTransfer", denom |-> d, amount |-> amt,
                from_address |-> from, to_address |-> to]
    /\ \/ /\ amt = 0
          /\ response' = Rejected(ZeroAmount)
       \/ /\ amt # 0
          /\ ValidateDenom(d) # DenomOk
          /\ response' = Rejected(ValidateDenom(d))
       \/ /\ amt # 0
          /\ ValidateDenom(d) = DenomOk
          /\ response' = Accepted(ForceTransferMsg(d, amt, from, to), "force_transfer_tokens")
    /\ UNCHANGED <<owner, version>>

\* Defect variant: unwrap_or_default in place of unwrap, so a refused query
\* answers the empty denom.
GetDenomDefault(c, s) ==
    /\ Instantiated
    /\ call' = [op |-> "GetDenom", creator_address |-> c, subdenom |-> s]
    /\ \/ /\ Resolves(c, s)
          /\ response' = [ok |-> TRUE, data |-> [denom |-> FullDenom(c, s)]]
       \/ /\ ~Resolves(c, s)
          /\ response' = [ok |-> TRUE, data |-> [denom |-> <<>>]]
    /\ UNCHANGED <<owner, version>>

\* query(GetDenom { creator_address, subdenom }) -> get_denom
GetDenom(c, s) ==
    /\ Instantiated
    /\ call' = [op |-> "GetDenom", creator_address |-> c, subdenom |-> s]
    /\ \/ /\ Resolves(c, s)
          /\ response' = [ok |-> TRUE, data |-> [denom |-> FullDenom(c, s)]]
       \/ /\ ~Resolves(c, s)
          /\ response' = Rejected(QueryAbort)
    /\ UNCHANGED <<owner, version>>

Next ==
    \/ \E sender \in Addr : Instantiate(sender)
    \/ \E sub \in Subdenoms : CreateDenom(sub)
    \/ \E d \in Denoms, a \in Addr : ChangeAdmin(d, a)
    \/ \E d \in Denoms, amt \in Amount, to \in Option(Addr) : MintTokens(d, amt, to)
    \/ \E d \in Denoms, amt \in Amount, from \in Option(Addr) : BurnTokens(d, amt, from)
    \/ \E d \in Denoms, amt \in Amount, from, to \in Addr : ForceTransfer(d, amt, from, to)
    \/ \E c \in Addr, s \in Subdenoms : GetDenom(c, s)

Spec == Init /\ [][Next]_vars

---------------------------------------------------------------------------
Version == [contract : {"crates.io:tokenfactory-demo"}, version : {ContractVersion}]

Calls ==
    [op : {"Instantiate"}, sender : Addr]
    \cup [op : {"CreateDenom"}, subdenom : Subdenoms]
    \cup [op : {"ChangeAdmin"}, denom : Denoms, new_admin_address : Addr]
    \cup [op : {"MintTokens"}, denom : Denoms, amount : Amount, mint_to_address : Option(Addr)]
    \cup [op : {"BurnTokens"}, denom : Denoms, amount : Amount, burn_from_address : Option(Addr)]
    \cup [op : {"ForceTransfer"}, denom : Denoms, amount : Amount,
          from_address : Addr, to_address : Addr]
    \cup [op : {"GetDenom"}, creator_address : Addr, subdenom : Subdenoms]

Messages ==
    [type : {"CreateDenom"}, subdenom : Subdenoms, metadata : {None}]
    \cup [type : {"ChangeAdmin"}, denom : Denoms, new_admin_address : Addr]
    \cup [type : {"MintTokens"}, denom : Denoms, amount : Amount, mint_to_address : Addr]
    \cup [type : {"BurnTokens"}, denom : Denoms, amount : Amount, burn_from_address : Option(Addr)]
    \cup [type : {"ForceTransfer"}, denom : Denoms, amount : Amount,
          from_address : Addr, to_address : Addr]

Errors ==
    {ZeroAmount, QueryAbort}
    \cup {InvalidSubdenom(s) : s \in Subdenoms}
    \cup {InvalidAddress(a) : a \in Addr}
    \cup (DenomResults \ {DenomOk})

Methods ==
    {"create_denom", "change_admin", "mint_tokens", "burn_tokens", "force_transfer_tokens"}

Responses ==
    [ok : {TRUE}, messages : {<<>>},
     attributes : {<< <<"method", "instantiate">>, <<"owner", a>> >> : a \in Addr}]
    \cup [ok : {TRUE}, messages : {<<m>> : m \in Messages},
           attributes : {<< <<"method", m>> >> : m \in Methods}]
    \cup [ok : {TRUE}, data : [denom : String]]
    \cup [ok : {FALSE}, error : Errors]

\* the sentinel of the state before instantiate is no call and no response
ASSUME NoValueAssumption == NoValue \notin Calls \cup Responses

TypeOK ==
    /\ owner \in {NoValue} \cup Addr
    /\ version \in {NoValue} \cup Version
    /\ call \in {NoValue} \cup Calls
    /\ response \in {NoValue} \cup Responses


---------------------------------------------------------------------------
(* Refinement mapping: a response is seen as an accepted command with its  *)
(* messages, a query answer, or a refusal, whatever the error.             *)
AbsOutcome ==
    IF response = NoValue THEN NoValue
    ELSE IF ~response.ok THEN [accepted |-> FALSE]
    ELSE IF "data" \in DOMAIN response THEN [answer |-> response.data.denom]
    ELSE [accepted |-> TRUE, effects |-> response.messages]

Abs == INSTANCE TokenFactoryAbstract WITH outcome <- AbsOutcome

(* The contract implements its abstract specification: it accepts exactly *)
(* the valid commands, and an accepted command emits exactly the one       *)
(* message that mirrors it (mint to the contract when no recipient is      *)
(* given, burn from self when no address is given).                        *)
AbstractSpec == Abs!ASpec

---------------------------------------------------------------------------
(* The address a call names for addr_validate, if any: new_admin_address   *)
(* of ChangeAdmin, the optional address of MintTokens and BurnTokens.      *)
CheckedAddress(c) ==
    CASE c.op = "ChangeAdmin" -> Some(c.new_admin_address)
      [] c.op = "MintTokens"  -> c.mint_to_address
      [] c.op = "BurnTokens"  -> c.burn_from_address
      [] OTHER                -> None

AmountOps == {"MintTokens", "BurnTokens", "ForceTransfer"}
DenomOps == {"ChangeAdmin", "MintTokens", "BurnTokens", "ForceTransfer"}

LastAccepted == response # NoValue /\ response.ok /\ call.op \in DenomOps

(* Every address change_admin, mint_tokens or burn_tokens writes into the  *)
(* message it emits has been accepted by addr_validate, or is the          *)
(* contract's own address standing in for an absent mint_to_address; and  *)
(* the emitted address is the one the caller gave.  force_transfer is left *)
(* out: it validates neither of its addresses.                             *)
EmittedAddressesValidated ==
    LastAccepted /\ call.op # "ForceTransfer" =>
        LET m == response.messages[1] IN
        CASE call.op = "ChangeAdmin" ->
                m.new_admin_address = call.new_admin_address
                /\ m.new_admin_address \in ValidAddr
          [] call.op = "MintTokens" ->
                m.mint_to_address = MintRecipient(call.mint_to_address)
                /\ m.mint_to_address \in ValidAddr
          [] call.op = "BurnTokens" ->
                m.burn_from_address = call.burn_from_address
                /\ m.burn_from_address \in Option(ValidAddr)

(* Every message that names a denom names the caller's denom, and that     *)
(* denom has the form factory/creator/subdenom the resolver accepts: the   *)
(* split, the part count, the prefix and the resolver call of              *)
(* validate_denom let nothing else through.                                *)
EmittedDenomsWellFormed ==
    LastAccepted =>
        /\ response.messages[1].denom = call.denom
        /\ DenomGrammar(response.messages[1].denom)

(* The checks of a handler happen in the order of the code, whatever the   *)
(* other fields hold: a zero amount is reported as ZeroAmount and nothing  *)
(* else is; an InvalidAddress names the address the call gave, after a    *)
(* nonzero amount; an InvalidDenom comes only after every address check    *)
(* and the amount check passed.                                            *)
CheckOrder ==
    response # NoValue /\ call.op \in DenomOps =>
        /\ call.op \in AmountOps =>
              (call.amount = 0 <=> response = Rejected(ZeroAmount))
        /\ ~response.ok /\ response.error.kind = "InvalidAddress" =>
              /\ CheckedAddress(call) = Some(response.error.address)
              /\ call.op \in AmountOps => call.amount # 0
        /\ ~response.ok /\ response.error.kind = "InvalidDenom" =>
              /\ ~OptAddrRejected(CheckedAddress(call))
              /\ call.op \in AmountOps => call.amount # 0
              /\ response.error = ValidateDenom(call.denom)

---------------------------------------------------------------------------
(* A query the resolver refuses aborts: get_denom unwraps the resolver's   *)
(* result, so the caller never receives a denom for a creator and subdenom *)
(* the chain does not know, nor an error value it could mistake for a     *)
(* handled refusal; a query the resolver accepts answers the resolver's    *)
(* denom for exactly the creator and subdenom asked about.                 *)
QueryRefusalAborts ==
    response # NoValue /\ call.op = "GetDenom" =>
        IF Resolves(call.creator_address, call.subdenom)
        THEN response = [ok |-> TRUE,
                         data |-> [denom |-> FullDenom(call.creator_address, call.subdenom)]]
        ELSE response = Rejected(QueryAbort)

---------------------------------------------------------------------------
(* The resolver is the authority on which denoms exist (validate_denom     *)
(* defers to it).  A subdenom create_denom accepts makes the chain create  *)
(* FullDenom(contract, subdenom); that denom should pass validate_denom,   *)
(* or the contract can never mint, burn or administer its own token.       *)
CreatedDenomsUsable ==
    response # NoValue /\ response.ok /\ call.op = "CreateDenom" =>
        ValidateDenom(FullDenom(ContractAddr, call.subdenom)) = DenomOk

(* A denom the contract accepts and forwards in a message is the denom the *)
(* resolver names for its creator and subdenom, so that the chain, which   *)
(* knows denoms only under that name, executes the message on it.          *)
AcceptedDenomsCanonical ==
    LastAccepted =>
        LET parts == Split(call.denom) IN
        response.messages[1].denom = FullDenom(parts[2], parts[3])
=============================================================================
