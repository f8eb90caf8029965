------------------------- MODULE TokenFactoryAbstract -------------------------
(***************************************************************************)
(* What the tokenfactory contract promises, without its order of checks or *)
(* its error values: a command is accepted exactly when it is valid (a     *)
(* nonzero amount, the addresses it names for validation valid, a denom of *)
(* the form factory/creator/subdenom that the resolver accepts, a nonempty *)
(* subdenom), and an accepted command yields the one message that mirrors  *)
(* it.  A GetDenom query answers the resolver's full denom or fails.       *)
(***************************************************************************)
EXTENDS DenomValidator

CONSTANTS Addr, ValidAddr, ContractAddr, Denoms, Subdenoms, MaxAmount,
          FullDenom(_, _), NoValue

VARIABLES owner, call, outcome

avars == <<owner, call, outcome>>

None == <<>>
Option(S) == {None} \cup {<<a>> : a \in S}
Amount == 0..MaxAmount

Commands ==
    [op : {"CreateDenom"}, subdenom : Subdenoms]
    \cup [op : {"ChangeAdmin"}, denom : Denoms, new_admin_address : Addr]
    \cup [op : {"MintTokens"}, denom : Denoms, amount : Amount, mint_to_address : Option(Addr)]
    \cup [op : {"BurnTokens"}, denom : Denoms, amount : Amount, burn_from_address : Option(Addr)]
    \cup [op : {"ForceTransfer"}, denom : Denoms, amount : Amount,
          from_address : Addr, to_address : Addr]

\* a command the ledger authority may be asked to execute
Valid(c) ==
    CASE c.op = "CreateDenom" -> c.subdenom # <<>>
      [] c.op = "ChangeAdmin" ->
            c.new_admin_address \in ValidAddr /\ DenomGrammar(c.denom)
      [] c.op = "MintTokens" ->
            /\ c.amount # 0
            /\ c.mint_to_address \in Option(ValidAddr)
            /\ DenomGrammar(c.denom)
      [] c.op = "BurnTokens" ->
            /\ c.amount # 0
            /\ c.burn_from_address \in Option(ValidAddr)
            /\ DenomGrammar(c.denom)
      [] c.op = "ForceTransfer" ->
            c.amount # 0 /\ DenomGrammar(c.denom)

\* the action that mirrors an accepted command
Effect(c) ==
    CASE c.op = "CreateDenom" ->
            [type |-> "CreateDenom", subdenom |-> c.subdenom, metadata |-> None]
      [] c.op = "ChangeAdmin" ->
            [type |-> "ChangeAdmin", denom |-> c.denom,
             new_admin_address |-> c.new_admin_address]
      [] c.op = "MintTokens" ->
            [type |-> "MintTokens", denom |-> c.denom, amount |-> c.amount,
             mint_to_address |-> IF c.mint_to_address = None THEN ContractAddr
                                 ELSE c.mint_to_address[1]]
      [] c.op = "BurnTokens" ->
            [type |-> "BurnTokens", denom |-> c.denom, amount |-> c.amount,
             burn_from_address |-> c.burn_from_address]
      [] c.op = "ForceTransfer" ->
            [type |-> "ForceTransfer", denom |-> c.denom, amount |-> c.amount,
             from_address |-> c.from_address, to_address |-> c.to_address]

AInit ==
    /\ owner = NoValue
    /\ call = NoValue
    /\ outcome = NoValue

AInstantiate(sender) ==
    /\ owner = NoValue
    /\ owner' = sender
    /\ call' = [op |-> "Instantiate", sender |-> sender]
    /\ outcome' = [accepted |-> TRUE, effects |-> <<>>]

\* the command handled is call'; it is accepted when valid
Accept ==
    /\ owner # NoValue
    /\ call' \in Commands
    /\ Valid(call')
    /\ outcome' = [accepted |-> TRUE, effects |-> <<Effect(call')>>]
    /\ UNCHANGED owner

Reject ==
    /\ owner # NoValue
    /\ call' \in Commands
    /\ ~Valid(call')
    /\ outcome' = [accepted |-> FALSE]
    /\ UNCHANGED owner

Queries == [op : {"GetDenom"}, creator_address : Addr, subdenom : Subdenoms]

Answer ==
    /\ owner # NoValue
    /\ call' \in Queries
    /\ outcome' = IF Resolves(call'.creator_address, call'.subdenom)
                  THEN [answer |-> FullDenom(call'.creator_address, call'.subdenom)]
                  ELSE [accepted |-> FALSE]
    /\ UNCHANGED owner

ANext ==
    \/ \E sender \in Addr : AInstantiate(sender)
    \/ Accept
    \/ Reject
    \/ Answer

ASpec == AInit /\ [][ANext]_avars

=============================================================================
