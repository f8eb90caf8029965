# TLA+ verification of the tokenfactory demo contract

This directory models the CosmWasm contract in
`src/wasm-demo/contracts/tokenfactory/src/contract.rs` and its messages in `msg.rs`.
It contains TLA+ modules, TLC configurations that check them on small instances,
and TLAPS proofs of the central safety properties for every value of the constants.

## 1. The system

The contract is a validator and dispatcher. The host calls one entry point at a time,
and each call runs to completion. Nothing is shared between calls except two storage
items, which are written once and never read by any handler.

| Part (spec.md §2) | Code | What it does |
|---|---|---|
| ContractState | `instantiate` (17-33) | Stores `State { owner }` and the cw2 version, and answers with `method` and `owner` attributes. |
| CommandProcessor | `execute` (35-65) and `create_denom`, `change_admin`, `mint_tokens`, `burn_tokens`, `force_transfer` (67-195) | Per-command checks in a fixed order, then one `TokenFactoryMsg` and one `("method", name)` attribute. |
| DenomValidator | `validate_denom` (220-259) | Splits on `/`, requires 3 parts, compares the prefix with `"factory"` ignoring ASCII case, then asks the resolver. |
| QueryResolver | `query`, `get_denom` (197-218) | Asks the resolver for the full denom; a resolver failure panics in `unwrap()` and aborts the query. |

The check order of each command:

| Command | Checks, in code order | Message |
|---|---|---|
| CreateDenom | `subdenom` nonempty | `CreateDenom { subdenom, metadata: None }` |
| ChangeAdmin | `addr_validate(new_admin_address)`, then `validate_denom` | `ChangeAdmin` |
| MintTokens | amount ≠ 0, then `addr_validate(mint_to)` if given, then `validate_denom` | mint to `mint_to`, or to the contract's address |
| BurnTokens | amount ≠ 0, then `addr_validate(burn_from)` if given, then `validate_denom` | burn from `Some(addr)`, or from self (`None`) |
| ForceTransfer | amount ≠ 0, then `validate_denom`; the two addresses are not validated | `ForceTransfer` |

External collaborators are constants of the model:
- the address validator (`deps.api.addr_validate`) is the set `ValidAddr`;
- the resolver (`TokenQuerier::full_denom`) is the relation `Resolves(c, s)` and the function `FullDenom(c, s)`;
- the contract's own address is `ContractAddr`.

The ledger that executes the emitted messages is outside the repository and is not modelled.

## 2. Modules

| Module | Models | Contents |
|---|---|---|
| `DenomValidator` | `validate_denom` | Pure operators, with no variables. Strings are `Seq(Char)`. The split is written without recursion (`SlashAt`, `PartCount`, `SlashRank`, `Boundary`, `Split`) so that proofs can use it. `ValidateDenom` is the chain of early returns. `DenomGrammar` is an independent statement of what a valid denom is, and does not use the split. |
| `DenomValidatorDriver` | — | A driver that types strings one character at a time, up to `MaxDenomLen`, and records the verdict of `ValidateDenom` on each. Also holds `ValidateDenomCorrect`, stated through `Split`. It has no recursion, so it can be proved about. |
| `DenomValidatorTests` | the tests of `validate_denom`, and the query-error mock | One state predicate of the driver per unit test of `validate_denom`, named after the test, and the error mock (`QueryErrorMock`, contract.rs 296-323). `ValidatorTestInstance` (an `ASSUME`) states what the tests' strings and mocks fix about the constants: `/` is the separator, the prefix is `f`, `x` lowers to something other than `f`, the resolver accepts `(x, x)` and refuses `("", x)`. No recursion, so it can be proved about. |
| `MC_DenomValidator` | `mock_dependencies_with_query_error` as a resolver | Runs the driver on every string of up to 7 characters. It holds `SplitRef`, a recursive reference definition of `str::split`, and the assumption `SplitAgreesWithReference`, which TLC evaluates before the run: on every string the driver builds, `Split` equals `SplitRef`. This checks the harness's rendering of the library call, not the contract, so it is not one of the run's properties. |
| `TokenFactory` | the contract | Variables `owner` and `version` (storage), and `call` and `response` (the last entry-point call and what it returned). There is one action per entry point or handler: `Instantiate`, `CreateDenom`, `ChangeAdmin`, `MintTokens`, `BurnTokens`, `ForceTransfer`, `GetDenom`. Each early return of the code is a disjunct of the action, guarded by the conditions that lead to it. The module also holds the safety properties and the refinement mapping to the abstract spec. |
| `TokenFactoryAbstract` | spec.md §4 | What the contract promises, without the check order or the error values. `Accept` handles a valid command and emits the one message that mirrors it. `Reject` refuses an invalid one. `Answer` answers a query, or fails it. |
| `TokenFactoryTests` | the tests of the entry points | One state predicate per unit test of `instantiate`, `query` and `execute`, named after the test. `HandlerTestInstance` (an `ASSUME`) states what `mock_dependencies` fixes: the separator and prefix, that the resolver accepts `(x, x)` and answers `f/x/x`, and that `addr_validate` accepts `x`. |
| `MC_TokenFactory` | `mock_dependencies` | The instance for TLC, described in §4. |
| `DenomValidatorProofs` | — | TLAPS lemmas about the split and about what `validate_denom` accepts and reports. |
| `DenomValidatorDriverProofs` | — | The TLAPS proof of `ValidateDenomCorrect` for every string. |
| `TokenFactoryProofs` | — | TLAPS proofs of the contract's safety invariants. |
| `TokenFactoryReplyProofs` | — | `Reply`, the handlers written as one conditional per handler, the invariant `ReplyInv` that every response is the reply to its call (lemma `AlwaysReply`), and from it the TLAPS proof of `QueryRefusalAborts`. |
| `TokenFactoryRefinementProofs` | — | The TLAPS proof that `TokenFactory` implements `TokenFactoryAbstract`. |
| `DenomValidatorTestProofs` | — | The TLAPS proof of `ValidatorUnitTests` for every instance that satisfies `ValidatorTestInstance`. |
| `TokenFactoryTestProofs` | — | The TLAPS proof of `HandlerUnitTests` for every instance that satisfies `HandlerTestInstance`. |

Correspondence of state to code:
- Before instantiation all four variables are `NoValue`.
- `Instantiated` (`owner # NoValue`) stands for "the contract exists". Only `Instantiate` is enabled before it.
- Errors are records: `InvalidSubdenom`, `ZeroAmount`, `InvalidAddress` (the `StdError` of `addr_validate`, passed on by `?`), `InvalidDenom` with a message record, and `Abort` for the panic of the query.
- `InvalidDenom` carries a record that stands for its message text. The record holds what the text reports: the part count, the prefix found, or the resolver's error. The resolver's error is modelled by the query it refused, `ResolverMsg(creator, subdenom)`. That matches the mock's `SystemError::InvalidRequest`, whose text carries the request, and in general the error is determined by the query. The text itself is not modelled.
- A `Uint128` amount is `0..MaxAmount`. The code tells only zero apart from other values.

## 3. Runs

| Run | Config | Expect | Shows |
|---|---|---|---|
| `dv_split` | `MC_DenomValidator.cfg` | pass | On all 21845 strings of up to 7 characters over `{f, F, x, /}` (the split of each was checked against the reference by `SplitAgreesWithReference` before the run). `ValidateDenomCorrect`: `validate_denom` accepts exactly `DenomGrammar`. Each refusal names the denom and the observed count, the observed prefix, or the query sent to the resolver (second part as creator, third as subdenom). `ValidatorUnitTests`: the five unit tests of `validate_denom` get the results they assert. |
| `tf_core` | `MC_TokenFactory.cfg` | pass | `TypeOK`. `EmittedAddressesValidated`: addresses put into messages passed `addr_validate`, or are the contract's own address for a mint without recipient. `EmittedDenomsWellFormed`: an emitted denom is the caller's and satisfies the grammar. `CheckOrder`: ZeroAmount comes first and exactly on zero, an InvalidAddress names the checked address, and an InvalidDenom comes only after every earlier check passed. `HandlerUnitTests`: the seven unit tests of the entry points get the messages, attributes and errors they assert. `AbstractSpec`: the contract refines `TokenFactoryAbstract`. `QueryRefusalAborts`: a `get_denom` query the resolver refuses aborts (the `unwrap` at contract.rs:213), and one it accepts answers the resolver's denom for the creator and subdenom asked; neither `TypeOK` nor `AbstractSpec` would notice an `unwrap_or_default` there. |
| `tf_created_denoms` | `MC_TokenFactory_CreatedDenomsUsable.cfg` | violation | See finding 1. |
| `tf_canonical` | `MC_TokenFactory_AcceptedDenomsCanonical.cfg` | violation | See finding 2. |

Each property of a passing run has a mutant in `PROJECT.json`. A mutant is a plausible bug in the mapped code, and TLC finds the property violated under that mutant:
- a case-sensitive prefix comparison;
- a mint recipient left as the raw Option;
- an optional address never validated;
- "at least 3 parts" instead of "exactly 3";
- `force_transfer` validating the denom before the amount;
- a mint recipient that ignores the caller;
- a part count that reports the separators instead of the parts;
- a response without its `method` attribute;
- a `get_denom` that answers the empty denom when the resolver refuses (`unwrap_or_default`).

The resolver's creator and subdenom, if swapped, go unnoticed by the grammar half of `ValidateDenomCorrect`: the test resolver refuses an empty creator and an empty subdenom alike. They are caught by its message half and by the `creator_address_invalid` test, which say which query was refused.

**Unit tests.** Each test in `mod tests` is a predicate named after it: "if the state holds this test's call or input, the result is what the test asserts". `ValidatorUnitTests` and `HandlerUnitTests` are the conjunctions. The tests use two mock resolvers:
- `mock_dependencies` answers every query with `factory/creator/subdenom`. This is `MCFullDenom`.
- `mock_dependencies_with_query_error` refuses an empty creator, then an empty subdenom. Any other query gets its own request back, which `full_denom` cannot read as a `FullDenomResponse`. So under this mock every query fails, which `QueryErrorMock` states.

`MCResolves` refuses an empty creator or subdenom and accepts the rest. On the query of each test it answers as the mock that test uses. The tests call `execute` on fresh dependencies without `instantiate`. The handlers read no storage, so any state after `instantiate` stands for that. `test_burn_tokens_serialization` is not modelled; it tests the serde attributes of `token_bindings` (§7).

Findings:

1. **Created denoms the contract cannot use** (`CreatedDenomsUsable`, `contract.rs:227`).
   - `create_denom` accepts any nonempty subdenom, `x/x` included.
   - The chain then creates `factory/<contract>/x/x`.
   - `validate_denom` refuses that denom on its local part count, before it consults the resolver.
   - spec.md §4.1 says denom legality is delegated to the resolver, so that validity tracks the authority's rules.
   - The code follows the count check of §4.2 literally; the disagreement is between that rule and the spec's own rationale, so it is recorded as a spec gap.

2. **Non-canonical denoms forwarded** (`AcceptedDenomsCanonical`, `contract.rs:241`).
   - `F/x/f`, which stands for `FACTORY/x/f`, passes the prefix check.
   - The handler forwards that string unchanged.
   - The resolver names the denom `factory/x/f`.
   - The spec requires the case-insensitive check but does not say which string the action carries.

## 4. Bounds

`MC_TokenFactory`:
- **Characters** are `{f, F, x, /}`. `"f"` stands for `"factory"`, `"F"` for an upper-case form of it, and `"x"` for any other letter.
- **Addresses** are `x` (the contract, valid), `f` (valid) and `F` (refused by the validator).
- **Denoms:** the 9 denoms reach every exit of `validate_denom`:
  - valid;
  - valid with an upper-case prefix;
  - wrong prefix;
  - prefix of the wrong length;
  - empty creator;
  - empty subdenom;
  - 1, 2 and 4 parts.
- **Subdenoms** are empty, plain, and containing `/`.
- **Amounts** are `{0, 1}`, because the code tells only zero apart.
- **Resolver:** it refuses an empty creator or subdenom, as the handler of the query-error mock does, and returns `factory/creator/subdenom`, as `mock_dependencies` does (§3, unit tests).
- **Test inputs:** `"x"` stands for `MOCK_CONTRACT_ADDR`, `DENOM_NAME` and `"invalid"`. `"F"` stands for the addresses `"transferme"` and `"tome"`, which the validator refuses. The amount 100 is `MaxAmount`. Every call of a test is among the inputs.

The handlers keep no memory between calls, so the state graph has depth 3: nothing, then instantiated, then any call. Every handler with every input is therefore one step from the instantiated state. The run covers all the inputs above, which is 1039 states.

`MC_DenomValidator` covers every string up to length 7. That includes every way of placing 0 to 7 separators and every prefix form, and the four-part denom of `msg_validate_denom_too_many_parts_invalid`.

## 5. Fairness and liveness

None. Every call runs to completion synchronously, and the contract has no waiting, retries or timers (spec.md §5). All properties are safety properties. The refinement property `AbstractSpec` is checked without fairness on either side.

## 6. Proofs (checked by `tlapm`)

The theorems hold for every value of the constants that satisfies `CharAssumption`, `AddrAssumption`, `ResolverAssumption`, `InputAssumption`, `NoValueAssumption` and, for the driver, `MaxDenomLenAssumption`:
- `Addr`, `Denoms` and `Subdenoms` are sets of strings.
- `ValidAddr ⊆ Addr` contains `ContractAddr`.
- The resolver maps addresses and subdenoms to strings.
- `MaxAmount` is a positive natural.
- The sentinel `NoValue` is not a string, not a call and not a response.
- `MaxDenomLen` is a natural.

TLC evaluates the `TokenFactory` assumptions and `HandlerTestInstance` on every run of `MC_TokenFactory`, and `CharAssumption`, `MaxDenomLenAssumption` and `ValidatorTestInstance` on `dv_split`. So the instance hypotheses of the two unit-test theorems are satisfiable: the instances TLC runs meet them.

**Lemmas about the split** (`DenomValidatorProofs`):
- `PartCountType`: the separators of a string are a finite set.
- `TwoSlashes`, `PairCardinality`, `ThreeParts`: a string with `PartCount = 3` has exactly two separators `a < b`, and its three parts are `SubSeq(s, 1, a-1)`, `SubSeq(s, a+1, b-1)` and `SubSeq(s, b+1, Len(s))`. The proof computes the ranks of the two separators, and from them the `Boundary` values that `CHOOSE` picks.
- `EqLowered`, `LoweredEq`: `eq_ignore_ascii_case` holds exactly when the lower-case forms are equal.
- `ValidateDenomSound` and `ValidateDenomComplete`: `ValidateDenom(d) = DenomOk <=> DenomGrammar(d)`, for every alphabet, prefix and resolver. This is the central lemma. It says the split, count, prefix and resolver checks of `validate_denom` accept exactly the strings `p/c/s` with two separators, `p` equal to "factory" up to case, and `(c, s)` accepted by the resolver.

- `SplitLen`: `Len(Split(s)) = PartCount(s)`. The split is a function on `1..PartCount(s)`, so it is a sequence (`SeqDef`), and `LenProperties` gives its length. `IsASeq` would be the direct route, but it takes an operator parameter, which the provers cannot instantiate.
- `OneCharPart`, `SplitAt`: a one-character part is that character (`SubSeqProperties`, `SeqEqual`); a string whose separators are exactly `a < b` has three parts, and they are the text around `a` and `b`.
- `TestDenomValid`, `FourPartDenom`, `TwoPartDenom`, `WrongPrefixDenom`, `EmptyCreatorDenom`: `validate_denom` on the five test strings, under hypotheses on the separator, the prefix, the case mapping and the resolver only. Each computes `SlashAt` of the string by a case split on its positions, its part count by `FS_Singleton`/`FS_AddElement`, and, for three parts, the parts by `SplitAt`. `factory//mydenom` has the empty creator `SubSeq(d, 3, 2) = <<>>` (`SubSeqEmpty`).
- `ValidateDenomReports`: a refusal names the denom. A "parts" message reports `Len(Split(d))`, which is never 3. A "prefix" message reports `Split(d)[1]`, which does not match "factory". A "resolver" message reports `Split(d)[2]` as the creator and `Split(d)[3]` as the subdenom. There is one case per early return.

**Theorems:**

| Theorem | Module | Statement | Inductive invariant |
|---|---|---|---|
| `TypeCorrect` | `TokenFactoryProofs` | `Spec => []TypeOK` | `TypeOK` itself. `TypeStep` has one step per action and one fact each for `call'` and `response'`. It uses `ValidateDenomType` (a refusal of `validate_denom` has the declared shape) and `DenomRefusalIsError`/`AddrRefusalIsError` (a refusal is one of the contract's errors). |
| `AddressesValidated` | `TokenFactoryProofs` | `Spec => []EmittedAddressesValidated` | `TypeOK /\ EmittedAddressesValidated`. The property is about the last call only, so a handler step establishes it from the action alone. It must be carried through stuttering steps, and `TypeOK` is needed for the shapes. The proof rests on `OptAddrAccepted`: a validated optional address lies in `Option(ValidAddr)`, and the mint recipient is valid, using `ContractAddr ∈ ValidAddr`. |
| `DenomsWellFormed` | `TokenFactoryProofs` | `Spec => []EmittedDenomsWellFormed` | `TypeOK /\ EmittedDenomsWellFormed`, plus `ValidateDenomSound`. |
| `ChecksInCodeOrder` | `TokenFactoryProofs` | `Spec => []CheckOrder` | `CheckOrder` itself. There is one case per early return of each handler. The proof uses `DenomRefusalKind` (every refusal of `validate_denom` is an `InvalidDenom`) and `ErrorKinds`. |
| `VerdictsCorrect` | `DenomValidatorDriverProofs` | `DriverSpec => []ValidateDenomCorrect` | `DriverInv`: the input is a string and the verdict is `ValidateDenom(input)`. `ValidateDenomCorrect` alone is not inductive: it says nothing linking the verdict to the input when the next character is typed. `DriverInv` is. TLC checked it on the 21845 states of `dv_split` before the proof. The property follows from `ValidateDenomSound`, `ValidateDenomComplete` and `ValidateDenomReports`. `MaxDenomLen` is arbitrary, so this covers every string. |
| `ValidatorTestsPass` | `DenomValidatorTestProofs` | `DriverSpec => []ValidatorUnitTests`, under `ValidatorTestInstance` | `DriverInv`. Each test's input has its verdict from one of the lemmas on the test strings. The hypothesis fixes only what the tests depend on; every other character, case mapping and resolver answer is left free. |
| `HandlerTestsPass` | `TokenFactoryTestProofs` | `Spec => []HandlerUnitTests`, under `HandlerTestInstance` | `ReplyInv` (lemma `AlwaysReply`, from `ReplyStep`). A response to a test's call is `Reply` of that call, and `TestDenomValid`, `MaxAmount # 0` and `x ∈ ValidAddr` pick its branch. Whatever the contract was called with earlier, the test's call gets the asserted response. |
| `QueriesAbortOnRefusal` | `TokenFactoryReplyProofs` | `Spec => []QueryRefusalAborts` | `ReplyInv`: before the first call there is no response, and afterwards `response = Reply(call)`. `Reply` writes each handler's early returns as one conditional; each action's response is its `Reply`, because the disjuncts of an action are exactly the branches of the conditional (`ReplyStep`). `NoValue ∉ Calls` rules out a first call equal to the sentinel. The `GetDenom` arm of `Reply` is the property. TLC checked `ReplyInv` on the 1039 states of `tf_core` before the proof. |
| `Refinement` | `TokenFactoryRefinementProofs` | `Spec => AbstractSpec` | `TypeOK`. `Init` maps to `AInit`. `Instantiate` maps to `AInstantiate`. Each handler maps to `Accept` or `Reject`, and `GetDenom` maps to `Answer`: one lemma per handler shows `call' ∈ Commands`, that `Valid(call')` holds exactly when the code accepts (by `ValidateDenomSound`/`ValidateDenomComplete` and `OptionValid`), and that `Effect(call')` is the emitted message. A stuttering step maps to a stuttering step. |

`ResolverQueryParts` (`DenomValidatorProofs`): when `validate_denom` reports a resolver refusal, the query it reports is the text between the two separators as the creator and the text after the second as the subdenom. It follows from `ThreeParts`. This is the resolver half of `ValidateDenomCorrect` without `SplitRef`, for every denom.

**Model-checked only:**
- `SplitAgreesWithReference`, the harness assumption that the non-recursive `Split` equals the recursive `SplitRef` on every string of up to 7 characters. For every string it would need induction over data, which the provers cannot do, and `SplitRef` is a `RECURSIVE` operator, so it stays in `MC_DenomValidator`. The proofs about `validate_denom` are stated through `Split`, so they rest on this check only for the claim that `Split` is `str::split`.
- The two violated properties.
- Liveness. There is none to check.

## 7. Not modelled

- The ledger that executes the messages.
- The serde encoding of the messages, which is derive-generated. This includes `test_burn_tokens_serialization`, which checks that `token_bindings` omits `burn_from_address` when it is `None`. That attribute lives outside the repository.
- The text of error messages. They are modelled by what they report.
- The cw2 and storage libraries.
- Authorization. The code never consults `owner` (spec.md §9), so the model has no guard on it, and no property claims one.

## 8. Plan for later work

1. State and check a property about the interplay of `CreateDenom` and the later handlers with a resolver that allows `/` in subdenoms. This would cover the setting of finding 1 with the chain's own rule rather than the test mock.
2. Model the ledger as a consumer of the emitted messages, if the repository grows a component for it. The burn-from capability of BurnTokens is the first candidate.
