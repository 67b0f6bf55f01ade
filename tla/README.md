# A verification of io-sasl in TLA+

io-sasl implements SASL mechanisms as I/O-free coroutines: a value built from
credentials, resumed with what the peer sent (`SaslArg`), that yields what to
write or to read next (`SaslYield`) or completes with the outcome of the
exchange. Everything concurrent or unreliable sits outside of it, in the
protocol crate that drives it and in the server. What the library has to get
right is therefore a *protocol*: which message in which state means what, what
a resume that fails leaves behind, and when it may say `Ok`.

The modules here model that. They are translated from `src/src/`; the tables
below say which module stands for which file, and `PROJECT.json` names the
lines of every definition.

## Components

| part (file) | state it keeps | operations | what makes it correct |
|---|---|---|---|
| contract (`coroutine.rs`) | none: the types every mechanism shares | `resume(SaslArg)` | `Ok` only when the mechanism is satisfied; a credential once; `Err` costs nothing |
| SCRAM (`rfc5802.rs`, and the three profiles `rfc5802/scram_sha_1.rs`, `rfc7677/scram_sha_256.rs`, `scram_sha_512.rs`) | state, username, password, client-first-bare, expected server signature | `new`, `resume` over four states, `client_final`, `verify_server_final` | the server proves itself before `Ok`; the proof answers this exchange's challenge, once; the channel is bound |
| GS2 header (`rfc5801.rs`) | none | `header`, `cbind_input`, `escape` | the header in clear and the one under the proof agree; no two identities are written alike |
| GS2-KRB5 (`rfc5801/gs2_krb5.rs`), GSSAPI (`rfc4752/gssapi.rs`) | state, the first token | `new`, `resume`: a relay of the caller's security context | tokens come out verbatim, in order, once; the name announced and the flag written agree |
| security layer (`rfc4752/gssapi.rs`) | none | `parse`, `to_bytes` | what one end writes the other reads; a size that does not fit saturates |
| PLAIN, EXTERNAL, ANONYMOUS (`rfc4616/`, `rfc4422/`, `rfc4505/`) | two states | one message, then the end | the message reads back as the credentials; sent once |
| LOGIN (`login.rs`) | three states | username, password, in answer to two prompts | order and once, whatever is resumed |
| CRAM-MD5 (`rfc2195/`) | three states | the digest of the challenge | no answer before the challenge, and over that one |
| OAUTHBEARER, XOAUTH2 (`rfc7628/`, `xoauth2.rs`) | three states, one with the server's explanation | the token, the acknowledgement of its refusal | a refused token is never reported as `Ok` |
| SASLprep (`rfc4013.rs`) | none | `saslprep` | what client and server hold of one password agrees; nothing prohibited goes out |
| vocabulary (`mechanism.rs`) | none | `SaslMechanism`, `as_str`, `Sasl` and the conversions into it, `Sasl::mechanism` | the name framed outside fits the coroutine inside |
| driver and server (not in this repository) | the connection, the initial response it could not send yet | feed, frame, answer, give up, retry | modelled from what `coroutine.rs` and the messages of the mechanisms say of them |
| security context (not in this repository) | tokens taken, the channel it is bound to | step, wrap, unwrap | modelled from what `rfc4752/gssapi.rs` and `rfc5801/gs2_krb5.rs` say the caller owes the relay |
| fuzz targets (`fuzz/fuzz_targets/`) | a script, an oracle beside the coroutine | feed, watch, assert | an assertion fails only when the mechanism is wrong |

Interaction is one call and its return. The driver owns the coroutine, resumes
it with `None` to begin, with `Input` for a challenge and with `Done` when the
protocol reports success; a protocol failure never reaches the coroutine.
Nothing inside is shared, and nothing latches an outcome: the type system does
not stop a driver from resuming a coroutine that completed, or with an argument
it did not ask for. Every module therefore lets the driver do just that.

What is hard here: messages early, late, repeated or of another exchange; a
server that ends the exchange before it proved itself; what a refused resume
leaves behind for the next; two values derived apart that must agree (header
and `c=`, name and flag, username and password prepared); a message framed by
separators that the data may hold; numbers that travel in fewer octets than
they are kept in; messages of an earlier exchange after a retry.
`PROJECT.json` lists them at their lines under `hazards`, each with the
properties that would catch it, or with the reason why none does (two coroutines
that share a nonce).

## Modules

    SaslCoroutine     arguments, replies, history            coroutine.rs
    SaslContract      abstract: what a mechanism promises    coroutine.rs
    Octets            texts and lossy decoding
    Gs2               header, escape, channel binding        rfc5801.rs
      Gs2Proofs         that it reads back, and how messages split
      Vocabulary        tags, names, the tag of a Sasl value   mechanism.rs, the SCRAM profiles
    Scram             the SCRAM coroutine                    rfc5802.rs
      MCScram           its small instance
      ScramProofs       its theorems
      ScramExchange     with driver, server and wire         (external peers)
        MCScramExchange   its small instance
        ScramExchangeProofs
      FuzzScram         under its fuzz target                  fuzz_targets/scram.rs
        MCFuzzScram       its small instance
        FuzzScramProofs   its theorems
    Plain Login External Anonymous CramMd5 XOAuth2 OAuthBearer Gssapi Gs2Krb5
                      one coroutine each
      Mechanisms        the Sasl value that picks one of them  mechanism.rs
        MCMechanisms      its small instance
        MechanismsProofs  its theorems
        Session           with driver, server and wire         (external peers)
          MCSession         its small instance
          SessionProofs     its theorems
        RelayExchange     the relays between two contexts      (external peers)
          MCRelayExchange
          RelayExchangeProofs
        FuzzExchange      under the fuzz target of them all    fuzz_targets/exchange.rs
          MCFuzzExchange
    SecurityLayer     offer and answer, by themselves and    rfc4752/gssapi.rs
      MCSecurityLayer   as part of RelayExchange
      SecurityLayerProofs
    Rfc4013           the profile                            rfc4013.rs
      Preparation       client and server preparing one text
        MCPreparation

How code becomes TLA+:

- The fields of a coroutine struct are variables of the same name, `resume` is
  `Resume(arg)`, one disjunct per arm of its `match`; an arm with an early
  return is two actions, the one that passes and the one that returns. The
  wildcard arm is the complement of the arms before it (`Expected`).
- `last` is the argument and the reply of the last resume, which is what a
  driver observes. `transcript` is history: the resumes that yielded a write.
  No action reads either; the properties are written over them, so that they
  say what an observer sees and not what the coroutine remembers.
- Cryptography is symbolic. A key, a proof or a signature is the record of what
  it is computed from, so two are equal exactly when their inputs are. That is
  the assumption that the digests are collision-free and unforgeable.
  `Pbkdf2` keeps the one arithmetic fact that shows: a count of zero derives
  what one does.
- A text is a sequence of tokens. `Lossy` is `String::from_utf8_lossy`, which
  the nonce goes through; `Escape` is the real escape, where an identity may
  itself spell `=2C`. A SCRAM message is the sequence of its fields, so repeated,
  missing, reordered and undecodable fields exist.
- `Vocabulary` keeps the tag of a mechanism apart from the name it is registered
  under, and both apart from the variant of the `Sasl` value: a coroutine
  announces a tag (`Mechanism` of each module), `mechanism` derives one from the
  value, and the driver frames the name. `From(variant, creds)` is the value.
- The three compositions have the same parts: `wire` holds the one message under
  way, `seen` every challenge sent so far (what a stray message can be), `clean`
  says whether the wire kept its word in this exchange, and `outcome` is what the
  driver reports. `Session` adds `held`, the initial response a protocol without
  room for one keeps for the first, empty challenge. `RelayExchange` adds the
  application's context (`caller`) and the variables of `SecurityLayer`, whose
  actions `Read`, `Choose` and `Answer` it takes when the contexts are through.
- In the fuzz targets a script is any sequence of steps, so each step is chosen
  when it is taken; a failed assertion is the state `panicked`.
- Integers that matter keep their width: the iteration count is limited by
  `U32Max`, the octets of the security layer count to `Radix`.
- Modules hold a few operators marked `mutated`: a definition as a plausible
  slip would have written it. They are used by nothing; each is what one of the
  properties is shown to notice when it takes the place of the real one.

## Runs

| run | states | what it asks |
|---|---|---|
| `scram` (MCScram) | 7,244 | one SCRAM coroutine, any message in any state |
| `scram_exchange` (MCScramExchange) | 79,002 | the coroutine in each profile, its driver, a server, a wire that may misbehave, two exchanges |
| `mechanisms` (MCMechanisms) | 3,778 | the nine other mechanisms, any message in any state |
| `security_layer` (MCSecurityLayer) | 5,446 | every offer, choice and answer of the small radix |
| `preparation` (MCPreparation) | 91,762 | every text of three code points, prepared in three places |
| `session` (MCSession) | 6,820 | the mechanisms that compute their payloads, a driver, a server, a wire that may misbehave, two exchanges |
| `relay` (MCRelayExchange) | 17,602 | the relays between two security contexts, and the security layer after them, two exchanges |
| `fuzz_scram` (MCFuzzScram) | 5,672 | the SCRAM fuzz target: the harness, its oracle, the coroutine |
| `fuzz_exchange` (MCFuzzExchange) | 1,156 | the other fuzz target, on nine mechanisms |
| `out_of_order`, `oauth_header`, `fuzz_scram_oracle` | | violations, see Findings |

**scram.** `AcceptanceOracle`: `Ok` answers only the end of an exchange in
which, after the proof, the very signature was fed that the messages written
and read call for; the reference is computed from the credentials and the
transcript, not from `expected_server_signature`. `NoSilentSkip` is the exact
converse as well: an end before that is refused by name wherever it falls, an
end after it always accepted, whatever was refused in between.
`ProofSentOnce`: one proof per coroutine, for a nonce that extends the client's,
keyed by the prepared password. `DerivedAsSpelled`: salt, rounds and nonce are those
of the last such field of the challenge, however often a field is repeated, and no
count past the width of a `u32` is cut down to one that fits. `ExpectationMatchesProof`: the signature kept is
the one of the challenge answered, never of one refused. `PreparedTogether`:
both texts prepared, or both as given. `FailuresChangeNothing`: `Err` leaves
everything. `ImplementsContract`: the refinement, see below.

**scram_exchange.** `Agreement`: when the driver holds `Ok`, the server stores
the client's password and has signed the messages the client wrote, over the
challenge the client answered. The signature does *not* show that the server
verified the proof, and the model has a server that did not: the property says
what SCRAM gives and no more. `BindingAgreement`: a server that verified read
the flag as written and holds the same binding material; the wire rewrites
headers to try. `NoDowngrade`: a server that offers `-PLUS` and verified the proof
was not talking to a client that believed it did not: the flag, under the proof,
tells it that the offer was removed on the way. `EventuallyDecided`: no exchange is left with each side waiting
for the other, in particular not when the server's last message comes with the
success and the acknowledgement has nowhere to go. `HonestSucceeds`: credentials
the server knows are accepted, also on a retry after a failed exchange, unless
the wire interferes with that very exchange. The server holds the flag it reads
against the name the driver framed, which is either `Sasl::mechanism` of the
credentials or the coroutine's own: the two have to agree for this to hold.

**session.** `OutcomesAgree`: a server gives access to the credentials it stores
and to the identity the application asked to act as, as preparation writes them,
never to another that it would also grant, even where the texts hold the separators
of their message; on a clean wire the driver's success is the server's.
`PromptsAnswered`: each response is what the server asks for at that moment,
whether the protocol carries the initial response or holds it back; a mechanism
one message ahead would send LOGIN's password to the prompt for the username.
`RejectionReported`: a token the server turned down with an explanation is never
reported as accepted once it was acknowledged, whatever success is read after it,
and what is reported is what that server said. `EventuallyDecided`,
`HonestSucceeds`: as above, on a first exchange and on a later one. A coroutine owns
the credentials it was built from, so `Retry` starts from the `Sasl` value again.

**relay.** `TokensInStep`: the server's context is never handed a token it does not
expect, so the relay added, lost, repeated and swapped nothing, the empty last token
included, whatever the wire hands the driver in the place of an answer. `PeersAgree`: a server that accepts acts for the
identity, has read the flag and uses the layer and the size that the application
meant, whatever the wire did to the header in clear; and an application that
takes the exchange for authenticated has a server whose context came through. The
coroutine says `Ok` on the peer's word alone, so it is the application that checks
its context and the layer, as the module documentation has it. Liveness as above.

**fuzz_scram.** `NoPanic`: the assertions of the harness hold, whatever the
script. `OracleAgrees`: the server-final-message the harness derives from outside
is the one the coroutine waits for, also with a comma in the nonce or an octet
that is not UTF-8, and with fields repeated; if not, the accepting half of the
exchange is never fuzzed.

**fuzz_exchange.** `StrayRefused`: a peer that goes on challenging is refused by
every mechanism but the relays after its first challenges.

**mechanisms.** `ScriptFollowed`: messages in their order, each once; a relay
writes what it was fed and nothing else. `CredentialsReadBack`: a reader that
splits the message at its separators finds the credentials the caller gave,
prepared where the mechanism prepares them, and could not have read another
identity. `EndDecides`: only an end completes `Ok`, and it always does, except
after a refused token, when every end reports that refusal. `NameMatchesFlag`:
the name announced and the flag written agree on channel binding.

**security_layer.** `OfferUnderstood`, `AnswerUnderstood`: each end reads what
the other meant; an offer is refused exactly when it cannot be answered; a size
too large is answered by the largest there is, never by a smaller one.

**preparation.** `OutputClean`, `ServerReadsSame` (preparing twice is preparing
once), `SpellingsAgree` (look-alikes end as one password), `BoundariesKept` (a
zero-width space is a space *and* mapped to nothing: the first wins),
`RefusedForCause` (U+0340 is prohibited, and gone after normalization: the check
comes last).

**The contract.** `SaslContract` is the abstract specification: a credential is
spent once, what the peer's messages establish they establish after that, `Ok`
needs the peer proven (for a mutual mechanism) and not rejected, and `Err`
changes nothing. `Scram` implements it as a mutual mechanism and `Mechanisms` as
one that is not; the mapping reads the abstract state off the transcript
(`spent` counts proofs, passwords, tokens; `peer` is what was fed after them).

### Bounds

- `Creds`, `Sasls`: each binding case, each optional field absent and present,
  texts that the preparation changes and refuses, identities made of the
  separators of their message. Credentials never interact, so one or two of
  each kind meet every branch.
- `Messages`: a server message for every fault `client_final` and
  `verify_server_final` tell apart, and every signature that a server with the
  right or another password could compute over any acceptable challenge. The
  driver may feed any of them any number of times, in any state.
- `U32Max = 3` (4 under the fuzz target, which tells a large count from the width): the code compares the count with the width and with nothing
  else; 0, 1, the width, one past it and, repeated after a good one, two past it are told apart.
- `Legs = {1, 2}`: a context of one token on each side ends with an empty token
  straight away, one of two has a token in the middle, which is where order shows.
  Its octets count to `Radix = 8`, the offers are one cut short, one of no layer,
  one that leaves no choice, and one of all three; the sizes lie on both sides of
  the largest that travels.
- `Sasls` of `session`: for each mechanism, credentials the server stores and some
  it does not, and for those that name an identity one it grants, one it does not,
  none and an empty one; a username that spells the rest of an OAuth message,
  separators included, and a password that preparation refuses. `Accounts`: one account, with and without anonymous access.
- `MaxChallenges` and `MaxIterations` of the fuzz targets: a mechanism has at most
  three states, and a count either exceeds the limit or does not.
- `MaxWrites = 4`: a relay never ends by itself. Two tokens after the first
  already show reordering and repetition; the other mechanisms write at most two.
- `MaxExchanges = 2`: a stray message comes from an earlier exchange; with one
  earlier exchange every pair of exchanges occurs. One of the two nonces is a
  prefix of what a server makes of the other, which is the case where an old
  challenge extends the new nonce.
- `Radix = 16`: the arithmetic is the same for every radix of 8 and more (three
  bits are defined in the mask, and bits beyond exist). Sizes lie on both sides
  of each octet's limit.
- Texts of three code points: a base letter, something mapped or removed, and
  the accent that would combine across it.

### Fairness

Safety runs have none. `scram_exchange`, `session` and `relay` assume `WF(Driver)`
and `WF(Server)`:
a driver that is handed a message resumes the coroutine (it is a synchronous
loop around `resume`, `coroutine.rs`), an application goes on with the layer it
has read, and a server that is handed a message answers.
Nothing is assumed of the wire, of `Abandon` or of `Retry`. Both liveness
properties allow an exchange to be abandoned; they exclude one that hangs.

### Assumptions

- Each coroutine gets a nonce of its own: the documentation of the field leaves its
  randomness to whoever builds the credentials. `Retry` picks one not used before, and
  what follows when a caller clones the nonce with the credentials is not examined.
- `Prep` is a constant in `Scram` and `Mechanisms`, of which `PrepAssumption` says
  that it makes a text of a text, or refuses it; `Rfc4013` models it. NFKC is
  external to both.
- In `RelayExchange` nobody but the two contexts makes or alters a token or what is
  wrapped, a context is used for one exchange, and a context for GS2-KRB5 is bound
  to the header and the channel, as RFC 5801 has it and the `token` field asks.
  `RelayAssumption` says that of the `Sasl` values: each is what `From` makes of its
  parts, its token is the first of a context that something identifies, and no context
  takes more tokens than there are numerals (three). `LayerAssumption` asks of offers,
  identities and sizes what `SecurityLayer` does.
- A CRAM-MD5 server makes up a challenge it has not used before.
- Symbolic cryptography, as said above.

## Findings

- `out_of_order`. `cairn/spec/coroutines.md:32` says that a mechanism computing
  its own payloads completes `Err` when resumed out of order. PLAIN, LOGIN,
  EXTERNAL and ANONYMOUS match on their state alone and answer a challenge that
  arrives before anything was exchanged.
- `oauth_header`. OAUTHBEARER writes the username into the GS2 header as it is
  (`rfc7628/oauthbearer.rs:145`), where the other header of the library escapes
  it (`rfc5801.rs:68`). With a separator in the username the header names
  another identity.

- `fuzz_scram_oracle`. The SCRAM fuzz target says that the message it computes is
  the only one that may be accepted (`fuzz_targets/scram.rs:72`), and computes it
  from the password as it was typed (line 266), while the mechanism, built with
  `saslprep` (`fuzz/Cargo.toml:12`), derives from the prepared one. For a password
  that preparation changes, the two differ: the target would stop on a right
  acceptance. The mechanism is not at fault. `fuzz_scram` is the same module over
  passwords the preparation leaves alone, where the two agree.

## Theorems

Each proof module extends the module it is about. `ScramProofs`,
`ScramExchangeProofs`, `FuzzScramProofs`, `MechanismsProofs`, `SessionProofs`,
`RelayExchangeProofs` and `SecurityLayerProofs` prove what their runs check, for every value of the
constants; `Gs2Proofs` holds what they need of sequences, of the header and of
messages cut at separators.

| theorem | property, or what it states |
|---|---|
| `ScramProofs`: `Invariance` | the inductive invariant |
| `TypeCorrect` | `TypeOK` |
| `Acceptance` | `AcceptanceOracle` |
| `EndJudged` | `NoSilentSkip` |
| `SingleProof` | `ProofSentOnce` |
| `DerivationRight` | `DerivedAsSpelled` |
| `PreparationAtomic` | `PreparedTogether` |
| `Expectation` | `ExpectationMatchesProof` |
| `FailureAtomic` | `FailuresChangeNothing` |
| `Implementation` | `ImplementsContract`: Scram refines `SaslContract` |
| `ScramExchangeProofs`: `ExchangeInvariance` | the inductive invariant |
| `MutualAuthentication` | `Agreement` |
| `BindingAgreed` | `BindingAgreement` |
| `DowngradeFoundOut` | `NoDowngrade` |
| `FuzzScramProofs`: `Watched` | the inductive invariant |
| `NeverPanics` | `NoPanic` |
| `DerivationsAgree` | `OracleAgrees` |
| `MechanismsProofs`: `Invariance` | the inductive invariant |
| `TypeCorrect` | `TypeOK` |
| `ScriptKept` | `ScriptFollowed` |
| `EndDecided` | `EndDecides` |
| `FailuresHarmless` | `FailuresChangeNothing` |
| `NamesAgree` | `NameMatchesFlag` |
| `CredentialsRead` | `CredentialsReadBack` |
| `Implementation` | `ImplementsContract`: Mechanisms refines `SaslContract` |
| `SessionProofs`: `SessionInvariance` | the inductive invariant |
| `PasswordsInPlace` | `PromptsAnswered` |
| `RejectionKept` | `RejectionReported` |
| `AccessGranted` | `OutcomesAgree` |
| `RelayExchangeProofs`: `RelayInvariance` | the inductive invariant |
| `TokensKept` | `TokensInStep` |
| `PeersAgreed` | `PeersAgree` |
| `SecurityLayerProofs`: `Invariance` | the inductive invariant |
| `OfferRight` | `OfferUnderstood` |
| `AnswerRight` | `AnswerUnderstood` |
| `Gs2Proofs`: `HeaderReadsBack` | no two headers are written alike |

**ScramProofs.** None of the properties is inductive: `AcceptanceOracle` speaks of
the transcript, the step that accepts looks at `state`, and the step before it at
`expected_server_signature`. The invariant that ties them (`IInv`) is the
*position* of the exchange: in each state the transcript is exactly the prefix
of the exchange that the state stands for, the texts are those prepared for it,
and the expected signature is the reference for the one challenge that was
answered. `Invariance` shows it by one step per action: four move to the next
position, five stay. The lemma that carries the argument is
`OnlyTheSignaturePasses`: a message `verify_server_final` lets through *is* `v=`
and the expected signature, nothing less and nothing more. The properties then
follow from the four shapes of the transcript, without another induction. The
assumptions are `CredsAssumption`, `PrepAssumption` (credentials are texts, and
preparing one gives a text or a refusal) and `MessagesAssumption` (a message is a
sequence of fields). `DerivationRight` also takes `WidthAssumption` (a value that
is no number lies outside the width): `Accepted` says what `client_final` has read of
a message it lets through. `Errors` names the
variants of `SaslScramError`; that a resume never completes with anything else is
part of `TypeOK`, and `FaultsAreErrors` is the lemma it takes.

**ScramExchangeProofs.** The invariant (`EInv`) says whose every signature is,
on the wire or seen before: one that this server made, over a nonce in use, and if
that is the current nonce, then of the current exchange. `Retry` keeps it because
the nonce it picks is in no message yet, so nothing that was seen can satisfy the
new coroutine (`NonceAssumption`: nonces that differ still do once read as text).
With `IInv` of the coroutine, a coroutine that is done was signed for by the server
as it stands. `BindingAgreement` is part of the invariant, and for `NoDowngrade`
and it `Gs2Proofs` shows that the flag of a header is recovered from it.

**FuzzScramProofs.** What the harness holds beside each state of the coroutine. The
two hypotheses are the finding `fuzz_scram_oracle` the other way round: no
password is changed by the preparation (`PasswordsStable`), and what the fuzzer
feeds raw is a sequence of fields (`RawWellFormed`). For other passwords
`OracleAgrees` is false, as `fuzz_scram_oracle` shows.

**MechanismsProofs.** The invariant says what each entry of the transcript is: the
i-th message of a mechanism is a function of the `Sasl` value and of what the
driver fed when it went out (`Message`, `Due`), and the state a function of how
many went out. One lemma per mechanism (`PlainOutcome` and so on) shows that a
resume ends, refuses, waits or writes in that form; the rest is proved once, from
the outcome. `CredentialsRead` is the one theorem with hypotheses: the preparation
is on and refuses a NUL (`NulProhibited`; with the feature off nothing refuses it),
and the reader knows the identities an application may name (`NamesKnown`). The
texts of the OAuth mechanisms have to be free of separators only where the
property itself says so.

**Gs2Proofs.** The escape and the flattening of a header are recursive functions;
that an identity is recovered from its escape, and a header from what follows it,
goes by the least counterexample, the set of lengths at which the lemma fails
having a least member. `Split` is not recursive: its cuts are ranked by how many lie
before them, so that the pieces of a message are found by counting the cuts of its
parts (`SplitFirst`). The last section counts the pieces (`SplitOccurrences`: each
separator makes one more), from which a reader that insists on their number finds
the texts that were written, or nothing (`ThreePieces`, `FourPieces`, `SixPieces`).

**SessionProofs.** The invariant (`SInv`) relates the two ends. Whatever the wire
does: a message to the server is the one the mechanism wrote last, what the driver
holds back is its first, and the server asks for the username, the digest or the
credentials by the mechanism's name, for the password of LOGIN, or for the
acknowledgement of an OAuth mechanism. As long as the wire keeps its word, the
question is the one which the next message answers (`InStep`, by counting
messages), and a token that was turned down has that explanation as the input of
its second message (`TurnedDown`). `PasswordsInPlace` and `RejectionKept` follow.
`AccessGranted` adds what the messages say: also when the texts of an application
hold the separators of the syntax, no server that reads them grants access to other
credentials or another identity. The assumptions are those on the constants:
`SessionAssumption` (an account is made of texts, may act as itself, and what a
server says is among the inputs) and `PrepAssumption` of `Mechanisms`.

**RelayExchangeProofs.** Neither property is inductive: that a token fits depends on
how far the other context has come, and a challenge that reaches the driver may be
any that was ever sent. The invariant (`RInv`) says where the two contexts stand to
each other (`Serving`: the application's has taken as many tokens as the server's, or
one less), that a message on its way to the server is the one it waits for (`Toward`),
that every challenge ever sent was made by one of the contexts built so far
(`Recorded`), and that one which the current context can have made was made in its
time (`InTime`), so that the driver, which goes on only with the challenge its
context expects, finds the server where that challenge left it. `Retry` keeps it
because a new context makes none of the challenges seen (`NothingYet`): two `Sasl`
values with the same context differ in nothing else (`ContextsDiffer`). What the
coroutine contributes is one lemma, `Passing`: a resume of a relay writes what it was
fed, or its first message, or nothing. A rewritten header is refused by
`ReadFirstKeeps`: the channel the context is bound to begins with the header it was
made for, and `HeaderReadsBack` recovers the flag and the identity from it. The
security layer is brought in with its own invariant, by instance
(`LayerP == INSTANCE SecurityLayerProofs`). The lemmas have one leaf per conjunct that
a step can disturb; the assumptions are `RelayAssumption`, `LayerAssumption` and
`SaslsAssumption`, and none bounds the number of exchanges.

**SecurityLayerProofs.** For every `Radix` of eight or more, 256 among them: a number
below the cube of the radix is its three octets, a mask is the bits it carries,
and the sizes saturate. The invariant says what each phase has computed.

Only model-checked:

- `Preparation`: what it says rests on what NFKC does to each code point, and NFKC is
  another crate's. A proof for every `Nfkc` would have to assume of it much of what the
  properties conclude (that it makes none of the removed, mapped or prohibited code
  points, that it keeps spaces apart, that it folds the spellings in any context), so
  that the run, exhaustive up to three code points over tables that hold each case,
  says more.
- `StrayRefused` of `FuzzExchange`: a mechanism that is not a relay has at most three
  states, so that the run meets every path of it; what it writes is covered by
  `ScriptFollowed`, and what remains is a count of the challenges.
- `EventuallyDecided` and `HonestSucceeds` in the three compositions: liveness
  under fairness, and the `ENABLED` behind it, are out of the prover's reach.

## Plan

In this order, the first six written:

1. SCRAM and the contract it implements; its proofs.
2. SCRAM between driver and server: agreement, binding, downgrade, liveness, retry.
3. The other mechanisms, composed by the `Sasl` value; the vocabulary.
4. Security layer; SASLprep.
5. A driver and a server for the other mechanisms, a security context behind the
   relays, and the two fuzz targets.
6. Proofs about `ScramExchange`, `FuzzScram`, `Mechanisms`, `SecurityLayer`,
   `Session` and `RelayExchange`.
7. `Rfc4013` in the place of the constant `Prep`; the `saslprep` feature off in
   `Mechanisms` (`Scram` is proved for either value of it).

Abstract specifications worth stating: `SaslContract` (done), and an
authentication service above the three compositions that grants or refuses in one
step.

## Not modelled

The digests and PBKDF2 (other crates, symbolic here); base64 and the framing of
the transport (the protocol crates); logging and the wiping of secrets, on which
no behaviour of an exchange depends; the ranges of the SASLprep tables, of which
a few members stand for each, those claimed twice included; NFKC. The fuzz target
of every mechanism drives the three SCRAM profiles as it drives the others: those
arms are left out of `FuzzExchange`, since `MCScram` feeds that coroutine any
message in any state. The tests were read as statements about the code.
