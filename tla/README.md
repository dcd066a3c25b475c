# Formal models of DKGKit

TLA+ models of DKGKit, checked with TLC on small instances and, for the four
protocol state machines, proved with TLAPS for every instance. `PROJECT.json`
ties every definition to the source lines it stands for.

## Inventory of the system

| Part | State | Operations that change it | Modelled in |
|---|---|---|---|
| FROST key generation (`dkgkit-frost`, `FrostDkgSession`) | runtime cell: pending shares, stored round 1 set | `new`, `round1`, `round2`, `finalize` | `FrostDkg` |
| FROST signing (`SigningRequest`, `FrostSigningSession`) | nonce cell per session object | `new`, `nonce`, `sign_share`, `aggregate` | `FrostSigning` |
| Policies (`dkgkit-core` configs, `validate_*_signer_set`) | none | pure | `SignerPolicy` |
| Birkhoff interpolation | none | pure | `Birkhoff`, `BirkhoffSolver` |
| HTSS key generation, `HtssDkgService` | round 1 state held by the caller | `htss_dkg_round1/2`, `finalize_htss_dkg` | `HtssDkg` |
| HTSS key sets, local and distributed key generation, resharing | shares held by the caller | `run_*_htss_keygen`, `reshare_htss` | `HtssKeys` |
| HTSS signing | local nonce held by the caller | `htss_nonce`, `htss_sign_share`, `aggregate_htss_signature_shares` | `HtssSigning` |
| Grouped policy, taproot and silent payment tweaks, signing for an output | none | pure, in sequence | `VaultSpend` |
| `MemoryTransport`, `LocalNostrEventTransport` | message or event buffer, connected flag | `connect`, `disconnect`, `publish`, `drain_matching`, `drain_session` | `FrostCoordinator` |
| `FrostCoordinator` (`dkgkit-sdk`) | the transport it owns | `publish_*`, `drain_*` | `FrostCoordinator` |
| `Transport` trait | what implementations promise | `publish`, `drain_matching` | `Mailbox` |
| `LiveNostrTransport` | relay thread, command channel, inbound buffer, `seen` set | `connect`, `disconnect`, `publish`, `drain_matching`, inbound handler | `LiveNostrTransport` |
| `nostr-transport-service` example | its coordinators and sessions | `main`, `collect` | `TransportService` |
| Rest of `dkgkit-bitcoin`, session builder and manifest, local helpers, `NostrTransport` stub, other examples | none of their own | constructors, conversions, fixed call sequences | not modelled |

How they interact: each device owns one `FrostDkgSession` per ceremony and one
`FrostSigningSession` per request. Packages travel as `ProtocolMessage`s that a
`FrostCoordinator` publishes on a transport and drains from it by session, kind
and recipient. `finalize` yields the `LocalKeyShare` the signing calls take. The
HTSS functions do the same without session objects: the caller keeps states and
nonces. The library neither schedules nor retries: the application decides the
order of calls, so the models let it call anything at any time.

What makes it hard: packages carry little context (a round 1 package no session,
a signature share no digest); sessions keep one-element cells that calls
overwrite or take from; errors come after partial effects; devices restart; the
live transport times out on work that still happens; x-only keys lose a sign that
several functions have to restore in the same way.

## Modules

**FrostDkg** has one cell per device: `pending` is
`DkgRuntime.pending_secret_shares` (or the empty `RefCell`), `round1_packages` the
stored set; `round1_out`, `round2_out` and `local_shares` collect everything ever
returned. Actions are `NewSession`, `Round1`, `Round2`, `Finalize`. Callers pass
any lists of packages ever produced, plus malformed ones. A random polynomial is
the pair of its device and draw number and a sum of polynomials is the set of its
summands, so two sums are equal when their summands are. This symbolic reading of
`schnorr_fun` is the one cryptographic assumption: no accidental collisions, and a
package labelled with an id comes from that device.

**SignerPolicy** holds the configurations and the three validations, with the
sort and the cut to the first `threshold` ranks as in the code. Struct fields are
public in Rust; values built without `new` are outside the model.

**FrostSigning** has, per device and request handle, the nonce cell
`nonce_runtime`. Two handles may carry the same request (a request opened twice).
Actions are `NewRequest`, `NewSession`, `Nonce`, `SignShare`, `Aggregate`. A share
records what its value depends on (secret nonce, nonce map, digest, key);
verification compares those.

**Birkhoff** is the interpolation in numbers, modulo a prime `Order`: derivative
basis, matrix, and the elimination with its pivot search, row swap, scaling and
clearing. **BirkhoffSolver** takes `solve_scalar_system` one column per step, so
that properties can speak of the system between columns.

**HtssDkg** has `Round1`, `Round2`, `Finalize` over packages as in `FrostDkg`. Each
device brings its own policy and any of the states it holds. A share whose rank
reaches the threshold is a derivative that vanishes, and verifies against any
commitments.

**HtssSigning** has `Nonce`, `SignShare`, `Aggregate`. Nonces are passed by
reference and may be passed again; nonce and share lists are chosen freely and
separately. Coefficients are those of `Birkhoff`. The final verification succeeds
when nonces and challenges fit and the weights give the key for every polynomial.

**HtssKeys** holds the steps of a key set in numbers: `LocalKeygen`,
`DistributedKeygen`, `Reshare`. A point is its discrete logarithm and the smaller of
`p`, `-p` is the one with even y. `Reshare` may be given the wrong old
configuration, or shares of which one is old or damaged.

**VaultSpend** composes them into the life of a vault: a key under a grouped policy,
reshared to other policies, a child address or a silent payment, the tweak, and
threshold signatures for the group key or the output. Hash values are inputs.
`taproot_child_key_tweak` derives the child twice from the same hashes and compares;
both derivations are one operator here, so that comparison never fails.

**FrostCoordinator** models both in-process transports behind the coordinator.
Which of the two is chosen initially. Messages are numbered as published, so loss
and duplication show. A drain ends as one of three actions: the transport fails, a
drained message is no package, or packages are returned.

**Mailbox** is the abstract specification of a `Transport`: boxes fill with
messages that were published and are meant for the reader, late, repeatedly or
never, and a drain takes exactly what it selects. `FrostCoordinator` over
`MemoryTransport` and `LiveNostrTransport` are shown to implement it.

**LiveNostrTransport** has an application thread per device and a relay thread per
`connect`. The blocking calls are split at their waits (`Connect` and
`ConnectReturns`, `Publish` and `PublishReturns`, `Disconnect` and
`DisconnectReturns`), the thread into `ThreadStarts`, `HandleCommand`,
`SendReturns`, `Receive`, `Close`. A wait may time out at any time. A send may fail
with or without the relay having the event. An event is identified by the fields
its id hashes, so the same clear text in the same second is the same event, and a
sealed one never is. Only events the devices send are modelled. Events of other
applications fail the checks of `handle_inbound_event` and change nothing but the
`seen` set. A well-formed event of another author with the app tag would pass, as the
handler does not look the author up in the directory; authenticating participants is
the application's part (`docs/SECURITY_MODEL.md` line 7), and what the refinement of
`Mailbox` says is limited to the devices' own events.

**TransportService** composes `FrostDkg` with one live connection per device, as
`main` of the example does. `main` is one thread, so its loops are steps of one
program counter; deliveries happen at any time in between. The commitments of an
earlier run that the relay still stores are chosen initially (`history`), and a
failing publish or a passed deadline may end any publishing or collecting step (`Fail`).

Operators commented "Deviation" are plausible wrong versions of the definition
after them. No action uses them; substituting one violates the property
`PROJECT.json` lists it for.

## What TLC checks

| Run | Instance | Shows |
|---|---|---|
| `dkg` | 2 participants who both draw twice, a third device with id 3 | contribution and conditional agreement over every mix of old and new packages, no share for the outsider |
| `signing` | 3 devices (one with a foreign key), a request under two handles, a second digest under the same session id, 5 requests that the three policies refuse, 2 nonces each | nonces are used once, shares of one request never complete another |
| `birkhoff_all` | every policy of 4 participants with ranks 0..3, every signer set it accepts, two orders, field of 101 | the solver fails exactly on a zero determinant, and its coefficients reconstruct `f(0)`; which accepted sets interpolate |
| `birkhoff_valid_sets` | the same | `ValidSetsInterpolate` is violated, see below |
| `htss_dkg` | 3 devices under one policy, one of a rank that reaches the threshold, one that draws up to three times; 2 devices with different policies | contribution, conditional agreement; a device finalizes only with participants whose policies agree with its own, and can whenever they do and have answered round 2 |
| `htss_signing` | 3 devices (one with another policy), two digests with a common signer, two sessions, a request the policies refuse | aggregates speak for their signers; a nonce serves one session even if it is passed again; single use keeps signatures apart; an honest round verifies |
| `vault` | 5 grouped policies, 5 signer lists, local and distributed keys, any number of resharings, 6 hash functions, 4 payment scalars, nonces and challenges of either parity, field of 7 | accepted sets open the group key; the tweak leads to the output key and fits the address; accepted quorums never fail verification, also with shares newer than the address; the rank rule refuses no quorum of a well ranked policy |
| `vault_grouped` | the same | `GroupedQuorumsSign` is violated, see below |
| `coordinator` | 3 publications out of 9 messages, 6 drain calls, over either in-process transport | nothing vanishes, losses have a cause, order and addressing; `MemoryTransport` refines `Mailbox` |
| `coordinator_blank_kind` | the same over `LocalNostrEventTransport` | `LossIsSelective` is violated, see below |
| `live` | 2 devices; one publishes twice, sealed for the other or in clear for itself, the other connects twice; fair | copies are those of retries and reconnects, commands go to the current thread, refinement of `Mailbox`, calls return, abandoned threads end |
| `service` | 2 devices; a fresh relay, or commitments of an earlier run by either device, under another session id or the same; faults; fair | counting packages collects one of everyone, no device finalizes on old commitments, completion unless a fault occurs |

Bounds. `MaxDraws`, `MaxNonces`, `MaxConnects` and `MaxPublishes` limit `round1`,
nonce, `connect` and `publish` calls: two of one actor are what it takes for an old
and a new package, thread or event to be around together. `MaxPublished` is three:
a bad message, one drained with it, one that must stay. `Stamps` is a single
second: a retry in clear then repeats the event id, and a sealed one never does.
`VaultSpend` looks at one signing call, as a call keeps nothing. Restarts and all
other calls are unbounded. `Broken` limits the ids of malformed packages to one,
since the code treats all ids alike. The field of 7 is small enough for all parities and zero
sums to occur. In the field of 101 a determinant could be zero by accident of the
field; the two reported below are zero over the integers. `Random` and
`Challenges` limit scalars to some of both parities. Deadlock is not checked where
a system may stop: when the bounds are used up, or `main` has ended. Three devices
with repeated draws in `FrostDkg`, and three devices in `TransportService`, are not
among the instances; for `FrostDkg` the proofs cover every number.

Fairness. `LiveNostrTransport`: started calls return (both waits are
`recv_timeout`), and relay threads take steps (`select!` picks among ready branches
at random, so a busy relay does not starve the channel; calls of the Nostr client
are assumed to return). The last is an assumption about nostr-sdk: `disconnect`
joins without a timeout, and waits as long as a send does. Nothing obliges the relay
to deliver or the application to call. `TransportService`: `main` runs on and the
relay delivers what it stores. The other modules are not fair and claim no
liveness: no code in the library obliges a device to continue.

Findings, each the counterexample of a run.

- `LocalNostrEventTransport::drain_matching` returns at the first event that does
  not decode, after emptying the buffer. A message of kind `Custom("")` is accepted
  by `publish`, and the next drain of any kind then loses everything buffered,
  although `docs/API.md` line 71 says that draining one kind does not consume
  another. `MemoryTransport` does not do this.
- Some signer sets that `validate_hierarchical_signer_set` accepts cannot
  reconstruct or sign, as their Birkhoff system is singular, although
  `docs/FROST_API.md` lines 121-123 speak of any valid signer set. Surplus signers
  can cause it (threshold 1, ranks 0,0,0,2, signers 4 and 1), and so can the ids
  (threshold 3, ranks 0,1,0, signers 1,2,3). Both determinants are zero over the
  integers. The call returns an error; no wrong signature comes of it.
- A grouped policy with a gap in its ranks, or without rank 0, is accepted and gets
  a key, but the rank rule refuses every quorum of it, although
  `docs/FROST_API.md` lines 234-238 offer grouped policies for HTSS signing.
  `WellRankedQuorumsPass` says which policies are safe from this.

## What is proved

`FrostDkg_proofs`: `TypeCorrect`, `Contribution`, `Agreement`, `Outsider`, for any
`N`, devices and draws, from `DkgAssumption`. The inductive invariant adds
`Provenance` to the properties: pending shares are of a polynomial of the device's
own, and a package under an id carries a polynomial of that id. Without it a sum
that matches the aggregate could hide whose polynomials it sums. Agreement follows
since each key holds one released polynomial of each participant.

`FrostSigning_proofs`: `TypeCorrect`, `SingleUse`, `SpeaksForSigners`,
`NonceFixesSignature`, for any devices, requests and policies, from
`SigningAssumption`. The invariant adds `NonceMoves`: a nonce in a cell is in no
other cell and in no share, so a call can only move it. `CountingSigners` justifies
the code's comparison of counts: as many packages of different signers as there
are signers come from all of them.

`HtssDkg_proofs`: `HtssContribution`, `HtssPoliciesAgree`, `HtssAgreement`,
`HtssCanFinalize` and type correctness, for any devices, policies and draws, from
`HtssDkgAssumption`. Here `Provenance` also says that a package carries the threshold
and ranks of its sender's policy, which is what makes the set checks compare
policies. `Published` says that a polynomial somebody got a share of was published
and shared with every participant: that is where the packages to finalize with come
from.

`HtssSigning_proofs`: `HtssSpeaksForSigners`, `HtssSingleUse`, `HtssReuseInSession`
and type correctness, for any devices, policies, requests and field, from
`HtssSigningAssumption`. The invariant adds that a share was made with a nonce its
device drew in the share's session, that no nonce was drawn for two sessions, that a
challenge hashes nonces of the share's session only, and that every share of weight
in a signature was made for what the signature signs. Unlike in FROST signing, single
use is a hypothesis about the caller: `htss_sign_share` takes its nonce by reference.
What the library itself ensures is that reuse stays within a session.

Only model-checked: the transports and their refinement of `Mailbox`,
`TransportService`, and everything in numbers (`Birkhoff`, `HtssKeys`,
`VaultSpend`). Out of the prover's reach: liveness, `ENABLED`, induction over data
(so what the elimination or a sum over signers computes), and recursive operators.

## Not modelled

- Serialization formats, hashing, hex and network names, address, message and PSBT
  formatting, sighashes and witnesses: conversions over rust-bitcoin types without
  state or choice.
- The curve arithmetic of `schnorr_fun`, `secp256kfun` and `secp256k1`, except as
  described above. Errors on sums that are zero by chance occur in `HtssKeys` and
  `VaultSpend`, not in the symbolic modules.
- What a relay stores: event kind 30333 is in the range relays may treat as
  replaceable per author, so a device that subscribes late may find only the last
  event of each author. `CompletesUnlessFault` assumes a relay that delivers all.
- `SessionConfig`, the session builder and `SessionManifest`: one-shot constructors,
  with a phase that no code advances. The `NostrTransport` stub does nothing.
- `HierarchicalSigningRequest` and `GroupedSigningRequest`, which bundle the checks
  of `SignerPolicy` and the coefficients of `Birkhoff` with a request.
- The local ceremony helpers and the other examples: the modelled operations, each
  called once in a fixed order.
