# A formal model of ce-fleet

ce-fleet enrolls machines into a CE fleet, hands out capabilities to them and
to paired devices, and shows the fleet in a console. This directory holds TLA+
models of its core, TLC configurations that check them on small instances and
proofs that TLAPS checks for all of them. Paths below are relative to `src/`.

    tlc -workers 2 -config PairingConsent.cfg MCPairing     # one run
    tlapm PairingProofs.tla                                 # one proof module

## 1. The system

| part | source | state it keeps | operations |
|---|---|---|---|
| nonce ledger | `enroll-service/src/nonce.rs` | burned nonce -> time its record may go, behind a mutex, in memory | `claim` (window check, collection, burn) |
| capability issuance | `enroll-service/src/attenuate.rs` | none | `working_abilities`, `clamp_not_after`, `working_resource`, `issue_working_cap` |
| enrollment delegate | `enroll-service/src/service.rs`, `token.rs`, `main.rs` | identity, held chain, policy (fixed per process) and the ledger | `/enroll`, `/fleet/token`, `/fleet/revoke`, `/fleet/revoked`, `/fleet/rollup` |
| mesh rollup | `enroll-service/src/rollup.rs` | none | one pass over the atlas of the local node |
| first boot (Linux) | `packaging/linux/ce-enroll.sh`, `systemd/*.service` | `enrolled` marker, `wallet/fleet-working.cap`, unit states | the script's steps, start and retry of the unit, start of the worker |
| first boot (Windows) | `packaging/windows/*.ps1` | the same two files, a startup task | the same steps, once in each boot; the task unregisters itself at the end |
| pairing | `fleet-cli/src/daemon.rs`, `pair.rs`, `proto.rs`, `main.rs` | pending prompts with one-shot channels, id counter, `roots` file | request over the mesh, park, list, decide, time out, mint |
| pairing command | `fleet-cli/src/main.rs`, `pair.rs`, `daemon.rs` (`api_pair`, the page) | where each command or button stands | resolve, parse the lifetime, request, store the answer, tell the owner |
| wallet | `fleet-cli/src/wallet.rs` | `wallet.toml`, received capabilities by alias | load, insert, save |
| console | `console/src` | health, rollup, revoked set, errors (`FleetState`) | poll the delegates on a timer, merge, show; token form |
| packaging, egress rules, CI | `packaging`, `.github` | none | placement of files, static rules |

How they interact. A machine's first-boot script POSTs its node id, a fresh
nonce and the shared secret to the delegate's `/enroll`. The handler reads the
clock, checks the secret, claims the nonce in the ledger, parses the node id
and mints a capability by appending one attenuated link to the delegate's own
chain. The script stores the answer, then writes the marker that ends the
retries and lets the inference worker start. `/fleet/token` mints through the
same function without the ledger. Pairing is the same exchange between two
devices with a human in the middle: the mesh handler parks the request behind a
one-shot channel, the local HTTP API lists it on a page or a terminal and
resolves it, and the handler mints, adds the asker to the roots file if it
was asked to, and replies; the asker puts the token into its wallet. A capability
is withdrawn by naming the issuer and the nonce of one of its links; the delegate
only answers with that instruction, and an admin with the key signs it. The console
only reads, through the delegates' rollups, each a pass over the atlas of the
delegate's own node.

What is hard here: handlers that use a clock reading taken before they were
scheduled; a ledger that forgets with the process; a decision that races its
own timeout across a lock, a channel and a drop; screens that outlive the
process they list; two timeouts on two machines; a power cut between two file
writes; replies lost after their effect; commands given up whose effect comes later; a line of a file that is
appended in two writes; a file that several programs rewrite without a lock; refreshes that overlap; arithmetic where 0 means
"no bound". `PROJECT.json` lists each hazard at its line.

## 2. The modules

| module | models | state and actions against the code |
|---|---|---|
| `SaturatingTime` | `u64` seconds | `saturating_add`; 0 as a deadline is none |
| `OneTimeTokens` | what the ledger promises | abstract: each request is told accepted, used or too late, once |
| `NonceLedger` | `NonceLedger::claim` under concurrent handlers | `burned` is the map; `Receive` the `now()` of `enroll`; `ClaimExpired`, `ClaimUsed`, `ClaimOk` the three ways through `claim`, atomic by the mutex; `Tick`, `StepBack` the wall clock |
| `Attenuation` | `attenuate.rs` and the `ce_cap::authorize` it relies on | pure operators: `WorkingAbilities`, `ClampNotAfter`, `WorkingResource`, `CanIssue`, `IssueWorkingCap`; `Authorize` and `Weakens` are external, from how the code uses them |
| `Enrollment` | the delegate process | every handler with its early returns in the code's order, the ledger as an instance of `NonceLedger`, `policy` from the flags, `Restart` that drops `burned` and the requests in flight; `withdrawn` are the capabilities an admin revoked on the delegate's instruction, `Revoked` the set hosts read |
| `FirstBoot` | script, units or startup task, and a delegate reduced to what `Enrollment` shows | one action per script step that a crash can separate, the same for both systems; `Exit` is the end of the script as systemd or the task scheduler sees it; `platform` tells retries, the marker's condition and the worker's dependency (Linux) from `Unregister` (Windows) |
| `Consent` | what pairing promises the owner | abstract: a verdict for each request, at most one grant after a yes |
| `Pairing` | daemon, asking devices, owner | `stage` is where `handle_inner` stands between two awaits; `pending` and `nextId` are `DaemonState`; `mailbox` the one-shot channel; `Take` and `SendDecision` the two halves of `decide`, under and after the lock; `Elapse` and `DropReceiver` the timer and the later drop of the channel; `RefreshPage` draws the page anew every two seconds, `ListPending` is a terminal between two commands |
| `Wallet` | `wallet.rs` under several writers, `wallet_alias` | `pc` is where `add` stands; `Load`, `Open` (which empties the file) and `Write` with a failure of each; `wallet` the copy in memory, `file` and `entries` what a reader of `wallet.toml` would get |
| `PairStore` | `ce-fleet pair` and the Pair button | extends `Wallet` with `stage`, where each attempt stands, and an instance of `Consent` for each peer; `GiveUp` is the timeout, an error of the mesh or the end of the process, after which the peer may still answer and grant; `Ttl` and `NotAfter` are the two sums of `parse_ttl` and `mint`, modulo the width of `u64` |
| `Rollup` | `rollup.rs` and `mergeRollups` | pure operators: `Classify`, `RollupOf` (the loop over the atlas), `MergeRollups` (`ById`, the map it fills, and `Tally`, the counts made of it); `Reflects` is the reference they are checked and proved against |
| `Console` | `Store.refresh` on its timer, with the delegates it polls | a slot is one refresh under way, `stage` and `asked` the awaits it stands at, `known` its local `revoked`; `Show` the assignments at its end |
| `MCNonceLedger`, `MCEnrollment`, `MCFirstBoot`, `MCPairing`, `MCPairStore`, `MCConsole` | small instances | the values the `.cfg` files name |
| `NonceLedgerProofs`, `EnrollmentProofs` (with `Attenuation`), `PairingProofs`, `FirstBootProofs`, `WalletProofs`, `PairStoreProofs`, `RollupProofs`, `ConsoleProofs` | proofs | section 5 |

Composition: `Enrollment` extends `Attenuation` and instantiates `NonceLedger`;
`UsesLedger` states that the handlers drive the ledger as `NonceLedger` allows,
so what is proved of the ledger holds inside the delegate. `NonceLedger`
implements `OneTimeTokens` (`KeepsPromise`), `Pairing` implements `Consent`
(`KeepsConsent`), and `PairStore` is built on both ends of a pairing: it implements
`Wallet` on this device (`PairingFillsAWallet`) and takes of the peers what `Consent`
says, which `Pairing` keeps as long as a peer's daemon lives. Operators whose names end in `Bug` are plausible mistakes in
the definition that follows them; no specification uses them, and each property
was seen to fail with one of them in place.

Choices a reader should know:

* Secrets are right or wrong, abilities, tags and nodes are model values; of a
  capability's caveats only the expiry is modelled, since the code sets no other.
* `now` of a handler is a variable of its own: the code reads the clock once, at
  the top, and every later use is that reading.
* `WrappingAdd` and `SaturatingAdd` work on `0 .. TimeMax`, so that the edges of
  `u64` are reached in a run of a few ticks.
* In `FirstBoot` `attempt` numbers the POSTs; the fresh nonce of each is why no
  ledger appears in it. A POST on the wire may be handled after the machine gave
  up on it.
* Under systemd the script is retried for ever: the unit sets `StartLimitIntervalSec`
  in `[Service]`, where systemd does not read it, and starts that are `RestartSec=10`
  apart never add up to `StartLimitBurst` within the default interval of 10 seconds.
  A worker start job that depends on a failed unit is cancelled and not queued again
  in that boot.
* A full disk stops `FirstBoot`'s script at either file; the marker's is there as soon
  as it is opened, so an empty marker beside a whole capability is an outcome.
* `append_root` writes the id and the newline separately (`writeln!` on a `File`, which
  has no buffer). In `Pairing` either write may fail, the first after a part of the id
  (`Fragment`), and a restart may come between them.
* A text written to `wallet.toml` over a longer one may leave entries of it behind it
  (`WrittenOver`) or a file that does not parse.
* In `Pairing` the daemon's own steps take no time, and the mesh delivers within
  `MaxDelay` each way, waiting in the serve loop included. An operator may look,
  wait and answer at any time, from a page or a listing of any age.
* `said`, `told` and `torn` in `Pairing` are history variables: what the owner answered,
  what an operator was told took effect, and whether the roots file was ever left, or
  found, with a last line that does not end. `life` in `Enrollment` is one: the process
  that received a request.
* `shown` and `overtaken` in `Console` are history variables: the parts that the
  grid was merged from, and whether another refresh has shown its revoked set since
  this one took its copy. What is on chain when the console opens is left open.

## 3. What the runs check

| run | instance | shows |
|---|---|---|
| `ledger_window` | 3 requests, 2 nonces, window 2, retention 3, a clock that may be set back to the window's start | no nonce is accepted twice (`OneTime`), "already used" is true (`UsedWasAccepted`), and the ledger implements `OneTimeTokens` |
| `ledger_open` | the same without a window, as `main.rs` configures it | a record lives for its retention whatever order claims come in, and a nonce is accepted again only after it |
| `enroll_caps` | one enrollment and one token request, a window of 3, two-link chain with a tag and an expiry, a policy without a tag or with one the delegate may not grant, one restart | what is issued weakens the chain, names the right node, honours the tag asked for and is accepted by every host it covers until it expires or is revoked |
| `enroll_broad` | two racing enrollments and a token request, no window, as `main.rs` configures it, one restart, a clock that may be set back | within one life of the process a nonce buys a second capability only once a claim has read a time past the retention of the first (`OneCapPerRetention`), no burn without the secret, and `UsesLedger` |
| `enroll_link_nonce` | two enrollments, one by each of two nodes whose ids differ by one in the first byte, either of which may be revoked | refutes `RevocationSparesOthers` |
| `first_boot_crash` | one machine of either system, a right, wrong or missing secret, a token beside it or alone, or no delegate, 5 POSTs, 2 reboots, 2 faults | the marker stands for a whole capability, no enrolled machine asks again, the Windows task goes only with an enrollment, under systemd the worker runs only and eventually on enrolled machines, and a machine with the right secret ends up enrolled, or on Windows with a failed start as its last (`GoodMachinesEnroll`) |
| `first_boot_token` | one machine with a pre-minted token | refutes `TokenAccepted` |
| `pairing_consent` | two requests, a page and a terminal, a mesh delay of 1, timeouts 1 and 4 | only what the owner approved is granted, a denial that took effect is final, the asker learns the answer before it gives up, and `Consent` is implemented |
| `pairing_restart` | two requests for roots, one terminal, one restart, a failure of any write of the append | prompts end and leave no entry behind, and a device told it is a root is missing from the file only if a line was left without an end (`RootedUnlessTorn`) |
| `pairing_stale_id` | the same without roots | refutes `GrantedWasApproved` across a restart |
| `pair_store` | 3 attempts, two with peers of one label and one with a peer whose label is unusable, one of them from the page; a product and a sum that wrap around, a lifetime without end | what the owner is told is true of the peer (`AnswerIsTrue`), the wallet holds only what was approved and granted, an entry added alone stays, overlapping adds keep one of them at least, only overlaps and writes cut short leave an unreadable file, no capability outlives the lifetime asked for, and every command ends |
| `console_refresh` | 2 delegates, 2 nodes that both may know, 3 atlases, 2 refreshes at once, one change of the world | what is shown is what the delegates that answered saw, the others are named in the error line, a failed read of the revoked set keeps what is shown unless another refresh came between (`KeptUnlessOvertaken`), and a quiet fleet comes to be shown as it is |

Why the bounds are enough. Three ledger requests are one to burn, one to
collect and one to reuse, and two nonces let one claim collect another's record.
`TimeMax` is past window and retention, so every comparison is seen on both
sides, and small enough to saturate. Two enrollments are the smallest race; one
restart separates before from after, and a second one meets the same states.
With 2 reboots a machine is cut off twice, at any two steps, and 2 faults cover
a lost reply followed by an outage. A machine that is refused asks for ever, which
`MaxPosts` bounds; one that is not sends at most one POST more than it meets reboots
and faults, so 5 never stops it: it would stay unenrolled and `GoodMachinesEnroll` fail.
Two pairing requests are what it takes
for an id to be drawn again, for a listing to be stale and for two lines to share
the roots file; two operators are what it takes to answer one prompt twice.
Every attempt is made at the first instant (`LastAsk`), since nothing in the
daemon depends on when the first one comes, and the second can be parked at any
later step within `MaxDelay`.

Three attempts to pair are two that overlap in the wallet and one that loads what they
leave; the third alias lies below the other two, so that a text cut short may keep
some of its entries. `TimeMax` is 7: `3 * 3` wraps around to 1, `3 + 2` does not and
`7 + 1` does, to 0. Two refreshes are enough for an older one to end last; a delegate
may be down at first, so that one change brings it back, and the instance of 2
changes (minutes) holds the safety properties too.

Deadlock is not checked: each instance has finitely many requests, ticks, boots
and faults, and stops when they are used up; in `console_refresh`, which never
stops, TLC found none.

## 4. Fairness and liveness

`FirstBoot` assumes weak fairness of the script, the unit and the worker start
(a process that can run does), of the delegate's handler, of the local node's
coming up and of the delegate's return after an outage. Nothing forces a reboot
or a fault. `GoodMachinesEnroll` needs all of them on Linux: the unit is never given
up, so an outage without end would be retried without end. `Pairing` assumes weak
fairness of the clock, of the daemon's tasks (tokio polls what is ready), of the
delivery of a reply and of the API handlers, and none of the owner: `PromptsEnd`
holds if nobody ever looks. `PairStore` assumes weak fairness of the timeout of a
request and of the wallet's steps, in a process that goes on, and none of the mesh, the
peer or its owner: `CommandEnds` holds if nobody ever answers. `Console` assumes weak fairness of each refresh: the
timer goes on, and a fetch, which has no timeout of its own, is answered or fails
at last when the connection does. None assumes strong fairness. `NonceLedger` and
`Enrollment` have no liveness: their steps are finite handlers of requests.

## 5. What is proved

For every value of the constants, under the assumptions named in the modules
(types of the constants, a non-empty held chain that names the delegate, a list of
delegates that names each once, finite atlases, as a JSON answer is).

* `NonceLedgerProofs`. `NonceAcceptedOnce` (`OneTime`), `UsedAnswersTrue`,
  `RecordsRetained`, `NoEarlyReuse`, `LedgerKeepsPromise`, `TypeCorrect`.
  `OneTime` is not inductive: a claim looks only at the map. `OneTimeInv` adds
  that an accepted nonce's record runs past the end of the window
  (`OnRecordPastWindow`); a claim that reaches the map has a reading within the
  window, so it never collects that record. It needs `ReplayWindowCovered`: a
  window is set, is shorter than the retention, does not saturate, and no
  clock shows a time before it. Retention and early reuse need a clock that is
  never set back (`~ClockMayStepBack`), and rest on `NoReadingAhead`.
* `EnrollmentProofs`. `WorkingCapWeakens`: a cap that can be issued adds no
  ability, no host and no time to its parent's. `IssuedCapsWeaken` (`CapsWeaken`) by `CapsInv`, one lemma
  for the two issuing steps and one for the rest; needs `ClockFloor > 0`, since
  at time 0 the clamp yields 0, "no bound". `IssuedCapsAccepted`
  (`IssuedCapsWork`) adds `HeldChainSound`, what the org root promises of the
  chain it signed. `OnlyTheSecretBurns` (`BurnedByAuthenticated`) needs no assumption.
  `DelegateUsesLedger` (`UsesLedger`): from one restart to the next, each step of a
  handler is a step of `NonceLedger` or leaves it alone; `OneLifeIsLedger`: a delegate
  that is never restarted implements `NonceLedger`. `RetainedNonceBuysOneCap`
  (`OneCapPerRetention`) needs no assumption: no window, as in `main.rs`, restarts and
  any movement of the clock are in it. `RetainedInv` says why: who got past the ledger
  in this life is on record for its retention, or a claim of this life that read a
  later time has been there (`AllRecorded`), which no later step takes back
  (`ClaimsStay`). `TagsAreHonoured`
  (`TagHonoured`) is for a held chain over any host or the hosts of a tag.
  `EnrollmentTypes`.
* `PairingProofs`. `OnlyApprovedGranted` (`GrantedWasApproved`) and
  `PairingKeepsConsent` (`KeepsConsent`, each step a step of `Consent` or a
  stutter), for any number of requests, devices and operators and any timeouts.
  The invariant `IInv` follows the yes from the owner to the mint: ids differ
  (`IdsDiffer`), whatever carries an id - entry, listing, call - means the
  request that drew it, and a yes in a channel was said. Needs
  `MaxRestarts = 0`; `pairing_stale_id` shows why. `DeniedIsNeverGranted`
  (`DenyIsFinal`) follows a no the same way: an operator is told of it only once it
  is in the channel, and only one sender ever takes a prompt. `DeviceHearsTheAnswer`
  (`CleanAnswer`) bounds the time at which each stage is left, and needs that the
  decision timeout and two mesh delays stay below the request timeout.
  `RootedStaysListed` (`RootedUnlessTorn`) holds across restarts, for any roots file and
  any failure of either write of an append: until a line is left without an end, every
  append starts a line of its own (`ContinueEnded`), and nothing the daemon does takes a
  listed line back (`FrameListed`). `TypeCorrect` holds across restarts and for any roots file; the
  one thing it needs besides the types is that a file without lines has no line to
  continue (`Continued`).
* `FirstBootProofs`. `MarkerIsTrue` (`MarkerMeansCap`), `TaskGoesLast`
  (`NoTaskMeansEnrolled`), `AsksOnlyUntilEnrolled` (`EnrolledNeverAsksAgain`),
  `WorkerWaits` (`WorkerOnlyEnrolled`) and `TypeCorrect`, for any number of
  machines, reboots and faults. `CrashInv` says for each place in the script what
  is already on the disk, since a reboot may come there; `WorkerInv` says what a
  unit that ended well means.
* `WalletProofs`. `StoredAlone` (`StoredStays`), `LastOneStays`
  (`LastWriteCounts`), `ReadableAlone` (`ReadableUnlessDisturbed`) and
  `TypeCorrect`. The first needs that the copy in memory holds whoever was told
  "stored" (`StoredInv`), which only holds as long as one add at most is under
  way (`OneAtATime`); the second only that each copy has its own entry
  (`OwnEntry`).
* `PairStoreProofs`. `PairingFillsAWallet`, by which `StoredAlone` holds of a pairing
  as well (`PairedStays`); `OwnerIsToldTheTruth` (`AnswerIsTrue`), `OnlyGrantsAreHeld`
  (`WalletHoldsGrants`), `PairTypeCorrect` and `ApprovalBoundsLifetime`
  (`NeverOutlivesApproval`), the last from the arithmetic alone: a sum that wraps
  around only ever shortens a lifetime, and one that comes to 0, "no bound", lies
  past any time there is.
* `RollupProofs`. What the loops compute, for every atlas and every list of parts:
  `RollupReflects` and `MergeReflects` (the result satisfies `Reflects`), and
  `ArrivalOrder`: the parts may arrive in any order, unless two delegates heard of a
  node equally long ago and disagree on it. The loops are folds of the community
  modules, whose induction theorems take an operator and cannot be used here. The
  induction is therefore over the subsets of a finite set, by a least
  counterexample: `FS_StrictSubsetOrderingWellFounded` and `WFMin` speak of sets
  only (`SmallestBad`). From it, once for all folds: the recursive function a fold
  is a CHOOSE of exists (`FoldExists`), stays within its type (`FoldTyped`), and does
  not depend on the set around it (`FoldAgrees`); then, for each of the five loops,
  one step of it (`TallySteps`, `JobsSteps`, `RollupSteps`, `KeepSteps`,
  `PartFolds`). On these rest the two invariants of the loops: `Tallied`, the
  counters agree with the list so far (`CountTallies`), and `Freshest`, of each node
  met so far the freshest view is kept (`KeepFreshest`). `JobsSplit` is why the order
  of a sum does not matter. `RollupReflects` needs that an atlas has one entry for
  each node; a merge does not.
* `ConsoleProofs`. `MissingIsAlwaysReported` (`MissingIsReported`): in every refresh
  each delegate is asked, has its part, or is among the errors.
  `ShownIsAlwaysWhatDelegatesSaw` (`ShownIsWhatDelegatesSaw`) by `StoreInv`: what is
  shown is always the merge of the parts of one refresh (`Merged`), and
  `MergeReflects` says what that is. `TypeCorrect`, where the length of `parts` needs
  that a delegate is asked once in a refresh and the lists of refreshes are not
  shared (`AskedOnce`), and a count of injections (`PartsFit`). `KeptByAllNotOvertaken`
  (`KeptUnlessOvertaken`): the copy of the revoked set that a refresh holds is the
  one shown until another refresh shows its own (`CopyIsShown`).

Only model-checked: every liveness property (`GoodMachinesEnroll`, `WorkerAfterBoot`,
`PromptsEnd`, `CommandEnds`, `Converges`), since the prover handles neither fairness nor
ENABLED. Every invariant and every other action property that a passing run checks is
a theorem. No module has a RECURSIVE operator.

## 6. Where the code and its documentation part

Each is a property in a module that fails under the constants given; the ones
with a run have their trace from TLC.

| property | what happens | seen with |
|---|---|---|
| `OneTime` | `main.rs:104` sets no window, so an old nonce is accepted once its record is collected; `nonce.rs:6` says it is refused thereafter | `ledger_open` |
| `OneCapPerNonce` | the ledger is in memory, so a restart forgets it, and without a window time does too; `nonce.rs:6` as above | `enroll_broad` |
| `NoClaimBeforeWindow` | `claim` never looks at the start of the window | `ledger_window` with `WindowStart = 2`, `ClockFloor = 0` |
| `RevocationSparesOthers` | time plus first byte of the node id collides, so a revocation ends the capabilities of both nodes; `service.rs:111` calls the nonce delegate-unique | run `enroll_link_nonce` |
| `TokenNoncesDiffer` | two tokens for no node in particular, in one second, carry one one-time nonce; `service.rs:240` says they differ | `enroll_caps` with `TokenReq = {t1, t2}` |
| `CapsWeaken` | a clock at the epoch and a ttl of 0 clamp to 0, "no bound" | `enroll_caps` with `ClockFloor = 0`, `TokenBody <- EpochToken` |
| `TagHonoured` | a chain confined to a node is passed on whatever tag was asked for | `enroll_caps` with `DelegateChain <- NodeChain` and `Policies <- SiteTag` |
| `NoWorkerBeforeEnrollment` | no delegate URL: the script exits 0 and the worker starts (`ce-infer-worker.service:3`); on Windows its service depends on `ce-node` alone (`Install-CeFleet.ps1:111`) | `first_boot_crash` |
| `TokenAccepted` | the pre-minted token is compared with the secret | run `first_boot_token` |
| `OneCapPerNode` | a reply lost after the mint, retried with a fresh nonce | `first_boot_crash` |
| `WorkerAfterEnrollment` | the first attempt of a boot fails, and the worker's start with it | `first_boot_crash` |
| `GrantedWasApproved` | ids start at 1 again after a restart, listings do not | run `pairing_stale_id` |
| `RootedIsListed` | an append cut short between its two writes, or within the first, leaves a line without an end; the next id is glued to it, and its device told it is listed (`daemon.rs:200`, "Returns true if the file now lists it") | `pairing_restart`; also with `RootsFiles <- EditedByHand` |
| `AcceptIsObeyed` | the send succeeds between the timer and the drop of the channel | `pairing_consent` |
| `CleanAnswer` | mesh delays that use up the slack between the timeouts | `pairing_consent` with `RequestTimeout = 3`, `MaxDelay = 1` |
| `NonceNamesOne` | two mints in one second share their nonce | `pairing_consent` |
| `StoredAlwaysStays` | two adds that overlap: the second writes a copy loaded before the first wrote; `main.rs:121` has told both owners "stored in wallet" | `pair_store` |
| `NotPairedMeansNoGrant` | the page says "Not paired" (`daemon.rs:390`) of a request given up, or of a wallet that cannot be written, whose capability exists (`daemon.rs:340`) | `pair_store` |
| `GrantIsHeld` | such a capability is in no wallet, and nothing on this device names it for revocation | `pair_store` |
| `KeptOnFailure` | `revoked` is captured before the await, so a failed read puts back what another refresh has replaced (`store.ts:135`, "keep previous on a transient failure") | `console_refresh` |

## 7. Not modelled

* How a revocation reaches the hosts, by other programs over time: `Revoked` is what
  the chain says at once.
* The nonce of a `PairRequest`, which `proto.rs:46` says names the issued capability:
  `mint` never reads it and takes its own clock (`daemon.rs:173-179`).
* `secret_eq` compares strings; the model has the right or the wrong secret.
* The owner's screen shows a lifetime rounded to days (`daemon.rs:403`); what the owner
  approved is the number that was asked for. Hostname and tier in the script, and
  the best-effort `ce wallet add`.
* Whether `roots` is a file. The packages make it a directory
  (`packaging/linux/debian/postinst.sh:18`), where `append_root` always fails; `Mint` lets it
  fail before any write, so what is shown of the reply's `rooted` flag covers this.
* The order in which a file system writes back files nobody synced.
* The console's page: filter, token form, drawing. What `last_seen_secs` means is
  settled outside this repository; `Rollup` reads it as an age, as `rollup.rs` and
  `delegate.ts` do, `fleet-cli/src/main.rs:178` as a time.
* Installers, fan-out scripts, Ansible, egress rules, macOS service files, CI:
  files and commands in a line, without state of their own.

## 8. Plan

What is left, in this order; each adds its module or theorem, an instance and its
hazards.

1. `TrustPanel`: the token form across the refreshes that rebuild the page
   (`trust.ts:73-84`, `main.ts` `render`).
2. The time a pass over a large atlas takes (`rollup.rs:95-99`): ages of different
   moments meet in `mergeRollups`.
3. `PairStore` over `Pairing` itself in place of `Consent`, so that a restart of the
   peer's daemon is seen from the asking device too.
