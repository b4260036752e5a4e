# A TLA+ model of rns-over-email

rns-over-email carries Reticulum (RNS) packets between two nodes as e-mail. One process
bridges one peer: packets from `rnsd` go out through SMTP, mail in an IMAP folder comes back
as packets. This directory holds a model of the bridge, the TLC configurations that check it
on small instances, and TLAPS proofs of its main properties for instances of any size.

## The system

```
            stdin                HandlePacket            Send / Probe
  rnsd ───────────────> pipe ───────────────> Handler ───────────────> SMTP server
   ^                     ^  ^                    │ setOnline                │
   │ stdout              │  └── SetOnline ── Aggregator                     v
   └──────────────────── │                       │ setOnline             mailbox
                         └──────────────────── Worker <────────────── IMAP server
                              InjectWithRetry    │ FetchSince, Idle, cleanup
                                                 v
                                      JSONRepo (checkpoint.json)
```

| Component | Source | State | Operations |
|---|---|---|---|
| IMAP worker | `internal/imap/worker.go` | `lastUID`, the lists of one fetch, backoff, `existsCh` | `Run`, `runSession`, `fetchAndProcess`, `cleanup`, `idleLoop`, `pollLoop` |
| IMAP client | `internal/imap/client.go` | connection | `Dial`, `Login`, `Select`, `FetchSince`, `Idle`, `Noop`, `MoveUIDs`, `DeleteUIDs` |
| Checkpoint repository | `internal/inbox/repo.go` | `checkpoint.json`, a mutex | `GetCheckpoint`, `AdvanceCheckpoint` |
| Packet handler | `internal/pipe/handler.go` | `recovering` | `HandlePacket`, `beginRecovery`, `StartupProbe`, `recover` |
| Inject | `internal/pipe/inject.go` | none | `InjectWithRetry` |
| SMTP sender | `internal/transport/smtp.go` | connection | `Send`, `Probe` |
| Envelope codec | `internal/envelope/envelope.go` | none | `Encode`, `Decode` |
| Online aggregator | `internal/online/aggregator.go` | `imap`, `smtp`, `last`, a mutex | `SetIMAP`, `SetSMTP` |
| Connections | `internal/transport/timeoutconn.go`, `dial.go` | timeouts | `DialTCP`, `Read`, `Write`, `SetTimeout`, `SetHardDeadline` |
| Wiring | `cmd/rns-over-email/main.go` | process context, `errCh` | `run` |
| Configuration | `internal/config/config.go` | none after start | `Load`, `Normalize`, `Validate` |

How they interact:

- The worker calls `inject` from inside the FETCH. `inject` repeats `iface.Receive` while the
  pipe is offline, and the pipe is online only when both the worker and the handler said so
  (the aggregator). So the inbound half can wait for the outbound half with its IMAP session
  open.
- `HandlePacket`, `StartupProbe` and `recover` run in goroutines of their own and share the
  atomic flag `recovering` and the online signal.
- The server's EXISTS notifications reach `idleLoop` through a channel of capacity one.
- The process context is cancelled by a signal or when the pipe closes; a watcher goroutine
  then closes the IMAP connection.

What is hard in this code, and what makes each component correct:

- *Worker.* FETCH responses in any order, an inject that fails in the middle, a message that
  never decodes, a crash before or after the checkpoint is saved, a rebuilt mailbox. Correct
  means: no message is passed over (`NoGap`), a checkpointed packet is not injected again
  (`NoReplay`), cleanup removes nothing that is still needed (`CleanupIsSafe`), no new mail is
  slept over (`NoLostWakeup`), and everything is delivered in the end (`Delivered`).
- *Repository.* Concurrent callers and a crash in the middle of a save. Correct means that it
  behaves like one variable (`ImplementsStore`).
- *Handler.* Lost answers to DATA, several goroutines that want to start or end a recovery.
  Correct means at most one copy of a packet (`AtMostOnce`), at most one recovery
  (`SingleRecovery`), an interface that goes offline for it, which nothing but the startup probe
  overrules (`OnlyStartupOverrules`), and that comes back (`ComesBack`).
- *Aggregator.* The callbacks of concurrent goroutines must not overtake each other. Correct
  means that it looks like a signal that changes in one step (`ImplementsSignal`).
- *Process.* The two halves wait for each other through the pipe, and the process must end
  although one of its goroutines may not. Correct means: online only when both halves were
  verified (`OnlineMeansVerified`), no half waits for ever (`InjectEnds`), an orderly and certain
  end (`WorkerEndsFirst`, `Exits`).
- *Connections.* `Idle` changes the timeout of a connection on which another goroutine has a Read
  pending, and a slow server may stretch every command. Correct means that a deadline of the
  context is kept (`WithinBudget`), a good server is never cut off (`NoSpuriousTimeout`), a
  silent one is noticed (`SilenceNoticed`), and an error tells the truth about the message
  (`RetryIsSafe`).
- *Codec and configuration.* `Validate` admits an MTU by a formula, and `Encode`, the literal
  reader and `Decode` each have a limit of their own. Correct means that they agree
  (`PacketsComeThrough`, `NothingCut`), that a bridge runs on what its sources say
  (`RunsAsTold`), and that what goes to MAIL FROM and RCPT TO has been through the parser of
  addresses (`ParsedAddresses`).

`PROJECT.json` lists the hazards with the lines where they bite and the properties for each.

## Modules

| Module | Models |
|---|---|
| `Envelope` | `Decode`'s classification of a message, what `Encode` sends, the point-to-point check of the fetch handler |
| `CheckpointFile` | the record in `checkpoint.json`, `load`, and what the two operations compute |
| `ImapWorker` | the worker with the client operations it calls, the mailbox, the file; extends the two above |
| `CheckpointStore` | what the `Repository` interface promises: one record, read or advanced in one step |
| `JSONRepo` | `repo.go` with mutex, temporary file and rename; implements `CheckpointStore` |
| `SmtpHandler` | the handler's goroutines with the outcomes of `Send` and `Probe` |
| `OnlineSignal` | what the aggregator promises: the conjunction of two signals, told in one step |
| `Aggregator` | `aggregator.go` with mutex, fields and callback; implements `OnlineSignal` |
| `Bridge` | `run` of `main.go` with both halves reduced to what they do to each other; uses `OnlineSignal` |
| `TimeoutConn` | the deadline of one Read or Write |
| `Connection` | `DialTCP`, IMAP's `Dial`, `connect`, `Send`, `Probe` against a slow server; extends `TimeoutConn` |
| `ImapConn` | the deadlines of one IMAP session: `Idle`, `idleLoop`, `pollLoop`; extends `TimeoutConn` |
| `EnvelopeSize` | `Encode`, `readLiteral` and `Decode` as functions on sizes |
| `Config` | `Load` in its stages; extends `EnvelopeSize` for `Validate`'s limit on the MTU |
| `MC...` | values for the constants |
| `...Proofs` | theorems about the module of that name; `ConfigProofs` also has those about `EnvelopeSize` |

Composition: `ImapWorker` uses the repository as the one step that `JSONRepo` implements, and the
SMTP half as a signal. `Bridge` uses the aggregator as the one step that `Aggregator` implements.
`SmtpHandler` uses the three outcomes of `Send` that `Connection` derives from its stages.

### Envelope

A message is a record of what `Decode` looks at: whether `net/mail` parses it, the transport
marker, the kind of its Content-Type, the two addresses in some spelling, and what becomes of
the body. `Verdict` gives the three outcomes of the fetch handler: `skip`, `broken`, `inject`.

### ImapWorker

`pc` is the place of the worker's goroutine: `down` (no process, or `Run` has returned), `dial`,
`login`, `fetch` (inside `FetchSince`), `inject` (inside the handler's call of `inject`), `save`
(after the fetch, before the checkpoint is written), `cleanup`, `wait` (in `idleLoop` or
`pollLoop`), `sleep` (`Run`'s backoff). A step ends where something else can happen: at a network
operation, at `inject`, at the write of the checkpoint, at a wait.

`batch` holds the local variables of `fetchAndProcess` (`processed`, `skipped`, `failedUID`,
`decodeFailedUID`), `todo` the UIDs the server has still to deliver. `InOrder` says whether it
delivers them in ascending order; RFC 3501 does not require it. `FetchRange` is the range
`lastUID+1:*` with both of its edges: `*` always includes the largest UID, and `lastUID + 1`
wraps to 0 at `MaxUID`, which stands for 2^32 - 1.

`SendsBodies` says whether every FETCH response has the body that was asked for; `DropsResponse`
is what `FetchSince` passes over.

The two lists of UIDs are sets: the loop over the sorted list computes the largest advanceable
UID not above the ceiling, which is what `IsComputedSafe` says. The save of the checkpoint is one
step here; `JSONRepo` and its refinement justify that.

The environment delivers mail, deletes it, rebuilds the mailbox under a new UIDVALIDITY (while
it is not selected), loses the checkpoint file (while the bridge is down), crashes or cancels
the process, and takes the SMTP half offline and back. `injected`, `removed` and `seen` are
history variables for the properties; no guard depends on them.

### CheckpointStore and JSONRepo

Each call locks, loads, computes, writes the temporary file, renames, and unlocks on return. Any
step can fail, and the process can die in any state. The refinement mapping reads the abstract
record from the file (`load(file)`); the abstract step happens at the load of a `GetCheckpoint`
and at the rename of an `AdvanceCheckpoint`.

### SmtpHandler

Threads are calls of `HandlePacket` (the handler's tests call it concurrently), the
`StartupProbe` goroutine and the `recover` goroutines. The CompareAndSwap, the online signal
with the start of `recover`, the online signal of a successful probe and the deferred clearing of
the flag are separate steps. `Send` ends in one of three ways: accepted, refused for certain, or
unknown (`ErrDataOutcomeUnknown`), where the server has the message or not. `copies` counts the
copies the server accepted. `owed` is set when a packet is given up and cleared when a probe
begins or succeeds. The type invariant puts no bound on `copies`; `AtMostOnce` does. Every behaviour
begins with the startup probe, as `run` does.

The README says that the interface is offline during recovery (`OfflineWhileRecovering`). That is not
so when the startup probe succeeds late (`smtp_startup_race`). `OnlyStartupOverrules` says how far it
is: no other step leads into a recovery that is online, neither another packet nor the end of
the recovery before.

### OnlineSignal and Aggregator

A caller locks, sets its flag and computes the conjunction, makes the callback if that changed,
and unlocks. The refinement mapping lets a change count when its callback has been made: while
one is pending (`Pending`), the flag that caused it is read with its old value. That is possible
because the conjunction can only have changed if the other flag is true.

### Bridge

`main` is where `run` is; `iface`, `worker`, `startup` and `recovery` are the goroutines it
starts, `errCh` the channel they report to. `go-rns-pipe` is online until told otherwise, so `pipe`
begins TRUE and `NewAggregator`'s callback is a step. The stages of the worker are those of
`runSession`; `starttls` is a stage of its own because no context watches it. `imap.tls` is chosen
in `Init`. Two clocks run: `run`'s 10 seconds and the timeout of a STARTTLS negotiation. `Tick`
waits for whatever is due at once (`Busy`): a goroutine that can run does so within far less than
the unit of 10 seconds.

### TimeoutConn, Connection, ImapConn

A deadline is the time left, and a missing one is the empty set. In `Connection`, `opLeft` is the
deadline of the pending operation, `hard` the one `connect` puts on the connection. A stage may take
any number of reads (`Continue`), each with a deadline of its own. `StageFails` covers every error.

In `ImapConn` go-imap's reader always has a Read pending whose deadline was fixed when it began;
`SetTimeout` reaches the next one only. `IdleRefused` leaves open which of the two timeouts the
reader sees, since it races with the deferred `SetTimeout`. So `SilenceNoticed` has two bounds:
imapIOTimeout in a FETCH before polling, and imapIdleTimeout for every silence, also in the polls after
IDLE was refused.

### EnvelopeSize and Config

`Received(n, h)` is the size of the packet that arrives when `n` bytes are sent and `h` bytes of
headers arrive: wrapped base64, the cut of `readLiteral`, and `Decode` of what is left.

`Config` has one action per stage of `Load`. A setting is named after its flag. Texts are members
of small sets, and the conversions of Go's library (and `DeriveCheckpointPath`) are tables: a text
outside the table is refused. Package flag and `strconv.Atoi` have tables of their own; they differ
on a leading 0. `mail.ParseAddress` drops display names and comments, and takes the quotes off a local
part: `" u"@x` gives ` u@x`, and that, parsed again, `u@x`. The table has this case.

`Stated` is what a setting is to be by the README's order (defaults, env, flags, password-files), where a
flag is given if it is on the command line. `applyFlags` sees only flags that are not zero or empty,
so `RunsAsTold` exempts those (`ZeroFlag`), and no others.

## Runs

Run with `tlc -config <run>.cfg <module>`.

| Run | Module | Result | States | What it shows |
|---|---|---|---|---|
| `imap_safety` | `MCImapWorker` | holds | 888 428 | the worker's safety with an IDLE server that answers in any order |
| `imap_liveness` | `MCImapWorker` | holds | 89 698 | answers in order, no UIDPLUS: no gap, delivery, catching up, stopping |
| `repo` | `MCJSONRepo` | holds | 106 036 | the repository is the store, for three callers |
| `smtp_handler` | `MCSmtpHandler` | holds | 321 547 | two packets and the startup probe: safety, and the interface comes back |
| `aggregator` | `MCAggregator` | holds | 31 728 | the aggregator is the signal, for three goroutines |
| `bridge` | `MCBridge` | holds | 17 728 | the process from its first goroutine to its exit, in every TLS mode |
| `connection` | `MCConnection` | holds | 6 512 | one dial, probe or send against a slow server, in every TLS mode |
| `conn_idle` | `MCImapConn` | holds | 712 996 | the deadlines of a session with IDLE |
| `config` | `MCConfig` | holds | 33 612 | `Load`, and packets of every configuration it admits |
| `imap_unordered_gap` | `MCImapWorker` | violated | | `NoGap` when inject fails in an unordered FETCH |
| `smtp_timeout_loss` | `MCSmtpHandler` | violated | | a packet lost to the send timeout starts no probe |
| `conn_poll` | `MCImapConn` | violated | | polling at the default interval loses the session every time |

The three violated runs show a disagreement between the code and a sentence in the README or a
comment of the code, quoted in `PROJECT.json` under `findings`:

1. A FETCH out of order that inject aborts leaves a gap. The comment above the computation of
   the ceiling claims the opposite; it is right for a FETCH that runs to its end
   (`CompleteFetchHasNoGap`).
2. `HandlePacket` returns on `sendCtx.Done()` without `beginRecovery`. `sendTimeout` and the dial
   timeout are both 30 s, so a server that swallows connections always ends here and the
   interface stays online.
3. The Read that is pending between two polls has 60 s, and so has the default interval, whose
   ticker starts later. The Read expires first. With an interval of 20 s, as in `conn_idle`, the
   session lasts.

### Further disagreements

These configurations are kept for the record. Each ends in a counterexample of the property it
names:

- `imap_cleanup_retry` (`CleanedUpEventually`): cleanup works on the UIDs of the fetch that advanced
  the checkpoint and on no others, so a message it failed on stays. The comment at
  worker.go:332-335 expects the next session to deal with it.
- `imap_foreign_broken` (`ForeignMailNeverBlocks`): the sender is compared after the body was
  decoded, so mail of another sender with a bad body holds the checkpoint.
- `imap_bodiless_gap` (`NoGap`): a FETCH response without a body (client.go:201) is passed over, and
  a later UID moves the checkpoint past it.
- `smtp_lost_recovery` (`ProbeFollowsLoss`): `recover` signals online before the deferred call clears
  `recovering`; a packet that is given up in between starts no recovery.
- `smtp_startup_race` (`OfflineWhileRecovering`): `StartupProbe` applies its success without regard
  to a recovery that began meanwhile.
- `connection_handshake` (`DialInTime`): in mode tls, without a deadline of the context, nothing
  limits the handshake (dial.go:41). `tls.DialWithDialer`, which the comment names, would.
- `config_zero_flag` (`FlagDecides`): a numeric flag of 0 counts as not given, against the order of
  precedence in the README. The empty text of other flags is the same case.
- `config_quoted` (`BareAddresses`): a quoted local part with a leading space loses its quotes in
  Normalize. What is left passes Validate, which parses it again and takes the space off, and goes
  with its space to MAIL FROM; the comment at config.go:453-454 expects a bare address.
- `config_inbox` (`MoveLeavesFolder`): folder `INBOX` and target `inbox` are one folder, and
  `Validate` lets them pass.

And three without a configuration:

- `WorkerEndsFirst` has an exception for STARTTLS: the negotiation is not watched by the context and
  may outlast the 10 s of `run` (main.go:118-121 expects a prompt end).
- `NothingCut` needs headers within their 16 KiB. With 16 391 bytes of headers a packet of 766 264
  bytes arrives as 766 263: `FetchSince` ignores that `readLiteral` has cut the message.
- Two bridges in one directory that keep the default pipe name share a checkpoint file
  (config.go:263), as the README's example of two peers (README:158) would.

### Bounds

`MaxFaults` bounds failures of every kind together: broken connections, failed injects and
saves, IDLE errors, deletions, crashes, cancellations, lost files. Three are needed for the
fallback to polling, which `imap_liveness` follows with a fourth, and three messages for a failure
with messages on both sides of it. One
rebuilt mailbox (`MaxValidity = 2`) shows what a change of UIDVALIDITY does; a second meets the
same states, since the file is compared for equality only. Backoff limits of 3 with a base
of 1 reach the limit, and not as a multiple of the base. `MaxUID` is also the edge at which
`lastUID + 1` wraps, so the runs include the wrap. Two senders are enough for the races
between packets: they meet in `recovering` and in the online signal only. Two identities for
`recover` goroutines are one more than `SingleRecovery` allows. In `smtp_handler` an outage is one
fault whatever it breaks, so two faults are an outage beside a timeout or a lost answer.

`bridge` keeps the ratio of the two limits, 10 s to 60 s, in units of 10 s; three faults are a
failed session, a failed startup probe and a failed packet. `connection` counts in units of 5 s
(30 s to send and to dial, 60 s per operation) up to 150 s, well past every deadline.
`conn_idle` and `conn_poll` count in units of 20 s: 60 s, 30 min and 25 min are 3, 90 and 75; a
server that is up answers within one unit. Time there needs no bound, since a Read always
expires. `config` sets each option by a flag, each option by a variable, and every pair of such,
with texts on both sides of each limit; packets and headers lie around the ends of a line,
of the MTU limit and of the budgets, at the real sizes.

### Fairness

*Worker.* Weak fairness of the goroutine's own steps: the scheduler runs it, and every network
operation ends, since `TimeoutConn` gives each one a deadline. A failure is never forced, except
that a cancelled context makes the pending operation fail (the watcher closes the connection).
The process is started again after it ends, and the SMTP half comes back (`ComesBack`).

One network operation is an exception: a TLS handshake has no deadline when its context has none
(`connection_handshake`). The liveness properties of worker, handler and process hold of servers
that end their handshakes.

*Process.* Weak fairness of each goroutine and of time. That `iface.Start` returns is assumed only
when rnsd has closed its end, not after a cancellation.

*Handler.* Weak fairness of every goroutine and of the server's return. After cancellation
`recover` chooses between the timer and `ctx.Done()`; both may be ready, and strong fairness of
the second says that the choice does not fall on the timer for ever (a Go `select` chooses at
random, and a probe under a cancelled context fails at once).

## Proofs

Theorems hold for every value of the constants, so for every number of messages, callers and
failures, every set of capabilities and every size.

| Module | Theorem | Statement |
|---|---|---|
| `ImapWorkerProofs` | `TypeCorrect` | `Spec => []TypeOK` |
| | `Inductive` | `Spec => []IndInv` |
| | `NoGapHolds` | `Spec => [](InOrder /\ SendsBodies => NoGap)` |
| | `NoReplayHolds` | `Spec => []NoReplay` |
| | `CompleteFetchHolds` | `SendsBodies => (Spec => CompleteFetchHasNoGap)` |
| | `CleanupIsSafeHolds` | `Spec => CleanupIsSafe` |
| | `CheckpointMonotoneHolds` | `Spec => CheckpointMonotone` |
| | `NoLostWakeupHolds` | `Spec => []NoLostWakeup` |
| `JSONRepoProofs` | `Refinement` | `Spec => ImplementsStore` |
| | `TypeCorrect` | `Spec => []TypeOK` |
| | `SaveNeverDamagesHolds` | `Spec => SaveNeverDamages` |
| | `NoRegressionHolds` | `Spec => NoRegression` |
| `SmtpHandlerProofs` | `TypeCorrect` | `Spec => []TypeOK` |
| | `AtMostOnceHolds` | `Spec => []AtMostOnce` |
| | `SingleRecoveryHolds` | `Spec => []SingleRecovery` |
| | `NeverAbandonedHolds` | `Spec => []NeverAbandoned` |
| | `OnlyStartupOverrulesHolds` | `Spec => OnlyStartupOverrules` |
| `ConnectionProofs` | `WithinBudgetHolds` | `Spec => []WithinBudget` |
| | `RetryIsSafeHolds` | `Spec => []RetryIsSafe` |
| | `SuccessIsAcceptedHolds` | `Spec => []SuccessIsAccepted` |
| | `DialInTimeHolds` | `Spec => [](mode # "tls" => DialInTime)` |
| `AggregatorProofs` | `PipeAgreesHolds` | `Spec => []PipeAgrees` |
| | `TransitionsOnlyHolds` | `Spec => TransitionsOnly` |
| | `Refinement` | `Spec => ImplementsSignal` |
| `BridgeProofs` | `TypeCorrect` | `Spec => []TypeOK` |
| | `OnlineMeansVerifiedHolds` | `Spec => []OnlineMeansVerified` |
| | `WorkerEndsFirstHolds` | `Spec => []WorkerEndsFirst` |
| | `OnlyRnsdEndsItHolds` | `Spec => OnlyRnsdEndsIt` |
| `ImapConnProofs` | `SilenceNoticedHolds` | `Spec => []SilenceNoticed` |
| | `NoSpuriousTimeoutHolds` | `TimesFit` gives `Spec => []NoSpuriousTimeout` |
| `ConfigProofs` | `LimitExact` | `BodyLen(n) <= MaxBodySize <=> n <= MaxPacketSize` |
| | `ReceivedWithinBudget` | within the header budget exactly the packets up to `MaxPacketSize` arrive, whole |
| | `PacketsComeThroughHolds` | `Spec => []PacketsComeThrough` |
| | `NothingCutHolds` | `Spec => []NothingCut` |
| | `RunsAsToldHolds` | `Spec => []RunsAsTold` |
| | `ParsedAddressesHolds` | `Spec => []ParsedAddresses` |

### The worker

`NoGap` is not inductive: that the checkpoint may move to `computedSafe` depends on the history of
the fetch. The invariant adds

- `SessionInv`: in a session `lastUID` is what the file says, so `Advance` starts from it;
- `BoundsInv`: checkpoint, FETCH and mailbox are all below `nextUID`, so that a new message is
  above everything; the file never names a future UIDVALIDITY, so a rebuilt mailbox reads 0;
- `BatchInv`: each UID is filed by its verdict, and `processed` was injected;
- `OrderInv`: in order, what a FETCH has still to deliver is above the UID being injected;
- `CoverInv`: each message above `lastUID` that existed when the FETCH was issued is filed, still
  to come, being injected, or at or above a failure, unless inject aborted a FETCH out of order.

`AdvanceLemma` is the core: by `CoverInv` with nothing left to come, everything up to
`computedSafe` is advanceable, since `computedSafe` is below the ceiling or is advanceable itself.
The exception in `CoverInv` is what `imap_unordered_gap` shows to be necessary.
`NoLostWakeup` has an invariant of its own, `WakeInv`, on top of this.

### The other modules

*Repository.* Only the holder of the mutex is past the lock, and what it computed is still what
`AdvanceCheckpoint` makes of the file; at the rename the temporary file holds exactly that. `FileSteps` draws the conclusion the two action
properties need: the file changes by such a rename, or while nobody is in a call.

*Handler.* A packet that may still be sent has not been accepted (`PacketInv`). `recovering` is held by
exactly one goroutine, first the winner of the CompareAndSwap, then `recover` (`FlagInv`); the handover
leaves no gap, which is why a loser may return. For `NeverAbandoned` the loser must know
that the recovery it lost to will still act: one that only has its flag to clear has signalled
online, or the bridge stops (`OutcomeInv`), and nobody signals offline meanwhile because the flag is held.
`OnlyStartupOverrules` follows step by step: `SignalOffline` begins a recovery offline, and `RecOnline` ends the
only one there is (`SingleRecovery`).

*Aggregator.* Exactly the holder of the mutex is past the lock (`MutexInv`); `last` is the
conjunction, and the pipe differs from it only while a callback is pending that carries it
(`LastInv`). From these, `Update` without a callback is an abstract step that leaves the pipe alone,
`Update` with one is a stutter, and `Callback` is the abstract step.

*Connection.* Of a Send no operation pends past the deadline of the context, since the connection
carries that deadline from the moment it exists (`TimeInv`); the server has the message only after
the dot, where every error is an unknown outcome or a refusal (`OutcomeInv`). `StageInv` keeps the
stages of the three callers apart. `DialInTime`, which `connection_handshake` refutes, is proved for
every mode but tls (`DialInv`): the handshake is the only gap.

*Process.* The goroutines start in the order of `run` (`StartInv`), and a half signals online only
with a session or a successful probe behind it (`SignalInv`), hence `OnlineMeansVerified`. The results
in `errCh` are those of the goroutines that have returned, less what `run` has taken, and without a signal
each of them is ErrPipeClosed (`ResultInv`): so two places are enough, and `OnlyRnsdEndsIt` holds. For
`WorkerEndsFirst`, time passes in the drain only when nothing is left that a cancelled context ends at
once; so after the first unit a worker that has not returned is in a STARTTLS negotiation or at the step
after it (`DrainInv`), whatever the ratio of the two limits.

*IMAP connection.* `TimerInv` says which timers run in which state, `TimeoutInv` that the long timeout
is set in IDLE until DONE and nowhere else. A silence began after the pending Read did, so it and
what is left of that Read stay within the timeout the Read was given (`SilenceInv`): imapIOTimeout in
a FETCH before polling, never more than imapIdleTimeout. This needs of the constants only that imapIOTimeout is
not the longer one. `NoSpuriousTimeout` is about the other direction: as long as the server answers, the
pending Read outlasts the answer that is due, or the timer the worker waits on and the answer after it
(`MarginInv`). That holds under `TimesFit`: imapIOTimeout exceeds the wait for the pipe, and
`imap.poll_interval`, each by more than the latency (without IDLE, both together), and imapIdleTimeout
exceeds idleRestart so. `conn_idle` has such values; the defaults do not (60 s and 60 s), and `conn_poll` shows
what follows.

*Sizes.* `Quads` and `LinesOf` rewrite the lengths as whole lines and a rest; `LimitExact` compares
them with the quotient and the remainder of `MaxBodySize` by 78. `ReceivedWithinBudget` adds that the
literal's limit leaves the body `MaxBodySize + 1` bytes, so that a body too long is seen to be.
`AdmitInv` (`Validate` has admitted every config that runs) connects them with `Load`.

*Load.* `LoadInv` says for every stage what a setting is then: `AfterEnv`, `AfterFlags`, `Told` and its
canonical form; `ReadableInv` that `Load` is past `applyEnv` only if the numbers there could be read.
`RunsAsTold` follows since `Told` is `Stated` where no flag is zero or empty. For the addresses: Normalize
leaves a text it cannot parse, and Validate refuses it, so what runs is what ParseAddress returned
(`ParsedAddresses`). Nothing is assumed of ParseAddress.

The assumptions are the ASSUMEs of the modules, which follow from `Validate` (delays ordered, a
folder, two addresses) or say that model values are distinct. TLC evaluates them in the runs.

`TimesAssumption` of `ImapConn` orders the code's two constants, 60 s and 30 min. One theorem has a
hypothesis beyond that: `TimesFit` is true of `conn_idle` (1 + 1 < 3, 75 + 1 < 90) and false of `conn_poll`.

Only model-checked: the liveness properties `Delivered`, `CheckpointCatchesUp`, `Stops`, `ComesBack`,
`RecoveryStops`, `InjectEnds` and `Exits`, since fairness and ENABLED are beyond the prover. Every
invariant and every action property of a passing run is a theorem.

## Not modelled

- The contents of packets, the MIME text, logging, the choice of an AUTH mechanism.
- `go-imap`, `go-smtp` and `go-rns-pipe`: their operations are steps that succeed or fail.
- Power failures: the code does not sync files. What they leave is a lost or unreadable file at a
  restart, which `Crash` and `LoseCheckpoint` cover.
- Several processes in one directory: every model has one.
- A server that renumbers a mailbox while it is selected.

## Plan

Done: all components, their runs, and proofs of every invariant, action property and refinement that
a passing run checks.

Left: an abstract specification of one `Send` with the three outcomes that `SmtpHandler` relies on, and
the refinement of it by `Connection`, which would make the composition of the two formal.
