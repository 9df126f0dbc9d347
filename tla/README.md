# TLA+ models of rust-norn's Python examples

The repository's Python examples (`src/examples/python`) have two kinds of
code:
- **The rate-limiting engine** in `rate_limiting_utilities.py`. It has real
  state, time and concurrency, and `spec.md` specifies it.
- **RPC client wrappers** for the norn node. All of them have control or
  data conversions worth checking:
  - the batch client, which builds a batch and matches the responses;
  - the websocket listener, with its subscribe handshake and event counting;
  - the health monitor, which makes nine probes in sequence against a node
    that changes while they run;
  - the balance checker's loops, which must record each address's failure
    separately;
  - the transaction sender's send and receipt polling loop;
  - the step-per-try `main()`s of `basic_rpc.py` and
    `transaction_sender.py`, which read each result with a default;
  - the contract client's ABI calldata and its readers.

`spec.md` also describes the caller that drives the engine (its "transport
layer"). That caller is not in the repository; it is modelled from the
specification so that the backoff and the adaptive limiter are checked the
way they are meant to be used together.

This directory models those parts with TLA+ and checks them with TLC.
`PROJECT.json` lists the components, the runs, a mutant per checked property,
the map from every definition to its source lines, the findings and the
hazards.

## The system

| Part | Source | State | Operations |
|---|---|---|---|
| TokenBucket | `rate_limiting_utilities.py:28-72` | capacity, tokens, refill_rate, last_refill, a Lock | `try_acquire(n)` (refill, then take), `time_until_available_ms()` |
| SlidingWindow | `:75-118` | max_requests, window_duration, a deque of timestamps, a Lock | `try_acquire()` (prune, then admit), `current_requests()` (prune, count) |
| PerMethodLimiter | `:121-149` | a dict method → TokenBucket, a Lock | `register_method`, `try_acquire(method)` (an unregistered method is allowed) |
| ExponentialBackoff | `:152-177` | initial, max, attempt | `get_delay_ms`, `next_attempt`, `reset`, `should_retry` |
| AdaptiveRateLimiter | `:180-217` | current, min, max rate, a Lock | `record_success` (×1.1, capped), `record_rate_limit_error` (×0.5, floored), `get_token_bucket` |
| Caller loop (`main`) | `:229-234` | one shared bucket | try; on denial ask the wait and print it (no sleep, no retry) |
| BatchRpcClient | `batch_rpc_requests.py` | none between calls | five batch methods: build the batch, await one POST, walk the responses; `main` prints them |
| WebSocketListener | `websocket_listener.py` | request_id, subscriptions, block and tx counts | two subscribes, then `handle_message` per message |
| MonitoringClient | `health_check_monitoring.py` | a HealthStatus being filled in | nine awaited probes, each mapping a failure to a default |
| BalanceChecker | `balance_checker.py` | none between calls | `get_balance`; `track_balance_history` and `check_multiple_accounts` loop over it, catching exceptions per key |
| TransactionSender | `transaction_sender.py` | a request-id counter | `send_raw_transaction` (an error member raises); `wait_for_receipt` polls `get_transaction_receipt` up to `max_retries` times; `main` reads the nonce and gas price with default `"0x0"` |
| ContractClient | `contract_interaction.py` | none | `call_function`, `get_storage_at`, `get_code` (one aiohttp POST each); `encode_erc20_transfer`, `get_erc20_balance`'s calldata, `decode_uint256`; `main` runs `get_code` and an encoding |
| NornRPCClient | `basic_rpc.py` | a request-id counter | eight getters, one request each with a default; `main` runs six of them, each in its own try |
| Caller (spec.md §2, §6) | not in the repository | — | on success `record_success`; on "too many requests" `record_rate_limit_error`, then wait `get_delay_ms` and retry while `should_retry` |

How the rate-limiting parts interact:
- PerMethodLimiter owns one TokenBucket per method.
- AdaptiveRateLimiter builds a fresh TokenBucket from a snapshot of its rate.
- Callers run in threads and share any of these instances.
- Every public method holds the instance's Lock for its whole body, so each
  call is one atomic step. Threads interleave only between calls.
- `get_token_bucket` is the exception. It reads the rate under the lock and
  builds the bucket after releasing it.
- The specification's caller reports each outcome to one shared
  AdaptiveRateLimiter and uses one ExponentialBackoff per logical
  operation, reset when the operation ends.

The RPC clients talk to a node, some with asyncio (batch, websocket,
health) and some with blocking `requests` calls (balance checker,
transaction sender). Each request is a point where the environment chooses
the node's state or its answer.

## Modules

- **`TokenBucketOps`**: TokenBucket's methods as pure operators on a bucket
  record.
  - Time is whole milliseconds.
  - A float rate is an exact rational `[num, den]`.
  - `int()` is `Trunc`.
  - `Refill` moves `last_refill` only when a whole token is added, as line 55
    does.
  - `WithinBurst` is the burst bound over a history of grants.
  - Every caller in the code passes `num_tokens = 1`, so the shared bucket
    is checked through its two users, PerMethodLimiter and the caller loop.
- **`SlidingWindow`**: the deque `requests`, `now` = `time.time()`, `real`
  (real time) and the history `admits`.
  - Actions: `TryAcquireGranted`, `TryAcquireDenied`, `CurrentRequests`,
    `Tick` and `ClockStep`.
  - `ClockStep` is an NTP correction of the wall clock by one of
    `ClockSteps` (negative: back). `MC_SlidingWindow` gives the step sets,
    since a cfg cannot write a negative number.
  - `Prune` is the `while ... popleft()` loop. `WouldDeny` is the length test
    after it.
- **`AdmissionLog`**: the abstract promise of a sliding window. It admits at
  real time t only while fewer than `MaxRequests` admissions lie in
  `[t - WindowMs, t]`. `SlidingWindow` is checked to implement it with
  `Ideal == INSTANCE AdmissionLog WITH log <- admits, clock <- real`: the
  abstract log is the history of grants, and its clock is real time, not
  `time.time()`.
- **`PerMethodLimiter` / `MC_PerMethodLimiter`**: `limiters` is a function
  whose domain is the registered methods. `RegisterMethod` replaces the
  bucket, as the dict assignment does. Try-acquire on a registered method is
  granted or denied; on an unregistered method it changes nothing.
- **`ExponentialBackoff`**: `NextAttempt` and `Reset` are actions.
  `GetDelayMs` is an operator (a recursive doubling, stopped at the cap).
  It computes in integers, which is exact while the double product is.
- **`AdaptiveRateLimiter`**:
  - Rates are reduced rationals, and 0.5 and 1.1 are 1/2 and 11/10.
  - `Init` takes constructor arguments from a constant set.
  - `GetTokenBucket` is the snapshot bucket.
- **`AdaptiveRetry` / `MC_AdaptiveRetry`**: the specification's caller
  composed with the two components above, through
  `Limiter == INSTANCE AdaptiveRateLimiter` and
  `Backoff == INSTANCE ExponentialBackoff` over the same variables.
  - Each caller step is one attempt's outcome: `AttemptSucceeded`,
    `AttemptRateLimitedRetry` or `AttemptRateLimitedGiveUp`. Each one is a
    conjunction of the components' own actions (`RecordSuccess`,
    `RecordRateLimitError`, `NextAttempt`, `Reset`).
  - The ghosts `waited` (ms waited in the current operation) and `lastEnd`
    (how the last operation ended) record what the caller experienced.
  - These caller steps are written from `spec.md` rather than from code;
    the map marks them `spec_modelled`.
- **`RateLimitedClient` / `MC_RateLimitedClient`**: caller threads sharing
  one TokenBucket and following the caller contract of `spec.md` (§2, §6):
  try, then on a denial ask `time_until_available_ms`, sleep that long, and
  retry. `main`'s own loop only prints the advice and moves on, so the
  caller steps (`TryGranted`, `TryDenied`, `AskWait`, `Init`) are marked
  `spec_modelled`; the bucket operations they call are the code's.
  - Time is relative: `elapsed` is now − last_refill, capped where the
    bucket would be full anyway. This makes behaviours infinite and liveness
    checkable.
  - `WakeUp` and `Tick` are the environment: the sleep and the clock.
- **`BatchRpcClient` / `MC_BatchRpcClient`**: one call at a time, as `main`
  awaits them. The call has three steps:
  - `CallKeyed` or `CallMixed` builds the batch with its ids.
  - `ReplyArray` or `ReplyErrorObject` is the node's answer.
    - `ReplyArray` can mark any request as failed. With
      `ServerReorders = TRUE` it can also return the responses in any order,
      as JSON-RPC 2.0 allows.
    - `ReplyErrorObject` is a rejection of the whole batch.
  - `Collect` is the method's loop over the answer, followed by `main`'s
    printing. Printing is abstracted to `<<subject, value>>` pairs.
  - A request's value is the subject it asks about, so a pair whose two
    members differ is a misattribution.
- **`WebSocketListener`**: the client's `connect_and_listen` steps and the
  node, joined by two ordered queues (the socket). The client's steps are
  `ClientSubscribe` and `Receive`, which is `handle_message`.
  - The node answers each subscribe with a fresh id or an error (`None`
    stored), and may send notifications on the subscriptions it granted.
  - Each notification carries its topic as a ghost field, and `handled`
    counts them per topic.
- **`HealthCheck`**: `perform_health_check`'s nine probes as `Probe` steps in
  the code's order.
  - `NodeChange` is the node changing between two awaits: going down or up,
    syncing, growing its chain, gaining or losing peers and pending
    transactions.
  - A probe on an up node may still fail. A probe on a down node fails.
  - The field operators (`SyncField`, `LatestBlockField`, ...) are each
    probe's success and failure values. `BlockTimeField` asks for the block
    number the previous probe stored, as `get_block_timestamp(latest_block)`
    does.
- **`JsonRpcClients` / `MC_JsonRpcClients`**: the blocking clients.
  - Every request's answer is one of three `Outcomes`: it raises (a failed
    POST or `raise_for_status`), an error object without `"result"`, or a
    result.
  - `HistoryStep` and `CheckAccount` are the passes of
    `track_balance_history` and `check_multiple_accounts`, in `main`'s order.
    `GetBalance` is `result.get("result", "0x0")`.
  - `Send` is `send_raw_transaction`. `Poll` and `Sleep` are
    `wait_for_receipt`'s loop. `Mine` is the node including the
    transaction at any moment after taking it, which it may have done when
    the send timed out.
  - `Read` is one step of the `main()` of `basic_rpc.py` or
    `transaction_sender.py`: `ReadStep` makes the request and `Shown` is
    what the step prints. `ReadSteps` lists each program's steps by how
    they read the result: as text, as a block or none, as
    `int(x, 16) if x else 0`, or as `int(x, 16)` of `.get("result",
    "0x0")`. The node's result may be a number, null (`None`), a non-hex
    text (`NotHex`) or a block (`Block`); `Empty` is the falsy default
    `""` or `{}`.
  - The programs share no state, so their steps commute. `program` picks
    one per behaviour: `balance_checker.py`'s `main` interleaved with a
    send-and-wait, or one of the two read-only `main`s. Each behaviour
    thus reaches every state of its own program. The ghosts `asked`,
    `polls` and `rdAsked` keep what the node said to each request.
- **`ContractClient` / `MC_ContractClient`**: `main`'s first two examples
  (`CheckCode`, `EncodeTransfer`) and direct calls of the readers
  (`GetErc20Balance`, `GetStorageAt`).
  - A text is a sequence of characters: hex digits as 0..15 and the letter
    x as `X`. Case is not represented.
  - `Strip0x` is `replace("0x", "")` (every occurrence, left to right),
    `ZFill` is `zfill`, and `PyHexTail` is `hex(n)[2:]`, which for a
    negative n keeps an `x`.
  - `ReadReply` is the readers' shared tail: "result" first, then "error",
    then "Unexpected response format"; aiohttp's own failure raises.
  - An ABI word is `WordDigits` hex digits: 64 in the code, 2 in the run.

## Runs

| Run | What it shows | Result |
|---|---|---|
| `adaptive_retry` | The specification's caller over three limiter constructions (50, 5, 100), (7, 7, 7) and (1, 0, 1), and backoffs with initial {0, 100, 30000} and cap {100, 30000}. The rate stays within [min, max] and the snapshot capacity at most max(max_rate, 1) (`RateWithinBounds`). An operation is abandoned only at its 11th rate-limited attempt, after waiting exactly the whole schedule (`GivesUpAfterFullSchedule`). | pass |
| `sliding_window` | 2 requests per 2 ms, 8 ms of time, and `time.time()` stepping back 3 ms any number of times. The window refines `AdmissionLog` (a step back only makes it stricter). Every denial is backed by `max_requests` real admissions within the window stretched by the current clock skew (`DenialJustifiedWithinSkew`). | pass |
| `sliding_window_clock_forward` | The same window with `time.time()` stepped forward 3 ms. Pruning drops entries still inside the real window, and a third request is admitted at the same real instant as two others, with `max_requests` 2 (`RefinesAdmissionLog`). | violation |
| `per_method` | Two methods, registrations (1, 300/s) and (2, 500/s), re-registrations allowed, 7 ms, symmetry over the methods. Each method keeps the burst bound (capacity + 1 + tokens earned) of its latest bucket. | pass |
| `client_liveness` | 3 callers following the specification's sleep-and-retry contract, capacity 1, 300 tokens/s, 2 requests each. Every caller is eventually served (`AllServed`), although the floored advice and other callers' grants between the denial and the wait make the advice stale. | pass |
| `batch_in_order` | Keys {k1, k2, k3}, lists up to 3, an order-keeping node, symmetry over keys. Every balance is shown next to its own address, and every result the node returns reaches the caller, whichever requests fail. | pass |
| `batch_storage_shift` | One failed slot read makes `main` print every later storage value under the previous position. | violation |
| `websocket_counts` | Two subscription ids, two notifications per subscription, each subscribe granted or refused. Block and transaction counts always equal the notifications handled per topic, whether each subscribe is granted or refused (`CountsMatch`). | pass |
| `json_rpc_clients` | Two addresses, balances 0 and 1, three receipt polls, every kind of result for the read-only `main`s. Every block, address and step gets its entry, and it records a failure exactly when its own request raised or its result could not be read (`FailuresIsolated`). `wait_for_receipt` returns None only after all its polls missed the receipt (`GaveUpOnlyAfterAllPolls`). | pass |
| `balance_status` | An error reply is printed as a value read from the node: "Nonce: 0" by `transaction_sender.py`, 0 wei or "Block not found" by `basic_rpc.py`, a balance of 0 with status "✅" by `balance_checker.py` (`StatusTruthful`). | violation |
| `contract_client` | Words of 2 hex digits; recipients and accounts with and without 0x, too long, and with a stray x; amounts -1, 0, 1, 255, 256; every reply to the readers. Transfer and balanceOf calldata is a selector and whole words exactly when the arguments fit a word, and each word then decodes back to its argument (`CallDataExact`). | pass |
| `health_block_time` | One block past genesis, two node changes per check. The reported block time is that of the reported block (or 0), however the chain grows between the number probe and the time probe and whichever probes fail (`BlockTimeOfReportedBlock`). | pass |

The violation runs are the four findings in `PROJECT.json`:
- the sliding window's wall clock stepping forward, which breaks the
  hard per-window cap of `spec.md` (the specification assumes a monotonic
  clock). A backward step only makes the window stricter, by at most the
  size of the step; `DenialJustifiedWithinSkew` bounds that;
- a bug in `batch_rpc_requests.py` that contradicts the code's own comment
  at line 303;
- a bug in `balance_checker.py`, where an error reply reads as a successful
  zero balance, and the same pattern in `transaction_sender.py` and
  `basic_rpc.py`, whose `main`s print 0 (or "Block not found") for an
  error reply. The shortest trace is `get_nonce`'s.

Every property of a passing run has a mutant in `PROJECT.json`: a plausible
slip in the code. Examples are a dropped clamp, a forgotten
`last_refill = now`, `>=` for `>`, min and max swapped, the subscribes sent
in the other order, and a block-time probe that asks for "latest". Each mutant is checked to break
its property.

Some hazards are not runs; their notes in `PROJECT.json` say why:
- **Batch reordering.** Setting `ServerReorders = TRUE` breaks
  `BalancesAttributed`, because `get_balances_batch` indexes responses by
  request position.
- **Failed sync probe.** A failed `eth_syncing` probe reports the node as
  syncing, as `check_sync_status`'s except branch says.
- **Unvalidated constructor.** `AdaptiveRateLimiter.__init__` accepts an
  initial rate above `max_rate`.
- **Backoff overflow.** `2.0 ** attempt` raises `OverflowError` past
  attempt 1023, while `spec.md` says the delay never raises. A caller that
  obeys `should_retry` never gets past attempt 10.
- **Rounded-down wait.** `time_until_available_ms` floors, where `spec.md`
  gives the ceiling. A lone caller that sleeps the advice is denied once
  more; `AllServed` shows that callers are still all served.

Each of these is visible from a single call or a single construction, so
a unit test reaches it.

### Bounds

- **Rates and durations** are chosen so that fractional tokens occur.
  300 tokens/s gives 0.3 token per ms, so a whole token needs 4 ms and the
  floored advice is 3 ms.
- **Clock bounds** cover several refills, or several window slides. The
  sliding window's 8 ms is four windows, and a 3 ms step back is more than a
  window.
- **Adaptive retry**: giving up takes 11 rate-limited attempts, so a
  behaviour has up to 12 updates, and up to 6 operations end. Every success
  multiplies the exact numerator by 11, and 6 operations keep it within
  TLC's integers. These bounds reach both clamps from every construction,
  the backoff cap (at attempt 9 for 100/30000, at once for 30000/100) and
  the give-up. `MaxAttempt` is 15, so a retry past the limit would be taken
  if `should_retry` allowed it.
- **Contract client**: with 2-digit words, 255 is the largest amount that
  fits and 256 the smallest that does not, as 2^256 - 1 and 2^256 are for
  64 digits. A 3-digit address is too long, as a 65-digit one is.
- **Batch**: three keys and lists up to three give a failure before, between
  and after successes, and every pattern of results and errors.
- **WebSocket**: two ids are as many as the node can grant. Two events per
  topic let notifications of both topics interleave with the answers.
- **Health**: two changes let the node go down after one probe and come
  back before the next. Head 0..1 is enough to tell a read block from a
  missing one.
- **JSON-RPC clients**: two addresses let a failure come before and after a
  success. Balance 1 tells a real balance from the 0 an error reply gives.
  Three polls let the node mine the transaction before, between or after
  them. The read-only `main`s see, at each step, an exception, an error
  object, and every result kind their reading tells apart.

### Fairness and termination

- **Caller loop.** `RateLimitedClient` assumes weak fairness of each
  caller's steps and of `Tick`:
  - a runnable thread eventually runs;
  - `time.sleep` returns;
  - the clock advances.

  Python's `Lock` is not fair, so nothing stronger is assumed.
- **WebSocket listener.** Safety only. Nothing forces the node to send
  notifications; when it has sent all of them, the listener waits in its
  loop, so that run does not check deadlock.
- **Health check and blocking clients.** `perform_health_check` ends after
  its ninth probe. Every `main` of the blocking clients ends after its
  last step, and `send_raw_transaction` and `wait_for_receipt` return or raise. Those runs do not check deadlock
  either.
- **Other modules.** They check safety only.

## Not modelled

- **Float rounding of rates.** This includes underflow of the adaptive rate
  to 0.0 and the ZeroDivisionError that follows. Rates are exact rationals
  in the model.
- **The request-id counters.** Each blocking client is used from one
  thread, and nothing reads the id but the payload. The integration test's
  `NornTestClient` is shared by five threads in `test_concurrent_requests`,
  and its unsynchronised `request_id += 1` is a real race. It is harmless:
  over HTTP each response returns on its own request's connection, so no
  result can be misattributed. It is a hazard in `PROJECT.json`.
- **`BalanceChecker`'s first step** (`main`'s single `get_balance`) only
  prints; its reading is the one `CheckAccount` models.
- **Values the properties do not distinguish.** The health check's gas price,
  network id and client version are left out, and so are the websocket's
  event payloads.
- **Formatting, printing and environment variables.** These are pure I/O.
  `format_token_amount`, a float division that no code calls, is left out
  too.
