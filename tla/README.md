# Verification of dntpd

TLA+ models of the NTP daemon `dntpd`, checked with TLC on small instances, and
theorems about them that TLAPS checks for every value of the constants. Each
definition that stands for code names it in its comment; `PROJECT.json` has the
lines (`map`), the runs, the mutants, the hazards and the theorems. Source paths
below are relative to the repository.

    tlc -workers 2 -config PeerThread.cfg MCPeerThread
    tlapm PeerThreadProofs.tla

## 1. Inventory

### Parts, their state and their operations

| part | code | state | operations | modelled in |
|---|---|---|---|---|
| peer thread | threads.c 87-445 | `g_peer_ctx[]` (socket, mutex, validity), `g_peer_threads_running[]` | start, receive loop, reply, stop, cleanup | PeerThread |
| clock thread | threads.c 448-742 | `g_clock_ctx`, `g_clock_thread_running` | start, correction loop with timed wait, stop, cleanup | ClockThread |
| synchronisation loop | main.c 462-520, time_sync.c 559-867 | `g_servers[].next_allowed_sync`, `g_time_synced`, `g_local_*`, `g_last_sync_ts`, `g_peer_pool[].reachable`, errno | round over the servers, one exchange per server, checks, publication | SyncLoop |
| MARX filter | filter.c | `g_samples`, `g_sample_count` | add, remove, median, filter, jitter | MarxFilter |
| frequency and poll | time_sync.c 50-391, 540-557 | `g_freq_state`, `g_local_poll`, frequency file | load, save, adjust poll, update, apply | FreqDiscipline |
| leap seconds | leap_second.c, ntp_algorithms.c 130-148 | `LeapSecondState`, leap file | schedule, look at the file, apply, cleanup | LeapSecond |
| mode handler | mode_handler.c, socket.c 176-450 | `g_mode_config`, ACL, rate limit table | parse a line; per request thread: check, reply, update; cleanup | ModeHandler; the locks of its cleanup in Daemon |
| status listener | socket.c 144-167, 452-600 | listening socket | snapshot for ntpq | no: its thread never starts, `listen` always fails |
| start and shutdown | main.c, config.c | `g_servers`, `g_peer_pool`, `g_shutdown_requested`, PID file, frequency file | options, server lines, privileges, order of starts, signal, cleanup (twice after a failed start) | Daemon; the threads' side in PeerThread, ClockThread |
| packets | ntp_packet.c | none of its own | parse, build, walk over extension fields | ExtensionFields (walk), SyncLoop (outcomes) |
| on-wire computation | ntp_algorithms.c 53-113 | none | delay and offset of an exchange | OnWire |
| peer selection | ntp_algorithms.c 166-380 | none | select, vote, false tickers | no: called at time_sync.c:757, the result is discarded |
| I-DO, Autokey | ido.c, autokey.c | `g_ido_state`, shared by both | negotiation, keys, MAC | Negotiation |
| clock accuracy | time_sync.c 869-1004 | averages in floating point | update, read for the log | no |
| reference clock | reference_clock.c | driver table | only `reference_clock_init` is called | no |
| configuration | config.c, ntpd.c | globals set before any thread starts | parse | Daemon (what decides main's course) |

### How they interact

* One process with three threads: main (start-up, synchronisation loop, exit),
  the clock thread and the peer thread. Main creates the others, *detaches* them
  and at exit sets a flag and "joins" them, which does not wait.
  `cleanup_resources` runs from `atexit` and, after a failed start, explicitly
  before that. A fourth thread, the ntpq listener, is in the code but cannot
  start; request threads (`handle_client_request`) have no caller.
* `g_mutex` protects what an exchange publishes; main writes it, the clock thread
  reads it under the mutex, the peer thread without. Several functions lock it,
  `g_mode_mutex` or `g_leap_second_mutex` again while their caller holds it.
* The listener's failure decides more than the listener: it leaves `errno` set,
  and the port test of `sync_ntp_time` (time_sync.c:569) reads that. As the code
  stands no request is ever sent (run `sync_silent`), so that everything behind
  an exchange (checks, filter, discipline, publication, leap seconds) is code
  that the models take as it is written, and that no execution reaches today.
* Main talks to all servers through one cached UDP socket with a receive timeout
  of 5 s, never drained, sender address not compared.
* An accepted exchange goes through MARX filter, poll interval, correction of
  the clock, frequency discipline, publication and leap second check, in this
  order (`SyncLoop` has the order and the locks, the other modules the state).
* `parse_ntp_packet` runs in main and in the peer thread; its walk over extension
  fields would work on `g_ido_state`, which autokey.h also calls
  `g_autokey_state`, without a mutex, but stops before the first field.
* The frequency file, the PID file and the leap file outlive the process.

### What is hard

Threads that are stopped but not waited for; mutexes that are destroyed while in
use or locked twice; an unlock without lock; late, lost and duplicated
datagrams; an `errno` nobody clears; a table at its limit that several threads
search, shift and extend without a mutex; an array that is
compacted and shifted in one loop; clocks that are compared while being stepped;
crashes while a file is rewritten; a start that fails half way and is cleaned up
twice. `PROJECT.json` lists each hazard at its line.

## 2. Modules

* **PthreadMutex** (external): lock and unlock of a statically initialised
  mutex. What a relock and a foreign unlock do is undefined in POSIX; `Kind`
  is the choice: `normal` (what `PTHREAD_MUTEX_INITIALIZER` gives with glibc and
  musl: a relock blocks), `errorcheck`, `recursive`. The program has `normal`,
  and runs about whether something *happens* use it (`sync_silent`,
  `shutdown_blocks`). The passing runs that go through a nested lock
  (`sync_exchange`, `leap_second`, `daemon`) check safety only and use
  `recursive`: each of these modules has one thread, so that with `normal` main
  does the same steps up to the nested lock and then no more; every behaviour of
  the program is one of the model, and the code behind the lock is looked at too.
  The theorems hold for all three kinds.
* **PeerThread**: one action per access to shared state (an atomic flag, a lock,
  a read of `sock_fd`, a call on a descriptor). `fds` says what each number
  refers to in the kernel; `ReuseFd` lets the rest of the process reuse a closed
  one. `Lock` on a destroyed mutex returns at once (EINVAL in glibc, which no
  caller looks at). Contexts above 0 have no thread but are stopped and cleaned
  up like the first. `pthread_join` of the detached thread does not wait. The two
  safety properties speak of starts that did not fail, where cleanup runs once.
* **ClockThread**: the same for the clock thread. `clock_thread_init` falls
  through into its error path and destroys its own mutex and condition;
  `ub` is what later calls do (`einval` as in glibc, `works` as in musl). Times
  are seconds; `DELTA` is the distance of the epochs 1900 and 1970, `PANIC` the
  threshold of `check_panic_condition` in seconds. Before the first exchange, and
  without one, `sync` is 0.
* **OnWire**: `calculate_delay_offset` with the truncating divisions of C.
* **SyncLoop**: main's rounds. Time in units of 5 s, the receive timeout. A reply
  is the fields the checks tell apart and the times of its trip (`theta`, the
  true offset of the server's clock, is what the computation must find);
  `Verdict` is the first check it fails, in the code's order. A timestamp is an
  identifier no other packet under way carries. The fields published by an
  exchange are `synced`, `stratum`, `head` (those written before the nested
  calls) and `tail` (after them). `err` is `errno`, which the port test reads and
  nothing clears; `ErrnoAtLoop` holds its values when main enters the loop:
  `{TRUE}` in the program, `FALSE` as well in the run that looks behind the test.
  `ParseGarbage`: `parse_ntp_packet` looks for a Kiss-o'-Death in the caller's
  uninitialised packet, so that it may give up on any reply.
* **MarxFilter**: the array with its stale cells, since the filter loop reads
  them. `AddSample` and `NoSample` (when `gettimeofday` fails; `TimeMayFail`) run
  up to the loop of `marx_filter_outliers`, `KeepCell` and `RemoveCell` are its
  iterations, `FilterReturn` its end. The sort of `marx_median` is modelled by
  the order statistic it returns. `FilterLeavesSample` is why `SyncLoop` has no
  branch for "no valid samples", which would need an empty array and a
  `gettimeofday` that fails. `NoStaleSample` compares every sample in use with
  the array as the filter found it. Its names carry a prefix so that
  `DisciplineProofs` can extend it beside `FreqDiscipline`.
* **FreqDiscipline**: poll interval, correction, state machine NSET-FSET-SYNC,
  frequency file with crashes. A frequency is an integer; the FLL and PLL
  formulas give any value within the clamp, a weighted mean any value between
  its arguments. `age` is measured with the clock the correction has just
  stepped.
* **LeapSecond**: the code compares only differences of clock readings, so the
  state is the second of the minute and the distances of `event_time` and
  `last_check_time`, saturated where the code tells nothing apart.
* **ModeHandler**: `modes.conf` line by line, then request threads, each with the
  steps of `handle_peer_request_thread`: ACL, rate limit check, reply, and the
  update of the table in four steps (search, make room, take an entry, stamp),
  which take no mutex and interleave. Addresses have `W` bits. History: `served`,
  when a client was last answered, and `overlap`, whether two requests were ever
  under way together. The argument of a thread is taken to survive
  `free(data)` at socket.c:447. Two threads that both found the table full, or
  one entry short of it, can leave an entry behind the array: `rate` may then be
  longer than `MAX_RATE_LIMIT_ENTRIES`. `mode_handler_cleanup` does not get to the
  tables (run `shutdown_blocks`).
* **Negotiation**: `g_ido_state` and every function of ido.h and autokey.h that
  changes it, as operators on the structure; a caller uses them in any order.
  `given` records the arguments of the last call that gave a key, as the caller
  passed them, an identifier that does not fit included; a reset of the structure
  does not touch it. Key material is a name, "zero" for twenty zero bytes, which
  a caller may give too; HMAC-SHA1 is not modelled.
* **ExtensionFields**: `skip_extension_fields`, one step per field, by the two
  threads that parse packets, beside the caller of Negotiation. A packet is its
  size and the field headers at some positions, zeros elsewhere. As the header
  test compares the position plus 4 with 48, the branches that would change the
  structure are not reached; they are modelled all the same. `PeerSpec` is the
  program as it runs: the peer thread alone, no caller.
* **Daemon**: main from `parse_arguments` to exit, in several lives. A server is
  its name and the allocation its strings live in; the pool has names only. A
  frequency is a value the loader accepts. The lock calls of
  `mode_handler_cleanup` are a sequence of operations on the mutex. History:
  `learned` (what the last complete save kept) and `torn` (a save that left the
  file empty). The daemon is started by root, always with the same PID file. What
  the detached threads still do during the cleanup is in their own modules.
* **FrequencyStore** (abstract): a frequency that outlives the process; a start
  takes it, exchanges learn another, and a process that ends in SYNC stores that,
  or loses both, in one step. `Daemon` implements it (`StoreImplemented`): between
  `fopen`, which empties the file, and the write, the store is mapped to what it
  held before.

`MCx` modules extend the component and define the sets a cfg cannot write;
`xProofs` modules extend it and hold its theorems (section 5).

## 3. Runs

### Passing runs

| run | what it shows | bounds and why they are enough |
|---|---|---|
| `peer_thread` | replies and closes only ever hit the daemon's own socket after a start that succeeded; a signal ends this part of the shutdown | two contexts: the one with a thread and one without; all contexts without a thread behave alike |
| `clock_thread` | once the flag is cleared at most one more correction; the stop never hangs | clock 0..5, threshold 2, epochs 8 apart: readings below, at and above the threshold |
| `sync_exchange` | only the answer to the current request, by the server it went to, corrects the clock, and by the server's offset up to half the round trip | two servers, three identifiers, a buffer of two datagrams, one duplicate: answers of an earlier exchange with the same and with another server, behind or instead of the right one; one body per verdict, trips with all of the delay on one way, clocks ahead and behind, a hold time that is misstated; microseconds of 2 ns, so that both divisions truncate; `errno` clear or set, mutex recursive |
| `marx_filter` | the in-place filter never empties the buffer, brings back no stale sample, returns a count of inliers, and leaves no outlier when the last sample is none | seven cells, five delays that give MAD 0, ties and several outliers; the array fills up; exchanges without a new sample |
| `freq_discipline` | the frequency within the clamp whatever file and server say; the loop filter holds the frequency in use; SYNC is reached by exchanges far enough apart | polls from -1 to above the maximum, files one beyond the clamp on both sides |
| `leap_second` | a pending event is neither redirected nor put off; event and last look at the file stay within a minute and an interval | minute and interval 4 s, file check 10 s: announcements at every second, checks at any rate |
| `mode_handler` | clients outside the networks are refused as the policy says, nobody is answered in a disabled mode; requests that do not overlap respect the interval while the table is large enough | addresses of 3 bits, overlapping networks, /0 and address 0; one ACL entry and two rate limit entries for three clients with an address, so that both tables fill up; two threads, which is what a race takes; two lines; seconds 0 and 1 with the default interval of 2 and one of 1, so that the limit is met inside and at its end |
| `extension_fields` | key and identifier stay the pair that was given, or are wiped together | one packet per kind of field, lengths 0, unaligned, beyond the packet and too short; identifiers 0, in range and 263 = 7 modulo 256; lengths at the limits of the tests; zero key material |
| `daemon` | server list, heap and pool agree; the saved frequency survives failures, kills and the double cleanup; the file is a store that changes in one step (refinement of `FrequencyStore`) | two lives, so that files of the first meet the second; two server lines and a pool of one; two frequencies; a kill between any two steps; mutex recursive |

Every property has a mutant in `PROJECT.json`: a definition changed as a
plausible bug would, under which TLC finds the property violated.

### Runs that show a disagreement

| run | statement in the repository | what the code does |
|---|---|---|
| `sync_silent` | dntpd.8:20 "It synchronizes the system clock with external NTP servers" | `create_tcp_socket` listens on a datagram socket (network4.c:27, socket.c:159), which leaves `errno` set; time_sync.c:569 takes it for an invalid port, for every server in every round: no request goes out |
| `shutdown_blocks` | dntpd.8:355 "Graceful shutdown" | `mode_handler_cleanup` locks `g_mode_mutex` and calls a function that locks it again (mode_handler.c:126, 130): the process neither saves the frequency, nor removes the PID file, nor ends |
| `fields_ignored` | dntpd.8:214-222 "Supported extension field types: ... I-DO Offer/Response"; ntp_packet.c:296 | the header test (ntp_packet.c:143) refuses the first field: no field is ever processed |

### Divergences met while modelling, without a run of their own

* filter.c:138 "Remove outlier sample", dntpd.8:317 "used for outlier rejection":
  when the last two samples are outliers, removing the first of them moves the
  other into the cell the loop has just left; the loop then finds its copy
  outside the samples in use, removes nothing, and the outlier stays. Delays
  1, 3, 5, 5, 1, 4, 3, 8, 8 (the last added last) leave 8 samples in use, the
  eighth an outlier, and the returned count is 7. `SurvivorsPass` says that it
  takes an outlier at the end. The removal inside the compacting loop also
  shifts cells over each other, so that samples below the threshold are lost and
  others doubled: of the delays 2, 1, 1 the first 1 is lost and the second is in
  use twice.
* filter.c:54 "For even count, returns average of two middle values": the lower
  one is returned. dntpd.8:321 "|delay - median| > threshold": the delay itself is
  compared with median plus k MAD (filter.c:134), so that on 1, 3, 3, 1 the code
  removes (threshold 1) what the documented filter keeps (median 2, threshold 5).
  The models have what the code does.
* time_sync.c:384, against the comment at 383 "to avoid double lock" and
  filter.c:154: `ntp_offset_jitter_us_locked` locks `g_mutex` again. Main would
  block there for ever after the first reply it accepts.
* time_sync.c:622: one datagram is read per request from a socket that is never
  drained. One surplus datagram would make every later exchange read the answer
  to the request before it and fail at the originate check (674).
* time_sync.c:544, against dntpd.8:301-305 (poll between 2^4 and 2^12): a
  poll field of a server below the minimum becomes the poll interval; only the
  maximum is kept.
* time_sync.c:365, the formula of the loop filter: the filter starts from 0 when
  SYNC is entered, so that the first update throws away the frequency estimated
  or loaded so far; `FilterFollows` says what holds from then on.
* time_sync.c:374: with the default interval of 30 s no update comes the required
  64 s after the one before, and SYNC is not reached; `ReachesSync` has that as a
  premise.
* src/README.md:98-101 (clock thread: "Adjust system clock") and threads.c:524:
  threads.c:517 subtracts a time since 1900 from one since 1970, the difference is
  beyond the panic threshold, and after an exchange the thread never adjusts the
  clock. dntpd.8:168 gives that threshold in microseconds; mode_handler.c:597
  compares it in units of a thousand seconds. threads.c:602: `clock_thread_init`
  destroys what it has initialised; with glibc the thread leaves its loop at the
  first wait. main.c:416 passes seconds for milliseconds.
* leap_second.c:12, 20, 255 and 281, "60 seconds before end of minute": with an
  interval of a minute that moment has always passed, and the event is put 60 s
  *after* the end of the minute (291). leap_second.c:295: the clock moves by 60 s
  (15: "+1s"). leap_second.c:226 and 393 call functions that lock the mutex held
  (263, 330): with the code's mutex main would block there, so that a leap file
  schedules no event and no event is applied. time_sync.c:37: an unreadable file
  keeps a pending event from being applied. Behind the locks, a leap file of the
  day would schedule its event anew after each correction.
* dntpd.8:352 and systemd/dntpd.service:10 reload with SIGHUP: there is no handler,
  and the signal kills the process. dntpd.8:338-348: exit statuses 2 to 5 are
  never returned. dntpd.8:359-368: no environment variable is read.
* main.c:343 "Peer thread running" is logged when main is about to return.
* main.c:375: after the privileges are dropped the PID file may stay and the
  frequency may not be saved, silently.
* ntp_packet.c:541 reads a MAC at byte 64 without looking where the fields end.
* autokey.c:678 "0 if MAC is valid": no MAC is compared. autokey.c:621: a revoked
  key stays what it was. autokey.c:520: a key file's identifier above 255 becomes
  0. ido.c:298: NEGOTIATION_FAILED leaves the structure authenticated,
  AUTH_ESTABLISHED does not make it so; only responses do.
* threads.c:124 drops requests shorter than the structure, which is longer than
  the 48 bytes of a request; threads.c:153-165: a reply carries mode 3 and its
  timestamps in the wrong places.
* threads.c:394 (the thread leaves its loop when it tests the flag): a peer
  thread first scheduled after `stop_peer_thread` sets its flag again.
  threads.c:414 (cleanup only after the stop): the socket is closed while the
  detached thread is in its loop. The clock thread likewise: a stop that comes
  before the flag is set (threads.c:498) returns, and the loop begins under the
  cleanup.
* threads.c:156: a peer reply is filled without `g_mutex` and may mix two
  exchanges (src/README.md:24 "Thread-safe").
* time_sync.c:737 withdraws `g_time_synced` but not the stratum (dntpd.8:270).
* time_sync.c:791: unlock without lock; with a `normal` mutex it ends another
  thread's critical section.
* filter.c:82 (returns the count of valid samples): the returned count differs
  from `g_sample_count`. filter.c:18: a full array drops the new sample
  (dntpd.8:293-295 says the old ones go).
* mode_handler.c:536 drops the flags of `acl_allow` (src/README.md:54,
  dntpd.8:172), which is why `OutsidersRefused` speaks of clients outside the
  networks only; the live path, threads.c:112, asks no ACL and no rate limit
  (dntpd.8:156), and `handle_client_request` has no caller.
* socket.c:245 and 397 against src/README.md:24 "Thread-safe": of two requests of
  one client that overlap both pass the limit, both insert an entry, and two
  threads that pass the test for a full table write behind the array
  (mode_handler.c:101-108). socket.c:447 frees the argument of the thread it has
  started, which frees it again.
* mode_handler.c:102 "evicting oldest entry": the first one goes, whenever it was
  last used.

## 4. Fairness

* Threads: weak fairness on each thread's steps (the scheduler runs it); strong
  fairness on a lock that competes with another thread (a mutex that becomes
  free again and again is granted). `sleep`, timed waits and receive timeouts
  end.
* `SyncLoop` (`LiveSpec`, used by `sync_silent`): main is scheduled and servers
  answer what they are asked. More fairness would not help: the trace has main
  going round.
* `FreqDiscipline`: the daemon is started and an exchange that has begun is
  finished. That exchanges are far enough apart is a premise of `ReachesSync`;
  with the default interval of 30 s it is false.
* `ExtensionFields` (`PeerSpec`, used by `fields_ignored`): the peer thread goes on
  walking.
* `Daemon` (`LiveSpec`, used by `shutdown_blocks`): main goes on starting and
  cleaning up, and a round of the loop ends, since no exchange is begun and the
  sleep is finite.
* Signals are never assumed to arrive: the shutdown properties are of the form
  "signal leads to exit".

Deadlock is checked in every run. The block of `shutdown_blocks` is no deadlock of
the model, as the process can still be killed; that nothing forces a kill makes
it a violation of `GracefulShutdown`.

## 5. Theorems

Eight modules hold the proofs, one for each component; `DisciplineProofs` has
those of `MarxFilter` and of `FreqDiscipline`, through which every accepted
sample goes in this order. Each theorem `Invariance` is of the form
`Spec => []IInv` (`MarxInvariance`: `MarxSpec => []MarxInv`); the inductive
invariants were checked by TLC on the instances of the runs before they were
proved.

| module | theorem (property of the runs) | from |
|---|---|---|
| PeerThreadProofs | `TypeCorrect` (`TypeOK`), `SendSafe` (`SendUsesOwnSocket`), `CloseSafe` (`CloseOwnSocket`), `Invariance` | `PoolCount > 0`, `PeerSock > 0` |
| ClockThreadProofs | `TypeCorrect` (`TypeOK`), `StopSticks` (`AtMostOneMore`), `Invariance` | constants that are natural numbers |
| SyncLoopProofs | `TypeCorrect` (`TypeOK`), `OnlyTheAnswerCorrects` (`CorrectionAnswersRequest`), `CorrectionIsAccurate` (`CorrectionAccurate`), `Invariance` | at least one server, an identifier that is none; any kind of mutex, any `errno` |
| DisciplineProofs | `FilterKeepsOne` (`FilterLeavesSample`), `NoSampleIsStale` (`NoStaleSample`), `SurvivorsAreInliers` (`SurvivorsPass`), `MarxInvariance` | an array of at least one cell, delays that are natural numbers, any `K` |
| DisciplineProofs | `FrequencyClamped` (`TypeOK`), `FilterStaysCoupled` (`FilterFollows`) | minimum <= maximum, a positive clamp |
| LeapSecondProofs | `TypeCorrect` (`TypeOK`), `PendingIsStable` (`PendingStable`), `Invariance` | positive intervals, any kind of mutex; `TypeCorrect` with an event interval of at least a minute |
| ModeHandlerProofs | `TypeCorrect` (`TypeOK`), `OutsidersAreRefused` (`OutsidersRefused`), `LimitHoldsAlone` (`LimitWithoutOverlap`), `Invariance` | non-empty tables, clients and networks of `W` bits, parsed lines with values of their types; any number of threads |
| ExtensionFieldsProofs | `TypeCorrect` (`TypeOK`), `KeyPairStaysWhole` (`KeyPairWhole`), `Invariance` | packets of at least a header, as the callers ensure |
| DaemonProofs | `TypeCorrect` (`TypeOK`), `ServersStayOwned` (`ServersOwned`), `PoolAgrees` (`PoolMatchesServers`), `FrequencyIsKept` (`FrequencyKept`), `FileImplementsStore` (`StoreImplemented`), `Invariance` | `MAX_PEERS > 0`, any kind of mutex |

*PeerThread.* `SendUsesOwnSocket` is not inductive: that a reply leaves through
the right descriptor depends on who is in the critical section. `MutexInv` says
that a thread inside holds the mutex or found it destroyed, and that the mutex
is destroyed only after the descriptor has been set to -1; `SocketInv` that the
number in the context refers to the peer socket until the one step between
`close` and the store of -1, during which main is inside. A sender that holds
the mutex thus excludes that step; one that found the mutex destroyed has read
-1.

*ClockThread.* `StopInv`: only a thread that has not begun sets the flag, and
after a correction counted past the stop the thread is on its way to the test of
a flag that is cleared. `TimesInv` carries the numeric half of `TypeOK`,
`PlacesType` the rest.

*SyncLoop.* That an accepted packet comes from the server main is
at is not inductive: it depends on datagrams of earlier exchanges, late or
duplicated. `OriginInv` says that whatever carries the current identifier, among
open requests, queued datagrams and the packet in hand, belongs to that server;
it survives a new request because the identifier chosen is carried by nothing
under way. `RequestInv` says at which points there is a request or a packet, and
that beyond the checks the packet has passed them all. `CorrectionAccurate` then
is arithmetic: `QuotientBounds` (a truncating division is off by less than the
divisor, on either side of zero) and `OffsetAccurate`, the half round trip plus
three roundings.

*MarxFilter.* The loop walks an array that `marx_remove_sample` shifts under it.
`CellsInv` says what each part holds: inliers up to `filtered`; from the loop
counter on the samples that stood `Gone` places further at the start, `Gone`
being the number of removals; behind the samples in use copies of the last one.
So an iteration that reads a stale cell reads the last sample, and one that
neither keeps nor removes shows that this sample is an outlier, which is
`SurvivorsAreInliers`. `FrontInv` is `NoStaleSample` for all cells the loop can
still read, those behind the samples in use included: without it a removal could
shift anything into use. `CountInv` counts: each removal has
met an outlier no other removal has met, and as long as
nothing has been kept the loop has removed at every step and thereby looked at
every second sample. If it kept nothing at all, these outliers and, for an even
count, the last sample would be more than half of the samples. That contradicts
`FewOutliers`: at most half exceed a threshold that is no less than the median,
which rests on `MedianSplits`, the existence of the order statistic in every
array (the smallest sample with enough samples up to it; `LargestSample` and
`LeastNatural` provide the extremes). The loop is a state machine here because
what a fold computes would take an induction over data; its invariant is the
loop invariant. The attempt to prove the earlier claim that no outlier survives
failed at the removal of the last but one sample and led to the counterexample
of section 3: it needs nine samples, more than the instance of the run has.

*FreqDiscipline.* The clamp is applied to estimates only; the lemmas show that
means and loaded values stay within it. Both properties are inductive with the
types.

*LeapSecond.* `WaitInv`: time waited plus time to wait exceeds the interval as
long as an event is pending, and the correction is entered only when nothing is
left to wait. `SinceInv`, for `TypeOK`: a correction that sets the clock back
puts the last look at the file into the future, by no more than the part of a
minute that the event has not yet aged. With events shorter than a minute such
corrections would add up; both constants are 60 in the source.

*ModeHandler.* For `OutsidersRefused`, `AclInv` says that what `acl_check_client`
has established stays true of a request until it ends, and `PrefixEqual` that the
comparison under a mask is the equality of prefixes. `LimitWithoutOverlap` speaks
of `served`, the code of entries. `RateInv` relates them as long as no two requests
have overlapped: one thread is under way (`Alone`); the table is within its array
and has one entry per client, all of them answered (`TableSound`); between search
and stamp the thread's entry is where it believes it to be (`InsertSound`); a
stamped entry is no older than its client's last answer (`EntriesLate`; the stamp
reads the time again, so that it may be younger); as long as the clients answered
fit into the table, each has an entry, but for the one whose reply has just been
sent (`Remembered`); and a request past the check has waited (`Waited`). The proof
counts (`IpsCounted`: such a table has as many clients as entries) to show that
room is made only when there is one client too many, and `EvictedSound` says what
the shift leaves. After an overlap nothing of this is claimed, and the hypothesis
is needed: TLC finds two replies within the interval without it.
`PowersAssumption`, that powers of two are positive naturals, is no assumption
about the code: the provers know nothing of exponentiation.

*ExtensionFields.* `PairInv` is `KeyPairWhole` with the flag in place of its
consequence: the structure is wiped *and disabled*, or holds what it was given.
`WalkInv` keeps the fields of packets out of it: the header test fails at once, so
no walk leaves position 48. The functions of ido.c and autokey.c get one lemma
each (domain kept, key and identifier left alone or replaced together).

*Daemon.* `ServersOwned` is inductive with the types. `PoolInv` adds where the
list and the pool may differ: only after a load that ran out of memory, when the
list is empty and main does not go on. `FreqInv` adds that a save is entered in
SYNC only and that the file is empty while it is written. In the refinement
`InitParts` is the store's `Load`, `Discipline` its `Learn`, `WriteFrequency` its
`Save`, and a kill its `End`, or, in the middle of a write, a `Save` that loses the
frequency; `fopen` and everything else leave the store alone.

Only model-checked:

* the liveness properties `ShutdownCompletes`, `StopCompletes`, `ReachesSync`, and
  the violations of `RequestsGoOut`, `GracefulShutdown` and `OfferTracked`:
  liveness under fairness is out of the prover's reach.

## 6. Not modelled

* Text and layout: log and status messages, option texts, byte layout of packets,
  path names and texts of leap files.
* Numbers: floating-point values of FLL, PLL, dispersion and the clock accuracy
  statistics, which only the log shows.
* Code without effect or without a caller: `compute_system_offset` and what it
  calls, `select_best_peers`, `majority_vote`, `is_false_ticker` (time_sync.c:757
  discards the result), the ntpq listener's thread (socket.c; it cannot start),
  the reference clock drivers (only `reference_clock_init` is called),
  `clock_thread_notify`. Request threads have no caller either, but carry the rate
  limit, and are modelled.
* The heap under `free(data)` at socket.c:447, and what lies behind the rate limit
  array when an entry is written there.
* HMAC-SHA1 (libgcrypt).

## 7. Plan

1. *done:* PeerThread, SyncLoop with PthreadMutex and OnWire, MarxFilter,
   LeapSecond, ModeHandler, ClockThread, FreqDiscipline, Negotiation and
   ExtensionFields, Daemon; the abstract specification FrequencyStore.
2. *done:* proofs of every safety invariant, of every action property and of the
   refinement.
3. Left: once the port test lets requests out and the mutexes are repaired, the
   liveness of rounds and of leap second events, and a status reader beside
   main's publication; jitter and peer selection, should their values come to
   decide anything.
