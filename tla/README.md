# httpdemo: a verification development

httpdemo is a small C client that registers a device with a server over HTTPS
(`httpdemo.c`), on top of a porting library `os/` (threads, queues, timers,
maps, files, strings, time), with cJSON, libcurl and OpenSSL vendored and a log
facade over zlog that the top-level build does not link. The parts where
something can go wrong in ways a test hardly reaches are the queues, threads,
timers and maps of `os/`, its conversions at the limits of their types, and the
cleanup paths of the client. They are modelled here in TLA+,
checked with TLC, and their safety is proved with TLAPS for every value of the
constants; of the map, all but the refinement.

## 1. Inventory

| Component | State | Operations | Interacts with | What makes it hard | What makes it correct |
|---|---|---|---|---|---|
| Message queue `adm_os_queue.c` | storage area, `pcWriteTo`, `pcReadFrom`, `uxMessagesWaiting` | create, send (back, front, overwrite), receive | threads, the global mutex | two pointers and a count that wrap and move independently | it is a bounded double-ended sequence |
| Queue mutex `adm_os_queue.c`, `adm_os_thread.c` | `s_adm_thread_mutex`, `s_adm_thread_mutex_init` | made lazily, locked in each send and receive | every queue of the process | check-then-make without a lock; failure ignored | calls exclude each other and release the mutex |
| Message passing `adm_thread_send_msg`, `adm_os_queue_test.c` | messages, heap copies, counters, task handles | send, poll, dispatch, free | queues, threads, heap | ownership moves between threads; refused sends; a handle that is assigned late | one owner per copy, every message accounted for, order per sender |
| Thread object `adm_os_thread.c` | `state`, `isRunning`, `id`, `hThread`, handler, lock, event | create, start, stop, signal, set handler, destroy; `ThreadKernel` | its pthread, callers on other threads | flags read outside the lock, stop and destroy against a booting or running kernel | stop means down; the struct is not used after it is freed; stop and destroy return |
| Thread event | `m_isSignaled`, condition | signal, wait, timed wait | thread object | nothing calls the wait | a signal is not lost |
| Timer `adm_os_timer.c` | `timer_id`, `arg`, POSIX timer, counter of the sample | init, start, stop, destroy; the callback | callbacks on their own threads, main | callbacks overlap one another and main; the struct is cleared under them; lost increments | a kernel timer is orphaned only by a start over a live one, it is disarmed in the end, a second stop is harmless |
| Map `adm_os_map.c` | linked list, size, iterator of the caller | create, add, find, set, removeItem, setNull, removeAll, destroy, getNext, getSize | its caller | pointer to pointer walk that removes; iterator at the end and across removals; ownership | it is the sequence of pairs added; nothing leaks |
| Registration client `httpdemo.c` | request tree, answer buffer, libcurl handles | build, post, collect, parse | cJSON, libcurl, the server | failure at each of some twenty steps; partial answers | everything freed once; whole answers only; it ends |
| Log facade, zlog `abup_log/` | environment, configuration, categories, files | start, reconfigure, end, log, rotate | threads that log | reload and end against logging; rotation step by step | no use of a freed configuration |
| Conversions `adm_os_string.c`, `adm_os_time.c` | none | number to text and back, text to `unsigned long`, seconds to a date | callers | the largest number, the eighth digit, the last day of a leap year | what fits is parsed and nothing else; the date exists and is the right one |
| Memory, file, rest of string and time | none or the C library's | sequential helpers | all of the above | partial writes and retries | files are whole |
| cJSON, libcurl, OpenSSL | vendored | | the client | | |

`PROJECT.json` lists each with its status, and under "hazards" the places where
these behaviours bite, with the properties about them.

## 2. Modules

| Module | Models | State and actions against the code |
|---|---|---|
| `AdmFifo` | nothing: the abstract promise of a queue | a bounded double-ended sequence, and the last call with its answer |
| `AdmQueueOps` | the operations of one `adm_queue_t` | a record with the fields of the struct; one operator for each of `adm_queue_copy_data2list`, `adm_queue_copy_data_from_list`, create and reset |
| `AdmQueue` | a queue whose calls are atomic | `Send`/`SendFull` and `Recv`/`RecvEmpty` are the two ways through `adm_queue_generic_send` and `_recv` |
| `AdmQueueSync` | the same calls, step by step, by several threads, with the mutex and its creation | `pc` is the place in the call: lock, test of the count, copy, the moving of a pointer, update of the count, unlock; `local` the locals. Loading, storing, testing and rewinding a pointer are steps of their own, so it stands behind the storage in between; a copy there sets `overrun` and ends the run |
| `AdmMessaging` | senders, tasks, the heap | `adm_thread_send_msg` in three steps (call with the handle read, copy, queue) and the task's loop in four (receive, dispatch, count, free) |
| `AdmThread` | one `adm_thread_t`, its owner, guests and kernel | the fields of the struct; each section between lock and unlock of `pThread->lock` is an action; the unlocked reads of the kernel are actions of their own |
| `RegisterClient` | `test01`, `postJsonReport`, `responseCallback`, `parseRegisterRsp` and the builders of the request | `pc` is the function and step, `heap` what is allocated, `ptr` the pointers that are not NULL |
| `AdmMultimap` | nothing: the abstract promise of a map | a sequence of pairs, an iteration that goes round, and the last call with its answer |
| `AdmMap` | one map and the caller that owns it | the fields of the struct and of the pairs, `iter` the caller's iterator; reading calls are one action each, the loops of `removeItem`, `setNull`, `removeAll`, `destroy` take one step per pair, with `loop.p` for `p` |
| `AdmTimer` | one `ADM_TIMER_T`, main and the callbacks of its sample | `pc` is the place in the call, of `adm_timer_init` and `_start` too; each read of `timer_id` for a test, for a call and for a delete is a step, as are the two halves of `count++`; `kernel` is the POSIX timer |
| `AdmConversions` | `adm_D32Utoa`, `adm_atoD32U`, `adm_strtoul`, `adm_time_from_timestamp` | one action per loop and one for each way out of it; `val` is the accumulator |
| `AdmQueueProofs`, `AdmQueueSyncProofs`, `AdmMessagingProofs`, `AdmThreadProofs`, `AdmTimerProofs`, `AdmMapProofs`, `RegisterClientProofs`, `AdmConversionsProofs` | the proofs (section 4) | each extends the module it is named after; the lemmas about `AdmQueueOps` are in `AdmQueueProofs` |
| `MCAdmQueue`, `MCAdmThread`, `MCAdmConversions` | the requests, handlers and inputs of the runs | |

`AdmQueueOps` is shared: `AdmQueue` and `AdmQueueSync` extend it,
`AdmMessaging` takes one instance for the queues of its tasks. `AdmQueue` and
`AdmQueueSync` refine `AdmFifo`; `AdmMap` refines `AdmMultimap`. `AdmMessaging` takes a queue call as one step,
which the refinement of `AdmQueueSync` justifies.

Definitions whose comment starts with "Faulty" are no part of a specification.
Each is a definition of the model with a plausible mistake put in; with it in
the place of the right one the property it is listed with must fail. They show
that the properties look at the code.

### Abstractions

- In `AdmMap` keys that `compareFunc` finds equal are one key, and key and value
  are counted together as one block. A removal takes effect, in the abstract
  map, when its loop begins. The new pair gets the smallest free address: the
  code never compares addresses.
- In `AdmTimer` time does not exist: an armed timer may expire at any moment.
  Using NULL or a deleted id is undefined; the model stops there and notes who
  did it (`fault`). `overtaken` and `crossed` only serve the properties about them. The sample's
  three timers share nothing, so one is modelled, with `Limit` for 100 or 1000.
- In `AdmConversions` a character is its value as a digit, upper and lower case
  alike. `Width` is the number of hexadecimal digits of the type, `YearValues`
  the number of values of the 16 bits that count the years. A timestamp is
  split into days and seconds of the day beforehand, as the first two statements
  do. White space and NULL in front of the number are left out.

- Queue pointers are offsets from `pcHead` in units of items. An item size is 0
  or 1 ("any other"). Event lists and queue containers stay empty in this code.
- Memory never written before it is read is the item `Zero`: `adm_malloc`
  clears, and a receive clears the place.
- In `AdmThread`, time does not exist: polls and sleeps are waits. Names,
  thread ids and logging are left out. The event is only ever signalled; the
  wait in `ThreadKernel` is commented out. Without a handler `isOk` is
  uninitialized, so the kernel may go on or end.
- In `AdmMessaging` a message's `from` and `serial`, and the variables `lost`,
  `leaked`, `latest`, are for the properties; no code reads them. The
  comparison of the two counters only logs and is left out.
- In `RegisterClient` answers fit the 1024-byte buffers, whose last bytes
  `test01` has cleared. An answer is the set of its well-formed members and its
  status; a prefix of an answer is not a document. libcurl and cJSON are
  modelled by what the client sees: pieces in order and then a result; a tree
  that is deleted with its root.

## 3. Runs

| Run | What it asks | Bounds |
|---|---|---|
| `queue_ring` | Does the ring behave as `AdmFifo`, do pointers and count agree, do counted places hold items? | length 4, two items: every combination of both pointers and the count, each wrap in both directions |
| `sync` | Do calls exclude each other, take effect atomically, copy inside the storage, release the mutex? | 3 threads, length 2 (full, empty and in between), at most 2 mutexes, creation of the mutex may fail |
| `sync_race` | disagreement, see section 6 | no main that makes the mutex |
| `messaging` | Ownership of copies, accounting, order, freeing | 2 senders with 3 messages each, queue of length 2, 3 blocks: the queue is full, the heap is full and addresses are used again |
| `messaging_callback` | disagreement, see section 6 | 1 message |
| `thread` | Stop means down, no use after free, one late call of the handler, termination of stop and destroy | an owner and 2 guests with 2 calls each: start, stop, signal, set and clear the handler; the launch may fail |
| `thread_destroy_early` | disagreement, see section 6 | 1 guest, calls before the kernel has booted |
| `map` | Is the list the sequence of pairs, is everything accounted for, do the loops end? | 3 addresses, 2 keys, 2 values, one replacement: neighbours that both go, the head and the last pair, duplicates, no memory, addresses used again |
| `timer` | Where do orphans come from, who uses what is gone, is the timer disarmed in the end? | 2 callbacks at the same time, limit 1, started up to three times and at any time: increments are lost, a start meets a live timer, a callback's destroy overtakes a start, and another start follows either; no expiration beyond the count 6, and a timer still armed there, short of an orphan, would be a counterexample of `DisarmedInTheEnd` |
| `conversions` | Limits of the number conversions, the calendar | numbers of 2 hexadecimal digits, all of them, and texts of up to 4 characters out of 9: the largest is 255, which like 4294967295 ends in 5 and is all Fs; the radices 0, 8, 10, 16 and the edges 1, 2, 36, 200; every day of 1970 to 2105, among them the leap year 2000 and the common year 2100; a counter of 2106 years in the place of 65536, the days after its last year and those on which it goes round again |
| `register` | Leaks, double frees, partial answers, ending | answers of up to 3 pieces with every combination of missing members; every allocation may fail |
| `register_retries` | disagreement, see section 6 | as above |

What the passing runs, and the theorems that say so, assume of the callers, and
where it is written:

- `Disciplined` in `AdmQueue`: items are not NULL and overwriting sends go to
  queues of length 1 only. FreeRTOS, where the code comes from, asserts this;
  here the assertions are gone. Without the assumption overwriting a longer
  queue shifts items under the count (`adm_os_queue.c:112`), a NULL item is
  counted but not stored (`:136`), and overwriting sends to a full queue without
  storage count beyond its length. No caller in the repository does so. Only
  `TypeOK` holds without it, and that is proved.
- `Main` in `AdmQueueSync`: somebody calls `adm_thread_mutex_init` before other
  threads run and gives up when it fails, as `adm_queue_test_main_all` does.
  `adm_queue_generic_create` itself does neither: `sync_race` shows what comes of
  the first. When the mutex cannot be made the handle is given out all the same,
  and the lock and the unlock of NULL do nothing; the model has that too
  (`MutexCreateFails`), and its consequence is the same.
- `AwaitBoot` in `AdmThread`: calls on a thread wait until its kernel has set
  `id` and `isRunning`. The code gives no means to wait for that; a stop before
  it has no effect. The owner lets its guests return before it destroys, and
  nobody calls stop from the handler, which would wait for itself.

- In `AdmMap`: the caller removes no pair its iterator points to (it would
  dangle), hands `adm_map_removeItem` a key of its own (with the stored one the
  later comparisons would read freed memory), and forgets the handle after
  `adm_map_destroy`, which does not clear it.
- In `AdmTimer` nothing: main starts, stops and destroys the timer whenever it
  likes. `adm_timer_init` over a live timer overwrites its id
  (`adm_os_timer.c:61`), and the old kernel timer expires for ever; a start that
  a deletion overtakes has its id cleared with the struct. `crossed` records
  these timers, and the properties say what holds but for them.

### Liveness and fairness

- `MutexReleased`: weak fairness of each thread's steps inside a call, up to
  and including the unlock. The operating system schedules a thread that can
  run; no fairness is assumed of taking the mutex or of beginning a call.
- `LoopEnds`: weak fairness of the loop of the call that is running.
- `DisarmedInTheEnd`: an armed timer keeps expiring (weak fairness of some
  callback's start), and threads that have begun a callback or a call go on. Main
  need not stop the timer. Increments may be lost, but each callback writes more
  than what it read, and what the slowest of them read only grows.
- `EventuallyFreed`: weak fairness of each task's loop, which runs for ever and
  sleeps a bounded time. Senders need not run.
- `StopReturns`, `DestroyEnds`: weak fairness of the kernel and of calls that
  have begun. This includes that the handler returns: with a handler that never
  does, as the loops of `adm_os_queue_test.c`, stop never returns. A failed
  assertion or a jump to a cleared handler ends the process, and then nothing
  is promised.
- `Ends`: weak fairness of the program's own steps. The end of a transfer is
  one of them because `CURLOPT_TIMEOUT` is set; nothing is assumed of the server.

`CHECK_DEADLOCK FALSE` stands where the system may stop: the client ends, a
thread that nobody calls any more is quiet, a crashed process does nothing.

## 4. Proofs

All theorems hold for every value of the constants that satisfies the named
assumptions of the modules.

- `AdmQueueProofs!TypeCorrect`: `Spec => []TypeOK`, for callers of any kind. The
  pointers cannot leave the storage area whatever is sent.
- Under `Disciplined`: `CountBounded`, `RingClosed`, `ContentsAreItems` and
  `Refinement` (`Spec => FifoSpec`). The first has no run of its own, as the
  refinement implies it: a sequence of `AdmFifo` is never longer than the queue.
  Overwriting sends, which `queue_ring` with its length of 4 does not make, are
  covered by the theorems, for the length 1. None of these is inductive by itself: the
  count stays below the length only if the pointers close up, and an item is at
  its place only if the place written to is the one that follows the contents.
  The inductive invariant `RingOK` joins the type invariant, the bound of the
  count, the equation of `WriteToFollowsContents`, and that the counted places
  hold items. The lemmas about `AdmQueueOps` say what each operation does to
  `Contents`: `BackAppends`, `FrontPrepends`, `RecvTakesHead`,
  `OverwriteReplaces`; `QueuedSlotFacts` and `QueuedSlotShift` do the arithmetic
  of the ring without division. The refinement then maps each action to one of
  `AdmFifo`.
- `AdmQueueSyncProofs!Exclusion`: `Spec => []MutualExclusion` for any number of
  threads under `Disciplined`. The invariant `LockInv` is about the creation of
  the mutex as much as about its use: while anybody is between the check and the
  mark nobody can call yet, so the global mutex never changes under a caller,
  every caller locks that one and who is inside holds it.
- `SyncTypes`: `Spec => []TypeOK` when items take one place, whoever makes the
  mutex and whether or not the calls race: the count stays a number, a slot holds
  an item or is cleared. It says nothing of where the pointers stand; calls that
  race can copy outside the storage, as one of them has moved a pointer to
  `pcTail` and not yet rewound it.
- `StaysInStorage`, `CountIsTrue` and `CallsAreAtomic`: `Spec => []InStorage`,
  `Spec => []CountIsItems` and `Spec => FifoSpec` for any number of threads,
  under `Disciplined`. Between the copy of an item and the update of the count
  the pointers are ahead of `uxMessagesWaiting`, and one may stand behind the
  storage, so the ring is not in order (`Ordered`: the ring's invariant, and what
  is not counted is cleared) at every step. `DataInv` says that it is when nobody
  is there, and `WorkOK`, for each place in a call, how far it is on the way: for
  a send, that it will be in order once the pointer has come to rest (`MovedTo`)
  and the count is updated (`SentBy`); for a receive, that it was before the
  pointer was moved (`Before`) and will be when the count is updated. There is
  one such place at most because of `LockInv`, which is therefore a part of
  `SyncInv`. A call takes effect, in `AdmFifo`, at the update of the count or,
  refused, at the test of it.
- `AdmMessagingProofs`: `MessagingTypes`, `InSendingOrder`,
  `EveryCopyHasOneOwner`, `EveryMessageAccounted`. A queue is `AdmQueueOps` with
  a message for an item, and the lemmas about the ring come in by INSTANCE from
  `AdmQueueProofs`, as they do in `AdmQueueSyncProofs`. The type invariant carries the ring equation of each task's queue.
  `OrderInv` says, for each sender and task, that the serial numbers of what the
  task received last, of what is queued from front to back and of what the
  sender is about to send increase: the order of receiving follows only from all
  of these. `OwnerInv` says that the places a block can be in (a queue, a
  sender's hand, a task's) exclude one another and that exactly the blocks in
  use that were not leaked are in one.
- `AdmThreadProofs`: `ThreadTypes`, `StopIsTrue`, `AtMostOneLateCall`, and,
  under `AwaitBoot`, `FreedIsUnused` and `DetachFailsUnlaunched`. `ThreadInv`
  joins who holds the lock while a handler is set (`SetInv`), what the fields
  of the struct say about the kernel (`KernelInv`), where the callers can be
  while the owner creates or destroys (`CallerInv`), that a kernel which has
  booted and may not run on is over or has somebody polling for its end
  (`StopInv`), that a kernel which called the handler after a stop does not get
  past its next look at `isRunning` (`LateInv`), and that the owner frees the
  struct only when there is no kernel or it is over (`DestroyInv`). The two
  theorems under `AwaitBoot` fail without it, as `thread_destroy_early` shows of
  the second.
- `AdmTimerProofs!TimerTypes`, `OrphansAreNamed`: `Spec => []TypeOK` and
  `Spec => []OrphansAreCrossed` for any number of callbacks that overlap and of
  starts at any time. Alone, `OrphansAreCrossed` would be broken by the clearing
  of the struct. `TimerInv` adds that every kernel timer which is alive while
  anybody is between deleting one and clearing the struct is crossed, which in
  turn needs that main is overtaken if it is making a timer then.
- `AdmTimerProofs!FaultsAreNamed`: `Spec => []FaultsAreCrossed`. `OvertakenInv`
  says what can be relied on by whoever was not overtaken: the id that he found
  not NULL is still that of a timer which is not deleted, and, unless a timer is
  crossed, the argument is there. Who is busy while another is about to clear
  the struct is overtaken.
- `AdmMapProofs!MapTypes` and `NothingElseLost`: `Spec => []TypeOK` and
  `Spec => []Accounted` for any number of addresses, keys and values and any
  order of calls. `ListInv` says that the `next` fields lead from `head` along
  different pairs to NULL and are NULL everywhere else; without the second half
  a cycle outside the list could be linked in, and `Chain`, which follows the
  fields by recursion, would have no value. It adds that what is allocated is
  listed or lost, never both, and that a key and a value are owned for each
  listed pair beside the displaced ones. `WalkInv` says that `size` is the length of
  the chain except while `removeAll` and `destroy` run, from which it follows
  that it never goes below zero although nothing tests it; and that `p` of a
  running loop and the caller's iterator point into the list, the iterator to no
  pair the loop unlinks.
- `RegisterClientProofs`: `ClientTypes`, `NothingLeaks`, `NothingFreedTwice`,
  `OnlyWholeAnswers`, `InfoIsComplete`, for any number of pieces and fields and
  a failure at any step. `ClientInv` joins that the pointers which are not NULL
  are those to allocated memory, what may be allocated at each place of the code
  (`HeapInv`), that the pieces collected are those that have arrived, in order
  (`AnswerInv`), and that the members of the answer are set only after its
  status was seen (`InfoInv`).
- `AdmConversionsProofs`, for a type of any width: `DateIsExact` by `DateInv`,
  that the days already turned into years and months, the rounds that the counter
  of the years has gone and the days left make up the timestamp, and that no
  round was gone before the counter's last year was over; `ConversionTypes` by `ValueInv`, that a number read from `count`
  hexadecimal digits is below `HexValues[count]`; `OnlyWhatFits`, for every radix
  of a `D8U`, by `ParseInv`,
  that the accumulator is what the digits read so far denote, or that a prefix
  was found that does not fit; `NumbersReturn` by `PrintInv`, that there is a
  sequence of quotients of the number (`Quotients`) of which the counting loop
  is at one end and the writing loop at the other. Here the argument is an
  induction over data. `SetInduction` and `Recursion` state it for sets and
  functions, from the well-foundedness of the numbers, so that it can be cited.

What the named assumptions on the constants say beyond their types: NULL and
the cleared item `Zero` are no messages and differ (`ValuesAssumption`,
`MessagingAssumption`), the sets of tasks and senders are finite
(`MessagingAssumption`), "unlocked" is not the name of a caller
(`ThreadAssumption`), numbers fit the type, radices a `D8U`, the counter of the
years holds 1970, a timestamp comes split into days and seconds of a day, and
texts are finite (`ConversionsAssumption`,
`TextAssumption`).

Checked by TLC only: that `AdmMap` refines `AdmMultimap`, and all liveness properties (`MutexReleased`, `EventuallyFreed`,
`StopReturns`, `DestroyEnds`, `LoopEnds`, `DisarmedInTheEnd`, `Ends`), which are
beyond the prover.

## 5. What is not modelled

- `adm_queue_notify_container` and the event lists of a queue: dead code, nothing
  sets a container or adds to a list.
- `adm_thread_set_queue`, thread names and ids, `DM_PL_Thread_wait`.
- The bookkeeping under `ADM_DBG_MEM`: its types are under `ADB_DBG_MEM`, so it
  does not compile, and no build enables it.
- Sizes of buffers in the client. The interactive samples. The vendored
  libraries beyond what the client sees of them.
- The wait for a thread event: it has no caller (the one in `ThreadKernel` is
  commented out). The file wrappers and the
  remaining string helpers: planned, see section 7.
- The log facade and zlog. The top-level build does not contain them and nothing
  calls `abup_log_Init`. The configuration file that the facade writes does not
  set zlog's `reload conf period`, whose default is 0 (`zlog/src/conf.c:33`), so
  the part of zlog with the difficult interleavings, a reload against threads
  that log, is never reached from it.
- Nearly all lines of the repository are the vendored OpenSSL, libcurl, cJSON and
  zlog; the program's own code is `httpdemo.c` and `os/`, some five thousand
  lines with its headers. Measured against the whole repository the part that is
  modelled is therefore very small. The vendored libraries are tested and
  maintained elsewhere, and are modelled by what the program sees of them.

## 6. Disagreements between the code and what is said of it

With a run:

- `sync_race`: threads that create queues at once can each make the global mutex
  (`adm_os_queue.c:538`) and then exclude nobody; `uxMessagesWaiting` is no
  longer "the number of items currently in the queue" (`adm_queue.h:98`).
- `messaging_callback`: `adm_thread_send_msg` copies what its parameter points
  to, for a callback the first bytes of its code, and the dispatcher calls the
  copy (`adm_os_queue_test.c:52`) instead of the callback (`:136`).
- `thread_destroy_early`: a thread destroyed before its kernel has run has no
  `id` to detach, and the assertion at `adm_os_thread.c:500` fails.
  When the kernel boots between the test and the detach, the detach succeeds and
  the struct is freed under the running kernel: without `AwaitBoot`,
  `NoUseAfterFree` does not hold either.
- `register_retries`: the comment at `httpdemo.c:559` promises three retries; the
  option set there limits redirections, and a failed transfer ends the request
  after the first time (`:578`).

Without a run of their own:

- An answer that refuses the registration is reported with the result that means
  success (`httpdemo.c:111`, `:166`, `:633`). `InfoComplete` states what the code
  does: nothing is filled in then.
- The three uses of a queue that `Disciplined` excludes (section 3), and the
  ignored failure to make the mutex (`adm_os_queue.c:379`).
- The count comparison of the tasks (`adm_os_queue_test.c:288-290`) reports an
  error whenever a second message is already on its way.
- When `pthread_create` fails, creation destroys the thread and the same
  assertion fails: `OnlyUnlaunchedFails` says that this is the one way to it
  once the boot is awaited.
- The kernel may call a new handler with the old parameter, or jump to a handler
  cleared after the test (`adm_os_thread.c:172-174`), although `lock` is the
  "mutex that protects threads internal data".
- `adm_map_destroy` frees the map and leaves the caller's handle as it is, though
  it takes a pointer to it; `adm_map_setNull` does not free the pair it unlinks;
  `adm_map_set` overwrites a key and a value that the map owns. `Accounted` says
  that these are all the losses.
- A timer's callback on its way while another deletes the timer uses NULL or the
  deleted id, and a start over a live timer loses it: `FaultsAreCrossed` and
  `OrphansAreCrossed` say that these are the only ways to it.
- `adm_time_from_timestamp` moves the hour by eight, to the time of Beijing, but
  not the date (`adm_os_time.c:120`): from 16:00 UTC on the date is that of the
  day before. The years are counted in a `D16U`, so after 65535 comes 0.
  `DateExact` states what the code does.
- `adm_strtoul` reports success for a text without any digit.

## 7. Plan

Done, in this order: the queue (ring, abstract promise, proofs), its mutex,
message passing, the thread object, the client, the map, the timer, the
conversions.

Next, by importance:

1. `AdmFile`: the loop of `adm_fwrite` with partial writes and retries.
2. `adm_thread_create` and `_destroy` with the queue they own, as a composition of
   `AdmThread` with a queue.

Worth proving next: that `AdmMap` implements `AdmMultimap` for any number of
addresses, keys and values. `ListInv` gives the abstract sequence; missing is an
invariant for the loops that remove, which relates the part of the list already
passed to the sequence before the loop.
