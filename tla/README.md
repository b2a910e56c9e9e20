# Verification of the exchange

TLA+ specifications of the C++ exchange in `src/`, the TLC runs that check them
and the TLAPS proofs about them.  The readme of the code says that the project
is not complete; several components are stubs, and some tests call an interface
that no longer exists.  What is modelled here is what the code does.

## 1. Inventory of the system

A client's order goes through three servers, each a process built on the same
library (`Lib/Internal`):

    Broker (GTK client) --TCP--> Gateway --TCP--> Dispatcher --TCP--> MatchingEngine
                                    ^                                      |
                                    +---- UDP broadcast -- MarketDataServer <--TCP

Inside every server the threads and calls are the same:

    accept thread ── NewClient ──> SessionManager ── Subscription ──> OrderManager (Sequencer)
    read thread of a session ── FromServerSession ──> SessionManager (mMutexMessage)
                                                      ── push ──> queue of the session
    consumer thread (Sequencer::Run) ── onMessage ──> OrderManager ── To.../From... ──>
                                                      SessionManager ── push ──> send ring
    send thread of a connection ── ::send

| Component | State it keeps | Operations | What makes it correct | Hard behaviour |
|---|---|---|---|---|
| `CustomArray`, `bitmap` (price ladder of one side) | `mMinIndex`, `mMaxIndex`, `mTab`, bits | `add`, `operator[]`, `next`, `previous`, `empty` | the ends are levels; no level is lost | off-by-one, word boundaries, unsigned wrap |
| `TradeHandler`, `Limit`, `matching::OrderManager` | two ladders, a FIFO per level, `mOrderList`, `mTradeHandlerList` | `onNewOrder` (`Match`, `Execute`, `onBuyOrder`, `onSellOrder`), `onCancelOrder` | conservation of shares, price limits, time priority, no live order lost, reports are fills | long sequences of orders and cancels; levels used again |
| `Sequencer`, `LockWaitFreeQueue`, `core::OrderManager` | map of queues, `mLookupIndex`, counters, `mMutex` | `subscribe`, `unSubscribe`, `push`, `Run` | each message once and in order, no client starved | `mLookupIndex` read without the mutex; full queues; a full map |
| `SessionManager`, `TCPServerSession` | sessions by id, client sessions, `mMutexMessage` | accept, start, disconnect, reply by session id, shut down | a reply reaches the session that asked | descriptor reuse, double close |
| Gateway: `GatewaySession`, `gateway::OrderManager`, `OrderScanner`, `UserManager` | order counter, logon flag, order list | logon, new order, cancel, approval | unique order ids; accepted iff forwarded | id generation by several threads |
| Dispatcher: `dispatcher::OrderManager` | orders that wait for approval, routes of brokers and clients | new order, approval, cancel, (dis)connection | an order reaches the engine at most once, a retail order only when approved | double approval, reconnection |
| `TradingSession`, `MatchingEnginePublisher`, ... | stamps of session ids on a message | routing of executions | an execution finds its way back | missing handlers |
| MarketDataServer | broadcast ring | forward what arrives | nothing is broadcast out of order | lost wake-up |
| `LinearAllocator` | blocks, offset | `Allocate` | allocations are disjoint | block boundary, several threads |
| `Decoder` | circular buffer, message sizes | `ensure`, `Decode` | messages are cut where they were joined | wrap-around, unknown bytes |
| TCP and UDP transport | send rings, `mIsConnected` | `start`, `stop`, `push`, tasks | what was pushed is sent in order | push before start, partial send |
| Broker (the client application) | rows of orders and of requests for approval | logon, send, cancel, approve; what the replies do to a row | an order is answered; a cancel carries the ORDERID of its order | replies to a row that is another order's |
| `AlgoOrder`, `Twap`, `Basket`, `Gemini` | - | splitting is commented out | - | - |
| `Application`, `Configuration`, `SignalManager`, `Observer`, UI, Logger, PersistenceServer, benchmarks | wiring, input and output | - | - | - |

`PROJECT.json` lists every component with its files and status, and every
hazard at its line.

## 2. Modules

| Module | Models | Notes |
|---|---|---|
| `PriceLadder` | `CustomArray` over `bitmap` | operators on a record `[min, max, bits]`: the two ends in `uint64_t` and the set bits |
| `DepthLists` | the two ladders of a `TradeHandler`, driven as the handler drives them | the most liberal driver: any price may come to rest, any recorded best level may be exhausted |
| `MatchingEngine` | `matching::OrderManager` + `TradeHandler` + `Limit` for one STOCK | one action per iteration of a loop of `Match`; extends `PriceLadder` |
| `Exchange` | what an engine promises, without ladders, queues or loops | implemented by `MatchingEngine` |
| `Sequencer` | `Sequencer`, `LockWaitFreeQueue`, `core::OrderManager::update`, and the accepting and reading threads | one action per step another thread can observe |
| `OrderFlow` | Broker, Gateway, Dispatcher and the arrival at the engine, joined by FIFO links | composes the servers; one action per handler, two for `AddOrderId` |
| `Clearance` | what the servers promise of an order, without sessions, links and routes | implemented by `OrderFlow` |
| `Sessions` | `TCPConnection`, `TCPServerSession`, `SessionManager` with accept, reading and sending threads | descriptors are used again |
| `LinearAllocator` | `LinearAllocator` for one thread | composed in `MarketData` as `Memory` |
| `Decoder` | `Decoder::ensure` over `boost::circular_buffer` | operators on a record `[cells, first, size]` |
| `MarketData` | the MarketDataServer: engine session, `UDPServer`, its broadcasting thread, the timers, a `UDPClient` | extends `Decoder` |
| `MCDepthLists`, `MCMatchingEngine`, `MCSequencer`, `MCOrderFlow`, `MCSessions`, `MCMarketData` | - | constants of the runs |
| `Counting` | - | lemmas on `Min` and `Max` of sets of naturals, and on how often a message is in a link or in a family of links |
| `PriceLadder_proofs`, `DepthLists_proofs`, `MatchingEngine_proofs`, `Sequencer_proofs`, `OrderFlow_proofs`, `Sessions_proofs`, `MarketData_proofs` | - | theorems |

Definitions marked "Slip" in a module are not part of the specification: each
is a plausible mistake in the operator that follows it, and with it in that
operator's place a property of a run fails (`"mutants"` in `PROJECT.json`).

### PriceLadder and DepthLists

`min` and `max` are offsets, `Add` compares them with the 1-based index, as the
code does.  `BitBelow` returns the lowest bit of the word it finds, as
`__builtin_ctz` does; `BitAbove` starts from the first bit of its word.
Arithmetic on the ends is modulo `Wrap` (2^64).  The levels themselves (the
pointers in `mTab`) are kept by `MatchingEngine`.  The bitmap starts empty: the
memory of a new `TradeHandler` is not initialised by the code, and is zero only
because a block of that size is fresh memory from the operating system.

### MatchingEngine

| Code | Model |
|---|---|
| `mBuyLimitSide`, `mSellLimitSide` | `ladder["B"]`, `ladder["S"]` |
| `Limit::mOrderList` from `Head` on | `queue[side][level]` |
| `REMAININGSHARES` | `rem` |
| `mOrderList` | `known` |
| `mTradeHandlerList` has the STOCK | `handler` |
| the local `llimit` of `Match` | `llimit` |
| position inside `onNewOrder` | `pc`: `idle`, `match`, `rest`; `nullLevel` and `nullOrder` where a null pointer was dereferenced |
| `notifyObservers` | `notified`, the events of the last step |

`NewOrder` is `onNewOrder` up to the loop of `Match`; `ExecuteHead` is one
`Execute` with the removal of `Head`; `NextLevel` is `next()` or `previous()`
on an exhausted level; `LeaveMatch` and `RestOrReturn` are the rest.  The
consumer thread calls the handlers one at a time, so nothing interleaves with
them; the loops are split only so that each iteration is checked.

An order is named by its arrival number because two orders may carry the same
ORDERID.  `filled` and `cancelled` are history variables.  A PRICE has 64 bits,
the level it rests on 32: `Level` narrows it, the comparisons of `Match` do not.
The model is of one STOCK; messages for others appear as
`CancelWithoutHandler` and as handlers that exist before the first order.
`mOrderList` is one map for all STOCKs: an ORDERID used for two of them is not
modelled.  The time stamps, session ids and the trade number of an execution
are left out, as is `Limit::QUANTITY`, which nothing reads.

`Exchange` promises: only the newest order takes shares from older ones, within
both price limits, no more than either has left, and the earliest of the orders
of one side and price first.  It does not promise the best price across levels:
the code does not give it (findings `ladder_min`, `ladder_max`).

### Sequencer

| Code | Model |
|---|---|
| keys of `mQueues` | `subscribed` |
| queue deleted, entry kept (`unSubscribe`) | `freed` |
| a queue, its `mCounter` | `queue[c]`, `counter[c]` |
| `mLookupIndex` | `lookup` (`End` for `end()`) |
| `mMutex` | `mutex` |
| `mMutexMessage` of the `SessionManager` | `MessageMutexFree`: at most one thread is in `push` |
| position of the consumer in `Run` | `run`, and `polled` for `lStruct` |
| position in `subscribe` and `createNewTCPServerSesion` | `accepting`, `arriving` |
| sessions that were started | `open` |
| a thread that spins in `LockWaitFreeQueue::push` | `pushing[c]` |

`CanPoll`, `Poll`, `OnMessage`, `LockToAdvance` and `Advance` are the steps of
`Run`.  `mLookupIndex` is read without the mutex before `CanPoll` and again
before `poll`, and a subscription may reset it in between; the model has all
these interleavings.  The insertion into the `std::map` and the lookup in
`push` race as well: a lookup during the insertion finds the client or does
not, and if not the message is dropped without a trace, which is a step that
changes nothing.  After a queue was deleted any use of it leads to
`run = "undefined"`, where the model stops.

No component ever notifies `UnSubscription`, so `Leaving` (the ids for which it
is) is empty in a faithful deployment.  The safety run includes one id that does
leave, to show that nothing goes wrong with the others' messages before the
deleted queue is touched.

### OrderFlow and Clearance

| Code | Model |
|---|---|
| a row of an order view: `mOrderStatus`, `mOrderId` | `status[o]`, `shown[o]`; the view is `sent[o].view` |
| `mOrdersIds` of a view (CLIENTORDERID to row) | `RowIn(v, t)`; `RowOf(o)` is the row that the answers to `o` reach |
| the approval view of a session | `requests[s]` |
| the views of a session are made, their callbacks registered | `open` |
| position in `createNewTCPServerSesion` and `start` | `stage[s]`: `subscribing`, `reading`, `connected`, `listed` |
| keys of `mQueues` in the Gateway's Sequencer | `subscribed` |
| `mOrderId` of the Gateway; a thread between `fetch_add` and `load` | `counter`, `loading[s]` |
| send ring, wire and receiver of a connection | `toGateway`, `toClient`, `toDispatcher`, `fromDispatcher`, `toEngine` |
| a session's queue in the Gateway's Sequencer | `gatewayQueue[s]` |
| `mBrokerRoutingData`, `mRetailRoutingData` | `route` |
| the Dispatcher's `mOrderList` | `pending` |
| the engine's `mOrderList`, as far as arrivals go | `booked`; `down` when a cancel dereferenced null |

The reading thread of a Gateway session treats a Logon itself and sends the
Information straight to the Dispatcher, while orders pass the Sequencer: the
two overtake each other.  Only the Gateway has a queue per session; the
Dispatcher and the engine have one session that carries orders, so that its
queue is part of its link.

The accept thread makes one session at a time, and its steps are apart: the
Sequencer takes the session or refuses it (`MaxSubscriptions`), the reading
thread starts (`reading`), `mIsConnected` is set (`connected`), the session is
inserted into `mTCPServerSession` (`listed`).  The reading thread reads from
`reading` on.  What it submits before `connected` is dropped (`Submit`), a
reply that looks the session up before `listed` finds nothing (`PushReply`),
and the orders of a refused session are dropped (`Enqueue`).  A lookup in one
of the two maps while another session is inserted there is a data race: the
model has the two outcomes found and missed, and `missed` records the second.
Corruption of the map itself is not modelled, nor is the race on the vector of
callbacks while a view registers its own.

A view belongs to one session: rows are those of the orders made from it, its
callbacks hear that session only.  The EntryBox, however, sends over the
connection picked in its list, so that a script may send over a session whose
view has no row of the order; such an answer changes no row, or one of another
order with its CLIENTORDERID.  A connection of the model is made once: the
Disconnect button and a session opened again are left out.

Executions go from the engine to the Dispatcher,
where no handler takes them, and are left out.  So is `SESSIONID` reuse: a
session has a descriptor of its own here, and `Sessions` says what becomes of
one that is used again.

`Clearance` promises that an order is numbered once, accepted after that,
delivered after its acceptance, a direct order at most once, and a retail order
at most once per approval under its ORDERID by a broker that an order of that
ORDERID names.  It allows what the code does: an approval counts for an
ORDERID, which two orders may share (`SharedIdsOnlyTogether`), and then only
one of them is let through, perhaps not the one the broker saw; and two
approvals deliver an order twice.

`DownOnlyByStrayCancel` lists the cancels that bring the engine down: those
made from a row without an answer, of an order that was not sent straight to
the engine, repeated, or with the ORDERID of another order - be it that two
orders share it, that the row shows the answer to another one, or that a
Reject of a cancel, whose CLIENTORDERID is never set, landed on it (only with
an order of an unknown instrument).  All others find their order, because no
queue or link lets them overtake it.

### Sessions

| Code | Model |
|---|---|
| `mClientSocket` | `fd[k]` for the k-th connection |
| who has the descriptor | `owner` |
| `mTCPServerSession` | `listed` (by descriptor: the id is the hash of its number) |
| `mIsConnected`, the stop flag | `connected`, `stopped` |
| position in `createNewTCPServerSesion` and `start` | `accepting` |
| position in `ASYNC_TCP_Read::Run` and what it calls | `reader[k]` |
| the messages of the last `recv` that `poll` has not treated yet; who sent them | `batch[k]`, `from[k]` |
| position in `ASYNC_TCP_Send::Run` | `sender[k]` |
| `mSendRing` | `ring[k]` (the connection each reply is for) |
| replies between a request and `pushReplyToTCPSeverClient` | `asks` |

`Receive` takes any number of messages at once and `TreatMessage` treats them
one by one; the stop flag is looked at after the last one only, so that the
thread of a session that was closed by a rejected Logon goes on with what the
same `recv` brought, on a descriptor that may be another connection's by then.

`stop` is two steps (`LookupSession` with `::shutdown`, `CloseFd` with
`::close`) and a third, `FlagSession`, for `onDisconnect`, which notifies
`ClientDisconnection` and so comes back to `closeTCPServerSession`.  A thread
in `recv` on a descriptor that is closed may or may not be woken, the reading
threads of one descriptor share the bytes of its owner, and a thread added to a
pool that was shut down may end, run or never be told to stop (`loop`):
the pool is not in the repository, and the model has all three.

What the properties say is weaker than one would like, because the code is:
the session listed under a descriptor is the first one ever, so that later
ones are closed through it and are not told.  `strays`, `foreign`, `pressed`,
`missed` and `robbed` are history variables; `strays` stops counting at two.
`pressed` are the connections accepted on a descriptor that a reading thread
was closing already, or about to close: it had messages of a rejected peer to
treat (`AboutToClose`).

### LinearAllocator, Decoder and MarketData

The allocator is modelled in full, with the address that is one past the offset
and the padding that is kept for a new block; what was handed out is history.
The Decoder's bytes come in units of which every message is a whole number; a
unit names its message.  `Frame` reads past the end of `array_one` as `memcpy`
does (`Junk`), although the message goes on at the start of the array.  The
stream of the engine (`InStream`) is its messages one after another, with
`Ends` where each one ends; `PushAll` is `push_back` for what a `recv` brought.
A `recv` brings at most 64 KB and `mBuffer` has 64 MB; `MarketDataAssumption`
asks only that a `recv` fits beside a message of which one unit is missing, so
that the circular buffer never overwrites what was not read.

| Code | Model |
|---|---|
| `mBuffer` | `buffer` |
| position of the reading thread in `poll` | `reading`, `frame` |
| `mEncoderAllocator` | `arena` |
| `mMainRing`: contents, first, last, size | `ring`, `first`, `last`, `size` |
| the pool's mutex, and the size that `push_back` will store | `pushing` |
| position in `ASYNC_UDP_Broadcast::Run` | `broadcaster`, `popping` |
| packets | `wire`, `shown` |

`push` and the broadcasting thread hold two different mutexes.  So `push_back`
and `pop_front` are two steps each, between which the other thread may update
`size` too, and the notification may come between the test of `halt` and the
wait.  An update that is lost can lose a message, which is why `OnceInOrder`
speaks of executions where the two did not overlap (`raced`).  A heart beat is
one object that is pushed again and again, so that the ring may hold it twice.

## 3. Runs

Each run finishes in about two and a half minutes or less.

| Run | Shows |
|---|---|
| `ladder` | `EndsExist`, `AsksStayInReach`: the recorded ends are levels that exist (except bids whose `mMaxIndex` wrapped), and an ask between the ends stays between them until it is the lowest and exhausted |
| `ladder_min` (violation) | `mMinIndex` is not "The min index holding some value": two asks, the second one tick lower |
| `ladder_max` (violation) | `mMaxIndex` is not "The max index holding some value": three bids in one word, the highest exhausted |
| `ladder_empty` (violation) | bids without a level are not `empty()`: `mMaxIndex--` at offset 0 |
| `matching` | `IInv` (the inductive invariant), `SharesConserved`, `LiveOrdersQueued`, `ExecsReportFills`, `ImplementsExchange`; with prices 0 and 2^64-1 (15) also `NullLevelOnlyOffBook` and `HandlerReturns` |
| `sequencer` | `EachOnceInOrder`, `BoundedBypass` with sessions that leave and come again |
| `sequencer_live` | `AcceptedAreHandled`, `SpinEnds` with more sessions than the map admits |
| `sequencer_unsubscribe` (violation) | the deleted queue is used: "Client subscription removed" is not what happened |
| `order_flow` | `SharedIdsOnlyTogether`, `DownOnlyByStrayCancel`, `ImplementsClearance` |
| `order_live` | `OrdersAreAnswered`, `WaitingOrdersAreShown` with a session that the Sequencer refuses and one that ends |
| `sessions` | `AtMostOneStray`, `ForeignReadersWereClosed`, `LeaksOnlyBeforeInsert`, `InnocentCutOnlyIfPressed` |
| `market_data` | `FramesAreMessages`, `FramesLieApart`, `OnceInOrder`, `RingIsEmptied` |

Bounds, and why they are enough:

- Ladder: six ticks in words of three bits and prices 0 to 7.  Both ends of a
  word, two words, a gap, and prices on both sides of the book occur.
  `Wrap` = 16 keeps 2^64 - 1 far from any index.
- `matching`: two adjoining levels at the start of a book of four ticks, one
  price below the book (0) and the largest `uint64_t` (15), one or two shares,
  four orders (`MaxOrders`), one ORDERID.  Four orders are enough for a queue of
  two, a level given up and used again, a partial fill and a cancel in one run;
  a single ORDERID makes every order a duplicate of the others; the level at
  offset 0 is where `mMaxIndex--` wraps, and the two outer prices are the ones
  that `llimit` can pass without a level.  `Narrow` = 8 in the place of 2^32
  takes 15 to a level that is off the book.  Levels in several words, and more
  of them, are left to `ladder` and to the proofs, which are for every book;
  so is a price that is narrowed to a level of the book (theorem
  `EngineInvariant`), since `ImplementsExchange` is not kept then.
- `sequencer`: two sessions, queues of two, six pushes each: enough to exceed
  the bound of `BoundedBypass` (5 messages of the other session) if a turn
  were longer than it is, and the bound is reached.
- `sequencer_live`: three sessions for a map of two, queues of one place, two
  pushes each.
- `order_flow`: two connections of one broker, made while their messages are
  read; scripts of two orders that pair the kinds (retail and retail under one
  ORDERID, retail and direct, unknown broker and algorithmic, one CLIENTORDERID
  twice, unknown instrument, an order sent over the other session than its
  view's), at most one cancel of an order, as its script says, and two
  approvals of an ORDERID (`MaxApprovals`).  Two orders are what it takes to
  share an ORDERID, two approvals to deliver twice; one connection may end and
  the broker has the other.
- `order_live`: besides these connections one of an unregistered user, three
  sessions for a Sequencer that takes two; one order, of a kind that is
  accepted, refused or waits for the broker, and no cancels or approvals, which
  the two properties do not speak of.  Which session is refused, and who logs
  on first, is open.
- `sessions`: three connections of one descriptor; nothing in the model relates
  two descriptors, except that accept takes the lowest free one, so that one
  shows what can happen.  The first connection leaves, the second is rejected
  and sends its Logon twice, which one `recv` may bring together, the third
  does nothing wrong: with two, nobody would be there to be hit by
  what the first and the second leave behind.
- `market_data`: three messages of 3, 2 and 3 units in a buffer of 6, so that
  the third wraps around; pieces of up to 3 units; a ring of 2 places, which
  the timers fill; blocks of 16 units with Alignment 4, so that frames need
  padding and a second block.

Deadlock is not checked where a bound (`MaxOrders`, `MaxPushes`, a script), a
dereferenced null pointer, the end of all threads or a shutdown ends the run.

Fairness.  `matching` assumes weak fairness of the steps of a handler: it
runs on the consumer thread and waits for nothing.  `sequencer_live` assumes
weak fairness of the consumer, of the accepting thread once it subscribes and
of a thread that spins in `push`.  All three are running threads; for the
mutexes weak fairness suffices because each holder releases it in a bounded
number of steps.  `order_live` assumes weak fairness of the consumer and the
reading threads of the servers, of each session's queue (a turn comes back:
`AcceptedAreHandled` of module Sequencer) and of the client's reading thread,
but not of the accept thread: the properties speak of sessions that were made;
`market_data` of the reading and the broadcasting thread, of a thread that holds
the mutex, of who waits for it, and of the timers, whose delay ends.  Nothing
assumes that a client sends, connects, approves or leaves.

`BoundedBypass` has the bound the code gives, not the one the ratio suggests:
`CanPoll` grants Ratio + 1 polls, a subscription that resets `mLookupIndex`
leaves counters spent so that a client can miss its next turn, and the reset
between `CanPoll` and `poll` lets one poll through uncounted.  With one less the
run fails.

## 4. Proofs

TLAPS checks these for every value of the constants that satisfies the named
assumptions:

- `LadderAssumption`, `PricesAssumption`, `EngineAssumption`,
  `SequencerAssumption`: types, `1 <= LOW < HIGH` from the code's static
  assertions, and that an index fits a `uint32_t` and the offsets a `uint64_t`.
- `FlowAssumption`: finitely many sessions, each with a user; brokers are
  registered and can be named; scripts are at most `MaxOrders` long.
- `SessionsAssumption`: there is a descriptor, every connection has a script of
  orders and logons, and who leaves or is rejected is a connection.
- `DecoderAssumption`, `MarketDataAssumption`, `ArenaAssumption`: sizes are
  positive, `Base` and `Header` are naturals, and a `recv` fits the buffer (see
  above).

Every invariant and action property of the passing runs, and both refinements,
is stated by a theorem (`ImplementsExchange` under a condition, see below).

- `DepthLists_proofs`: `EndsAlwaysExist`.  `PriceLadder_proofs` has one lemma
  per ladder operation: what `Add`, `NextFull` and `PreviousFull` do to
  `EndsHeld`, which levels they keep and what index they return.  The bids need
  the disjunct `Stuck`: after `mMaxIndex--` wrapped, the ends are 0 and
  2^64 - 1 for good.
- `MatchingEngine_proofs`: `EngineInvariant`.  The properties are not inductive
  by themselves.  `NullLevelOnlyOffBook` needs that `Match` stands on the
  recorded best level or on what `next`/`previous` return at the end
  (`AtBestOrBeyond`) and that this level exists (`EndsExist`).
  `LiveOrdersQueued` needs that a level given up is empty, that a level that is
  not held queues nothing (`EmptyOffLadder`, otherwise starting a new Limit
  would drop orders), and that queues hold resting orders of their level
  (`QueuesInOrder`).  `SharesConserved` needs that the head of a queue is not
  the incoming order, again `QueuesInOrder`.  From it follow `SharesNeverLost`,
  `NoLiveOrderLost`, `NullLevelNeedsOffBookPrice` and `ReportsAreFills`: a fill
  is reported, once for each of the two orders, and only fills are.
- `EngineKeepsPromise`: the engine implements `Exchange`.  `ExecuteHead` is a
  `Trade` (price limits from the loop condition, time priority from
  `QueuesInOrder` and `LiveOrdersQueued`), or a stutter when `Head` was
  cancelled; `Cancel` is a `Withdraw`; the other steps stutter.  It assumes
  `BookedAsPriced`: no PRICE is narrowed to the level of another.  Without that
  the code does not keep the promise: a sell order at 2^32 + 5 is queued at 5
  and sold there.
- `Sequencer_proofs`: `SequencerInvariant`, `SequencerTyped`, `StreamsKept`.
  `EachOnceInOrder` is strengthened with: the client that is being subscribed
  is not yet in the map (so its queue is not replaced), the consumer holds a
  message exactly between `poll` and `onMessage`, and a spinning thread holds
  the message after the last accepted one.
- `NobodyStarves`: `BoundedBypass`.  The invariant is a potential: for a client
  c, `Coming(c)` counts the polls of others that can still come before the next
  poll of c.  It adds what is left of the turn that goes on (`LeftOfTurn`), a
  whole turn of Ratio + 1 for each client between `mLookupIndex` and c
  (`Before`), and a round more when the counter of c is spent and its next turn
  will be missed (`Missed`).  `TurnsComing` says that the messages that passed
  c, and those of `Coming(c)`, are within the bound; `Unwaited` that nobody is
  bypassed whose queue is empty.  Every `poll` of another moves one from
  `Coming` to `bypass`.  A reset of `mLookupIndex` may raise `Coming`, but
  `bypass` counts from the last subscription on and `Coming` alone is always
  within the bound (`ComingBounded`).

- `DepthLists_proofs` besides: `LaddersTyped` and `AsksKeptInReach`, from the
  lemmas on `NextFull` and `BitAbove`.  The latter says nothing of asks that
  `add` left outside the ends, which `ladder_min` is about.
- `OrderFlow_proofs`: `SharedIds`.  The invariant adds that an ORDERID is at
  most the counter, that all orders between the two steps are pairs of
  `together`, and that an order whose number is the counter is paired with
  every one that is being numbered.
- The other theorems of `OrderFlow_proofs` rest on one invariant in three
  layers.  All speak of how often a message is in the links together (`Count`
  of module Counting): a step that takes a message from one link and puts it
  into another is then an addition and a subtraction, and no induction over the
  links is needed.
  - `Flow`: types (`FlowOK`); the counter is the number of orders that were numbered
    (`Numbering`); and an order is at one place on its way to `accepted`
    (`OrdersPlaced`: link, reading thread, queue).  From it, and from the types
    of the accept thread's variables (`SessionsOK`), `TypesKept`.
  - `Cleared`: a direct order goes on once (`DirectOnce`); a retail order that
    went on still holds its ORDERID in `mOrderList` (`RetailPending`); the
    times it went on and the approvals on their way are at most the approvals
    given (`ApprovalsUsed`); routes lead to the user they are filed under and
    requests to a user the order names (`RoutesRight`, `RequestsRight`).  From
    it `ImplementsPromise`: `OrderFlow` implements `Clearance`, one lemma per
    action, a step of the abstract one or a stutter.
  - `Cancelled`: a row shows the ORDERID of an accepted order, unless some
    order has an unknown instrument (`Answered`); the cancels on their way are at most those made; and an order that is alone under its
    ids, sent straight to the engine and cancelled once from an answered row,
    is ahead of its cancel in every link and queue.  From it `StrayCancels`:
    `DownOnlyByStrayCancel`.
- `Sessions_proofs`, from `SessionsAssumption`.  `NoLeakOnceInserted` rests on
  `IInv`: a session that was told to stop has its descriptor only while its
  reading thread is about to close it, or has missed it.  `CloseInv` adds that
  a session is told before it is closed (`ToldBeforeClosing`), that a
  connection whose descriptor was given up was told, rejected or robbed
  (`ClosedAreTold`), and that a closing thread works on a descriptor of those
  (`ClosesCuttable`); from it follow `OnlyUnawareReadForeign` and
  `InnocentKept` (`InnocentCutOnlyIfPressed`).  `StrayInv` adds that the connections of a descriptor come in
  turn (`InTurn`: the owner is the last, the listed session the first), that a
  request carries its asker's descriptor, that the ring of a session in
  possession of its descriptor holds its own messages only (`RingsOwn`), and
  that a sending thread that sent a stray message meets its stop flag next
  (`OneStray`): `StraysAreBounded`.
  `SessionsTyped` collects the types, the rings' (`RingsTyped`) and the
  remaining ones (`RestTyped`).
- `MarketData_proofs`, for every stream of messages, every size of buffer, ring
  and block:
  - `AllocationsApart` and `AllocationsInside` for the allocator alone, from an
    invariant that keeps all of a block's allocations below the offset
    (`Sound`).
  - `FeedInv`: the circular buffer holds the units of the stream from the end
    of the last message that was cut off to what was received (`Holds`: each
    unit at its place modulo the capacity), a `recv` comes only when the next
    message is not complete, and the frame that was read is the one of the next
    message (`FrameOf`).  It needs lemmas on remainders, and that `Ends` and
    `PushAll` are what their recursions say, by a least counterexample
    (`UpTo`) in the place of the library's induction.  From it `MessagesAreFramed` (`FramesAreMessages`) and `FramesStayApart`
    (`FramesLieApart`).
  - `RingInv`: types of the ring, and that a size is only stored over an item
    that is there.  With `FeedInv` it gives `FeedTyped`.
  - `OnceInv`: while the two threads have not overlapped (`~raced`), one of
    them at most is at the ring, `last` is where `first` and the size say
    (`Kept`), and all that is on its way from `push` to the client (`Path`:
    shown, packets, the item being popped, the ring) is the messages pushed
    without those overwritten or lost, in order and once (`Whole`).  From it
    `ShownOnceInOrder` (`OnceInOrder`).

Only model-checked: the liveness properties (`HandlerReturns`,
`AcceptedAreHandled`, `SpinEnds`, `OrdersAreAnswered`, `WaitingOrdersAreShown`,
`RingIsEmptied`), since fairness is about ENABLED, which the prover cannot
reason about, and the four runs that end in a violation.

## 5. Findings

Each is a run that fails: `ladder_min`, `ladder_max`, `ladder_empty`,
`sequencer_unsubscribe`; `PROJECT.json` quotes the comments they contradict.

What follows from `ladder_min`: an ask that `add` left outside the ends is lost
when `next()` gives up the last one between them, as it does not look at the
bitmap then.

Met on the way, without a text of the repository that says otherwise: an order
above HIGH is published and queued nowhere (the false of `add` is ignored); a
price narrowed to 32 bits; a cancel of an unknown ORDERID dereferences null; a
sell order of price 0 or a buy order of price 2^64 - 1 can reach a null level;
two approvals deliver an order twice; requests for approval go to the first
session a broker logged on with; a session that disconnects before it was
inserted leaves its descriptor open; a reply to its first messages may be
dropped; a session that the Sequencer refuses is served all the same and its
orders vanish; a second Logon of a rejected peer in the same `recv` may close
the connection that came after it; a late reply may reach the next connection
of a descriptor; a message that wraps around the Decoder's buffer is damaged; a
broadcast message may be lost when push and the broadcasting thread update the
ring at once.

## 6. Plan

Done: 1. `PriceLadder`, `DepthLists`; 2. `MatchingEngine`, `Exchange`;
3. `Sequencer`; 4. `OrderFlow` with `Clearance` and the order ids;
5. `Sessions`; 6. `LinearAllocator`; 7. `Decoder`, `MarketData`; and a theorem
for every safety property of these.

What could come next:

8. The shutdown of a server: `closeAllSession` on the main thread beside the
   accept and reading threads of `Sessions`.
9. `send` that takes a part of a message, composed with `Decoder`.
10. The connecting side: `TCPClient` and `TCPClientSession`, which reconnect.
11. Proofs: what the liveness properties rest on step by step (which action
    brings a waiting order nearer, and that no other takes it back), as action
    properties; lemmas of `OrderFlow_proofs` that could be stated once for all
    links.

## 7. Not modelled

- Server shutdown, partial sends, and clients that reconnect: items 8 to 10.
  With them the Disconnect button of the Broker and views opened again.
- What a data race does to a `std::map` or to the vector of callbacks beyond a
  lookup that finds or misses.  (The `mQueues[...]` that follows `find` in
  `Sequencer::push` is taken to find what `find` found.)
- A race on the allocator's plain members: its outcomes are not bounded by the
  code.
- `onClientDisconnection` and `onBrokerDisconnection`: nobody sends them.
- The thread pool and the timers: they come from a library that is not in the
  repository; the modules state how they use it.
- Executions on their way back: the Dispatcher has no handler for them.
- The splitting of algorithmic orders is commented out in the code; the
  persistence server is a stub.
- Widgets and windows of the Broker, market views, configuration files, the
  command line, signals, start-up wiring and logging: they hold no state that a
  property of the exchange would be about.
- `rapidcsv.h` and `ini.h` are third-party code; the benchmarks and tests drive
  the library.

The last three items are most of the lines of the repository.  The modules
cover the part that decides what happens to an order, a session or a message.
