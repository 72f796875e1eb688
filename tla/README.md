# Tyano Core in TLA+

Tyano Core is a game server in C++ (`src/sources/`).  This directory holds TLA+
models of its threads, its network sessions and the parts of its game in which
many steps must fit together, the TLC configurations that check them, and proofs
that TLAPS checks.

## 1. The system

### Threads

| thread | runs | state it owns |
| --- | --- | --- |
| main (`otserv.cpp`, `server.cpp`) | loading, then `boost::asio::io_service::run()` with every network handler, and the signal handlers; at the end joins the two others | the services |
| dispatcher (`dispatcher.cpp`) | one task after the other; after each the collected output messages are sent and the game cleans up | the whole game: world, creatures, items |
| scheduler (`scheduler.cpp`) | waits for the times of its tasks and hands each due task to the dispatcher | the armed tasks |

The network thread and the scheduler hand work to the dispatcher with
`Dispatcher::addTask`; tasks arm new tasks with `Scheduler::addTask` and call
them off with `cancelTask`.  Connections and output messages are the only
objects that the network thread and the dispatcher both change.  Inside the
dispatcher nothing runs in parallel, but calls nest: a handler moves a thing, the
thing's cylinders notify the players who see it, a script runs at the
notification and moves or removes other things, and the handler goes on with what
it read before.

### Components

State and operations, the hard part, and what makes the component correct.
Section 8 lists what has no module.

| component | state and operations | hard behaviour | correct when | module |
| --- | --- | --- | --- | --- |
| Dispatcher | `_tasks`, `_state`, `_thread`; `addTask`, `start`, `stop`, `waitUntilStopped`, the thread | a loop condition read without the lock; a notification only when the deque was empty; a task that waits for the dispatcher that executes it | no task lost, duplicated or reordered; no sleep over work; a stop is complete | `Dispatcher`, promise `Executor` |
| Scheduler | `_tasks` (by time), `_pendingTaskIds`, `_lastUsedTaskId`; `addTask`, `cancelTask`, `start`, `stop`, `waitUntilStopped`, the thread | cancellation by id while the thread hands the task over; ids that wrap; a notification decided by comparing ids | a cancel that succeeded is final, nothing fires early or twice, the thread never oversleeps | `Scheduler`, promise `Timer` |
| Server start and shutdown | `Game::gameState`, the map, the services; signals, `Server::run`, `Server::destroy`, `Game::setGameState`, `Game::shutdown`, the end of `main()` | three threads that stop and join each other; signals at any time | saved before cleared, no assertion fails, the process ends | `ServerShutdown` over `Dispatcher` and `Scheduler` |
| Connections, protocols, output messages | connection state, pending counts, timers, `m_refCount`, the lists of messages; reads, writes, errors, timeouts, `close`, `send`, `sendAll` | two threads; retries until the counts are 0; timers that no longer heed `cancel()`; a connection closed twice | no deleted object is used, every message is encrypted once and at the right time, closing ends | `Connection` |
| Login, sessions, waiting list | `Player::client`, `isConnecting`, `ProtocolGame::player`, `m_eventConnect`, `WaitingList::waitList`; login, takeover, logout, kick, death, release | a takeover that runs a second later; places given to those who come back; a client that outlives its player | one client commands a character, places are given in turn and within the limit, an abandoned character leaves | `Sessions` |
| Creatures | `_thinkDuration`, `_thinkTaskId`, masters and summons; entering and leaving the world, `startThinking`, `stopThinking`, `think`, `setMaster`, `killSummons`, death | think tasks that outlive `stopThinking`; handlers that call each other while creatures leave; deaths that a script denies | one think task for each thinker; no summon of a master that is gone; players never fall asleep | `Creatures` |
| Conditions | `Creature::conditions`, `varSpeed`, `varStats`, `pzLocked`, the conditions in the database; add, merge, end, dispel, equip, die, log out and in | two clocks for each condition; a condition that is over but attached; deltas that are applied and taken back | sums equal what is in force, spectators see what is true, a lock fades | `Conditions` |
| Cylinders | where every item is, cached weights, container windows; queries and changes of players, containers and tiles, moves, payments, transformations | scripts inside a move; exchanges, splits and merges that fail halfway; pointers to containers that move | everything is in one place, nothing is lost or doubled, weights are right, windows show what is in reach | `Cylinders` |
| Trade | `tradeState`, `tradePartner`, `tradeItem`, `Game::tradeItems`; request, accept, close, and every change of the things offered | two tests, two scripts and two moves between acceptance and exchange; offers are raw pointers | both sides agree, an offer stays what was seen, the exchange is whole or not at all | `Trade` over `Cylinders` |
| Parties and their channel | leader, members, invitations, `m_partyChannels`; invite, join, pass, leave, disband, log out | a party deletes itself inside calls of its own; its address is used again | pointers agree on both sides, listeners are in the world | `Party` |
| Item release | `Item::_releaseInfo`; `release`, `retain`, `copy`, `testReleaseExpiration` | an expiry task that can no longer be cancelled; countdowns that are continued | an item on a tile has its task, a held item is never taken | `ItemRelease` |
| Spawns and raids | `spawnedMap`, `checkSpawnEvent`, `refCount`, `nextEvent`, `Raids::running`; checks, deaths, events, references | many ways to lose a monster; a raid that ends by whichever of three comes last | the books agree with the world, slots are filled again, raids end | `Population` |

## 2. The modules

Each module has one set of variables, an `Init`, one action per operation and a
comment that says what is left out.  In the modules of the game a *call* is an
operator from the state it finds to the state it leaves (`s`, `w` or `p` is
always the state), so that a handler reads like the sequence of calls it is and
an action is a whole handler, everything it calls included.

`Dispatcher`.  The variables are the fields of the class, plus `pc`, the
position of the thread, and the history `status` of each task.  Each section
under `_mutex` is one action; `CheckState` is the read of `_state` without it.
`BatchTake`, `BatchFinish` and `BatchEnd` are the loop of `runTasks`, used by the
drain and by a task that calls `waitUntilStopped` (`WaitInTask`).
`Executor` says what callers may rely on: a queue that is executed in order,
urgent tasks first, and a nesting of at most two tasks.

`Scheduler`.  Sections under `_mutex` are actions here too.  `cancelTask` removes
the id and leaves the task in the heap, as in the code; `Hand` is the call of
`Dispatcher::addTask` outside the lock.  `MaxTaskId` is the largest id, after
which ids start again at 1.  `Timer` is the promise: armed, disarmed, expired,
each task at most once, not early, not after a cancel and in the order of time.

`ServerShutdown` instantiates both and adds `main()`, the signals, and the steps
of the tasks that shut the server down.  Assertions of the two classes on their
callers, guards in their own modules, abort here.

`Connection` is one client: `conn` the connection with its socket, timers and
pending operations, `proto` the protocol object, the two lists of the pool
(`autoSend`, `addQueue`) and, for each message, whether it is out (`used`), how
often it was encrypted (`sealed`) and whether it is over ten seconds old.
`Network` has the handlers of the network thread, `Game` the steps of the
dispatcher.  A message is `Held` while a shared pointer to it exists; afterwards a
task takes it back and lowers the counts that the releases wait for.

`Sessions` starts where `Connection` ends: a client opens, is lost, is closed by a
task, and its protocol is released by that task or, while something refers to it,
by retries.  `queue` holds the dispatcher's tasks about clients in the order they
were posted; `Second` is the timer of a takeover.  `cast` (which client may play
whom) bounds the behaviours.

`Creatures` has one record for each creature.  `ExitWorld` calls `WillExitWorld`,
which calls `SetMaster`, `StopThinking` and `KillSummons`, and so on.  What a
creature sees, fights or suffers is abstracted to the set `keen` of those that
have something to think about; the answers of scripts to a death to `deny`.

`Conditions` is one player with haste, paralysis, attributes, invisibility, a
fight and a worn ring.  `left` is `endTime` relative to the clock and `ticks` what
`onThink` counts down; `shown` is what spectators were last told; `stored` is the
database.  `Thought` runs each condition the way `executeConditions` does.  Its
operations, like those of `Population`, have names of their own, so that one module
of proofs can extend both and `Creatures`.

`Cylinders` is one record `world`: kind, count and parent of each item object,
what containers, tiles and inventories hold, the cached weights, and the windows.
`QueryAdd`, `FindPlace` and the other queries are those of the three
cylinder classes; `MoveItem`, `AddItem`, `RemoveItem`, `TransformItem` and
`RemoveMoney` are those of `Game`.  A script may remove an item inside a move.
`ledger` counts what was created and destroyed on purpose and is the only
variable the program does not have.

`Trade` extends `Cylinders`: every change of the world goes through `Becomes`,
which ends the trades that the change disturbs (`Player::checkTradeState` and its
callers).  `AcceptBoth` is the second acceptance, with the scripts in it.

`Party` has party objects at addresses; an address whose party was deleted may be
used again.  `Population` has one spawn, its slots and sites, and the raids.
`refs` is a raid's `refCount`; `lost`, which the program does not have, says how many
of them belonged to items that are gone without having given them back (`Lost`,
`Vanish`).
`ItemRelease` uses the scheduler and the dispatcher by their promises: an armed
task moves to a queue once it is due, where nothing cancels it any more.

The modules `...Proofs` hold the proofs, `CreaturesProofs` those of `Creatures`,
`Population` and `Conditions`, `ItemProofs` those of `ItemRelease`, `Cylinders` and
`Trade`; the modules `MC...` give constants their values.

## 3. The runs

| run | instance | states | shows |
| --- | --- | --- | --- |
| `dispatcher` | 4 tasks, 2 urgent, 1 expiring | 5,292 | state, thread and deques agree; nothing is lost, doubled or reordered; what was accepted is executed; `Executor` is implemented |
| `scheduler` | 3 tasks, times 0..1, ids that do not wrap | 330,959 | a pending id is one queued task; the thread never oversleeps; `Timer` is implemented; armed tasks fire |
| `shutdown_quit` | 2 SIGQUITs or a failing `io_service::run()`, 1 network task, 1 timed task | 104,068 | the shutdown aborts nowhere, lets earlier tasks see the map, and ends unless a thread sleeps over an empty queue |
| `item_release` | 2 items, delays 0 and 2, times 0..4, 3 tasks | 308,489 | an item on a tile has its task and expires, a held one stays, countdowns do not add up |
| `creatures` | 1 player, 2 monsters, thinking for 2 steps | 20,016 | one think task for each thinker, summons and masters agree, players stay awake, the dead stop |
| `connection` | 3 messages | 276,332 | no deleted object is used, messages are encrypted once, closing ends |
| `sessions` | 3 clients for 1 character, or 1 client for 3 characters, 2 places | 165,959 | one client commands a character; places are fair and bounded; the abandoned leave |
| `cylinders` | 5 items of 4 kinds, 1 player, 2 tiles, 1 window | 17,135 | well placed, conserved, weighed, in reach, paid for, not overloaded |
| `trade` | 3 items of 3 kinds, 2 players, 3 tiles | 48,139 | trades agree, offers stand, the exchange is whole unless a script destroys something in it |
| `party` | 3 players, 2 addresses | 120,646 | pointers and invitations agree; listeners are in the world |
| `conditions` | 2 sets of conditions, a ring, both accuracies | 50,962 | sums and spectators agree; haste and paralysis exclude each other; locks fade |
| `population` | 2 slots, 3 creatures or items, 2 raids of 2 events, 1 lost reference | 297,792 | the books agree; slots are filled again; a raid ends unless something of it is in the world or a reference is lost |

### Why the bounds are enough

* Tasks.  Four tasks are a task that waits, one executed inside it, one in the
  local deque and one in `_tasks`: the most places a task can be in at once.
  In the scheduler three give a top, a task behind it, and a task in the hand.
* Ids.  With as many ids as tasks none is reused, which is what `PendingIdsIdentify`
  needs.  A `TaskId` has 32 bits, so a server reuses an id only if it arms 2^32
  tasks while an older one is still in the queue; `ThreadNeverOversleeps` is
  proved for every largest id.
* Time.  Times only matter by their order against the clock and each other; two
  values (past and present) give every order of two times.  An item's countdown
  is compared with its delay, hence the longer horizon.  A condition needs one
  that is over between two thoughts and one that is not: `Lag` is 2.
* Creatures.  One player and two monsters give a master, its summon and the
  summon of the summon, a convinced monster whose old master is told, and a
  bystander.  `ThinkDuration` = 2 is one think with time left and one without.
* Messages.  Three are one being written, one put off and the protocol's buffer.
  `SlowLimit` is the code's 100.
* Sessions.  Three clients are the one who plays, one who takes over and one who
  takes over from him before the second is over.  Three characters, one premium,
  and two places give a full world, a queue, and a place in it that is passed.
* Items.  Two bags, which can get into each other; two kinds of money with a
  change between them; a two-handed sword; a stack of 2 that can overflow; a
  tile of 2 that can be full; a tile for trash.  `Supply` bounds what scripts
  create; a script creates only while an item object is spare (`Spare`), and makes
  no container out of what is none, and a stack is split only while there is an
  object for its other half: the program has as many objects as it has memory
  for.  A trade needs a container with something in it, another thing to
  exchange that fits into nothing but the container, two places that see each
  other and one that does not.
* Parties.  Three players give a leader, a member to pass on to and somebody
  invited; two addresses a party that lives beside one that is deleted and made
  again.
* Population.  `RateSpawn` = 1 with two slots lets one slot use up another's try.
  One raid waits for what it placed (BLOCK), an item and a monster, and one does not
  (SINGLE).  `MaxLost` = 1 reference may be lost: with one lost a raid waits for
  ever, a second changes nothing but the number.  At
  `MaxChecks` pending checks one more or one less makes no difference to the
  properties, and the model lets either happen.

### Fairness

The three threads are scheduled by the operating system (weak fairness of their
steps) and time passes.  A task returns even if it waits for the rest of the
queue any number of times first (strong fairness of `Finish`).  Nothing is
assumed of callers, signals, clients, players or spurious wakeups.  In
`Connection` a write is either finished by the client or ended by its 30-second
timer, a read need not end before its socket is closed.  In `Sessions` tasks run,
timers expire and a player whose client is lost is found silent, unless somebody
takes him over (a fight that forbids the logout is assumed to end, which
`LockFades` shows).  In `Conditions` time passes and the player thinks, which
`Creatures` shows; in `Population` checks and events run and intervals pass.
`Creatures`, `Cylinders`, `Trade` and `Party` have no fairness: their properties
are safety.

## 4. Mutants

Every module has faulty variants of some of its operations, each a slip the
code could contain (a missing reset, a test on the wrong state, a wrong order).
No specification uses them.  Each checked property is refuted by TLC once an
operation is replaced by the variant `PROJECT.json` names for it.

## 5. Seen while modelling

Configurations that TLC refutes, each a further instance of a module above:

* `ShutdownHang.cfg` (`QuitEnds`).  Both threads read `_state` before they lock
  and then wait without looking again, so that a stop can be missed
  (`scheduler.cpp:167-171`, `dispatcher.cpp:169-173`).  For the scheduler with an
  empty queue nothing ever ends that wait, and `Game::shutdown` with it.
  `documentation/signals.md:9`: "`QUIT` shuts down the server after saving it."
  `EndsUnlessAsleep` shows that this is the only obstacle.
* `ShutdownTerm.cfg` (`NeverAborts`).  On SIGTERM `Game::shutdown`
  (`game.cpp:5822`) waits for threads nobody has stopped, an assertion of
  `waitUntilStopped` (`scheduler.cpp:213`).  `documentation/signals.md:10`:
  "`TERM` shuts down the server without saving it."
* `ShutdownEarlyServe.cfg` (`NoServiceOnClearedWorld`).  A SIGQUIT before the
  services run leaves them running on a cleared game (`service.cpp:223`).
* `ShutdownRace.cfg` (`NeverAborts`).  When `io_service::run()` throws after a
  signal, `main()` reads `getState()` and calls `stop()` in two critical sections
  (`otserv.cpp:241`); a task stops the thread in between.
* `ItemEarly.cfg` (`ExpiryIsDue`).  An expiry task that is already in the
  dispatcher's queue survives its cancellation and fails
  `assert(_releaseInfo->isExpired())` (`item.cpp:254`; the cancel is at 348).
* `PartyChat.cfg` (`CompanionsListen`).  `Party::leave` sets the player's party to
  null before `sendClosePrivate`, which then finds no channel: who leaves keeps
  listening.

Read off the code, and left out of the models or let through by them as
described:

* Threads.  A SIGQUIT before `Server::run` makes `Scheduler::stop` assert
  (`scheduler.cpp:159`).  `OutputMessage::m_refCount` is a plain integer changed
  by two threads (`outputmessage.cpp:156`).  `m_pendingWrite` never exceeds 1, so
  that `forceSlowConnectionsToDisconnect` (`documentation/fixme/CONFIG_HELP:372`)
  has no effect.
* Items.  The copy of a released item whose time is over fails the assertion at
  `item.cpp:287`.  `Game::proceduralRefresh` tests its iterator the wrong way
  round (`game.cpp:311`).
* Creatures.  Two monsters that a script lets convince each other make
  `getFinalOwner` endless (`creature.cpp:191`).  The limit per kind of summon
  counts the summons that are not alive (`monster.cpp:1134`), the success of
  `placeSummon` is tested the wrong way round (`monster.cpp:1148`).  A script that
  refuses `addCreature` after a tile was found fails the assertion at
  `world.cpp:93`.
* Walking (not modelled).  A use, move or trade of a thing that is too far away
  posts `playerAutoWalk` and stores the action with `setNextWalkActionTask`; if
  the player was walking already, `startRouting` first stops that walk, whose
  `onRoutingStopped(true)` drops the stored action (`creature.cpp:723`,
  `player.cpp:122`).
* Cylinders.  On a tile without ground `__getIndexOfThing` and `__getThing` count
  differently.  `Container::clone()` keeps `totalWeight` 0.  `removeItemOfType`
  does not end on the right kind with the wrong subtype.  `transformItem` may put
  a two-handed thing beside another and overload its bearer (`NeverOverloaded`
  excepts it).  `addMoney` ignores a tile's refusal.
* Trade.  Accepting in TRADE_ACKNOWLEDGE without an own offer uses a null item
  (`game.cpp:2702`); a movement script that removes the other item fails the
  assertion at `game.cpp:1132`; both are `stopped` in `Trade`.  A script that denies
  the exchange leaves both sides accepted.  The first to offer may accept before
  there is a counter-offer.  An exchange may be half: the second `internalMoveItem`
  (`game.cpp:2689`) is not looked at, so that a script that destroys a bag during the
  first leaves the other thing where it was.  And a script that is asked for its
  consent and removes something out of an offer closes the trade, after which
  nothing keeps the one thing from being put into the other, and both go to the
  same player.  `ExchangeWhole` excepts the steps in which something is destroyed;
  without the exception TLC finds both.
* Parties.  A player who invites himself leaves a dangling pointer behind
  (`SelfInvites = TRUE` refutes `InvitesAgree`).  `removeUserFromAllChannels`
  erases the map entry its loop stands on (`chat.cpp`, around 493).
* Conditions.  `setTicks(-1)` leaves the old `endTime`.  Conditions skipped at a
  login are not freed.  A haste that is over but attached survives a paralysis,
  unless `oldConditionAccuracy` is set, and may be prolonged
  (`HasteOrParalysed` is limited to it).  `skillPercent` of a worn item may differ
  between putting on and taking off (`movement.cpp:1037-1046`, `1120-1136`).
* Sessions.  `m_eventConnect` belongs to the protocol, so that two takeovers may be
  pending for one player.  `connect()` does not set `lastPong`.  A client that is
  kicked with its logout still queued logs the player out again once it is taken
  over.  Entries of the waiting list whose time is over keep a newcomer out for
  one login.
* Spawns and raids.  A spawn that fails inside `checkSpawn` arms a check through
  `removeFromSpawn` and a second one at the end; both renew themselves from then
  on.  A slot whose monster strayed may stay empty without a pending check.  With
  `rateSpawn` 1 a first slot that always fails starves the others (`Hindered` in
  `SlotsFill`).  A raid's monster that finds no room is destroyed with its raid
  set, an assertion (`monster.cpp:49`).  `Raids::reload` deletes raids that others
  point to (`raids.cpp:203`).  `startRaid` answers true although it does nothing
  while `refCount` is not 0.
* References of raid items.  An item gives its reference back in `Item::onRemoved`
  and in `doItemRaidUnref`, and nowhere else.  It is lost when the item is merged
  into a stack as it is placed, or only a part split off it is placed
  (`raids.cpp:648-658` counts it all the same, `game.cpp:1301-1317`), when it is moved
  as a stack, which makes a new object or none (`game.cpp:1217-1238`), when
  `transformItem` replaces it (`game.cpp:1758-1779`), and when it is destroyed with its
  container or with a player who logs out (`item.cpp:79-86`).  A BLOCK raid that has
  lost one stays `Raids::running`, so that no raid starts, until the raids are
  reloaded; a SINGLE one is over, but never starts again.  `RefsAgree` counts these
  references and `RaidsEnd` excepts them, for raids that place items: for one that
  places monsters only `refCount` is exact and it does end once they are gone.
  Conversely `onRemoved` is called for an item that stays where it is, when a part of a
  stack is removed or it is only asked whether it can be (`test`,
  `game.cpp:1336-1373`): the reference is given back although the item is still
  there, which the model counts as gone.

## 6. Proofs

All are safety proofs for every value of the constants, under the assumption the
component's module states about them.  `C!T` is theorem `T` of module `C`.

| theorem | statement |
| --- | --- |
| `DispatcherProofs!TypeCorrect` | `Spec => []TypeOK` |
| `DispatcherProofs!SafetyHolds` | `_state` and the thread agree, no sleep over tasks, nothing behind the drain |
| `DispatcherProofs!NoTaskLostOrDuplicated` | the queued tasks are the elements of the two deques, each once |
| `DispatcherProofs!DispatcherImplementsExecutor` | `Spec => ImplementsExecutor`, the refinement |
| `SchedulerProofs!TypeCorrect` | types, for every largest id, wrapping included |
| `SchedulerProofs!ThreadNeverOversleeps` | nothing is due before the thread wakes, although it is notified by a comparison of ids |
| `SchedulerProofs!IdsIdentify` | a pending id is one queued task, if `IdsSuffice` |
| `SchedulerProofs!SchedulerImplementsTimer` | `Spec => ImplementsTimer`, the refinement, if `IdsSuffice` |
| `ServerShutdownProofs!ServerRunsDispatcher`, `ServerRunsScheduler` | the server's specification implies those of its two parts |
| `ServerShutdownProofs!NoTaskLostInServer`, `NeverOversleepsInServer` | what was proved of the parts, in the server |
| `ServerShutdownProofs!OrderlyServerNeverAborts` | no assertion of `stop` or `waitUntilStopped` fails, if `Orderly` |
| `ServerShutdownProofs!EarlierTasksAreExecuted` | what was accepted before the shutdown is done when the map is deleted, if `Orderly` |
| `ItemProofs!TileItemsAreCounted` | an item on a tile has its task and counts down by no more than its delay |
| `ItemProofs!ExpirySparesHeldItems` | the action property `ExpiryOnlyOnTiles` |
| `ItemProofs!ThingsStayFine` | `CylindersSpec => []Fine(world)`, the inductive invariant of the things |
| `ItemProofs!ThingsWellPlaced` | `WellPlaced`: everything is in one place, nothing in itself, nothing overflows |
| `ItemProofs!WindowsStayInReach` | `WindowsInReach`: a window shows a container its player wears or stands beside |
| `ItemProofs!TradersInvariant`, `TradersAlwaysAgree` | `TradersAgree`: both sides of a trade know each other, nothing is offered twice |
| `ItemProofs!TradeInvariant`, `TradesAgree` | `TradeAgrees`: and what is offered is where its owner is, in no other offer |
| `ItemProofs!OffersStand` | the action property `OfferStands`: what is offered stays as it was seen |
| `ConnectionProofs!HandlersMeetLiveObjects` | no handler uses an object that is gone |
| `ConnectionProofs!EverythingIsAccounted` | counts, buffers and closings agree with what is under way |
| `ConnectionProofs!EncryptedOnce` | what is written was encrypted once, what waits not at all |
| `SessionsProofs!ClientsAndPlayersAgree` | one client commands a character, and those that are expected exist |
| `SessionsProofs!WorldIsNeverOverfull` | `[]NeverOverfull`, a part of the run's `WaitingIsFair` |
| `PartyProofs!SocietyAlwaysAgrees` | both sides of membership, leadership and invitation agree, if `~SelfInvites` |
| `PartyProofs!ListenersAreInWorld` | who listens in a party's channel is in the world, if `~SelfInvites` |
| `CreaturesProofs!OneTaskPerThinker` | one think task that will come for each living creature that thinks; players think; who left keeps none armed |
| `CreaturesProofs!SummonsAreServed` | a living summon and its master know each other and are both in the world |
| `CreaturesProofs!SpawnsAndRaidsAgree` | the books of the spawn are those of the world, and those of the raids, too, except for references that items have lost (`PopulationAgrees`) |
| `CreaturesProofs!ConditionsAlwaysAgree` | sums, spectators, lock and clocks are what the conditions in force account for |
| `CreaturesProofs!HasteEndsParalysis` | never hasted and paralysed at once, with `oldAccuracy` |

### Assumptions and hypotheses

* The `ASSUME` of a module says that its constants are of the kind the code has:
  that "none" is no object, that limits and horizons are natural numbers, that the
  sets whose elements are counted or walked through (messages, character names,
  creatures, slots, the conditions that may be given) are finite.  `Population` has
  at least as many monsters as slots: with fewer, a slot would stay empty for the
  want of an object, which is no state of the program.
* `Cylinders` assumes that players, tiles and items are different objects, that no
  stackable kind is a container (a condition on the item data), that no coin is
  worth nothing and that coins are listed from the dearest down (`Coins`; the code
  walks a map ordered by worth backwards), and that the start is a world as the loaders leave
  it: well placed, with no window on what is out of reach.  `Trade` assumes that
  whoever sees a place is seen from there and that nobody trades at the start.
  Neither assumes anything about how many players, places, slots, windows or kinds
  there are; objects are finitely many, which is what makes a chain of
  parents end.
  `SlowLimit` and `MaxPlayers` are positive (100 in the code; with no place at all only
  those who may always log in would enter).  The tasks of `ServerShutdown` differ in
  kind.
* `IdsSuffice`: there are as many ids as tasks ever armed.  The code has 2^32 - 1
  ids and takes them in turn; a second use of an id while the first is
  queued needs that many tasks armed in between.  Without the hypothesis the two
  statements are false, with a `MaxTaskId` of 1 for two tasks; `TypeCorrect` and
  `ThreadNeverOversleeps` do without it.
* `Orderly`: no SIGTERM, no signal before the services run, no failure of
  `io_service::run()` after a signal.  In each of the three cases an assertion does
  fail (`ShutdownTerm.cfg`, `ShutdownRace.cfg` and section 5), so that the
  hypothesis is what the code needs and not what the proof needs.  It leaves any
  number of SIGQUITs, a network failure before them, and all interleavings.
* `~SelfInvites`: a player does not invite himself.  The client does not offer it
  and `Party::inviteToParty` does not forbid it; if he does, a pointer is left
  behind (section 5), which is why `SelfInvites` is a constant.

### The arguments

Dispatcher.
`SafetyInv` is the conjunction of `LifeCycle`, `NoSleepOverTasks` and
`NothingBehindTheDrain`.  None is inductive alone: that the deque is empty
behind the drain needs that nothing is accepted while STOPPING, which needs
that the drain happens only then.  `AccountInv` strengthens `TasksAccounted` by what
a step needs to know about the task it moves: the local deque is empty outside a
batch, the two deques have no repetitions and no common element, and a task in
execution is in neither.  Lemmas say what appends, prepends, tails and
concatenations do to the elements.  In the refinement each section under the lock
that moves a task is a step of `Executor` and every other one a stutter; the
nesting of a task in a waiting task is the sequence of at most two that
`PairLemma` is about.

Scheduler.
`SleepInv` adds to `NeverOversleeps` that a task that was never added is not in
the heap.  A new task is compared with the top by id.  If it is earlier than
the top it becomes the top, the ids are equal and the thread is woken; if ids
have wrapped the comparison can only wake the thread once too often.  `IdInv` adds
to `PendingIdsIdentify` that no id is above the number of tasks used up so far, so
that the next id is new.  With it, a cancellation by id is a disarming of one
task, and `Timer` is implemented step by step.

Server.
A lemma for each of the two parts shows that every action of the server is one
of the part's or leaves it alone; the only thing to know is that the scheduler
hands over timed tasks (`SchedulerThread`).  The theorems about the parts
then hold in the server, and their invariants may be used for it.  `InOrder` says
who may stop a thread: before the first signal only `main()`, and it is past
`checkScheduler` only if the network failed; afterwards one SIGQUIT, the one
that entered SHUTDOWN, which has the dispatcher's thread from its save to its
last `stop()` (`Leads`) while `main()` waits in `io`; after it nobody, since both
threads are `Down`.  `ShutdownLast` says of the two deques that no earlier task is
behind the shutdown, neither in the deque the shutdown is in nor in the one that
is executed after it.

Item release.
Ids are never used twice, so that the task an item names is its own
(`Booked`, `Owns`), and a countdown that runs ends within its delay (`Sane`).
Whoever releases an item arms a task for the end of the countdown, and whoever
retains it forgets the task: an expiry task that survives its cancellation
in the dispatcher's queue finds an item that is not released.

Connection.
`Messages` relates the messages to the two objects (what is out is counted; what
waits is plain; the buffer is queued), `LinkInv` the fields of the two objects to
each other: while a connection is OPEN a read is under way and no error is known,
a pending write has its handler, a socket is deleted by the last release only.
Each operation of `connection.cpp` has a lemma on the types it keeps and one on
the fields it leaves alone; each handler of the two threads has one on the
invariant.

Sessions.
The order of the dispatcher's tasks matters.  A client's login is queued before the
task that closes it, and a takeover that is due was queued behind the close of the
client it replaces (`TaskInv`, `PlayerInv`, both with `Before`): otherwise the
closing task would find the player already commanded by the new client, or log
out for the wrong one.  `NeverOverfull` follows from `Online < MaxPlayers` at every
entrance: a place in the waiting list is given only while there is room for
everyone in front.

Party.
`Good(s, X)` holds of the society s in the middle of an operation, X being the
parties that are to be disbanded: outside X both sides agree (`Mutual`), a party
that lives has a leader and somebody else (`Sound`), and listeners are in the
world.  Each operation of `party.cpp` gets a lemma from `Good` to `Good`, and an
action composes them.  Disbanding tells every member and every invited player; the
code does it in a loop, and as what it does for one player touches nothing of
another, the module says what becomes of all of them at once.

Creatures.
A handler calls others in the middle of its work, so that the invariant cannot be
one of the states between actions.  `Good(s, b)` is one of the state s of all
creatures while b is thinking: who thinks has its task, who left has no timer, and b
has used its task up (`Tasks`); whoever is on a list serves its owner, and a living
summon is on its master's list (`Family`).  Each operation of `creature.cpp` and
`monster.cpp` gets a lemma from `Good` to `Good`, an action composes them; `Awake` (a
healthy player thinks) is separate, as it does not hold in the middle of a thought.
A death takes the summons along, and theirs: `DoomedLemma` says whom, by an
induction over the finite sets of creatures, and `DespawnLemma` what becomes of
them, one after the other.

Spawns and raids.
`PopInv` consists of `SpawnBooks` (whoever belongs to the spawn is listed once, and
an event that is armed is pending), `RaidBooks` (a raid's count is the number of those
that refer to it and of the references it has lost, of which one without items has
none, and a raid is `Driven` by a task, or by what it waits for), and
that a check is pending while fewer monsters are out than there are slots.  The
last is why a spawn's check renews itself although it gives up after `RateSpawn`
slots: the loops over the slots carry with them how many slots have been
tried (`Fed`).

Conditions.
`CondInv` says of the player that he is `Whole`: his speed and attributes are sums of
deltas over the finite set of keys (`SumChange` says what one condition more or less
does to a sum), spectators and lock agree with the conditions attached (`Fits`),
haste and paralysis exclude each other, and the clocks of a condition differ by no
more than the time since the last thought explains (`Clocks`).  `ClocksAgree` alone is
not inductive: it does not say how much of `Lag` is used up when time passes.

Loops and folds.
The prover has no induction over data, but an induction over the subsets of one
finite set can be stated with a set of subsets and derived from an induction over
numbers (`SubsetInduction`).  From it follow that a function defined by a loop exists
(`FoldExists`, `LoopExists`) and that what every round keeps the loop keeps.  So
`FoldSet` and the recursive functions of the three modules are proved about.

Cylinders.
`Fine(w)` is `InPlace(w)` and `InReach(w)`, and inductive as it stands, but a handler
goes through worlds in which it is false: an item that is being moved is nowhere,
with whatever is in it.  `Orderly(w, L)` says that all but the items of L, and what
is in them, are in order; taking an item out leads from `Orderly(w, {})` to
`Orderly(u, {i})`, putting it in leads back.  Two things are needed for that.  A
container must not get into itself, which is a fact about chains of parents of any
length: `Ancestors` is proved to be the least set that has the parent and is closed
under it (`AncestorsLemma`, by an induction over the number of items), so that a
change of one parent changes only what is above and below that item (`OneParent`).
And there must be room where the item arrives, though a query was asked before
the item was taken out and before a script ran: `FitsKept` says that what fitted
still fits in an emptier world.  From there on the lemmas follow the calls of
`Game::internalMoveItem`: a destination is resolved to something that exists
(`ResolveLemma`), the query that said yes left room and kept the container out of
itself (`RoomLemma`), the exchange puts the worn thing down first and leaves its slot
free (`ExchangeLemma`), merge and rest arrive (`LaidLemma`, `TransferFine`).
`AddItem`, `TransformItem`, `AddMoney` and `RemoveMoney` get a lemma each; the last two are
loops over coins and stacks, whose recursive functions are proved to exist.

For the windows the question is who must be told.  A container goes out of reach
with whatever it is in, and `NoticeReach` says that `postRemoveNotification` finds
everyone who loses it: the players who see the place it was in and who no longer
may look into it.  Whatever only shrinks closes no window wrongly (`Shrunk`).

Trade.
`TradersInv` adds to `TradersAgree` what the world must be for `offer` and `at` to make
sense; that no operation on things writes these two fields (`Kept`, one lemma for
each call) leaves the closing of trades, for which `ClosedBoth` is the key: a trade
that is closed is closed on both sides, so that the players who remain have their
partners among them.  `TradeInv` adds `Fine(world)` and `OffersAtHand`.  Every step is then
shown to be one in which the offers that stand are `Steady`: same kind, count and
place, same ancestors, same contents (`Goes`).  `UndisturbedSteady` is why
`Player::checkTradeState` is enough: it looks at the items that changed and at what
they were in before and are in now, and if none of them is the offer, around it or in
it, nothing about it changed, at any depth.  An exchange moves two offers at once;
their owners' trade ends with it, and any third player's offer is steady because it
is neither in them nor around them.  Who leaves takes what he wears along
(`WithoutFine`): the others' things stay in order, as nothing of theirs is on him.

### What stays with TLC

* Liveness under fairness (`AcceptedIsExecuted`, `ArmedFires`, `EndsUnlessAsleep`,
  `TileItemExpires`, `ClosingEnds`, `AbandonedLeave`, `LockFades`, `SlotsFill`,
  `RaidsEnd`), for which the prover has no support.
* `NoOvertaking` and `WaitListOK` of `Sessions`: the waiting list is cleaned with
  `SelectSeq`, whose value for every list takes an induction over data.
* `Conserved`, `WeightsAgree` and `PaysThePrice` of `Cylinders`: each equates a sum over a
  set that changes in the middle of a handler with a number that the handler keeps
  up to date, so that the invariant of a loop has to say how far both have come.
* `NeverOverloaded` and `ExchangeWhole`: that the second thing still fits after the first
  has gone depends on the weights, and thus on `WeightsAgree`.

## 7. Plan

Theorems next: `WeightsAgree` of `Cylinders`, then `ExchangeWhole` of `Trade`, which needs
it and the lemmas about what a move leaves where it was; `WaitListOK` of `Sessions`.

Modules that remain to be written:

1. `Walking`: routes, following, targets, and the actions that wait for the end of
   a walk (`walkTask`, `actionTaskEvent`, `nextStepEvent`), composed with the
   think tasks of `Creatures`.  An action that is stored runs once or is called off
   with its walk.
2. `GameState`: the states of `setGameState` with saving, closing and the global
   save around them, and the cycles of `proceduralRefresh`.
3. `ServicePort`: accepting, closing and reopening, composed with `Connection`.
4. Locks as resources in `Connection`: the order of the pool's and the
   connection's lock, and counts that the two threads change at once.
5. The other chat channels, houses with their lists and beds.

## 8. What is not modelled

* Within the modelled components: exceptions of the network library, packet
  contents and encryption, the tables of login attempts; the destructors'
  recovery (reached after a failed assertion only); signals that interrupt a
  thread holding a mutex, and the signals that run game code on the main
  thread; the data race on `m_refCount` and the order of the locks; routes,
  targets, spells and babbling of creatures; masters in a loop; depots,
  mailboxes, teleporters, floor changes and the stack order of a tile; documents
  of houses in a trade; clones and players who may always log in; damage over
  time, regeneration, light, outfits; a reload of raids that are referred to.
* Simplified: `ItemRelease` asks only whether an item's kind has a delay
  (`Item::isReleasable`, `item.cpp:178-193`, also asks that the item was not loaded
  with the map, is moveable and not protected by a script: such an item is one
  without a delay).  A player who dies without losing anything gets his health back
  and is sent to his temple (`player.cpp:2367-2381`); in `Creatures` that is a death
  that did not happen.
* Components of the plan: walking, game states, service ports, other channels,
  houses.
* Components left out: formulas and data (combat, weapons, spells, item kinds,
  monster kinds, vocations, outfits, quests), whose steps are calculations within
  one task; scripts and their bindings (`luascript.cpp` alone is a tenth of the
  code), whose answers are choices of the models; the database and the map files,
  where saving is one step; NPC dialogues; guilds and bans, which are statements
  to the database; path finding; the protocols for the character list,
  administration and status, which answer within one handler; configuration,
  hashes and tools.  They are most of the code by lines, so that the map covers
  less than a tenth of it.

## 9. Running

    tlc -config Dispatcher.cfg Dispatcher
    tlc -config Trade.cfg MCTrade
    tlc -config Connection.cfg Connection
    tlapm DispatcherProofs.tla
    tlapm ServerShutdownProofs.tla

and likewise for the other configurations; `PROJECT.json` names the module of
each run.  `ShutdownHang.cfg` and the others of its kind belong to
`ServerShutdown`, `ItemEarly.cfg` to `ItemRelease`, `PartyChat.cfg` to `Party`.
