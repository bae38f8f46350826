# Verification of the NethVoice module

TLA+ models of the parts of ns8-nethvoice that keep state of their own and
run concurrently, with TLC runs on small instances and TLAPS proofs for every
size. All source paths below are relative to `src/`.

Five parts are modelled: the chat gateway's rooms with people outside the PBX,
the long polls of a guest's page, the retirement of chat accounts, the hotel's
FIAS bridge, and the module's own user interface (the first configuration
wizard and the pages that read and save settings). In each of them several
actors share state without a transaction, answers come late or not at all, and
a mistake shows only in an interleaving nobody writes a test for.

## The system

NethVoice is an NS8 module: a set of containers around Asterisk/FreePBX. Most
of them package programs of other repositories. The logic this repository owns:

| part | where | state | what is hard |
|---|---|---|---|
| chat gateway: rooms with guests | `ejabberd/internal/api/guest.go`, `internal/store/ext.go` | tables `ext_rooms`, `ext_guests`; `roomLocks`; rooms, affiliations and subscriptions in ejabberd | concurrent joins, revocation and sweeps; partial failures; restarts |
| chat gateway: a guest's page | `internal/api/guest_page.go` | `guestWaiters` | push and read race; broken connections; lost pushes |
| chat gateway: push | `internal/push/` | the component's session, `deliveries`, registrations | bounded deliveries; reconnection; stale registrations |
| chat gateway: accounts | `internal/api/reconcile.go`, `revoked.go`, `internal/store/store.go` | table `users`: missing since, inactive; the cached CTI user list | a round that fails half way; clients that change the rooms meanwhile; the guard on mass departures |
| chat gateway: CTI groups | `internal/api/ctigroups.go`, `groups.go` | rooms `cti-...`, the last state seen | rooms compared with a directory that changes meanwhile |
| chat gateway: API, caches, extauth | `internal/api/http.go`, `middleware.go`, `cmd/chat-extauth` | windows, token and permission caches | stale answers, non-atomic counting |
| hotel: FIAS | `freepbx/usr/share/neth-hotel-fias/` | tables `messages`, `messagesparameters`; the link's state | two daemons and scripts around a queue without transactions, any of which may end anywhere; acknowledgement whatever the handler did, or whether it could be started |
| user interface: first configuration | `ui/src/App.vue`, `ui/src/components/first-configuration/` | the modal's step and loading flags, the Vuex store, tasks of the cluster | answers that come when the user is elsewhere; destroyed steps; failures nobody listens to |
| user interface: pages | `ui/src/views/` | each page's form, what it knows to be saved, loading flags | savings and readings that overlap; a late answer against what was typed |
| hotel: rooms and alarms | `freepbx/var/www/html/freepbx/admin/modules/nethhotel/` | rooms, rates, alarms | check-out against pending wake-up calls |
| NS8 glue | `imageroot/` | environment, ports, units | scripts of several steps, which may fail after they have written; port allocation |
| PBX wizard, visual plan editor | `freepbx/wizard-ui/`, `.../modules/visualplan/` | the page shown | one administrator over the REST API |
| FreePBX modules, REST API, other containers | `freepbx/`, `satellite/`, ... | MariaDB, browser | configuration, sequential |

How the modelled parts interact.

*Rooms with guests.* An operator opens a group or a new room to
people outside and hands out its invite link (`createExtRoom`, `shareGroup`).
Somebody opens the link and gives a name (`joinGuest`): the gateway makes an
account in ejabberd (member, subscription, push node) and, last, a row in
`ext_guests`. The guest's page then reads the room's archive by long polls
(`guestMessages`); ejabberd pushes to the gateway's component when something
reaches the guest, and the component wakes the waiting polls (`WakeGuest`). The
owner removes guests, makes new links or revokes them; the guest may leave. A
room destroyed in ejabberd is noticed by the ten-minute round
(`DropGoneExtRooms`) or by a guest's poll whose read fails, and its rows are
deleted (`roomGone`).

*Accounts.* Every ten minutes the gateway compares the accounts that used the
chat with the CTI's user list. One gone is marked, disconnected, and retired
after a day: it leaves its groups, the first member added inherits a group it
alone owned, and its row is marked inactive. One that is back is active again.

*FIAS.* `fiasd.php` holds the connection with the hotel's management system
(PMS). What it receives goes to `messages` and `messagesparameters`;
`dispatcher.php` polls them, starts a handler for each message and marks it.
Scripts insert messages for the PMS in the same tables; `fiasd.php` polls
those, sends them and marks them. supervisord starts both daemons again.

*User interface.* A page or a step of the wizard starts tasks of the cluster or
of the module and registers for their events. The wizard finds or installs an
account provider and a proxy and then configures the module; App.vue opens it
when the module is not configured. It shares the store with the pages, and
when it ends it has the Settings page read everything again.

What makes them correct:

- a room never has more than `maxGuests` guests, and one name is one person;
- a guest the store lets in is in the room as far as ejabberd is concerned;
- only rooms that were destroyed are forgotten, and they are, with their guests;
- a revoked link takes nobody new, and a link handed out has been saved;
- every join is answered, whatever fails;
- the page shows the archive without gaps or repeats, in time when the push
  arrives and eventually when it does not;
- a guest who was removed is told so;
- an account is retired only after it was missing for the whole grace period,
  and then it is in no group; no group is left without an owner; no
  more than two accounts, or half of the active ones, are marked as missing at
  a time;
- messages of the PMS reach their handlers (one that cannot be started is given
  up), and messages for the PMS the
  socket, in order and at least once, whichever process ends where; data leaves
  only on a complete link;
- the wizard gets to its last step only with what that step needs, submits
  nothing twice, and never waits for an answer that cannot come;
- a page shows what is saved, keeps what is typed, and one form does not undo
  what another saved; with the exceptions each section names.

## Modules

| module | models |
|---|---|
| `GuestRooms` | the handlers of `guest.go` and the statements of `store/ext.go`, over ejabberd as the gateway uses it |
| `GuestRoomsInv` | the inductive invariant of `GuestRooms` in named parts |
| `GuestRoomsProofs`, `GuestSeatsProofs`, `GuestMembersProofs` | its types; the cap and the names; the whole invariant, membership and the rooms kept |
| `GuestFeed` | the abstract specification of a guest's page |
| `GuestPoll` | `guestMessages`, `guestWaiters`, the push component's handler, `dropGuest` as the poll sees it |
| `GuestPollProofs` | its types, the waiters' list, the wake-ups, and that it implements `GuestFeed` |
| `Accounts` | `Reconcile`, `retire`, `leaveRoom`, the table `users`, the cached user list of `middleware.go` |
| `AccountsProofs` | its inductive invariant and the five theorems about it |
| `FiasOrder` | the abstract specification of one direction of the FIAS queue |
| `FiasBridge` | `fiasd.php`, `dispatcher.php`, `insertFiasMessage`, the scripts; implements `FiasOrder` twice |
| `FiasBridgeInv`, `FiasProofs` | the inductive invariant of `FiasBridge`; its proof and both refinements |
| `FirstConfig` | `App.vue`, the store, the wizard's modal and its four steps, over the cluster's tasks |
| `FirstConfigInv`, `FirstConfigProofs` | the inductive invariant of `FirstConfig`; its proof and what follows |
| `AdminPages` | `Hotel.vue`, `Integrations.vue`, `Settings.vue`, `Rebranding.vue`, over the module's tasks and what their actions (`imageroot/actions/`) write |
| `AdminPagesInv`, `AdminPagesProofs` | the inductive invariant of `AdminPages`; its proof and what follows |
| `MCGuestRooms`, `MCGuestPoll`, `MCAccounts`, `MCFiasBridge`, `MCFirstConfig`, `MCAdminPages` | the instances for TLC |

### GuestRooms

State. `ext` and `guests` are the two tables. A row that does not exist has
`st = "none"`; `"open"`/`"revoked"` and `"active"`/`"removed"` are the boolean
columns. `muc`, `aff`, `subs` and `push` are ejabberd: which rooms exist, the
affiliations, the guests' subscriptions and push nodes. `lock` is `roomLocks`.
`join`, `call` and `sweep` hold the requests under way: where each one is and
what it has read. `issued` and `used` are the tokens and account ids drawn:
`newToken` and `randomID` never repeat.

Steps. A handler is a sequence of steps, one for each statement on the store
and each call to ejabberd. None of them spans two, and no handler uses a
transaction, so every point between them is a point where another request
acts, the client goes away or the gateway stops. A call that fails either had
no effect or had its effect and no answer; both are choices wherever the code
handles an error.

| actions | code |
|---|---|
| `CreateRoom`, `CreateUnanswered`, `CreatePuts` | `createExtRoom` |
| `ShareReads`, `ShareChecks`, `ShareLinks`, `ShareOwns`, `SharePuts` | `shareGroup`, with the two errors lost in the inner scope |
| `RoomReads`, `RoomChecks`, `RoomOwns` | `extRoomFor`, shared by the next four |
| `GetRoom`, `NewLink`, `RevokeLink`, `RemoveFinds` | `getExtRoom`, `newExtLink`, `revokeExtLink`, `removeGuest` |
| `LeaveReads`, `DropRemoves`, `DropKicks` | `leaveGuest`, `dropGuest` |
| `JoinOpens` ... `JoinTells` | `joinGuest`, in its order |
| `RoundStarts`, `PollFails`, `SweepLooks`, `SweepDropsGuests`, `SweepDropsRoom` | `DropGoneExtRooms`, the failed read of `guestMessages`, `roomGone`, `DeleteExtRoom` |
| `Restart` | the process ends; both stores stay |
| `DestroyRoom`, `AddOperator`, `PassOwnership`, `LinkExpires` | operators' XMPP clients and the clock (external) |

Names are a word, its case, and a tail: nothing, the mark `" ·"` or a number.
That is what `EqualFold`, `usernameRe`, `operatorNamed` and `guestNick` tell
apart. Left out: texts, the title, the invitations sent to clients
(`tellMembers`, `invite`) and `operatorNamed`'s confusable characters, none of
which changes the state above; the rate limits (`joins`, `invites`), which only
refuse; `listExtRooms` and `linkInfo`, which only read. A destroyed room does not
come back: its name is random. Operators' clients change operators'
affiliations, never a guest's: the clients do that through the gateway.
ejabberd's answer about a missing room is taken for what it says: the code
looks for a phrase in the text of the error (`ctigroups.go:245-248`), and that no
other error contains it is an assumption.

### GuestPoll and GuestFeed

One guest and one page. `archive` is the room's archive as the guest's page
sees it, an entry being something to show or not (a chat state, a subject).
`pushes`, `inflight` and `missed` follow each entry's push: on its way, in one of
the component's `deliveries`, or lost (the component away, the slots full).
`waiters` is `guestWait.m[id]`; `woken` are the requests whose channel was
closed. `cur`, `shown`, `cursor` and `page` are the page, which is not in this
repository; it is modelled from the contract `guestMessages` states: it asks for
what follows the last id it was given (`Last`), and stops at a 410.

A connection that breaks leaves its request in the gateway, waiting, until the
gateway notices (`ctx.Done`), the time limit or a wake-up: until then it holds
one of the `guestPolls` places.

The room exists throughout this module; what a poll does when it does not
(`roomGone`) is in `GuestRooms`. Reads with `before` (older pages) and with
`wait=0` are left out: they hold a place only while they read.

`GuestFeed` is what the page is promised, in three actions: the archive grows,
the page shows the stretch that follows what it shows, the page stops.
`FeedKept` is that specification with the identity as its mapping.

### Accounts

State. `users` is the table: has the account been seen, for how long is it
missing, is it inactive. `cti` is the CTI, `list`/`fresh` the cached user list.
`aff`, `muc` and `subs` are ejabberd. `round` is the goroutine of `Reconcile`:
where it is, whom it has still to look at, which account, room and heir it is
about. A tick is a part of the grace period, which is a day; a round takes
minutes, so none spans a tick.

| actions | code |
|---|---|
| `Reconcile`, `NoDirectory` | the comparison, `SetPresent`, the guard on mass departures; no list |
| `Mark`, `Retire`, `RoundEnds` | the loop over the missing accounts; `get_user_subscriptions` |
| `LeaveRoom`, `LeaveRoomFails`, `Destroy`, `HandOver`, `Unsubscribe`, `Unaffiliate` | `leaveRoom`, one step per call |
| `SetInactive` | the end of `retire` |
| `SeenUser`, `Fetch` | a valid token; the list read again |
| `Restart`, `Tick` | the process ends; the clock |
| `Leave`, `Return`, `CreateRoom`, `AddMember`, `MemberLeaves`, `AddOwner`, `DestroyRoom` | the CTI's administrator and the clients (external) |

Three histories say what the code does not promise. `lapsed` are accounts
one of whose calls failed (`retire` logs it, marks the account all the same
and does not come back to it; `SetPresent`'s error is dropped), who were put in
a group while away, or who were made heir after leaving the group. `late` are
groups whose owners a client changed after `leaveRoom` read the affiliations.
`gone` counts how long every list compared has lacked an account. `MaxLapsed`
bounds the first, and so the faults of a behaviour.

Left out: `kick_user` and `revoked.go` (sessions), the push registrations that
`SetInactive` deletes, names. Not claimed, because the code does not provide
it: a colleague added between the reading and `destroy_room` loses the group;
the list may be ten minutes old, so an account just back may be retired until
the next round finds it; with more than half of the accounts gone for good
none is ever retired; and a directory that stays wrong for longer than the grace
period may have everybody retired, a few at a time. The guard compares what one
round finds missing with the accounts then active and forgets those retired
before: of three accounts two may go together and the third after them.

### FiasBridge and FiasOrder

State. `msgs` are both tables: a row with its state, direction, command, and
how many of its parameters are there. `link`, `lock` and `rec` are the
variables of `fiasd.php`; a state of the daemon that makes several statements
has one action for each. `batch` and `acking` are the dispatcher, `script` the
scripts. `up` (is the handshake complete), `ran`, `unrun` and `sent` (the
handlers started, the messages whose handler could not be started, the messages
written to the socket) are histories. Commands stand for
their treatment: configured, LR, not configured, refused by
`insertFiasMessage`, LE.

`DaemonStops`, `DispatcherStops` and `ScriptStops` end a process at any step,
`DaemonStatementFails` is a failing statement. The tables are MyISAM, so there
is nothing to roll back.

A command that cannot be built, or a `proc_open` that fails, is exit code -1 to
`dispatcher.php`: it is logged and the message acknowledged like any other
(`HandlerNotStarted`, the alternative to `RunHandler`).

`FiasOrder` is what a direction promises: hand-overs in the order of the ids, at
least once before the acknowledgement, only the last one possibly again; a
message may be given up instead when its turn comes, and for the PMS's
messages that means that its handler could not be started.
`ToPbx` and `ToPms` substitute the tables and the histories for its variables;
`PbxInOrder` and `PmsInOrder` are its specification under each.

Not claimed: that a message is handed over whole (row and parameters are
separate statements, and a poll in between acknowledges a part); that a handler
succeeded (its exit code is logged); that a message without parameters is ever
found (`INNER JOIN`); that LE is sent (`stStart` deletes those pending, also one
queued a moment before, and the script that sees none pending takes it for
sent).

### FirstConfig

State. The store (`shown`, `appConfigured`, `status`, `defaults`), the modal
(`step`, `provider`, `installed`, `proxyId`, `skip`, `loading`) and the step it
shows (`ui`: its loading flags and what it has learnt). `tasks` is the bag of
tasks not yet answered; `domains`, `proxies` and `module` are the cluster. A
step is created when it is shown and destroyed when another is: `GoTo` does
both, and the tasks of a destroyed step run on unheard. `Reload` does it to the
whole page.

An action is a handler of the browser, its watchers included. A task
that changes or reports the cluster takes effect in one step
(`TaskCompletes`, `ProxyIsInstalled`) and is heard in another; a failure is heard
as it happens. Tasks that do neither are answered in one step. A form that is
not valid makes a button do nothing, so validation is the guard of the action.

What the code leaves open, and the model with it:

- `OpenldapStep.vue` registers `configureOpenLdapAborted`, which does not exist,
  and nothing for an `add-internal-provider` refused; `ProxyStep.vue` registers
  nothing for an `add-module` refused, and `installProxy` without an instance
  status throws after it has set its flag. In all four the step stays disabled; `deaf` marks them and `NobodyWaitsInVain`
  excepts them.
- Each status stored while `OpenldapStep` is shown installs another OpenLDAP.
- A `get-defaults` that saw no proxy and answers after one was installed resets
  `isProxyInstalled`, and Next installs a second one.
- The end of a destroyed `NethvoiceStep`'s task is not heard, and the failure of
  `set-nethvoice-admin-password`, which nobody waits for, may go unseen. That
  task is not in the model.

### AdminPages

A page has a form, the loading flags of its tasks, the errors that
`isErrorState` of Settings.vue looks at and, where the code keeps one, a copy of
what is saved. Every value typed is a new number; 0 is the empty form. A field
stands for all inputs read and saved together: Rebranding.vue has two, the brand
name and the rest, which are always sent together; Settings.vue has three, each
with a Save of its own (the configuration, the switch of the alerts, the
password). `dirty`, `loaded`, `clean` and `reloaded` are histories.

| actions | code |
|---|---|
| `OpenPage`, `ReloadConfig` | `created()` of the page; the wizard's event |
| `Type`, guarded by `FormOpen` | typing, turning the switch: `isFormDisabled` |
| `SetHotel` ... `SetRebranding`, guarded by `SaveOpen` | the Save buttons: `isFormDisabled` and, in Settings.vue, `isErrorState` |
| `Runs` with `Written` and `Read`, `RebrandingInactive`, `OrphanFails` | the module's actions: what they leave in the environment |
| `...Answered` | the handlers of a task's end |

`tasks` is the bag of tasks; a task runs and is heard later, and those of a page
left run on unheard. What it writes is one operator per action (`SetHotelEnv`
... `SetRebrandingEnv`). An action has steps after the one that writes
(`20metrics_config`, `20apply`, the `try-restart`s of `set-rebranding`), so a
task that ran may still be heard as failed (`Outcomes`); failing half way
through its own writes counts as having written. `set-rebranding` writes nothing
when rebranding is not active any more, and completes (`RebrandingInactive`).

What the code leaves open, and the model with it:

- Hotel.vue and Integrations.vue enable an empty form when the reading failed,
  and Save writes it: `NeverBlanked` is about the other two pages and names those
  as its exception. In Settings.vue the empty form can be typed in too, and the
  switch of the alerts is off in it: only `isErrorState` keeps Save from sending
  it. An error of `configure-module` or `set-nethvoice-admin-password` locks
  every Save until the page is opened again.
- The switch of the alerts is turned and saved in two steps. Turned and not
  saved, it is set again by the reading that follows the saving of the
  configuration, as the password typed is cleared by it: the exceptions of
  `TypedIsKept`.
- After a `set-alerts` or `set-rebranding` that failed behind its write, or
  completed without one, the page believes the opposite of what happened and
  nothing reads again: `clean` is then false, `ShownIsSaved` says nothing until
  the page is opened again, and what a rebranding form sends of the other form
  is an exception of `SavedStays`. After the other savings the value typed stays
  typed and not saved, which is true of the form.
- The two forms of Rebranding.vue do not wait for each other; of savings that
  overlap `SavedStays` and `ShownIsSaved` say nothing.
- `set-alerts` has no handler for a refusal (Settings.vue:1077-1087). Its input
  is one boolean, which the validation never refuses; a refusal would leave the
  page disabled.

Left out: `get-idp-info`, whose answers fill a preview in any order, the texts
and the validation messages.

## Runs

| run | module, cfg | checks | result |
|---|---|---|---|
| `guest_rooms` | MCGuestRooms, GuestRooms.cfg | `TypeOK`, `AtMostMaxGuests`, `OneNameOnePerson`, `ActiveGuestIsMember` | holds, 2 million states |
| `guest_owners` | MCGuestRooms, GuestOwners.cfg | `IInv`, `LivingRoomIsKept` | holds, 380 thousand |
| `guest_live` | MCGuestRooms, GuestRoomsLive.cfg | `JoinAnswered`, `GoneRoomForgotten` | holds, 46 thousand |
| `guest_revoked` | MCGuestRooms, GuestRevoked.cfg | `RevokedTakesNobodyNew` | violated |
| `guest_reshare` | MCGuestRooms, GuestReshare.cfg | `GivenLinkIsSaved` | violated |
| `guest_orphan` | MCGuestRooms, GuestOrphan.cfg | `GoneGuestsForgotten` | violated |
| `guest_poll` | MCGuestPoll, GuestPoll.cfg | `TypeOK`, `ListedOrWoken`, `LandingInBetweenWakes`, `FeedKept` | holds, 3.6 million |
| `guest_poll_live` | MCGuestPoll, GuestPollLive.cfg | `EntryReachesPage`, `RemovedPageStops` | holds, 76 thousand |
| `accounts` | MCAccounts, Accounts.cfg | `TypeOK`, `RoomHasOwner`, `RetiredIsOut`, `MostStay`, `NotRetiredEarly` | holds, 2.8 million |
| `fias_bridge` | MCFiasBridge, FiasBridge.cfg | `TypeOK`, `IInv`, `PbxInOrder`, `PmsInOrder`, `DataOnlyOnLink`, `InboundElaborated` | holds, 1.5 million |
| `first_config` | MCFirstConfig, FirstConfig.cfg | `TypeOK`, `NethvoiceStepIsReady`, `TimezonesAreThere`, `OneSubmission`, `NobodyWaitsInVain`, `IInv`, `ConfiguredIsTrue` | holds, 752 thousand |
| `admin_pages` | MCAdminPages, AdminPages.cfg | `TypeOK`, `NeverBlanked`, `ShownIsSaved`, `TypedIsKept`, `SavedStays`, `FormComesBack`, `IInv` | holds, 460 thousand |

Deadlock is checked in `accounts`, where the round and the clock always go on.
The other cfgs say `CHECK_DEADLOCK FALSE`: a system whose rooms were all
destroyed, whose page was stopped, or that has used up a bound (rows of the
queue, values typed, tasks) has nothing left to do.

Bounds.

- `guest_rooms`: one group, `MaxGuests = 1`, two joins and two accounts. Two
  joins are what it takes to race for the last place or for a name; with one
  place a removal is needed before the second account gets in, so the cap, a
  freed place and a removed guest's name all occur. The names typed are one word
  plain and with the mark `guestNick` adds, so a typed name may meet a nick.
  One restart, two links. Guests and joins are interchangeable (symmetry).
- `guest_owners`: two operators, so ownership changes hands between the check
  and the act; a poll next to the reconciler, so two sweeps of one room race;
  an operator's name among those typed. Two links: shared, private, shared
  again.
- `guest_live`: a room made by the gateway, two joins for one lock, one restart
  anywhere, in the middle of a sweep too.
- `guest_poll`: two requests, so one may be left behind by a broken connection,
  with `GuestPolls = 1`, so that it takes the only place; `PageSize = 1` and three
  entries, so a page is full with more behind it; `Slots = 1`, so pushes are
  dropped.
- `guest_poll_live`: one request, two entries, one lost connection and one
  restart; the limits above as well.
- `accounts`: three accounts, the least for which the guard on mass departures
  does anything (more than two missing); one group, with an owner, an heir to
  choose by time of adding against the order of names, and a third. Grace of two
  ticks, so an account is seen missing before, during and after it. Three
  changes in the CTI (all leave; or leave, return, leave), three by clients (make
  a group, add, and one more in the middle of a round), one account whose
  calls fail.
- `fias_bridge`: two rows, so two messages of one direction have an order; two
  parameters, so a message may be there in part; two stops, so a message is
  handed over three times.
- `first_config`: two proxies, so a second one may be installed; two tasks of a
  kind and three at a time, so two openings of the wizard overlap with a step's
  own task.
- `admin_pages`: two values typed, so the one saved and the one typed since
  differ; three tasks, so two savings and a reading overlap; one task of a page
  that was left; the configuration of one page changed (a page only reads and
  writes its own, so two of them changed say nothing that one does not).

### What the violations show

- `guest_revoked`. `joinGuest` reads the link before it takes the room's lock
  and does not look again. A join that waits for the lock, or for ejabberd
  (three calls, the last one tried three times), writes its guest after
  `revokeExtLink` answered. "The link lets nobody new in" holds for requests
  that start later, not for those under way.
- `guest_reshare`. In `shareGroup`, `err` is declared again in the inner `if`:
  when `SetExtLink` fails, or `SetExtOwner` after it, the test that follows
  looks at the outer one, which is nil. The owner gets a link that no row holds
  and the group stays private.
- `guest_orphan`. A join past its checks when the room is destroyed and swept
  inserts its row after `DeleteExtRoom`. The room is not in `ext_rooms` any
  more, so no round looks at it. The run has no polls: with that guest's own
  page reading, the failed read finds the room gone and deletes the row.

### Fairness

`GuestRooms`: a join's steps are weakly fair, because net/http runs a handler
until it returns. Its calls to ejabberd's API have a limit of ten seconds and
so has the login of the guest's session; the answer to `EnablePush` has none of
its own. That step is fair on the assumption that ejabberd answers or drops the
connection, or that the client gives up, which cancels the request. Taking the lock is
strongly fair: a Go mutex hands itself to a waiter that has waited for a
millisecond. The reconciler's loop runs for as long as the process does
(`cmd/chat-gateway/main.go`), and its calls succeed now and then: neither
ejabberd nor SQLite fails for ever. Nothing is assumed of operators, of guests
or of polls.

`GuestPoll`: handlers run on (a read of the archive on the same assumption), `time.After` fires, and the page asks again
after every answer (weak fairness); reading the store and the archive succeeds
now and then (strong fairness). Nothing is assumed of pushes, which may all be
lost: `EntryReachesPage` rests on the time limit alone. Nor is `dropGuest`
assumed to reach its wake-up.

`FiasBridge`: the dispatcher's loop is weakly fair: it runs for as long as it is
up, and supervisord starts it again. `MaxStops` ends the stops, as an outage
ends. That is also an assumption on the handlers: `command-runner.inc.php`
reads a handler's output to its end and waits for it without a time limit
(247-249), so a handler that hangs keeps everything behind it waiting. Nothing is assumed of the PMS, of `fiasd.php` or of the scripts.

`AdminPages`: answers are weakly fair as a whole: a task ends, completed or
aborted, and its end is an event of the page. The user and the order of the
answers are free.

`FirstConfig` and `Accounts` state no fairness: their properties are safety.
`NobodyWaitsInVain` is the safety half of liveness: a disabled button has a task
whose answer enables it.

## Proofs

Checked with TLAPS for every value of the constants that satisfies the
assumption of its module: `GuestAssumption` (finitely many account ids, at least
one room, operator, word and place), `PollAssumption` (finitely many requests; at
least one place, one slot and one entry a page), `AccountsAssumption` (finitely
many accounts, a grace period of at least a tick), `FiasAssumption`
(at least one row), `WizardAssumption` and `PagesAssumption`; of the last three
the bounds are numbers. The bounds that a module puts in its
guards (restarts, rows, tasks at a time) are constants too, so what is proved
holds for behaviours of any length.

Rooms with guests.

- `TypeCorrect`: `Spec => []TypeOK` of `GuestRooms`, action by action.
- `CapHolds`, `NamesHold`: `Spec => []AtMostMaxGuests` and
  `Spec => []OneNameOnePerson`. Neither is inductive: they say nothing of a join
  that has passed its checks and not written its guest. `SeatInv` adds
  `LockInv` (a join past the lock holds its room's lock), `RoomForOneMore` (a
  join on its way in still has a place) and `NameStillFree` (its name and nick are
  still nobody's). Only `JoinPuts` adds a guest, and it does so under the lock,
  so no other join of the room is on its way in when it does; every other
  step leaves the guests as they are or takes some away (`FewerGuests`),
  which keeps all parts. A restart ends the joins together with the locks.
- `GuestsInvariant`, `GuestsAreMembers`, `LivingRoomsKept`: `Spec => []IInv`,
  and from it `ActiveGuestIsMember` and `LivingRoomIsKept`. `IInv` adds to the
  seats what a request has read and may still rely on: an account id drawn is
  in one place only (`AccountInv`), so nobody takes away what a join has just
  given; a join on its way has given its guest what its step says
  (`EnteringInv`); a sweep that deletes has seen its room gone (`SweepInv`), and
  a room gone does not come back.

A guest's page.

- `PollTypeCorrect`: `Spec => []TypeOK` of `GuestPoll`.
- `ListExact`, `NoLostWakeup`: `ListedOrWoken` and `LandingInBetweenWakes`,
  inductive together. The second needs the first: `WakeGuest` empties the
  list, and only because every waiting request was on it is none left waiting
  with a push that is gone.
- `PollImplementsFeed`: `Spec => FeedKept`. `FeedInv` relates the page's cursor
  to what it shows and to the request it listens to; every step is then one
  of `GuestFeed` or leaves its variables alone.

Accounts.

- `TypesKept`, `GroupsKeepAnOwner`, `RetiredLeaveTheirGroups`, `GraceIsGranted`:
  `TypeOK`, `RoomHasOwner`, `RetiredIsOut` and `NotRetiredEarly` of `Accounts`, for
  any accounts, groups, grace period, order of names and times of adding. The
  parts of the invariant carry each other: `OtherOwner` (between the hand-over
  and the leaving somebody else owns the group) gives `RoomHasOwner`;
  `Subscribed` (whoever is in a group has the subscription by which `retire` finds
  it) and `StillToLeave` (a subscription left belongs to a group still to come)
  give `RetiredIsOut` when `SetInactive` finds no group left; `GoneSince` (every
  list compared has lacked an account for as long as its row says) with `RoundOK`
  gives `NotRetiredEarly`. One lemma per action.
- `FewAreMarkedAtOnce`: `Spec => []MostStay`, a bound on the accounts marked and
  not retired yet, not on the retirements of successive rounds. The guard counts once, when a
  round starts; the accounts are marked one at a time and the active ones
  retire meanwhile. `FewMarked` counts those a round has in hand together with
  those marked: two, or half of the active ones. An account retired leaves both
  counts (`FewWithoutOne`), and a half of a set with one fewer on each side is
  still at most a half.

FIAS.

- `BridgeInvariant`, `BridgeTypes`: `Spec => []IInv` and `TypeOK` of
  `FiasBridge`, for any number of scripts, rows, parameters and stops. `IInv`
  says what each process at each of its states may rely on: the message being
  sent is the oldest pending (`SendInv`), the batch is in order and what waits is in
  it or came after it, and what is being acknowledged had its handler started or
  could not have it started (`BatchInv`), nothing handed over is younger than what
  waits (`RanInv`), and each writer's parameters go to a row of its own
  direction (`InsertInv`).
- `OnlyOnLink`: `Spec => DataOnlyOnLink`, from `LinkInv`: the daemon's state tells
  whether the handshake is complete and the lock free.
- `PbxRefined`, `PmsRefined`: `Spec => PbxInOrder` and `Spec => PmsInOrder`, the two
  refinements of `FiasOrder`: every step that starts a handler or writes to the
  socket hands over the oldest message or the last one again, every
  acknowledgement finds its message handed over or given up in its turn, and the other steps are
  new messages or stutters. A stop never moves the histories, so it is a
  stutter.

First configuration.

- `WizardInvariant`, `WizardTypes`: `Spec => []IInv` and `TypeOK` of `FirstConfig`, for
  any number of proxies and of tasks at a time.
- `LastStepIsReady`, `LastStepHasTimezones`, `SubmittedOnce`, `WaitsAreAnswered`:
  the four invariants of the run, each a consequence of `IInv`. The parts: what
  a task on its way says of the cluster is so, and stays so as the cluster only
  grows (`Told`); a task that is heard belongs to the step shown, and one that
  changes the cluster has set the flag that disables Next (`Heard`), so a
  button that is enabled finds none under way; the modal's own knowledge is so
  (`ProxyInv`, `KnowInv`) and its step no further than that (`StepInv`). `Stays`
  and `Shows` say once what a handler has to show that keeps the step, or that
  shows one; `GoodLeft` is the step being destroyed.
- `ConfiguredIsBelieved`: `Spec => ConfiguredIsTrue`, from `Told` of the two answers
  that set `isAppConfigured`.

Admin pages.

- `PagesInvariant`, `PagesTypes`: `Spec => []IInv` and `TypeOK` of `AdminPages`, for any
  number of tasks at a time, of values typed and of pages left.
- `NothingIsBlanked`: `Spec => []NeverBlanked`. Which task may save depends on what its
  page held when it was created, so `FullInv` speaks of the tasks (none of the
  settings or the rebranding sends anything empty, even when its page is gone)
  and `ActiveInv` of the rebranding page (it offers its forms only when what it
  shows and what it takes for saved are there). For the settings `SettingsInv`
  says that until they are read a reading is under way or an error says it
  failed, which `isErrorState` turns into a disabled Save.
- `TypingIsKept`: `Spec => TypedIsKept`, from `ChainInv` and `DirtyInv`. Until
  the wizard ends, a page has at most one task under way that leads to a reading,
  and while the reading itself is under way nothing but the password and the
  switch of the alerts has been typed since the last one; `RereadInv`: and these
  only if the page had been read before, so that the reading is the one after a
  saving. `WritesInv` holds with the wizard too: a form is
  being saved once at a time and its flag says so.
- `SavingUndoesNothing`: `Spec => SavedStays`, from `AloneInv`: a rebranding task that
  met no other, and whose page was told of every earlier one what happened,
  sends the rest as it is saved. When the task is created this is
  the page's own copy, which is right by `CleanInv`.
- `RestingPageIsRight`: `Spec => []ShownIsSaved`, from `CleanInv`: while nothing
  overlaps and no answer said the opposite of what happened, what every task of the page has read or will save, what the page
  shows and what it takes for saved agree with the module, except for the
  moment between a task's run and its answer (`Told`).

  `Sound` (the tasks' own parts), `Clear` and `Shows` (the page's) say what
  holds of any bag of tasks, and there is one lemma for each thing that happens
  to a bag: an answer taken, a reading or a saving created, a page left, a task
  run. Each action is then a combination of those.

Only model-checked: liveness (`JoinAnswered`, `GoneRoomForgotten`,
`EntryReachesPage`, `RemovedPageStops`, `InboundElaborated`, `FormComesBack`),
which the prover does not do. Every invariant and every action property of the
passing runs is proved.

## Plan

What is left, in this order.

1. `GroupSync` (`ctigroups.go`): rooms that follow the CTI's groups.
2. `PushRouting` (`push/`): registrations, expiry and duplicates, with the
   registrations `SetInactive` deletes and the sessions of `revoked.go`.
3. `Throttle` (`window` in `http.go`) and the caches of `chat-extauth`.
4. Hotel rooms and wake-up calls, as far as the FIAS handlers use them.

## Not modelled

- FreePBX modules and the REST API: configuration over MariaDB and dial plan
  generation, one administrator at a time; the PBX wizard, AngularJS pages over
  that API; the visual plan editor, which is
  mostly the vendored drawing libraries draw2d, raphael, canvg and jQuery, and
  the other vendored scripts. By number of lines they are nine tenths of the
  repository's JavaScript.
- The rest of the user interface: the Status page but for what it stores for
  the wizard, the About page, templates and styles.
- The containers that package other repositories' programs.
- The gateway's text and file handling (search, quotes, shortcodes,
  attachments), with next to no state of its own.
