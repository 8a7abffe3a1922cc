# A TLA+ model of freekill-asio

freekill-asio is a game server: clients connect over TCP, log in, meet in a
lobby, create and enter rooms, and play games whose rules run in Lua child
processes. This directory holds TLA+ modules for the parts of the server in
which several actors change the same state, the TLC configurations that check
them on small instances, and TLAPS proofs of nearly all the safety properties that
the instances check.

## Inventory

The server has these threads:

* the **main** `io_context`: sockets, packet handlers, sign-up, timers,
  heartbeat, and everything posted to it;
* one or more **room threads**, each with an `io_context` and a Lua child
  process, spoken to by synchronous JSON-RPC over pipes. Lua's calls come back
  on the room thread; those that touch players or sockets (`gameOver`,
  `emitKicked`, `sendMessage`) are dispatched to the main loop and waited for;
* **DbThread**, a FIFO worker for the database;
* the **shell** and the **admin HTTP** threads; HTTP requests run on the main
  loop, most shell commands directly on the shell's thread.

| Component (under `src/src/`) | State | Operations | Correct when |
|---|---|---|---|
| UserManager, ServerPlayer (`server/user`) | `players_map` by connId, `online_players_map` by account, a player's state, room, router | create, add, delete, reconnect, kick, disconnect | the maps name live objects; nobody's connection is lost by moving objects; one session per account |
| Lobby (`server/room/lobby.cpp`) | the players in it | add, remove; packets that create, enter, observe rooms | lists exactly whoever believes to be there |
| Room, RoomManager (`server/room`) | players, observers, owner, capacity, reference count, rejected players, md5 | add, remove, quit, kick, robots, start, game over, posted abandonment check, destruction | members are alive and know it, the owner is there, abandoned rooms go |
| Authentication (`server/user/auth.cpp`) | ban tables, the connection signing up | setup packet, password, takeover | banned stay out; a sign-up ends with a player or a closed socket |
| ClientSocket, ServerSocket (`network`) | send queue, closing flag, callbacks, receive buffer, sign-up timer | accept, send, close, reader, buffer decoding | packets whole, in order and not lost; closed sockets are freed |
| Router (`network/router.cpp`) | a player's socket, expected replies | bind a socket, send, request, reply | a player hears its socket and no other; a reply answers its request |
| RoomThread (`server/gamelogic`) | reference count, rooms, md5, Lua | take and drop rooms and tasks, outdate, shut down, signal Lua | the count is exact, no thread goes under a user, none stays for ever |
| Tasks (`server/task`) | tasks by user and request, own count | start, end, abort | a task that ended is removed |
| RpcLua, dispatchers (`server/rpc-lua`, `server/gamelogic`) | pipes, nested calls | call, wait, dispatch | nobody waits for ever |
| Server (`server/server.cpp`) | threads, md5, temporary bans, transactions | refresh, heartbeat, ban, mute, shutdown | shutdown ends; refresh outdates everything old; a ban of an address ends with its timer |
| PackMan (`core/packman.cpp`) | package table, directories, disabled list, summary | install, remove, upgrade, enable, disable, sync | what clients are told is what the server has |
| Shell, AdminHttp, AdminService (`server/admin`) | tables of bans, mutes and white list; a thread each | operator commands | a ban holds and the banned are out; nobody waits for a loop that has stopped |
| DbThread (`server/io`) | a queue | background queries | answers reach the main loop |

What is hard here: work is posted and finds another state when it runs; a
kick only *asks* a socket to close, and the old player goes on handling
packets; objects are handed over (a runaway's socket, an account's entry, a
reconnecting seat) by several functions in several orders; containers are
walked while a callback shortens them; a reference count decides over the life
of a thread; TCP cuts packets anywhere; two threads share one database
connection, and with it a transaction; a command on packages is several steps,
each of which may fail or be the last before a crash. `PROJECT.json` lists each of these
hazards at its line, with the properties that cover it.

## Modules

| Module | Models | Composes, extends |
|---|---|---|
| `Membership` | players, accounts, lobby, rooms, and every handler that moves a player | |
| `MembershipProofs` | its invariants and action properties, proved | `Membership`, `TLAPS` |
| `Link` | abstract: what a connection promises to a player | |
| `ClientSocket` | sockets, routers, sign-up timer, send queue, closing, reader; implements `Link` | `INSTANCE Link` |
| `ClientSocketProofs` | its invariants and the refinement of `Link`, and the invariants of `PacketStream`, proved | `ClientSocket`, `PacketStream`, `TLAPS` |
| `RoomThreads` | room threads, their references, md5, removal, death of Lua | |
| `RoomThreadsProofs` | its invariants, proved | `RoomThreads`, `TLAPS` |
| `Requests` | a game that asks players: requests, replies, request timer, wake-ups | |
| `RequestsProofs` | its invariants, proved | `Requests`, `TLAPS` |
| `Tasks` | tasks of the lobby: their maps, counts, coroutines and removal | |
| `TasksProofs` | its invariants, proved | `Tasks`, `TLAPS` |
| `PacketStream` | cutting the byte stream into packets | |
| `LuaLink` | the calls between a room's thread and its Lua process, the death of Lua, and shutdown with the joins of the room's, the Lua and the HTTP side (not of the shell and DbThread) | |
| `LuaLinkProofs` | its invariants, proved | `LuaLink`, `TLAPS` |
| `Bans` | sign-up, bans, mutes, white list and temporary bans of addresses, against the database and crashes | |
| `BansProofs` | its invariants, proved | `Bans`, `TLAPS` |
| `Packages` | PackMan's commands, the md5 and the summary | |
| `PackagesProofs` | its invariants, proved | `Packages`, `TLAPS` |
| `MC...` | the instances for TLC | the module named |

In `Membership`, `ClientSocket` and `RoomThreads` each operator that stands for a function takes a *world* (a record of all
variables) and returns the world after the call, so that a handler is written
as the composition of the calls it makes, in the order of the code; `Becomes`
turns a world into the next state. The operators keep the names of the
functions. Operators such as `LobbyRemoveForgets` are mutated versions of the
definition that follows them, with a comment saying so; nothing uses them
except `PROJECT.json`, which lists the property that each one breaks.

### Membership

`player[c]` is the object with connId `c`: account, state, link (no socket,
open, or closing), and place, its `roomId`. `online[u]` is
`online_players_map`, `lobby` and `room[r]` the lists, `posts` the checks
posted to the main loop. Actions are the handlers: `Login` is the end of a
successful `checkPassword`; `SocketClosed` is `onDisconnected`; `CreateRoom`,
`EnterRoom`, `ObserveRoom`, `QuitRoom`, `AddRobot`, `KickPlayer`, `Trust`,
`ChangeRoom` and `StartGame` are packets; `GameOver`, `DecreaseRefCount`,
`AddNpc` and `RemoveNpc` come from Lua; `RunPost` is the main loop;
`RefreshMd5`, `KillRoom`, `CheckLobby` and `KickUser` are the operator (and the
heartbeat). `Next` groups them as `Play`, `Manage` and `Administer`; `PlaySpec`
is the part that the questions about connections and reclaiming need.

Abstractions: members are sets, so an owner's heir is any online member
where the code takes the first; whether a character died, and whether somebody
is banned for running away, is a free choice; a kick always leaves the socket
closing, and closing at once is that step followed by `SocketClosed`; the
number of a dead player may be used again once nothing refers to it (`nextConnId` only
counts up); when dead seats are purged from a game that has just restarted, the
objects the destructors make go by the deleted numbers, and one check stands
for the several that are posted; rooms become outdated in `RefreshMd5`, because
`_refreshMd5` asks every room at once; `killroom` passes over fewer than half of the
members (`PassedOver`), which ones is free. A room may have capacity 0, as in the code
(`lobby.cpp:167`): nobody can enter it, so that no departure has it checked
(`Seatless`, which the two properties about abandoned rooms leave out). What the death of
Lua does to rooms is in `RoomThreads`.

### ClientSocket and Link

`sock[s]` has the descriptor, the reader, whether the connection still works,
the queue, the writes in flight, what each callback is bound to and the state of
the sign-up timer; `holder[p]` is the socket in player `p`'s router; `grabbed`
are the sockets a room thread has read and the main loop is to send on. A
socket lives as long as a router, one of its own callbacks or a write refers to
it (`Referenced`), and disappears at the end of the handler otherwise
(`Becomes`). One packet stands for all that set a client up.

`Link` is what the rest of the server relies on: a connection is up, closing
or gone, belongs to at most one player, changes hands only at a login or when a
player runs away, and never comes back. `ClientSocket` implements it under a
refinement mapping that calls a connection gone once it is closed or not read.

### RoomThreads

`thread[t]` has the md5, the reference count and the life of Lua, `rooms[t]` the
vector of its rooms (in order, because `shutdown` walks it); `room` and `task` say which
thread they use; `posts` are removals on their way. A refresh may come at any
time and may bring an earlier md5 back. `Visited` is what a range-for over a
`std::vector` meets when its body erases the visited element (the outcome of
libstdc++); a destroyed room with observers signals again, and what the nested
loop meets is a free choice. The posted removal holds a bare pointer; if the
thread is gone by then its old number is taken to be read and found nowhere.
`shutdown` runs on the main thread only here.

### Requests

One room and its humans. `pc` is where the room's coroutine is: it sets the
timer, asks (`DoRequest`, `Push`, then the main loop's `SendMessage`), polls
(`WaitForReply`) and yields until `ResumeRoom`. The script that does so is not
in the repository: its order of calls is taken from what the calls are for (timer before the
request, as the comment at `room.cpp:956` says; the thinking flag as late as it
can be) and it gives up once its time is over. On the main thread a client
replies, trusts, disconnects, reconnects or leaves (who runs away
is offline for good). A reply may be dropped at
any time, since a request's own timeout is another number than the room's
timer. The race on `expectedReplyIds` has its own step (`raced`): the
erased id may come back, or the new one be lost. Clients answer a request at most
once. A late reply to an older request *is* taken for the newer one, and a
player who was passed over may have an older reply taken; the model has both.

### Tasks

`task` is `task_map`, `listed` is `task_conn_id_map`, `jobs` are signals on the
room's thread, `lua` is the life of each coroutine, `away` the delays and
queries. `Task::start` is two steps, because the room's thread may run the task
to its end before its count is raised; `decreaseRefCount` is two steps too,
because the count is read again after the unlock. The map by request id is
left out: nothing sets it.

### PacketStream

Bytes are array heads, integers, heads of byte strings and their contents. Each is
marked with the packet and the field it was sent for; the decoder does not look at
the marks, they only end up in `delivered`, where the properties read them.
`Decode` is `PacketBuilder` run over the complete items
of the buffer, `Remaining` is what `handleBuffer` keeps. Only byte strings can
be cut in two; an integer cut in two would behave like one.

Once `handleBuffer` has dropped the head of a byte string whose contents are still to
come, the next read begins inside it (`Misaligned`) and decodes the contents as items,
which are whatever the client's data looks like. `DecodeContents` takes any outcome: no
packet or one that nobody sent, any rest that stays in the buffer, or the error
that ends the reader. `astray` records that this has happened; `Intact` speaks
of the time before.

### LuaLink

`pc` is where the thread is that has a call under way: the main thread for
`hello` and `bye`, the room's thread otherwise (`main` says which). `toLua` and
`toServer` are the pipes, `half` says that a part of the next packet was read,
`buf` is `cborBuffer`. A packet is its kind and its id; the CBOR around it is a
conversion. `Junk` stands for bytes that are no packet: what a package prints to the
pipe that is its stdout, or the tail of a packet whose beginning was thrown away.
`Read(n, h)` is one `read_some` that returns any number of whole packets and perhaps a part of the next, after which `wait` decodes *one* packet
and reads again: that is how an answer can be left in `cborBuffer` while Lua
already listens (`MutualWait`). Bytes that begin with junk may look incomplete for ever
(`Await`), hold something that is taken for a packet (`Mistake`), or be an error, upon
which everything read is dropped and the wait given up while Lua is still in it (`GiveUp`,
`rpc-lua.cpp:524`). `wait` moves the rest of `cborBuffer` to its front before it looks at
the packet, whose method is a view of that buffer: with anything behind it, a
notification may read like another one or like `hello` (`Seen`). `astray` counts the waits
that ended on bytes that were no packet, or on the wrong one.

A request of Lua is served at once or by the main loop (`ServeOnMain`, `RunOnMain`);
whether the dispatcher succeeds makes no difference to the control, since both answers
end Lua's request. A notification whose method is not known or fails is answered by an
error without id, which Lua passes over (`Replies`, `NoId`). Writing to
the pipe of a dead process ends the server (`Broken`); a pipe that is full is left out.

Lua itself is external: it says hello once, answers each call once, with a result
or an error, sends up to `MaxSent` packets before, printed text included, waits for the
answer to each request, and ends after `bye`.
It may die at any moment. `Quit` is `Server::stop` with the destructors: the
room's thread is joined, Lua is told goodbye and reaped, and the HTTP thread is
joined last; `HttpAsks` is an HTTP request that waits in `runOnMain`. There is
one room thread, which stands for each of them. The joins of the shell's and of the
database's thread are not modelled: neither has to do with Lua.

### Bans

`db` is what the connection sees, `saved` what survives a crash, `tx` the thread
with a transaction open. `Exec` is a single statement: on disk at once, or part
of whatever transaction is open on the connection, the other thread's too.
`auth` is the handler of the main thread (a sign-up, a chat, or a transaction
for game time), one step per statement; `shell` the command of the shell's
thread. `player[n]` is what `findPlayer` returns: nobody, or a player that is offline,
online, or online with a socket that was told to close and still has to write
(`closing`, `disconnectFromHost`), whose packets are handled until then. Older objects of an account, which `findPlayer` does not find, are the
subject of `Membership` (`single_session`). `temp_banlist` counts entries
of an address, `timers` the timers that will take one out each. A wrong setup
string, version, md5 or password are free choices.

`order` and `mutes` are history: the administrator's last word on an account.
The code has gaps in which an order does not last, each visible in the model and
marked `Shaky`: a permanent ban beside an older temporary entry is lifted with
it; an order given while a sign-up (a chat) is about to delete the expired one
goes with it; an order executed inside a transaction of the main thread (`pending`) is
lost if the server dies before the commit. A sign-up that had read the row before the
ban (`raced`) completes, and the player stays (`late`). The properties say that
these gaps are all; a crash makes an order `Shaky` only if it was pending, so that
`BanHolds` and `MuteHolds` speak of every other order across it.

### Packages

`hash` and `enabled` are the table, `disk` the checkouts, `disabled_packs` the
list in memory, `md5` and `summary` what clients are told, each as the content it
was computed from. A command of the shell is one step per statement, git
operation or assignment, each with its failure, and ends with a refresh handed
to the main loop, which takes the md5 and the summary in two steps. `Restart`
may come between any two steps. A client that clones gets the commits a summary
names.

`trouble` is history: the packages that a failure (a clone that deletes what was
there, an upgrade that moved HEAD and then failed, a directory that could not be
deleted), a restart (of whatever does not agree after it), or one of two gaps of the code (removing a
package while it is disabled, and disabling a name that is not installed: both leave the
name in `disabled_packs` for its next installation) has met. `syncpkgs` takes a package
out of it when only the hash was stale. `Followable` therefore says little about the
moment of a restart: its content is what commands, failures and refreshes do before and
after one. Likewise `DisabledStay` holds at a restart because the list is read from the table.

## Runs

| Run | Instance | Shows |
|---|---|---|
| `membership` | 2 accounts, 3 live objects, 1 room of 0 or 2 seats, 1 post | `TypeOK`; `Placement`: whoever is listed is alive and believes to be there; `OnlineMapSound`; `OwnerSeated`; `AbandonedRoomIsChecked`: a room with seats and without humans that does not play has a check on its way; `GhostSeatIsTemporary`: a seat without a socket lives until the check after the game |
| `reclaim` | 1 account, 3 objects, capacity 0, 1 and 2, 2 posts, play only, fair | `ConnectionsKept`: an account loses a connection only when a socket closes; `RoomReclaimed`: a room with seats and without humans is removed or somebody comes back; `StaysListed`: a connected player stays in the list of the lobby or of its room, unless it quits in a state other than Online |
| `single_session` | violation | `SingleSession` fails, see below |
| `sockets` | 2 sockets, 2 players, 4 packets per socket | `TypeOK`; `InOrder`; `Heard`: a player's socket is open, read and bound to it; `NoLeak`: only a write keeps a dead socket; `KickUnderWay`: an open socket told to close has a write in flight, which closes it; `FlushedBeforeClose`; `LinkKept`: refinement of `Link` |
| `threads` | 3 threads of 3 places, 4 rooms, 2 tasks, 2 md5s | `RefCountExact`; `ThreadsStay`: no thread is removed under a room or task; `IdleThreadsGo`: an outdated thread nobody uses is about to be removed |
| `requests` | 2 players, 3 requests, 1 repeatable wake-up, fair | `NoLostWakeUp`: the room never sleeps through a reply, a player who left or trusts, or its timer; `TakenOnce`: no reply answers two sent requests; `RoundEnds`: every round ends |
| `tasks` | 2 players, 3 tasks | `TasksOfTheLobby`: lists are exact and no task outlives its user's stay in the lobby; `NoStrayCoroutine`: the coroutine of a removed task is about to be closed |
| `reads` | 2 packets with short and long data, any reads | `Intact`: until a read begins inside a byte string, what is delivered is whole, with its fields in their places, in order, and once; `WholeReadsDeliver`: nothing is lost while reads end where packets end |
| `lua_link` | 1 signal, ids up to 2, 2 packets of Lua per call, 1 wait that goes astray, fair | `NothingStray`: between two calls nothing is on its way but errors that answer notifications, and Lua is in no call, unless a wait went astray; `WaitsHaveCause`: Lua and the thread wait for each other only over bytes left in `cborBuffer`, or after a wait went astray; `CallReturns`: a call comes back, or that happens, or the server ends; `QuitEnds`: quitting ends, unless a joined thread waits for the main loop, or Lua for an answer nobody gives |
| `bans` | 2 accounts, 1 address, 1 device, 2 moments, 2 commands | `TypeOK`; `BanHolds`: a ban in force is in the table and no sign-up gets past it; `BannedAreOut`: the socket of who is banned is closed or told to close; `MuteHolds`; `TempBansHeld`: an address is refused exactly as long as a timer runs for it; `GameInfoOfPlayers`: whoever is signed in has a saved row for the game time |
| `packages` | the core and 1 package, 2 commits, 2 refreshes waiting | `TypeOK`; `Fresh`: with nothing under way the md5 and the summary are those of now; `Followable`: outside `trouble` a client that installs the summary gets past the md5; `DisabledStay`: what the table disables is left out by new Lua processes, after a restart too |
| `split_packets` | violation, 2 packets, any reads | `AllDelivered` fails, see below |

Bounds. Two accounts and three objects are enough for a takeover while a
seat is being played by a robot and for a runaway beside it; a room of two has
an owner, an heir, a robot or a dead seat. `MaxPosts` bounds the checks waiting
at once: the step that would post one more waits for the main loop. Two posts
for one room are the interesting case (the end of a game after the last human
left), and `reclaim` has them; with one the whole of `Next`
is explored. Two sockets suffice for a takeover, two players for a runaway, and
four packets for a queue that is written, extended and closed. A thread of
three places is the smallest on which a walk over a shortened vector passes one
room over. Data of length 14 is the shortest for which `handleBuffer` keeps a
rest after a packet it has handled, and two packets are one handled and one cut. Three
requests are one player asked three times, or two players asked at once and one of them again, with the reply to
the first request still on its way.

One waiting signal and two ids are enough for a call after a call and for ids that
start again, since the next signal may come while a call is under way; two packets per
call hold a notification or printed text and a request before the answer. After one wait
that went astray the properties of the link claim nothing but that what hangs hangs for
that reason, so a second would add nothing. Two commands of the shell are a ban and its
counter-order, or a temporary and a permanent ban; two moments of the clock are
before and after an expiry; two accounts of one device meet
`maxPlayersPerDevice`, two entries of `temp_banlist` are two runaways of one
address. One package beside the core has every command and failure; two commits
are one upgrade; two waiting refreshes are one that runs while another command
has handed in its own. `MaxRefresh` makes the shell wait, not lose a refresh.

Deadlock checking is off where an instance may really stop: all connIds
of the bound in use by dead objects, all packets sent and read, or a client
that does nothing more, or, in `LuaLink`, a server that has ended or hangs in a join.

Fairness. `RoomReclaimed` assumes weak fairness of `RunPost`, the main
loop, which runs all it is given, and strong fairness of `DecreaseRefCount`:
Lua ends every game, since its requests have timers and an abandoned room is
woken up; strong, because the bound on posts disables the step now and then.
A kick depends on the kernel: `KickUnderWay` shows that a write in flight is all
a kicked socket waits for. A peer that keeps its connection and never reads
blocks it, and the code has no timer against that.
`CallReturns` and `QuitEnds` assume weak fairness of the server's threads
(`Work`, and `HttpRuns` for the main loop) and of Lua (`LuaWork`): a function of
Lua ends after finitely many packets. That is an assumption on the packages; the
server has no timeout against a script that does not return.
`RoundEnds` assumes weak fairness of the room's thread, of the main loop's send
and of the timer, and nothing of the clients.

### What the violations show

* **single_session.** A kicked object whose queue still drains goes on handling
  packets. If it creates a room, starts a game and leaves it,
  `createRunnedPlayer` takes the account's entry away from the newer session,
  and the next login kicks only the runaway: two open sockets. The comment at
  `auth.cpp:469` says that whoever is online is kicked.
* **split_packets.** `handled` in `handleBuffer` is never updated, and
  `real_consumed` is compared with the bytes that are left: the beginning of a
  packet that arrives after a whole one in the same read is lost, and so is a
  packet cut exactly between two items.

### Known behaviour that the properties make room for

Some properties name an exception because the code has it; none is wider than
the model needs.

* `quitRoom` returns the sender to the lobby only when its state is Online: a
  player still in state Trust after the game, when it quits, is in no list, while
  `serverplayer.h:91` calls `roomId` the "Room that player is in, maybe lobby"
  (the exception of `StaysListed`).
* A client may create a room of capacity 0, which nobody can enter and nothing removes
  (`Seatless`).
* A packet that is split may leave the contents of a byte string to be decoded as items,
  and a packet nobody sent to be delivered (`DecodeContents`).
* `killroom` passes over one of three members, and two of five (`PassedOver`).
* A banned player told to close stays until its last packet is written
  (`closing`; a peer that does not read makes that never).
* `shutdown` walks `m_rooms` while `~Room` erases from it: of three rooms one is
  passed over and stays on a thread without Lua until it signals again
  (`Visited`, `EmitSignal`).
* A notification and the answer after it in one read: the call does not come back
  (`MutualWait`). A notification read together with what follows it may be taken for
  another method (`Seen`), and text that Lua prints for a packet or for an error that ends
  the call (`Mistake`, `GiveUp`).
* A room's thread in `doNotify` or `gameOver`, or the HTTP thread in `runOnMain`,
  when the main loop has stopped: the join does not end (`QuitEnds`).
* Bans and mutes that do not last (`Shaky`, `raced`), and packages that clients
  cannot follow (`trouble`): see `Bans` and `Packages` above.

## Proofs

Eight modules prove the safety properties of nine with TLAPS, for
every value of the constants. Each of the nine has an inductive invariant (`Consistency` in
`Membership`, `StreamInv` in `PacketStream`, `IInv` elsewhere) that the initial states satisfy and every action keeps,
with one lemma per action or function and one step per part the action can disturb; the
properties follow from it. The assumptions are those the modules state about their
constants: special values such as `None` are none of the ordinary ones, and bounds are
natural numbers. One theorem has a hypothesis of its own (`ConnectionsAreKept`).
Theorems are about `Spec` (`StreamSpec` in `PacketStream`), so they hold under every fairness a run adds, and of
`PlaySpec`, whose steps are steps of `Spec`.

**Membership.** `[]TypeOK` (`TypeCorrect`), `[]Placement` (`PlacementHolds`),
`[]OnlineMapSound` (`OnlineMapSoundHolds`), `[]OwnerSeated` (`OwnerSeatedHolds`),
`[]GhostSeatIsTemporary` (`GhostSeatsAreTemporary`), `[]AbandonedRoomIsChecked`
(`AbandonedRoomsAreChecked`), and the action properties `StaysListed`
(`PlayersStayListed`) and `ConnectionsKept` (`ConnectionsAreKept`). `Consistency` (`ConsistencyInvariant`) is the types,
`Placed`, `EntriesSound`, `OwnersSit` and `RobotsUnlinked` together. None of the
four is inductive alone. `Placed` needs `RobotsUnlinked`, because adding
somebody to the lobby deletes robots; `OwnersSit` needs `Placed`, because a
deleted player leaves the room it *believes* to be in, and an owner elsewhere
would stay; `EntriesSound` needs the types of the entries and of the players they
name. Since handlers are compositions of operators on worlds, there is one
lemma per operator (consistent worlds lead to consistent worlds, under the
condition the callers establish), one per action, and the last step combines
them with `PTL`.

The two properties about checks go the same way with a relation: `Carries(w, v, r)`
says that room `r`, if it had the checks it needed in world `w`, has them in `v`. Most
operators disturb at most one room and are dealt with by `Undisturbed`; what is left is
the code that answers for a room: the end of `removePlayer` posts a check when the last
socket goes (`ResettleCarries`), `decreaseRefCount` posts one at the end of a game, and a
check that runs takes itself out of the queue but leaves its room gone, in use or with
another check (`CheckCarries`). A robot joins only a room whose owner is there, by
`Consistency`, or whose game runs. Rooms without seats are among those the theorems speak
of: such a room is created empty and without a check, so `AbandonedRoomIsChecked` leaves
it out (`Seatless`) and `CreateRoomTends` shows that every other room is entered by its
creator; `GhostSeatsAreTemporary` makes no exception.

The two action properties rest on a relation between the worlds before and after an
operator: `Spares(w, v, c)` says that player `c`, if it has a socket in `w`, has one in
`v` under the same account, and is still listed where it believes to be if it was.
Nearly every operator spares everybody: `DestroyRoom` and `LobbyAddPlayer` move players and
lists together, `PurgeIdle` and `PurgeStarted` delete players without a socket only, and
a login gets an object that nothing names yet. `NextSpares` sums up what a step can do
(`ConnectionStep`): spare everybody; or close the socket of one player; or be the `quitRoom`
of one player, who either keeps its socket but was not `Online`, or has run away from a game
and left its socket to a new object of its account (`RunawayReplaced`). Counting the
connections of an account supposes that there are finitely many objects (`IsFiniteSet(Conns)`),
which the code's memory justifies; `Cardinality` means nothing otherwise.

**ClientSocket.** `[]TypeOK`, `[]InOrder` (`PacketsLeaveInOrder`), `[]Heard`
(`PlayersHearTheirSocket`), `[]NoLeak` (`NothingLeaks`), `[]KickUnderWay`
(`KicksAreUnderWay`), `FlushedBeforeClose` (`ClosesAreFlushed`) and the refinement of
`Link` (`ConnectionsImplementLink`). Within a handler `Sound` holds: what a socket has
on the wire, in flight and in the queue is one run of numbers that ends with the last
packet sent, and the callbacks of a socket and the router that uses it name each other.
`IInv` adds what the end of a handler establishes: a socket that is not free is open and
referenced. The refinement then takes each action to a step of `Link` or to a stutter.

**PacketStream.** `[]Intact` (`DeliveredIntact`) and `[]WholeReadsDeliver`
(`WholeReadsDelivered`), for any number of packets, any lengths of data and any reads, in
`ClientSocketProofs`. `StreamInv` (`StreamInvariance`): until a read begins inside a byte string
(`astray`), buffer and wire together are the rest of what was sent (`Left`), whatever was
decoded, dropped or kept, and only whole packets that began before that rest were delivered
(`InFull`); as long as reads end where packets end, no read begins there, the buffer is empty
and all packets before the rest were delivered. After a read has gone astray nothing is
proved, since nothing holds. `Left`
is a grammar, stated byte by byte: `Fits` says what a byte of a packet looks like, `Follows`
which byte may come after which, and no byte string is cut at the end. A piece of such a stream
is one again (`FirstIsPiece`, `RestIsLeft`), and a packet more goes on where the others end
(`EncodeIsLeft`, `Extended`).

The decoder is the recursive function in `Decode`. `After(c, s, i)` says in closed form what
the builder is after `i` bytes: the packets that began in `s` and have ended are handled, the
one under way is valid with its fields so far, and the end of a packet that began before `s`
leaves no trace. `AfterStep` shows that one more byte is one call of `Item`; so `After` solves
the recursion, which therefore has a solution, and agrees with it at every byte
(`DecodeIs`). Induction over the bytes is `Upto`, which takes a set where the library's
theorem takes a predicate, and follows from a least counterexample (`Least`).
`RemainingIs` then says what `handleBuffer` keeps: if a packet was handled, nothing up to the
last item, so no packet comes twice. `AllDelivered` is false (run `split_packets`), and `StreamInv`
shows where: without whole reads it bounds what was delivered from one side only.

**RoomThreads.** `[]RefCountExact` (`CountsAreExact`), `[]ThreadsStay`
(`NoThreadIsTaken`) and `[]IdleThreadsGo` (`NoThreadIsLeft`). The counts have to be exact
*within* a handler too, so `Sound(w, t, n)` speaks of a world in which `n` references of
thread `t` are let go but not yet counted; `IInv` is the case `n = 0`. A posted
removal does not look at the count again: the invariant says that what it names
is gone, or outdated without users, and nobody takes an outdated thread.

**Requests.** `[]NoLostWakeUp` (`WakeUpsAreKept`) and `[]TakenOnce`
(`RepliesAreTakenOnce`). `Polled` and `Waiting`: what a poll has seen of a player still
holds or a wake-up is on its way, because whoever changes it sends one. `AnsweredOnce` and
`NewReplies`: ids are new, a client loses a request by answering it, and a router forgets
its reply before its player is polled for a new request.

**Tasks.** `[]TasksOfTheLobby` (`ListsAreExact`) and `[]NoStrayCoroutine`
(`NoCoroutineIsLeft`). Both are inductive with the types once it is known that finitely
many tasks exist (removing all tasks of a user walks a sequence of them) and that
the task `start` still uses exists.

**LuaLink.** `[]NothingStray` (`NothingIsStray`) and `[]WaitsHaveCause`
(`WaitsAreCaused`). While Lua lives and no wait has ended on the wrong bytes, the link is in
one of seven phases (`Resting`, `Called`, `Running`, `Asking`, `Served`, `Replied`,
`Answered`), each of which says what the pipes and the buffer hold and whose turn it is: a
request or an answer of Lua is the last packet of the input, with nothing before it but
notifications and text (`Asides`), and what Lua waits for has nothing before it but errors
without id. An aside that is overwritten, answered or passed over leaves the phase as it
is; what a wait can end on besides is counted in `astray`. A packet read
and not decoded keeps its place before those still in the pipe, so the phases speak of
buffer and pipe as one `Input`. How many packets of the input have been read is left
open, which is what a `read_some` of any size needs.

**Bans.** `[]TypeOK`, `[]BanHolds` (`BansAreKept`), `[]BannedAreOut` (`BannedAreKicked`),
`[]MuteHolds` (`MutesAreKept`), `[]TempBansHeld` (`TempBansAreTimed`) and
`[]GameInfoOfPlayers` (`PlayersHaveGameInfo`). Each part of `IInv` follows the sign-up,
the transaction and the command statement by statement: `BanKept` says what the row a sign-up has read is
worth, `DiskKept` that every order that is not pending is on disk, so that a crash brings it
back, `OutKept` which command is still to kick, and
`GameKept` what is on disk already. `Shaky` keeps out exactly the gaps listed above.

**Packages.** `[]TypeOK`, `[]Fresh` (`FreshHolds`), `[]Followable` (`FollowableHolds`) and
`[]DisabledStay` (`DisabledStayHolds`), for any set of packages, any number of commits and
of waiting refreshes. The inductive
invariant `IInv` (`PackagesInvariant`) has, besides the types and `DisabledStay`,
what none of the properties says: the core's row says enabled (`CoreEnabled`); the
command in hand names a package that fits its step (`Named`); no checkout is
ahead of its repository (`NotAhead`); the md5 (`Md5Fresh`) and the summary
(`SummaryFresh`) are those of now whenever no refresh is due: neither waiting, nor
owed by the command in hand, nor, for the summary, in its second half; and `Coherence`:
a package outside `trouble` either agrees between table, directory and memory or is
half-way through the command in hand. `Followable` then follows from `Fresh` and
`Coherence`, since nothing is half-way when nothing is under way.

Only model-checked: the liveness properties `RoomReclaimed`, `RoundEnds`, `CallReturns` and
`QuitEnds`: reasoning about fairness and `ENABLED` is out of the prover's reach. The two violations are shown by TLC's counterexamples.

## Not modelled

Game data, win and run rates, readiness, avatars, passwords and their encryption,
and the contents of save states change no state that the modelled parts read. The
players' game timers need clocks of their own; there `pauseGameTimer`
(`serverplayer.cpp:263`) adds a stretch again when a player who trusts goes
offline. HTTP parsing and the listings of the administrator are I/O; CBOR,
compression, md5 and SQL are conversions, kept only where a property depends on
them. libgit2 and the Lua scripts are external. Start-up, options and third-party
code have no behaviour of their own. The race of `shutdown` on a room's thread
with the maps of the main thread would need a model of the containers' memory.

## Plan

What is left, in order of importance:

1. Readiness, `manuallyStart` and the heartbeat's ttl in `Membership`.
2. DbThread and save states: answers that arrive after their player has gone.

Abstract specifications worth stating: a reliable FIFO of packets for
`PacketStream` with whole reads, and an account's session for `Membership`.
