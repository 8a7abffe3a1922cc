-------------------------------- MODULE Bans --------------------------------
(***************************************************************************)
(* Who may sign in. A sign-up is one handler of the main thread, but it    *)
(* reads and writes the database statement by statement, on the connection *)
(* that the shell's thread uses at the same time to ban and to unban. What *)
(* is executed inside a transaction of the other thread becomes part of it *)
(* and is lost with it if the server dies. Temporary bans of an address    *)
(* for running away live in memory only. Mutes are rows like bans, which   *)
(* the next word in the chat takes away when they have run out.            *)
(***************************************************************************)
EXTENDS Integers, FiniteSets

CONSTANTS
    Names,      \* names of accounts
    Addrs,      \* addresses of clients
    Uuids,      \* devices
    MaxTime,    \* the clock stops here
    MaxTemp,    \* entries of temp_banlist
    PerDevice,  \* maxPlayersPerDevice
    MaxCommands \* commands given to the shell

ASSUME Bounds ==
    /\ MaxTime \in Nat /\ MaxTemp \in Nat /\ PerDevice \in Nat /\ MaxCommands \in Nat
    /\ "none" \notin Names \cup Addrs \cup Uuids

VARIABLES
    db,             \* the database as the server's connection sees it
    saved,          \* the database as a new start of the server would see it
    tx,             \* the thread that has a transaction open, or "none"
    pending,        \* bans and mutes ordered while one was open, which ends with it
    now,            \* the clock
    temp_banlist,   \* how often each address is in temp_banlist
    timers,         \* how many timers wait to take an address out again
    waiting,        \* addresses of connections that have not sent Setup yet
    player,         \* what findPlayer returns for each account
    auth,           \* the handler that runs on the main thread
    shell,          \* the command that runs on the shell's thread
    order,          \* what the administrator has brought about for each account
    mutes,          \* the same for mutes
    commands        \* how many commands were given

store == <<db, saved, tx, pending>>
temps == <<temp_banlist, timers>>
vars == <<store, now, temps, waiting, player, auth, shell, order, mutes, commands>>

None == "none"
NoEntry == -1               \* no row in tempban
NoOrder == -1
Shaky == -2                 \* a ban with one of the gaps listed at Lifting
Forever == MaxTime + 1
Times == 0..MaxTime

Tables == [known : SUBSET Names, banned : SUBSET Names,
           ip : [Names -> Addrs \cup {None}], uuid : [Names -> Uuids \cup {None}],
           tempban : [Names -> Times \cup {NoEntry}],
           tempmute : [Names -> Times \cup {NoEntry}], game : SUBSET Names,
           whitelist : SUBSET Names, banip : SUBSET Addrs, banuuid : SUBSET Uuids]

Empty == [known |-> {}, banned |-> {},
          ip |-> [n \in Names |-> None], uuid |-> [n \in Names |-> None],
          tempban |-> [n \in Names |-> NoEntry],
          tempmute |-> [n \in Names |-> NoEntry], game |-> {},
          whitelist |-> Names, banip |-> {}, banuuid |-> {}]

NoPlayer == [is |-> "none", addr |-> None, late |-> FALSE]
Idle == [pc |-> "idle", name |-> None, addr |-> None, uuid |-> None,
         banned |-> FALSE, raced |-> FALSE]
Prompt == [pc |-> "idle", name |-> None, until |-> NoEntry]

Init ==
    /\ db = Empty /\ saved = Empty /\ tx = "none" /\ pending = {} /\ now = 0
    /\ temp_banlist = [a \in Addrs |-> 0] /\ timers = [a \in Addrs |-> 0]
    /\ waiting = {} /\ player = [n \in Names |-> NoPlayer]
    /\ auth = Idle /\ shell = Prompt
    /\ order = [n \in Names |-> NoOrder] /\ mutes = order /\ commands = 0

-----------------------------------------------------------------------------
(* The database *)

\* Sqlite3::exec: on disk at once, unless somebody has begun a transaction.
Exec(new) ==
    /\ db' = new
    /\ saved' = IF tx = "none" THEN new ELSE saved
    /\ UNCHANGED <<tx, pending>>

\* The same for the statement that gives an order of the administrator.
ExecOrder(new, what) ==
    /\ db' = new
    /\ saved' = IF tx = "none" THEN new ELSE saved
    /\ pending' = IF tx = "none" THEN pending ELSE pending \cup {what}
    /\ UNCHANGED tx

\* beginTransaction, which waits for transaction_mutex, and a first statement.
Begin(who, new) ==
    /\ tx = "none" /\ tx' = who
    /\ db' = new /\ UNCHANGED <<saved, pending>>

\* An endTransaction that forgets to commit.
CommitNothing == tx' = "none" /\ pending' = {} /\ UNCHANGED <<db, saved>>

\* endTransaction
Commit == tx' = "none" /\ saved' = db /\ pending' = {} /\ UNCHANGED db

-----------------------------------------------------------------------------
(* The main thread *)

MainFree == auth = Idle

\* The handler is over, whatever it has reached.
Refused == auth' = Idle

\* UserManager::processNewConnection: banned addresses are turned away.
Connect(a) ==
    /\ MainFree /\ a \notin waiting
    /\ a \notin db.banip /\ temp_banlist[a] = 0
    /\ waiting' = waiting \cup {a}
    /\ UNCHANGED <<store, now, temps, player, auth, shell, order, commands, mutes>>

\* AuthManager::processNewConnection, up to the checks that need no account: the
\* setup string, the version, the device, the md5 and the white list.
Setup(a, n, u) ==
    /\ MainFree /\ a \in waiting
    /\ waiting' = waiting \ {a}
    /\ auth' \in {Idle} \cup
         (IF u \in db.banuuid \/ n \notin db.whitelist THEN {}
          ELSE {[Idle EXCEPT !.pc = "row", !.name = n, !.addr = a, !.uuid = u]})
    /\ UNCHANGED <<store, now, temps, player, shell, order, commands, mutes>>

\* A registration that leaves lastLoginIp to the first login.
QueryUserInfoNoIp ==
    /\ auth.pc = "row"
    /\ IF auth.name \in db.known
       THEN /\ auth' = [auth EXCEPT !.pc = "ban", !.banned = auth.name \in db.banned]
            /\ UNCHANGED store
       ELSE /\ Exec([db EXCEPT !.known = @ \cup {auth.name}])
            /\ auth' = [auth EXCEPT !.pc = "registered"]
    /\ UNCHANGED <<now, temps, waiting, player, shell, order, commands, mutes>>

\* queryUserInfo: the account's row, or its registration. Only this thread
\* registers, so that the count of the device's accounts is not stale.
QueryUserInfo ==
    /\ auth.pc = "row"
    /\ LET n == auth.name IN
       IF n \in db.known
       THEN /\ auth' = [auth EXCEPT !.pc = "ban", !.banned = n \in db.banned]
            /\ UNCHANGED store
       ELSE IF Cardinality({m \in Names : db.uuid[m] = auth.uuid}) >= PerDevice
       THEN Refused /\ UNCHANGED store
       ELSE /\ Exec([db EXCEPT !.known = @ \cup {n}, !.ip[n] = auth.addr])
            /\ auth' = [auth EXCEPT !.pc = "registered"]
    /\ UNCHANGED <<now, temps, waiting, player, shell, order, commands, mutes>>

\* The rest of a registration: the new row is read, and usergameinfo gets one.
Registered ==
    /\ auth.pc = "registered"
    /\ Exec([db EXCEPT !.game = @ \cup {auth.name}])
    /\ auth' = [auth EXCEPT !.pc = "ban", !.banned = auth.name \in db.banned]
    /\ UNCHANGED <<now, temps, waiting, player, shell, order, commands, mutes>>

\* A ban that ends one second, or day, too early.
ExpiredEarly(n) == db.tempban[n] # NoEntry /\ db.tempban[n] <= now + 1

\* getBanExpire: the temporary entry, if there is one, is in the past.
Expired(n) == db.tempban[n] # NoEntry /\ db.tempban[n] <= now

\* checkPassword asks for the ban that it found in the row.
CheckBanned ==
    /\ auth.pc = "ban"
    /\ IF ~auth.banned THEN auth' = [auth EXCEPT !.pc = "password"]
       ELSE IF Expired(auth.name) THEN auth' = [auth EXCEPT !.pc = "delete"]
       ELSE Refused
    /\ UNCHANGED <<store, now, temps, waiting, player, shell, order, commands, mutes>>

\* getBanExpire: DELETE FROM tempban
DeleteTempban ==
    /\ auth.pc = "delete"
    /\ Exec([db EXCEPT !.tempban[auth.name] = NoEntry])
    /\ auth' = [auth EXCEPT !.pc = "lift"]
    /\ UNCHANGED <<now, temps, waiting, player, shell, order, commands, mutes>>

\* getBanExpire: UPDATE userinfo SET banned=0
LiftBan ==
    /\ auth.pc = "lift"
    /\ Exec([db EXCEPT !.banned = @ \ {auth.name}])
    /\ auth' = [auth EXCEPT !.pc = "password"]
    /\ UNCHANGED <<now, temps, waiting, player, shell, order, commands, mutes>>

Offline(p) == [p EXCEPT !.is = "offline", !.addr = None, !.late = FALSE]

\* isOnline: a socket that is closing counts.
HasSocket(n) == player[n].is \in {"online", "closing"}

\* A connection that ends leaves the object to its game, or takes it along.
Disconnected(n) == {NoPlayer, Offline(player[n])}

\* disconnectFromHost with packets in the queue: the socket closes after the last
\* of them, and until then its packets are handled.
Closing(n) == [player[n] EXCEPT !.is = "closing"]

\* ServerPlayer::kick
Kicked(n) == IF HasSocket(n) THEN Disconnected(n) \cup {Closing(n)} ELSE {player[n]}

\* checkPassword: whoever is online under the name is told so, which leaves a
\* packet in the queue, and kicked.
CheckPassword ==
    /\ auth.pc = "password"
    /\ \/ Refused /\ UNCHANGED player
       \/ /\ auth' = [auth EXCEPT !.pc = "update"]
          /\ player' = IF HasSocket(auth.name)
                       THEN [player EXCEPT ![auth.name] = Closing(auth.name)] ELSE player
    /\ UNCHANGED <<store, now, temps, waiting, shell, order, commands, mutes>>

\* An update that trusts queryUserInfo to have made the row of usergameinfo.
UpdateRowsOnly ==
    /\ auth.pc = "update"
    /\ Begin("main", [db EXCEPT !.ip[auth.name] = auth.addr,
                                !.uuid[auth.name] = auth.uuid])
    /\ auth' = [auth EXCEPT !.pc = "commit"]
    /\ UNCHANGED <<now, temps, waiting, player, shell, order, commands, mutes>>

\* updateUserLoginData: a transaction over three tables. The row of usergameinfo
\* is made again for those who have none.
UpdateUserLoginData ==
    /\ auth.pc = "update"
    /\ Begin("main", [db EXCEPT !.ip[auth.name] = auth.addr,
                                !.uuid[auth.name] = auth.uuid,
                                !.game = @ \cup {auth.name}])
    /\ auth' = [auth EXCEPT !.pc = "commit"]
    /\ UNCHANGED <<now, temps, waiting, player, shell, order, commands, mutes>>

CommitLogin ==
    /\ auth.pc = "commit"
    /\ Commit
    /\ auth' = [auth EXCEPT !.pc = "create"]
    /\ UNCHANGED <<now, temps, waiting, player, shell, order, commands, mutes>>

\* createNewPlayer makes a new object, at which the kick of a command that found
\* the older one does not aim; reconnect goes on with the one inside a game.
Create ==
    /\ auth.pc = "create"
    /\ player' = [player EXCEPT ![auth.name] =
                    [is |-> "online", addr |-> auth.addr, late |-> auth.raced]]
    /\ \E new \in BOOLEAN :
        /\ player[auth.name].is = "none" => new
        /\ player[auth.name].is = "offline" => ~new
        /\ shell' = IF new /\ shell.pc = "kick" /\ shell.name = auth.name THEN Prompt ELSE shell
    /\ auth' = Idle
    /\ UNCHANGED <<store, now, temps, waiting, order, commands, mutes>>

\* updatePlayerGameTime, another transaction of the main thread.
GameTime ==
    /\ \/ /\ MainFree /\ Begin("main", db)
          /\ auth' = [Idle EXCEPT !.pc = "gametime"]
       \/ /\ auth.pc = "gametime" /\ Commit
          /\ auth' = Idle
    /\ UNCHANGED <<now, temps, waiting, player, shell, order, commands, mutes>>

\* A player goes: its connection ends, or the game that kept its object.
Leave(n) ==
    /\ MainFree /\ player[n].is # "none"
    /\ \E p \in Disconnected(n) : p # player[n] /\ player' = [player EXCEPT ![n] = p]
    /\ UNCHANGED <<store, now, temps, waiting, auth, shell, order, commands, mutes>>

\* temporarilyBan, for a player who ran away from a game: its address, or the one
\* it had last, is refused until the timer takes it out again.
TemporarilyBan(n) ==
    /\ MainFree /\ player[n].is # "none"
    /\ LET a == IF HasSocket(n) THEN player[n].addr ELSE db.ip[n] IN
       /\ temp_banlist[a] < MaxTemp
       /\ temp_banlist' = [temp_banlist EXCEPT ![a] = @ + 1]
       /\ timers' = [timers EXCEPT ![a] = @ + 1]
    /\ \E p \in Kicked(n) : player' = [player EXCEPT ![n] = p]
    /\ UNCHANGED <<store, now, waiting, auth, shell, order, commands, mutes>>

\* A timer that takes out every entry of its address.
TempBanEndsAll(a) ==
    /\ MainFree /\ timers[a] > 0
    /\ timers' = [timers EXCEPT ![a] = @ - 1]
    /\ temp_banlist' = [temp_banlist EXCEPT ![a] = 0]
    /\ UNCHANGED <<store, now, waiting, player, auth, shell, order, commands, mutes>>

\* The timer of temporarilyBan takes out the first entry it finds.
TempBanEnds(a) ==
    /\ MainFree /\ timers[a] > 0
    /\ timers' = [timers EXCEPT ![a] = @ - 1]
    /\ temp_banlist' = [temp_banlist EXCEPT ![a] = IF @ > 0 THEN @ - 1 ELSE 0]
    /\ UNCHANGED <<store, now, waiting, player, auth, shell, order, commands, mutes>>

\* RoomBase::chat by a player whose mute has run out: isMuted reads the row ...
Chat(n) ==
    /\ MainFree /\ HasSocket(n)
    /\ db.tempmute[n] # NoEntry /\ now > db.tempmute[n]
    /\ auth' = [Idle EXCEPT !.pc = "unmute", !.name = n]
    /\ UNCHANGED <<store, now, temps, waiting, player, shell, order, commands, mutes>>

\* ... and deletes whatever is there by then.
DeleteMute ==
    /\ auth.pc = "unmute"
    /\ Exec([db EXCEPT !.tempmute[auth.name] = NoEntry])
    /\ auth' = Idle
    /\ UNCHANGED <<now, temps, waiting, player, shell, order, commands, mutes>>

-----------------------------------------------------------------------------
(* The shell's thread *)

\* The next command is read, and names an account that exists.
Command(n) ==
    /\ shell = Prompt /\ n \in db.known
    /\ commands < MaxCommands /\ commands' = commands + 1

\* The sign-up of n has found its ban expired and is about to lift it. An order
\* given meanwhile is undone with the older one. So is a permanent ban beside an
\* older temporary entry, and what was pending when the server died.
Lifting(n) == auth.name = n /\ auth.pc \in {"delete", "lift"}

\* A sign-up of n that has read the row does not see that it changes.
Overtaken(n) ==
    auth' = [auth EXCEPT !.raced = @ \/ (auth.name = n /\ auth.pc \notin {"row", "registered"})]

\* banAccount: the flag; then whoever is there is looked up and kicked.
BanAccount(n) ==
    /\ Command(n)
    /\ ExecOrder([db EXCEPT !.banned = @ \cup {n}], <<"ban", n>>)
    /\ Overtaken(n)
    /\ order' = [order EXCEPT ![n] =
                    IF Lifting(n) \/ db.tempban[n] # NoEntry THEN Shaky ELSE Forever]
    /\ shell' = [Prompt EXCEPT !.pc = "find", !.name = n]
    /\ UNCHANGED <<now, temps, waiting, player, mutes>>

\* tempbanCommand: the flag first. The time was computed before.
Tempban(n, t) ==
    /\ Command(n) /\ t >= now
    /\ Exec([db EXCEPT !.banned = @ \cup {n}])
    /\ Overtaken(n)
    /\ shell' = [pc |-> "tempban", name |-> n, until |-> t]
    /\ UNCHANGED <<now, temps, waiting, player, order, mutes>>

\* A tempbanCommand that leaves the player alone.
TempbanRowOnly ==
    /\ shell.pc = "tempban"
    /\ LET n == shell.name IN
       /\ ExecOrder([db EXCEPT !.tempban[n] = shell.until], <<"ban", n>>)
       /\ Overtaken(n)
       /\ order' = [order EXCEPT ![n] =
                       IF Lifting(n) \/ n \notin db.banned THEN Shaky ELSE shell.until]
    /\ shell' = Prompt
    /\ UNCHANGED <<now, temps, waiting, player, commands, mutes>>

\* tempbanCommand: REPLACE INTO tempban.
TempbanRow ==
    /\ shell.pc = "tempban"
    /\ LET n == shell.name IN
       /\ ExecOrder([db EXCEPT !.tempban[n] = shell.until], <<"ban", n>>)
       /\ Overtaken(n)
       /\ order' = [order EXCEPT ![n] =
                       IF Lifting(n) \/ n \notin db.banned THEN Shaky ELSE shell.until]
    /\ shell' = [Prompt EXCEPT !.pc = "find", !.name = shell.name]
    /\ UNCHANGED <<now, temps, waiting, player, commands, mutes>>

\* unbanCommand: the flag; the entry in tempban is left where it is.
Unban(n) ==
    /\ Command(n)
    /\ Exec([db EXCEPT !.banned = @ \ {n}])
    /\ order' = [order EXCEPT ![n] = NoOrder]
    /\ shell' = [Prompt EXCEPT !.pc = "unbanuuid", !.name = n]
    /\ UNCHANGED <<now, temps, waiting, player, auth, mutes>>

\* unbanUuidCommand, alone or as the end of unbanCommand: the device the account
\* used last, which need not be the one that was banned.
UnbanUuid(n) ==
    /\ Command(n) \/ (shell.pc = "unbanuuid" /\ shell.name = n /\ UNCHANGED commands)
    /\ Exec([db EXCEPT !.banuuid = @ \ {db.uuid[n]}])
    /\ shell' = Prompt
    /\ UNCHANGED <<now, temps, waiting, player, auth, order, mutes>>

\* banUuidCommand
BanUuid(n) ==
    /\ Command(n) /\ db.uuid[n] # None
    /\ Exec([db EXCEPT !.banuuid = @ \cup {db.uuid[n]}])
    /\ shell' = [Prompt EXCEPT !.pc = "find", !.name = n]
    /\ UNCHANGED <<now, temps, waiting, player, auth, order, mutes>>

\* banipCommand, for the address of the last login
BanIp(n) ==
    /\ Command(n)
    /\ Exec([db EXCEPT !.banip = @ \cup {db.ip[n]}])
    /\ shell' = [Prompt EXCEPT !.pc = "find", !.name = n]
    /\ UNCHANGED <<now, temps, waiting, player, auth, order, mutes>>

\* unbanipCommand
UnbanIp(n) ==
    /\ Command(n)
    /\ Exec([db EXCEPT !.banip = @ \ {db.ip[n]}])
    /\ UNCHANGED <<now, temps, waiting, player, auth, shell, order, mutes>>

\* tempmuteCommand: one statement. A chat of n that has found an older mute run
\* out deletes the new one with it.
Tempmute(n, t) ==
    /\ Command(n) /\ t >= now
    /\ ExecOrder([db EXCEPT !.tempmute[n] = t], <<"mute", n>>)
    /\ mutes' = [mutes EXCEPT ![n] = IF auth.pc = "unmute" /\ auth.name = n THEN Shaky ELSE t]
    /\ UNCHANGED <<now, temps, waiting, player, auth, shell, order>>

\* unmuteCommand
Unmute(n) ==
    /\ Command(n)
    /\ Exec([db EXCEPT !.tempmute[n] = NoEntry])
    /\ mutes' = [mutes EXCEPT ![n] = NoOrder]
    /\ UNCHANGED <<now, temps, waiting, player, auth, shell, order>>

\* findPlayer, on the shell's thread
Find ==
    /\ shell.pc = "find"
    /\ shell' = IF player[shell.name].is = "none" THEN Prompt ELSE [shell EXCEPT !.pc = "kick"]
    /\ UNCHANGED <<store, now, temps, waiting, player, auth, order, commands, mutes>>

\* emitKicked waits until the main loop has run it.
Kick ==
    /\ shell.pc = "kick" /\ MainFree
    /\ \E p \in Kicked(shell.name) : player' = [player EXCEPT ![shell.name] = p]
    /\ shell' = Prompt
    /\ UNCHANGED <<store, now, temps, waiting, auth, order, commands, mutes>>

\* whitelistCommand, a transaction of the shell's thread.
Whitelist(n) ==
    /\ \/ /\ shell = Prompt /\ commands < MaxCommands /\ commands' = commands + 1
          /\ \E new \in {db.whitelist \cup {n}, db.whitelist \ {n}} :
                Begin("shell", [db EXCEPT !.whitelist = new])
          /\ shell' = [Prompt EXCEPT !.pc = "whitelist", !.name = n]
       \/ /\ shell.pc = "whitelist" /\ shell.name = n
          /\ Commit
          /\ shell' = Prompt /\ UNCHANGED commands
    /\ UNCHANGED <<now, temps, waiting, player, auth, order, mutes>>

-----------------------------------------------------------------------------
Tick == now < MaxTime /\ now' = now + 1
        /\ UNCHANGED <<store, temps, waiting, player, auth, shell, order, commands, mutes>>

\* The server dies and starts again: an open transaction is rolled back.
Crash ==
    /\ db' = saved /\ tx' = "none" /\ pending' = {} /\ UNCHANGED saved
    /\ temp_banlist' = [a \in Addrs |-> 0] /\ timers' = [a \in Addrs |-> 0]
    /\ waiting' = {} /\ player' = [n \in Names |-> NoPlayer]
    /\ auth' = Idle /\ shell' = Prompt
    /\ order' = [n \in Names |-> IF <<"ban", n>> \in pending THEN Shaky ELSE order[n]]
    /\ mutes' = [n \in Names |-> IF <<"mute", n>> \in pending THEN Shaky ELSE mutes[n]]
    /\ UNCHANGED <<now, commands>>

Next ==
    \/ \E a \in Addrs : Connect(a) \/ TempBanEnds(a)
    \/ \E a \in Addrs, n \in Names, u \in Uuids : Setup(a, n, u)
    \/ QueryUserInfo \/ Registered \/ CheckBanned \/ DeleteTempban \/ LiftBan
    \/ CheckPassword \/ UpdateUserLoginData \/ CommitLogin \/ Create \/ GameTime
    \/ \E n \in Names :
          \/ Leave(n) \/ TemporarilyBan(n) \/ BanAccount(n) \/ Unban(n)
          \/ UnbanUuid(n) \/ BanUuid(n) \/ BanIp(n) \/ UnbanIp(n) \/ Whitelist(n)
          \/ Chat(n) \/ Unmute(n)
          \/ \E t \in Times : Tempban(n, t) \/ Tempmute(n, t)
    \/ DeleteMute \/ TempbanRow \/ Find \/ Kick \/ Tick \/ Crash

Spec == Init /\ [][Next]_vars

-----------------------------------------------------------------------------
(* Properties *)

TypeOK ==
    /\ db \in Tables /\ saved \in Tables /\ tx \in {"none", "main", "shell"}
    /\ pending \subseteq {"ban", "mute"} \X Names
    /\ now \in Times
    /\ temp_banlist \in [Addrs -> 0..MaxTemp] /\ timers \in [Addrs -> Nat]
    /\ waiting \subseteq Addrs
    /\ player \in [Names -> [is : {"none", "offline", "closing", "online"},
                            addr : Addrs \cup {None}, late : BOOLEAN]]
    /\ auth \in [pc : {"idle", "row", "registered", "ban", "delete", "lift", "password",
                       "update", "commit", "create", "gametime", "unmute"},
                 name : Names \cup {None}, addr : Addrs \cup {None},
                 uuid : Uuids \cup {None}, banned : BOOLEAN, raced : BOOLEAN]
    /\ shell \in [pc : {"idle", "tempban", "unbanuuid", "find", "kick", "whitelist"},
                  name : Names \cup {None}, until : Times \cup {NoEntry}]
    /\ commands \in 0..MaxCommands
    /\ order \in [Names -> Times \cup {NoOrder, Shaky, Forever}]
    /\ mutes \in [Names -> Times \cup {NoOrder, Shaky}]
    /\ db.banned \subseteq db.known /\ \A n \in db.known : db.ip[n] # None

\* The administrator's last word on n is a ban that has not run out.
InForce(n) == order[n] > now

\* A ban in force is in the database, through sign-ups that lift older bans and
\* through crashes, unless it was pending then; and no sign-up passes its check
\* except one that had read the row before (checkPassword and getBanExpire against
\* the shell's commands).
BanHolds ==
    \A n \in Names : InForce(n) =>
        /\ n \in db.banned
        /\ auth.name = n => auth.raced \/ auth.pc \in {"row", "registered", "ban", "unmute"}

\* The socket of who is banned is closed or told to close, but for the time until
\* the command has kicked him, and for a sign-up that the ban has overtaken: the flag
\* is set before the player is looked up (banAccount, tempbanCommand, emitKicked).
BannedAreOut ==
    \A n \in Names : (InForce(n) /\ player[n].is = "online") =>
        shell.name = n \/ player[n].late

\* A mute that has not run out is in the database, through the chat's own deletion
\* of older mutes and through crashes, unless it was pending then (isMuted against
\* tempmuteCommand).
MuteHolds == \A n \in Names : mutes[n] >= now => db.tempmute[n] = mutes[n]

\* An address is refused as long as a timer of temporarilyBan runs for it, and
\* no longer, however many players of that address ran away.
TempBansHeld == temp_banlist = timers

\* Whoever is signed in has a row in usergameinfo, where the game time is added
\* up, even if the server died between the two rows of the registration.
GameInfoOfPlayers ==
    \A n \in Names : player[n].is # "none" => n \in saved.game

=============================================================================
