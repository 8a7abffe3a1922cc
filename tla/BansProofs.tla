----------------------------- MODULE BansProofs -----------------------------
(***************************************************************************)
(* The properties of Bans, proved for any names, addresses and devices and *)
(* any bounds. That a ban in force holds needs to be said together with    *)
(* what the sign-up under way has read, and with the temporary entry that  *)
(* it compares; that the banned are out, with the step of the command that *)
(* kicks them; and what survives a crash, with what is on disk.            *)
(***************************************************************************)
EXTENDS Bans, TLAPS

(* The inductive invariant *)

Pcs == {"idle", "row", "registered", "ban", "delete", "lift", "password", "update",
        "commit", "create", "gametime", "unmute"}

Handlers == [pc : Pcs, name : Names \cup {None}, addr : Addrs \cup {None},
             uuid : Uuids \cup {None}, banned : BOOLEAN, raced : BOOLEAN]

\* A sign-up under way has an account, an address and a device.
AuthTyped ==
    /\ auth \in Handlers
    /\ auth.pc \notin {"idle", "gametime"} => auth.name \in Names
    /\ auth.pc \notin {"idle", "gametime", "unmute"} =>
          auth.addr \in Addrs /\ auth.uuid \in Uuids

Orders == [pc : {"idle", "tempban", "unbanuuid", "find", "kick", "whitelist"},
           name : Names \cup {None}, until : Times \cup {NoEntry}]

\* A command under way has an account, and a temporary ban its end.
ShellTyped ==
    /\ shell \in Orders
    /\ shell.pc # "idle" => shell.name \in Names
    /\ shell.pc = "tempban" => shell.until \in Times

\* Only accounts that exist are banned, and each has an address.
Known(d) == d.banned \subseteq d.known /\ \A n \in d.known : d.ip[n] # None

\* The tables in use and those on disk, which are the same unless a transaction
\* is open.
StoreTyped ==
    /\ db \in Tables /\ Known(db)
    /\ saved \in Tables /\ Known(saved)
    /\ tx \in {"none", "main", "shell"}
    /\ tx = "none" => saved = db
    /\ pending \subseteq {"ban", "mute"} \X Names

Players == [is : {"none", "offline", "closing", "online"}, addr : Addrs \cup {None}, late : BOOLEAN]

PlayersTyped == player \in [Names -> Players]

OrdersTyped ==
    /\ order \in [Names -> Times \cup {NoOrder, Shaky, Forever}]
    /\ mutes \in [Names -> Times \cup {NoOrder, Shaky}]
    /\ commands \in 0..MaxCommands

TempsTyped ==
    /\ temp_banlist \in [Addrs -> 0..MaxTemp] /\ timers \in [Addrs -> Nat]
    /\ waiting \subseteq Addrs
    /\ now \in Times

Typed == AuthTyped /\ ShellTyped /\ StoreTyped /\ PlayersTyped /\ OrdersTyped /\ TempsTyped

\* A ban in force is in the table, its end beside it, if it has one; a sign-up
\* that is about to lift a ban has one of the past in hand; and whoever goes on
\* past the check was overtaken.
Held(n) ==
    /\ n \in db.banned
    /\ db.tempban[n] \in {NoEntry, order[n]}
    /\ ~Lifting(n)
    /\ auth.name = n /\ auth.pc = "ban" => auth.raced \/ auth.banned
    /\ auth.name = n => auth.raced \/ auth.pc \in {"row", "registered", "ban", "unmute"}

BanKept == \A n \in Names : InForce(n) => Held(n)

\* The command that has banned somebody is looking for him, or about to kick.
OutKept ==
    \A n \in Names : (InForce(n) /\ player[n].is = "online") =>
        (shell.name = n /\ shell.pc \in {"find", "kick"}) \/ player[n].late

\* The chat deletes a mute that has run out only.
MuteKept ==
    /\ MuteHolds
    /\ auth.pc = "unmute" => mutes[auth.name] < now

\* A ban or mute in force that is not pending is on disk, its end beside it: a crash
\* brings it back.
OnDisk(n) ==
    /\ InForce(n) /\ <<"ban", n>> \notin pending =>
          n \in saved.banned /\ saved.tempban[n] \in {NoEntry, order[n]}
    /\ mutes[n] >= now /\ <<"mute", n>> \notin pending => saved.tempmute[n] = mutes[n]

DiskKept == \A n \in Names : OnDisk(n)

\* A row in usergameinfo stays, and a sign-up ensures it before it ends.
GameKept ==
    /\ GameInfoOfPlayers
    /\ saved.game \subseteq db.game
    /\ auth.pc = "commit" => auth.name \in db.game
    /\ auth.pc = "create" => auth.name \in saved.game

IInv == Typed /\ BanKept /\ OutKept /\ MuteKept /\ DiskKept /\ TempBansHeld /\ GameKept

-----------------------------------------------------------------------------
(* Rows and records *)

\* The columns of a table have their types.
LEMMA Columns ==
    ASSUME NEW d \in Tables
    PROVE  /\ d.known \in SUBSET Names /\ d.banned \in SUBSET Names
           /\ d.ip \in [Names -> Addrs \cup {None}] /\ d.uuid \in [Names -> Uuids \cup {None}]
           /\ d.tempban \in [Names -> Times \cup {NoEntry}]
           /\ d.tempmute \in [Names -> Times \cup {NoEntry}]
           /\ d.game \in SUBSET Names
BY DEF Tables

\* queryUserInfo inserts a row with an address.
LEMMA RegisteredRow ==
    ASSUME NEW d \in Tables, Known(d), NEW n \in Names, NEW a \in Addrs, a # None
    PROVE  LET e == [d EXCEPT !.known = @ \cup {n}, !.ip[n] = a]
           IN  e \in Tables /\ Known(e)
<1> DEFINE known == d.known \cup {n}
           ip == [d.ip EXCEPT ![n] = a]
           e == [d EXCEPT !.known = known, !.ip = ip]
<1>1. known \in SUBSET Names /\ ip \in [Names -> Addrs \cup {None}]
  BY Columns
<1>2. d.banned \subseteq known /\ \A m \in known : ip[m] # None
  BY Columns DEF Known
<1> HIDE DEF known, ip
<1>3. e \in Tables /\ e.known = known /\ e.ip = ip /\ e.banned = d.banned
  BY <1>1 DEF Tables
<1> HIDE DEF e
<1>4. Known(e)
  BY <1>2, <1>3 DEF Known
<1> QED
  BY <1>3, <1>4 DEF e, known, ip

\* updateUserLoginData writes the address and the device of the login.
LEMMA LoginRows ==
    ASSUME NEW d \in Tables, Known(d), NEW n \in Names, NEW a \in Addrs, a # None,
           NEW u \in Uuids
    PROVE  LET e == [d EXCEPT !.ip[n] = a, !.uuid[n] = u, !.game = @ \cup {n}]
           IN  e \in Tables /\ Known(e)
<1> DEFINE ip == [d.ip EXCEPT ![n] = a]
           uuid == [d.uuid EXCEPT ![n] = u]
           game == d.game \cup {n}
           e == [d EXCEPT !.ip = ip, !.uuid = uuid, !.game = game]
<1>1. /\ ip \in [Names -> Addrs \cup {None}] /\ uuid \in [Names -> Uuids \cup {None}]
      /\ game \in SUBSET Names
  BY Columns
<1>2. d.banned \subseteq d.known /\ \A m \in d.known : ip[m] # None
  BY Columns DEF Known
<1> HIDE DEF ip, uuid, game
<1>3. e \in Tables /\ e.known = d.known /\ e.ip = ip /\ e.banned = d.banned
  BY <1>1 DEF Tables
<1> HIDE DEF e
<1>4. Known(e)
  BY <1>2, <1>3 DEF Known
<1> QED
  BY <1>3, <1>4 DEF e, ip, uuid, game

\* No handler: nothing is named.
LEMMA IdleTyped ==
    /\ Idle \in Handlers /\ Idle.pc = "idle" /\ ~Idle.raced
    /\ \A n \in Names : Idle.name # n
BY Bounds DEF Idle, Handlers, Pcs, None

\* A connection that has ended leaves nobody online.
LEMMA DisconnectedTyped ==
    ASSUME PlayersTyped, NEW n \in Names, NEW p \in Disconnected(n)
    PROVE  p \in Players /\ p.is # "online"
<1>1. player[n] \in Players
  BY DEF PlayersTyped
<1>2. CASE p = NoPlayer
  BY <1>2 DEF Players, NoPlayer, None
<1>3. CASE p = Offline(player[n])
  BY <1>1, <1>3 DEF Players, Offline, None
<1> QED
  BY <1>2, <1>3 DEF Disconnected

\* So that the objects stay well-formed when one of them loses its connection.
LEMMA DisconnectedKept ==
    ASSUME PlayersTyped, NEW n, NEW p \in Disconnected(n), player' = [player EXCEPT ![n] = p]
    PROVE  PlayersTyped'
<1>1. CASE n \in Names
  <2>1. p \in Players
    BY <1>1, DisconnectedTyped
  <2> QED
    BY <2>1 DEF PlayersTyped
<1>2. CASE n \notin Names
  BY <1>2 DEF PlayersTyped
<1> QED
  BY <1>1, <1>2

\* A kicked player's socket is closed or closing.
LEMMA KickedTyped ==
    ASSUME PlayersTyped, NEW n \in Names, NEW p \in Kicked(n)
    PROVE  p \in Players /\ p.is # "online" /\ (p.is # "none" => player[n].is # "none")
<1>1. player[n] \in Players
  BY DEF PlayersTyped
<1>2. CASE HasSocket(n) /\ p \in Disconnected(n)
  BY <1>2, DisconnectedTyped DEF HasSocket
<1>3. CASE HasSocket(n) /\ p = Closing(n)
  BY <1>1, <1>3 DEF Players, Closing, HasSocket
<1>4. CASE ~HasSocket(n) /\ p = player[n]
  BY <1>1, <1>4 DEF HasSocket
<1> QED
  BY <1>2, <1>3, <1>4 DEF Kicked

\* So that the objects stay well-formed when one of them is kicked.
LEMMA KickedKept ==
    ASSUME PlayersTyped, NEW n \in Names, NEW p \in Kicked(n), player' = [player EXCEPT ![n] = p]
    PROVE  PlayersTyped'
<1>1. p \in Players
  BY KickedTyped
<1> QED
  BY <1>1 DEF PlayersTyped

\* processNewConnection refuses, or goes on to the account's row.
LEMMA SetupGoes ==
    ASSUME NEW a, NEW n, NEW u, Setup(a, n, u)
    PROVE  auth'.pc \in {"idle", "row"}
<1>1. CASE auth' = Idle
  BY <1>1 DEF Idle
<1>2. CASE auth' = [Idle EXCEPT !.pc = "row", !.name = n, !.addr = a, !.uuid = u]
  BY <1>2 DEF Idle
<1> QED
  BY <1>1, <1>2 DEF Setup

\* queryUserInfo refuses, registers, or has read the row.
LEMMA QueryGoes ==
    ASSUME auth \in Handlers, QueryUserInfo
    PROVE  auth'.pc \in {"idle", "ban", "registered"}
<1>1. CASE auth' = Idle
  BY <1>1 DEF Idle
<1>2. CASE auth' = [auth EXCEPT !.pc = "ban", !.banned = auth.name \in db.banned]
  BY <1>2 DEF Handlers
<1>3. CASE auth' = [auth EXCEPT !.pc = "registered"]
  BY <1>3 DEF Handlers
<1> QED
  BY <1>1, <1>2, <1>3 DEF QueryUserInfo, Refused

-----------------------------------------------------------------------------
(* Types *)

\* The tables after every step.
LEMMA StoreTypedNext ==
    ASSUME Typed, [Next]_vars
    PROVE  StoreTyped'
<1> USE Bounds DEF Typed, StoreTyped, Known, Tables, Exec, ExecOrder, Begin, Commit, AuthTyped,
        Handlers, ShellTyped, Orders, Command, Times, NoEntry, store
<1>1. CASE QueryUserInfo
  <2>1. CASE UNCHANGED store
    BY <2>1
  <2>2. CASE Exec([db EXCEPT !.known = @ \cup {auth.name}, !.ip[auth.name] = auth.addr])
    <3>1. auth.name \in Names /\ auth.addr \in Addrs /\ auth.addr # None
      BY <1>1 DEF QueryUserInfo, None
    <3>2. db \in Tables /\ Known(db)
      OBVIOUS
    <3> DEFINE new == [db EXCEPT !.known = @ \cup {auth.name}, !.ip[auth.name] = auth.addr]
    <3>4. /\ db' = new /\ (saved' = new \/ saved' = saved)
          /\ tx' = tx /\ (tx = "none" => saved' = new) /\ pending' = pending
      BY <2>2
    <3> HIDE DEF Tables, Known
    <3>3. new \in Tables /\ Known(new)
      BY <3>1, <3>2, RegisteredRow
    <3> HIDE DEF new
    <3> QED
      BY <3>3, <3>4
  <2> QED
    BY <1>1, <2>1, <2>2 DEF QueryUserInfo
<1>2. CASE Registered
  BY <1>2 DEF Registered
<1>3. CASE DeleteTempban
  BY <1>3 DEF DeleteTempban
<1>4. CASE LiftBan
  BY <1>4 DEF LiftBan
<1>5. CASE UpdateUserLoginData
  <2>1. /\ auth.name \in Names /\ auth.addr \in Addrs /\ auth.addr # None
        /\ auth.uuid \in Uuids
    BY <1>5 DEF UpdateUserLoginData, None
  <2>2. db \in Tables /\ Known(db)
    OBVIOUS
  <2> DEFINE new == [db EXCEPT !.ip[auth.name] = auth.addr, !.uuid[auth.name] = auth.uuid,
                               !.game = @ \cup {auth.name}]
  <2>4. db' = new /\ saved' = saved /\ tx' = "main" /\ pending' = pending
    BY <1>5 DEF UpdateUserLoginData
  <2> HIDE DEF Tables, Known
  <2>3. new \in Tables /\ Known(new)
    BY <2>1, <2>2, LoginRows
  <2> HIDE DEF new
  <2> QED
    BY <2>3, <2>4
<1>6. CASE CommitLogin
  BY <1>6 DEF CommitLogin
<1>7. CASE GameTime
  BY <1>7 DEF GameTime
<1>8. ASSUME NEW n \in Names, BanAccount(n)
      PROVE  StoreTyped'
  BY <1>8 DEF BanAccount
<1>9. ASSUME NEW n \in Names, Unban(n)
      PROVE  StoreTyped'
  BY <1>9 DEF Unban
<1>10. ASSUME NEW n \in Names, UnbanUuid(n)
      PROVE  StoreTyped'
  BY <1>10 DEF UnbanUuid
<1>11. ASSUME NEW n \in Names, BanUuid(n)
      PROVE  StoreTyped'
  BY <1>11 DEF BanUuid
<1>12. ASSUME NEW n \in Names, BanIp(n)
      PROVE  StoreTyped'
  BY <1>12 DEF BanIp
<1>13. ASSUME NEW n \in Names, UnbanIp(n)
      PROVE  StoreTyped'
  BY <1>13 DEF UnbanIp
<1>14. ASSUME NEW n \in Names, Whitelist(n)
      PROVE  StoreTyped'
  BY <1>14 DEF Whitelist
<1>15. ASSUME NEW n \in Names, Unmute(n)
      PROVE  StoreTyped'
  BY <1>15 DEF Unmute
<1>16. ASSUME NEW n \in Names, NEW t \in Times, Tempban(n, t)
      PROVE  StoreTyped'
  BY <1>16 DEF Tempban
<1>17. ASSUME NEW n \in Names, NEW t \in Times, Tempmute(n, t)
      PROVE  StoreTyped'
  <2>1. pending' \subseteq {"ban", "mute"} \X Names
    BY <1>17 DEF Tempmute
  <2>2. db' \in Tables /\ Known(db)' /\ saved' \in {saved, db'} /\ tx' = tx /\ (tx = "none" => saved' = db')
    BY <1>17 DEF Tempmute
  <2> QED
    BY <2>1, <2>2
<1>18. CASE DeleteMute
  BY <1>18 DEF DeleteMute
<1>19. CASE TempbanRow
  <2>1. pending' \subseteq {"ban", "mute"} \X Names
    BY <1>19 DEF TempbanRow
  <2>2. db' \in Tables /\ Known(db)' /\ saved' \in {saved, db'} /\ tx' = tx /\ (tx = "none" => saved' = db')
    BY <1>19 DEF TempbanRow
  <2> QED
    BY <2>1, <2>2
<1>20. CASE Crash
  BY <1>20 DEF Crash
<1>21. CASE UNCHANGED store
  BY <1>21
<1> QED
  BY <1>1, <1>2, <1>3, <1>4, <1>5, <1>6, <1>7, <1>8, <1>9, <1>10, <1>11, <1>12, <1>13,
     <1>14, <1>15, <1>16, <1>17, <1>18, <1>19, <1>20, <1>21
     DEF Next, vars, Chat, CheckBanned, CheckPassword, Connect, Create, Find, Kick, Leave,
         Setup, TempBanEnds, TemporarilyBan, Tick

\* The handler after every step.
LEMMA AuthTypedNext ==
    ASSUME Typed, [Next]_vars
    PROVE  AuthTyped'
<1> USE Bounds DEF Typed, AuthTyped, Handlers, Pcs, Idle, Refused, Overtaken, MainFree,
        TempsTyped
<1>1. ASSUME NEW a \in Addrs, NEW n \in Names, NEW u \in Uuids, Setup(a, n, u)
      PROVE  AuthTyped'
  <2>1. CASE auth' = Idle
    BY <2>1
  <2>2. CASE auth' = [Idle EXCEPT !.pc = "row", !.name = n, !.addr = a, !.uuid = u]
    BY <1>1, <2>2
  <2> QED
    BY <1>1, <2>1, <2>2 DEF Setup
<1>2. CASE QueryUserInfo
  <2>1. CASE auth' = [auth EXCEPT !.pc = "ban", !.banned = auth.name \in db.banned]
    <3>1. auth.pc = "row" /\ auth.name \in Names /\ auth.addr \in Addrs /\ auth.uuid \in Uuids
      BY <1>2 DEF QueryUserInfo
    <3>2. (auth.name \in db.banned) \in BOOLEAN
      OBVIOUS
    <3> QED
      BY <2>1, <3>1, <3>2
  <2>2. CASE auth' = Idle
    BY <2>2
  <2>3. CASE auth' = [auth EXCEPT !.pc = "registered"]
    BY <1>2, <2>3 DEF QueryUserInfo
  <2> QED
    BY <1>2, <2>1, <2>2, <2>3 DEF QueryUserInfo
<1>3. CASE Registered
  <2>1. /\ auth.pc = "registered" /\ auth.name \in Names
        /\ auth.addr \in Addrs /\ auth.uuid \in Uuids
    BY <1>3 DEF Registered
  <2>2. auth' = [auth EXCEPT !.pc = "ban", !.banned = auth.name \in db.banned]
    BY <1>3 DEF Registered
  <2>3. (auth.name \in db.banned) \in BOOLEAN
    OBVIOUS
  <2> QED
    BY <2>1, <2>2, <2>3
<1>4. CASE CheckBanned
  <2>1. CASE auth' = [auth EXCEPT !.pc = "password"]
    BY <1>4, <2>1 DEF CheckBanned
  <2>2. CASE auth' = [auth EXCEPT !.pc = "delete"]
    BY <1>4, <2>2 DEF CheckBanned
  <2>3. CASE auth' = Idle
    BY <2>3
  <2> QED
    BY <1>4, <2>1, <2>2, <2>3 DEF CheckBanned
<1>5. CASE DeleteTempban
  BY <1>5 DEF DeleteTempban
<1>6. CASE LiftBan
  BY <1>6 DEF LiftBan
<1>7. CASE CheckPassword
  <2>1. CASE auth' = Idle
    BY <2>1
  <2>2. CASE auth' = [auth EXCEPT !.pc = "update"]
    BY <1>7, <2>2 DEF CheckPassword
  <2> QED
    BY <1>7, <2>1, <2>2 DEF CheckPassword
<1>8. CASE UpdateUserLoginData
  BY <1>8 DEF UpdateUserLoginData
<1>9. CASE CommitLogin
  BY <1>9 DEF CommitLogin
<1>10. CASE Create
  BY <1>10 DEF Create
<1>11. CASE GameTime
  <2>1. CASE auth' = Idle
    BY <2>1
  <2>2. CASE auth' = [Idle EXCEPT !.pc = "gametime"]
    BY <2>2
  <2> QED
    BY <1>11, <2>1, <2>2 DEF GameTime
<1>12. ASSUME NEW n \in Names, BanAccount(n)
      PROVE  AuthTyped'
  BY <1>12 DEF BanAccount
<1>13. ASSUME NEW n \in Names, Chat(n)
      PROVE  AuthTyped'
  BY <1>13 DEF Chat
<1>14. ASSUME NEW n \in Names, NEW t \in Times, Tempban(n, t)
      PROVE  AuthTyped'
  BY <1>14 DEF Tempban
<1>15. CASE DeleteMute
  BY <1>15 DEF DeleteMute
<1>16. CASE TempbanRow
  BY <1>16 DEF TempbanRow
<1>17. CASE Crash
  BY <1>17 DEF Crash
<1>18. CASE UNCHANGED auth
  BY <1>18
<1> QED
  BY <1>1, <1>2, <1>3, <1>4, <1>5, <1>6, <1>7, <1>8, <1>9, <1>10, <1>11, <1>12, <1>13,
     <1>14, <1>15, <1>16, <1>17, <1>18
     DEF Next, vars, BanIp, BanUuid, Connect, Find, Kick, Leave, TempBanEnds, Tempmute,
         TemporarilyBan, Tick, Unban, UnbanIp, UnbanUuid, Unmute, Whitelist

\* The command after every step.
LEMMA ShellTypedNext ==
    ASSUME Typed, [Next]_vars
    PROVE  ShellTyped'
<1> USE Bounds DEF Typed, ShellTyped, Orders, Prompt, Command, Times, NoEntry, StoreTyped,
        Tables
<1>1. CASE Create
  BY <1>1 DEF Create
<1>2. ASSUME NEW n \in Names, BanAccount(n)
      PROVE  ShellTyped'
  BY <1>2 DEF BanAccount
<1>3. ASSUME NEW n \in Names, Unban(n)
      PROVE  ShellTyped'
  BY <1>3 DEF Unban
<1>4. ASSUME NEW n \in Names, UnbanUuid(n)
      PROVE  ShellTyped'
  BY <1>4 DEF UnbanUuid
<1>5. ASSUME NEW n \in Names, BanUuid(n)
      PROVE  ShellTyped'
  BY <1>5 DEF BanUuid
<1>6. ASSUME NEW n \in Names, BanIp(n)
      PROVE  ShellTyped'
  BY <1>6 DEF BanIp
<1>7. ASSUME NEW n \in Names, Whitelist(n)
      PROVE  ShellTyped'
  <2>1. CASE shell' = Prompt
    BY <2>1
  <2>2. CASE shell' = [Prompt EXCEPT !.pc = "whitelist", !.name = n]
    BY <1>7, <2>2
  <2> QED
    BY <1>7, <2>1, <2>2 DEF Whitelist
<1>8. ASSUME NEW n \in Names, NEW t \in Times, Tempban(n, t)
      PROVE  ShellTyped'
  BY <1>8 DEF Tempban
<1>9. CASE TempbanRow
  BY <1>9 DEF TempbanRow
<1>10. CASE Find
  BY <1>10 DEF Find
<1>11. CASE Kick
  BY <1>11 DEF Kick
<1>12. CASE Crash
  BY <1>12 DEF Crash
<1>13. CASE UNCHANGED shell
  BY <1>13
<1> QED
  BY <1>1, <1>2, <1>3, <1>4, <1>5, <1>6, <1>7, <1>8, <1>9, <1>10, <1>11, <1>12, <1>13
     DEF Next, vars, Chat, CheckBanned, CheckPassword, CommitLogin, Connect, DeleteMute,
         DeleteTempban, GameTime, Leave, LiftBan, QueryUserInfo, Registered, Setup,
         TempBanEnds, Tempmute, TemporarilyBan, Tick, UnbanIp, Unmute, UpdateUserLoginData

\* The objects of the players after every step.
LEMMA PlayersTypedNext ==
    ASSUME Typed, [Next]_vars
    PROVE  PlayersTyped'
<1> USE DEF Typed
<1>1. CASE CheckPassword
  <2>1. CASE HasSocket(auth.name) /\ player' = [player EXCEPT ![auth.name] = Closing(auth.name)]
    <3>1. auth.name \in Names /\ Closing(auth.name) \in Kicked(auth.name)
      BY <1>1, <2>1 DEF CheckPassword, AuthTyped, Kicked
    <3> QED
      BY <2>1, <3>1, KickedKept
  <2>2. CASE UNCHANGED player
    BY <2>2 DEF PlayersTyped
  <2> QED
    BY <1>1, <2>1, <2>2 DEF CheckPassword
<1>2. CASE Create
  BY <1>2 DEF Create, PlayersTyped, Players, AuthTyped, Handlers
<1>3. ASSUME NEW n \in Names, Leave(n)
      PROVE  PlayersTyped'
  BY <1>3, DisconnectedKept DEF Leave
<1>4. ASSUME NEW n \in Names, TemporarilyBan(n)
      PROVE  PlayersTyped'
  BY <1>4, KickedKept DEF TemporarilyBan
<1>5. CASE Kick
  <2>1. shell.name \in Names
    BY <1>5 DEF Kick, ShellTyped
  <2> QED
    BY <1>5, <2>1, KickedKept DEF Kick
<1>6. CASE Crash
  BY <1>6 DEF Crash, PlayersTyped, Players, NoPlayer, None
<1>7. CASE UNCHANGED player
  BY <1>7 DEF PlayersTyped
<1> QED
  BY <1>1, <1>2, <1>3, <1>4, <1>5, <1>6, <1>7
     DEF Next, vars, BanAccount, BanIp, BanUuid, Chat, CheckBanned, CommitLogin, Connect,
         DeleteMute, DeleteTempban, Find, GameTime, LiftBan, QueryUserInfo, Registered,
         Setup, TempBanEnds, Tempban, TempbanRow, Tempmute, Tick, Unban, UnbanIp, UnbanUuid,
         Unmute, UpdateUserLoginData, Whitelist

\* The administrator's orders after every step.
LEMMA OrdersTypedNext ==
    ASSUME Typed, [Next]_vars
    PROVE  OrdersTyped'
<1> USE Bounds DEF Typed, OrdersTyped, Times, NoOrder, Shaky, Forever, Command, ShellTyped
<1>1. ASSUME NEW n \in Names, BanAccount(n)
      PROVE  OrdersTyped'
  BY <1>1 DEF BanAccount
<1>2. ASSUME NEW n \in Names, Unban(n)
      PROVE  OrdersTyped'
  BY <1>2 DEF Unban
<1>3. ASSUME NEW n \in Names, UnbanUuid(n)
      PROVE  OrdersTyped'
  BY <1>3 DEF UnbanUuid
<1>4. ASSUME NEW n \in Names, BanUuid(n)
      PROVE  OrdersTyped'
  BY <1>4 DEF BanUuid
<1>5. ASSUME NEW n \in Names, BanIp(n)
      PROVE  OrdersTyped'
  BY <1>5 DEF BanIp
<1>6. ASSUME NEW n \in Names, UnbanIp(n)
      PROVE  OrdersTyped'
  BY <1>6 DEF UnbanIp
<1>7. ASSUME NEW n \in Names, Whitelist(n)
      PROVE  OrdersTyped'
  BY <1>7 DEF Whitelist
<1>8. ASSUME NEW n \in Names, Unmute(n)
      PROVE  OrdersTyped'
  BY <1>8 DEF Unmute
<1>9. ASSUME NEW n \in Names, NEW t \in Times, Tempban(n, t)
      PROVE  OrdersTyped'
  BY <1>9 DEF Tempban
<1>10. ASSUME NEW n \in Names, NEW t \in Times, Tempmute(n, t)
      PROVE  OrdersTyped'
  BY <1>10 DEF Tempmute
<1>11. CASE TempbanRow
  BY <1>11 DEF TempbanRow
<1>12. CASE Crash
  BY <1>12 DEF Crash
<1>13. CASE UNCHANGED <<order, mutes, commands>>
  BY <1>13
<1> QED
  BY <1>1, <1>2, <1>3, <1>4, <1>5, <1>6, <1>7, <1>8, <1>9, <1>10, <1>11, <1>12, <1>13
     DEF Next, vars, Chat, CheckBanned, CheckPassword, CommitLogin, Connect, Create,
         DeleteMute, DeleteTempban, Find, GameTime, Kick, Leave, LiftBan, QueryUserInfo,
         Registered, Setup, TempBanEnds, TemporarilyBan, Tick, UpdateUserLoginData

\* The temporary bans and the clock after every step.
LEMMA TempsTypedNext ==
    ASSUME Typed, [Next]_vars
    PROVE  TempsTyped'
<1> USE Bounds DEF Typed, TempsTyped, Times, temps
<1>1. ASSUME NEW a \in Addrs, Connect(a)
      PROVE  TempsTyped'
  BY <1>1 DEF Connect
<1>2. ASSUME NEW a \in Addrs, TempBanEnds(a)
      PROVE  TempsTyped'
  BY <1>2 DEF TempBanEnds
<1>3. ASSUME NEW a \in Addrs, NEW n \in Names, NEW u \in Uuids, Setup(a, n, u)
      PROVE  TempsTyped'
  BY <1>3 DEF Setup
<1>4. ASSUME NEW n \in Names, TemporarilyBan(n)
      PROVE  TempsTyped'
  <2>1. PICK a : /\ temp_banlist[a] < MaxTemp
                  /\ temp_banlist' = [temp_banlist EXCEPT ![a] = @ + 1]
                 /\ timers' = [timers EXCEPT ![a] = @ + 1]
                 /\ waiting' = waiting /\ now' = now
    <3> DEFINE b == IF HasSocket(n) THEN player[n].addr ELSE db.ip[n]
    <3>1. /\ temp_banlist[b] < MaxTemp
          /\ temp_banlist' = [temp_banlist EXCEPT ![b] = @ + 1]
          /\ timers' = [timers EXCEPT ![b] = @ + 1]
          /\ waiting' = waiting /\ now' = now
      BY <1>4 DEF TemporarilyBan
    <3> QED
      BY <3>1
  <2>2. temp_banlist' \in [Addrs -> 0..MaxTemp]
    <3>1. \A b \in Addrs : /\ temp_banlist[b] \in Int
                           /\ 0 <= temp_banlist[b] /\ temp_banlist[b] <= MaxTemp
      OBVIOUS
    <3>2. \A b \in Addrs : temp_banlist'[b] =
              IF b = a THEN temp_banlist[b] + 1 ELSE temp_banlist[b]
      BY <2>1
    <3>3. DOMAIN temp_banlist' = Addrs /\ temp_banlist' = [b \in Addrs |-> temp_banlist'[b]]
      BY <2>1
    <3>4. \A b \in Addrs : temp_banlist'[b] \in 0..MaxTemp
      BY <2>1, <3>1, <3>2
    <3> QED
      BY <3>3, <3>4
  <2>3. timers' \in [Addrs -> Nat]
    <3>1. \A b \in Addrs : timers'[b] \in Nat
      BY <2>1
    <3>2. timers' = [b \in Addrs |-> timers'[b]]
      BY <2>1
    <3> QED
      BY <3>1, <3>2
  <2> QED
    BY <2>1, <2>2, <2>3
<1>5. CASE Tick
  BY <1>5 DEF Tick
<1>6. CASE Crash
  BY <1>6 DEF Crash
<1>7. CASE UNCHANGED <<temps, waiting, now>>
  BY <1>7
<1> QED
  BY <1>1, <1>2, <1>3, <1>4, <1>5, <1>6, <1>7
     DEF Next, vars, BanAccount, BanIp, BanUuid, Chat, CheckBanned, CheckPassword,
         CommitLogin, Create, DeleteMute, DeleteTempban, Find, GameTime, Kick, Leave,
         LiftBan, QueryUserInfo, Registered, Tempban, TempbanRow, Tempmute, Unban, UnbanIp,
         UnbanUuid, Unmute, UpdateUserLoginData, Whitelist

-----------------------------------------------------------------------------
(* Bans, mutes and game information *)

\* A ban in force holds after every step. A sign-up lifts a ban that it has found
\* to be in the past; an order given between its statements is not counted on.
LEMMA BanKeptNext ==
    ASSUME IInv, [Next]_vars
    PROVE  BanKept'
<1> SUFFICES ASSUME NEW m \in Names, InForce(m)'
             PROVE  Held(m)'
  BY DEF BanKept
<1>i. Typed /\ (InForce(m) => Held(m))
  BY DEF IInv, BanKept
<1>n. /\ now \in Int /\ now >= 0 /\ order[m] \in Int
      /\ NoEntry = -1 /\ NoOrder = -1 /\ Shaky = -2
  <2>1. now \in Times /\ order[m] \in Times \cup {NoOrder, Shaky, Forever}
    BY <1>i DEF Typed, OrdersTyped, TempsTyped
  <2> QED
    BY <2>1, Bounds DEF Times, NoEntry, NoOrder, Shaky, Forever
<1>t. /\ auth \in Handlers /\ db \in Tables /\ saved \in Tables
      /\ order \in [Names -> Times \cup {NoOrder, Shaky, Forever}]
      /\ db.tempban[m] \in Times \cup {NoEntry}
      /\ (tx = "none" => saved = db)
  BY <1>i DEF Typed, AuthTyped, StoreTyped, OrdersTyped, Tables
<1> USE DEF Held, Lifting, InForce
<1>1. ASSUME NEW a \in Addrs, NEW n \in Names, NEW u \in Uuids, Setup(a, n, u)
      PROVE  Held(m)'
  <2>1. UNCHANGED <<db, order, now>>
    BY <1>1 DEF Setup, store
  <2>2. CASE auth' = Idle
    BY <1>i, <2>1, <2>2, IdleTyped
  <2>3. CASE auth' = [Idle EXCEPT !.pc = "row", !.name = n, !.addr = a, !.uuid = u]
    <3>1. auth'.pc = "row"
      BY <2>3 DEF Idle
    <3> QED
      BY <1>i, <2>1, <3>1
  <2> QED
    BY <1>1, <2>2, <2>3 DEF Setup
<1>2. CASE QueryUserInfo
  <2>1. UNCHANGED <<order, now>> /\ db'.banned = db.banned /\ db'.tempban = db.tempban
    BY <1>2, <1>t DEF QueryUserInfo, Exec, Tables, store
  <2>2. CASE auth' = Idle
    BY <1>i, <2>1, <2>2, IdleTyped
  <2>3. CASE auth' = [auth EXCEPT !.pc = "ban", !.banned = auth.name \in db.banned]
    <3>1. auth'.pc = "ban" /\ auth'.name = auth.name /\ auth'.banned = (auth.name \in db.banned)
      BY <2>3, <1>t DEF Handlers
    <3> QED
      BY <1>i, <2>1, <3>1
  <2>4. CASE auth' = [auth EXCEPT !.pc = "registered"]
    BY <1>i, <1>t, <2>1, <2>4 DEF Handlers
  <2> QED
    BY <1>2, <2>2, <2>3, <2>4 DEF QueryUserInfo, Refused
<1>3. CASE Registered
  <2>1. UNCHANGED <<order, now>> /\ db'.banned = db.banned /\ db'.tempban = db.tempban
    BY <1>3, <1>t DEF Registered, Exec, Tables
  <2>2. auth'.pc = "ban" /\ auth'.name = auth.name /\ auth'.banned = (auth.name \in db.banned)
    BY <1>3, <1>t DEF Registered, Handlers
  <2> QED
    BY <1>i, <2>1, <2>2
<1>4. CASE CheckBanned
  <2>1. UNCHANGED <<db, order, now>>
    BY <1>4 DEF CheckBanned, store
  <2>2. CASE auth' = Idle
    BY <1>i, <2>1, <2>2, IdleTyped
  <2>3. CASE ~auth.banned /\ auth' = [auth EXCEPT !.pc = "password"]
    <3>1. auth'.pc = "password" /\ auth'.name = auth.name /\ auth'.raced = auth.raced
      BY <2>3, <1>t DEF Handlers
    <3> QED
      BY <1>4, <1>i, <2>1, <2>3, <3>1 DEF CheckBanned
  <2>4. CASE Expired(auth.name) /\ auth' = [auth EXCEPT !.pc = "delete"]
    <3>1. auth'.pc = "delete" /\ auth'.name = auth.name /\ auth'.raced = auth.raced
      BY <2>4, <1>t DEF Handlers
    <3>2. auth.name # m
      BY <1>i, <1>n, <2>1, <2>4 DEF Expired
    <3> QED
      BY <1>i, <2>1, <3>1, <3>2
  <2> QED
    BY <1>4, <2>2, <2>3, <2>4 DEF CheckBanned, Refused
<1>5. CASE DeleteTempban
  <2>1. /\ UNCHANGED <<order, now>> /\ db'.banned = db.banned /\ auth.name # m
        /\ db'.tempban = [db.tempban EXCEPT ![auth.name] = NoEntry]
    BY <1>5, <1>i, <1>t DEF DeleteTempban, Exec, Tables
  <2>2. auth'.name = auth.name
    BY <1>5, <1>t DEF DeleteTempban, Handlers
  <2> QED
    BY <1>i, <2>1, <2>2
<1>6. CASE LiftBan
  <2>1. /\ UNCHANGED <<order, now>> /\ db'.tempban = db.tempban /\ auth.name # m
        /\ db'.banned = db.banned \ {auth.name}
    BY <1>6, <1>i, <1>t DEF LiftBan, Exec, Tables
  <2>2. auth'.name = auth.name
    BY <1>6, <1>t DEF LiftBan, Handlers
  <2> QED
    BY <1>i, <2>1, <2>2
<1>7. CASE CheckPassword
  <2>1. UNCHANGED <<db, order, now>>
    BY <1>7 DEF CheckPassword, store
  <2>2. CASE auth' = Idle
    BY <1>i, <2>1, <2>2, IdleTyped
  <2>3. CASE auth' = [auth EXCEPT !.pc = "update"]
    <3>1. auth'.pc = "update" /\ auth'.name = auth.name /\ auth'.raced = auth.raced
      BY <2>3, <1>t DEF Handlers
    <3> QED
      BY <1>7, <1>i, <2>1, <3>1 DEF CheckPassword
  <2> QED
    BY <1>7, <2>2, <2>3 DEF CheckPassword, Refused
<1>8. CASE UpdateUserLoginData
  <2>1. UNCHANGED <<order, now>> /\ db'.banned = db.banned /\ db'.tempban = db.tempban
    BY <1>8, <1>t DEF UpdateUserLoginData, Begin, Tables
  <2>2. /\ auth.pc = "update"
        /\ auth'.pc = "commit" /\ auth'.name = auth.name /\ auth'.raced = auth.raced
    BY <1>8, <1>t DEF UpdateUserLoginData, Handlers
  <2> QED
    BY <1>i, <2>1, <2>2
<1>9. CASE CommitLogin
  <2>1. /\ UNCHANGED <<db, order, now>> /\ auth.pc = "commit"
        /\ auth'.pc = "create" /\ auth'.name = auth.name /\ auth'.raced = auth.raced
    BY <1>9, <1>t DEF CommitLogin, Commit, Handlers
  <2> QED
    BY <1>i, <2>1
<1>10. CASE Create \/ DeleteMute \/ (GameTime /\ auth' = Idle)
  <2>1. UNCHANGED <<order, now>> /\ db'.banned = db.banned /\ db'.tempban = db.tempban
    BY <1>10, <1>t DEF Create, DeleteMute, GameTime, Exec, Begin, Commit, Tables, store
  <2>2. auth' = Idle
    BY <1>10 DEF Create, DeleteMute
  <2> QED
    BY <1>i, <2>1, <2>2, IdleTyped
<1>11. CASE GameTime /\ auth' # Idle
  <2>1. UNCHANGED <<db, order, now>> /\ auth' = [Idle EXCEPT !.pc = "gametime"]
    BY <1>11 DEF GameTime, Begin
  <2>2. auth'.name = Idle.name
    BY <2>1 DEF Idle
  <2> QED
    BY <1>i, <2>1, <2>2, IdleTyped
<1>12. ASSUME NEW n \in Names, BanAccount(n)
      PROVE  Held(m)'
  <2>1. now' = now /\ db'.banned = db.banned \cup {n} /\ db'.tempban = db.tempban
    BY <1>12, <1>t DEF BanAccount, Exec, ExecOrder, Tables
  <2>2. /\ auth'.pc = auth.pc /\ auth'.name = auth.name /\ auth'.banned = auth.banned
        /\ auth'.raced = (auth.raced \/ (auth.name = n /\ auth.pc \notin {"row", "registered"}))
    BY <1>12, <1>t DEF BanAccount, Overtaken, Handlers
  <2>3. CASE n # m
    <3>1. order'[m] = order[m]
      BY <1>12, <1>t, <2>3 DEF BanAccount
    <3> QED
      BY <1>i, <2>1, <2>2, <2>3, <3>1
  <2>4. CASE n = m
    <3>1. order'[m] = IF Lifting(m) \/ db.tempban[m] # NoEntry THEN Shaky ELSE Forever
      BY <1>12, <1>t, <2>4 DEF BanAccount
    <3>2. ~Lifting(m) /\ db.tempban[m] = NoEntry
      BY <1>n, <2>1, <3>1
    <3> QED
      BY <2>1, <2>2, <2>4, <3>2
  <2> QED
    BY <2>3, <2>4
<1>13. ASSUME NEW n \in Names, Unban(n)
      PROVE  Held(m)'
  <2>1. /\ UNCHANGED <<auth, now>> /\ db'.banned = db.banned \ {n} /\ db'.tempban = db.tempban
        /\ order' = [order EXCEPT ![n] = NoOrder]
    BY <1>13, <1>t DEF Unban, Exec, Tables
  <2>2. n # m /\ order'[m] = order[m]
    BY <1>n, <1>t, <2>1
  <2> QED
    BY <1>i, <2>1, <2>2
<1>14. ASSUME NEW n \in Names,
              UnbanUuid(n) \/ BanUuid(n) \/ BanIp(n) \/ UnbanIp(n) \/ Whitelist(n) \/ Unmute(n)
      PROVE  Held(m)'
  <2>1. UNCHANGED <<order, now, auth>> /\ db'.banned = db.banned /\ db'.tempban = db.tempban
    BY <1>14, <1>t
       DEF UnbanUuid, BanUuid, BanIp, UnbanIp, Whitelist, Unmute, Exec, Begin, Commit,
           Tables
  <2> QED
    BY <1>i, <2>1
<1>15. ASSUME NEW n \in Names, Chat(n)
      PROVE  Held(m)'
  <2>1. UNCHANGED <<db, order, now>> /\ auth'.pc = "unmute"
    BY <1>15 DEF Chat, store, Idle
  <2> QED
    BY <1>i, <2>1
<1>16. ASSUME NEW n \in Names, NEW t \in Times, Tempban(n, t)
      PROVE  Held(m)'
  <2>1. /\ UNCHANGED <<order, now>>
        /\ db'.banned = db.banned \cup {n} /\ db'.tempban = db.tempban
    BY <1>16, <1>t DEF Tempban, Exec, Tables
  <2>2. /\ auth'.pc = auth.pc /\ auth'.name = auth.name /\ auth'.banned = auth.banned
        /\ auth'.raced = (auth.raced \/ (auth.name = n /\ auth.pc \notin {"row", "registered"}))
    BY <1>16, <1>t DEF Tempban, Overtaken, Handlers
  <2> QED
    BY <1>i, <2>1, <2>2
<1>17. ASSUME NEW n \in Names, NEW t \in Times, Tempmute(n, t)
      PROVE  Held(m)'
  <2>1. UNCHANGED <<order, now, auth>> /\ db'.banned = db.banned /\ db'.tempban = db.tempban
    BY <1>17, <1>t DEF Tempmute, Exec, ExecOrder, Tables
  <2> QED
    BY <1>i, <2>1
<1>18. CASE TempbanRow
  <2> DEFINE n == shell.name
  <2>1. /\ now' = now /\ db'.banned = db.banned
        /\ db'.tempban = [db.tempban EXCEPT ![n] = shell.until]
        /\ order' = [order EXCEPT ![n] =
                        IF Lifting(n) \/ n \notin db.banned THEN Shaky ELSE shell.until]
    BY <1>18, <1>t DEF TempbanRow, Exec, ExecOrder, Tables
  <2>2. /\ auth'.pc = auth.pc /\ auth'.name = auth.name /\ auth'.banned = auth.banned
        /\ auth'.raced = (auth.raced \/ (auth.name = n /\ auth.pc \notin {"row", "registered"}))
    BY <1>18, <1>t DEF TempbanRow, Overtaken, Handlers
  <2>3. CASE n # m
    <3>1. order'[m] = order[m] /\ db'.tempban[m] = db.tempban[m]
      BY <1>t, <2>1, <2>3 DEF Tables
    <3> QED
      BY <1>i, <2>1, <2>2, <2>3, <3>1
  <2>4. CASE n = m
    <3>1. /\ order'[m] = IF Lifting(m) \/ m \notin db.banned THEN Shaky ELSE shell.until
          /\ db'.tempban[m] = shell.until
      BY <1>t, <2>1, <2>4 DEF Tables
    <3>2. ~Lifting(m) /\ m \in db.banned
      BY <1>n, <2>1, <3>1
    <3> QED
      BY <2>1, <2>2, <2>4, <3>1, <3>2
  <2> QED
    BY <2>3, <2>4
<1>19. CASE Tick
  <2>1. UNCHANGED <<db, order, auth>> /\ now' = now + 1
    BY <1>19 DEF Tick, store
  <2> QED
    BY <1>i, <1>n, <2>1
<1>20. CASE Crash
  <2>1. /\ db' = saved /\ now' = now /\ auth' = Idle
        /\ order'[m] = IF <<"ban", m>> \in pending THEN Shaky ELSE order[m]
    BY <1>20 DEF Crash
  <2>2. <<"ban", m>> \notin pending
    BY <1>n, <2>1
  <2>3. m \in saved.banned /\ saved.tempban[m] \in {NoEntry, order[m]}
    BY <2>1, <2>2 DEF IInv, DiskKept, OnDisk
  <2> QED
    BY <2>1, <2>2, <2>3, IdleTyped
<1>21. CASE UNCHANGED <<db, now, order, auth>>
  BY <1>i, <1>21
<1> QED
  BY <1>1, <1>2, <1>3, <1>4, <1>5, <1>6, <1>7, <1>8, <1>9, <1>10, <1>11, <1>12, <1>13,
     <1>14,
     <1>15, <1>16, <1>17, <1>18, <1>19, <1>20, <1>21
     DEF Next, vars, store, Connect, TempBanEnds, Leave, TemporarilyBan, Find, Kick

\* The banned are out after every step: the player that a command has banned is
\* its own until it is kicked, and a sign-up that ends later was overtaken.
LEMMA OutKeptNext ==
    ASSUME IInv, [Next]_vars
    PROVE  OutKept'
<1> DEFINE Sought(n) == shell.name = n /\ shell.pc \in {"find", "kick"}
<1> SUFFICES ASSUME NEW m \in Names, InForce(m)', player[m].is' = "online"
             PROVE  Sought(m)' \/ player[m].late'
  BY DEF OutKept
<1>i. /\ Typed /\ (InForce(m) => Held(m))
      /\ (InForce(m) /\ player[m].is = "online") => Sought(m) \/ player[m].late
  BY DEF IInv, BanKept, OutKept
<1>n. /\ now \in Int /\ now >= 0 /\ order[m] \in Int
      /\ NoEntry = -1 /\ NoOrder = -1 /\ Shaky = -2
  <2>1. now \in Times /\ order[m] \in Times \cup {NoOrder, Shaky, Forever}
    BY <1>i DEF Typed, OrdersTyped, TempsTyped
  <2> QED
    BY <2>1, Bounds DEF Times, NoEntry, NoOrder, Shaky, Forever
<1>t. /\ auth \in Handlers /\ shell \in Orders /\ PlayersTyped
      /\ order \in [Names -> Times \cup {NoOrder, Shaky, Forever}]
      /\ (auth.pc = "create" => auth.name \in Names)
      /\ (shell.pc # "idle" => shell.name \in Names)
  BY <1>i DEF Typed, AuthTyped, ShellTyped, OrdersTyped
\* A connection that ends, or is to end
<1>d. ASSUME NEW n \in Names, NEW p \in Disconnected(n) \cup Kicked(n), player' = [player EXCEPT ![n] = p]
      PROVE  n # m /\ player[m]' = player[m]
  BY <1>d, <1>t, DisconnectedTyped, KickedTyped DEF PlayersTyped
<1> USE DEF InForce
<1>1. CASE CheckPassword
  <2>1. UNCHANGED <<shell, order, now>> /\ auth.name \in Names
    BY <1>1, <1>i DEF CheckPassword, Typed, AuthTyped
  <2>2. player[m]' = player[m]
    <3>1. CASE HasSocket(auth.name) /\ player' = [player EXCEPT ![auth.name] = Closing(auth.name)]
      <4>1. Closing(auth.name) \in Kicked(auth.name)
        BY <3>1 DEF Kicked
      <4> QED
        BY <1>d, <2>1, <3>1, <4>1
    <3>2. CASE UNCHANGED player
      BY <3>2
    <3> QED
      BY <1>1, <3>1, <3>2 DEF CheckPassword
  <2> QED
    BY <1>i, <2>1, <2>2
<1>2. CASE Create
  <2>1. /\ UNCHANGED <<order, now>> /\ auth.pc = "create" /\ auth.name \in Names
        /\ player' = [player EXCEPT ![auth.name] =
                        [is |-> "online", addr |-> auth.addr, late |-> auth.raced]]
    BY <1>2, <1>t DEF Create
  <2>2. CASE auth.name = m
    <3>1. player[m].late' = auth.raced
      BY <1>t, <2>1, <2>2 DEF PlayersTyped
    <3> QED
      BY <1>i, <2>1, <2>2, <3>1 DEF Held
  <2>3. CASE auth.name # m
    <3>1. player[m]' = player[m] /\ (shell.name = m => shell' = shell)
      BY <1>2, <1>t, <2>1, <2>3 DEF PlayersTyped, Create
    <3> QED
      BY <1>i, <2>1, <3>1
  <2> QED
    BY <2>2, <2>3
<1>3. ASSUME NEW n \in Names, Leave(n) \/ TemporarilyBan(n)
      PROVE  Sought(m)' \/ player[m].late'
  <2>1. UNCHANGED <<shell, order, now>>
    BY <1>3 DEF Leave, TemporarilyBan
  <2>2. player[m]' = player[m]
    BY <1>3, <1>d DEF Leave, TemporarilyBan
  <2> QED
    BY <1>i, <2>1, <2>2
<1>4. ASSUME NEW n \in Names, BanAccount(n)
      PROVE  Sought(m)' \/ player[m].late'
  <2>1. /\ UNCHANGED <<player, now>> /\ shell = Prompt
        /\ shell' = [Prompt EXCEPT !.pc = "find", !.name = n]
    BY <1>4 DEF BanAccount, Command
  <2>2. n # m => order'[m] = order[m]
    BY <1>4, <1>t DEF BanAccount
  <2> QED
    BY <1>i, <2>1, <2>2 DEF Prompt
<1>5. ASSUME NEW n \in Names, Unban(n)
      PROVE  Sought(m)' \/ player[m].late'
  <2>1. /\ UNCHANGED <<player, now>> /\ shell = Prompt
        /\ order' = [order EXCEPT ![n] = NoOrder]
    BY <1>5 DEF Unban, Command
  <2>2. n # m /\ order'[m] = order[m]
    BY <1>n, <1>t, <2>1
  <2> QED
    BY <1>i, <2>1, <2>2 DEF Prompt
<1>6. ASSUME NEW n \in Names,
             BanUuid(n) \/ BanIp(n) \/ UnbanUuid(n) \/ Whitelist(n)
                \/ \E t \in Times : Tempban(n, t)
      PROVE  Sought(m)' \/ player[m].late'
  <2>1. UNCHANGED <<player, order, now>> /\ ~Sought(m)
    BY <1>6 DEF BanUuid, BanIp, UnbanUuid, Whitelist, Tempban, Command, Prompt
  <2> QED
    BY <1>i, <2>1
<1>7. CASE TempbanRow
  <2>1. /\ UNCHANGED <<player, now>> /\ shell.pc = "tempban"
        /\ shell' = [Prompt EXCEPT !.pc = "find", !.name = shell.name]
    BY <1>7 DEF TempbanRow
  <2>2. shell.name # m => order'[m] = order[m]
    BY <1>7, <1>t DEF TempbanRow
  <2> QED
    BY <1>i, <2>1, <2>2 DEF Prompt
<1>8. CASE Find
  <2>1. UNCHANGED <<player, order, now>> /\ shell.pc = "find"
    BY <1>8 DEF Find
  <2>2. shell.name = m => Sought(m)'
    BY <1>8, <1>t, <2>1 DEF Find, Orders
  <2> QED
    BY <1>i, <2>1, <2>2
<1>9. CASE Kick
  <2>1. UNCHANGED <<order, now>> /\ shell.name \in Names
    BY <1>9, <1>t DEF Kick
  <2>2. shell.name # m /\ player[m]' = player[m]
    BY <1>9, <1>d, <2>1 DEF Kick
  <2> QED
    BY <1>i, <2>1, <2>2
<1>10. CASE Tick
  <2>1. UNCHANGED <<player, shell, order>> /\ now' = now + 1
    BY <1>10 DEF Tick
  <2> QED
    BY <1>i, <1>n, <2>1
<1>11. CASE Crash
  <2>1. player'[m] = NoPlayer
    BY <1>11 DEF Crash
  <2> QED
    BY <2>1 DEF NoPlayer
<1>12. CASE UNCHANGED <<player, shell, order, now>>
  BY <1>i, <1>12
<1> QED
  BY <1>1, <1>2, <1>3, <1>4, <1>5, <1>6, <1>7, <1>8, <1>9, <1>10, <1>11, <1>12
     DEF Next, vars, Setup, QueryUserInfo, Registered, CheckBanned, DeleteTempban, LiftBan,
         UpdateUserLoginData, CommitLogin, GameTime, UnbanIp, Chat, Unmute, Tempmute,
         DeleteMute, Connect, TempBanEnds

\* A mute in force stays in its table: the chat that deletes one has found one
\* that has run out, and an order given meanwhile is not counted on.
LEMMA MuteKeptNext ==
    ASSUME IInv, [Next]_vars
    PROVE  MuteKept'
<1> DEFINE Kept(n) == /\ mutes[n] >= now => db.tempmute[n] = mutes[n]
                      /\ auth.pc = "unmute" /\ auth.name = n => mutes[n] < now
<1>i. Typed /\ MuteKept
  BY DEF IInv
<1>a. /\ auth.pc = "unmute" => auth.name \in Names
      /\ auth'.pc = "unmute" => auth'.name \in Names
  BY <1>i, AuthTypedNext DEF Typed, AuthTyped
<1> SUFFICES ASSUME NEW m \in Names
             PROVE  Kept(m)'
  BY <1>a DEF MuteKept, MuteHolds
<1>k. Kept(m)
  BY <1>i DEF MuteKept, MuteHolds
<1>n. /\ now \in Int /\ now >= 0 /\ mutes[m] \in Int
      /\ NoEntry = -1 /\ NoOrder = -1 /\ Shaky = -2
  <2>1. now \in Times /\ mutes[m] \in Times \cup {NoOrder, Shaky}
    BY <1>i DEF Typed, OrdersTyped, TempsTyped
  <2> QED
    BY <2>1, Bounds DEF Times, NoEntry, NoOrder, Shaky
<1>t. /\ auth \in Handlers /\ db \in Tables /\ saved \in Tables
      /\ mutes \in [Names -> Times \cup {NoOrder, Shaky}]
  BY <1>i DEF Typed, AuthTyped, StoreTyped, OrdersTyped
<1>1. ASSUME UNCHANGED <<mutes, now>>, db'.tempmute = db.tempmute, auth'.pc # "unmute"
      PROVE  Kept(m)'
  BY <1>k, <1>1
<1>2. ASSUME UNCHANGED <<mutes, now>>, db'.tempmute = db.tempmute,
             auth'.pc = auth.pc, auth'.name = auth.name
      PROVE  Kept(m)'
  BY <1>k, <1>2
<1>3. ASSUME NEW a \in Addrs, NEW n \in Names, NEW u \in Uuids, Setup(a, n, u)
      PROVE  Kept(m)'
  <2>1. auth'.pc # "unmute"
    BY <1>3, SetupGoes
  <2> QED
    BY <1>1, <1>3, <2>1 DEF Setup, store
<1>4. CASE QueryUserInfo \/ Registered \/ UpdateUserLoginData
  <2>1. UNCHANGED <<mutes, now>> /\ db'.tempmute = db.tempmute
    BY <1>4, <1>t
       DEF QueryUserInfo, Registered, UpdateUserLoginData, Exec, Begin, Tables, store
  <2>2. auth'.pc # "unmute"
    BY <1>4, <1>t, QueryGoes DEF Registered, UpdateUserLoginData, Handlers
  <2> QED
    BY <1>1, <2>1, <2>2
<1>5. CASE CheckBanned \/ CheckPassword \/ CommitLogin \/ Create \/ GameTime
  <2>1. UNCHANGED <<mutes, now, db>>
    BY <1>5
       DEF CheckBanned, CheckPassword, CommitLogin, Create, GameTime, Begin, Commit, store
  <2>2. auth'.pc # "unmute"
    BY <1>5, <1>t
       DEF CheckBanned, CheckPassword, CommitLogin, Create, GameTime, Refused, Idle,
           Handlers
  <2> QED
    BY <1>1, <2>1, <2>2
<1>6. CASE DeleteTempban \/ LiftBan
  <2>1. UNCHANGED <<mutes, now>> /\ db'.tempmute = db.tempmute
    BY <1>6, <1>t DEF DeleteTempban, LiftBan, Exec, Tables
  <2>2. auth'.pc # "unmute"
    BY <1>6, <1>t DEF DeleteTempban, LiftBan, Handlers
  <2> QED
    BY <1>1, <2>1, <2>2
<1>7. ASSUME NEW n \in Names, BanAccount(n) \/ \E t \in Times : Tempban(n, t)
      PROVE  Kept(m)'
  <2>1. UNCHANGED <<mutes, now>> /\ db'.tempmute = db.tempmute
    BY <1>7, <1>t DEF BanAccount, Tempban, Exec, ExecOrder, Tables
  <2>2. auth'.pc = auth.pc /\ auth'.name = auth.name
    BY <1>7, <1>t DEF BanAccount, Tempban, Overtaken, Handlers
  <2> QED
    BY <1>2, <2>1, <2>2
<1>8. CASE TempbanRow
  <2>1. UNCHANGED <<mutes, now>> /\ db'.tempmute = db.tempmute
    BY <1>8, <1>t DEF TempbanRow, Exec, ExecOrder, Tables
  <2>2. auth'.pc = auth.pc /\ auth'.name = auth.name
    BY <1>8, <1>t DEF TempbanRow, Overtaken, Handlers
  <2> QED
    BY <1>2, <2>1, <2>2
<1>9. ASSUME NEW n \in Names,
             Unban(n) \/ UnbanUuid(n) \/ BanUuid(n) \/ BanIp(n) \/ UnbanIp(n) \/ Whitelist(n)
      PROVE  Kept(m)'
  <2>1. UNCHANGED <<mutes, now, auth>> /\ db'.tempmute = db.tempmute
    BY <1>9, <1>t
       DEF Unban, UnbanUuid, BanUuid, BanIp, UnbanIp, Whitelist, Exec, Begin, Commit, Tables
  <2> QED
    BY <1>2, <2>1
<1>10. ASSUME NEW n \in Names, Chat(n)
      PROVE  Kept(m)'
  <2>1. /\ UNCHANGED <<db, mutes, now>> /\ auth'.name = n
        /\ db.tempmute[n] # NoEntry /\ now > db.tempmute[n]
    BY <1>10 DEF Chat, store, Idle
  <2>2. n = m => mutes[m] < now
    BY <1>k, <1>n, <2>1
  <2> QED
    BY <1>k, <2>1, <2>2
<1>11. CASE DeleteMute
  <2>1. /\ UNCHANGED <<mutes, now>> /\ auth.pc = "unmute" /\ auth'.pc = "idle"
        /\ db'.tempmute = [db.tempmute EXCEPT ![auth.name] = NoEntry]
    BY <1>11, <1>t DEF DeleteMute, Exec, Tables, Idle
  <2>2. auth.name # m => db'.tempmute[m] = db.tempmute[m]
    BY <1>t, <2>1 DEF Tables
  <2> QED
    BY <1>k, <1>n, <2>1, <2>2
<1>12. ASSUME NEW n \in Names, Unmute(n)
      PROVE  Kept(m)'
  <2>1. /\ UNCHANGED <<auth, now>>
        /\ db'.tempmute = [db.tempmute EXCEPT ![n] = NoEntry]
        /\ mutes' = [mutes EXCEPT ![n] = NoOrder]
    BY <1>12, <1>t DEF Unmute, Exec, Tables
  <2>2. CASE n = m
    <3>1. mutes'[m] = NoOrder
      BY <1>t, <2>1, <2>2
    <3> QED
      BY <1>n, <2>1, <3>1
  <2>3. CASE n # m
    <3>1. mutes'[m] = mutes[m] /\ db'.tempmute[m] = db.tempmute[m]
      BY <1>t, <2>1, <2>3 DEF Tables
    <3> QED
      BY <1>k, <2>1, <3>1
  <2> QED
    BY <2>2, <2>3
<1>13. ASSUME NEW n \in Names, NEW t \in Times, Tempmute(n, t)
      PROVE  Kept(m)'
  <2> DEFINE e == IF auth.pc = "unmute" /\ auth.name = n THEN Shaky ELSE t
  <2>1. /\ UNCHANGED <<auth, now>>
        /\ db'.tempmute = [db.tempmute EXCEPT ![n] = t]
        /\ mutes' = [mutes EXCEPT ![n] = e]
    BY <1>13, <1>t DEF Tempmute, Exec, ExecOrder, Tables
  <2>2. CASE n = m
    <3>1. mutes'[m] = e /\ db'.tempmute[m] = t
      BY <1>t, <2>1, <2>2 DEF Tables
    <3> QED
      BY <1>n, <2>1, <2>2, <3>1
  <2>3. CASE n # m
    <3>1. mutes'[m] = mutes[m] /\ db'.tempmute[m] = db.tempmute[m]
      BY <1>t, <2>1, <2>3 DEF Tables
    <3> QED
      BY <1>k, <2>1, <3>1
  <2> QED
    BY <2>2, <2>3
<1>14. CASE Tick
  <2>1. UNCHANGED <<db, mutes, auth>> /\ now' = now + 1
    BY <1>14 DEF Tick, store
  <2> QED
    BY <1>k, <1>n, <2>1
<1>15. CASE Crash
  <2>1. /\ db' = saved /\ now' = now /\ auth' = Idle
        /\ mutes'[m] = IF <<"mute", m>> \in pending THEN Shaky ELSE mutes[m]
    BY <1>15 DEF Crash
  <2>2. mutes[m] >= now /\ <<"mute", m>> \notin pending => saved.tempmute[m] = mutes[m]
    BY DEF IInv, DiskKept, OnDisk
  <2> QED
    BY <1>n, <2>1, <2>2, IdleTyped
<1>16. CASE UNCHANGED <<db, mutes, now, auth>>
  BY <1>2, <1>16
<1> QED
  BY <1>3, <1>4, <1>5, <1>6, <1>7, <1>8, <1>9, <1>10, <1>11, <1>12, <1>13, <1>14, <1>15,
     <1>16
     DEF Next, vars, store, Connect, Find, Kick, Leave, TempBanEnds, TemporarilyBan

\* What is in force and not pending is on disk after every step: a statement outside a
\* transaction is there at once, a commit brings what the tables in use have, and what is
\* ordered within one is pending.
LEMMA DiskKeptNext ==
    ASSUME IInv, [Next]_vars, BanKept', MuteKept'
    PROVE  DiskKept'
<1> SUFFICES ASSUME NEW m \in Names
             PROVE  OnDisk(m)'
  BY DEF DiskKept
<1>i. Typed /\ OnDisk(m)
  BY DEF IInv, DiskKept
<1>n. /\ now \in Int /\ now >= 0 /\ order[m] \in Int /\ mutes[m] \in Int
      /\ NoOrder = -1 /\ Shaky = -2
  <2>1. /\ now \in Times /\ order[m] \in Times \cup {NoOrder, Shaky, Forever}
        /\ mutes[m] \in Times \cup {NoOrder, Shaky}
    BY <1>i DEF Typed, OrdersTyped, TempsTyped
  <2> QED
    BY <2>1, Bounds DEF Times, NoOrder, Shaky, Forever
<1>t. /\ order \in [Names -> Times \cup {NoOrder, Shaky, Forever}]
      /\ mutes \in [Names -> Times \cup {NoOrder, Shaky}]
  BY <1>i DEF Typed, OrdersTyped
<1>1. ASSUME saved' = db'
      PROVE  OnDisk(m)'
  BY <1>1 DEF BanKept, Held, MuteKept, MuteHolds, OnDisk
<1>2. ASSUME UNCHANGED <<saved, pending, now>>,
             order'[m] = order[m] \/ order'[m] = NoOrder,
             mutes'[m] = mutes[m] \/ mutes'[m] = NoOrder
      PROVE  OnDisk(m)'
  BY <1>i, <1>n, <1>2 DEF OnDisk, InForce
\* A statement, an order, the beginning and the end of a transaction
<1>e. ASSUME NEW new, Exec(new), UNCHANGED now,
             order'[m] = order[m] \/ order'[m] = NoOrder,
             mutes'[m] = mutes[m] \/ mutes'[m] = NoOrder
      PROVE  OnDisk(m)'
  BY <1>1, <1>2, <1>e DEF Exec
<1>b. ASSUME NEW new, NEW who, Begin(who, new), UNCHANGED <<now, order, mutes>>
      PROVE  OnDisk(m)'
  BY <1>2, <1>b DEF Begin
<1>c. ASSUME Commit
      PROVE  OnDisk(m)'
  BY <1>1, <1>c DEF Commit
<1>3. CASE QueryUserInfo
  <2>1. UNCHANGED <<now, order, mutes>> /\ (UNCHANGED store \/ \E new : Exec(new))
    BY <1>3 DEF QueryUserInfo
  <2> QED
    BY <1>2, <1>e, <2>1 DEF store
<1>4. CASE Registered \/ DeleteTempban \/ LiftBan \/ DeleteMute
  <2>1. UNCHANGED <<now, order, mutes>> /\ \E new : Exec(new)
    BY <1>4 DEF Registered, DeleteTempban, LiftBan, DeleteMute
  <2> QED
    BY <1>e, <2>1
<1>5. CASE UpdateUserLoginData
  BY <1>5, <1>b DEF UpdateUserLoginData
<1>6. CASE CommitLogin
  BY <1>6, <1>c DEF CommitLogin
<1>7. CASE GameTime
  BY <1>7, <1>b, <1>c DEF GameTime
<1>8. ASSUME NEW n \in Names, BanAccount(n)
      PROVE  OnDisk(m)'
  <2>1. UNCHANGED <<now, mutes>> /\ (n # m => order'[m] = order[m])
    BY <1>8, <1>t DEF BanAccount
  <2>2. /\ saved' = db' \/ (saved' = saved /\ pending' = pending \cup {<<"ban", n>>})
    BY <1>8 DEF BanAccount, ExecOrder
  <2> QED
    BY <1>i, <1>1, <2>1, <2>2 DEF OnDisk, InForce
<1>9. CASE TempbanRow
  <2>1. UNCHANGED <<now, mutes>> /\ (shell.name # m => order'[m] = order[m])
    BY <1>9, <1>t DEF TempbanRow
  <2>2. /\ saved' = db' \/ (saved' = saved /\ pending' = pending \cup {<<"ban", shell.name>>})
    BY <1>9 DEF TempbanRow, ExecOrder
  <2> QED
    BY <1>i, <1>1, <2>1, <2>2 DEF OnDisk, InForce
<1>10. ASSUME NEW n \in Names, NEW t \in Times, Tempmute(n, t)
       PROVE  OnDisk(m)'
  <2>1. UNCHANGED <<now, order>> /\ (n # m => mutes'[m] = mutes[m])
    BY <1>10, <1>t DEF Tempmute
  <2>2. /\ saved' = db' \/ (saved' = saved /\ pending' = pending \cup {<<"mute", n>>})
    BY <1>10 DEF Tempmute, ExecOrder
  <2> QED
    BY <1>i, <1>1, <2>1, <2>2 DEF OnDisk, InForce
<1>11. ASSUME NEW n \in Names, Unban(n) \/ Unmute(n)
       PROVE  OnDisk(m)'
  <2>1. /\ UNCHANGED now
        /\ order'[m] = order[m] \/ order'[m] = NoOrder
        /\ mutes'[m] = mutes[m] \/ mutes'[m] = NoOrder
    BY <1>11, <1>t DEF Unban, Unmute
  <2>2. \E new : Exec(new)
    BY <1>11 DEF Unban, Unmute
  <2> QED
    BY <1>e, <2>1, <2>2
<1>12. ASSUME NEW n \in Names,
              UnbanUuid(n) \/ BanUuid(n) \/ BanIp(n) \/ UnbanIp(n) \/ \E t \in Times : Tempban(n, t)
       PROVE  OnDisk(m)'
  <2>1. UNCHANGED <<now, order, mutes>> /\ \E new : Exec(new)
    BY <1>12 DEF UnbanUuid, BanUuid, BanIp, UnbanIp, Tempban
  <2> QED
    BY <1>e, <2>1
<1>13. ASSUME NEW n \in Names, Whitelist(n)
       PROVE  OnDisk(m)'
  <2>1. UNCHANGED <<now, order, mutes>> /\ (Commit \/ \E new : Begin("shell", new))
    BY <1>13 DEF Whitelist
  <2> QED
    BY <1>b, <1>c, <2>1
<1>14. CASE Tick
  <2>1. UNCHANGED <<saved, pending, order, mutes>> /\ now' = now + 1
    BY <1>14 DEF Tick, store
  <2> QED
    BY <1>i, <1>n, <2>1 DEF OnDisk, InForce
<1>15. CASE Crash
  BY <1>1, <1>15 DEF Crash
<1>16. CASE UNCHANGED <<store, now, order, mutes>>
  BY <1>2, <1>16 DEF store
<1> QED
  BY <1>3, <1>4, <1>5, <1>6, <1>7, <1>8, <1>9, <1>10, <1>11, <1>12, <1>13, <1>14, <1>15,
     <1>16
     DEF Next, vars, Setup, CheckBanned, CheckPassword, Create, Connect, Find, Kick, Leave,
         TempBanEnds, TemporarilyBan, Chat

\* Every entry of temp_banlist has its timer after every step.
LEMMA TempBansHeldNext ==
    ASSUME IInv, [Next]_vars
    PROVE  TempBansHeld'
<1>0. TempBansHeld /\ Typed
  BY DEF IInv
<1> USE DEF TempBansHeld, Typed, TempsTyped
<1>1. ASSUME NEW a \in Addrs, TempBanEnds(a)
      PROVE  TempBansHeld'
  BY <1>0, <1>1 DEF TempBanEnds
<1>2. ASSUME NEW n \in Names, TemporarilyBan(n)
      PROVE  TempBansHeld'
  BY <1>0, <1>2 DEF TemporarilyBan
<1>3. CASE Crash
  BY <1>3 DEF Crash
<1>4. CASE UNCHANGED temps
  BY <1>0, <1>4 DEF temps
<1> QED
  BY <1>1, <1>2, <1>3, <1>4
     DEF Next, vars, BanAccount, BanIp, BanUuid, Chat, CheckBanned, CheckPassword, CommitLogin,
         Connect, Create, DeleteMute, DeleteTempban, Find, GameTime, Kick, Leave, LiftBan,
         QueryUserInfo, Registered, Setup, Tempban, TempbanRow, Tempmute, Tick, Unban, UnbanIp,
         UnbanUuid, Unmute, UpdateUserLoginData, Whitelist

\* Rows of usergameinfo are not taken away, on disk or in use, and a login has
\* committed one before there is a player.
LEMMA GameKeptNext ==
    ASSUME IInv, [Next]_vars
    PROVE  GameKept'
<1>i. /\ Typed /\ saved.game \subseteq db.game
      /\ \A n \in Names : player[n].is # "none" => n \in saved.game
      /\ auth.pc = "commit" => auth.name \in db.game
      /\ auth.pc = "create" => auth.name \in saved.game
  BY DEF IInv, GameKept, GameInfoOfPlayers
<1>t. /\ auth \in Handlers /\ db \in Tables /\ saved \in Tables /\ PlayersTyped
      /\ (tx = "none" => saved = db)
  BY <1>i DEF Typed, AuthTyped, StoreTyped
<1>1. ASSUME saved.game \subseteq saved'.game, saved'.game \subseteq db'.game,
             \A n \in Names : player'[n].is # "none" => player[n].is # "none",
             auth'.pc \notin {"commit", "create"}
      PROVE  GameKept'
  BY <1>i, <1>1 DEF GameKept, GameInfoOfPlayers
<1>2. ASSUME saved.game \subseteq saved'.game, saved'.game \subseteq db'.game,
             db.game \subseteq db'.game, UNCHANGED player,
             auth'.pc = auth.pc, auth'.name = auth.name
      PROVE  GameKept'
  BY <1>i, <1>2 DEF GameKept, GameInfoOfPlayers
<1>3. ASSUME NEW a \in Addrs, NEW n \in Names, NEW u \in Uuids, Setup(a, n, u)
      PROVE  GameKept'
  <2>1. auth'.pc \in {"idle", "row"}
    BY <1>3, SetupGoes
  <2>2. UNCHANGED <<db, saved, player>>
    BY <1>3 DEF Setup, store
  <2> QED
    BY <1>i, <1>1, <2>1, <2>2
<1>4. CASE QueryUserInfo \/ DeleteTempban \/ LiftBan \/ DeleteMute
  <2>1. /\ UNCHANGED player /\ db'.game = db.game
        /\ saved'.game = saved.game \/ saved'.game = db.game
    BY <1>4, <1>t DEF QueryUserInfo, DeleteTempban, LiftBan, DeleteMute, Exec, Tables, store
  <2>2. auth'.pc \notin {"commit", "create"}
    BY <1>4, <1>t, QueryGoes DEF DeleteTempban, LiftBan, DeleteMute, Idle, Handlers
  <2> QED
    BY <1>i, <1>1, <2>1, <2>2
<1>5. CASE Registered
  <2>1. /\ UNCHANGED player /\ db'.game = db.game \cup {auth.name}
        /\ saved'.game = saved.game \/ saved'.game = db'.game
    BY <1>5, <1>t DEF Registered, Exec, Tables
  <2>2. auth'.pc = "ban"
    BY <1>5, <1>t DEF Registered, Handlers
  <2> QED
    BY <1>i, <1>1, <2>1, <2>2
<1>6. CASE CheckBanned
  <2>1. UNCHANGED <<db, saved, player>>
    BY <1>6 DEF CheckBanned, store
  <2>2. auth'.pc \notin {"commit", "create"}
    BY <1>6, <1>t DEF CheckBanned, Refused, Idle, Handlers
  <2> QED
    BY <1>i, <1>1, <2>1, <2>2
<1>7. CASE CheckPassword
  <2>1. UNCHANGED <<db, saved>> /\ auth.pc = "password"
    BY <1>7 DEF CheckPassword, store
  <2>2. auth'.pc \notin {"commit", "create"}
    BY <1>7, <1>t DEF CheckPassword, Refused, Idle, Handlers
  <2>3. auth.name \in Names
    BY <1>i, <2>1 DEF Typed, AuthTyped
  <2>4. ASSUME NEW n \in Names, player'[n].is # "none"
        PROVE  player[n].is # "none"
    <3>1. CASE UNCHANGED player
      BY <2>4, <3>1
    <3>2. CASE HasSocket(auth.name) /\ player' = [player EXCEPT ![auth.name] = Closing(auth.name)]
      BY <2>3, <2>4, <3>2, <1>t DEF PlayersTyped, HasSocket
    <3> QED
      BY <1>7, <3>1, <3>2 DEF CheckPassword
  <2> QED
    BY <1>i, <1>1, <2>1, <2>2, <2>4
<1>8. CASE UpdateUserLoginData
  <2>1. /\ UNCHANGED <<player, saved>> /\ db'.game = db.game \cup {auth.name}
    BY <1>8, <1>t DEF UpdateUserLoginData, Begin, Tables
  <2>2. auth'.pc = "commit" /\ auth'.name = auth.name
    BY <1>8, <1>t DEF UpdateUserLoginData, Handlers
  <2> QED
    BY <1>i, <2>1, <2>2 DEF GameKept, GameInfoOfPlayers
<1>9. CASE CommitLogin
  <2>1. UNCHANGED <<player, db>> /\ saved' = db /\ auth.pc = "commit"
    BY <1>9 DEF CommitLogin, Commit
  <2>2. auth'.pc = "create" /\ auth'.name = auth.name
    BY <1>9, <1>t DEF CommitLogin, Handlers
  <2> QED
    BY <1>i, <2>1, <2>2 DEF GameKept, GameInfoOfPlayers
<1>10. CASE Create
  <2>1. /\ UNCHANGED <<db, saved>> /\ auth.pc = "create" /\ auth'.pc = "idle"
        /\ player' = [player EXCEPT ![auth.name] =
                        [is |-> "online", addr |-> auth.addr, late |-> auth.raced]]
    BY <1>10 DEF Create, store, Idle
  <2>2. \A n \in Names : n # auth.name => player'[n] = player[n]
    BY <1>t, <2>1 DEF PlayersTyped
  <2> QED
    BY <1>i, <2>1, <2>2 DEF GameKept, GameInfoOfPlayers
<1>11. CASE GameTime
  <2>1. UNCHANGED <<db, player>> /\ saved' \in {saved, db}
    BY <1>11 DEF GameTime, Begin, Commit
  <2>2. auth'.pc \in {"idle", "gametime"}
    BY <1>11 DEF GameTime, Idle
  <2> QED
    BY <1>i, <1>1, <2>1, <2>2
<1>12. ASSUME NEW n \in Names, Leave(n) \/ TemporarilyBan(n)
       PROVE  GameKept'
  <2>1. UNCHANGED <<db, saved, auth>> /\ player[n].is # "none" /\ auth = Idle
    BY <1>12 DEF Leave, TemporarilyBan, store, MainFree
  <2>2. PICK p : player' = [player EXCEPT ![n] = p]
    BY <1>12 DEF Leave, TemporarilyBan
  <2>3. \A k \in Names : player'[k].is # "none" => player[k].is # "none"
    BY <1>t, <2>1, <2>2 DEF PlayersTyped
  <2> QED
    BY <1>i, <1>1, <2>1, <2>3 DEF Idle
<1>13. ASSUME NEW n \in Names, BanAccount(n) \/ \E t \in Times : Tempban(n, t)
       PROVE  GameKept'
  <2>1. /\ UNCHANGED player /\ db'.game = db.game
        /\ saved'.game = saved.game \/ saved'.game = db.game
    BY <1>13, <1>t DEF BanAccount, Tempban, Exec, ExecOrder, Tables
  <2>2. auth'.pc = auth.pc /\ auth'.name = auth.name
    BY <1>13, <1>t DEF BanAccount, Tempban, Overtaken, Handlers
  <2> QED
    BY <1>i, <1>2, <2>1, <2>2
<1>14. CASE TempbanRow
  <2>1. /\ UNCHANGED player /\ db'.game = db.game
        /\ saved'.game = saved.game \/ saved'.game = db.game
    BY <1>14, <1>t DEF TempbanRow, Exec, ExecOrder, Tables
  <2>2. auth'.pc = auth.pc /\ auth'.name = auth.name
    BY <1>14, <1>t DEF TempbanRow, Overtaken, Handlers
  <2> QED
    BY <1>i, <1>2, <2>1, <2>2
<1>15. ASSUME NEW n \in Names,
              \/ Unban(n) \/ UnbanUuid(n) \/ BanUuid(n) \/ BanIp(n) \/ UnbanIp(n)
              \/ Whitelist(n) \/ Unmute(n) \/ \E t \in Times : Tempmute(n, t)
       PROVE  GameKept'
  <2>1. /\ UNCHANGED <<player, auth>> /\ db'.game = db.game
        /\ saved'.game = saved.game \/ saved'.game = db.game
    BY <1>15, <1>t
       DEF Unban, UnbanUuid, BanUuid, BanIp, UnbanIp, Whitelist, Unmute, Tempmute, Exec, ExecOrder, Begin,
           Commit, Tables
  <2> QED
    BY <1>i, <1>2, <2>1
<1>16. CASE Kick
  <2>1. UNCHANGED <<db, saved, auth>> /\ auth = Idle /\ shell.pc = "kick"
    BY <1>16 DEF Kick, store, MainFree
  <2>2. shell.name \in Names
    BY <1>i, <2>1 DEF Typed, ShellTyped
  <2>3. ASSUME NEW n \in Names, player'[n].is # "none"
        PROVE  player[n].is # "none"
    <3>1. PICK p \in Kicked(shell.name) : player' = [player EXCEPT ![shell.name] = p]
      BY <1>16 DEF Kick
    <3>2. CASE n # shell.name
      BY <2>3, <3>1, <3>2, <1>t DEF PlayersTyped
    <3>3. CASE n = shell.name
      BY <2>2, <2>3, <3>1, <3>3, <1>t, KickedTyped DEF PlayersTyped
    <3> QED
      BY <3>2, <3>3
  <2> QED
    BY <1>i, <1>1, <2>1, <2>3 DEF Idle
<1>17. CASE Crash
  <2>1. db' = saved /\ saved' = saved /\ auth' = Idle /\ player' = [n \in Names |-> NoPlayer]
    BY <1>17 DEF Crash
  <2> QED
    BY <2>1, IdleTyped DEF GameKept, GameInfoOfPlayers, NoPlayer
<1>18. ASSUME UNCHANGED <<db, saved, auth, player>>
       PROVE  GameKept'
  BY <1>i, <1>2, <1>18
<1>19. CASE Find \/ Tick \/ (\E a \in Addrs : Connect(a) \/ TempBanEnds(a)) \/ UNCHANGED vars
  BY <1>18, <1>19 DEF Find, Tick, Connect, TempBanEnds, vars, store
<1>20. ASSUME NEW n \in Names, Chat(n)
       PROVE  GameKept'
  <2>1. UNCHANGED <<db, saved, player>> /\ auth'.pc = "unmute"
    BY <1>20 DEF Chat, store, Idle
  <2> QED
    BY <1>i, <1>1, <2>1
<1> QED
  BY <1>3, <1>4, <1>5, <1>6, <1>7, <1>8, <1>9, <1>10, <1>11, <1>12, <1>13, <1>14, <1>15,
     <1>16, <1>17, <1>19, <1>20 DEF Next

-----------------------------------------------------------------------------
(* The theorems *)

\* A server that has just been installed.
LEMMA InitIInv == Init => IInv
<1> SUFFICES ASSUME Init PROVE IInv
  OBVIOUS
<1>n. /\ NoEntry = -1 /\ NoOrder = -1 /\ now = 0 /\ Times = 0..MaxTime
      /\ \A n \in Names : order[n] = NoOrder /\ mutes[n] = NoOrder
  BY DEF Init, NoEntry, NoOrder, Times
<1>1. AuthTyped /\ ShellTyped
  BY IdleTyped DEF Init, AuthTyped, ShellTyped, Orders, Prompt
<1>2. StoreTyped
  BY DEF Init, StoreTyped, Empty, Tables, Known
<1>3. PlayersTyped
  BY DEF Init, PlayersTyped, Players, NoPlayer
<1>4. OrdersTyped /\ TempsTyped
  BY Bounds, <1>n DEF Init, OrdersTyped, TempsTyped
<1>5. BanKept /\ OutKept
  BY <1>n DEF BanKept, OutKept, InForce
<1>6. MuteKept /\ TempBansHeld
  BY <1>n DEF MuteKept, MuteHolds, TempBansHeld, Init, Idle
<1>7. GameKept
  BY DEF GameKept, GameInfoOfPlayers, Init, Idle, NoPlayer, Empty
<1>8. DiskKept
  BY <1>n DEF DiskKept, OnDisk, InForce
<1> QED
  BY <1>1, <1>2, <1>3, <1>4, <1>5, <1>6, <1>7, <1>8 DEF IInv, Typed

\* Every step of the main thread, of the shell's thread and of the clock, and
\* every crash, keeps the inductive invariant.
LEMMA NextIInv == IInv /\ [Next]_vars => IInv'
<1> SUFFICES ASSUME IInv, [Next]_vars PROVE IInv'
  OBVIOUS
<1>1. Typed
  BY DEF IInv
<1>2. Typed'
  BY <1>1, StoreTypedNext, AuthTypedNext, ShellTypedNext, PlayersTypedNext, OrdersTypedNext,
     TempsTypedNext DEF Typed
<1> QED
  BY <1>2, BanKeptNext, OutKeptNext, MuteKeptNext, DiskKeptNext, TempBansHeldNext, GameKeptNext
     DEF IInv

\* The inductive invariant holds of every state of the system.
THEOREM Invariance == Spec => []IInv
BY InitIInv, NextIInv, PTL DEF Spec

\* The tables, the handler, the command and the players keep their types, only
\* accounts that exist are banned, and each of them has an address, which
\* banipCommand and temporarilyBan read (queryUserInfo, updateUserLoginData).
THEOREM TypeCorrect == Spec => []TypeOK
<1>1. IInv => TypeOK
  BY DEF IInv, Typed, AuthTyped, Handlers, Pcs, ShellTyped, Orders, StoreTyped, Known,
         PlayersTyped, Players, OrdersTyped, TempsTyped, TypeOK
<1> QED
  BY <1>1, Invariance, PTL

\* A ban in force is in the database, and no sign-up passes its check but one
\* that had read the row before (checkPassword and getBanExpire, statement by
\* statement, against banAccount, tempbanCommand and unbanCommand).
THEOREM BansAreKept == Spec => []BanHolds
<1>1. IInv => BanHolds
  BY DEF IInv, BanKept, Held, BanHolds
<1> QED
  BY <1>1, Invariance, PTL

\* The socket of who is banned is closed or told to close, but until the command has
\* kicked him, or when his sign-up was overtaken (banAccount, tempbanCommand, findPlayer,
\* emitKicked).
THEOREM BannedAreKicked == Spec => []BannedAreOut
<1>1. IInv => BannedAreOut
  BY DEF IInv, OutKept, BannedAreOut
<1> QED
  BY <1>1, Invariance, PTL

\* A mute in force is in the database, whatever the chat deletes and whenever the server
\* dies, but for one given while a chat deletes an older one, and one pending at a crash
\* (isMuted against tempmuteCommand and unmuteCommand).
THEOREM MutesAreKept == Spec => []MuteHolds
<1>1. IInv => MuteHolds
  BY DEF IInv, MuteKept
<1> QED
  BY <1>1, Invariance, PTL

\* An address is refused for as long as timers run for it (temporarilyBan).
THEOREM TempBansAreTimed == Spec => []TempBansHeld
<1>1. IInv => TempBansHeld
  BY DEF IInv
<1> QED
  BY <1>1, Invariance, PTL

\* Whoever is signed in has a row in usergameinfo on disk, whenever the server
\* has died before (queryUserInfo, updateUserLoginData).
THEOREM PlayersHaveGameInfo == Spec => []GameInfoOfPlayers
<1>1. IInv => GameInfoOfPlayers
  BY DEF IInv, GameKept
<1> QED
  BY <1>1, Invariance, PTL

=============================================================================
