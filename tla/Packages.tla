------------------------------ MODULE Packages ------------------------------
(***************************************************************************)
(* The packages of the server: a table, a directory of git checkouts, the  *)
(* list of disabled packages in memory, and what the server tells clients  *)
(* about them: an md5 that a client must have computed from its own files, *)
(* and a summary by which it can install the same files. Commands of the   *)
(* shell change them step by step, each step may fail, the server may die  *)
(* in between, and the main thread reads them whenever a refresh is run.   *)
(***************************************************************************)
EXTENDS Integers

CONSTANTS
    Packs,      \* names of packages
    Core,       \* freekill-core
    MaxCommit,  \* commits of a repository
    MaxRefresh  \* refreshes that wait for the main loop

ASSUME Bounds == Core \in Packs /\ MaxCommit \in Nat \ {0} /\ MaxRefresh \in Nat \ {0}

VARIABLES
    hash,           \* the commit in the row of each package, or NoRow
    enabled,        \* packages whose row says enabled
    disk,           \* the commit that packages/ holds, or 0 where there is none
    disabled_packs, \* PackMan's list, in memory
    remote,         \* the newest commit of each repository
    md5,            \* the files that the server's md5 was computed from
    summary,        \* the rows that clients are told
    refreshes,      \* refreshes handed to the main loop
    main,           \* the main loop is between the two parts of a refresh
    shell,          \* what the shell's thread does next, and to which packages
    trouble         \* packages that a failure or a gap of the commands has met

table == <<hash, enabled>>
told == <<md5, summary>>
vars == <<table, disk, disabled_packs, remote, told, refreshes, main, shell, trouble>>

NoRow == -1
Unreadable == 0             \* what head() returns without a repository
Commits == 1..MaxCommit

\* head(): the commit of a directory, or Unreadable.
HeadOf(dirs, p) == IF dirs[p] = 0 THEN Unreadable ELSE dirs[p]

\* calcFileMD5: every directory counts that is not disabled.
Files(dirs, disabled) == [p \in Packs |-> IF p \in disabled THEN 0 ELSE dirs[p]]

\* PackMan::refreshSummary
Listed(rows, on) == [p \in Packs |-> IF p \in on THEN rows[p] ELSE NoRow]

\* A constructor that forgets what was disabled.
LoadedNone(rows, on) == {}

\* PackMan::PackMan
Loaded(rows, on) == {p \in Packs : rows[p] # NoRow /\ p \notin on}

NoPack == "none"
Prompt == [pc |-> "idle", pack |-> NoPack, todo |-> {}]

Init ==
    /\ hash = [p \in Packs |-> IF p = Core THEN 1 ELSE NoRow] /\ enabled = {Core}
    /\ disk = [p \in Packs |-> IF p = Core THEN 1 ELSE 0]
    /\ remote = [p \in Packs |-> 1]
    /\ disabled_packs = Loaded(hash, enabled)
    /\ md5 = Files(disk, disabled_packs) /\ summary = Listed(hash, enabled)
    /\ refreshes = 0 /\ main = "idle" /\ shell = Prompt /\ trouble = {}

-----------------------------------------------------------------------------
(* Commands of the shell *)

Do(pc, p) == shell' = [shell EXCEPT !.pc = pc, !.pack = p]

\* The command ends with Server::refreshMd5, unless more packages are to do.
Finish ==
    \/ shell.todo = {} /\ shell' = [Prompt EXCEPT !.pc = "refresh"]
    \/ \E p \in shell.todo :
          shell' = [pc |-> "upgrade", pack |-> p, todo |-> shell.todo \ {p}]

\* downloadNewPack: clone. A clone into an existing directory fails like any
\* other, and a failed clone deletes the directory, if it can.
Clone(p) ==
    /\ shell = Prompt
    /\ \/ /\ disk[p] = 0
          /\ disk' = [disk EXCEPT ![p] = remote[p]]
          /\ Do("insert", p)
          /\ UNCHANGED trouble
       \/ /\ \E left \in {0, disk[p]} : disk' = [disk EXCEPT ![p] = left]
          /\ trouble' = IF hash[p] = NoRow /\ disk[p] = 0 THEN trouble ELSE trouble \cup {p}
          /\ Finish
    /\ UNCHANGED <<table, disabled_packs, remote, told, refreshes, main>>

\* downloadNewPack: the row, for a package that has none.
InsertRow ==
    /\ shell.pc = "insert"
    /\ LET p == shell.pack IN
       IF hash[p] = NoRow
       THEN hash' = [hash EXCEPT ![p] = HeadOf(disk, p)] /\ enabled' = enabled \cup {p}
       ELSE UNCHANGED table
    /\ Finish
    /\ UNCHANGED <<disk, disabled_packs, remote, told, refreshes, main, trouble>>

\* removePack: the row, if there is one. The list in memory is not touched, so that
\* a package that was disabled counts as disabled when it is installed again.
DeleteRow(p) ==
    /\ shell = Prompt
    /\ hash' = [hash EXCEPT ![p] = NoRow] /\ enabled' = enabled \ {p}
    /\ IF hash[p] = NoRow
       THEN Finish /\ UNCHANGED trouble
       ELSE /\ trouble' = IF p \in disabled_packs THEN trouble \cup {p} ELSE trouble
            /\ Do("rmdir", p)
    /\ UNCHANGED <<disk, disabled_packs, remote, told, refreshes, main>>

\* removePack: the directory, if it can be deleted.
RemoveDir ==
    /\ shell.pc = "rmdir"
    /\ LET p == shell.pack IN
       \/ disk' = [disk EXCEPT ![p] = 0] /\ UNCHANGED trouble
       \/ disk[p] # 0 /\ trouble' = trouble \cup {p} /\ UNCHANGED disk
    /\ Finish
    /\ UNCHANGED <<table, disabled_packs, remote, told, refreshes, main>>

\* upgradeCommand, for one package or for all that have a row.
Upgrade ==
    /\ shell = Prompt
    /\ \E s \in {{p} : p \in Packs} \cup {{p \in Packs : hash[p] # NoRow}} :
          IF s = {} THEN shell' = [Prompt EXCEPT !.pc = "refresh"]
          ELSE \E p \in s : shell' = [pc |-> "upgrade", pack |-> p, todo |-> s \ {p}]
    /\ UNCHANGED <<table, disk, disabled_packs, remote, told, refreshes, main, trouble>>

\* upgradePack: status. A missing or a dirty directory is left alone.
Status ==
    /\ shell.pc = "upgrade"
    /\ Finish \/ (disk[shell.pack] # 0 /\ Do("pull", shell.pack))
    /\ UNCHANGED <<table, disk, disabled_packs, remote, told, refreshes, main, trouble>>

\* The row keeps the old hash, while HEAD may have moved.
LeftBehind(p) ==
    /\ Finish
    /\ trouble' = IF hash[p] = remote[p] THEN trouble ELSE trouble \cup {p}

\* upgradePack: pull. It fails before HEAD has moved, or after, or not at all.
Pull ==
    /\ shell.pc = "pull"
    /\ \/ Finish /\ UNCHANGED <<disk, trouble>>
       \/ /\ disk' = [disk EXCEPT ![shell.pack] = remote[shell.pack]]
          /\ (Do("master", shell.pack) /\ UNCHANGED trouble) \/ LeftBehind(shell.pack)
    /\ UNCHANGED <<table, disabled_packs, remote, told, refreshes, main>>

\* upgradePack: checkout_branch puts HEAD on the branch master, at the commit that
\* was fetched. It fails for a repository without such a branch.
CheckoutMaster ==
    /\ shell.pc = "master"
    /\ (Do("hash", shell.pack) /\ UNCHANGED trouble) \/ LeftBehind(shell.pack)
    /\ UNCHANGED <<table, disk, disabled_packs, remote, told, refreshes, main>>

\* An upgrade that leaves the row as it is.
UpdateHashNot ==
    /\ shell.pc = "hash"
    /\ Finish
    /\ UNCHANGED <<table, disk, disabled_packs, remote, told, refreshes, main, trouble>>

\* upgradePack: UPDATE packages SET hash, if there is such a row.
UpdateHash ==
    /\ shell.pc = "hash"
    /\ LET p == shell.pack IN
       hash' = IF hash[p] = NoRow THEN hash ELSE [hash EXCEPT ![p] = HeadOf(disk, p)]
    /\ Finish
    /\ UNCHANGED <<enabled, disk, disabled_packs, remote, told, refreshes, main, trouble>>

\* enablePack: the row.
EnableRow(p) ==
    /\ shell = Prompt
    /\ enabled' = IF hash[p] = NoRow THEN enabled ELSE enabled \cup {p}
    /\ Do("enable", p)
    /\ UNCHANGED <<hash, disk, disabled_packs, remote, told, refreshes, main, trouble>>

\* enablePack: the list in memory.
EnableMemory ==
    /\ shell.pc = "enable"
    /\ disabled_packs' = disabled_packs \ {shell.pack}
    /\ Finish
    /\ UNCHANGED <<table, disk, remote, told, refreshes, main, trouble>>

\* A disablePack that makes no exception.
DisableRowOfAny(p) ==
    /\ shell = Prompt
    /\ enabled' = enabled \ {p}
    /\ Do("disable", p)
    /\ UNCHANGED <<hash, disk, disabled_packs, remote, told, refreshes, main, trouble>>

\* disablePack: the row. The core cannot be disabled; a name without a row can,
\* and counts as disabled when it is installed later.
DisableRow(p) ==
    /\ shell = Prompt
    /\ IF p = Core
       THEN Finish /\ UNCHANGED <<enabled, trouble>>
       ELSE /\ enabled' = enabled \ {p}
            /\ trouble' = IF hash[p] = NoRow THEN trouble \cup {p} ELSE trouble
            /\ Do("disable", p)
    /\ UNCHANGED <<hash, disk, disabled_packs, remote, told, refreshes, main>>

\* disablePack: the list in memory.
DisableMemory ==
    /\ shell.pc = "disable"
    /\ disabled_packs' = disabled_packs \cup {shell.pack}
    /\ Finish
    /\ UNCHANGED <<table, disk, remote, told, refreshes, main, trouble>>

\* A package whose row, directory and place in the list of memory agree.
Sound(p, rows, on, off) ==
    /\ rows[p] \in {NoRow, disk[p]}
    /\ rows[p] = NoRow => disk[p] = 0
    /\ p \in off <=> (rows[p] # NoRow /\ p \notin on)

\* A syncpkgs that does not ask for a refresh.
SyncQuietly ==
    /\ shell = Prompt
    /\ hash' = [p \in Packs |-> IF hash[p] = NoRow THEN NoRow ELSE HeadOf(disk, p)]
    /\ UNCHANGED <<enabled, disk, disabled_packs, remote, told, refreshes, main, shell, trouble>>

\* syncCommitHashToDatabase: every row gets its directory's HEAD. That ends the
\* trouble of a package of which only the hash was stale.
Sync ==
    /\ shell = Prompt
    /\ hash' = [p \in Packs |-> IF hash[p] = NoRow THEN NoRow ELSE HeadOf(disk, p)]
    /\ trouble' = {p \in trouble : disk[p] = 0 \/ ~Sound(p, hash', enabled, disabled_packs)}
    /\ Finish
    /\ UNCHANGED <<enabled, disk, disabled_packs, remote, told, refreshes, main>>

\* Server::refreshMd5, on the shell's thread: the refresh is left to the main loop.
RefreshMd5 ==
    /\ shell.pc = "refresh" /\ refreshes < MaxRefresh
    /\ refreshes' = refreshes + 1
    /\ shell' = Prompt
    /\ UNCHANGED <<table, disk, disabled_packs, remote, told, main, trouble>>

-----------------------------------------------------------------------------
(* The main thread, the repositories, and a new start *)

\* Server::_refreshMd5: calcFileMD5 ...
CalcFileMD5 ==
    /\ main = "idle" /\ refreshes > 0
    /\ md5' = Files(disk, disabled_packs)
    /\ refreshes' = refreshes - 1
    /\ main' = "summary"
    /\ UNCHANGED <<table, disk, disabled_packs, remote, summary, shell, trouble>>

\* ... and then refreshSummary, which may see a later state.
RefreshSummary ==
    /\ main = "summary"
    /\ summary' = Listed(hash, enabled)
    /\ main' = "idle"
    /\ UNCHANGED <<table, disk, disabled_packs, remote, md5, refreshes, shell, trouble>>

\* Somebody pushes a commit.
Publish(p) ==
    /\ remote[p] < MaxCommit
    /\ remote' = [remote EXCEPT ![p] = @ + 1]
    /\ UNCHANGED <<table, disk, disabled_packs, told, refreshes, main, shell, trouble>>

\* The server dies, perhaps inside a command, and starts again.
Restart ==
    /\ disabled_packs' = Loaded(hash, enabled)
    /\ md5' = Files(disk, disabled_packs') /\ summary' = Listed(hash, enabled)
    /\ refreshes' = 0 /\ main' = "idle" /\ shell' = Prompt
    /\ trouble' = trouble \cup {p \in Packs : ~Sound(p, hash, enabled, disabled_packs')}
    /\ UNCHANGED <<table, disk, remote>>

Next ==
    \/ \E p \in Packs : Clone(p) \/ DeleteRow(p) \/ EnableRow(p) \/ DisableRow(p) \/ Publish(p)
    \/ InsertRow \/ RemoveDir \/ Upgrade \/ Status \/ Pull \/ CheckoutMaster \/ UpdateHash \/ EnableMemory
    \/ DisableMemory \/ Sync \/ RefreshMd5 \/ CalcFileMD5 \/ RefreshSummary \/ Restart

Spec == Init /\ [][Next]_vars

-----------------------------------------------------------------------------
(* Properties *)

TypeOK ==
    /\ hash \in [Packs -> Commits \cup {NoRow, Unreadable}]
    /\ enabled \subseteq {p \in Packs : hash[p] # NoRow}
    /\ disk \in [Packs -> Commits \cup {0}] /\ remote \in [Packs -> Commits]
    /\ disabled_packs \subseteq Packs \ {Core} /\ trouble \subseteq Packs
    /\ md5 \in [Packs -> Commits \cup {0}]
    /\ summary \in [Packs -> Commits \cup {NoRow, Unreadable}]
    /\ refreshes \in 0..MaxRefresh /\ main \in {"idle", "summary"}
    /\ shell \in [pc : {"idle", "insert", "rmdir", "upgrade", "pull", "master", "hash",
                        "enable", "disable", "refresh"},
                  pack : Packs \cup {NoPack}, todo : SUBSET Packs]

\* Nothing of the packages is under way.
Quiet == shell = Prompt /\ refreshes = 0 /\ main = "idle"

\* When no command and no refresh is under way, the md5 and the summary are those
\* of the packages as they are now, however the refreshes of several commands and
\* the steps of the next one were interleaved (refreshMd5, _refreshMd5).
Fresh ==
    Quiet => md5 = Files(disk, disabled_packs) /\ summary = Listed(hash, enabled)

\* A client that installs what the summary says gets past the md5 check: for every
\* package the two agree, but for those that a failed or interrupted step has met,
\* or that were removed or first named while disabled (checkMd5).
Followable ==
    Quiet => \A p \in Packs \ trouble :
                md5[p] = IF summary[p] = NoRow THEN 0 ELSE summary[p]

\* A package whose row says disabled is in the list by which new Lua processes
\* leave it out, also after a restart at any point (disablePack, PackMan::PackMan).
DisabledStay ==
    \A p \in Packs : (hash[p] # NoRow /\ p \notin enabled) =>
        p \in disabled_packs \/ (shell.pc = "disable" /\ shell.pack = p)

=============================================================================
