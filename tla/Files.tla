------------------------------- MODULE Files -------------------------------
(***************************************************************************)
(* One folder of files and those who change it: uploads to a shared folder  *)
(* (routers/files.py), from a share sheet (share_target.py) and to a user's *)
(* own storage on the relay (user_storage.py), all through upload_file;     *)
(* clients that delete, rename and make folders; and, in the drop box, the  *)
(* sweep and the boot-time cleanup that remove files whose TTL has passed.  *)
(* Handlers interleave at every await, worker threads at every system call. *)
(* A file is the sequence of chunks in it, each named after the upload that *)
(* wrote it; names are links to files, as in the file system, so that a     *)
(* writer keeps its file when the name moves.                               *)
(***************************************************************************)
EXTENDS Naturals, Sequences, FiniteSetsExt

CONSTANTS
    Requests,     \* upload requests
    Names,        \* names in the folder
    BadNames,     \* names and paths that validation refuses
    Tmp,          \* the name an overwrite of each name is written to first
    Alt,          \* the names tried in turn when an upload is renamed
    Size,         \* chunks in a file of each request
    MaxFiles,     \* most files in a request
    Quota,        \* bytes a user may store, in chunks
    MaxCrashes,   \* bound on crashes of the relay
    Starts        \* requests, old files and clients at the start

ASSUME FilesAssumption ==
    /\ Size \in [Requests -> Nat \ {0}] /\ MaxFiles \in Nat \ {0}
    /\ Quota \in Nat /\ MaxCrashes \in Nat
    /\ BadNames \cap Names = {}
    \* The markers used below are no names.
    /\ {"", "none", "folder", "sleep", "next"} \cap Names = {}
    /\ Tmp \in [Names -> Names] /\ Alt \in [Names -> Seq(Names)]
    /\ \A s \in Starts : \A u \in Requests :
          /\ s.req[u].kind \in {"api", "share", "mine", "none"}
          /\ s.req[u].mode \in {"none", "skip", "rename", "overwrite"}
          /\ s.req[u].files \in Seq(Names \cup BadNames)
          /\ Len(s.req[u].files) \in 1..MaxFiles
    /\ \A s \in Starts :
          /\ s.old \subseteq Names /\ s.rows \subseteq Names
          /\ s.deletes \subseteq Names \cup BadNames /\ s.folders \subseteq Names \cup BadNames
          /\ s.renames \subseteq (Names \cup BadNames) \X (Names \cup BadNames)

VARIABLES
    start,
    link,        \* name -> file, Folder or None
    data,        \* file -> its chunks
    pc, idx,     \* uploads: place, number of the file being uploaded
    dest, fd, pos,   \* destination name, file open and position in it
    results,     \* what upload_file returned: name, file, skipped
    walk, sum,   \* usage_bytes: names still to visit, bytes so far
    rename,      \* a rename between its check and its effect
    owner,       \* upload_owners
    ttl,         \* file_ttl
    sweep, listed,   \* the sweep's place; rows it or the cleanup has to do
    relay,       \* the relay: "up", or a step of its start
    crashes,
    mixed,       \* files that two uploads wrote at once, or each as a new one
    cut,         \* files that were being written when the relay crashed
    fresh,       \* files put under a name that was not in use
    stranded,    \* names whose clean-up was cut short
    failed       \* uploads that ended with an error

None == <<"none", 0>>
Folder == <<"folder", 0>>
NoName == ""
NoTtl == [by |-> None, due |-> FALSE]
OldFiles == Names \X {0}
Writes == Requests \X (1..MaxFiles)
Inodes == OldFiles \cup Writes
Tmps == {Tmp[n] : n \in Names}
Rows == [by : Inodes \cup {Folder}, due : BOOLEAN]

uploads == <<pc, idx, dest, fd, pos, results, walk, sum, failed>>
disk == <<link, data, mixed, cut, fresh>>
sweeper == <<sweep, listed, relay, crashes, stranded>>
vars == <<start, disk, uploads, rename, owner, ttl, sweeper>>

Req(u) == start.req[u]
Me(u) == <<u, idx[u]>>   \* the file being uploaded
Wanted(u) == Req(u).files[idx[u]]
IsFile(n) == link[n] \notin {None, Folder}
Exists(n) == link[n] # None
Up == relay = "up"
Running(u) == pc[u] \notin {"idle", "end"}
\* Uploads that have file i in hand: open, or closed and not yet in place.
InHand(i) == {u \in Requests : pc[u] \in {"write", "place"} /\ fd[u] = i}
\* Name n is spoken for, other than by upload u: it has a row, listed or not,
\* or an upload of it is under way.
InUse(u, n) ==
    \/ Exists(n) \/ ttl[n] # NoTtl \/ \E r \in listed : r.name = n
    \/ \E v \in Requests : Running(v) /\ \/ v # u /\ dest[v] = n
                                         \/ \E k \in DOMAIN results[v] : results[v][k].name = n
-----------------------------------------------------------------------------
(***************************************************************************)
(* upload_file.                                                             *)
(***************************************************************************)
UploadStep == Up /\ UNCHANGED <<start, rename, owner, ttl, sweeper>>
NoWalk == UNCHANGED <<walk, sum>>

\* validate_upload_filename refuses before anything of the file is written.
ValidName(n) == n \notin BadNames

Fail(u) ==   \* an exception leaves the handler; what was written stays
    /\ pc' = [pc EXCEPT ![u] = "end"] /\ failed' = failed \cup {u}
\* The handler goes on with the next file, or with what follows the loop.
AfterFile(u) ==
    IF idx[u] < Len(Req(u).files)
    THEN idx' = [idx EXCEPT ![u] = @ + 1] /\ pc' = [pc EXCEPT ![u] = "pick"]
    ELSE /\ idx' = [idx EXCEPT ![u] = 1]
         /\ pc' = [pc EXCEPT ![u] =
                CASE Req(u).kind = "api"   -> "owner"
                  [] Req(u).kind = "share" -> "end"
                  [] Req(u).kind = "mine"  -> "after"]
Returned(u, n, i) == results' = [results EXCEPT ![u] = Append(@, [name |-> n, file |-> i])]

\* The first free name of "stem_1", "stem_2", ...; Alt bounds how many are tried.
HasFree(n) == \E k \in DOMAIN Alt[n] : ~Exists(Alt[n][k])
FirstFree(n) == Alt[n][Min({k \in DOMAIN Alt[n] : ~Exists(Alt[n][k])})]

\* The existence checks and the choice of the destination: no await.
Conflict(u) == Exists(Wanted(u)) /\ Req(u).mode = "none"
Skipped(u) ==
    /\ Exists(Wanted(u)) /\ Req(u).mode = "skip"
    /\ Returned(u, Wanted(u), link[Wanted(u)]) /\ AfterFile(u)
    /\ UNCHANGED <<dest, failed>>
\* Mutant: an overwrite goes straight to the file.
InPlace(u) ==
    LET n == Wanted(u) IN
    CASE ~Exists(n) -> n
      [] Exists(n) /\ Req(u).mode = "rename" /\ HasFree(n) -> FirstFree(n)
      [] Exists(n) /\ Req(u).mode = "overwrite" -> n
      [] OTHER -> NoName
Destination(u) ==
    LET n == Wanted(u) IN
    CASE ~Exists(n) -> n
      [] Exists(n) /\ Req(u).mode = "rename" /\ HasFree(n) -> FirstFree(n)
      [] Exists(n) /\ Req(u).mode = "overwrite" -> Tmp[n]
      [] OTHER -> NoName
Pick(u) ==
    /\ pc[u] = "pick" /\ NoWalk
    /\ \/ /\ ValidName(Wanted(u)) => Conflict(u)
          /\ Fail(u) /\ UNCHANGED <<idx, dest, results>>
       \/ ValidName(Wanted(u)) /\ Skipped(u)
       \/ /\ ValidName(Wanted(u)) /\ Destination(u) # NoName
          /\ dest' = [dest EXCEPT ![u] = Destination(u)]
          /\ pc' = [pc EXCEPT ![u] = "open"]
          /\ UNCHANGED <<idx, results, failed>>
    /\ UNCHANGED <<disk, fd, pos>> /\ UploadStep

\* aiofiles.open(.., "wb") in a worker thread: creates the file or empties it.
Open(u) ==
    LET n == dest[u]
        i == IF IsFile(n) THEN link[n] ELSE Me(u) IN
    /\ pc[u] = "open" /\ NoWalk
    /\ IF link[n] = Folder THEN Fail(u) /\ UNCHANGED <<disk, fd, pos>>
       ELSE /\ link' = [link EXCEPT ![n] = i] /\ data' = [data EXCEPT ![i] = <<>>]
            /\ fd' = [fd EXCEPT ![u] = i] /\ pos' = [pos EXCEPT ![u] = 0]
            /\ pc' = [pc EXCEPT ![u] = "write"]
            /\ mixed' = IF InHand(i) # {} \/ (n \notin Tmps /\ i[1] \in Requests \ {u})
                        THEN mixed \cup {i} ELSE mixed
            /\ fresh' = IF InUse(u, n) THEN fresh \ {i} ELSE fresh \cup {i}
            /\ UNCHANGED <<cut, failed>>
    /\ UNCHANGED <<idx, dest, results>> /\ UploadStep

\* One chunk of _write_upload_chunks, at this writer's own position.
Chunk(u, d) ==
    [k \in 1..Max({Len(d), pos[u] + 1}) |->
        IF k = pos[u] + 1 THEN Me(u) ELSE IF k <= Len(d) THEN d[k] ELSE None]
Write(u) ==
    /\ pc[u] = "write" /\ pos[u] < Size[u] /\ NoWalk
    /\ data' = [data EXCEPT ![fd[u]] = Chunk(u, @)]
    /\ pos' = [pos EXCEPT ![u] = @ + 1]
    /\ UNCHANGED <<link, mixed, cut, fresh, pc, idx, dest, fd, results, failed>> /\ UploadStep
\* The file is closed; the handler has not resumed.
Close(u) ==
    /\ pc[u] = "write" /\ pos[u] = Size[u] /\ NoWalk
    /\ pc' = [pc EXCEPT ![u] = "place"]
    /\ UNCHANGED <<disk, idx, dest, fd, pos, results, failed>> /\ UploadStep
\* os.replace and Path.rename raise when the source is gone, or when a file
\* would take a folder's name or a folder a file's.
Moves(n, m) == Exists(n) /\ (Exists(m) => (link[n] = Folder) = (link[m] = Folder))
\* os.replace, for an overwrite, and the result.
Place(u) ==
    LET n == Wanted(u) IN
    /\ pc[u] = "place" /\ NoWalk
    /\ IF dest[u] # Tmp[n]
       THEN Returned(u, dest[u], fd[u]) /\ AfterFile(u) /\ UNCHANGED <<disk, failed>>
       ELSE IF ~Moves(Tmp[n], n)
       THEN Fail(u) /\ UNCHANGED <<disk, idx, results>>
       ELSE /\ link' = [link EXCEPT ![n] = link[Tmp[n]], ![Tmp[n]] = None]
            /\ fresh' = fresh \ {link[Tmp[n]]}
            /\ Returned(u, n, fd[u]) /\ AfterFile(u)
            /\ UNCHANGED <<data, mixed, cut, failed>>
    /\ dest' = [dest EXCEPT ![u] = NoName]
    /\ UNCHANGED <<fd, pos>> /\ UploadStep
-----------------------------------------------------------------------------
(***************************************************************************)
(* What the routers do around it.                                           *)
(***************************************************************************)
Submit(u) ==
    /\ pc[u] = "idle" /\ Req(u).kind # "none"
    /\ pc' = [pc EXCEPT ![u] = IF Req(u).kind = "mine" THEN "before" ELSE "pick"]
    /\ UNCHANGED <<disk, idx, dest, fd, pos, results, failed>> /\ NoWalk /\ UploadStep

\* The next result of a loop over them, or the next part of the handler.
NextResult(u, part) ==
    IF idx[u] < Len(results[u])
    THEN idx' = [idx EXCEPT ![u] = @ + 1] /\ UNCHANGED pc
    ELSE idx' = [idx EXCEPT ![u] = 1] /\ pc' = [pc EXCEPT ![u] = part]
Result(u) == results[u][idx[u]]
RouterStep == Up /\ NoWalk /\ UNCHANGED <<start, disk, dest, fd, pos, results, failed, rename, sweeper>>
RecordOwner(u) ==   \* record_upload, for an upload with a trusted identity
    /\ pc[u] = "owner"
    /\ IF Req(u).user = NoName
       THEN pc' = [pc EXCEPT ![u] = "ttl"] /\ UNCHANGED <<idx, owner>>
       ELSE NextResult(u, "ttl") /\ owner' = [owner EXCEPT ![Result(u).name] = Req(u).user]
    /\ UNCHANGED ttl /\ RouterStep
\* record_file_ttl replaces the row of the name.  The toast ends the handler.
RecordTtl(u) ==
    /\ pc[u] = "ttl"
    /\ IF ~Req(u).ttl
       THEN pc' = [pc EXCEPT ![u] = "end"] /\ UNCHANGED <<idx, ttl>>
       ELSE NextResult(u, "end") /\ ttl' = [ttl EXCEPT ![Result(u).name] = [by |-> Result(u).file, due |-> FALSE]]
    /\ UNCHANGED owner /\ RouterStep

\* usage_bytes, before the upload and after it: a walk in a worker thread.
WalkStep == Up /\ UNCHANGED <<start, dest, fd, pos, results, rename, owner, ttl, sweeper>>
StartWalk(u) ==
    /\ pc[u] \in {"before", "after"}
    /\ walk' = [walk EXCEPT ![u] = {n \in Names : IsFile(n)}] /\ sum' = [sum EXCEPT ![u] = 0]
    /\ pc' = [pc EXCEPT ![u] = IF @ = "before" THEN "first" ELSE "last"]
    /\ UNCHANGED <<disk, idx, failed>> /\ WalkStep
Stat(u) ==
    /\ pc[u] \in {"first", "last"}
    /\ \E n \in walk[u] :
          /\ walk' = [walk EXCEPT ![u] = @ \ {n}]
          /\ sum' = [sum EXCEPT ![u] = @ + IF IsFile(n) THEN Len(data[link[n]]) ELSE 0]
    /\ UNCHANGED <<disk, idx, pc, failed>> /\ WalkStep
Declared(u) == IF Req(u).declared THEN Size[u] * Len(Req(u).files) ELSE 0
\* Mutant: the check after the write is left out.
CheckFirstOnly(u) ==
    /\ pc[u] \in {"first", "last"} /\ walk[u] = {}
    /\ pc' = [pc EXCEPT ![u] =
          CASE @ = "first" /\ (Declared(u) = 0 \/ sum[u] + Declared(u) <= Quota) -> "pick"
            [] OTHER -> "end"]
    /\ UNCHANGED <<disk, idx, failed>> /\ NoWalk /\ WalkStep
CheckQuota(u) ==
    /\ pc[u] \in {"first", "last"} /\ walk[u] = {}
    /\ pc' = [pc EXCEPT ![u] =
          CASE @ = "first" /\ (Declared(u) = 0 \/ sum[u] + Declared(u) <= Quota) -> "pick"
            [] @ = "last" /\ sum[u] > Quota -> "rollback"
            [] OTHER -> "end"]
    /\ UNCHANGED <<disk, idx, failed>> /\ NoWalk /\ WalkStep
\* One path of the rollback's delete_paths, which raises when it is gone.
Rollback(u) ==
    /\ pc[u] = "rollback" /\ NoWalk
    /\ IF Exists(Result(u).name)
       THEN link' = [link EXCEPT ![Result(u).name] = None] /\ NextResult(u, "end") /\ UNCHANGED failed
       ELSE Fail(u) /\ UNCHANGED <<link, idx>>
    /\ UNCHANGED <<data, mixed, cut, fresh>> /\ WalkStep
-----------------------------------------------------------------------------
(***************************************************************************)
(* Clients that delete, rename and make folders.  Rows of the two tables    *)
(* stay as they are.  rename_path checks and renames in a worker thread.    *)
(***************************************************************************)
\* resolve_safe_path: inside the folder, and there.
Resolves(n) == n \notin BadNames /\ Exists(n)
\* _validate_name and the check for a conflict.
FreeName(n) == n \notin BadNames /\ ~Exists(n)
ClientStep == Up /\ UNCHANGED <<start, data, mixed, cut, uploads, owner, ttl, sweeper>>
DeletePath(n) ==
    /\ Resolves(n) /\ link' = [link EXCEPT ![n] = None]
    /\ UNCHANGED <<rename, fresh>> /\ ClientStep
CreateFolder(n) ==
    /\ FreeName(n) /\ link' = [link EXCEPT ![n] = Folder]
    /\ UNCHANGED <<rename, fresh>> /\ ClientStep
CheckRename(n, m) ==
    /\ rename = <<>> /\ Resolves(n) /\ FreeName(m)
    /\ rename' = <<n, m>> /\ UNCHANGED <<link, fresh>> /\ ClientStep
Rename ==
    /\ rename # <<>> /\ rename' = <<>>
    /\ LET n == rename[1]   m == rename[2] IN
       IF Moves(n, m)
       THEN /\ link' = [link EXCEPT ![n] = None, ![m] = link[n]]
            /\ fresh' = fresh \ {link[n]}
       ELSE UNCHANGED <<link, fresh>>
    /\ ClientStep
-----------------------------------------------------------------------------
(***************************************************************************)
(* The sweep of expired files and the clean-up when the relay starts.       *)
(***************************************************************************)
Expire(n) ==   \* time passes
    /\ ttl[n] # NoTtl /\ ~ttl[n].due
    /\ ttl' = [ttl EXCEPT ![n].due = TRUE]
    /\ UNCHANGED <<start, disk, uploads, rename, owner, sweeper>>

\* Mutant: the query does not look at expires_at.
AllRows == {[name |-> n, by |-> ttl[n].by, due |-> ttl[n].due] : n \in {m \in Names : ttl[m] # NoTtl}}
Expired == {[name |-> n, by |-> ttl[n].by, due |-> ttl[n].due] : n \in {m \in Names : ttl[m].due}}
SweepStep == Up /\ UNCHANGED <<start, data, mixed, cut, fresh, uploads, rename, owner, relay, crashes, stranded>>
SweepList ==   \* get_expired
    /\ sweep = "sleep" /\ Expired # {}
    /\ listed' = Expired /\ sweep' = "next" /\ UNCHANGED <<link, ttl>> /\ SweepStep
\* Mutant: the sweep looks for the file elsewhere and finds none.
SweepMisses(r) ==
    /\ sweep = "next" /\ r \in listed
    /\ sweep' = r.name /\ UNCHANGED <<link, ttl, listed>> /\ SweepStep
SweepFile(r) ==   \* the file is removed; a folder is left
    /\ sweep = "next" /\ r \in listed
    /\ link' = [link EXCEPT ![r.name] = IF IsFile(r.name) THEN None ELSE @]
    /\ sweep' = r.name /\ UNCHANGED <<ttl, listed>> /\ SweepStep
SweepForget ==   \* delete_record; toasts follow when no row is left
    /\ sweep \in Names
    /\ ttl' = [ttl EXCEPT ![sweep] = NoTtl]
    /\ listed' = {r \in listed : r.name # sweep}
    /\ sweep' = IF listed' = {} THEN "sleep" ELSE "next"
    /\ UNCHANGED link /\ SweepStep
SweepNext == SweepList \/ (\E r \in listed : SweepFile(r)) \/ SweepForget

BootStep == UNCHANGED <<start, data, mixed, cut, fresh, uploads, rename, owner, sweep, crashes>>
BootList ==
    /\ relay = "boot" /\ listed' = Expired
    /\ relay' = IF Expired = {} THEN "up" ELSE "purge"
    /\ UNCHANGED <<link, ttl, stranded>> /\ BootStep
BootPurge ==   \* delete_expired_for_mount has committed
    /\ relay = "purge" /\ relay' = "remove"
    /\ ttl' = [n \in Names |-> IF \E r \in listed : r.name = n THEN NoTtl ELSE ttl[n]]
    /\ UNCHANGED <<link, listed, stranded>> /\ BootStep
\* Files left when the removal of the listed ones stops.
Left == {n \in Names : IsFile(n) /\ \E r \in listed : r.name = n}
BootRemove(r) ==   \* os.remove of a folder raises, and the start fails
    /\ relay = "remove" /\ r \in listed
    /\ IF link[r.name] = Folder
       THEN relay' = "boot" /\ listed' = {} /\ stranded' = stranded \cup Left /\ UNCHANGED link
       ELSE /\ link' = [link EXCEPT ![r.name] = None] /\ listed' = listed \ {r}
            /\ relay' = IF listed' = {} THEN "up" ELSE "remove"
            /\ UNCHANGED stranded
    /\ UNCHANGED ttl /\ BootStep
BootNext == BootList \/ BootPurge \/ (\E r \in listed : BootRemove(r))

Crash ==
    /\ crashes < MaxCrashes /\ start.crash /\ crashes' = crashes + 1
    /\ relay' = "boot" /\ sweep' = "sleep" /\ listed' = {} /\ rename' = <<>>
    /\ stranded' = IF relay = "remove" THEN stranded \cup Left ELSE stranded
    /\ failed' = failed \cup {u \in Requests : Running(u)}
    /\ cut' = cut \cup {fd[u] : u \in {v \in Requests : pc[v] = "write"}}
    /\ pc' = [u \in Requests |-> IF Running(u) THEN "end" ELSE pc[u]]
    /\ UNCHANGED <<start, link, data, mixed, fresh, idx, dest, fd, pos, results, walk, sum, owner, ttl>>
-----------------------------------------------------------------------------
OldFile(n) == <<n, 0>>
Init ==
    /\ start \in Starts
    /\ link = [n \in Names |-> IF n \in start.old THEN OldFile(n) ELSE None]
    /\ data = [i \in Inodes |-> IF i \in OldFiles THEN <<i>> ELSE <<>>]
    /\ pc = [u \in Requests |-> "idle"] /\ idx = [u \in Requests |-> 1]
    /\ dest = [u \in Requests |-> NoName] /\ fd = [u \in Requests |-> None]
    /\ pos = [u \in Requests |-> 0] /\ results = [u \in Requests |-> <<>>]
    /\ walk = [u \in Requests |-> {}] /\ sum = [u \in Requests |-> 0]
    /\ rename = <<>> /\ owner = [n \in Names |-> NoName]
    /\ ttl = [n \in Names |-> IF n \in start.rows THEN [by |-> OldFile(n), due |-> FALSE] ELSE NoTtl]
    /\ sweep = "sleep" /\ listed = {} /\ relay = "up" /\ crashes = 0
    /\ mixed = {} /\ cut = {} /\ fresh = {OldFile(n) : n \in start.old} /\ stranded = {} /\ failed = {}

UploadNext(u) ==
    \/ Submit(u) \/ Pick(u) \/ Open(u) \/ Write(u) \/ Close(u) \/ Place(u)
    \/ RecordOwner(u) \/ RecordTtl(u)
    \/ StartWalk(u) \/ Stat(u) \/ CheckQuota(u) \/ Rollback(u)
ClientNext ==
    \/ \E n \in start.deletes : DeletePath(n)
    \/ \E n \in start.folders : CreateFolder(n)
    \/ \E p \in start.renames : CheckRename(p[1], p[2])
    \/ Rename
Next ==
    \/ \E u \in Requests : UploadNext(u)
    \/ ClientNext
    \/ \E n \in Names : Expire(n)
    \/ SweepNext \/ BootNext \/ Crash

\* The sweep's task runs, and so does the relay's start.
Spec == Init /\ [][Next]_vars /\ WF_vars(SweepNext) /\ WF_vars(BootNext)
-----------------------------------------------------------------------------
(***************************************************************************)
(* Properties.                                                              *)
(***************************************************************************)
WholeOf(w) == IF w \in OldFiles THEN <<w>> ELSE [k \in 1..Size[w[1]] |-> w]
Whole(i) == \E w \in Inodes : data[i] = WholeOf(w)
\* An overwrite is atomic (file_service.py:220 "Atomic overwrite: write to
\* temp, then replace"): whatever else happens, a crash included, a name
\* shows the whole of one upload, unless the upload that creates the file is
\* under way, or was when the relay crashed.  Files that two uploads wrote at
\* once, or each as a new file, are left out: they share the .tmp, or both saw
\* no file.
ShowsWholeFiles ==
    \A n \in Names \ Tmps :
        IsFile(n) /\ link[n] \notin mixed \cup cut =>
            Whole(link[n]) \/ \E u \in InHand(link[n]) : link[n][1] = u /\ dest[u] \notin Tmps
\* A file put under a name that nobody else used is removed for its age only
\* after its own TTL passed, by the sweep (file_ttl_sweep.py:23) as by the
\* clean-up at start, and until then keeps its row: so it is removed in time.
TtlHonoured ==
    [][\A n \in Names :
          /\ IsFile(n) /\ link[n] \in fresh /\ link'[n] = None
             /\ (relay = "remove" \/ (sweep' = n /\ sweep # n))
             => \E r \in listed : r.name = n /\ r.by = link[n] /\ r.due
          /\ IsFile(n) /\ link[n] \in fresh /\ link'[n] = link[n] /\ ttl[n].by = link[n]
             => ttl'[n] # NoTtl \/ relay = "purge"]_vars

\* Such a file goes away once its TTL has passed, or is given a new TTL,
\* through crashes and starts of the relay, unless its removal at a start was
\* cut short.
ExpiredFileGoes ==
    \A n \in Names :
        (IsFile(n) /\ link[n] \in fresh /\ ttl[n].by = link[n] /\ ttl[n].due)
            ~> \/ ~IsFile(n) \/ link[n] \notin fresh
               \/ ttl[n] # NoTtl /\ ~ttl[n].due
               \/ n \in stranded

Usage == MapThenSumSet(LAMBDA n : Len(data[link[n]]), {n \in Names : IsFile(n)})
\* When no upload is under way a user's files are within the quota, however
\* uploads interleaved and whatever length they declared, if none of them
\* ended with an error (user_storage.py:73).
QuotaAtRest ==
    (\A u \in Requests : Req(u).kind \in {"mine", "none"} /\ ~Running(u)) /\ failed = {}
        => Usage <= Quota
\* A rollback removes what its own upload wrote (user_storage.py:117 "roll
\* back what we just wrote").
RollbackIsOwn ==
    [][\A u \in Requests, n \in Names :
          pc[u] = "rollback" /\ <<pc, idx>>' # <<pc, idx>> /\ link'[n] # link[n] => link[n][1] = u]_vars
=============================================================================
