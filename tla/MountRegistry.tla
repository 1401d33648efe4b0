---------------------------- MODULE MountRegistry ----------------------------
(***************************************************************************)
(* The relay's mount registry: a SQLite table of mounts, the in-memory map  *)
(* from mount code to live tunnel, the handler of an agent's WebSocket,     *)
(* the TTL sweep, a visitor's lookup, and a relay crash followed by the     *)
(* start-up cleanup.                                                        *)
(*                                                                         *)
(* All coroutines share one aiosqlite connection: one worker thread takes   *)
(* statements from a FIFO queue, and the event loop resumes the coroutines  *)
(* in the order in which their results arrive.  `queue` is that FIFO.  One  *)
(* step takes the task at its head, executes the statement it waits for     *)
(* and runs the coroutine up to its next await; a further statement goes    *)
(* to the tail.  A SELECT is three trips through the queue (execute,        *)
(* fetch, close the cursor), any other statement and a commit are one.      *)
(***************************************************************************)
EXTENDS Integers, Sequences, FiniteSets

CONSTANTS
    Conns,        \* agent WebSockets; each is dialled at most once
    NoConn,       \* absence of a tunnel
    Codes,        \* mount codes
    NoCode,       \* the agent asked for no particular code
    Dropbox,      \* the reserved code of the relay's own drop box
    Ips,          \* source addresses
    LocalIp,      \* the address the drop box is registered with
    AgentIp,      \* the address each WebSocket comes from
    AgentOwner,   \* the account each WebSocket authenticates as
    NoOwner,      \* ... or this, when it presents no token
    Signing,      \* WebSockets whose agent sends an identity secret
    Ttls,         \* effective TTLs an agent may ask for
    Visited,      \* codes a visitor looks up
    MaxMounts,    \* per-address cap on active mounts
    WarnBefore,   \* length of the warning window before expiry
    Retention,    \* how long an EXPIRED row is kept
    MaxTime,      \* bound on the clock
    MaxCrashes,   \* bound on relay crashes
    Sweep,        \* the task that runs the TTL sweep
    Visitor,      \* the task that serves a visitor's request
    Faults        \* environment events allowed: "rival", "reply", "linger"

Tasks == Conns \cup {Sweep, Visitor}
Owners == {AgentOwner[k] : k \in Conns} \cup {NoOwner}

ASSUME ConstantsAssumption ==
    /\ NoConn \notin Conns
    /\ Dropbox \in Codes /\ NoCode \notin Codes
    /\ LocalIp \in Ips
    /\ AgentIp \in [Conns -> Ips]
    /\ Sweep \notin Conns /\ Visitor \notin Conns /\ Sweep # Visitor
    /\ Signing \subseteq Conns
    /\ Ttls \subseteq Nat
    /\ Visited \subseteq Codes \ {Dropbox}
    /\ WarnBefore \in Nat /\ Retention \in Nat
    /\ MaxTime \in Nat /\ MaxCrashes \in Nat /\ MaxMounts \in Nat

VARIABLES
    rows,         \* the mounts table as the shared connection sees it
    disk,         \* the mounts table as last committed
    connections,  \* _connections: code -> tunnel
    secrets,      \* _identity_secrets: code -> session that set it
    closed,       \* TunnelConnection._closed of each tunnel
    pc,           \* where each agent handler is
    want,         \* the code its agent asked for
    code,         \* the code it was assigned
    until,        \* the expires_at it is about to insert
    queue,        \* tasks waiting for the database worker
    hop,          \* trips a pending SELECT has made
    seen,         \* the table as a pending SELECT found it
    now,          \* the clock
    spc, sweepNow, todo, cur,   \* the sweep: place, clock, mounts left, mount in hand
    vpc, visit, answer,         \* the visitor: place, code, what the lookup said
    crashes

registry == <<rows, disk, connections, secrets>>
handler == <<closed, pc, want, code, until>>
worker == <<queue, hop, seen>>
sweep == <<spc, sweepNow, todo, cur>>
visitor == <<vpc, visit, answer>>
vars == <<registry, handler, worker, now, sweep, visitor, crashes>>

Never == -1
Status == {"absent", "online", "offline", "expired"}
Row == [status : Status, ip : Ips, expires : Int, warned : BOOLEAN,
        policy : Conns \cup {NoConn}]
NoRow == [status |-> "absent", ip |-> LocalIp, expires |-> Never,
          warned |-> FALSE, policy |-> NoConn]
DropboxRow == [NoRow EXCEPT !.status = "online"]
EmptyTable == [c \in Codes |-> NoRow]
FreshTable == [EmptyTable EXCEPT ![Dropbox] = DropboxRow]

Item == [code : Codes, act : {"expire", "warn"}, conn : Conns \cup {NoConn}]

ClaimSelects == {"owner", "ip", "has"}
\* Places of a handler that is on its way to a mount.
Claiming == {"count", "auth", "update", "reclaimed", "insert", "registered"} \cup ClaimSelects
\* Places of a handler that has put its tunnel into the map.
Attached == {"policy", "entries", "saved", "reply", "serving",
             "off_select", "off_update", "off_commit"}
HandlerPcs == {"idle", "gone", "failed"} \cup Claiming \cup Attached

SweepPcs == {"idle", "active", "next", "exp_select", "exp_update", "exp_commit",
             "warn_update", "warn_commit", "retain", "ret_commit"}
Answers == {"none", "routed", "not_found", "offline", "expired", "local"}

-----------------------------------------------------------------------------
(***************************************************************************)
(* The database worker.                                                     *)
(***************************************************************************)
AtHead(t) == queue # <<>> /\ Head(queue) = t
Enqueue(t) == queue' = Append(queue, t)
Requeue(t) == queue' = Append(Tail(queue), t)
Dequeue == queue' = Tail(queue)

Selecting(t) ==
    CASE t = Sweep   -> spc \in {"active", "exp_select"}
      [] t = Visitor -> vpc = "lookup"
      [] OTHER       -> pc[t] \in {"count", "off_select"} \cup ClaimSelects

\* The part of the table a pending SELECT is about.
Selected(t, c) ==
    CASE t = Sweep   -> spc = "active" \/ cur.code = c
      [] t = Visitor -> visit = c
      [] OTHER       -> \/ pc[t] = "count"
                        \/ pc[t] = "off_select" /\ code[t] = c
                        \/ pc[t] \in ClaimSelects /\ want[t] = c

\* The first two trips of a SELECT: the statement reads the table, then the
\* row is fetched; the cursor's close is the third trip (Fetched).
CursorHop(t) ==
    /\ AtHead(t) /\ Selecting(t) /\ hop[t] < 2
    /\ hop' = [hop EXCEPT ![t] = @ + 1]
    /\ seen' = IF hop[t] # 0 THEN seen
               ELSE [seen EXCEPT ![t] = [c \in Codes |-> IF Selected(t, c) THEN rows[c] ELSE NoRow]]
    /\ Requeue(t)
    /\ UNCHANGED <<registry, handler, now, sweep, visitor, crashes>>

\* The cursor is closed and the coroutine resumes with what it read.
Fetched(t) ==
    /\ AtHead(t) /\ hop[t] = 2
    /\ hop' = [hop EXCEPT ![t] = 0]
    /\ seen' = [seen EXCEPT ![t] = EmptyTable]

\* A statement that is one trip: an INSERT, UPDATE, DELETE or commit.
Executed(t) == AtHead(t) /\ UNCHANGED <<hop, seen>>

\* Mutant: a status that is not a MountStatus.
SetStatusUnknown(c, s) ==
    IF rows[c].status = "absent" THEN rows ELSE [rows EXCEPT ![c].status = "closed"]

\* UPDATE mounts SET status = s WHERE code = c: no row, no effect.
SetStatus(c, s) ==
    IF rows[c].status = "absent" THEN rows ELSE [rows EXCEPT ![c].status = s]

SetPolicy(c, k) == [rows EXCEPT ![c].policy = k]
SetWarned(c) == [rows EXCEPT ![c].warned = TRUE]

\* Mutant: NULL expiry is not treated as "never".
PastNever(row, t) == row.expires <= t

Past(row, t) == row.expires # Never /\ row.expires <= t

-----------------------------------------------------------------------------
(***************************************************************************)
(* An agent's WebSocket: dial, claim a code, register or reclaim.           *)
(***************************************************************************)
\* Rivals: two handlers claim one code at once.  One agent never does this
\* to itself: it waits at least half a second before it dials again.
NoRival(k, c) ==
    \/ "rival" \in Faults
    \/ \A j \in Conns \ {k} : c \in {want[j], code[j]} => pc[j] \notin Claiming

\* The reserved code and an exhausted registration rate are refused before
\* anything else; otherwise the per-address count is queried.
Dial(k, c) ==
    /\ pc[k] = "idle"
    /\ c = NoCode \/ NoRival(k, c)
    /\ \/ /\ c # Dropbox
          /\ want' = [want EXCEPT ![k] = c]
          /\ pc' = [pc EXCEPT ![k] = "count"]
          /\ Enqueue(k)
       \/ /\ pc' = [pc EXCEPT ![k] = "gone"]   \* reserved, or rate limited
          /\ UNCHANGED <<queue, want>>
    /\ UNCHANGED <<registry, closed, code, until, hop, seen, now, sweep, visitor, crashes>>

ActiveMounts(table, ip) ==
    {c \in Codes : table[c].status \in {"online", "offline"} /\ table[c].ip = ip}

\* The cap is tested on the count as it was when the SELECT ran.
CapCheck(k) ==
    /\ pc[k] = "count" /\ Fetched(k) /\ Dequeue
    /\ IF Cardinality(ActiveMounts(seen[k], AgentIp[k])) >= MaxMounts
         THEN /\ pc' = [pc EXCEPT ![k] = "gone"]
              /\ want' = [want EXCEPT ![k] = NoCode]
         ELSE pc' = [pc EXCEPT ![k] = "auth"] /\ UNCHANGED want
    /\ UNCHANGED <<registry, closed, code, until, now, sweep, visitor, crashes>>

\* A code secrets.token_urlsafe would hand out: 48 random bits, so one that
\* nobody uses or asks for.
Unused(c) ==
    /\ c # Dropbox /\ rows[c].status = "absent" /\ disk[c].status = "absent"
    /\ connections[c] = NoConn /\ secrets[c] = NoConn
    /\ \A j \in Conns : c \notin {code[j], want[j]}

\* The TTL is fixed, and the clock read, before register() is called.
PrepareRegister(k, c) ==
    /\ code' = [code EXCEPT ![k] = c]
    /\ \E ttl \in Ttls : until' = [until EXCEPT ![k] = now + ttl]
    /\ pc' = [pc EXCEPT ![k] = "insert"]

\* agent_auth arrived and is valid; with a preferred code the reclaim starts,
\* by owner first when there is one.
Authenticated(k) ==
    /\ pc[k] = "auth" /\ Enqueue(k)
    /\ \/ /\ want[k] # NoCode
          /\ pc' = [pc EXCEPT ![k] = IF AgentOwner[k] # NoOwner THEN "owner" ELSE "ip"]
          /\ UNCHANGED <<code, until>>
       \/ /\ want[k] = NoCode
          /\ \E c \in Codes : Unused(c) /\ PrepareRegister(k, c)
    /\ UNCHANGED <<registry, closed, want, hop, seen, now, sweep, visitor, crashes>>

\* No agent_auth, or one that is rejected: the socket is closed.
AuthRejected(k) ==
    /\ pc[k] = "auth"
    /\ pc' = [pc EXCEPT ![k] = "gone"]
    /\ want' = [want EXCEPT ![k] = NoCode]
    /\ UNCHANGED <<registry, closed, code, until, worker, now, sweep, visitor, crashes>>

OwnerOf(row) == IF row.policy = NoConn THEN NoOwner ELSE AgentOwner[row.policy]


Reclaimable(k, row) ==
    /\ row.status = "offline"
    /\ IF pc[k] = "owner"
         THEN OwnerOf(row) # NoOwner /\ OwnerOf(row) = AgentOwner[k]
         ELSE row.ip = AgentIp[k]
    /\ ~Past(row, now)

\* try_reclaim_as_owner falls through to try_reclaim, and that to has_mount.
TryReclaim(k) ==
    /\ pc[k] \in {"owner", "ip"} /\ Fetched(k) /\ Requeue(k)
    /\ IF Reclaimable(k, seen[k][want[k]])
         THEN /\ pc' = [pc EXCEPT ![k] = "update"]
              /\ code' = [code EXCEPT ![k] = want[k]]
         ELSE /\ pc' = [pc EXCEPT ![k] = IF pc[k] = "owner" THEN "ip" ELSE "has"]
              /\ UNCHANGED code
    /\ UNCHANGED <<registry, closed, want, until, now, sweep, visitor, crashes>>

ReclaimUpdate(k) ==
    /\ pc[k] = "update" /\ Executed(k) /\ Requeue(k)
    /\ rows' = SetStatus(code[k], "online")
    /\ pc' = [pc EXCEPT ![k] = "reclaimed"]
    /\ UNCHANGED <<disk, connections, secrets, closed, want, code, until, now, sweep, visitor, crashes>>

\* Mutant: an EXPIRED row counts as free.
HasMountExpiredFree(k) ==
    /\ pc[k] = "has" /\ Fetched(k) /\ Requeue(k)
    /\ IF seen[k][want[k]].status \in {"absent", "expired"}
         THEN PrepareRegister(k, want[k])
         ELSE \E c \in Codes : Unused(c) /\ PrepareRegister(k, c)
    /\ UNCHANGED <<registry, closed, want, now, sweep, visitor, crashes>>

HasMount(k) ==
    /\ pc[k] = "has" /\ Fetched(k) /\ Requeue(k)
    /\ IF seen[k][want[k]].status = "absent"
         THEN PrepareRegister(k, want[k])
         ELSE \E c \in Codes : Unused(c) /\ PrepareRegister(k, c)
    /\ UNCHANGED <<registry, closed, want, now, sweep, visitor, crashes>>

\* INSERT OR REPLACE: a whole new row, with the default policy.
RegisterInsert(k) ==
    /\ pc[k] = "insert" /\ Executed(k) /\ Requeue(k)
    /\ rows' = [rows EXCEPT ![code[k]] =
                  [status |-> "online", ip |-> AgentIp[k], expires |-> until[k],
                   warned |-> FALSE, policy |-> NoConn]]
    /\ pc' = [pc EXCEPT ![k] = "registered"]
    /\ UNCHANGED <<disk, connections, secrets, closed, want, code, until, now, sweep, visitor, crashes>>

\* The commit of register() or of a reclaim: then the tunnel enters the map
\* and set_owner_policy's first statement is queued.
Attach(k) ==
    /\ pc[k] \in {"registered", "reclaimed"} /\ Executed(k) /\ Requeue(k)
    /\ disk' = rows
    /\ connections' = [connections EXCEPT ![code[k]] = k]
    /\ pc' = [pc EXCEPT ![k] = "policy"]
    /\ UNCHANGED <<rows, secrets, closed, want, code, until, now, sweep, visitor, crashes>>

StoreSecret(k) ==
    secrets' = IF k \in Signing THEN [secrets EXCEPT ![code[k]] = k] ELSE secrets

\* set_owner_policy: UPDATE mounts; a missing row is logged and skipped.
PolicyUpdate(k) ==
    /\ pc[k] = "policy" /\ Executed(k)
    /\ IF rows[code[k]].status = "absent"
         THEN /\ StoreSecret(k) /\ Dequeue
              /\ pc' = [pc EXCEPT ![k] = "reply"]
              /\ UNCHANGED rows
         ELSE /\ rows' = SetPolicy(code[k], k)
              /\ pc' = [pc EXCEPT ![k] = "entries"] /\ Requeue(k)
              /\ UNCHANGED secrets
    /\ UNCHANGED <<disk, connections, closed, want, code, until, now, sweep, visitor, crashes>>

\* ... its entries in mount_policy are replaced,
PolicyEntries(k) ==
    /\ pc[k] = "entries" /\ Executed(k) /\ Requeue(k)
    /\ pc' = [pc EXCEPT ![k] = "saved"]
    /\ UNCHANGED <<registry, closed, want, code, until, now, sweep, visitor, crashes>>

\* Mutant: set_owner_policy forgets to commit.
PolicyNotCommitted(k) ==
    /\ pc[k] = "saved" /\ Executed(k) /\ Dequeue
    /\ StoreSecret(k)
    /\ pc' = [pc EXCEPT ![k] = "reply"]
    /\ UNCHANGED <<rows, disk, connections, closed, want, code, until, now, sweep, visitor, crashes>>

\* ... and committed; the session's identity secret is stored.
PolicyCommit(k) ==
    /\ pc[k] = "saved" /\ Executed(k) /\ Dequeue
    /\ disk' = rows
    /\ StoreSecret(k)
    /\ pc' = [pc EXCEPT ![k] = "reply"]
    /\ UNCHANGED <<rows, connections, closed, want, code, until, now, sweep, visitor, crashes>>

\* mount_registered is sent; heartbeat and receive loop start.
Reply(k) ==
    /\ pc[k] = "reply" /\ ~closed[k]
    /\ pc' = [pc EXCEPT ![k] = "serving"]
    /\ UNCHANGED <<registry, closed, want, code, until, worker, now, sweep, visitor, crashes>>

\* The send raises: the socket was closed by the sweep, or the agent went
\* away.  The try/finally that marks the mount offline is not entered yet.
ReplyFails(k) ==
    /\ pc[k] = "reply" /\ (closed[k] \/ "reply" \in Faults)
    /\ pc' = [pc EXCEPT ![k] = "failed"]
    /\ UNCHANGED <<registry, closed, want, code, until, worker, now, sweep, visitor, crashes>>

-----------------------------------------------------------------------------
(***************************************************************************)
(* A serving tunnel ends.                                                   *)
(***************************************************************************)
\* Three pongs missed: the tunnel is torn down, the receive loop goes on.
HeartbeatTimeout(k) ==
    /\ pc[k] = "serving" /\ ~closed[k]
    /\ closed' = [closed EXCEPT ![k] = TRUE]
    /\ UNCHANGED <<registry, pc, want, code, until, worker, now, sweep, visitor, crashes>>

\* The receive loop returns: close the tunnel, then mark_offline.
Disconnect(k) ==
    /\ pc[k] = "serving" /\ Enqueue(k)
    /\ closed' = [closed EXCEPT ![k] = TRUE]
    /\ pc' = [pc EXCEPT ![k] = "off_select"]
    /\ UNCHANGED <<registry, want, code, until, hop, seen, now, sweep, visitor, crashes>>

\* Mutant: close() waits for the heartbeat before it tears the tunnel down.
FailsBeforeTearDown(k) ==
    /\ pc[k] = "serving" /\ ~closed[k]
    /\ pc' = [pc EXCEPT ![k] = "failed"]
    /\ UNCHANGED <<registry, closed, want, code, until, worker, now, sweep, visitor, crashes>>

\* The same, but the heartbeat task had died on a send: close() tears the
\* tunnel down, then raises that task's exception, and mark_offline is never
\* called.  A close() after the heartbeat's own teardown returns at once.
DisconnectFails(k) ==
    /\ pc[k] = "serving" /\ ~closed[k]
    /\ closed' = [closed EXCEPT ![k] = TRUE]
    /\ pc' = [pc EXCEPT ![k] = "failed"]
    /\ UNCHANGED <<registry, want, code, until, worker, now, sweep, visitor, crashes>>

Leave(k) ==
    /\ pc' = [pc EXCEPT ![k] = "gone"]
    /\ want' = [want EXCEPT ![k] = NoCode]
    /\ code' = [code EXCEPT ![k] = NoCode]
    /\ until' = [until EXCEPT ![k] = 0]

\* mark_offline: a missing row raises before the secret is dropped; a row
\* that is not ONLINE only loses its secret.
OfflineSelected(k) ==
    /\ pc[k] = "off_select" /\ Fetched(k)
    /\ IF seen[k][code[k]].status = "online"
         THEN /\ pc' = [pc EXCEPT ![k] = "off_update"] /\ Requeue(k)
              /\ UNCHANGED <<secrets, want, code, until>>
         ELSE /\ secrets' = IF seen[k][code[k]].status = "absent" THEN secrets
                            ELSE [secrets EXCEPT ![code[k]] = NoConn]
              /\ Leave(k) /\ Dequeue
    /\ UNCHANGED <<rows, disk, connections, closed, now, sweep, visitor, crashes>>

OfflineUpdate(k) ==
    /\ pc[k] = "off_update" /\ Executed(k) /\ Requeue(k)
    /\ rows' = SetStatus(code[k], "offline")
    /\ pc' = [pc EXCEPT ![k] = "off_commit"]
    /\ UNCHANGED <<disk, connections, secrets, closed, want, code, until, now, sweep, visitor, crashes>>

\* Mutant: mark_offline leaves the secret behind.
OfflineKeepsSecret(k) ==
    /\ pc[k] = "off_commit" /\ Executed(k) /\ Dequeue
    /\ disk' = rows
    /\ connections' = [connections EXCEPT ![code[k]] = NoConn]
    /\ Leave(k)
    /\ UNCHANGED <<rows, secrets, closed, now, sweep, visitor, crashes>>

OfflineCommit(k) ==
    /\ pc[k] = "off_commit" /\ Executed(k) /\ Dequeue
    /\ disk' = rows
    /\ connections' = [connections EXCEPT ![code[k]] = NoConn]
    /\ secrets' = [secrets EXCEPT ![code[k]] = NoConn]
    /\ Leave(k)
    /\ UNCHANGED <<rows, closed, now, sweep, visitor, crashes>>

-----------------------------------------------------------------------------
(***************************************************************************)
(* The TTL sweep.                                                           *)
(***************************************************************************)
NoItem == [code |-> Dropbox, act |-> "warn", conn |-> NoConn]

SweepStart ==
    /\ spc = "idle" /\ Enqueue(Sweep)
    /\ spc' = "active" /\ sweepNow' = now
    /\ UNCHANGED <<registry, handler, hop, seen, now, todo, cur, visitor, crashes>>

\* Mutant: a mount that was warned is skipped.
ExpiresUnwarned(row) == row.status = "online" /\ ~row.warned /\ Past(row, sweepNow)

\* What the sweep will do with a row of its snapshot.
Expires(row) == row.status = "online" /\ Past(row, sweepNow)
Warns(row) ==
    /\ row.status = "online" /\ row.expires # Never /\ ~row.warned
    /\ sweepNow < row.expires /\ row.expires - sweepNow <= WarnBefore

\* active_mounts: status and expiry are as of the SELECT, the tunnel is
\* whatever the map holds when the coroutine resumes.
SweepSnapshot ==
    /\ spc = "active" /\ Fetched(Sweep) /\ Dequeue
    /\ spc' = "next"
    /\ todo' = {[code |-> c, act |-> "expire", conn |-> connections[c]] :
                    c \in {d \in Codes : Expires(seen[Sweep][d])}}
          \cup {[code |-> c, act |-> "warn", conn |-> connections[c]] :
                    c \in {d \in Codes : Warns(seen[Sweep][d])}}
    /\ UNCHANGED <<registry, handler, now, sweepNow, cur, visitor, crashes>>

\* The next mount: expire() it, or send the warning and persist the flag.  A
\* send that raises is logged and the mount skipped.
SweepNext ==
    /\ spc = "next"
    /\ \/ \E i \in todo :
            /\ todo' = todo \ {i}
            /\ \/ /\ i.act = "expire" /\ spc' = "exp_select"
                  /\ cur' = i /\ Enqueue(Sweep)
               \/ /\ i.act = "warn" /\ (i.conn # NoConn => ~closed[i.conn])
                  /\ spc' = "warn_update"
                  /\ cur' = i /\ Enqueue(Sweep)
               \/ /\ i.act = "warn" /\ i.conn # NoConn
                  /\ spc' = "next" /\ UNCHANGED <<cur, queue>>
       \/ /\ todo = {} /\ spc' = "retain" /\ Enqueue(Sweep)
          /\ UNCHANGED <<todo, cur>>
    /\ UNCHANGED <<registry, handler, hop, seen, now, sweepNow, visitor, crashes>>

SweepResume == spc' = "next" /\ cur' = NoItem /\ Dequeue

ExpireSelected ==
    /\ spc = "exp_select" /\ Fetched(Sweep)
    /\ IF seen[Sweep][cur.code].status = "absent"
         THEN SweepResume
         ELSE spc' = "exp_update" /\ Requeue(Sweep) /\ UNCHANGED cur
    /\ UNCHANGED <<registry, handler, now, sweepNow, todo, visitor, crashes>>

ExpireUpdate ==
    /\ spc = "exp_update" /\ Executed(Sweep) /\ Requeue(Sweep)
    /\ rows' = SetStatus(cur.code, "expired")
    /\ spc' = "exp_commit"
    /\ UNCHANGED <<disk, connections, secrets, handler, now, sweepNow, todo, cur, visitor, crashes>>

\* Mutant: expire() leaves the tunnel in the map.
ExpireKeepsTunnel ==
    /\ spc = "exp_commit" /\ Executed(Sweep) /\ SweepResume
    /\ disk' = rows
    /\ secrets' = [secrets EXCEPT ![cur.code] = NoConn]
    /\ closed' = IF cur.conn = NoConn THEN closed ELSE [closed EXCEPT ![cur.conn] = TRUE]
    /\ UNCHANGED <<rows, connections, pc, want, code, until, now, sweepNow, todo, visitor, crashes>>

\* The commit, then the map entries go and the snapshot's tunnel is closed.
ExpireCommit ==
    /\ spc = "exp_commit" /\ Executed(Sweep) /\ SweepResume
    /\ disk' = rows
    /\ connections' = [connections EXCEPT ![cur.code] = NoConn]
    /\ secrets' = [secrets EXCEPT ![cur.code] = NoConn]
    /\ closed' = IF cur.conn = NoConn THEN closed ELSE [closed EXCEPT ![cur.conn] = TRUE]
    /\ UNCHANGED <<rows, pc, want, code, until, now, sweepNow, todo, visitor, crashes>>

WarnUpdate ==
    /\ spc = "warn_update" /\ Executed(Sweep)
    /\ IF rows[cur.code].status = "absent"
         THEN SweepResume /\ UNCHANGED rows
         ELSE /\ rows' = SetWarned(cur.code)
              /\ spc' = "warn_commit" /\ Requeue(Sweep) /\ UNCHANGED cur
    /\ UNCHANGED <<disk, connections, secrets, handler, now, sweepNow, todo, visitor, crashes>>

WarnCommit ==
    /\ spc = "warn_commit" /\ Executed(Sweep) /\ SweepResume
    /\ disk' = rows
    /\ UNCHANGED <<rows, connections, secrets, handler, now, sweepNow, todo, visitor, crashes>>

DeleteExpired(table, cutoff) ==
    [c \in Codes |->
        IF table[c].status = "expired" /\ table[c].expires # Never /\ table[c].expires < cutoff
          THEN NoRow ELSE table[c]]

RetentionDelete ==
    /\ spc = "retain" /\ Executed(Sweep) /\ Requeue(Sweep)
    /\ rows' = DeleteExpired(rows, sweepNow - Retention)
    /\ spc' = "ret_commit"
    /\ UNCHANGED <<disk, connections, secrets, handler, now, sweepNow, todo, cur, visitor, crashes>>

RetentionCommit ==
    /\ spc = "ret_commit" /\ Executed(Sweep) /\ Dequeue
    /\ disk' = rows
    /\ spc' = "idle" /\ sweepNow' = 0
    /\ UNCHANGED <<rows, connections, secrets, handler, now, todo, cur, visitor, crashes>>

-----------------------------------------------------------------------------
(***************************************************************************)
(* A visitor, the clock, a crash.                                           *)
(***************************************************************************)
Lookup(c) ==
    /\ vpc = "idle" /\ Enqueue(Visitor)
    /\ vpc' = "lookup" /\ visit' = c
    /\ UNCHANGED <<registry, handler, hop, seen, now, sweep, answer, crashes>>

\* Mutant: the test of _closed is inverted.
LookupAnswerInverted(c, row) ==
    CASE row.status = "absent"      -> "not_found"
      [] row.status = "offline"     -> "offline"
      [] row.status = "expired"     -> "expired"
      [] connections[c] = NoConn    -> "local"
      [] ~closed[connections[c]]    -> "offline"
      [] OTHER                      -> "routed"

\* get_connection: the status is as of the SELECT, the map as of now.
LookupAnswer(c, row) ==
    CASE row.status = "absent"      -> "not_found"
      [] row.status = "offline"     -> "offline"
      [] row.status = "expired"     -> "expired"
      [] connections[c] = NoConn    -> "local"
      [] closed[connections[c]]     -> "offline"
      [] OTHER                      -> "routed"

LookupDone ==
    /\ vpc = "lookup" /\ Fetched(Visitor) /\ Dequeue
    /\ vpc' = "answered"
    /\ answer' = LookupAnswer(visit, seen[Visitor][visit])
    /\ UNCHANGED <<registry, handler, now, sweep, visit, crashes>>

VisitorLeaves ==
    /\ vpc = "answered"
    /\ vpc' = "idle" /\ visit' = Dropbox /\ answer' = "none"
    /\ UNCHANGED <<registry, handler, worker, now, sweep, crashes>>

\* TTLs and retention are hours: by the time a unit of the clock has passed
\* the sweep (every 45 s) has run and an INSERT, or the UPDATE of a reclaim,
\* that was pending has been executed.  A socket the sweep closed has ended
\* too, unless handlers linger: nothing ends the receive loop of a tunnel
\* that was torn down before, whose close() is a no-op.
Settled ==
    /\ \A c \in Codes : rows[c].status = "online" => ~Past(rows[c], now)
    /\ \A k \in Conns : pc[k] = "insert" => now < until[k]
    /\ \A k \in Conns : pc[k] = "update" => ~Past(rows[code[k]], now)
    /\ \/ "linger" \in Faults
       \/ \A k \in Conns : pc[k] \in Attached => rows[code[k]].status \in {"online", "offline"}

Tick ==
    /\ now < MaxTime /\ Settled
    /\ now' = now + 1
    /\ UNCHANGED <<registry, handler, worker, sweep, visitor, crashes>>

\* _startup_cleanup on what was committed: EXPIRED rows past retention go,
\* rows past their TTL expire, rows still ONLINE go OFFLINE.  Then the drop
\* box is registered.
MarkExpired(table) ==
    [c \in Codes |->
        IF table[c].status # "absent" /\ table[c].expires # Never /\ table[c].expires < now
          THEN [table[c] EXCEPT !.status = "expired"] ELSE table[c]]

\* Mutant: start-up expires what it should only take offline.
MarkOfflineExpired(table) ==
    [c \in Codes |->
        IF table[c].status = "online"
          THEN [table[c] EXCEPT !.status = "expired"] ELSE table[c]]

MarkOffline(table) ==
    [c \in Codes |->
        IF table[c].status = "online"
          THEN [table[c] EXCEPT !.status = "offline"] ELSE table[c]]

StartupCleanup(table) ==
    [MarkOffline(MarkExpired(DeleteExpired(table, now - Retention)))
        EXCEPT ![Dropbox] = DropboxRow]

CrashAndRestart ==
    /\ crashes < MaxCrashes
    /\ crashes' = crashes + 1
    /\ rows' = StartupCleanup(disk) /\ disk' = rows'
    /\ connections' = [c \in Codes |-> NoConn]
    /\ secrets' = [c \in Codes |-> NoConn]
    /\ closed' = [k \in Conns |-> pc[k] # "idle"]
    /\ pc' = [k \in Conns |-> IF pc[k] = "idle" THEN "idle" ELSE "gone"]
    /\ want' = [k \in Conns |-> NoCode]
    /\ code' = [k \in Conns |-> NoCode]
    /\ until' = [k \in Conns |-> 0]
    /\ queue' = <<>>
    /\ hop' = [t \in Tasks |-> 0]
    /\ seen' = [t \in Tasks |-> EmptyTable]
    /\ spc' = "idle" /\ sweepNow' = 0 /\ todo' = {} /\ cur' = NoItem
    /\ vpc' = "idle" /\ visit' = Dropbox /\ answer' = "none"
    /\ UNCHANGED now

-----------------------------------------------------------------------------
Init ==
    /\ rows = FreshTable /\ disk = FreshTable
    /\ connections = [c \in Codes |-> NoConn]
    /\ secrets = [c \in Codes |-> NoConn]
    /\ closed = [k \in Conns |-> FALSE]
    /\ pc = [k \in Conns |-> "idle"]
    /\ want = [k \in Conns |-> NoCode]
    /\ code = [k \in Conns |-> NoCode]
    /\ until = [k \in Conns |-> 0]
    /\ queue = <<>>
    /\ hop = [t \in Tasks |-> 0]
    /\ seen = [t \in Tasks |-> EmptyTable]
    /\ now = 0
    /\ spc = "idle" /\ sweepNow = 0 /\ todo = {} /\ cur = NoItem
    /\ vpc = "idle" /\ visit = Dropbox /\ answer = "none"
    /\ crashes = 0

\* Steps of a handler that wait for nothing outside the relay.
HandlerDb(k) ==
    \/ CapCheck(k) \/ TryReclaim(k) \/ ReclaimUpdate(k) \/ HasMount(k)
    \/ RegisterInsert(k) \/ Attach(k)
    \/ PolicyUpdate(k) \/ PolicyEntries(k) \/ PolicyCommit(k)
    \/ OfflineSelected(k) \/ OfflineUpdate(k) \/ OfflineCommit(k)

SweepDb ==
    \/ SweepSnapshot \/ ExpireSelected \/ ExpireUpdate \/ ExpireCommit
    \/ WarnUpdate \/ WarnCommit \/ RetentionDelete \/ RetentionCommit

WorkerStep ==
    \/ \E t \in Tasks : CursorHop(t)
    \/ \E k \in Conns : HandlerDb(k)
    \/ SweepDb
    \/ LookupDone

Next ==
    \/ WorkerStep
    \/ \E k \in Conns :
         \/ \E c \in Codes \cup {NoCode} : Dial(k, c)
         \/ Authenticated(k) \/ AuthRejected(k)
         \/ Reply(k) \/ ReplyFails(k)
         \/ HeartbeatTimeout(k) \/ Disconnect(k) \/ DisconnectFails(k)
    \/ SweepStart \/ SweepNext
    \/ \E c \in Visited : Lookup(c)
    \/ VisitorLeaves \/ Tick \/ CrashAndRestart

Spec == Init /\ [][Next]_vars

\* The worker thread and the event loop never stop, and the sweep's sleep
\* always ends.  Agents, visitors, time and crashes are free.
Fairness == WF_vars(WorkerStep) /\ WF_vars(SweepStart) /\ WF_vars(SweepNext)
FairSpec == Spec /\ Fairness

-----------------------------------------------------------------------------
TypeOK ==
    /\ rows \in [Codes -> Row] /\ disk \in [Codes -> Row]
    /\ connections \in [Codes -> Conns \cup {NoConn}]
    /\ secrets \in [Codes -> Conns \cup {NoConn}]
    /\ closed \in [Conns -> BOOLEAN]
    /\ pc \in [Conns -> HandlerPcs]
    /\ want \in [Conns -> Codes \cup {NoCode}]
    /\ code \in [Conns -> Codes \cup {NoCode}]
    /\ until \in [Conns -> Int]
    /\ queue \in Seq(Tasks)
    /\ hop \in [Tasks -> 0..2]
    /\ seen \in [Tasks -> [Codes -> Row]]
    /\ now \in 0..MaxTime
    /\ spc \in SweepPcs /\ sweepNow \in 0..MaxTime
    /\ todo \in SUBSET Item /\ cur \in Item
    /\ vpc \in {"idle", "lookup", "answered"} /\ visit \in Codes /\ answer \in Answers
    /\ crashes \in 0..MaxCrashes

\* Every tunnel in the map belongs to a handler that registered that very
\* code, and one whose handler has finished is closed: no visitor is routed to
\* another agent's mount or to a tunnel nobody reads.  (A handler whose
\* close() raised does leave its tunnel in the map.)
MappedTunnelIsAttached ==
    \A c \in Codes : LET k == connections[c] IN
        k # NoConn => code[k] = c /\ (pc[k] \in Attached \/ closed[k])


\* The proxy signs identity headers for a tunnel with the secret of that
\* tunnel's own session or not at all.
SecretOfSession ==
    \A c \in Codes : connections[c] # NoConn => secrets[c] \in {connections[c], NoConn}

Busy(c) ==
    \/ \E k \in Conns : code[k] = c /\ pc[k] \in (Claiming \cup Attached) \ {"reply", "serving"}
    \/ cur.code = c /\ spc \in {"exp_select", "exp_update", "exp_commit"}

\* When nothing is under way for a code, table and map agree: the row is
\* ONLINE exactly when the map holds a tunnel.
TableMatchesMap ==
    \A c \in Codes \ {Dropbox} :
        ~Busy(c) => (rows[c].status = "online" <=> connections[c] # NoConn)

\* A mount whose agent was told it is registered survives a crash: its row,
\* with that session's owner and policy, is committed.
RegisteredIsDurable ==
    \A c \in Codes : connections[c] # NoConn =>
        LET k == connections[c] IN
        pc[k] \in {"reply", "serving"} =>
            disk[c].status # "absent" /\ disk[c].policy = k

\* A crash takes a mount that is being served offline and changes nothing
\* else of it, so that its agent can reclaim it until its old expiry.
CrashKeepsMounts ==
    [][crashes' # crashes =>
          \A c \in Codes :
              LET k == connections[c] IN
              /\ k # NoConn
              /\ pc[k] \in {"reply", "serving"}
              /\ rows[c].status = "online" /\ ~Past(rows[c], now)
              => /\ rows'[c].status = "offline" /\ rows'[c].policy = k
                 /\ rows'[c].ip = rows[c].ip /\ rows'[c].expires = rows[c].expires]_crashes

\* The drop box is online whatever agents, the sweep and crashes do, and no
\* agent's tunnel is ever mapped to its code.
DropboxAlwaysUp ==
    /\ rows[Dropbox].status = "online"
    /\ connections[Dropbox] = NoConn

\* A mount that has expired is never served again, and a reclaim never moves
\* the moment it expires.
NoResurrection ==
    [][\A c \in Codes : rows[c].status # "absent" /\ rows'[c].status # "absent" =>
          /\ rows[c].status = "expired" => rows'[c].status # "online"
          /\ rows'[c].expires = rows[c].expires]_rows

\* A mount past its TTL does not stay online: the sweep takes it down.
ExpiredMountGoesDown ==
    \A c \in Codes :
        (rows[c].status = "online" /\ Past(rows[c], now)) ~> rows[c].status # "online"

\* A visitor is not told that a mount is down while its agent, already told
\* that it is registered, is serving it.
NotDownWhileServing ==
    [][answer' \in {"not_found", "offline", "expired"} =>
          LET k == connections[visit] IN
          k # NoConn => pc[k] # "serving" \/ closed[k] \/ rows[visit].status # "online"]_answer

=============================================================================
