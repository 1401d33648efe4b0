---------------------------- MODULE ServerState ----------------------------
(***************************************************************************)
(* The collaboration state of one file server: share links, which live in   *)
(* memory and in SQLite, file requests and clipboard snippets, which live   *)
(* in SQLite, and the devices that are told of changes (module Hub).  Store *)
(* calls run in worker threads and hold one lock; everything between two of *)
(* them interleaves.  A restart keeps the database only.                    *)
(***************************************************************************)
EXTENDS Hub

CONSTANTS
    Paths,         \* shared files that links are made for
    Ttls,          \* lifetimes offered, in ticks
    MaxNow,        \* bound on the clock
    MaxLinkOps,    \* bound on links created and revoked
    Sharers,       \* POST and DELETE /api/shares
    Visitors,      \* GET /share/{token}
    Listers,       \* GET /api/shares
    Rids,          \* file requests
    NoRow,         \* absence of a row
    Askers,        \* POST /api/file-requests
    Fulfillers,    \* POST /api/file-requests/{id}/fulfill
    Dismissers,    \* DELETE /api/file-requests/{id}
    CallerDevice,  \* the device those present
    FileNames,     \* names of files uploaded in answer to a request
    Sids,          \* clipboard snippets
    MaxSnippets,   \* the limit on their number
    Titles, Contents,
    Writers,       \* POST /api/clipboard
    Titlers,       \* PATCH /api/clipboard/{id}
    Erasers,       \* DELETE /api/clipboard/{id}
    MaxRestarts    \* bound on restarts

Token == Paths \X (0..MaxNow)   \* a signed path and second
Blank == ""   \* the content of a new snippet
Row == [status : {"pending", "fulfilled", "dismissed"}, device : Devices,
        by : Fulfillers \cup {NoRow}, file : FileNames \cup {NoRow}]
Snippet == [title : Titles, content : Contents \cup {Blank}]
Clients == Writers \cup Titlers \cup Erasers \cup Sockets

ASSUME StateAssumption ==
    /\ Ttls \subseteq Nat \ {0} /\ MaxNow \in Nat /\ MaxLinkOps \in Nat
    /\ MaxSnippets \in Nat \ {0} /\ MaxRestarts \in Nat
    /\ \A s \in Starts : s.snips \in [Sids -> Snippet \cup {NoRow}]
    /\ NoRow \notin Row /\ NoRow \notin Snippet /\ NoRow \notin Clients
    \* A behaviour starts within the limit.
    /\ IsFiniteSet(Sids) /\ IsFiniteSet(Writers)
    /\ \A s \in Starts : Cardinality({i \in Sids : s.snips[i] # NoRow}) <= MaxSnippets
    /\ CallerDevice \in [Askers \cup Dismissers -> Devices]
    /\ Callers = Askers \cup Fulfillers \cup Dismissers \cup Writers \cup Titlers \cup Erasers

VARIABLES
    now, linkOps,
    active, table,        \* share links in memory and on disk: token -> ttl, 0 if none
    granted, revoked,     \* answers: the ttl promised for a token, the tokens revoked
    asked,                \* every ttl that a token was ever made with
    lpc, seen,            \* visitors and listers: place, <<token, ttl>> read
    req, files,           \* file_requests; files in the folder
    pc, rid, name,        \* requests: place, request and file
    snip,                 \* clipboard_snippets
    lock,                 \* who holds the store's lock between two statements
    sid, text, row,       \* clipboard calls: snippet, new text, row read
    last,                 \* the last title and content written to each snippet
    restarts

links == <<now, linkOps, active, table, granted, revoked, asked, lpc, seen>>
requests == <<req, files, rid, name>>
clipboard == <<snip, lock, sid, text, row, last>>
vars == <<start, hub, links, requests, clipboard, pc, restarts>>

NoOne == NoRow
\* Mutant: the store has no lock.
AlwaysFree == TRUE
Free == lock = NoOne
Unhub == UNCHANGED <<conn, newest, up, hpc, todo, dead>>
-----------------------------------------------------------------------------
(***************************************************************************)
(* Share links.                                                             *)
(***************************************************************************)
\* Where start.fails, the store may raise: the database stays locked, or the
\* disk is full.
Upsert(t, l) == table' = [table EXCEPT ![t] = l]   \* upsert_share_link
Delete(t) == table' = [table EXCEPT ![t] = 0]      \* delete_share_link

BeginLinkOp(c) ==
    /\ c \in start.who /\ Free /\ linkOps < MaxLinkOps /\ linkOps' = linkOps + 1
    /\ UNCHANGED <<start, hub, now, lpc, seen, requests, clipboard, pc, restarts>>

\* The token is the signed path and second: nothing else tells two links apart.
CreateLink(c) ==
    /\ BeginLinkOp(c)
    /\ \E p \in Paths, l \in Ttls :
          LET t == <<p, now>> IN
          /\ active' = [active EXCEPT ![t] = l]
          /\ asked' = [asked EXCEPT ![t] = @ \cup {l}]
          /\ revoked' = revoked \ {t}
          /\ \/ Upsert(t, l) /\ granted' = [granted EXCEPT ![t] = l]
             \/ start.fails /\ UNCHANGED <<table, granted>>

\* Mutant: the row stays in the database.
RevokeInMemory(c) ==
    /\ BeginLinkOp(c) /\ UNCHANGED <<table, asked>>
    /\ \E t \in Token :
          /\ active[t] # 0 /\ active' = [active EXCEPT ![t] = 0]
          /\ granted' = [granted EXCEPT ![t] = 0] /\ revoked' = revoked \cup {t}
RevokeLink(c) ==
    /\ BeginLinkOp(c) /\ UNCHANGED asked
    /\ \E t \in Token :
          /\ active[t] # 0 /\ active' = [active EXCEPT ![t] = 0]
          /\ granted' = [granted EXCEPT ![t] = 0]
          /\ \/ Delete(t) /\ revoked' = revoked \cup {t}
             \/ start.fails /\ UNCHANGED <<table, revoked>>

Expired(t, ttl) == now - t[2] > ttl
LinkStep == UNCHANGED <<start, hub, now, linkOps, granted, revoked, asked, requests, clipboard, pc, restarts>>

\* validate_token looks one token up, list_active_links takes a snapshot; both
\* check ages without the lock and drop what has expired.
LookUp(v) ==
    /\ v \in start.who /\ lpc[v] = "idle" /\ lpc' = [lpc EXCEPT ![v] = "check"]
    /\ \E t \in Token : active[t] # 0 /\ seen' = [seen EXCEPT ![v] = {<<t, active[t]>>}]
    /\ UNCHANGED <<active, table>> /\ LinkStep
Snapshot(l) ==
    /\ l \in start.who /\ lpc[l] = "idle" /\ lpc' = [lpc EXCEPT ![l] = "check"]
    /\ seen' = [seen EXCEPT ![l] = {p \in Token \X Ttls : active[p[1]] = p[2]}]
    /\ UNCHANGED <<active, table>> /\ LinkStep
CheckAge(a) ==
    /\ lpc[a] = "check"
    /\ seen' = [seen EXCEPT ![a] = {p \in @ : Expired(p[1], p[2])}]
    /\ lpc' = [lpc EXCEPT ![a] = IF seen'[a] = {} THEN "idle" ELSE "drop"]
    /\ UNCHANGED <<active, table>> /\ LinkStep

Without(map, tokens) == [t \in Token |-> IF t \in tokens THEN 0 ELSE map[t]]
DropExpired(a) ==
    /\ lpc[a] = "drop" /\ Free /\ lpc' = [lpc EXCEPT ![a] = "idle"]
    /\ LET gone == {p[1] : p \in seen[a]} IN
          \/ active' = Without(active, gone) /\ table' = Without(table, gone)
          \/ /\ start.fails
             /\ \E t \in gone : \E before \in SUBSET (gone \ {t}) :
                   active' = Without(active, before \cup {t}) /\ table' = Without(table, before)
    /\ UNCHANGED seen /\ LinkStep

Tick ==
    /\ start.who \cap Sharers # {} /\ now < MaxNow /\ now' = now + 1
    /\ UNCHANGED <<start, hub, linkOps, active, table, granted, revoked, asked, lpc, seen,
                   requests, clipboard, pc, restarts>>
-----------------------------------------------------------------------------
(***************************************************************************)
(* File requests.                                                           *)
(***************************************************************************)
Goto(c, place) == pc' = [pc EXCEPT ![c] = place]
RequestStep == UNCHANGED <<start, links, clipboard, restarts>>
Settled(r) == req[r] # NoRow /\ req[r].status # "pending"

InsertRequest(r, new) == req[r] = NoRow /\ req' = [req EXCEPT ![r] = new]
UpdateRequest(r, c, n) ==
    req' = [req EXCEPT ![r].status = "fulfilled", ![r].by = c, ![r].file = n]
Dismiss(r) == req' = [req EXCEPT ![r].status = "dismissed"]
Refused(r) == req[r] = NoRow \/ Settled(r)   \* KeyError, ValueError

\* The id is fresh; the others are told.
Ask(c) ==
    /\ c \in start.who /\ pc[c] = "idle" /\ Free /\ Goto(c, "push")
    /\ \E r \in Rids :
          InsertRequest(r, [status |-> "pending", device |-> CallerDevice[c], by |-> NoRow, file |-> NoRow])
    /\ Cast(c, conn, CallerDevice[c])
    /\ UNCHANGED <<files, rid, name, conn, newest, up, hpc>> /\ RequestStep

\* fulfill_file_request uploads first; a name that is in use ends the call.
CheckName(c) ==
    /\ c \in start.who /\ pc[c] = "idle"
    /\ \E r \in Rids, n \in FileNames :
          /\ rid' = [rid EXCEPT ![c] = r] /\ name' = [name EXCEPT ![c] = n]
          /\ Goto(c, IF n \in files THEN "end" ELSE "upload")
    /\ UNCHANGED <<req, files, hub>> /\ RequestStep
\* The file is opened later, whoever has created it meanwhile; a write that
\* fails leaves it behind.
Upload(c) ==
    /\ pc[c] = "upload" /\ files' = files \cup {name[c]}
    /\ \E place \in {"get", "error"} : Goto(c, place)
    /\ UNCHANGED <<req, rid, name, hub>> /\ RequestStep

\* fulfill_request and dismiss_request read the row ...
GetPending(c) ==
    /\ pc[c] = "get" /\ Free
    /\ Goto(c, IF Refused(rid[c]) THEN "end" ELSE "fulfil")
    /\ UNCHANGED <<requests, hub>> /\ RequestStep
GetOwn(c) ==
    /\ c \in start.who /\ pc[c] = "idle" /\ Free
    /\ \E r \in Rids :
          /\ rid' = [rid EXCEPT ![c] = r]
          /\ Goto(c, IF req[r] # NoRow /\ req[r].device = CallerDevice[c] THEN "dismiss" ELSE "end")
    /\ UNCHANGED <<req, files, name, hub>> /\ RequestStep

\* ... and write it in another call, whatever it has become.
FulfilRequest(c) ==
    /\ pc[c] = "fulfil" /\ Free /\ Goto(c, "push")
    /\ UpdateRequest(rid[c], c, name[c])
    /\ Cast(c, conn, NoSocket)
    /\ UNCHANGED <<files, rid, name, conn, newest, up, hpc>> /\ RequestStep
DismissRequest(c) ==
    /\ pc[c] = "dismiss" /\ Free /\ Goto(c, "push")
    /\ Dismiss(rid[c])
    /\ Cast(c, conn, NoSocket)
    /\ UNCHANGED <<files, rid, name, conn, newest, up, hpc>> /\ RequestStep

\* The end of a caller's broadcast.  A new request is followed by a toast to the
\* others, a fulfilled one by a toast to its requester: that the device is not
\* connected is caught, any other failure to send answers the call with 500.
SendTo(c, s) ==
    \/ s = NoSocket /\ Goto(c, "end")
    \/ s # NoSocket /\ SendOk(s) /\ Goto(c, "end")
    \/ s # NoSocket /\ SendFails(s) /\ Goto(c, "error")
Pushed(c) ==
    /\ todo[c] = {} /\ Purge(c)
    /\ \/ /\ pc[c] = "push" /\ c \in Askers
          /\ Goto(c, "toast") /\ Cast(c, conn', CallerDevice[c])
       \/ /\ pc[c] = "push" /\ c \in Fulfillers
          /\ SendTo(c, conn'[req[rid[c]].device]) /\ Quiet
       \/ /\ pc[c] = "toast" \/ (pc[c] = "push" /\ c \notin Askers \cup Fulfillers)
          /\ Goto(c, "end") /\ Quiet
    /\ UNCHANGED <<up, hpc, requests>> /\ RequestStep
-----------------------------------------------------------------------------
(***************************************************************************)
(* Clipboard snippets.                                                      *)
(***************************************************************************)
ClipStep == UNCHANGED <<start, links, requests, restarts>>
NoText == UNCHANGED <<sid, text, row>>

Number == Cardinality({i \in Sids : snip[i] # NoRow})   \* count_clipboard_snippets
\* insert_clipboard_snippet, under a fresh id.
InsertSnippet(i, new) ==
    last[i] = NoRow /\ snip' = [snip EXCEPT ![i] = new] /\ last' = [last EXCEPT ![i] = new]
DeleteRow(i) == snip[i] # NoRow /\ snip' = [snip EXCEPT ![i] = NoRow]

\* create_snippet counts in one call and inserts in another.
\* Mutant: the limit itself does not stop a new snippet.
CountTooFar(c) ==
    /\ c \in start.who /\ pc[c] = "idle" /\ Free
    /\ Goto(c, IF Number > MaxSnippets THEN "end" ELSE "insert")
    /\ UNCHANGED <<clipboard, hub>> /\ ClipStep
Count(c) ==
    /\ c \in start.who /\ pc[c] = "idle" /\ Free
    /\ Goto(c, IF Number >= MaxSnippets THEN "end" ELSE "insert")
    /\ UNCHANGED <<clipboard, hub>> /\ ClipStep
Insert(c) ==
    /\ pc[c] = "insert" /\ Free /\ Goto(c, "push")
    /\ \E i \in Sids, t \in Titles : InsertSnippet(i, [title |-> t, content |-> Blank])
    /\ Cast(c, conn, NoSocket)
    /\ UNCHANGED <<lock, conn, newest, up, hpc>> /\ NoText /\ ClipStep

\* update_clipboard_snippet: SELECT and UPDATE under one lock.  A socket that
\* sends a content for an unknown snippet is ignored, a caller gets 404.
Read(c, i, t) ==
    /\ Free
    /\ \/ /\ snip[i] # NoRow /\ lock' = c
          /\ sid' = [sid EXCEPT ![c] = i] /\ text' = [text EXCEPT ![c] = t]
          /\ row' = [row EXCEPT ![c] = snip[i]]
       \/ snip[i] = NoRow /\ UNCHANGED <<lock, sid, text, row>>
    /\ UNCHANGED <<snip, last>> /\ ClipStep
Write(c, new) ==
    /\ lock' = NoOne
    /\ snip' = [snip EXCEPT ![sid[c]] = IF @ = NoRow THEN @ ELSE new]
    /\ NoText /\ ClipStep

ReadForTitle(c) ==
    /\ c \in start.who /\ pc[c] = "idle"
    /\ \E i \in Sids, t \in Titles : Read(c, i, t) /\ Goto(c, IF snip[i] # NoRow THEN "title" ELSE "end")
    /\ UNCHANGED hub
WriteTitle(c) ==
    /\ pc[c] = "title" /\ Goto(c, "push")
    /\ Write(c, [row[c] EXCEPT !.title = text[c]])
    /\ last' = [last EXCEPT ![sid[c]].title = text[c]]
    /\ Cast(c, conn, NoSocket) /\ UNCHANGED <<conn, newest, up, hpc>>

ReadForContent(s) ==
    /\ s \in up /\ hpc[s] = "loop"
    /\ \E i \in Sids, t \in Contents : Read(s, i, t) /\ At(s, IF snip[i] # NoRow THEN "update" ELSE "loop")
    /\ UNCHANGED <<pc, conn, newest, up, todo, dead>>
WriteContent(s) ==
    /\ hpc[s] = "update" /\ At(s, "push")
    /\ Write(s, [row[s] EXCEPT !.content = text[s]])
    /\ last' = [last EXCEPT ![sid[s]].content = text[s]]
    /\ Cast(s, conn, DeviceOf[s]) /\ UNCHANGED <<pc, conn, newest, up>>

DeleteSnippet(c) ==
    /\ c \in start.who /\ pc[c] = "idle" /\ Free /\ Goto(c, "push")
    /\ \E i \in Sids : DeleteRow(i)
    /\ Cast(c, conn, NoSocket)
    /\ UNCHANGED <<lock, last, conn, newest, up, hpc>> /\ NoText /\ ClipStep
-----------------------------------------------------------------------------
\* create_app: the links in memory are those of the database.
Restart ==
    /\ restarts < MaxRestarts /\ restarts' = restarts + 1
    /\ HubRestart
    /\ active' = table
    /\ lpc' = [a \in Visitors \cup Listers |-> "idle"]
    /\ pc' = [c \in Callers |-> IF pc[c] = "idle" THEN "idle" ELSE "end"]
    /\ lock' = NoOne
    /\ UNCHANGED <<start, now, linkOps, table, granted, revoked, asked, seen, requests, snip, sid, text, row, last>>

Init ==
    /\ start \in Starts /\ HubInit
    /\ now = 0 /\ linkOps = 0 /\ restarts = 0
    /\ active = [t \in Token |-> 0] /\ table = active /\ granted = active /\ revoked = {}
    /\ asked = [t \in Token |-> {}]
    /\ lpc = [a \in Visitors \cup Listers |-> "idle"] /\ seen = [a \in Visitors \cup Listers |-> {}]
    /\ req = [r \in Rids |-> NoRow] /\ files = {}
    /\ pc = [c \in Callers |-> "idle"]
    /\ rid = [c \in Callers |-> NoRow] /\ name = [c \in Callers |-> NoRow]
    /\ snip = start.snips /\ last = snip /\ lock = NoOne
    /\ sid = [c \in Clients |-> NoRow] /\ text = sid /\ row = sid

LinksNext ==
    \/ \E c \in Sharers : CreateLink(c) \/ RevokeLink(c)
    \/ \E v \in Visitors : LookUp(v)
    \/ \E l \in Listers : Snapshot(l)
    \/ \E a \in Visitors \cup Listers : CheckAge(a) \/ DropExpired(a)
    \/ Tick
CallerNext(c) ==
    \/ c \in Askers /\ Ask(c)
    \/ c \in Fulfillers /\ (CheckName(c) \/ Upload(c) \/ GetPending(c) \/ FulfilRequest(c))
    \/ c \in Dismissers /\ (GetOwn(c) \/ DismissRequest(c))
    \/ c \in Writers /\ (Count(c) \/ Insert(c))
    \/ c \in Titlers /\ (ReadForTitle(c) \/ WriteTitle(c))
    \/ c \in Erasers /\ DeleteSnippet(c)
    \/ Pushed(c)
    \/ CastSend(c) /\ UNCHANGED <<start, links, requests, clipboard, pc, restarts>>
SocketNext(s) ==
    \/ HandlerNext(s) /\ UNCHANGED <<start, links, requests, clipboard, pc, restarts>>
    \/ WriteContent(s)

Next ==
    \/ LinksNext
    \/ \E c \in Callers : CallerNext(c)
    \/ \E s \in Sockets : SocketNext(s) \/ ReadForContent(s)
    \/ \E s \in Sockets : (Reject(s) \/ Leave(s))
                         /\ UNCHANGED <<start, links, requests, clipboard, pc, restarts>>
    \/ Restart

\* The event loop runs every handler that can run, and sends end.
Spec == Init /\ [][Next]_vars /\ \A s \in Sockets : WF_vars(SocketNext(s))
-----------------------------------------------------------------------------
(***************************************************************************)
(* Properties.                                                              *)
(***************************************************************************)
\* Every variable has its type.
TypeOK ==
    /\ HubTypeOK
    /\ now \in 0..MaxNow /\ linkOps \in 0..MaxLinkOps /\ restarts \in 0..MaxRestarts
    /\ active \in [Token -> Ttls \cup {0}] /\ table \in [Token -> Ttls \cup {0}]
    /\ granted \in [Token -> Ttls \cup {0}] /\ revoked \in SUBSET Token
    /\ asked \in [Token -> SUBSET Ttls]
    /\ lpc \in [Visitors \cup Listers -> {"idle", "check", "drop"}]
    /\ seen \in [Visitors \cup Listers -> SUBSET (Token \X Ttls)]
    /\ req \in [Rids -> Row \cup {NoRow}] /\ files \in SUBSET FileNames
    /\ pc \in [Callers -> {"idle", "upload", "get", "fulfil", "dismiss", "insert", "title", "push", "toast",
                            "end", "error"}]
    /\ rid \in [Callers -> Rids \cup {NoRow}] /\ name \in [Callers -> FileNames \cup {NoRow}]
    /\ snip \in [Sids -> Snippet \cup {NoRow}] /\ last \in [Sids -> Snippet \cup {NoRow}]
    /\ lock \in Clients \cup {NoOne}
    /\ sid \in [Clients -> Sids \cup {NoRow}] /\ row \in [Clients -> Snippet \cup {NoRow}]
    /\ text \in [Clients -> Titles \cup Contents \cup {NoRow}]

\* The device list names living sockets, the newest one of each device.
DevicesSound == TypeOK /\ NoGhost /\ NewestRegistered

\* ShareLinkService: a link that was created with success and not revoked is
\* there for its whole lifetime, in memory and on disk, whatever lists,
\* validations, failed calls and restarts come between.  Two links made for one
\* path in one second are one token: where they differ in their lifetimes, a
\* failed call or a late check of the one ends the other, and nothing is said.
LinkLives ==
    \A t \in Token :
        granted[t] # 0 /\ asked[t] = {granted[t]} /\ ~Expired(t, granted[t]) => active[t] = granted[t] /\ table[t] = granted[t]

\* A link whose revocation was answered is gone from memory and disk, so that
\* neither a later visitor nor a restart revives it.
RevokedIsDead == \A t \in revoked : active[t] = 0 /\ table[t] = 0

\* Links are what their creators and revokers were told.
LinksAsTold == LinkLives /\ RevokedIsDead

\* fulfill_request, "ValueError if not PENDING": a call that marks a request as
\* fulfilled finds it pending, neither fulfilled by another nor dismissed.  No
\* run checks it: the calls of the run server_state refute it.
OnlyPendingFulfilled ==
    [][\A r \in Rids : req'[r] # req[r] /\ req'[r].status = "fulfilled" => req[r].status = "pending"]_vars

\* MAX_SNIPPETS: calls that overlap may exceed the limit, by at most one each.
SnippetCap == Number <= MaxSnippets \/ Number < MaxSnippets + Cardinality(Writers \cap start.who)

\* update_clipboard_snippet: no title or content that was written is lost to a
\* concurrent write of the other.
NoLostUpdate == \A i \in Sids : snip[i] # NoRow => snip[i] = last[i]
=============================================================================
