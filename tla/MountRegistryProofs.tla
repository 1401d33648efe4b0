------------------------- MODULE MountRegistryProofs -------------------------
(***************************************************************************)
(* Theorems about MountRegistry, for every value of its constants.          *)
(***************************************************************************)
EXTENDS MountRegistry, SequenceTheorems, TLAPS

(***************************************************************************)
(* The worker's queue.                                                      *)
(***************************************************************************)
LEMMA QueueTypes ==
  ASSUME queue \in Seq(Tasks), NEW t \in Tasks
  PROVE  /\ Enqueue(t) => queue' \in Seq(Tasks)
         /\ AtHead(t) /\ Requeue(t) => queue' \in Seq(Tasks)
         /\ AtHead(t) /\ Dequeue => queue' \in Seq(Tasks)
BY AppendProperties, HeadTailProperties DEF Enqueue, AtHead, Requeue, Dequeue

LEMMA RowTypes ==
  /\ NoRow \in Row /\ DropboxRow \in Row
  /\ EmptyTable \in [Codes -> Row] /\ FreshTable \in [Codes -> Row]
<1>1. NoRow \in Row
  BY ConstantsAssumption DEF NoRow, Row, Status, Never
<1>2. DropboxRow \in Row
  BY <1>1 DEF DropboxRow, Row, Status
<1>3. EmptyTable \in [Codes -> Row]
  BY <1>1 DEF EmptyTable
<1>4. FreshTable \in [Codes -> Row]
  BY <1>2, <1>3, ConstantsAssumption DEF FreshTable
<1> QED BY <1>1, <1>2, <1>3, <1>4

\* An UPDATE keeps the table's type, whether or not a row matches.
LEMMA UpdateTypes ==
  ASSUME rows \in [Codes -> Row], NEW c
  PROVE  /\ \A s \in Status : SetStatus(c, s) \in [Codes -> Row]
         /\ \A k \in Conns : SetPolicy(c, k) \in [Codes -> Row]
         /\ SetWarned(c) \in [Codes -> Row]
<1>1. ASSUME NEW s \in Status PROVE SetStatus(c, s) \in [Codes -> Row]
  BY DEF SetStatus, Row
<1>2. ASSUME NEW k \in Conns PROVE SetPolicy(c, k) \in [Codes -> Row]
  BY DEF SetPolicy, Row
<1>3. SetWarned(c) \in [Codes -> Row]
  BY DEF SetWarned, Row
<1> QED BY <1>1, <1>2, <1>3

LEMMA CleanupTypes ==
  ASSUME NEW table \in [Codes -> Row], now \in Nat
  PROVE  /\ \A cutoff : DeleteExpired(table, cutoff) \in [Codes -> Row]
         /\ StartupCleanup(table) \in [Codes -> Row]
<1>1. \A T \in [Codes -> Row] : \A x : DeleteExpired(T, x) \in [Codes -> Row]
  BY RowTypes DEF DeleteExpired
<1>2. \A T \in [Codes -> Row] : MarkExpired(T) \in [Codes -> Row]
  BY DEF MarkExpired, Row, Status
<1>3. \A T \in [Codes -> Row] : MarkOffline(T) \in [Codes -> Row]
  BY DEF MarkOffline, Row, Status
<1> QED BY <1>1, <1>2, <1>3, RowTypes, ConstantsAssumption DEF StartupCleanup

\* What the end of a statement does to the worker's variables.
LEMMA CursorTypes ==
  ASSUME hop \in [Tasks -> 0..2], seen \in [Tasks -> [Codes -> Row]], NEW t \in Tasks
  PROVE  /\ Fetched(t) => AtHead(t) /\ hop' \in [Tasks -> 0..2] /\ seen' \in [Tasks -> [Codes -> Row]]
         /\ Executed(t) => AtHead(t) /\ hop' = hop /\ seen' = seen
BY RowTypes DEF Fetched, Executed

\* What registering prepares and leaving resets in a handler's variables.
LEMMA HandlerTypes ==
  ASSUME TypeOK, NEW k \in Conns, NEW c \in Codes \cup {NoCode}
  PROVE  /\ PrepareRegister(k, c) => /\ pc' \in [Conns -> HandlerPcs]
                                     /\ code' \in [Conns -> Codes \cup {NoCode}]
                                     /\ until' \in [Conns -> Int]
         /\ Leave(k) => /\ pc' \in [Conns -> HandlerPcs]
                        /\ want' \in [Conns -> Codes \cup {NoCode}]
                        /\ code' \in [Conns -> Codes \cup {NoCode}]
                        /\ until' \in [Conns -> Int]
<1>1. \A ttl \in Ttls : now + ttl \in Int
  BY ConstantsAssumption DEF TypeOK
<1>2. PrepareRegister(k, c) => /\ pc' \in [Conns -> HandlerPcs]
                               /\ code' \in [Conns -> Codes \cup {NoCode}]
                               /\ until' \in [Conns -> Int]
  BY <1>1 DEF PrepareRegister, TypeOK, HandlerPcs, Claiming
<1>3. Leave(k) => /\ pc' \in [Conns -> HandlerPcs]
                  /\ want' \in [Conns -> Codes \cup {NoCode}]
                  /\ code' \in [Conns -> Codes \cup {NoCode}]
                  /\ until' \in [Conns -> Int]
  BY DEF Leave, TypeOK, HandlerPcs
<1> QED BY <1>2, <1>3

(***************************************************************************)
(* Type correctness.                                                        *)
(***************************************************************************)
LEMMA TypeStep == TypeOK /\ [Next]_vars => TypeOK'
<1> SUFFICES ASSUME TypeOK PROVE [Next]_vars => TypeOK'
  OBVIOUS
<1> USE ConstantsAssumption, QueueTypes, CursorTypes
<1> USE DEF TypeOK, registry, handler, worker, sweep, visitor, Tasks
<1>1. ASSUME NEW t \in Tasks, CursorHop(t) PROVE TypeOK'
  <2>1. seen' \in [Tasks -> [Codes -> Row]]
    <3>1. [c \in Codes |-> IF Selected(t, c) THEN rows[c] ELSE NoRow] \in [Codes -> Row]
      BY RowTypes
    <3> QED BY <1>1, <3>1 DEF CursorHop
  <2>2. hop' \in [Tasks -> 0..2]
    <3>1. hop[t] \in 0..2
      OBVIOUS
    <3>2. hop[t] + 1 \in 0..2
      BY <1>1, <3>1 DEF CursorHop
    <3> QED BY <1>1, <3>2 DEF CursorHop
  <2> QED BY <1>1, <2>1, <2>2 DEF CursorHop
<1>2. ASSUME NEW k \in Conns, CapCheck(k) PROVE TypeOK'
  BY <1>2 DEF CapCheck, HandlerPcs, Claiming, ClaimSelects, Attached
<1>3. ASSUME NEW k \in Conns, TryReclaim(k) PROVE TypeOK'
  BY <1>3 DEF TryReclaim, HandlerPcs, Claiming, ClaimSelects, Attached
<1>4. ASSUME NEW k \in Conns, ReclaimUpdate(k) PROVE TypeOK'
  BY <1>4, UpdateTypes DEF ReclaimUpdate, HandlerPcs, Claiming, ClaimSelects, Attached, Status
<1>5. ASSUME NEW k \in Conns, HasMount(k) PROVE TypeOK'
  <2>1. \E c \in Codes \cup {NoCode} : PrepareRegister(k, c)
    BY <1>5 DEF HasMount
  <2> QED BY <1>5, <2>1, HandlerTypes DEF HasMount
<1>6. ASSUME NEW k \in Conns, RegisterInsert(k) PROVE TypeOK'
  BY <1>6 DEF RegisterInsert, HandlerPcs, Claiming, ClaimSelects, Attached, Row, Status
<1>7. ASSUME NEW k \in Conns, Attach(k) PROVE TypeOK'
  BY <1>7 DEF Attach, HandlerPcs, Claiming, ClaimSelects, Attached
<1>8. ASSUME NEW k \in Conns, PolicyUpdate(k) PROVE TypeOK'
  <2>1. rows' \in [Codes -> Row]
    <3>1. rows' = rows \/ rows' = SetPolicy(code[k], k)
      BY <1>8 DEF PolicyUpdate
    <3>2. SetPolicy(code[k], k) \in [Codes -> Row]
      BY UpdateTypes
    <3> QED BY <3>1, <3>2
  <2>2. secrets' \in [Codes -> Conns \cup {NoConn}]
    BY <1>8 DEF PolicyUpdate, StoreSecret
  <2>3. pc' \in [Conns -> HandlerPcs]
    <3>1. pc' = [pc EXCEPT ![k] = "reply"] \/ pc' = [pc EXCEPT ![k] = "entries"]
      BY <1>8 DEF PolicyUpdate
    <3> HIDE QueueTypes, CursorTypes, ConstantsAssumption
    <3> QED BY <3>1 DEF HandlerPcs, Claiming, ClaimSelects, Attached
  <2>4. queue' \in Seq(Tasks)
    <3>1. AtHead(k) /\ (Dequeue \/ Requeue(k))
      BY <1>8 DEF PolicyUpdate, Executed
    <3> QED BY <3>1
  <2> QED BY <1>8, <2>1, <2>2, <2>3, <2>4 DEF PolicyUpdate
<1>9. ASSUME NEW k \in Conns, PolicyEntries(k) PROVE TypeOK'
  BY <1>9 DEF PolicyEntries, HandlerPcs, Claiming, ClaimSelects, Attached
<1>10. ASSUME NEW k \in Conns, PolicyCommit(k) PROVE TypeOK'
  BY <1>10 DEF PolicyCommit, HandlerPcs, Claiming, ClaimSelects, Attached, StoreSecret
<1>11. ASSUME NEW k \in Conns, OfflineSelected(k) PROVE TypeOK'
  <2>1. CASE seen[k][code[k]].status = "online"
    BY <1>11, <2>1 DEF OfflineSelected, HandlerPcs, Attached
  <2>2. CASE seen[k][code[k]].status # "online"
    BY <1>11, <2>2, HandlerTypes DEF OfflineSelected
  <2> QED BY <2>1, <2>2
<1>12. ASSUME NEW k \in Conns, OfflineUpdate(k) PROVE TypeOK'
  BY <1>12, UpdateTypes DEF OfflineUpdate, HandlerPcs, Claiming, ClaimSelects, Attached, Status
<1>13. ASSUME NEW k \in Conns, OfflineCommit(k) PROVE TypeOK'
  BY <1>13, HandlerTypes DEF OfflineCommit
<1>14. ASSUME NEW k \in Conns, Authenticated(k) PROVE TypeOK'
  <2>1. CASE want[k] # NoCode
    BY <1>14, <2>1 DEF Authenticated, HandlerPcs, Claiming, ClaimSelects
  <2>2. CASE want[k] = NoCode
    <3>1. PICK c \in Codes : PrepareRegister(k, c)
      BY <1>14, <2>2 DEF Authenticated
    <3> QED BY <1>14, <3>1, HandlerTypes DEF Authenticated
  <2> QED BY <2>1, <2>2
<1>15. ASSUME NEW k \in Conns, AuthRejected(k) PROVE TypeOK'
  BY <1>15 DEF AuthRejected, HandlerPcs, Claiming, ClaimSelects, Attached
<1>16. ASSUME NEW k \in Conns, Reply(k) PROVE TypeOK'
  BY <1>16 DEF Reply, HandlerPcs, Claiming, ClaimSelects, Attached
<1>17. ASSUME NEW k \in Conns, ReplyFails(k) PROVE TypeOK'
  BY <1>17 DEF ReplyFails, HandlerPcs, Claiming, ClaimSelects, Attached
<1>18. ASSUME NEW k \in Conns, HeartbeatTimeout(k) PROVE TypeOK'
  BY <1>18 DEF HeartbeatTimeout
<1>19. ASSUME NEW k \in Conns, Disconnect(k) PROVE TypeOK'
  BY <1>19 DEF Disconnect, HandlerPcs, Claiming, ClaimSelects, Attached
<1>37. ASSUME NEW k \in Conns, DisconnectFails(k) PROVE TypeOK'
  BY <1>37 DEF DisconnectFails, HandlerPcs
<1>20. ASSUME NEW k \in Conns, NEW c \in Codes \cup {NoCode}, Dial(k, c) PROVE TypeOK'
  <2>1. want' \in [Conns -> Codes \cup {NoCode}]
    BY <1>20 DEF Dial
  <2>3. pc' \in [Conns -> HandlerPcs]
    BY <1>20 DEF Dial, HandlerPcs, Claiming
  <2>2. queue' \in Seq(Tasks)
    BY <1>20 DEF Dial
  <2> QED BY <1>20, <2>1, <2>2, <2>3 DEF Dial
<1>21. ASSUME NEW c \in Visited, Lookup(c) PROVE TypeOK'
  BY <1>21 DEF Lookup
<1>22. CASE SweepSnapshot
  BY <1>22 DEF SweepSnapshot, SweepPcs, Item
<1>23. CASE ExpireSelected
  BY <1>23 DEF ExpireSelected, SweepPcs, SweepResume, NoItem, Item
<1>24. CASE ExpireUpdate
  BY <1>24, UpdateTypes DEF ExpireUpdate, SweepPcs, Item, Status
<1>25. CASE ExpireCommit
  BY <1>25 DEF ExpireCommit, SweepPcs, SweepResume, NoItem, Item
<1>26. CASE WarnUpdate
  <2>1. CASE rows[cur.code].status = "absent"
    BY <1>26, <2>1 DEF WarnUpdate, SweepPcs, SweepResume, NoItem, Item
  <2>2. CASE rows[cur.code].status # "absent"
    BY <1>26, <2>2, UpdateTypes DEF WarnUpdate, SweepPcs
  <2> QED BY <2>1, <2>2
<1>27. CASE WarnCommit
  BY <1>27 DEF WarnCommit, SweepPcs, SweepResume, NoItem, Item
<1>28. CASE RetentionDelete
  <2>1. rows' \in [Codes -> Row]
    <3>1. now \in Nat /\ rows \in [Codes -> Row]
      OBVIOUS
    <3> QED BY <1>28, <3>1, CleanupTypes DEF RetentionDelete
  <2> QED BY <1>28, <2>1 DEF RetentionDelete, SweepPcs
<1>29. CASE RetentionCommit
  BY <1>29 DEF RetentionCommit, SweepPcs
<1>30. CASE SweepStart
  BY <1>30 DEF SweepStart, SweepPcs
<1>31. CASE SweepNext
  BY <1>31 DEF SweepNext, SweepPcs
<1>32. CASE LookupDone
  BY <1>32 DEF LookupDone, LookupAnswer, Answers
<1>33. CASE VisitorLeaves
  BY <1>33 DEF VisitorLeaves, Answers
<1>34. CASE Tick
  BY <1>34 DEF Tick
<1>35. CASE CrashAndRestart
  <2>1. rows' \in [Codes -> Row] /\ disk' \in [Codes -> Row]
    <3>1. now \in Nat /\ disk \in [Codes -> Row]
      OBVIOUS
    <3> QED BY <1>35, <3>1, CleanupTypes DEF CrashAndRestart
  <2>2. queue' \in Seq(Tasks) /\ hop' \in [Tasks -> 0..2] /\ seen' \in [Tasks -> [Codes -> Row]]
    BY <1>35, RowTypes DEF CrashAndRestart
  <2>3. /\ closed' \in [Conns -> BOOLEAN] /\ pc' \in [Conns -> HandlerPcs]
        /\ want' \in [Conns -> Codes \cup {NoCode}]
        /\ code' \in [Conns -> Codes \cup {NoCode}] /\ until' \in [Conns -> Int]
    BY <1>35 DEF CrashAndRestart, HandlerPcs
  <2>4. connections' \in [Codes -> Conns \cup {NoConn}] /\ secrets' \in [Codes -> Conns \cup {NoConn}]
    BY <1>35 DEF CrashAndRestart
  <2>5. /\ spc' \in SweepPcs /\ sweepNow' \in 0..MaxTime /\ todo' \in SUBSET Item /\ cur' \in Item
        /\ vpc' \in {"idle", "lookup", "answered"} /\ visit' \in Codes /\ answer' \in Answers
        /\ crashes' \in 0..MaxCrashes /\ now' \in 0..MaxTime
    BY <1>35 DEF CrashAndRestart, SweepPcs, Answers, NoItem, Item
  <2> QED BY <2>1, <2>2, <2>3, <2>4, <2>5
<1>36. CASE UNCHANGED vars
  BY <1>36 DEF vars
<1> QED
  BY <1>1, <1>2, <1>3, <1>4, <1>5, <1>6, <1>7, <1>8, <1>9, <1>10, <1>11, <1>12,
     <1>13, <1>14, <1>15, <1>16, <1>17, <1>18, <1>19, <1>20, <1>21, <1>22, <1>23, <1>24,
     <1>25, <1>26, <1>27, <1>28, <1>29, <1>30, <1>31, <1>32, <1>33, <1>34, <1>35, <1>36, <1>37
  DEF Next, WorkerStep, HandlerDb, SweepDb

LEMMA TypeInit == Init => TypeOK
BY ConstantsAssumption, RowTypes DEF Init, TypeOK, HandlerPcs, SweepPcs, Answers, Item, NoItem, Tasks

\* Every variable keeps its type, whatever the agents, the sweep, visitors
\* and crashes of the relay do.
THEOREM TypeCorrect == Spec => []TypeOK
BY TypeInit, TypeStep, PTL DEF Spec

(***************************************************************************)
(* The drop box.  DropboxAlwaysUp is not inductive: it holds because the    *)
(* drop box never expires, so that neither a snapshot of the sweep nor the  *)
(* mount it has in hand is ever the drop box, and because no handler asks   *)
(* for or is given the reserved code.                                       *)
(***************************************************************************)
DropboxOnline(table) == table[Dropbox].status = "online" /\ table[Dropbox].expires = Never

DropboxInv ==
    /\ DropboxOnline(rows) /\ DropboxOnline(disk)
    /\ connections[Dropbox] = NoConn
    /\ \A k \in Conns : want[k] # Dropbox /\ code[k] # Dropbox
    /\ \A t \in Tasks : seen[t][Dropbox].expires = Never
    /\ \A i \in todo : i.code # Dropbox
    /\ spc \in {"exp_select", "exp_update", "exp_commit", "warn_update", "warn_commit"} =>
          cur.code # Dropbox

\* An UPDATE, an INSERT or the retention DELETE for another code leaves the
\* drop box's row alone.
LEMMA DropboxUpdates ==
  ASSUME TypeOK, DropboxOnline(rows), NEW c, c # Dropbox
  PROVE  /\ \A s : DropboxOnline(SetStatus(c, s))
         /\ \A k : DropboxOnline(SetPolicy(c, k))
         /\ DropboxOnline(SetWarned(c))
         /\ \A r : DropboxOnline([rows EXCEPT ![c] = r])
         /\ \A t : DropboxOnline(DeleteExpired(rows, t))
BY ConstantsAssumption
DEF TypeOK, Row, DropboxOnline, SetStatus, SetPolicy, SetWarned, DeleteExpired

LEMMA DropboxStep == TypeOK /\ DropboxInv /\ [Next]_vars => DropboxInv'
<1> SUFFICES ASSUME TypeOK, DropboxInv PROVE [Next]_vars => DropboxInv'
  OBVIOUS
<1> USE ConstantsAssumption
<1> USE DEF DropboxInv, TypeOK, registry, handler, worker, sweep, visitor, Tasks
<1>1. ASSUME NEW t \in Tasks, CursorHop(t) PROVE DropboxInv'
  BY <1>1 DEF CursorHop, NoRow, DropboxOnline
<1>2. ASSUME NEW k \in Conns, CapCheck(k) PROVE DropboxInv'
  BY <1>2 DEF CapCheck, Fetched, EmptyTable, NoRow
<1>3. ASSUME NEW k \in Conns, TryReclaim(k) PROVE DropboxInv'
  BY <1>3 DEF TryReclaim, Fetched, EmptyTable, NoRow
<1>4. ASSUME NEW k \in Conns, ReclaimUpdate(k) PROVE DropboxInv'
  BY <1>4, DropboxUpdates DEF ReclaimUpdate, Executed
<1>5. ASSUME NEW k \in Conns, HasMount(k) PROVE DropboxInv'
  BY <1>5 DEF HasMount, Fetched, PrepareRegister, Unused, EmptyTable, NoRow
<1>6. ASSUME NEW k \in Conns, RegisterInsert(k) PROVE DropboxInv'
  BY <1>6, DropboxUpdates DEF RegisterInsert, Executed
<1>7. ASSUME NEW k \in Conns, Attach(k) PROVE DropboxInv'
  BY <1>7 DEF Attach, Executed
<1>8. ASSUME NEW k \in Conns, PolicyUpdate(k) PROVE DropboxInv'
  BY <1>8, DropboxUpdates DEF PolicyUpdate, Executed
<1>9. ASSUME NEW k \in Conns, PolicyEntries(k) PROVE DropboxInv'
  BY <1>9 DEF PolicyEntries, Executed
<1>10. ASSUME NEW k \in Conns, PolicyCommit(k) PROVE DropboxInv'
  BY <1>10 DEF PolicyCommit, Executed
<1>11. ASSUME NEW k \in Conns, OfflineSelected(k) PROVE DropboxInv'
  BY <1>11 DEF OfflineSelected, Fetched, Leave, EmptyTable, NoRow
<1>12. ASSUME NEW k \in Conns, OfflineUpdate(k) PROVE DropboxInv'
  BY <1>12, DropboxUpdates DEF OfflineUpdate, Executed
<1>13. ASSUME NEW k \in Conns, OfflineCommit(k) PROVE DropboxInv'
  BY <1>13 DEF OfflineCommit, Executed, Leave
<1>14. ASSUME NEW k \in Conns, Authenticated(k) PROVE DropboxInv'
  BY <1>14 DEF Authenticated, PrepareRegister, Unused
<1>15. ASSUME NEW k \in Conns, AuthRejected(k) PROVE DropboxInv'
  BY <1>15 DEF AuthRejected
<1>16. ASSUME NEW k \in Conns, Reply(k) PROVE DropboxInv'
  BY <1>16 DEF Reply
<1>17. ASSUME NEW k \in Conns, ReplyFails(k) PROVE DropboxInv'
  BY <1>17 DEF ReplyFails
<1>18. ASSUME NEW k \in Conns, HeartbeatTimeout(k) PROVE DropboxInv'
  BY <1>18 DEF HeartbeatTimeout
<1>19. ASSUME NEW k \in Conns, Disconnect(k) PROVE DropboxInv'
  BY <1>19 DEF Disconnect
<1>37. ASSUME NEW k \in Conns, DisconnectFails(k) PROVE DropboxInv'
  BY <1>37 DEF DisconnectFails
<1>20. ASSUME NEW k \in Conns, NEW c \in Codes \cup {NoCode}, Dial(k, c) PROVE DropboxInv'
  BY <1>20 DEF Dial
<1>21. ASSUME NEW c \in Visited, Lookup(c) PROVE DropboxInv'
  BY <1>21 DEF Lookup
<1>22. CASE SweepSnapshot
  BY <1>22 DEF SweepSnapshot, Fetched, Expires, Warns, Past, EmptyTable, NoRow
<1>23. CASE ExpireSelected
  BY <1>23 DEF ExpireSelected, Fetched, SweepResume, EmptyTable, NoRow
<1>24. CASE ExpireUpdate
  BY <1>24, DropboxUpdates DEF ExpireUpdate, Executed
<1>25. CASE ExpireCommit
  BY <1>25 DEF ExpireCommit, Executed, SweepResume
<1>26. CASE WarnUpdate
  BY <1>26, DropboxUpdates DEF WarnUpdate, Executed, SweepResume
<1>27. CASE WarnCommit
  BY <1>27 DEF WarnCommit, Executed, SweepResume
<1>28. CASE RetentionDelete
  BY <1>28, DropboxUpdates DEF RetentionDelete, Executed
<1>29. CASE RetentionCommit
  BY <1>29 DEF RetentionCommit, Executed
<1>30. CASE SweepStart
  BY <1>30 DEF SweepStart
<1>31. CASE SweepNext
  BY <1>31 DEF SweepNext
<1>32. CASE LookupDone
  BY <1>32 DEF LookupDone, Fetched, EmptyTable, NoRow
<1>33. CASE VisitorLeaves
  BY <1>33 DEF VisitorLeaves
<1>34. CASE Tick
  BY <1>34 DEF Tick
<1>35. CASE CrashAndRestart
  <2>1. rows'[Dropbox] = DropboxRow
    BY <1>35 DEF CrashAndRestart, StartupCleanup, MarkOffline
  <2>2. DropboxOnline(rows)' /\ DropboxOnline(disk)'
    BY <1>35, <2>1 DEF CrashAndRestart, DropboxOnline, DropboxRow, NoRow
  <2>3. \A t \in Tasks : seen'[t][Dropbox].expires = Never
    BY <1>35 DEF CrashAndRestart, EmptyTable, NoRow
  <2> QED BY <1>35, <2>2, <2>3 DEF CrashAndRestart
<1>36. CASE UNCHANGED vars
  BY <1>36 DEF vars
<1> QED
  BY <1>1, <1>2, <1>3, <1>4, <1>5, <1>6, <1>7, <1>8, <1>9, <1>10, <1>11, <1>12,
     <1>13, <1>14, <1>15, <1>16, <1>17, <1>18, <1>19, <1>20, <1>21, <1>22, <1>23, <1>24,
     <1>25, <1>26, <1>27, <1>28, <1>29, <1>30, <1>31, <1>32, <1>33, <1>34, <1>35, <1>36, <1>37
  DEF Next, WorkerStep, HandlerDb, SweepDb

\* The relay's own drop box stays online and unmapped, for any number of
\* agents, codes, crashes and sweeps.
THEOREM DropboxUp == Spec => []DropboxAlwaysUp
<1>1. Init => DropboxInv
  BY ConstantsAssumption
  DEF Init, DropboxInv, DropboxOnline, FreshTable, EmptyTable, DropboxRow, NoRow, Tasks
<1>2. DropboxInv => DropboxAlwaysUp
  BY DEF DropboxInv, DropboxOnline, DropboxAlwaysUp
<1> QED BY <1>1, <1>2, TypeCorrect, DropboxStep, PTL DEF Spec


(***************************************************************************)
(* Agents, the sweep and the table.  What follows is proved for Faults = {}: *)
(* no two agents claim one code at once and the registration reply of an     *)
(* open socket does not fail, the two cases in which the code gives the      *)
(* promises up.                                                              *)
(*                                                                           *)
(* The argument rests on the worker's FIFO.  Before(s, t) says that task s   *)
(* is served before task t: whoever has read the table goes to the tail, so  *)
(* everyone who was waiting then has moved on when the reader resumes.       *)
(***************************************************************************)
In(t) == \E i \in 1..Len(queue) : queue[i] = t
Before(s, t) == \E i, j \in 1..Len(queue) : i < j /\ queue[i] = s /\ queue[j] = t
NoDuplicates == \A i, j \in 1..Len(queue) : queue[i] = queue[j] => i = j

LEMMA HeadFirst ==
  ASSUME queue \in Seq(Tasks), NoDuplicates, NEW t, AtHead(t)
  PROVE  In(t) /\ \A s : ~Before(s, t)
<1>1. Len(queue) \in Nat /\ Len(queue) > 0 /\ queue[1] = t
  BY DEF AtHead
<1> QED BY <1>1 DEF In, Before, NoDuplicates

LEMMA EnqueueOrder ==
  ASSUME queue \in Seq(Tasks), NoDuplicates, NEW t \in Tasks, ~In(t), Enqueue(t)
  PROVE  /\ NoDuplicates'
         /\ \A s : In(s)' <=> In(s) \/ s = t
         /\ \A r, s : Before(r, s) => Before(r, s)'
<1>1. /\ Len(queue) \in Nat /\ Len(queue') = Len(queue) + 1
      /\ \A i \in 1..Len(queue) : queue'[i] = queue[i]
      /\ queue'[Len(queue) + 1] = t
  BY AppendProperties DEF Enqueue
<1>2. NoDuplicates'
  BY <1>1 DEF NoDuplicates, In
<1>3. \A s : In(s)' <=> In(s) \/ s = t
  BY <1>1 DEF In
<1>4. \A r, s : Before(r, s) => Before(r, s)'
  BY <1>1 DEF Before
<1> QED BY <1>2, <1>3, <1>4

LEMMA DequeueOrder ==
  ASSUME queue \in Seq(Tasks), NoDuplicates, NEW t \in Tasks, AtHead(t), Dequeue
  PROVE  /\ NoDuplicates'
         /\ \A s : In(s)' <=> In(s) /\ s # t
         /\ \A r, s : r # t /\ Before(r, s) => Before(r, s)'
<1>1. /\ Len(queue) \in Nat /\ Len(queue) > 0 /\ queue[1] = t
      /\ Len(queue') = Len(queue) - 1
      /\ \A i \in 1..Len(queue') : queue'[i] = queue[i + 1]
  BY HeadTailProperties DEF AtHead, Dequeue
<1>2. NoDuplicates'
  BY <1>1 DEF NoDuplicates
<1>3. \A i \in 1..Len(queue) : queue[i] # t => i - 1 \in 1..Len(queue') /\ queue'[i - 1] = queue[i]
  BY <1>1
<1>4. \A s : In(s) /\ s # t => In(s)'
  BY <1>3 DEF In
<1>5. \A s : In(s)' => In(s) /\ s # t
  BY <1>1 DEF In, NoDuplicates
<1>6. \A r, s : r # t /\ Before(r, s) => Before(r, s)'
  <2> SUFFICES ASSUME NEW r, NEW s, r # t, Before(r, s) PROVE Before(r, s)'
    OBVIOUS
  <2>1. PICK i \in 1..Len(queue), j \in 1..Len(queue) : i < j /\ queue[i] = r /\ queue[j] = s
    BY DEF Before
  <2>2. i - 1 \in 1..Len(queue') /\ j - 1 \in 1..Len(queue') /\ queue'[i - 1] = r /\ queue'[j - 1] = s
    BY <1>1, <2>1
  <2> QED BY <2>1, <2>2 DEF Before
<1> QED BY <1>2, <1>4, <1>5, <1>6

LEMMA RequeueOrder ==
  ASSUME queue \in Seq(Tasks), NoDuplicates, NEW t \in Tasks, AtHead(t), Requeue(t)
  PROVE  /\ NoDuplicates'
         /\ \A s : In(s)' <=> In(s)
         /\ \A r, s : r # t /\ Before(r, s) => Before(r, s)'
         /\ \A s : s # t /\ In(s) => Before(s, t)'
<1>1. /\ Len(queue) \in Nat /\ Len(queue) > 0 /\ queue[1] = t
      /\ Tail(queue) \in Seq(Tasks)
      /\ Len(Tail(queue)) = Len(queue) - 1
      /\ \A i \in 1..Len(Tail(queue)) : Tail(queue)[i] = queue[i + 1]
  BY HeadTailProperties DEF AtHead
<1>2. /\ Len(queue') = Len(queue) /\ queue'[Len(queue)] = t
      /\ \A i \in 1..(Len(queue) - 1) : queue'[i] = queue[i + 1]
  <2>1. queue' = Append(Tail(queue), t)
    BY DEF Requeue
  <2> QED BY <1>1, <2>1, AppendProperties
<1>3. \A i \in 1..Len(queue) : queue[i] # t =>
         i - 1 \in 1..(Len(queue) - 1) /\ queue'[i - 1] = queue[i]
  BY <1>1, <1>2
<1>4. \A i \in 1..(Len(queue) - 1) : queue'[i] # t
  BY <1>1, <1>2 DEF NoDuplicates
<1>5. NoDuplicates'
  BY <1>1, <1>2, <1>4 DEF NoDuplicates
<1>6. \A s : In(s)' <=> In(s)
  <2>1. ASSUME NEW s, In(s) PROVE In(s)'
    BY <1>1, <1>2, <1>3, <2>1 DEF In
  <2>2. ASSUME NEW s, In(s)' PROVE In(s)
    BY <1>1, <1>2, <2>2 DEF In
  <2> QED BY <2>1, <2>2
<1>7. \A r, s : r # t /\ Before(r, s) => Before(r, s)'
  <2> SUFFICES ASSUME NEW r, NEW s, r # t, Before(r, s) PROVE Before(r, s)'
    OBVIOUS
  <2>1. PICK i \in 1..Len(queue), j \in 1..Len(queue) : i < j /\ queue[i] = r /\ queue[j] = s
    BY DEF Before
  <2>2. i - 1 \in 1..Len(queue') /\ j - 1 \in 1..Len(queue') /\ queue'[i - 1] = r /\ queue'[j - 1] = s
    BY <1>1, <1>2, <2>1
  <2> QED BY <2>1, <2>2 DEF Before
<1>8. \A s : s # t /\ In(s) => Before(s, t)'
  <2> SUFFICES ASSUME NEW s, s # t, In(s) PROVE Before(s, t)'
    OBVIOUS
  <2>1. PICK i \in 1..Len(queue) : queue[i] = s
    BY DEF In
  <2>2. i - 1 \in 1..Len(queue') /\ Len(queue) \in 1..Len(queue') /\ i - 1 < Len(queue)
        /\ queue'[i - 1] = s
    BY <1>1, <1>2, <1>3, <2>1
  <2> QED BY <1>2, <2>2 DEF Before
<1> QED BY <1>5, <1>6, <1>7, <1>8

\* What a trip of a SELECT reads, for each kind of task.
LEMMA CursorHops ==
  ASSUME TypeOK, NEW t \in Tasks, CursorHop(t)
  PROVE  /\ AtHead(t) /\ Requeue(t) /\ hop[t] \in {0, 1}
         /\ hop'[t] = hop[t] + 1 /\ \A s \in Tasks : s # t => hop'[s] = hop[s]
         /\ \A s \in Tasks : s # t \/ hop[t] = 1 => seen'[s] = seen[s]
         /\ t \in Conns =>
              /\ pc[t] \in {"count", "off_select"} \cup ClaimSelects
              /\ hop[t] = 0 /\ pc[t] \in ClaimSelects /\ want[t] \in Codes =>
                   seen'[t][want[t]] = rows[want[t]]
              /\ hop[t] = 0 /\ pc[t] = "off_select" /\ code[t] \in Codes =>
                   seen'[t][code[t]] = rows[code[t]]
         /\ t = Sweep =>
              /\ spc \in {"active", "exp_select"}
              /\ hop[t] = 0 /\ spc = "active" => \A c \in Codes : seen'[t][c] = rows[c]
         /\ t = Visitor => vpc = "lookup"
         /\ UNCHANGED <<rows, disk, connections, secrets, closed, pc, want, code, until, now,
                        spc, sweepNow, todo, cur, vpc, visit, answer, crashes>>
<1> USE ConstantsAssumption DEF Tasks
<1>1. /\ AtHead(t) /\ Requeue(t) /\ Selecting(t) /\ hop[t] \in {0, 1}
      /\ hop' = [hop EXCEPT ![t] = hop[t] + 1]
      /\ hop[t] # 0 => seen' = seen
      /\ hop[t] = 0 => seen' = [seen EXCEPT ![t] =
                         [c \in Codes |-> IF Selected(t, c) THEN rows[c] ELSE NoRow]]
  BY DEF CursorHop, TypeOK
<1>2. UNCHANGED <<rows, disk, connections, secrets, closed, pc, want, code, until, now,
                  spc, sweepNow, todo, cur, vpc, visit, answer, crashes>>
  BY DEF CursorHop, registry, handler, sweep, visitor
<1>3. hop'[t] = hop[t] + 1 /\ \A s \in Tasks : s # t => hop'[s] = hop[s]
  BY <1>1 DEF TypeOK
<1>4. /\ \A s \in Tasks : s # t \/ hop[t] = 1 => seen'[s] = seen[s]
      /\ \A c \in Codes : hop[t] = 0 /\ Selected(t, c) => seen'[t][c] = rows[c]
  BY <1>1 DEF TypeOK
<1>5. t \in Conns =>
        /\ pc[t] \in {"count", "off_select"} \cup ClaimSelects
        /\ \A c \in Codes : pc[t] = "off_select" /\ code[t] = c => Selected(t, c)
        /\ \A c \in Codes : pc[t] \in ClaimSelects /\ want[t] = c => Selected(t, c)
  BY <1>1 DEF Selecting, Selected
<1>6. t = Sweep =>
        /\ spc \in {"active", "exp_select"}
        /\ \A c \in Codes : spc = "active" => Selected(t, c)
  BY <1>1 DEF Selecting, Selected
<1>7. t = Visitor => vpc = "lookup"
  BY <1>1 DEF Selecting
<1> QED BY <1>1, <1>2, <1>3, <1>4, <1>5, <1>6, <1>7

\* Places at which a handler waits for the worker.
DbPcs == (Claiming \ {"auth"}) \cup
         {"policy", "entries", "saved", "off_select", "off_update", "off_commit"}

\* A task is in the queue, once, exactly while it waits for the worker, and
\* only a SELECT is ever part of the way.
QueueInv ==
    /\ NoDuplicates
    /\ \A k \in Conns : In(k) <=> pc[k] \in DbPcs
    /\ In(Sweep) <=> spc \notin {"idle", "next"}
    /\ In(Visitor) <=> vpc = "lookup"
    /\ \A k \in Conns : hop[k] # 0 => pc[k] \in {"count", "off_select"} \cup ClaimSelects
    /\ hop[Sweep] # 0 => spc \in {"active", "exp_select"}
    /\ hop[Visitor] # 0 => vpc = "lookup"

\* What one trip of task t does to the queue.
LEMMA Trip ==
  ASSUME TypeOK, QueueInv, NEW t \in Tasks, AtHead(t)
  PROVE  /\ In(t) /\ \A s : ~Before(s, t)
         /\ Requeue(t) => /\ NoDuplicates'
                          /\ \A s : In(s)' <=> In(s)
                          /\ \A r, s : r # t /\ Before(r, s) => Before(r, s)'
                          /\ \A s : s # t /\ In(s) => Before(s, t)'
         /\ Dequeue => /\ NoDuplicates'
                       /\ \A s : In(s)' <=> In(s) /\ s # t
                       /\ \A r, s : r # t /\ Before(r, s) => Before(r, s)'
BY HeadFirst, RequeueOrder, DequeueOrder DEF TypeOK, QueueInv

LEMMA QueueStep == TypeOK /\ QueueInv /\ [Next]_vars => QueueInv'
<1> SUFFICES ASSUME TypeOK, QueueInv PROVE [Next]_vars => QueueInv'
  OBVIOUS
<1> USE ConstantsAssumption
<1> USE DEF QueueInv, registry, handler, worker, sweep, visitor, Tasks, DbPcs, Claiming, ClaimSelects
<1>0. \A t \in Tasks : Enqueue(t) /\ ~In(t) =>
        NoDuplicates' /\ \A s : In(s)' <=> In(s) \/ s = t
  BY EnqueueOrder DEF TypeOK
<1>q. queue' = queue => NoDuplicates' = NoDuplicates /\ \A s : In(s)' = In(s)
  BY DEF NoDuplicates, In
<1>1. ASSUME NEW t \in Tasks, CursorHop(t) PROVE QueueInv'
  BY <1>1, CursorHops, Trip
<1>2. ASSUME NEW k \in Conns, CapCheck(k) PROVE QueueInv'
  BY <1>2, Trip DEF CapCheck, Fetched, TypeOK
<1>3. ASSUME NEW k \in Conns, TryReclaim(k) PROVE QueueInv'
  <2>1. \E p \in {"update", "ip", "has"} : pc' = [pc EXCEPT ![k] = p]
    BY <1>3 DEF TryReclaim
  <2>2. AtHead(k) /\ Requeue(k) /\ hop' = [hop EXCEPT ![k] = 0] /\ UNCHANGED <<spc, vpc>>
    BY <1>3 DEF TryReclaim, Fetched
  <2>3. In(k)
    BY <2>2, Trip
  <2> QED BY <2>1, <2>2, <2>3, Trip DEF TypeOK
<1>4. ASSUME NEW k \in Conns, ReclaimUpdate(k) PROVE QueueInv'
  BY <1>4, Trip DEF ReclaimUpdate, Executed, TypeOK
<1>5. ASSUME NEW k \in Conns, HasMount(k) PROVE QueueInv'
  BY <1>5, Trip DEF HasMount, Fetched, PrepareRegister, TypeOK
<1>6. ASSUME NEW k \in Conns, RegisterInsert(k) PROVE QueueInv'
  BY <1>6, Trip DEF RegisterInsert, Executed, TypeOK
<1>7. ASSUME NEW k \in Conns, Attach(k) PROVE QueueInv'
  BY <1>7, Trip DEF Attach, Executed, TypeOK
<1>8. ASSUME NEW k \in Conns, PolicyUpdate(k) PROVE QueueInv'
  <2>1. AtHead(k) /\ UNCHANGED <<hop, spc, vpc>>
    BY <1>8 DEF PolicyUpdate, Executed
  <2>2. \/ pc' = [pc EXCEPT ![k] = "reply"] /\ Dequeue
        \/ pc' = [pc EXCEPT ![k] = "entries"] /\ Requeue(k)
    BY <1>8 DEF PolicyUpdate
  <2>3. pc[k] = "policy" /\ In(k)
    BY <1>8, <2>1, Trip DEF PolicyUpdate
  <2>4. CASE pc' = [pc EXCEPT ![k] = "reply"] /\ Dequeue
    BY <2>1, <2>3, <2>4, Trip DEF TypeOK
  <2>5. CASE pc' = [pc EXCEPT ![k] = "entries"] /\ Requeue(k)
    BY <2>1, <2>3, <2>5, Trip DEF TypeOK
  <2> QED BY <2>2, <2>4, <2>5
<1>9. ASSUME NEW k \in Conns, PolicyEntries(k) PROVE QueueInv'
  BY <1>9, Trip DEF PolicyEntries, Executed, TypeOK
<1>10. ASSUME NEW k \in Conns, PolicyCommit(k) PROVE QueueInv'
  BY <1>10, Trip DEF PolicyCommit, Executed, TypeOK
<1>11. ASSUME NEW k \in Conns, OfflineSelected(k) PROVE QueueInv'
  <2>1. AtHead(k) /\ hop' = [hop EXCEPT ![k] = 0] /\ UNCHANGED <<spc, vpc>>
    BY <1>11 DEF OfflineSelected, Fetched
  <2>2. \/ pc' = [pc EXCEPT ![k] = "gone"] /\ Dequeue
        \/ pc' = [pc EXCEPT ![k] = "off_update"] /\ Requeue(k)
    BY <1>11 DEF OfflineSelected, Leave
  <2>3. pc[k] = "off_select" /\ In(k)
    BY <1>11, <2>1, Trip DEF OfflineSelected
  <2>4. CASE pc' = [pc EXCEPT ![k] = "gone"] /\ Dequeue
    BY <2>1, <2>3, <2>4, Trip DEF TypeOK
  <2>5. CASE pc' = [pc EXCEPT ![k] = "off_update"] /\ Requeue(k)
    BY <2>1, <2>3, <2>5, Trip DEF TypeOK
  <2> QED BY <2>2, <2>4, <2>5
<1>12. ASSUME NEW k \in Conns, OfflineUpdate(k) PROVE QueueInv'
  BY <1>12, Trip DEF OfflineUpdate, Executed, TypeOK
<1>13. ASSUME NEW k \in Conns, OfflineCommit(k) PROVE QueueInv'
  BY <1>13, Trip DEF OfflineCommit, Executed, Leave, TypeOK
<1>14. ASSUME NEW k \in Conns, Authenticated(k) PROVE QueueInv'
  <2>1. PICK p \in {"owner", "ip", "insert"} : pc' = [pc EXCEPT ![k] = p]
    BY <1>14 DEF Authenticated, PrepareRegister
  <2>2. pc[k] = "auth" /\ Enqueue(k) /\ UNCHANGED <<hop, spc, vpc>>
    BY <1>14 DEF Authenticated
  <2>3. ~In(k)
    BY <2>2
  <2>4. NoDuplicates' /\ \A s : In(s)' <=> In(s) \/ s = k
    BY <2>2, <2>3, <1>0
  <2> QED BY <2>1, <2>2, <2>4 DEF TypeOK
<1>15. ASSUME NEW k \in Conns, AuthRejected(k) PROVE QueueInv'
  BY <1>15, <1>q DEF AuthRejected, TypeOK
<1>16. ASSUME NEW k \in Conns, Reply(k) PROVE QueueInv'
  BY <1>16, <1>q DEF Reply, TypeOK
<1>17. ASSUME NEW k \in Conns, ReplyFails(k) PROVE QueueInv'
  BY <1>17, <1>q DEF ReplyFails, TypeOK
<1>18. ASSUME NEW k \in Conns, HeartbeatTimeout(k) PROVE QueueInv'
  BY <1>18, <1>q DEF HeartbeatTimeout
<1>19. ASSUME NEW k \in Conns, Disconnect(k) PROVE QueueInv'
  BY <1>19, <1>0 DEF Disconnect, TypeOK
<1>37. ASSUME NEW k \in Conns, DisconnectFails(k) PROVE QueueInv'
  BY <1>37, <1>q DEF DisconnectFails, TypeOK
<1>20. ASSUME NEW k \in Conns, NEW c \in Codes \cup {NoCode}, Dial(k, c) PROVE QueueInv'
  <2>1. pc[k] = "idle" /\ UNCHANGED <<hop, spc, vpc>>
    BY <1>20 DEF Dial
  <2>2. \/ pc' = [pc EXCEPT ![k] = "count"] /\ Enqueue(k)
        \/ pc' = [pc EXCEPT ![k] = "gone"] /\ queue' = queue
    BY <1>20 DEF Dial
  <2>3. CASE pc' = [pc EXCEPT ![k] = "count"] /\ Enqueue(k)
    BY <2>1, <2>3, <1>0 DEF TypeOK
  <2>4. CASE pc' = [pc EXCEPT ![k] = "gone"] /\ queue' = queue
    BY <2>1, <2>4, <1>q DEF TypeOK
  <2> QED BY <2>2, <2>3, <2>4
<1>21. ASSUME NEW c \in Visited, Lookup(c) PROVE QueueInv'
  BY <1>21, <1>0 DEF Lookup, TypeOK
<1>22. CASE SweepSnapshot
  BY <1>22, Trip DEF SweepSnapshot, Fetched, TypeOK
<1>23. CASE ExpireSelected
  BY <1>23, Trip DEF ExpireSelected, Fetched, SweepResume, TypeOK
<1>24. CASE ExpireUpdate
  BY <1>24, Trip DEF ExpireUpdate, Executed, TypeOK
<1>25. CASE ExpireCommit
  BY <1>25, Trip DEF ExpireCommit, Executed, SweepResume, TypeOK
<1>26. CASE WarnUpdate
  BY <1>26, Trip DEF WarnUpdate, Executed, SweepResume, TypeOK
<1>27. CASE WarnCommit
  BY <1>27, Trip DEF WarnCommit, Executed, SweepResume, TypeOK
<1>28. CASE RetentionDelete
  BY <1>28, Trip DEF RetentionDelete, Executed, TypeOK
<1>29. CASE RetentionCommit
  BY <1>29, Trip DEF RetentionCommit, Executed, TypeOK
<1>30. CASE SweepStart
  BY <1>30, <1>0 DEF SweepStart, TypeOK
<1>31. CASE SweepNext
  BY <1>31, <1>0, <1>q DEF SweepNext, TypeOK
<1>32. CASE LookupDone
  BY <1>32, Trip DEF LookupDone, Fetched, TypeOK
<1>33. CASE VisitorLeaves
  BY <1>33, <1>q DEF VisitorLeaves
<1>34. CASE Tick
  BY <1>34, <1>q DEF Tick
<1>35. CASE CrashAndRestart
  <2>1. queue' = <<>>
    BY <1>35 DEF CrashAndRestart
  <2>2. NoDuplicates' /\ \A s : ~In(s)'
    BY <2>1 DEF NoDuplicates, In
  <2> QED BY <1>35, <2>2 DEF CrashAndRestart
<1>36. CASE UNCHANGED vars
  BY <1>36, <1>q DEF vars
<1> QED
  BY <1>1, <1>2, <1>3, <1>4, <1>5, <1>6, <1>7, <1>8, <1>9, <1>10, <1>11, <1>12,
     <1>13, <1>14, <1>15, <1>16, <1>17, <1>18, <1>19, <1>20, <1>21, <1>22, <1>23, <1>24,
     <1>25, <1>26, <1>27, <1>28, <1>29, <1>30, <1>31, <1>32, <1>33, <1>34, <1>35, <1>36, <1>37
  DEF Next, WorkerStep, HandlerDb, SweepDb

(***************************************************************************)
(* The inductive invariant.  A handler holds its code from the moment it is  *)
(* sure to get it until it has left.                                         *)
(***************************************************************************)
Opening == {"reclaimed", "registered"}
Current == Attached \ {"off_commit"}
Holding == {"update", "insert"} \cup Opening \cup Attached

\* No two handlers on their way to a mount are after the same code.
ClaimInv ==
    /\ \A k \in Conns :
         /\ pc[k] = "idle" => want[k] = NoCode
         /\ pc[k] \in {"idle", "count", "auth"} \cup ClaimSelects => code[k] = NoCode
         /\ pc[k] \in ClaimSelects => want[k] \in Codes
         /\ pc[k] \in Holding => code[k] \in Codes
    /\ \A j, k \in Conns : j # k /\ pc[j] \in Claiming /\ pc[k] \in Claiming =>
         \A c \in Codes : c \in {want[j], code[j]} => c \notin {want[k], code[k]}

\* A code has one holder.
HolderInv ==
    \A j, k \in Conns : pc[j] \in Holding /\ pc[k] \in Holding /\ code[j] = code[k] => j = k

\* What the holder's place says of the row.
StatusInv ==
    \A k \in Conns :
        /\ pc[k] = "insert" => rows[code[k]].status = "absent"
        /\ pc[k] = "update" => rows[code[k]].status = "offline"
        /\ pc[k] \in Opening => rows[code[k]].status = "online"
        /\ pc[k] \in Current => rows[code[k]].status \in {"online", "expired"}
        /\ pc[k] = "off_commit" => rows[code[k]].status \in {"offline", "expired"}

\* An ONLINE row has a holder, or one that failed, and its tunnel is in the map
\* once it was put there.
Tied == Current \cup {"failed"}
OnlineInv ==
    \A c \in Codes \ {Dropbox} : rows[c].status = "online" =>
        \E k \in Conns : /\ code[k] = c
                         /\ pc[k] \in Opening \/ (pc[k] \in Tied /\ connections[c] = k)

\* A mapped tunnel is the holder's; its row is ONLINE unless the holder or the
\* sweep is about to take it out of the map.
MapInv ==
    \A c \in Codes : connections[c] # NoConn =>
        LET k == connections[c] IN
        /\ code[k] = c /\ pc[k] \in Attached \cup {"failed"}
        /\ \/ rows[c].status = "online" \/ pc[k] = "off_commit"
           \/ spc = "exp_commit" /\ cur.code = c

\* A tunnel left in the map by a handler whose close() raised is closed, and
\* nobody holds its code.
Stranded(c) == connections[c] # NoConn /\ pc[connections[c]] = "failed"
StrandInv ==
    \A c \in Codes : Stranded(c) =>
        closed[connections[c]] /\ \A j \in Conns : pc[j] \in Holding => code[j] # c

\* A secret is that of the mapped tunnel, and stored when the policy is.
Filing == {"policy", "entries", "saved"}
SecretInv ==
    /\ \A k \in Conns : pc[k] \in Filing => connections[code[k]] = k
    /\ \A c \in Codes : secrets[c] # NoConn =>
         connections[c] = secrets[c] /\ pc[secrets[c]] \notin Filing

\* Only the sweep closes a socket before it serves, and not before its secret
\* is stored: nothing of a failed registration stays behind.
ClosedInv ==
    \A k \in Conns :
        /\ pc[k] \in {"idle", "policy", "entries", "saved"} \cup Claiming => ~closed[k]
        /\ pc[k] = "reply" /\ closed[k] =>
             /\ connections[code[k]] = NoConn /\ secrets[code[k]] = NoConn
             /\ rows[code[k]].status = "expired"

\* No row past its expiry is ONLINE or becomes ONLINE, and the row of a holder
\* that was expired is not yet old enough to be deleted.
TimeInv ==
    /\ \A c \in Codes : rows[c].status = "online" => rows[c].expires = Never \/ rows[c].expires >= now
    /\ \A k \in Conns : pc[k] = "update" =>
           rows[code[k]].expires = Never \/ rows[code[k]].expires >= now
    /\ \A k \in Conns : pc[k] = "insert" => until[k] >= now
    /\ \A k \in Conns : pc[k] \in Attached /\ rows[code[k]].status = "expired" =>
           \/ rows[code[k]].expires >= now
           \/ /\ pc[k] = "off_commit" /\ spc = "exp_commit" /\ cur.code = code[k]
              /\ Before(k, Sweep)

\* What a pending SELECT has read is still true, or whoever is about to change
\* it is served before the reader resumes: an agent that found its mount
\* OFFLINE, one that found its code free, one that looks for its own row.
OfflineRead(k) ==
    LET r == seen[k][want[k]] IN
    pc[k] \in {"owner", "ip"} /\ r.status = "offline" /\ ~Past(r, now) =>
        /\ rows[want[k]].status = "offline" /\ rows[want[k]].expires = r.expires
        /\ \A j \in Conns : pc[j] \in Holding /\ code[j] = want[k] =>
              pc[j] = "off_commit" /\ Before(j, k)
FreeRead(k) ==
    pc[k] = "has" /\ seen[k][want[k]].status = "absent" =>
        /\ rows[want[k]].status = "absent"
        /\ \A j \in Conns : pc[j] \in Holding => code[j] # want[k]
        /\ disk[want[k]].status # "absent" => Before(Sweep, k)
OwnRead(k) ==
    LET r == seen[k][code[k]] IN
    pc[k] = "off_select" =>
        /\ r.status # "absent"
        /\ r.status # "online" =>
             /\ rows[code[k]].status # "online"
             /\ \/ connections[code[k]] = NoConn
                \/ spc = "exp_commit" /\ cur.code = code[k] /\ Before(Sweep, k)

ReadInv == \A k \in Conns : hop[k] # 0 => OfflineRead(k) /\ FreeRead(k) /\ OwnRead(k)

\* A mount the sweep is going to expire is past its expiry, so nobody can be
\* about to reclaim or to insert it.
ExpPcs == {"exp_select", "exp_update", "exp_commit"}
InSnapshot(c) == spc = "active" /\ hop[Sweep] # 0 /\ Expires(seen[Sweep][c])
InTodo(c) == \E i \in todo : i.act = "expire" /\ i.code = c
InHand(c) == spc \in ExpPcs /\ cur.code = c
Doomed(c) == InSnapshot(c) \/ InTodo(c) \/ InHand(c)

SweepInv ==
    /\ sweepNow <= now
    /\ spc \in {"idle", "active", "retain", "ret_commit"} => todo = {}
    /\ \A c \in Codes : Doomed(c) =>
         /\ rows[c].status # "absent" /\ Past(rows[c], sweepNow)
         /\ \A k \in Conns : code[k] = c => pc[k] \notin {"update", "insert"}
    /\ spc = "exp_commit" => rows[cur.code].status \in {"offline", "expired"}
    /\ \A i \in todo \cup {cur} : i.conn # NoConn =>
         \/ pc[i.conn] = "gone"
         \/ code[i.conn] = i.code /\ pc[i.conn] \in Attached \cup {"failed"}

\* From the sweep's SELECT to its commit are eight trips; the holder it found
\* in the table needs at most four to store its secret.
OrderInv ==
    \A c \in Codes : \A k \in Conns : code[k] = c =>
        /\ InSnapshot(c) =>
             /\ hop[Sweep] = 1 /\ pc[k] \in Opening => Before(k, Sweep)
             /\ hop[Sweep] = 2 => pc[k] \notin Opening
             /\ hop[Sweep] = 2 /\ pc[k] = "policy" => Before(k, Sweep)
        /\ InTodo(c) \/ InHand(c) => pc[k] \notin Opening \cup {"policy"}
        /\ InHand(c) =>
             /\ hop[Sweep] = 1 /\ pc[k] = "entries" => Before(k, Sweep)
             /\ hop[Sweep] = 2 => pc[k] # "entries"
             /\ hop[Sweep] = 2 /\ pc[k] = "saved" => Before(k, Sweep)
             /\ spc # "exp_select" => pc[k] \notin {"entries", "saved"}

\* The committed table lags behind only where that does no harm.
DiskInv ==
    /\ \A c \in Codes : rows[c].status # "absent" /\ disk[c].status # "absent" =>
         rows[c].expires = disk[c].expires /\ rows[c].ip = disk[c].ip
    /\ \A c \in Codes : rows[c].status = "absent" /\ disk[c].status # "absent" =>
         /\ spc = "ret_commit"
         /\ \A k \in Conns : code[k] = c => pc[k] # "insert"
    /\ \A k \in Conns :
         /\ pc[k] \in Current =>
              /\ disk[code[k]].status # "absent"
              /\ rows[code[k]].status = "online" => disk[code[k]].status = "online"
         /\ pc[k] \in Current \ {"policy"} => rows[code[k]].policy = k
         /\ pc[k] \in Current \ {"policy", "entries", "saved"} => disk[code[k]].policy = k

Inv ==
    /\ TypeOK /\ DropboxInv /\ QueueInv /\ ClaimInv /\ HolderInv /\ StatusInv /\ OnlineInv
    /\ MapInv /\ StrandInv /\ SecretInv /\ ClosedInv /\ TimeInv /\ ReadInv /\ SweepInv /\ OrderInv /\ DiskInv

(***************************************************************************)
(* The steps of a handler, point by point.                                   *)
(***************************************************************************)
Elsewhere(k) ==
    \A j \in Conns : j # k =>
        pc'[j] = pc[j] /\ want'[j] = want[j] /\ code'[j] = code[j] /\ until'[j] = until[j]

\* The queue after a step of task t: nobody else's turn has changed.
KeepsTurns(t) == \A r, s : r # t /\ Before(r, s) => Before(r, s)'
\* ... nor what anybody else has read.
KeepsReads(t) == \A s \in Tasks : s # t => hop'[s] = hop[s] /\ seen'[s] = seen[s]

Outside == {"idle", "count", "auth", "gone"} \cup ClaimSelects

\* The handler asks, waits or is refused: it holds nothing before and after.
Seek(k) ==
    \/ \E c \in Codes \cup {NoCode} : Dial(k, c)
    \/ CapCheck(k) \/ AuthRejected(k)
    \/ Authenticated(k) /\ want[k] # NoCode
    \/ TryReclaim(k) /\ ~Reclaimable(k, seen[k][want[k]])

\* The handler settles on a code.
Take(k, c) ==
    \/ TryReclaim(k) /\ Reclaimable(k, seen[k][want[k]]) /\ c = want[k]
    \/ HasMount(k) /\ PrepareRegister(k, c) /\ (Unused(c) \/ (c = want[k] /\ seen[k][c].status = "absent"))
    \/ Authenticated(k) /\ want[k] = NoCode /\ PrepareRegister(k, c) /\ Unused(c)

LEMMA Turns ==
  ASSUME TypeOK, QueueInv, NEW t \in Tasks
  PROVE  /\ AtHead(t) /\ (Requeue(t) \/ Dequeue) => KeepsTurns(t)
         /\ ~In(t) /\ Enqueue(t) => KeepsTurns(t)
         /\ queue' = queue => KeepsTurns(t)
<1>1. AtHead(t) /\ (Requeue(t) \/ Dequeue) => KeepsTurns(t)
  BY Trip DEF KeepsTurns
<1>2. ~In(t) /\ Enqueue(t) => KeepsTurns(t)
  BY EnqueueOrder DEF KeepsTurns, TypeOK, QueueInv
<1>3. queue' = queue => KeepsTurns(t)
  BY DEF KeepsTurns, Before
<1> QED BY <1>1, <1>2, <1>3

\* What such a step does.
Sought(k) ==
    /\ Elsewhere(k) /\ KeepsTurns(k) /\ KeepsReads(k)
    /\ pc[k] \in Outside \ {"gone", "has"} /\ pc'[k] \in Outside \ {"idle"}
    /\ code[k] = NoCode /\ code'[k] = NoCode /\ hop'[k] = 0
    /\ want'[k] = want[k] \/ pc[k] = "idle" \/ want'[k] = NoCode
    /\ pc'[k] \in ClaimSelects => want'[k] = want[k] /\ want[k] \in Codes
    /\ UNCHANGED <<rows, disk, connections, secrets, closed, until, now,
                   spc, sweepNow, todo, cur, vpc, visit, answer, crashes>>

LEMMA SeekStep ==
  ASSUME TypeOK, QueueInv, ClaimInv, NEW k \in Conns, Seek(k)
  PROVE  Sought(k)
<1> USE ConstantsAssumption
<1> USE DEF registry, handler, worker, sweep, visitor, Elsewhere, KeepsReads, Outside, ClaimSelects
<1>0. pc \in [Conns -> HandlerPcs] /\ hop \in [Tasks -> 0..2] /\ seen \in [Tasks -> [Codes -> Row]]
      /\ want \in [Conns -> Codes \cup {NoCode}] /\ code \in [Conns -> Codes \cup {NoCode}]
      /\ until \in [Conns -> Int] /\ k \in Tasks
  BY DEF TypeOK, Tasks
<1>1. ASSUME NEW c \in Codes \cup {NoCode}, Dial(k, c) PROVE Sought(k)
  <2>1. /\ pc[k] = "idle" /\ code[k] = NoCode /\ hop[k] = 0 /\ ~In(k)
        /\ UNCHANGED <<hop, seen, code>>
    BY <1>0, <1>1 DEF Dial, ClaimInv, QueueInv, DbPcs, Claiming
  <2>2. KeepsTurns(k)
    BY <1>0, <1>1, <2>1, Turns DEF Dial
  <2>3. \/ pc' = [pc EXCEPT ![k] = "count"] /\ want' = [want EXCEPT ![k] = c]
        \/ pc' = [pc EXCEPT ![k] = "gone"] /\ want' = want
    BY <1>1 DEF Dial
  <2> QED BY <1>0, <1>1, <2>1, <2>2, <2>3 DEF Sought, Dial
<1>2. ASSUME CapCheck(k) PROVE Sought(k)
  <2>1. pc[k] = "count" /\ code[k] = NoCode /\ AtHead(k) /\ Dequeue
    BY <1>2 DEF CapCheck, Fetched, ClaimInv
  <2>2. KeepsTurns(k)
    BY <1>0, <2>1, Turns
  <2>3. \/ pc' = [pc EXCEPT ![k] = "gone"] /\ want' = [want EXCEPT ![k] = NoCode]
        \/ pc' = [pc EXCEPT ![k] = "auth"] /\ want' = want
    BY <1>2 DEF CapCheck
  <2> QED BY <1>0, <1>2, <2>1, <2>2, <2>3 DEF Sought, CapCheck, Fetched
<1>3. ASSUME AuthRejected(k) PROVE Sought(k)
  <2>1. pc[k] = "auth" /\ code[k] = NoCode /\ hop[k] = 0 /\ queue' = queue
    BY <1>0, <1>3 DEF AuthRejected, ClaimInv, QueueInv
  <2> QED BY <1>0, <1>3, <2>1, Turns DEF Sought, AuthRejected
<1>4. ASSUME Authenticated(k), want[k] # NoCode PROVE Sought(k)
  <2>1. pc[k] = "auth" /\ code[k] = NoCode /\ hop[k] = 0 /\ ~In(k) /\ Enqueue(k) /\ want[k] \in Codes
    BY <1>0, <1>4 DEF Authenticated, ClaimInv, QueueInv, DbPcs
  <2>2. KeepsTurns(k)
    BY <1>0, <2>1, Turns
  <2>3. pc' = [pc EXCEPT ![k] = "owner"] \/ pc' = [pc EXCEPT ![k] = "ip"]
    BY <1>4 DEF Authenticated
  <2> QED BY <1>0, <1>4, <2>1, <2>2, <2>3 DEF Sought, Authenticated
<1>5. ASSUME TryReclaim(k), ~Reclaimable(k, seen[k][want[k]]) PROVE Sought(k)
  <2>1. /\ pc[k] \in {"owner", "ip"} /\ code[k] = NoCode /\ AtHead(k) /\ Requeue(k)
        /\ want[k] \in Codes
    BY <1>5 DEF TryReclaim, Fetched, ClaimInv
  <2>2. KeepsTurns(k)
    BY <1>0, <2>1, Turns
  <2>3. pc' = [pc EXCEPT ![k] = "ip"] \/ pc' = [pc EXCEPT ![k] = "has"]
    BY <1>5 DEF TryReclaim
  <2> QED BY <1>0, <1>5, <2>1, <2>2, <2>3 DEF Sought, TryReclaim, Fetched
<1> QED BY <1>1, <1>2, <1>3, <1>4, <1>5 DEF Seek

\* The code it settles on is free: nobody holds it or is after it, and the row
\* is as the SELECT found it.
Taken(k, c) ==
    /\ Elsewhere(k) /\ KeepsTurns(k) /\ KeepsReads(k)
    /\ pc[k] \in {"owner", "ip", "has", "auth"} /\ pc'[k] \in {"update", "insert"}
    /\ code'[k] = c /\ want'[k] = want[k] /\ hop'[k] = 0 /\ c # Dropbox
    /\ \A j \in Conns : pc[j] \in Holding => code[j] # c
    /\ \A j \in Conns : j # k /\ pc[j] \in Claiming => c \notin {want[j], code[j]}
    /\ pc'[k] = "update" =>
         rows[c].status = "offline" /\ ~Past(rows[c], now) /\ until' = until
    /\ pc'[k] = "insert" =>
         rows[c].status = "absent" /\ disk[c].status = "absent" /\ until'[k] >= now
    /\ UNCHANGED <<rows, disk, connections, secrets, closed, now,
                   spc, sweepNow, todo, cur, vpc, visit, answer, crashes>>

LEMMA TakeStep ==
  ASSUME Inv, NEW k \in Conns, NEW c \in Codes, Take(k, c)
  PROVE  Taken(k, c)
<1> USE ConstantsAssumption
<1> USE DEF registry, handler, worker, sweep, visitor, Elsewhere, KeepsReads
<1>0. pc \in [Conns -> HandlerPcs] /\ hop \in [Tasks -> 0..2] /\ seen \in [Tasks -> [Codes -> Row]]
      /\ want \in [Conns -> Codes \cup {NoCode}] /\ code \in [Conns -> Codes \cup {NoCode}]
      /\ until \in [Conns -> Int] /\ k \in Tasks /\ now \in Nat
      /\ rows \in [Codes -> Row]
      /\ TypeOK /\ QueueInv /\ ClaimInv /\ ReadInv /\ DropboxInv
  BY DEF Inv, TypeOK, Tasks
<1>1. ASSUME TryReclaim(k), Reclaimable(k, seen[k][want[k]]), c = want[k] PROVE Taken(k, c)
  <2>1. /\ pc[k] \in {"owner", "ip"} /\ AtHead(k) /\ Requeue(k) /\ hop[k] = 2
        /\ pc' = [pc EXCEPT ![k] = "update"] /\ code' = [code EXCEPT ![k] = c]
        /\ hop' = [hop EXCEPT ![k] = 0] /\ seen' = [seen EXCEPT ![k] = EmptyTable]
    BY <1>1 DEF TryReclaim, Fetched
  <2>2. /\ rows[c].status = "offline" /\ rows[c].expires = seen[k][c].expires
        /\ \A j \in Conns : pc[j] \in Holding /\ code[j] = c => Before(j, k)
        /\ ~Past(seen[k][c], now)
    BY <1>0, <1>1, <2>1 DEF ReadInv, OfflineRead, Reclaimable
  <2>3. \A j \in Conns : pc[j] \in Holding => code[j] # c
    BY <1>0, <2>1, <2>2, Trip
  <2>4. \A j \in Conns : j # k /\ pc[j] \in Claiming => c \notin {want[j], code[j]}
    BY <1>0, <1>1, <2>1 DEF ClaimInv, Claiming, ClaimSelects
  <2>5. KeepsTurns(k)
    BY <1>0, <2>1, Turns
  <2>6. c # Dropbox
    BY <1>0, <1>1 DEF DropboxInv
  <2>7. ~Past(rows[c], now)
    BY <2>2 DEF Past
  <2> QED BY <1>0, <1>1, <2>1, <2>2, <2>3, <2>4, <2>5, <2>6, <2>7 DEF Taken, TryReclaim
<1>2. ASSUME PrepareRegister(k, c), KeepsTurns(k), KeepsReads(k), hop'[k] = 0,
             pc[k] \in {"has", "auth"}, want' = want,
             c # Dropbox, rows[c].status = "absent", disk[c].status = "absent",
             \A j \in Conns : pc[j] \in Holding => code[j] # c,
             \A j \in Conns : j # k /\ pc[j] \in Claiming => c \notin {want[j], code[j]},
             UNCHANGED <<rows, disk, connections, secrets, closed, now,
                         spc, sweepNow, todo, cur, vpc, visit, answer, crashes>>
      PROVE  Taken(k, c)
  <2>1. PICK ttl \in Ttls : until' = [until EXCEPT ![k] = now + ttl]
    BY <1>2 DEF PrepareRegister
  <2>2. now + ttl \in Int /\ now + ttl >= now
    BY <1>0
  <2>3. pc' = [pc EXCEPT ![k] = "insert"] /\ code' = [code EXCEPT ![k] = c]
    BY <1>2 DEF PrepareRegister
  <2> QED BY <1>0, <1>2, <2>1, <2>2, <2>3 DEF Taken
<1>3. ASSUME HasMount(k), PrepareRegister(k, c),
             Unused(c) \/ (c = want[k] /\ seen[k][c].status = "absent")
      PROVE  Taken(k, c)
  <2>1. /\ pc[k] = "has" /\ AtHead(k) /\ Requeue(k) /\ hop[k] = 2 /\ want' = want
        /\ hop' = [hop EXCEPT ![k] = 0] /\ seen' = [seen EXCEPT ![k] = EmptyTable]
    BY <1>3 DEF HasMount, Fetched
  <2>2. KeepsTurns(k)
    BY <1>0, <2>1, Turns
  <2>3. CASE Unused(c)
    BY <1>0, <1>2, <1>3, <2>1, <2>2, <2>3 DEF Unused, HasMount
  <2>4. CASE c = want[k] /\ seen[k][c].status = "absent"
    <3>1. /\ rows[c].status = "absent"
          /\ \A j \in Conns : pc[j] \in Holding => code[j] # c
          /\ disk[c].status # "absent" => Before(Sweep, k)
      BY <1>0, <2>1, <2>4 DEF ReadInv, FreeRead
    <3>2. disk[c].status = "absent"
      BY <1>0, <2>1, <3>1, Trip
    <3>3. \A j \in Conns : j # k /\ pc[j] \in Claiming => c \notin {want[j], code[j]}
      BY <1>0, <2>1, <2>4 DEF ClaimInv, Claiming, ClaimSelects
    <3>4. c # Dropbox
      BY <1>0, <2>4 DEF DropboxInv
    <3> QED BY <1>0, <1>2, <1>3, <2>1, <2>2, <3>1, <3>2, <3>3, <3>4 DEF HasMount
  <2> QED BY <1>3, <2>3, <2>4
<1>4. ASSUME Authenticated(k), PrepareRegister(k, c), Unused(c) PROVE Taken(k, c)
  <2>1. pc[k] = "auth" /\ hop[k] = 0 /\ ~In(k) /\ Enqueue(k) /\ want' = want /\ UNCHANGED <<hop, seen>>
    BY <1>0, <1>4 DEF Authenticated, QueueInv, DbPcs, Claiming, ClaimSelects
  <2>2. KeepsTurns(k)
    BY <1>0, <2>1, Turns
  <2> QED BY <1>0, <1>2, <1>4, <2>1, <2>2 DEF Unused, Authenticated
<1> QED BY <1>1, <1>3, <1>4 DEF Take

\* A holder goes from place p to place q.
Moved(k, p, q) ==
    /\ Elsewhere(k) /\ KeepsTurns(k) /\ KeepsReads(k)
    /\ pc[k] = p /\ pc'[k] = q /\ code'[k] = code[k] /\ want'[k] = want[k] /\ hop'[k] = 0
    /\ code[k] \in Codes /\ code[k] # Dropbox
    /\ UNCHANGED <<until, now, spc, sweepNow, todo, cur, vpc, visit, answer, crashes>>

\* The row of c and no other changes: only its status, only its policy, only
\* the flag that its agent was warned, or all of it.
OtherRows(c) == \A d \in Codes : d # c => rows'[d] = rows[d]
StatusSet(c, s) ==
    /\ rows'[c].status = s /\ rows'[c].ip = rows[c].ip /\ rows'[c].expires = rows[c].expires
    /\ rows'[c].policy = rows[c].policy /\ OtherRows(c)
PolicySet(c, k) ==
    /\ rows'[c].status = rows[c].status /\ rows'[c].ip = rows[c].ip
    /\ rows'[c].expires = rows[c].expires /\ rows'[c].policy = k /\ OtherRows(c)
WarnedSet(c) ==
    /\ rows'[c].status = rows[c].status /\ rows'[c].ip = rows[c].ip
    /\ rows'[c].expires = rows[c].expires /\ rows'[c].policy = rows[c].policy /\ OtherRows(c)
Inserted(c, k) ==
    /\ rows'[c].status = "online" /\ rows'[c].expires = until[k] /\ OtherRows(c)

LEMMA Updates ==
  ASSUME TypeOK, NEW c \in Codes
  PROVE  /\ \A s : rows' = [rows EXCEPT ![c].status = s] => StatusSet(c, s)
         /\ \A k : rows' = [rows EXCEPT ![c].policy = k] => PolicySet(c, k)
         /\ \A w : rows' = [rows EXCEPT ![c].warned = w] => WarnedSet(c)
<1>1. rows \in [Codes -> Row] /\ rows[c] \in Row
  BY DEF TypeOK
<1>2. ASSUME NEW s, rows' = [rows EXCEPT ![c].status = s] PROVE StatusSet(c, s)
  BY <1>1, <1>2 DEF StatusSet, OtherRows, Row
<1>3. ASSUME NEW k, rows' = [rows EXCEPT ![c].policy = k] PROVE PolicySet(c, k)
  BY <1>1, <1>3 DEF PolicySet, OtherRows, Row
<1>4. ASSUME NEW w, rows' = [rows EXCEPT ![c].warned = w] PROVE WarnedSet(c)
  BY <1>1, <1>4 DEF WarnedSet, OtherRows, Row
<1> QED BY <1>2, <1>3, <1>4

Closes(k) == closed'[k] = TRUE /\ \A j \in Conns : j # k => closed'[j] = closed[j]

LEMMA MoveStep ==
  ASSUME Inv, NEW k \in Conns
  PROVE  /\ ReclaimUpdate(k) =>
              /\ Moved(k, "update", "reclaimed")
              /\ StatusSet(code[k], "online")
              /\ UNCHANGED <<disk, connections, secrets, closed>>
         /\ RegisterInsert(k) =>
              /\ Moved(k, "insert", "registered")
              /\ Inserted(code[k], k)
              /\ UNCHANGED <<disk, connections, secrets, closed>>
         /\ Attach(k) =>
              /\ Moved(k, "reclaimed", "policy") \/ Moved(k, "registered", "policy")
              /\ disk' = rows /\ connections'[code[k]] = k
              /\ \A c \in Codes : c # code[k] => connections'[c] = connections[c]
              /\ UNCHANGED <<rows, secrets, closed>>
         /\ PolicyUpdate(k) =>
              /\ Moved(k, "policy", "entries")
              /\ PolicySet(code[k], k)
              /\ UNCHANGED <<disk, connections, secrets, closed>>
         /\ PolicyEntries(k) =>
              /\ Moved(k, "entries", "saved")
              /\ UNCHANGED <<rows, disk, connections, secrets, closed>>
         /\ PolicyCommit(k) =>
              /\ Moved(k, "saved", "reply")
              /\ disk' = rows /\ secrets'[code[k]] \in {k, secrets[code[k]]}
              /\ \A c \in Codes : c # code[k] => secrets'[c] = secrets[c]
              /\ UNCHANGED <<rows, connections, closed>>
<1> USE ConstantsAssumption
<1> USE DEF registry, handler, worker, sweep, visitor, Elsewhere, KeepsReads
<1>0. /\ pc \in [Conns -> HandlerPcs] /\ hop \in [Tasks -> 0..2]
      /\ want \in [Conns -> Codes \cup {NoCode}] /\ code \in [Conns -> Codes \cup {NoCode}]
      /\ until \in [Conns -> Int] /\ k \in Tasks
      /\ rows \in [Codes -> Row] /\ connections \in [Codes -> Conns \cup {NoConn}]
      /\ secrets \in [Codes -> Conns \cup {NoConn}]
      /\ TypeOK /\ QueueInv /\ StatusInv
  BY DEF Inv, TypeOK, Tasks
<1>1. pc[k] \in Holding => code[k] \in Codes /\ code[k] # Dropbox
  BY <1>0 DEF Inv, ClaimInv, DropboxInv
<1>2. hop[k] # 0 => pc[k] \in {"count", "off_select"} \cup ClaimSelects
  BY <1>0 DEF QueueInv
<1>3. ASSUME NEW p \in Holding \ {"off_select"}, NEW q, pc[k] = p, pc' = [pc EXCEPT ![k] = q],
             AtHead(k), Requeue(k) \/ Dequeue, UNCHANGED <<hop, seen>>,
             UNCHANGED <<want, code, until, now, spc, sweepNow, todo, cur, vpc, visit, answer, crashes>>
      PROVE  Moved(k, p, q)
  BY <1>0, <1>1, <1>2, <1>3, Turns DEF Moved, Holding, Opening, Attached, ClaimSelects
<1>4. {"update", "insert", "reclaimed", "registered", "policy", "entries", "saved"}
        \subseteq Holding \ {"off_select"}
  BY DEF Holding, Opening, Attached
<1>5. ASSUME ReclaimUpdate(k)
      PROVE  /\ Moved(k, "update", "reclaimed")
             /\ StatusSet(code[k], "online")
  <2>1. Moved(k, "update", "reclaimed")
    BY <1>3, <1>4, <1>5 DEF ReclaimUpdate, Executed
  <2>2. rows[code[k]].status = "offline"
    BY <1>0, <2>1 DEF StatusInv, Moved
  <2> QED BY <1>0, <1>5, <2>1, <2>2, Updates DEF Moved, ReclaimUpdate, SetStatus
<1>6. ASSUME RegisterInsert(k) PROVE Moved(k, "insert", "registered")
  BY <1>3, <1>4, <1>6 DEF RegisterInsert, Executed
<1>7. ASSUME Attach(k)
      PROVE  Moved(k, "reclaimed", "policy") \/ Moved(k, "registered", "policy")
  BY <1>3, <1>4, <1>7 DEF Attach, Executed
<1>8. ASSUME PolicyUpdate(k)
      PROVE  /\ Moved(k, "policy", "entries")
             /\ PolicySet(code[k], k)
             /\ UNCHANGED <<disk, connections, secrets, closed>>
  <2>1. pc[k] = "policy" /\ rows[code[k]].status # "absent"
    BY <1>0, <1>8 DEF PolicyUpdate, StatusInv, Current, Attached
  <2>2. Moved(k, "policy", "entries")
    BY <1>3, <1>4, <1>8, <2>1 DEF PolicyUpdate, Executed
  <2> QED BY <1>0, <1>8, <2>1, <2>2, Updates DEF Moved, PolicyUpdate, SetPolicy
<1>9. ASSUME PolicyEntries(k) PROVE Moved(k, "entries", "saved")
  BY <1>3, <1>4, <1>9 DEF PolicyEntries, Executed
<1>10. ASSUME PolicyCommit(k) PROVE Moved(k, "saved", "reply")
  BY <1>3, <1>4, <1>10 DEF PolicyCommit, Executed
<1>11. RegisterInsert(k) => Inserted(code[k], k)
  BY <1>0, <1>6 DEF RegisterInsert, Moved, Inserted, OtherRows
<1>12. Attach(k) => /\ connections'[code[k]] = k
                    /\ \A c \in Codes : c # code[k] => connections'[c] = connections[c]
  BY <1>0, <1>7 DEF Attach, Moved
<1>13. PolicyCommit(k) => /\ secrets'[code[k]] \in {k, secrets[code[k]]}
                          /\ \A c \in Codes : c # code[k] => secrets'[c] = secrets[c]
  BY <1>0, <1>10 DEF PolicyCommit, StoreSecret, Moved
<1> QED BY <1>5, <1>6, <1>7, <1>8, <1>9, <1>10, <1>11, <1>12, <1>13
        DEF ReclaimUpdate, RegisterInsert, Attach, PolicyEntries, PolicyCommit

\* mark_offline either sees the row ONLINE and goes on, or leaves.
OfflineStays(k) == OfflineSelected(k) /\ seen[k][code[k]].status = "online"
OfflineLeaves(k) == OfflineSelected(k) /\ seen[k][code[k]].status # "online"

\* A holder lets go.
Left(k, p) ==
    /\ Elsewhere(k) /\ KeepsTurns(k) /\ KeepsReads(k)
    /\ pc[k] = p /\ pc'[k] \in {"gone", "failed"} /\ hop'[k] = 0
    /\ pc'[k] = "failed" => code'[k] = code[k]
    /\ code[k] \in Codes /\ code[k] # Dropbox
    /\ UNCHANGED <<rows, closed, now, spc, sweepNow, todo, cur, vpc, visit, answer, crashes>>

LEMMA ServeStep ==
  ASSUME Inv, NEW k \in Conns
  PROVE  /\ Reply(k) =>
              /\ Moved(k, "reply", "serving") /\ ~closed[k]
              /\ UNCHANGED <<rows, disk, connections, secrets, closed>>
         /\ Disconnect(k) =>
              /\ Moved(k, "serving", "off_select") /\ Closes(k)
              /\ UNCHANGED <<rows, disk, connections, secrets>>
         /\ OfflineStays(k) =>
              /\ Moved(k, "off_select", "off_update")
              /\ UNCHANGED <<rows, disk, connections, secrets, closed>>
         /\ OfflineUpdate(k) =>
              /\ Moved(k, "off_update", "off_commit")
              /\ StatusSet(code[k], "offline")
              /\ UNCHANGED <<disk, connections, secrets, closed>>
         /\ OfflineLeaves(k) =>
              /\ Left(k, "off_select")
              /\ connections[code[k]] = NoConn /\ rows[code[k]].status # "online"
              /\ secrets'[code[k]] = NoConn
              /\ \A c \in Codes : c # code[k] => secrets'[c] = secrets[c]
              /\ UNCHANGED <<disk, connections>>
         /\ OfflineCommit(k) =>
              /\ Left(k, "off_commit") /\ disk' = rows
              /\ connections'[code[k]] = NoConn /\ secrets'[code[k]] = NoConn
              /\ \A c \in Codes : c # code[k] => secrets'[c] = secrets[c] /\ connections'[c] = connections[c]
         /\ Faults = {} /\ ReplyFails(k) =>
              /\ Left(k, "reply")
              /\ connections[code[k]] = NoConn /\ secrets[code[k]] = NoConn
              /\ rows[code[k]].status = "expired"
              /\ UNCHANGED <<disk, connections, secrets>>
<1> USE ConstantsAssumption
<1> USE DEF registry, handler, worker, sweep, visitor, Elsewhere, KeepsReads
<1>0. /\ pc \in [Conns -> HandlerPcs] /\ hop \in [Tasks -> 0..2] /\ seen \in [Tasks -> [Codes -> Row]]
      /\ want \in [Conns -> Codes \cup {NoCode}] /\ code \in [Conns -> Codes \cup {NoCode}]
      /\ until \in [Conns -> Int] /\ k \in Tasks /\ closed \in [Conns -> BOOLEAN]
      /\ rows \in [Codes -> Row] /\ connections \in [Codes -> Conns \cup {NoConn}]
      /\ secrets \in [Codes -> Conns \cup {NoConn}]
      /\ TypeOK /\ QueueInv /\ StatusInv
  BY DEF Inv, TypeOK, Tasks
<1>1. pc[k] \in Holding => code[k] \in Codes /\ code[k] # Dropbox
  BY <1>0 DEF Inv, ClaimInv, DropboxInv
<1>2. hop[k] # 0 => pc[k] \in {"count", "off_select"} \cup ClaimSelects
  BY <1>0 DEF QueueInv
<1>3. {"reply", "serving", "off_select", "off_update", "off_commit"} \subseteq Holding
  BY DEF Holding, Opening, Attached
<1>4. ASSUME Reply(k) PROVE Moved(k, "reply", "serving") /\ ~closed[k]
  <2>1. pc[k] = "reply" /\ hop[k] = 0 /\ queue' = queue
    BY <1>0, <1>2, <1>4 DEF Reply, ClaimSelects
  <2> QED BY <1>0, <1>1, <1>3, <1>4, <2>1, Turns DEF Moved, Reply
<1>5. ASSUME Disconnect(k) PROVE Moved(k, "serving", "off_select") /\ Closes(k)
  <2>1. pc[k] = "serving" /\ hop[k] = 0 /\ ~In(k) /\ Enqueue(k)
    BY <1>0, <1>2, <1>5 DEF Disconnect, ClaimSelects, Claiming, QueueInv, DbPcs
  <2> QED BY <1>0, <1>1, <1>3, <1>5, <2>1, Turns DEF Moved, Disconnect, Closes
<1>6. ASSUME OfflineStays(k) PROVE Moved(k, "off_select", "off_update")
  <2>1. /\ pc[k] = "off_select" /\ AtHead(k) /\ Requeue(k) /\ pc' = [pc EXCEPT ![k] = "off_update"]
        /\ hop' = [hop EXCEPT ![k] = 0] /\ seen' = [seen EXCEPT ![k] = EmptyTable]
        /\ UNCHANGED <<want, code, until>>
    BY <1>6 DEF OfflineStays, OfflineSelected, Fetched
  <2> QED BY <1>0, <1>1, <1>3, <1>6, <2>1, Turns DEF Moved, OfflineStays, OfflineSelected
<1>7. ASSUME OfflineUpdate(k)
      PROVE  /\ Moved(k, "off_update", "off_commit")
             /\ StatusSet(code[k], "offline")
  <2>1. pc[k] = "off_update" /\ hop[k] = 0 /\ AtHead(k) /\ Requeue(k)
    BY <1>0, <1>2, <1>7 DEF OfflineUpdate, Executed, ClaimSelects
  <2>2. Moved(k, "off_update", "off_commit")
    BY <1>0, <1>1, <1>3, <1>7, <2>1, Turns DEF Moved, OfflineUpdate, Executed
  <2>3. rows[code[k]].status # "absent"
    BY <1>0, <2>1 DEF StatusInv, Current, Attached
  <2> QED BY <1>0, <1>7, <2>2, <2>3, Updates DEF OfflineUpdate, SetStatus, Moved
<1>8. ASSUME OfflineLeaves(k)
      PROVE  /\ Left(k, "off_select")
             /\ connections[code[k]] = NoConn /\ rows[code[k]].status # "online"
             /\ secrets'[code[k]] = NoConn
             /\ \A c \in Codes : c # code[k] => secrets'[c] = secrets[c]
             /\ UNCHANGED <<disk, connections>>
  <2>1. /\ pc[k] = "off_select" /\ AtHead(k) /\ Dequeue /\ pc' = [pc EXCEPT ![k] = "gone"]
        /\ hop[k] = 2 /\ hop' = [hop EXCEPT ![k] = 0] /\ seen' = [seen EXCEPT ![k] = EmptyTable]
        /\ want' = [want EXCEPT ![k] = NoCode] /\ code' = [code EXCEPT ![k] = NoCode]
        /\ until' = [until EXCEPT ![k] = 0]
    BY <1>8 DEF OfflineLeaves, OfflineSelected, Fetched, Leave
  <2>2. Left(k, "off_select")
    BY <1>0, <1>1, <1>3, <1>8, <2>1, Turns DEF Left, OfflineLeaves, OfflineSelected
  <2>3. /\ seen[k][code[k]].status # "absent" /\ rows[code[k]].status # "online"
        /\ connections[code[k]] = NoConn \/ Before(Sweep, k)
    BY <1>8, <2>1 DEF OfflineLeaves, Inv, ReadInv, OwnRead
  <2>4. connections[code[k]] = NoConn
    BY <1>0, <2>1, <2>3, Trip
  <2> QED BY <1>0, <1>8, <2>2, <2>3, <2>4 DEF OfflineLeaves, OfflineSelected, Left
<1>9. ASSUME OfflineCommit(k)
      PROVE  /\ Left(k, "off_commit") /\ disk' = rows
             /\ connections'[code[k]] = NoConn /\ secrets'[code[k]] = NoConn
             /\ \A c \in Codes : c # code[k] => secrets'[c] = secrets[c] /\ connections'[c] = connections[c]
  <2>1. /\ pc[k] = "off_commit" /\ AtHead(k) /\ Dequeue /\ pc' = [pc EXCEPT ![k] = "gone"]
        /\ hop[k] = 0 /\ UNCHANGED <<hop, seen>>
        /\ want' = [want EXCEPT ![k] = NoCode] /\ code' = [code EXCEPT ![k] = NoCode]
        /\ until' = [until EXCEPT ![k] = 0]
    BY <1>0, <1>2, <1>9 DEF OfflineCommit, Executed, Leave, ClaimSelects
  <2>2. Left(k, "off_commit")
    BY <1>0, <1>1, <1>3, <1>9, <2>1, Turns DEF Left, OfflineCommit
  <2> QED BY <1>0, <1>9, <2>2 DEF OfflineCommit, Left
<1>10. ASSUME Faults = {}, ReplyFails(k)
       PROVE  /\ Left(k, "reply")
              /\ connections[code[k]] = NoConn /\ secrets[code[k]] = NoConn
              /\ rows[code[k]].status = "expired"
              /\ UNCHANGED <<disk, connections, secrets>>
  <2>1. pc[k] = "reply" /\ closed[k] /\ hop[k] = 0 /\ queue' = queue
    BY <1>0, <1>2, <1>10 DEF ReplyFails, ClaimSelects
  <2>2. Left(k, "reply")
    BY <1>0, <1>1, <1>3, <1>10, <2>1, Turns DEF Left, ReplyFails
  <2> QED BY <1>10, <2>1, <2>2 DEF Inv, ClosedInv, ReplyFails
<1> QED BY <1>4, <1>5, <1>6, <1>7, <1>8, <1>9, <1>10
        DEF Reply, Disconnect, OfflineStays, OfflineSelected, OfflineUpdate

\* A handler ends without mark_offline: only its place changes, and its tunnel
\* is closed.
Dropped(k) ==
    /\ Elsewhere(k) /\ KeepsTurns(k) /\ KeepsReads(k) /\ Closes(k)
    /\ pc[k] = "serving" /\ pc'[k] = "failed" /\ code'[k] = code[k] /\ hop'[k] = 0
    /\ code[k] \in Codes /\ code[k] # Dropbox
    /\ UNCHANGED <<rows, disk, connections, secrets, want, until, now,
                   spc, sweepNow, todo, cur, vpc, visit, answer, crashes>>

LEMMA FailStep ==
  ASSUME Inv, NEW k \in Conns, DisconnectFails(k)
  PROVE  Dropped(k)
<1> USE DEF registry, handler, worker, sweep, visitor, Elsewhere, KeepsReads
<1>0. /\ pc \in [Conns -> HandlerPcs] /\ hop \in [Tasks -> 0..2] /\ k \in Tasks
      /\ closed \in [Conns -> BOOLEAN] /\ TypeOK /\ QueueInv
  BY DEF Inv, TypeOK, Tasks
<1>1. pc[k] = "serving" /\ queue' = queue /\ UNCHANGED <<hop, seen>>
  BY DEF DisconnectFails
<1>2. code[k] \in Codes /\ code[k] # Dropbox
  BY <1>1 DEF Inv, ClaimInv, DropboxInv, Holding, Attached
<1>3. hop[k] = 0
  BY <1>0, <1>1 DEF QueueInv, ClaimSelects
<1> QED BY <1>0, <1>1, <1>2, <1>3, Turns DEF Dropped, DisconnectFails, Closes

(***************************************************************************)
(* The steps of the sweep, the visitor and the clock, point by point.        *)
(***************************************************************************)
Swept(p, q) ==
    /\ spc = p /\ spc' = q /\ KeepsTurns(Sweep) /\ KeepsReads(Sweep) /\ hop'[Sweep] = 0
    /\ UNCHANGED <<pc, want, code, until, now, vpc, visit, answer, crashes>>

Expiring(c) == [code |-> c, act |-> "expire", conn |-> connections[c]]
Warning(c) == [code |-> c, act |-> "warn", conn |-> connections[c]]

LEMMA SweepStep ==
  ASSUME Inv
  PROVE  /\ SweepStart =>
              /\ Swept("idle", "active") /\ sweepNow' = now
              /\ UNCHANGED <<rows, disk, connections, secrets, closed, todo, cur>>
         /\ SweepSnapshot =>
              /\ Swept("active", "next") /\ hop[Sweep] = 2 /\ \A s : ~Before(s, Sweep)
              /\ todo' = {Expiring(c) : c \in {d \in Codes : Expires(seen[Sweep][d])}}
                    \cup {Warning(c) : c \in {d \in Codes : Warns(seen[Sweep][d])}}
              /\ UNCHANGED <<rows, disk, connections, secrets, closed, sweepNow, cur>>
         /\ SweepNext =>
              /\ UNCHANGED <<rows, disk, connections, secrets, closed, sweepNow>>
              /\ \/ \E i \in todo :
                      /\ todo' = todo \ {i}
                      /\ \/ i.act = "expire" /\ Swept("next", "exp_select") /\ cur' = i
                         \/ Swept("next", "warn_update") /\ cur' = i
                         \/ Swept("next", "next") /\ cur' = cur
                 \/ todo = {} /\ Swept("next", "retain") /\ UNCHANGED <<todo, cur>>
<1> USE ConstantsAssumption
<1> USE DEF registry, handler, worker, sweep, visitor, KeepsReads
<1>0. /\ hop \in [Tasks -> 0..2] /\ seen \in [Tasks -> [Codes -> Row]] /\ Sweep \in Tasks
      /\ TypeOK /\ QueueInv
  BY DEF Inv, TypeOK, Tasks
<1>2. hop[Sweep] # 0 => spc \in {"active", "exp_select"}
  BY <1>0 DEF QueueInv
<1>3. ASSUME SweepStart PROVE Swept("idle", "active")
  <2>1. spc = "idle" /\ ~In(Sweep) /\ Enqueue(Sweep)
    BY <1>0, <1>3 DEF SweepStart, QueueInv
  <2> QED BY <1>0, <1>2, <1>3, <2>1, Turns DEF SweepStart, Swept
<1>4. ASSUME SweepSnapshot
      PROVE Swept("active", "next") /\ hop[Sweep] = 2 /\ \A s : ~Before(s, Sweep)
  <2>1. /\ spc = "active" /\ AtHead(Sweep) /\ Dequeue /\ hop[Sweep] = 2
        /\ hop' = [hop EXCEPT ![Sweep] = 0] /\ seen' = [seen EXCEPT ![Sweep] = EmptyTable]
    BY <1>4 DEF SweepSnapshot, Fetched
  <2> QED BY <1>0, <1>4, <2>1, Turns, Trip DEF SweepSnapshot, Swept
<1>5. ASSUME SweepNext
      PROVE  \/ \E i \in todo :
                  /\ todo' = todo \ {i}
                  /\ \/ i.act = "expire" /\ Swept("next", "exp_select") /\ cur' = i
                     \/ Swept("next", "warn_update") /\ cur' = i
                     \/ Swept("next", "next") /\ cur' = cur
             \/ todo = {} /\ Swept("next", "retain") /\ UNCHANGED <<todo, cur>>
  <2>1. spc = "next" /\ hop[Sweep] = 0 /\ ~In(Sweep) /\ UNCHANGED <<hop, seen>>
    BY <1>0, <1>2, <1>5 DEF SweepNext, QueueInv
  <2>2. Enqueue(Sweep) \/ queue' = queue => KeepsTurns(Sweep)
    BY <1>0, <2>1, Turns
  <2>3. \A q : spc' = q /\ KeepsTurns(Sweep) => Swept("next", q)
    BY <1>0, <1>5, <2>1 DEF SweepNext, Swept
  <2> QED BY <1>5, <2>2, <2>3 DEF SweepNext
<1> QED BY <1>3, <1>4, <1>5 DEF SweepStart, SweepSnapshot, SweepNext, Expiring, Warning

LEMMA ExpireStep ==
  ASSUME Inv
  PROVE  /\ ExpireSelected =>
              /\ \/ Swept("exp_select", "next") /\ cur' = NoItem
                 \/ Swept("exp_select", "exp_update") /\ cur' = cur
              /\ hop[Sweep] = 2 /\ \A s : ~Before(s, Sweep)
              /\ UNCHANGED <<rows, disk, connections, secrets, closed, sweepNow, todo>>
         /\ ExpireUpdate =>
              /\ Swept("exp_update", "exp_commit")
              /\ StatusSet(cur.code, "expired")
              /\ \A s : s # Sweep /\ In(s) => Before(s, Sweep)'
              /\ UNCHANGED <<disk, connections, secrets, closed, sweepNow, todo, cur>>
         /\ ExpireCommit =>
              /\ Swept("exp_commit", "next") /\ cur' = NoItem /\ disk' = rows
              /\ connections'[cur.code] = NoConn /\ secrets'[cur.code] = NoConn
              /\ \A c \in Codes : c # cur.code => connections'[c] = connections[c] /\ secrets'[c] = secrets[c]
              /\ \A k \in Conns : closed'[k] = (closed[k] \/ k = cur.conn)
              /\ \A s : ~Before(s, Sweep)
              /\ UNCHANGED <<rows, sweepNow, todo>>
<1> USE ConstantsAssumption
<1> USE DEF registry, handler, worker, sweep, visitor, KeepsReads
<1>0. /\ hop \in [Tasks -> 0..2] /\ seen \in [Tasks -> [Codes -> Row]] /\ Sweep \in Tasks
      /\ TypeOK /\ QueueInv /\ rows \in [Codes -> Row] /\ cur \in Item
  BY DEF Inv, TypeOK, Tasks
<1>2. hop[Sweep] # 0 => spc \in {"active", "exp_select"}
  BY <1>0 DEF QueueInv
<1>3. ASSUME ExpireSelected
      PROVE  /\ \/ Swept("exp_select", "next") /\ cur' = NoItem
                \/ Swept("exp_select", "exp_update") /\ cur' = cur
             /\ hop[Sweep] = 2 /\ \A s : ~Before(s, Sweep)
  <2>1. /\ spc = "exp_select" /\ AtHead(Sweep) /\ hop[Sweep] = 2
        /\ hop' = [hop EXCEPT ![Sweep] = 0] /\ seen' = [seen EXCEPT ![Sweep] = EmptyTable]
    BY <1>3 DEF ExpireSelected, Fetched
  <2>2. Requeue(Sweep) \/ Dequeue
    BY <1>3 DEF ExpireSelected, SweepResume
  <2>3. KeepsTurns(Sweep) /\ \A s : ~Before(s, Sweep)
    BY <1>0, <2>1, <2>2, Turns, Trip
  <2>4. \A q : spc' = q => Swept("exp_select", q)
    BY <1>0, <1>3, <2>1, <2>3 DEF ExpireSelected, Swept
  <2> QED BY <1>3, <2>1, <2>3, <2>4 DEF ExpireSelected, SweepResume
<1>4. ASSUME ExpireUpdate
      PROVE  /\ Swept("exp_update", "exp_commit")
             /\ StatusSet(cur.code, "expired")
             /\ \A s : s # Sweep /\ In(s) => Before(s, Sweep)'
  <2>1. spc = "exp_update" /\ AtHead(Sweep) /\ Requeue(Sweep) /\ hop[Sweep] = 0 /\ UNCHANGED <<hop, seen>>
    BY <1>0, <1>2, <1>4 DEF ExpireUpdate, Executed
  <2>2. KeepsTurns(Sweep) /\ \A s : s # Sweep /\ In(s) => Before(s, Sweep)'
    BY <1>0, <2>1, Turns, Trip
  <2>3. cur.code \in Codes
    BY <1>0 DEF Item
  <2>4. rows[cur.code].status # "absent"
    BY <2>1, <2>3 DEF Inv, SweepInv, Doomed, InHand, ExpPcs
  <2>5. StatusSet(cur.code, "expired")
    BY <1>0, <1>4, <2>3, <2>4, Updates DEF ExpireUpdate, SetStatus
  <2> QED BY <1>4, <2>1, <2>2, <2>5 DEF ExpireUpdate, Swept
<1>5. ASSUME ExpireCommit
      PROVE  /\ Swept("exp_commit", "next") /\ cur' = NoItem
             /\ connections'[cur.code] = NoConn /\ secrets'[cur.code] = NoConn
             /\ \A c \in Codes : c # cur.code => connections'[c] = connections[c] /\ secrets'[c] = secrets[c]
             /\ \A k \in Conns : closed'[k] = (closed[k] \/ k = cur.conn)
             /\ \A s : ~Before(s, Sweep)
  <2>1. spc = "exp_commit" /\ AtHead(Sweep) /\ Dequeue /\ hop[Sweep] = 0 /\ UNCHANGED <<hop, seen>>
        /\ spc' = "next" /\ cur' = NoItem
    BY <1>0, <1>2, <1>5 DEF ExpireCommit, Executed, SweepResume
  <2>2. KeepsTurns(Sweep) /\ \A s : ~Before(s, Sweep)
    BY <1>0, <2>1, Turns, Trip
  <2>3. Swept("exp_commit", "next")
    BY <1>5, <2>1, <2>2 DEF ExpireCommit, Swept
  <2>4. /\ connections'[cur.code] = NoConn /\ secrets'[cur.code] = NoConn
        /\ \A c \in Codes : c # cur.code => connections'[c] = connections[c] /\ secrets'[c] = secrets[c]
    BY <1>0, <1>5 DEF ExpireCommit, Item, TypeOK
  <2>5. \A k \in Conns : closed'[k] = (closed[k] \/ k = cur.conn)
    <3>1. closed \in [Conns -> BOOLEAN]
      BY <1>0 DEF TypeOK
    <3>2. closed' = IF cur.conn = NoConn THEN closed ELSE [closed EXCEPT ![cur.conn] = TRUE]
      BY <1>5 DEF ExpireCommit
    <3> QED BY <3>1, <3>2
  <2> QED BY <2>1, <2>2, <2>3, <2>4, <2>5
<1> QED BY <1>3, <1>4, <1>5 DEF ExpireSelected, ExpireUpdate, ExpireCommit

LEMMA KeepStep ==
  ASSUME Inv
  PROVE  /\ WarnUpdate =>
              /\ \/ Swept("warn_update", "next") /\ cur' = NoItem /\ UNCHANGED rows
                 \/ /\ Swept("warn_update", "warn_commit") /\ cur' = cur
                    /\ cur.code \in Codes /\ rows[cur.code].status # "absent"
                    /\ WarnedSet(cur.code)
              /\ UNCHANGED <<disk, connections, secrets, closed, sweepNow, todo>>
         /\ WarnCommit =>
              /\ Swept("warn_commit", "next") /\ cur' = NoItem /\ disk' = rows
              /\ UNCHANGED <<rows, connections, secrets, closed, sweepNow, todo>>
         /\ RetentionDelete =>
              /\ Swept("retain", "ret_commit")
              /\ \A c \in Codes :
                   \/ rows'[c] = rows[c]
                   \/ /\ rows'[c] = NoRow /\ rows[c].status = "expired"
                      /\ rows[c].expires # Never /\ rows[c].expires < sweepNow - Retention
              /\ \A s : s # Sweep /\ In(s) => Before(s, Sweep)'
              /\ UNCHANGED <<disk, connections, secrets, closed, sweepNow, todo, cur>>
         /\ RetentionCommit =>
              /\ Swept("ret_commit", "idle") /\ sweepNow' = 0 /\ disk' = rows
              /\ \A s : ~Before(s, Sweep)
              /\ UNCHANGED <<rows, connections, secrets, closed, todo, cur>>
<1> USE ConstantsAssumption
<1> USE DEF registry, handler, worker, sweep, visitor, KeepsReads
<1>0. /\ hop \in [Tasks -> 0..2] /\ seen \in [Tasks -> [Codes -> Row]] /\ Sweep \in Tasks
      /\ TypeOK /\ QueueInv /\ rows \in [Codes -> Row] /\ cur \in Item
  BY DEF Inv, TypeOK, Tasks
<1>2. hop[Sweep] # 0 => spc \in {"active", "exp_select"}
  BY <1>0 DEF QueueInv
<1>3. cur.code \in Codes
  BY <1>0 DEF Item
<1>4. ASSUME AtHead(Sweep) PROVE (Requeue(Sweep) \/ Dequeue) => KeepsTurns(Sweep)
  BY <1>0, <1>4, Turns
<1>5. ASSUME WarnUpdate
      PROVE  \/ Swept("warn_update", "next") /\ cur' = NoItem /\ UNCHANGED rows
             \/ /\ Swept("warn_update", "warn_commit") /\ cur' = cur
                /\ cur.code \in Codes /\ rows[cur.code].status # "absent"
                /\ WarnedSet(cur.code)
  <2>1. spc = "warn_update" /\ AtHead(Sweep) /\ hop[Sweep] = 0 /\ UNCHANGED <<hop, seen>>
    BY <1>0, <1>2, <1>5 DEF WarnUpdate, Executed
  <2>2. KeepsTurns(Sweep)
    BY <1>4, <1>5, <2>1 DEF WarnUpdate, SweepResume
  <2>3. \A q : spc' = q => Swept("warn_update", q)
    BY <1>5, <2>1, <2>2 DEF WarnUpdate, Swept
  <2>4. rows' = SetWarned(cur.code) => WarnedSet(cur.code)
    BY <1>0, <1>3, Updates DEF SetWarned
  <2> QED BY <1>3, <1>5, <2>3, <2>4 DEF WarnUpdate, SweepResume
<1>6. ASSUME WarnCommit PROVE Swept("warn_commit", "next") /\ cur' = NoItem
  <2>1. /\ spc = "warn_commit" /\ AtHead(Sweep) /\ hop[Sweep] = 0 /\ UNCHANGED <<hop, seen>>
        /\ Dequeue /\ spc' = "next" /\ cur' = NoItem
    BY <1>0, <1>2, <1>6 DEF WarnCommit, Executed, SweepResume
  <2> QED BY <1>4, <1>6, <2>1 DEF WarnCommit, Swept
<1>7. ASSUME RetentionDelete
      PROVE  /\ Swept("retain", "ret_commit")
             /\ \A c \in Codes :
                   \/ rows'[c] = rows[c]
                   \/ /\ rows'[c] = NoRow /\ rows[c].status = "expired"
                      /\ rows[c].expires # Never /\ rows[c].expires < sweepNow - Retention
             /\ \A s : s # Sweep /\ In(s) => Before(s, Sweep)'
  <2>1. /\ spc = "retain" /\ AtHead(Sweep) /\ hop[Sweep] = 0 /\ UNCHANGED <<hop, seen>>
        /\ Requeue(Sweep)
    BY <1>0, <1>2, <1>7 DEF RetentionDelete, Executed
  <2>2. Swept("retain", "ret_commit")
    BY <1>4, <1>7, <2>1 DEF RetentionDelete, Swept
  <2>3. \A s : s # Sweep /\ In(s) => Before(s, Sweep)'
    BY <1>0, <2>1, Trip
  <2> QED BY <1>7, <2>2, <2>3 DEF RetentionDelete, DeleteExpired
<1>8. ASSUME RetentionCommit PROVE Swept("ret_commit", "idle") /\ \A s : ~Before(s, Sweep)
  <2>1. /\ spc = "ret_commit" /\ AtHead(Sweep) /\ hop[Sweep] = 0 /\ UNCHANGED <<hop, seen>>
        /\ Dequeue /\ spc' = "idle"
    BY <1>0, <1>2, <1>8 DEF RetentionCommit, Executed
  <2>2. \A s : ~Before(s, Sweep)
    BY <1>0, <2>1, Trip
  <2> QED BY <1>4, <1>8, <2>1, <2>2 DEF RetentionCommit, Swept
<1> QED BY <1>5, <1>6, <1>7, <1>8 DEF WarnUpdate, WarnCommit, RetentionDelete, RetentionCommit

\* A step of the visitor, or none at all.
Visits ==
    /\ KeepsTurns(Visitor) /\ KeepsReads(Visitor)
    /\ UNCHANGED <<rows, disk, connections, secrets, closed, pc, want, code, until, now,
                   spc, sweepNow, todo, cur, crashes>>

LEMMA VisitStep ==
  ASSUME Inv
  PROVE  \/ \E c \in Visited : Lookup(c)
         \/ LookupDone \/ VisitorLeaves \/ UNCHANGED vars
         => Visits
<1> USE ConstantsAssumption
<1> USE DEF registry, handler, worker, sweep, visitor, KeepsReads, Visits
<1>0. /\ hop \in [Tasks -> 0..2] /\ seen \in [Tasks -> [Codes -> Row]] /\ Visitor \in Tasks
      /\ TypeOK /\ QueueInv
  BY DEF Inv, TypeOK, Tasks
<1>1. ASSUME NEW c \in Visited, Lookup(c) PROVE Visits
  <2>1. ~In(Visitor) /\ Enqueue(Visitor)
    BY <1>0, <1>1 DEF Lookup, QueueInv
  <2> QED BY <1>0, <1>1, <2>1, Turns DEF Lookup
<1>2. ASSUME LookupDone PROVE Visits
  <2>1. AtHead(Visitor) /\ Dequeue
    BY <1>2 DEF LookupDone, Fetched
  <2> QED BY <1>0, <1>2, <2>1, Turns DEF LookupDone, Fetched
<1>3. ASSUME VisitorLeaves PROVE Visits
  BY <1>0, <1>3, Turns DEF VisitorLeaves
<1>4. ASSUME UNCHANGED vars PROVE Visits
  BY <1>0, <1>4, Turns DEF vars
<1> QED BY <1>1, <1>2, <1>3, <1>4

LEMMA Steps ==
  ASSUME Inv, [Next]_vars
  PROVE  \/ \E t \in Tasks : CursorHop(t)
         \/ \E k \in Conns : Seek(k) \/ \E c \in Codes : Take(k, c)
         \/ \E k \in Conns : ReclaimUpdate(k) \/ RegisterInsert(k) \/ Attach(k)
         \/ \E k \in Conns : PolicyUpdate(k) \/ PolicyEntries(k) \/ PolicyCommit(k)
         \/ \E k \in Conns : Reply(k) \/ HeartbeatTimeout(k) \/ Disconnect(k)
         \/ \E k \in Conns : OfflineStays(k) \/ OfflineUpdate(k)
         \/ \E k \in Conns : OfflineLeaves(k) \/ OfflineCommit(k) \/ ReplyFails(k)
         \/ \E k \in Conns : DisconnectFails(k)
         \/ SweepStart \/ SweepSnapshot \/ SweepNext
         \/ ExpireSelected \/ ExpireUpdate \/ ExpireCommit
         \/ WarnUpdate \/ WarnCommit \/ RetentionDelete \/ RetentionCommit
         \/ (\E c \in Visited : Lookup(c)) \/ LookupDone \/ VisitorLeaves \/ UNCHANGED vars
         \/ Tick \/ CrashAndRestart
<1>1. ASSUME NEW k \in Conns, HandlerDb(k) \/ Authenticated(k)
      PROVE  \/ Seek(k) \/ \E c \in Codes : Take(k, c)
             \/ ReclaimUpdate(k) \/ RegisterInsert(k) \/ Attach(k)
             \/ PolicyUpdate(k) \/ PolicyEntries(k) \/ PolicyCommit(k)
             \/ OfflineStays(k) \/ OfflineUpdate(k) \/ OfflineLeaves(k) \/ OfflineCommit(k)
  <2>1. pc[k] \in ClaimSelects => want[k] \in Codes
    BY DEF Inv, ClaimInv
  <2>2. TryReclaim(k) => Seek(k) \/ \E c \in Codes : Take(k, c)
    BY <2>1 DEF TryReclaim, ClaimSelects, Seek, Take
  <2>3. HasMount(k) => \E c \in Codes : Take(k, c)
    BY <2>1 DEF HasMount, ClaimSelects, Take
  <2>4. Authenticated(k) => Seek(k) \/ \E c \in Codes : Take(k, c)
    BY DEF Authenticated, Seek, Take
  <2>5. CapCheck(k) => Seek(k)
    BY DEF Seek
  <2>6. OfflineSelected(k) => OfflineStays(k) \/ OfflineLeaves(k)
    BY DEF OfflineStays, OfflineLeaves
  <2> QED BY <1>1, <2>2, <2>3, <2>4, <2>5, <2>6 DEF HandlerDb
<1>2. ASSUME NEW k \in Conns, AuthRejected(k) \/ \E c \in Codes \cup {NoCode} : Dial(k, c) PROVE Seek(k)
  BY <1>2 DEF Seek
<1> QED BY <1>1, <1>2 DEF Next, WorkerStep, SweepDb

LEMMA Cases ==
  ASSUME Inv, [Next]_vars
  PROVE  \/ \E t \in Tasks : CursorHop(t)
         \/ \E k \in Conns : Seek(k) \/ \E c \in Codes : Take(k, c)
         \/ \E k \in Conns : ReclaimUpdate(k) \/ RegisterInsert(k) \/ Attach(k)
         \/ \E k \in Conns : PolicyUpdate(k) \/ PolicyEntries(k) \/ PolicyCommit(k)
         \/ \E k \in Conns : Reply(k) \/ HeartbeatTimeout(k) \/ Disconnect(k)
         \/ \E k \in Conns : OfflineStays(k) \/ OfflineUpdate(k)
         \/ \E k \in Conns : OfflineLeaves(k) \/ OfflineCommit(k) \/ ReplyFails(k)
         \/ \E k \in Conns : DisconnectFails(k)
         \/ SweepStart \/ SweepSnapshot \/ SweepNext
         \/ ExpireSelected \/ ExpireUpdate \/ ExpireCommit
         \/ WarnUpdate \/ WarnCommit \/ RetentionDelete \/ RetentionCommit
         \/ Visits \/ Tick \/ CrashAndRestart
BY Steps, VisitStep

\* The steps that move no handler, seen through the lemmas above.
LEMMA QuietCases ==
  ASSUME Inv
  PROVE  \/ \E t \in Tasks : CursorHop(t)
         \/ \E k \in Conns : HeartbeatTimeout(k)
         \/ SweepStart \/ SweepSnapshot \/ SweepNext
         \/ ExpireSelected \/ ExpireUpdate \/ ExpireCommit
         \/ WarnUpdate \/ WarnCommit \/ RetentionDelete \/ RetentionCommit
         \/ Visits \/ Tick
         => UNCHANGED <<pc, want, code, until>>
<1>1. \/ \E t \in Tasks : CursorHop(t)
      \/ \E k \in Conns : HeartbeatTimeout(k)
      \/ Visits \/ Tick
      => UNCHANGED <<pc, want, code, until>>
  BY DEF CursorHop, HeartbeatTimeout, Visits, Tick, handler
<1>2. \A p, q : Swept(p, q) => UNCHANGED <<pc, want, code, until>>
  BY DEF Swept
<1> QED BY <1>1, <1>2, SweepStep, ExpireStep, KeepStep

(***************************************************************************)
(* Each part of the invariant is preserved.                                  *)
(***************************************************************************)
\* Codes are claimed one at a time: a preferred one because its agents do not
\* race, a random one because nobody knows it.
LEMMA ClaimKept ==
  ASSUME Faults = {}, Inv, [Next]_vars
  PROVE  ClaimInv'
<1> USE ConstantsAssumption
<1>0. TypeOK /\ QueueInv /\ ClaimInv /\ code \in [Conns -> Codes \cup {NoCode}]
  BY DEF Inv, TypeOK
<1>1. CASE UNCHANGED <<pc, want, code>>
  BY <1>0, <1>1 DEF ClaimInv
<1>2. ASSUME NEW k \in Conns, Seek(k) PROVE ClaimInv'
  <2>1. Sought(k)
    BY <1>0, <1>2, SeekStep
  <2>2. \A c \in Codes : want'[k] = c /\ want[k] # c => \A j \in Conns : j # k /\ pc[j] \in Claiming => c \notin {want[j], code[j]}
    BY <1>0, <1>2, <2>1 DEF Seek, Dial, NoRival, CapCheck, AuthRejected, Authenticated, TryReclaim, TypeOK
  <2>3. pc[k] = "idle" => want[k] = NoCode
    BY <1>0 DEF ClaimInv
  <2>4. pc[k] \in Claiming \/ want'[k] # want[k] \/ want'[k] = NoCode
    BY <2>1, <2>3 DEF Sought, Outside, Claiming, ClaimSelects
  <2> QED BY <1>0, <2>1, <2>2, <2>4 DEF ClaimInv, Sought, Elsewhere, Outside, Claiming, ClaimSelects, Holding, Opening, Attached
<1>3. ASSUME NEW k \in Conns, NEW c \in Codes, Take(k, c) PROVE ClaimInv'
  <2>1. Taken(k, c)
    BY <1>3, TakeStep
  <2>2. pc[k] \in Claiming
    BY <2>1 DEF Taken, Claiming, ClaimSelects
  <2> QED BY <1>0, <2>1, <2>2 DEF ClaimInv, Taken, Elsewhere, Claiming, ClaimSelects, Holding, Opening, Attached
<1>4. ASSUME NEW k \in Conns, NEW p \in Holding, NEW q \in Holding, Moved(k, p, q),
             q \in Claiming => p \in Claiming
      PROVE  ClaimInv'
  BY <1>0, <1>4 DEF ClaimInv, Moved, Elsewhere, Claiming, ClaimSelects, Holding, Opening, Attached
<1>5. ASSUME NEW k \in Conns, NEW p \in Holding, Left(k, p) PROVE ClaimInv'
  BY <1>0, <1>5 DEF ClaimInv, Left, Elsewhere, Claiming, ClaimSelects, Holding, Opening, Attached
<1>6. CASE CrashAndRestart
  BY <1>6 DEF CrashAndRestart, ClaimInv, Claiming, ClaimSelects, Holding, Opening, Attached
<1>7. ASSUME NEW k \in Conns, ReclaimUpdate(k) \/ RegisterInsert(k) \/ Attach(k) PROVE ClaimInv'
  BY <1>4, <1>7, MoveStep DEF Claiming, Holding, Opening, Attached
<1>8. ASSUME NEW k \in Conns, PolicyUpdate(k) \/ PolicyEntries(k) \/ PolicyCommit(k) PROVE ClaimInv'
  BY <1>4, <1>8, MoveStep DEF Claiming, ClaimSelects, Holding, Opening, Attached
<1>9. ASSUME NEW k \in Conns, Reply(k) \/ Disconnect(k) \/ OfflineStays(k) \/ OfflineUpdate(k) PROVE ClaimInv'
  BY <1>4, <1>9, ServeStep DEF Claiming, ClaimSelects, Holding, Opening, Attached
<1>10. ASSUME NEW k \in Conns, OfflineLeaves(k) \/ OfflineCommit(k) \/ ReplyFails(k) PROVE ClaimInv'
  BY <1>5, <1>10, ServeStep DEF Holding, Opening, Attached
<1>11. ASSUME NEW k \in Conns, DisconnectFails(k) PROVE ClaimInv'
  BY <1>0, <1>11, FailStep DEF ClaimInv, Dropped, Elsewhere, Claiming, ClaimSelects, Holding, Opening, Attached
<1> QED BY <1>1, <1>2, <1>3, <1>6, <1>7, <1>8, <1>9, <1>10, <1>11, Cases, QuietCases

\* Nobody becomes a holder while another is.
LEMMA HolderKept ==
  ASSUME Faults = {}, Inv, [Next]_vars
  PROVE  HolderInv'
<1> USE ConstantsAssumption
<1>0. TypeOK /\ QueueInv /\ ClaimInv /\ HolderInv
  BY DEF Inv
<1>1. CASE UNCHANGED <<pc, want, code>>
  BY <1>0, <1>1 DEF HolderInv
<1>2. ASSUME NEW k \in Conns, Seek(k) PROVE HolderInv'
  BY <1>0, <1>2, SeekStep DEF HolderInv, Sought, Elsewhere, Outside, ClaimSelects, Holding, Opening, Attached
<1>3. ASSUME NEW k \in Conns, NEW c \in Codes, Take(k, c) PROVE HolderInv'
  BY <1>0, <1>3, TakeStep DEF HolderInv, Taken, Elsewhere
<1>4. ASSUME NEW k \in Conns, NEW p \in Holding, NEW q \in Holding, Moved(k, p, q) PROVE HolderInv'
  BY <1>0, <1>4 DEF HolderInv, Moved, Elsewhere
<1>5. ASSUME NEW k \in Conns, NEW p \in Holding, Left(k, p) PROVE HolderInv'
  BY <1>0, <1>5 DEF HolderInv, Left, Elsewhere, Holding, Opening, Attached
<1>6. CASE CrashAndRestart
  BY <1>6 DEF CrashAndRestart, HolderInv, Holding, Opening, Attached
<1>7. ASSUME NEW k \in Conns, ReclaimUpdate(k) \/ RegisterInsert(k) \/ Attach(k) PROVE HolderInv'
  BY <1>4, <1>7, MoveStep DEF Holding, Opening, Attached
<1>8. ASSUME NEW k \in Conns, PolicyUpdate(k) \/ PolicyEntries(k) \/ PolicyCommit(k) PROVE HolderInv'
  BY <1>4, <1>8, MoveStep DEF Holding, Opening, Attached
<1>9. ASSUME NEW k \in Conns, Reply(k) \/ Disconnect(k) \/ OfflineStays(k) \/ OfflineUpdate(k) PROVE HolderInv'
  BY <1>4, <1>9, ServeStep DEF Holding, Opening, Attached
<1>10. ASSUME NEW k \in Conns, OfflineLeaves(k) \/ OfflineCommit(k) \/ ReplyFails(k) PROVE HolderInv'
  BY <1>5, <1>10, ServeStep DEF Holding, Opening, Attached
<1>11. ASSUME NEW k \in Conns, DisconnectFails(k) PROVE HolderInv'
  BY <1>0, <1>11, FailStep DEF HolderInv, Dropped, Elsewhere, Holding, Opening, Attached
<1> QED BY <1>1, <1>2, <1>3, <1>6, <1>7, <1>8, <1>9, <1>10, <1>11, Cases, QuietCases

\* The holder's row changes only as the holder moves, or when the sweep expires it.
LEMMA StatusKept ==
  ASSUME Faults = {}, Inv, [Next]_vars
  PROVE  StatusInv'
<1> USE ConstantsAssumption
<1> USE DEF Current, Opening, Attached
<1>0. /\ TypeOK /\ QueueInv /\ ClaimInv /\ HolderInv /\ StatusInv /\ TimeInv /\ SweepInv
      /\ rows \in [Codes -> Row]
      /\ \A k \in Conns : pc[k] \in Holding => code[k] \in Codes
  BY DEF Inv, TypeOK, ClaimInv
<1>1. CASE UNCHANGED <<pc, code, rows>>
  BY <1>0, <1>1 DEF StatusInv
<1>2. ASSUME NEW k \in Conns, Seek(k) PROVE StatusInv'
  BY <1>0, <1>2, SeekStep DEF StatusInv, Sought, Elsewhere, Outside, ClaimSelects
<1>3. ASSUME NEW k \in Conns, NEW c \in Codes, Take(k, c) PROVE StatusInv'
  BY <1>0, <1>3, TakeStep DEF StatusInv, Taken, Elsewhere
<1>4. ASSUME NEW k \in Conns, NEW p \in Holding, NEW q \in Holding, Moved(k, p, q),
             \A c \in Codes : c # code[k] => rows'[c] = rows[c],
             /\ q \in Opening => rows'[code[k]].status = "online"
             /\ q \in Current => rows'[code[k]].status \in {"online", "expired"}
             /\ q = "off_commit" => rows'[code[k]].status = "offline",
             q \notin {"insert", "update"}
      PROVE  StatusInv'
  <2>1. \A j \in Conns : j # k /\ pc[j] \in Holding => code[j] # code[k]
    BY <1>0, <1>4 DEF HolderInv, Moved
  <2>2. \A j \in Conns : j # k /\ pc[j] \in Holding => rows'[code[j]] = rows[code[j]]
    BY <1>0, <1>4, <2>1
  <2> QED BY <1>0, <1>4, <2>2 DEF StatusInv, Moved, Elsewhere, Holding
<1>5. ASSUME NEW k \in Conns, NEW p \in Holding, Left(k, p) PROVE StatusInv'
  BY <1>0, <1>5 DEF StatusInv, Left, Elsewhere
<1>6. CASE CrashAndRestart
  BY <1>6 DEF CrashAndRestart, StatusInv
<1>7. ASSUME NEW k \in Conns, ReclaimUpdate(k) \/ RegisterInsert(k) PROVE StatusInv'
  <2>1. rows'[code[k]].status = "online" /\ \A c \in Codes : c # code[k] => rows'[c] = rows[c]
    BY <1>7, MoveStep DEF StatusSet, Inserted, OtherRows
  <2> QED BY <1>4, <1>7, <2>1, MoveStep DEF Holding
<1>8. ASSUME NEW k \in Conns, Attach(k) \/ PolicyUpdate(k) \/ PolicyEntries(k) \/ PolicyCommit(k) PROVE StatusInv'
  <2>1. /\ pc[k] \in {"reclaimed", "registered", "policy", "entries", "saved"}
        /\ code[k] \in Codes
    BY <1>8, MoveStep DEF Moved
  <2>2. rows[code[k]].status \in {"online", "expired"}
    BY <1>0, <2>1 DEF StatusInv
  <2>3. /\ rows'[code[k]].status = rows[code[k]].status
        /\ \A c \in Codes : c # code[k] => rows'[c] = rows[c]
    BY <1>8, MoveStep DEF PolicySet, OtherRows
  <2> QED BY <1>4, <1>8, <2>2, <2>3, MoveStep DEF Holding
<1>9. ASSUME NEW k \in Conns, Reply(k) \/ Disconnect(k) \/ OfflineStays(k) PROVE StatusInv'
  <2>1. pc[k] \in {"reply", "serving", "off_select"} /\ rows' = rows
    BY <1>9, ServeStep DEF Moved
  <2>2. rows[code[k]].status \in {"online", "expired"}
    BY <1>0, <2>1 DEF StatusInv
  <2> QED BY <1>4, <1>9, <2>1, <2>2, ServeStep DEF Holding
<1>10. ASSUME NEW k \in Conns, OfflineUpdate(k) PROVE StatusInv'
  <2>1. rows'[code[k]].status = "offline" /\ \A c \in Codes : c # code[k] => rows'[c] = rows[c]
    BY <1>10, ServeStep DEF StatusSet, OtherRows
  <2> QED BY <1>4, <1>10, <2>1, ServeStep DEF Holding
<1>11. ASSUME NEW k \in Conns, OfflineLeaves(k) \/ OfflineCommit(k) \/ ReplyFails(k) PROVE StatusInv'
  BY <1>5, <1>11, ServeStep DEF Holding
<1>12. CASE ExpireUpdate
  <2>1. /\ cur.code \in Codes /\ spc = "exp_update" /\ UNCHANGED <<pc, code>>
        /\ rows'[cur.code].status = "expired"
        /\ \A c \in Codes : c # cur.code => rows'[c] = rows[c]
    BY <1>0, <1>12, ExpireStep DEF StatusSet, OtherRows, Swept, Item, TypeOK
  <2>2. \A k \in Conns : code[k] = cur.code => pc[k] \notin {"update", "insert"} \cup Opening
    BY <1>0, <2>1 DEF Inv, SweepInv, OrderInv, Doomed, InHand, ExpPcs
  <2> QED BY <1>0, <2>1, <2>2 DEF StatusInv, Holding
<1>13. CASE WarnUpdate
  <2>1. UNCHANGED <<pc, code>> /\ \A c \in Codes : rows'[c].status = rows[c].status
    BY <1>13, KeepStep DEF WarnedSet, OtherRows, Swept
  <2> QED BY <1>0, <2>1 DEF StatusInv, Holding
<1>14. CASE RetentionDelete
  <2>1. /\ spc = "retain" /\ UNCHANGED <<pc, code>>
        /\ \A c \in Codes : rows'[c] = rows[c] \/
             (rows[c].status = "expired" /\ rows[c].expires < sweepNow - Retention)
    BY <1>14, KeepStep DEF Swept
  <2>2. \A k \in Conns : pc[k] \in Attached /\ rows[code[k]].status = "expired" => rows[code[k]].expires >= now
    BY <1>0, <2>1 DEF TimeInv
  <2>3. \A c \in Codes : rows[c].expires >= now => ~(rows[c].expires < sweepNow - Retention)
    BY <1>0 DEF SweepInv, TypeOK, Row
  <2>4. \A k \in Conns : pc[k] \in Holding => rows'[code[k]] = rows[code[k]]
    BY <1>0, <2>1, <2>2, <2>3 DEF StatusInv, Holding
  <2> QED BY <1>0, <2>1, <2>4 DEF StatusInv, Holding
<1>15. ASSUME NEW t \in Tasks, CursorHop(t) PROVE StatusInv'
  BY <1>1, <1>15, <1>0, CursorHops
<1>16. CASE Visits \/ Tick \/ SweepStart \/ SweepSnapshot \/ SweepNext \/ ExpireSelected
            \/ ExpireCommit \/ WarnCommit \/ RetentionCommit \/ \E k \in Conns : HeartbeatTimeout(k)
  <2>1. UNCHANGED rows
    BY <1>16, SweepStep, ExpireStep, KeepStep DEF Visits, Tick, HeartbeatTimeout, registry
  <2> QED BY <1>1, <1>16, <2>1, QuietCases
<1>17. ASSUME NEW k \in Conns, DisconnectFails(k) PROVE StatusInv'
  BY <1>0, <1>17, FailStep DEF StatusInv, Dropped, Elsewhere
<1> QED BY <1>2, <1>3, <1>6, <1>7, <1>8, <1>9, <1>10, <1>11, <1>12, <1>13, <1>14, <1>15, <1>16, <1>17, Cases

\* After a restart only the drop box is ONLINE, and nothing that was committed
\* and not deleted changes but its status.
LEMMA CrashStep ==
  ASSUME Inv, CrashAndRestart
  PROVE  /\ disk' = rows' /\ rows'[Dropbox] = DropboxRow
         /\ \A c \in Codes : c # Dropbox =>
              /\ rows'[c].status # "online"
              /\ rows'[c].status # "absent" =>
                   /\ disk[c].status # "absent"
                   /\ rows'[c].expires = disk[c].expires /\ rows'[c].ip = disk[c].ip
                   /\ rows'[c].policy = disk[c].policy
              /\ disk[c].status = "online" /\ (disk[c].expires = Never \/ disk[c].expires >= now) =>
                   rows'[c].status = "offline"
         /\ \A c \in Codes : connections'[c] = NoConn /\ secrets'[c] = NoConn
         /\ \A k \in Conns : pc'[k] \in {"idle", "gone"} /\ (pc'[k] = "idle" => ~closed'[k])
         /\ \A k \in Conns : want'[k] = NoCode /\ code'[k] = NoCode
         /\ \A t \in Tasks : hop'[t] = 0
         /\ spc' = "idle" /\ sweepNow' = 0 /\ todo' = {} /\ cur' = NoItem /\ now' = now
<1> USE ConstantsAssumption
<1>0. disk \in [Codes -> Row] /\ now \in Nat
  BY DEF Inv, TypeOK
<1> DEFINE A == DeleteExpired(disk, now - Retention)
           B == MarkExpired(A)
           C == MarkOffline(B)
<1>1. \A c \in Codes : A[c] \in Row /\ (A[c] = NoRow \/ A[c] = disk[c])
  BY <1>0, RowTypes DEF DeleteExpired
<1>2. /\ \A c \in Codes : disk[c].status = "online" => A[c] = disk[c]
      /\ A = [c \in Codes |-> A[c]]
  BY <1>0 DEF DeleteExpired
<1> HIDE DEF A
<1>3. \A c \in Codes :
        /\ B[c] \in Row
        /\ B[c].status \in {A[c].status, "expired"} /\ (A[c].status = "absent" => B[c].status = "absent")
        /\ B[c].expires = A[c].expires /\ B[c].ip = A[c].ip /\ B[c].policy = A[c].policy
        /\ ~(A[c].expires # Never /\ A[c].expires < now) => B[c] = A[c]
  BY <1>1 DEF MarkExpired, Row, Status
<1> HIDE DEF B
<1>4. \A c \in Codes :
        /\ C[c].status # "online" /\ (B[c].status = "absent" => C[c].status = "absent")
        /\ C[c].expires = B[c].expires /\ C[c].ip = B[c].ip /\ C[c].policy = B[c].policy
        /\ B[c].status = "online" => C[c].status = "offline"
  BY <1>3 DEF MarkOffline, Row, Status
<1>5. C = [c \in Codes |-> C[c]]
  BY DEF MarkOffline
<1> HIDE DEF C
<1>6. rows' = [C EXCEPT ![Dropbox] = DropboxRow]
  BY DEF CrashAndRestart, StartupCleanup, A, B, C
<1>7. rows'[Dropbox] = DropboxRow /\ \A c \in Codes : c # Dropbox => rows'[c] = C[c]
  BY <1>5, <1>6
<1>8. \A c \in Codes : disk[c].status = "online" /\ (disk[c].expires = Never \/ disk[c].expires >= now) =>
        C[c].status = "offline"
  <2> SUFFICES ASSUME NEW c \in Codes, disk[c].status = "online",
                      disk[c].expires = Never \/ disk[c].expires >= now
               PROVE  C[c].status = "offline"
    OBVIOUS
  <2>1. A[c] = disk[c] /\ disk[c].expires \in Int
    BY <1>0, <1>2 DEF Row
  <2>2. ~(A[c].expires # Never /\ A[c].expires < now)
    BY <1>0, <2>1
  <2> QED BY <1>3, <1>4, <2>1, <2>2
<1>9. \A c \in Codes : C[c].status # "absent" =>
        /\ disk[c].status # "absent"
        /\ C[c].expires = disk[c].expires /\ C[c].ip = disk[c].ip /\ C[c].policy = disk[c].policy
  BY <1>1, <1>3, <1>4 DEF NoRow
<1>10. \A k \in Conns : pc'[k] \in {"idle", "gone"} /\ (pc'[k] = "idle" => ~closed'[k])
  BY DEF CrashAndRestart
<1>11. /\ \A c \in Codes : connections'[c] = NoConn /\ secrets'[c] = NoConn
       /\ \A k \in Conns : want'[k] = NoCode /\ code'[k] = NoCode
       /\ \A t \in Tasks : hop'[t] = 0
       /\ spc' = "idle" /\ sweepNow' = 0 /\ todo' = {} /\ cur' = NoItem /\ now' = now
       /\ disk' = rows'
  BY DEF CrashAndRestart
<1> QED BY <1>4, <1>7, <1>8, <1>9, <1>10, <1>11

LEMMA OnlineKept ==
  ASSUME Faults = {}, Inv, [Next]_vars
  PROVE  OnlineInv'
<1> USE ConstantsAssumption
<1> USE DEF Tied, Current, Opening, Attached
<1>0. /\ TypeOK /\ QueueInv /\ ClaimInv /\ HolderInv /\ StatusInv /\ OnlineInv /\ StrandInv /\ SweepInv
      /\ connections \in [Codes -> Conns \cup {NoConn}]
  BY DEF Inv, TypeOK
<1>1. CASE UNCHANGED <<pc, code, rows, connections>>
  BY <1>0, <1>1 DEF OnlineInv
<1>2. ASSUME NEW k \in Conns, Seek(k) PROVE OnlineInv'
  BY <1>0, <1>2, SeekStep DEF OnlineInv, Sought, Elsewhere, Outside, ClaimSelects
<1>3. ASSUME NEW k \in Conns, NEW c \in Codes, Take(k, c) PROVE OnlineInv'
  BY <1>0, <1>3, TakeStep DEF OnlineInv, Taken, Elsewhere
<1>4. ASSUME NEW k \in Conns, NEW p, NEW q, Moved(k, p, q),
             \A c \in Codes : c # code[k] => rows'[c] = rows[c] /\ connections'[c] = connections[c],
             \/ rows'[code[k]].status # "online"
             \/ q \in Opening \/ (q \in Current /\ connections'[code[k]] = k)
             \/ /\ p \in Current /\ q \in Current
                /\ rows'[code[k]].status = rows[code[k]].status /\ connections' = connections
      PROVE  OnlineInv'
  <2>1. ASSUME NEW c \in Codes \ {Dropbox}, rows'[c].status = "online", c # code[k]
        PROVE  \E j \in Conns : /\ code'[j] = c
                                /\ pc'[j] \in Opening \/ (pc'[j] \in Tied /\ connections'[c] = j)
    <3>1. PICK j \in Conns : /\ code[j] = c
                             /\ pc[j] \in Opening \/ (pc[j] \in Tied /\ connections[c] = j)
      BY <1>0, <1>4, <2>1 DEF OnlineInv
    <3> QED BY <1>4, <2>1, <3>1 DEF Moved, Elsewhere
  <2>2. ASSUME rows'[code[k]].status = "online"
        PROVE  \E j \in Conns : /\ code'[j] = code[k]
                                /\ pc'[j] \in Opening \/ (pc'[j] \in Tied /\ connections'[code[k]] = j)
    <3>1. CASE q \in Opening \/ (q \in Current /\ connections'[code[k]] = k)
      BY <1>4, <3>1 DEF Moved
    <3>2. CASE /\ p \in Current /\ q \in Current
               /\ rows'[code[k]].status = rows[code[k]].status /\ connections' = connections
      <4>1. code[k] \in Codes \ {Dropbox}
        BY <1>4 DEF Moved
      <4>2. PICK j \in Conns : /\ code[j] = code[k]
                               /\ pc[j] \in Opening \/ (pc[j] \in Tied /\ connections[code[k]] = j)
        BY <1>0, <2>2, <3>2, <4>1 DEF OnlineInv
      <4>3. j = k
        BY <1>0, <1>4, <3>2, <4>1, <4>2 DEF HolderInv, StrandInv, Stranded, Holding, Moved
      <4> QED BY <1>4, <3>2, <4>2, <4>3 DEF Moved
    <3> QED BY <1>4, <2>2, <3>1, <3>2
  <2> QED BY <2>1, <2>2 DEF OnlineInv
<1>5. ASSUME NEW k \in Conns, NEW p \in Holding, Left(k, p), rows[code[k]].status # "online",
             \A c \in Codes : c # code[k] => connections'[c] = connections[c]
      PROVE  OnlineInv'
  BY <1>0, <1>5 DEF OnlineInv, Left, Elsewhere
<1>6. CASE CrashAndRestart
  BY <1>6, CrashStep DEF OnlineInv
<1>7. ASSUME NEW k \in Conns, ReclaimUpdate(k) \/ RegisterInsert(k) PROVE OnlineInv'
  <2>1. \A c \in Codes : c # code[k] => rows'[c] = rows[c] /\ connections'[c] = connections[c]
    BY <1>7, MoveStep DEF StatusSet, Inserted, OtherRows
  <2> QED BY <1>4, <1>7, <2>1, MoveStep
<1>8. ASSUME NEW k \in Conns, Attach(k) PROVE OnlineInv'
  <2>1. \A c \in Codes : c # code[k] => rows'[c] = rows[c] /\ connections'[c] = connections[c]
    BY <1>8, MoveStep
  <2> QED BY <1>4, <1>8, <2>1, MoveStep
<1>9. ASSUME NEW k \in Conns, PolicyUpdate(k) \/ PolicyEntries(k) \/ PolicyCommit(k) PROVE OnlineInv'
  <2>1. /\ \A c \in Codes : c # code[k] => rows'[c] = rows[c] /\ connections'[c] = connections[c]
        /\ rows'[code[k]].status = rows[code[k]].status /\ connections' = connections
    BY <1>9, MoveStep DEF PolicySet, OtherRows
  <2> QED BY <1>4, <1>9, <2>1, MoveStep
<1>10. ASSUME NEW k \in Conns, Reply(k) \/ Disconnect(k) \/ OfflineStays(k) PROVE OnlineInv'
  BY <1>4, <1>10, ServeStep
<1>11. ASSUME NEW k \in Conns, OfflineUpdate(k) PROVE OnlineInv'
  <2>1. /\ \A c \in Codes : c # code[k] => rows'[c] = rows[c] /\ connections'[c] = connections[c]
        /\ rows'[code[k]].status # "online"
    BY <1>11, ServeStep DEF StatusSet, OtherRows
  <2> QED BY <1>4, <1>11, <2>1, ServeStep
<1>12. ASSUME NEW k \in Conns, OfflineLeaves(k) \/ OfflineCommit(k) \/ ReplyFails(k) PROVE OnlineInv'
  <2>1. pc[k] = "off_commit" => rows[code[k]].status # "online"
    BY <1>0 DEF StatusInv
  <2> QED BY <1>5, <1>12, <2>1, ServeStep DEF Holding, Left
<1>13. CASE ExpireUpdate
  <2>1. /\ UNCHANGED <<pc, code, connections>>
        /\ rows'[cur.code].status = "expired"
        /\ \A c \in Codes : c # cur.code => rows'[c] = rows[c]
    BY <1>13, ExpireStep DEF StatusSet, OtherRows, Swept
  <2> QED BY <1>0, <2>1 DEF OnlineInv
<1>14. CASE ExpireCommit
  <2>1. /\ UNCHANGED <<pc, code, rows>> /\ rows[cur.code].status # "online"
        /\ \A c \in Codes : c # cur.code => connections'[c] = connections[c]
    BY <1>0, <1>14, ExpireStep DEF Swept, SweepInv
  <2> QED BY <1>0, <2>1 DEF OnlineInv
<1>15. CASE WarnUpdate \/ RetentionDelete
  <2>1. /\ UNCHANGED <<pc, code, connections>>
        /\ \A c \in Codes : rows'[c].status = "online" => rows[c].status = "online"
    BY <1>15, KeepStep DEF WarnedSet, OtherRows, Swept, NoRow
  <2> QED BY <1>0, <2>1 DEF OnlineInv
<1>16. ASSUME NEW t \in Tasks, CursorHop(t) PROVE OnlineInv'
  BY <1>1, <1>16, <1>0, CursorHops
<1>17. CASE Visits \/ Tick \/ SweepStart \/ SweepSnapshot \/ SweepNext \/ ExpireSelected
            \/ WarnCommit \/ RetentionCommit \/ \E k \in Conns : HeartbeatTimeout(k)
  <2>1. UNCHANGED <<rows, connections>>
    BY <1>17, SweepStep, ExpireStep, KeepStep DEF Visits, Tick, HeartbeatTimeout, registry
  <2> QED BY <1>1, <1>17, <2>1, QuietCases
<1>18. ASSUME NEW k \in Conns, DisconnectFails(k) PROVE OnlineInv'
  BY <1>0, <1>18, FailStep DEF OnlineInv, Dropped, Elsewhere
<1> QED BY <1>2, <1>3, <1>6, <1>7, <1>8, <1>9, <1>10, <1>11, <1>12, <1>13, <1>14, <1>15, <1>16, <1>17,
           <1>18, Cases

LEMMA MapKept ==
  ASSUME Faults = {}, Inv, [Next]_vars
  PROVE  MapInv'
<1> USE ConstantsAssumption
<1> USE DEF Attached
<1>0. /\ TypeOK /\ QueueInv /\ ClaimInv /\ HolderInv /\ StatusInv /\ MapInv /\ StrandInv
      /\ connections \in [Codes -> Conns \cup {NoConn}]
  BY DEF Inv, TypeOK
<1>1. CASE UNCHANGED <<pc, code, rows, connections, spc, cur>>
  BY <1>0, <1>1 DEF MapInv
<1>2. ASSUME NEW k \in Conns, Seek(k) PROVE MapInv'
  BY <1>0, <1>2, SeekStep DEF MapInv, Sought, Elsewhere, Outside, ClaimSelects
<1>3. ASSUME NEW k \in Conns, NEW c \in Codes, Take(k, c) PROVE MapInv'
  BY <1>0, <1>3, TakeStep DEF MapInv, Taken, Elsewhere
<1>4. ASSUME NEW k \in Conns, NEW p \in Holding, NEW q, Moved(k, p, q),
             \A c \in Codes : c # code[k] => rows'[c] = rows[c] /\ connections'[c] = connections[c],
             \/ connections'[code[k]] \in {k, NoConn} /\ q \in Attached /\ rows'[code[k]].status = "online"
             \/ connections'[code[k]] = connections[code[k]] /\ p \notin Attached
             \/ connections'[code[k]] = connections[code[k]] /\ q = "off_commit"
             \/ /\ connections'[code[k]] = connections[code[k]] /\ q \in Attached /\ p # "off_commit"
                /\ rows'[code[k]].status = rows[code[k]].status
      PROVE  MapInv'
  <2>1. ASSUME NEW c \in Codes, connections'[c] # NoConn, c # code[k]
        PROVE  /\ connections'[c] = connections[c] /\ connections[c] \in Conns
               /\ code'[connections[c]] = c /\ pc'[connections[c]] = pc[connections[c]]
    BY <1>0, <1>4, <2>1 DEF MapInv, Moved, Elsewhere
  <2>2. ASSUME connections[code[k]] # NoConn PROVE connections[code[k]] = k /\ p \in Attached
    BY <1>0, <1>4, <2>2 DEF MapInv, HolderInv, StrandInv, Stranded, Holding, Moved
  <2>3. ASSUME NEW c \in Codes, connections'[c] # NoConn, c # code[k]
        PROVE  LET j == connections'[c] IN
               /\ code'[j] = c /\ pc'[j] \in Attached \cup {"failed"}
               /\ rows'[c].status = "online" \/ pc'[j] = "off_commit" \/ (spc' = "exp_commit" /\ cur'.code = c)
    BY <1>0, <1>4, <2>1, <2>3 DEF MapInv, Moved
  <2>4. ASSUME connections'[code[k]] # NoConn
        PROVE  /\ connections'[code[k]] = k /\ code'[k] = code[k] /\ pc'[k] \in Attached
               /\ \/ rows'[code[k]].status = "online" \/ pc'[k] = "off_commit"
                  \/ spc' = "exp_commit" /\ cur'.code = code[k]
    BY <1>0, <1>4, <2>2, <2>4 DEF MapInv, Moved
  <2> QED BY <2>3, <2>4 DEF MapInv
<1>5. ASSUME NEW k \in Conns, NEW p \in Holding, Left(k, p), connections'[code[k]] = NoConn,
             \A c \in Codes : c # code[k] => connections'[c] = connections[c]
      PROVE  MapInv'
  BY <1>0, <1>5 DEF MapInv, Left, Elsewhere
<1>6. CASE CrashAndRestart
  BY <1>6, CrashStep DEF MapInv
<1>7. ASSUME NEW k \in Conns, ReclaimUpdate(k) \/ RegisterInsert(k) PROVE MapInv'
  <2>1. /\ \A c \in Codes : c # code[k] => rows'[c] = rows[c]
        /\ connections' = connections /\ {"update", "insert"} \subseteq Holding
    BY <1>7, MoveStep DEF StatusSet, Inserted, OtherRows, Holding
  <2> QED BY <1>4, <1>7, <2>1, MoveStep
<1>8. ASSUME NEW k \in Conns, Attach(k) PROVE MapInv'
  <2>1. pc[k] \in Opening /\ Opening \subseteq Holding
    BY <1>8, MoveStep DEF Moved, Opening, Holding
  <2>2. rows[code[k]].status = "online"
    BY <1>0, <2>1 DEF StatusInv
  <2> QED BY <1>4, <1>8, <2>1, <2>2, MoveStep DEF Opening
<1>9. ASSUME NEW k \in Conns, PolicyUpdate(k) \/ PolicyEntries(k) \/ PolicyCommit(k) PROVE MapInv'
  <2>1. /\ \A c \in Codes : c # code[k] => rows'[c] = rows[c]
        /\ rows'[code[k]].status = rows[code[k]].status
        /\ connections' = connections
    BY <1>9, MoveStep DEF PolicySet, OtherRows
  <2> QED BY <1>4, <1>9, <2>1, MoveStep DEF Holding
<1>10. ASSUME NEW k \in Conns, Reply(k) \/ Disconnect(k) \/ OfflineStays(k) PROVE MapInv'
  BY <1>4, <1>10, ServeStep DEF Holding
<1>11. ASSUME NEW k \in Conns, OfflineUpdate(k) PROVE MapInv'
  <2>1. connections' = connections /\ \A c \in Codes : c # code[k] => rows'[c] = rows[c]
    BY <1>11, ServeStep DEF StatusSet, OtherRows
  <2> QED BY <1>4, <1>11, <2>1, ServeStep DEF Holding
<1>12. ASSUME NEW k \in Conns, OfflineLeaves(k) \/ OfflineCommit(k) \/ ReplyFails(k) PROVE MapInv'
  BY <1>5, <1>12, ServeStep DEF Holding
<1>13. CASE ExpireUpdate
  <2>1. /\ UNCHANGED <<pc, code, connections, cur>> /\ spc # "exp_commit" /\ spc' = "exp_commit"
        /\ \A c \in Codes : c # cur.code => rows'[c] = rows[c]
    BY <1>13, ExpireStep DEF StatusSet, OtherRows, Swept
  <2> QED BY <1>0, <2>1 DEF MapInv
<1>14. CASE ExpireCommit
  <2>1. /\ UNCHANGED <<pc, code, rows>> /\ connections'[cur.code] = NoConn
        /\ \A c \in Codes : c # cur.code => connections'[c] = connections[c]
    BY <1>0, <1>14, ExpireStep DEF Swept
  <2> QED BY <1>0, <2>1 DEF MapInv
<1>15. CASE WarnUpdate
  <2>1. /\ UNCHANGED <<pc, code, connections>> /\ spc # "exp_commit"
        /\ \A c \in Codes : rows'[c].status = rows[c].status
    BY <1>15, KeepStep DEF WarnedSet, OtherRows, Swept
  <2> QED BY <1>0, <2>1 DEF MapInv
<1>16. CASE RetentionDelete
  <2>1. /\ UNCHANGED <<pc, code, connections>> /\ spc # "exp_commit"
        /\ \A c \in Codes : rows[c].status = "online" => rows'[c] = rows[c]
    BY <1>16, KeepStep DEF Swept
  <2> QED BY <1>0, <2>1 DEF MapInv
<1>17. ASSUME NEW t \in Tasks, CursorHop(t) PROVE MapInv'
  BY <1>1, <1>17, <1>0, CursorHops
<1>18. CASE SweepStart \/ SweepSnapshot \/ SweepNext \/ ExpireSelected \/ WarnCommit \/ RetentionCommit
  <2>1. UNCHANGED <<rows, connections, pc, code>>
    BY <1>18, SweepStep, ExpireStep, KeepStep, QuietCases
  <2>2. spc # "exp_commit"
    BY <1>18, SweepStep, ExpireStep, KeepStep DEF Swept
  <2> QED BY <1>0, <2>1, <2>2 DEF MapInv
<1>19. CASE Visits \/ Tick \/ \E k \in Conns : HeartbeatTimeout(k)
  BY <1>1, <1>19 DEF Visits, Tick, HeartbeatTimeout, registry, handler, sweep
<1>20. ASSUME NEW k \in Conns, DisconnectFails(k) PROVE MapInv'
  BY <1>0, <1>20, FailStep DEF MapInv, Dropped, Elsewhere
<1> QED BY <1>2, <1>3, <1>6, <1>7, <1>8, <1>9, <1>10, <1>11, <1>12, <1>13, <1>14, <1>15, <1>16,
           <1>17, <1>18, <1>19, <1>20, Cases

\* A stranded tunnel stays closed and its code unclaimed: its row is ONLINE, so
\* nobody takes the code, until the sweep removes both.
LEMMA StrandKept ==
  ASSUME Faults = {}, Inv, [Next]_vars
  PROVE  StrandInv'
<1> USE ConstantsAssumption
<1>0. /\ TypeOK /\ QueueInv /\ ClaimInv /\ HolderInv /\ StatusInv /\ MapInv /\ StrandInv /\ SweepInv
      /\ connections \in [Codes -> Conns \cup {NoConn}] /\ closed \in [Conns -> BOOLEAN]
      /\ sweepNow \in Nat /\ now \in Nat /\ \A c \in Codes : rows[c].expires \in Int
  BY DEF Inv, TypeOK, Row
<1>1. ASSUME UNCHANGED <<pc, code>>, \A c \in Codes : connections'[c] \in {connections[c], NoConn},
             \A k \in Conns : closed[k] => closed'[k]
      PROVE  StrandInv'
  BY <1>0, <1>1 DEF StrandInv, Stranded
<1>2. ASSUME NEW k \in Conns, Elsewhere(k), UNCHANGED <<connections, closed>>,
             pc[k] # "failed", pc'[k] # "failed", pc'[k] \notin Holding
      PROVE  StrandInv'
  BY <1>0, <1>2 DEF StrandInv, Stranded, Elsewhere
<1>3. ASSUME NEW k \in Conns, NEW c \in Codes, Take(k, c) PROVE StrandInv'
  <2>1. Taken(k, c)
    BY <1>3, TakeStep
  <2>2. ~Stranded(c)
    <3> SUFFICES ASSUME Stranded(c) PROVE FALSE
      OBVIOUS
    <3>1. rows[c].status \in {"absent", "offline"} /\ (rows[c].status = "offline" => ~Past(rows[c], now))
      BY <2>1 DEF Taken
    <3>2. Doomed(c)
      BY <1>0, <3>1 DEF MapInv, Stranded, Doomed, InHand, ExpPcs
    <3> QED BY <1>0, <3>1, <3>2 DEF SweepInv, Past
  <2>3. /\ \A j \in Conns : j # k => pc'[j] = pc[j] /\ code'[j] = code[j]
        /\ pc'[k] # "failed" /\ pc[k] # "failed" /\ code'[k] = c /\ UNCHANGED <<connections, closed>>
    BY <2>1 DEF Taken, Elsewhere
  <2> QED BY <1>0, <2>2, <2>3 DEF StrandInv, Stranded
<1>4. ASSUME NEW k \in Conns, NEW p \in Holding, NEW q, Moved(k, p, q), q # "failed",
             \A c \in Codes : connections'[c] \in {connections[c], k, NoConn},
             \A j \in Conns : closed[j] => closed'[j]
      PROVE  StrandInv'
  <2>1. /\ \A j \in Conns : j # k => pc'[j] = pc[j] /\ code'[j] = code[j]
        /\ pc[k] = p /\ pc'[k] = q /\ code'[k] = code[k] /\ p # "failed"
    BY <1>4 DEF Moved, Elsewhere, Holding, Opening, Attached
  <2> QED BY <1>0, <1>4, <2>1 DEF StrandInv, Stranded
<1>5. ASSUME NEW k \in Conns, NEW p \in Holding, Left(k, p), connections'[code[k]] = NoConn,
             \A c \in Codes : c # code[k] => connections'[c] = connections[c]
      PROVE  StrandInv'
  <2>1. /\ \A j \in Conns : j # k => pc'[j] = pc[j] /\ code'[j] = code[j]
        /\ pc[k] = p /\ pc'[k] \in {"gone", "failed"} /\ p # "failed" /\ closed' = closed
    BY <1>5 DEF Left, Elsewhere, Holding, Opening, Attached
  <2>2. \A c \in Codes : c # code[k] => connections[c] # k
    BY <1>0 DEF MapInv
  <2>3. ASSUME NEW c \in Codes, Stranded(c)' PROVE Stranded(c) /\ connections'[c] = connections[c]
    BY <1>0, <1>5, <2>1, <2>2, <2>3 DEF Stranded
  <2>4. {"gone", "failed"} \cap Holding = {}
    BY DEF Holding, Opening, Attached
  <2> QED BY <1>0, <2>1, <2>3, <2>4 DEF StrandInv
<1>6. CASE CrashAndRestart
  BY <1>6, CrashStep DEF StrandInv, Stranded
<1>7. ASSUME NEW k \in Conns, Seek(k) PROVE StrandInv'
  BY <1>0, <1>2, <1>7, SeekStep DEF Sought, Outside, ClaimSelects, Holding, Opening, Attached
<1>8. ASSUME NEW k \in Conns, ReclaimUpdate(k) \/ RegisterInsert(k) \/ Attach(k) PROVE StrandInv'
  <2>1. \A c \in Codes : connections'[c] \in {connections[c], k, NoConn}
    BY <1>8, MoveStep
  <2> QED BY <1>4, <1>8, <2>1, MoveStep DEF Holding, Opening
<1>9. ASSUME NEW k \in Conns, PolicyUpdate(k) \/ PolicyEntries(k) \/ PolicyCommit(k) PROVE StrandInv'
  BY <1>4, <1>9, MoveStep DEF Holding, Attached
<1>10. ASSUME NEW k \in Conns, Reply(k) \/ Disconnect(k) \/ OfflineStays(k) \/ OfflineUpdate(k) PROVE StrandInv'
  <2>1. connections' = connections /\ \A j \in Conns : closed[j] => closed'[j]
    BY <1>10, ServeStep DEF Closes
  <2> QED BY <1>4, <1>10, <2>1, ServeStep DEF Holding, Attached
<1>11. ASSUME NEW k \in Conns, OfflineLeaves(k) \/ OfflineCommit(k) \/ ReplyFails(k) PROVE StrandInv'
  BY <1>5, <1>11, ServeStep DEF Holding, Attached
<1>12. ASSUME NEW k \in Conns, DisconnectFails(k) PROVE StrandInv'
  <2>1. /\ \A j \in Conns : j # k => pc'[j] = pc[j] /\ code'[j] = code[j] /\ closed'[j] = closed[j]
        /\ pc[k] = "serving" /\ pc'[k] = "failed" /\ closed'[k] /\ connections' = connections
    BY <1>12, FailStep DEF Dropped, Elsewhere, Closes
  <2>2. "serving" \in Holding /\ "failed" \notin Holding
    BY DEF Holding, Opening, Attached
  <2>3. ASSUME NEW c \in Codes, connections[c] = k, NEW j \in Conns, pc'[j] \in Holding PROVE code'[j] # c
    BY <1>0, <2>1, <2>2, <2>3 DEF MapInv, HolderInv
  <2> QED BY <1>0, <2>1, <2>2, <2>3 DEF StrandInv, Stranded
<1>13. CASE \/ \E t \in Tasks : CursorHop(t)
            \/ \E k \in Conns : HeartbeatTimeout(k)
            \/ SweepStart \/ SweepSnapshot \/ SweepNext
            \/ ExpireSelected \/ ExpireUpdate \/ ExpireCommit
            \/ WarnUpdate \/ WarnCommit \/ RetentionDelete \/ RetentionCommit
            \/ Visits \/ Tick
  <2>1. UNCHANGED <<pc, code>>
    BY <1>13, QuietCases
  <2>2. CASE \E k \in Conns : HeartbeatTimeout(k)
    <3>1. connections' = connections /\ \A k \in Conns : closed[k] => closed'[k]
      BY <1>0, <2>2 DEF HeartbeatTimeout, registry
    <3> QED BY <1>1, <2>1, <3>1
  <2>3. CASE ExpireCommit
    BY <1>1, <2>1, <2>3, ExpireStep
  <2>4. CASE ~ExpireCommit /\ ~\E k \in Conns : HeartbeatTimeout(k)
    <3>1. UNCHANGED <<connections, closed>>
      BY <1>13, <2>4, SweepStep, ExpireStep, KeepStep DEF CursorHop, Visits, Tick, registry, handler
    <3> QED BY <1>1, <2>1, <3>1
  <2> QED BY <2>2, <2>3, <2>4
<1> QED BY <1>3, <1>6, <1>7, <1>8, <1>9, <1>10, <1>11, <1>12, <1>13, Cases

LEMMA SecretKept ==
  ASSUME Faults = {}, Inv, [Next]_vars
  PROVE  SecretInv'
<1> USE ConstantsAssumption
<1> USE DEF Attached, Filing
<1>0. /\ TypeOK /\ QueueInv /\ ClaimInv /\ HolderInv /\ MapInv /\ SecretInv
      /\ connections \in [Codes -> Conns \cup {NoConn}] /\ secrets \in [Codes -> Conns \cup {NoConn}]
      /\ \A k \in Conns : pc[k] \in Filing => pc[k] \in Holding /\ code[k] \in Codes
      /\ \A k \in Conns : pc[k] \in Holding => code[k] \in Codes
  BY DEF Inv, TypeOK, ClaimInv, Holding
<1>1. ASSUME UNCHANGED <<pc, code, connections, secrets>> PROVE SecretInv'
  BY <1>0, <1>1 DEF SecretInv
<1>2. ASSUME NEW k \in Conns, Elsewhere(k), UNCHANGED <<connections, secrets>>, pc'[k] \notin Filing
      PROVE  SecretInv'
  BY <1>0, <1>2 DEF SecretInv, Elsewhere
<1>3. ASSUME NEW k \in Conns, NEW c \in Codes, Take(k, c) PROVE SecretInv'
  BY <1>2, <1>3, TakeStep DEF Taken
<1>4. ASSUME NEW k \in Conns, NEW p \in Filing, NEW q, Moved(k, p, q), connections' = connections,
             \/ q \in Filing /\ secrets' = secrets
             \/ /\ q = "reply" /\ secrets'[code[k]] \in {k, secrets[code[k]]}
                /\ \A c \in Codes : c # code[k] => secrets'[c] = secrets[c]
      PROVE  SecretInv'
  <2>1. /\ \A j \in Conns : j # k => pc'[j] = pc[j] /\ code'[j] = code[j]
        /\ pc[k] = p /\ pc'[k] = q /\ code'[k] = code[k] /\ code[k] \in Codes
    BY <1>4 DEF Moved, Elsewhere
  <2>2. connections[code[k]] = k
    BY <1>0, <2>1 DEF SecretInv
  <2>3. CASE q \in Filing /\ secrets' = secrets
    <3>1. \A c \in Codes : secrets[c] # k
      BY <1>0, <2>1 DEF SecretInv
    <3> QED BY <1>0, <1>4, <2>1, <2>2, <2>3, <3>1 DEF SecretInv
  <2>4. CASE /\ q = "reply" /\ secrets'[code[k]] \in {k, secrets[code[k]]}
             /\ \A c \in Codes : c # code[k] => secrets'[c] = secrets[c]
    BY <1>0, <1>4, <2>1, <2>2, <2>4 DEF SecretInv
  <2> QED BY <1>4, <2>3, <2>4
<1>5. ASSUME NEW k \in Conns, pc[k] \in Holding, Elsewhere(k), pc'[k] \notin Filing,
             connections'[code[k]] = NoConn \/ connections' = connections, secrets'[code[k]] = NoConn,
             \A c \in Codes : c # code[k] => secrets'[c] = secrets[c] /\ connections'[c] = connections[c]
      PROVE  SecretInv'
  <2>1. \A j \in Conns : j # k => pc'[j] = pc[j] /\ code'[j] = code[j]
    BY <1>5 DEF Elsewhere
  <2>2. \A j \in Conns : j # k /\ pc[j] \in Filing => code[j] # code[k]
    BY <1>0, <1>5 DEF HolderInv
  <2>3. \A j \in Conns : pc'[j] \in Filing => j # k /\ connections'[code'[j]] = j
    BY <1>0, <1>5, <2>1, <2>2 DEF SecretInv
  <2>4. \A c \in Codes : c # code[k] => connections[c] # k
    BY <1>0 DEF MapInv
  <2>5. ASSUME NEW c \in Codes, secrets'[c] # NoConn
        PROVE  connections'[c] = secrets'[c] /\ pc'[secrets'[c]] \notin Filing
    BY <1>0, <1>5, <2>1, <2>4, <2>5 DEF SecretInv
  <2> QED BY <2>3, <2>5 DEF SecretInv
<1>6. CASE CrashAndRestart
  BY <1>6, CrashStep DEF SecretInv
<1>7. ASSUME NEW k \in Conns, ReclaimUpdate(k) \/ RegisterInsert(k) PROVE SecretInv'
  BY <1>2, <1>7, MoveStep DEF Moved
<1>8. ASSUME NEW k \in Conns, Attach(k) PROVE SecretInv'
  <2>1. /\ \A j \in Conns : j # k => pc'[j] = pc[j] /\ code'[j] = code[j]
        /\ pc[k] \in Opening /\ pc'[k] = "policy" /\ code'[k] = code[k] /\ code[k] \in Codes
        /\ connections'[code[k]] = k /\ secrets' = secrets
        /\ \A c \in Codes : c # code[k] => connections'[c] = connections[c]
    BY <1>8, MoveStep DEF Moved, Elsewhere, Opening
  <2>2. Opening \subseteq Holding /\ Attached \subseteq Holding /\ pc[k] \notin Attached \cup {"failed"}
    BY <2>1 DEF Holding, Opening
  <2>3. \A j \in Conns : j # k /\ pc[j] \in Filing => code[j] # code[k]
    BY <1>0, <2>1, <2>2 DEF HolderInv
  <2>4. connections[code[k]] = NoConn
    BY <1>0, <2>1, <2>2 DEF Inv, MapInv, HolderInv, StrandInv, Stranded
  <2>5. \A c \in Codes : connections[c] # k
    BY <1>0, <2>2 DEF MapInv
  <2>6. secrets[code[k]] = NoConn
    BY <1>0, <2>1, <2>4 DEF SecretInv
  <2> QED BY <1>0, <2>1, <2>3, <2>5, <2>6 DEF SecretInv
<1>9. ASSUME NEW k \in Conns, PolicyUpdate(k) \/ PolicyEntries(k) \/ PolicyCommit(k) PROVE SecretInv'
  BY <1>4, <1>9, MoveStep
<1>10. ASSUME NEW k \in Conns, Reply(k) \/ Disconnect(k) \/ OfflineStays(k) \/ OfflineUpdate(k) PROVE SecretInv'
  BY <1>2, <1>10, ServeStep DEF Moved
<1>11. ASSUME NEW k \in Conns, OfflineLeaves(k) \/ OfflineCommit(k) PROVE SecretInv'
  BY <1>5, <1>11, ServeStep DEF Left, Holding
<1>12. ASSUME NEW k \in Conns, ReplyFails(k) \/ DisconnectFails(k) \/ Seek(k) PROVE SecretInv'
  BY <1>0, <1>2, <1>12, ServeStep, FailStep, SeekStep DEF Left, Dropped, Sought, Outside, ClaimSelects
<1>13. CASE ExpireCommit
  <2>1. /\ UNCHANGED <<pc, code>> /\ connections'[cur.code] = NoConn /\ secrets'[cur.code] = NoConn
        /\ \A c \in Codes : c # cur.code => connections'[c] = connections[c] /\ secrets'[c] = secrets[c]
        /\ spc = "exp_commit" /\ cur.code \in Codes
    BY <1>0, <1>13, ExpireStep DEF Swept, TypeOK, Item
  <2>2. \A k \in Conns : code[k] = cur.code => pc[k] \notin Filing
    BY <2>1 DEF Inv, OrderInv, InHand, ExpPcs
  <2> QED BY <1>0, <2>1, <2>2 DEF SecretInv
<1>14. CASE \/ \E t \in Tasks : CursorHop(t)
            \/ \E k \in Conns : HeartbeatTimeout(k)
            \/ SweepStart \/ SweepSnapshot \/ SweepNext
            \/ ExpireSelected \/ ExpireUpdate
            \/ WarnUpdate \/ WarnCommit \/ RetentionDelete \/ RetentionCommit
            \/ Visits \/ Tick
  <2>1. UNCHANGED <<pc, code>>
    BY <1>14, QuietCases
  <2>2. UNCHANGED <<connections, secrets>>
    BY <1>14, SweepStep, ExpireStep, KeepStep DEF CursorHop, HeartbeatTimeout, Visits, Tick, registry
  <2> QED BY <1>1, <2>1, <2>2
<1> QED BY <1>3, <1>6, <1>7, <1>8, <1>9, <1>10, <1>11, <1>12, <1>13, <1>14, Cases

LEMMA ClosedKept ==
  ASSUME Faults = {}, Inv, [Next]_vars
  PROVE  ClosedInv'
<1> USE ConstantsAssumption
<1> USE DEF Claiming, ClaimSelects
<1>0. /\ TypeOK /\ QueueInv /\ ClaimInv /\ HolderInv /\ StatusInv /\ ClosedInv /\ SweepInv /\ OrderInv
      /\ \A k \in Conns : pc[k] \in Holding => code[k] \in Codes
      /\ closed \in [Conns -> BOOLEAN]
  BY DEF Inv, TypeOK, ClaimInv
<1>1. CASE UNCHANGED <<pc, code, rows, connections, secrets, closed>>
  BY <1>0, <1>1 DEF ClosedInv
<1>2. ASSUME NEW k \in Conns, Seek(k) PROVE ClosedInv'
  BY <1>0, <1>2, SeekStep DEF ClosedInv, Sought, Elsewhere, Outside
<1>3. ASSUME NEW k \in Conns, NEW c \in Codes, Take(k, c) PROVE ClosedInv'
  BY <1>0, <1>3, TakeStep DEF ClosedInv, Taken, Elsewhere
<1>4. ASSUME NEW k \in Conns, NEW p \in Holding, NEW q, Moved(k, p, q),
             \A c \in Codes : c # code[k] =>
               rows'[c] = rows[c] /\ connections'[c] = connections[c] /\ secrets'[c] = secrets[c],
             \A j \in Conns : j # k => closed'[j] = closed[j],
             \/ closed'[k] = closed[k] /\ p \in {"update", "insert", "reclaimed", "registered", "policy", "entries", "saved"}
             \/ q \in {"serving", "off_select", "off_update", "off_commit"}
      PROVE  ClosedInv'
  <2>1. \A j \in Conns : j # k /\ pc[j] = "reply" => code[j] # code[k] /\ code[j] \in Codes
    BY <1>0, <1>4 DEF HolderInv, Moved, Holding, Attached
  <2>2. \A j \in Conns : j # k => pc'[j] = pc[j] /\ code'[j] = code[j]
    BY <1>4 DEF Moved, Elsewhere
  <2>3. pc[k] = p /\ pc'[k] = q
    BY <1>4 DEF Moved
  <2> QED BY <1>0, <1>4, <2>1, <2>2, <2>3 DEF ClosedInv
<1>5. ASSUME NEW k \in Conns, NEW p \in Holding, Left(k, p),
             \A c \in Codes : c # code[k] => connections'[c] = connections[c] /\ secrets'[c] = secrets[c]
      PROVE  ClosedInv'
  <2>1. \A j \in Conns : j # k /\ pc[j] = "reply" => code[j] # code[k] /\ code[j] \in Codes
    BY <1>0, <1>5 DEF HolderInv, Left, Holding, Attached
  <2> QED BY <1>0, <1>5, <2>1 DEF ClosedInv, Left, Elsewhere
<1>6. CASE CrashAndRestart
  BY <1>6, CrashStep DEF ClosedInv
<1>7. ASSUME NEW k \in Conns, ReclaimUpdate(k) \/ RegisterInsert(k) \/ PolicyUpdate(k) PROVE ClosedInv'
  <2>1. \A c \in Codes : c # code[k] => rows'[c] = rows[c]
    BY <1>7, MoveStep DEF StatusSet, Inserted, PolicySet, OtherRows
  <2> QED BY <1>4, <1>7, <2>1, MoveStep DEF Holding, Attached
<1>8. ASSUME NEW k \in Conns, Attach(k) \/ PolicyEntries(k) \/ PolicyCommit(k) PROVE ClosedInv'
  BY <1>4, <1>8, MoveStep DEF Holding, Opening, Attached
<1>9. ASSUME NEW k \in Conns, Reply(k) \/ Disconnect(k) \/ OfflineStays(k) PROVE ClosedInv'
  BY <1>4, <1>9, ServeStep DEF Holding, Attached, Closes
<1>10. ASSUME NEW k \in Conns, OfflineUpdate(k) PROVE ClosedInv'
  <2>1. \A c \in Codes : c # code[k] => rows'[c] = rows[c]
    BY <1>10, ServeStep DEF StatusSet, OtherRows
  <2> QED BY <1>4, <1>10, <2>1, ServeStep DEF Holding, Attached
<1>11. ASSUME NEW k \in Conns, OfflineLeaves(k) \/ OfflineCommit(k) \/ ReplyFails(k) PROVE ClosedInv'
  BY <1>5, <1>11, ServeStep DEF Holding, Attached
<1>12. ASSUME NEW k \in Conns, HeartbeatTimeout(k) PROVE ClosedInv'
  BY <1>0, <1>12 DEF ClosedInv, HeartbeatTimeout, registry
<1>13. CASE ExpireUpdate
  <2>1. /\ UNCHANGED <<pc, code, connections, secrets, closed>>
        /\ rows'[cur.code].status = "expired"
        /\ \A c \in Codes : c # cur.code => rows'[c] = rows[c]
    BY <1>13, ExpireStep DEF StatusSet, OtherRows, Swept
  <2> QED BY <1>0, <2>1 DEF ClosedInv, Holding, Attached
<1>14. CASE ExpireCommit
  <2>1. /\ UNCHANGED <<pc, code, rows>> /\ spc = "exp_commit" /\ cur.code \in Codes
        /\ connections'[cur.code] = NoConn /\ secrets'[cur.code] = NoConn
        /\ \A c \in Codes : c # cur.code => connections'[c] = connections[c] /\ secrets'[c] = secrets[c]
        /\ \A k \in Conns : closed'[k] = (closed[k] \/ k = cur.conn)
    BY <1>0, <1>14, ExpireStep DEF Swept, TypeOK, Item
  <2>2. ASSUME NEW k \in Conns, k = cur.conn
        PROVE  pc[k] = "gone" \/ (code[k] = cur.code /\ pc[k] \in Attached \cup {"failed"})
    BY <1>0, <2>2 DEF SweepInv
  <2>3. ASSUME NEW k \in Conns, code[k] = cur.code PROVE pc[k] \notin {"policy", "entries", "saved"}
    BY <1>0, <2>1, <2>3 DEF OrderInv, InHand, ExpPcs
  <2>4. ASSUME NEW k \in Conns, pc[k] = "reply", closed'[k]
        PROVE  /\ connections'[code[k]] = NoConn /\ secrets'[code[k]] = NoConn
               /\ rows'[code[k]].status = "expired"
    <3>1. CASE k = cur.conn
      <4>1. code[k] = cur.code
        BY <2>2, <2>4, <3>1
      <4>2. rows[cur.code].status \in {"online", "expired"}
        BY <1>0, <2>4, <4>1 DEF StatusInv, Current, Attached
      <4>3. rows[cur.code].status \in {"offline", "expired"}
        BY <1>0, <2>1 DEF SweepInv
      <4> QED BY <2>1, <4>1, <4>2, <4>3
    <3>2. CASE closed[k]
      BY <1>0, <2>1, <2>4, <3>2 DEF ClosedInv, Holding, Attached
    <3> QED BY <2>1, <2>4, <3>1, <3>2
  <2>5. ASSUME NEW k \in Conns, pc[k] \in {"idle", "policy", "entries", "saved"} \cup Claiming
        PROVE  ~closed'[k]
    BY <1>0, <2>1, <2>2, <2>3, <2>5 DEF ClosedInv, Attached
  <2> QED BY <2>1, <2>4, <2>5 DEF ClosedInv
<1>15. CASE WarnUpdate
  <2>1. /\ UNCHANGED <<pc, code, connections, secrets, closed>>
        /\ \A c \in Codes : rows'[c].status = rows[c].status
    BY <1>15, KeepStep DEF WarnedSet, OtherRows, Swept
  <2> QED BY <1>0, <2>1 DEF ClosedInv, Holding, Attached
<1>16. CASE RetentionDelete
  <2>1. /\ UNCHANGED <<pc, code, connections, secrets, closed>> /\ spc = "retain"
        /\ \A c \in Codes : rows'[c] = rows[c] \/
             (rows[c].status = "expired" /\ rows[c].expires < sweepNow - Retention)
    BY <1>16, KeepStep DEF Swept
  <2>2. \A k \in Conns : pc[k] = "reply" /\ rows[code[k]].status = "expired" => rows[code[k]].expires >= now
    BY <2>1 DEF Inv, TimeInv, Attached
  <2>3. \A c \in Codes : rows[c].expires >= now => ~(rows[c].expires < sweepNow - Retention)
    BY <1>0 DEF SweepInv, TypeOK, Row
  <2>4. \A k \in Conns : pc[k] = "reply" => code[k] \in Codes
    BY <1>0 DEF Holding, Attached
  <2> QED BY <1>0, <2>1, <2>2, <2>3, <2>4 DEF ClosedInv
<1>17. ASSUME NEW t \in Tasks, CursorHop(t) PROVE ClosedInv'
  BY <1>1, <1>17, <1>0, CursorHops
<1>18. CASE SweepStart \/ SweepSnapshot \/ SweepNext \/ ExpireSelected \/ WarnCommit \/ RetentionCommit
  <2>1. UNCHANGED <<rows, connections, secrets, closed>>
    BY <1>18, SweepStep, ExpireStep, KeepStep
  <2> QED BY <1>1, <1>18, <2>1, QuietCases
<1>19. CASE Visits \/ Tick
  BY <1>1, <1>19 DEF Visits, Tick, registry, handler
<1>20. ASSUME NEW k \in Conns, DisconnectFails(k) PROVE ClosedInv'
  <2>1. /\ \A j \in Conns : j # k => pc'[j] = pc[j] /\ code'[j] = code[j] /\ closed'[j] = closed[j]
        /\ pc'[k] = "failed" /\ UNCHANGED <<rows, connections, secrets>>
    BY <1>20, FailStep DEF Dropped, Elsewhere, Closes
  <2>2. pc'[k] \notin {"idle", "policy", "entries", "saved"} \cup Claiming /\ pc'[k] # "reply"
    BY <2>1 DEF Claiming, ClaimSelects
  <2> QED BY <1>0, <2>1, <2>2 DEF ClosedInv
<1> QED BY <1>2, <1>3, <1>6, <1>7, <1>8, <1>9, <1>10, <1>11, <1>12, <1>13, <1>14, <1>15, <1>16,
           <1>17, <1>18, <1>19, <1>20, Cases

\* Steps that touch neither the table nor a handler's or the sweep's place.
Calm ==
    /\ KeepsTurns(Visitor) /\ KeepsReads(Visitor)
    /\ UNCHANGED <<rows, disk, connections, secrets, pc, want, code, until, spc, sweepNow, todo, cur>>

LEMMA CalmStep ==
  ASSUME Inv
  PROVE  /\ Visits \/ (\E k \in Conns : HeartbeatTimeout(k)) => Calm /\ now' = now
         /\ Tick => Calm /\ Settled /\ now' = now + 1
<1>0. TypeOK /\ QueueInv /\ Visitor \in Tasks
  BY DEF Inv, Tasks
<1>1. queue' = queue => KeepsTurns(Visitor)
  BY <1>0, Turns
<1> QED BY <1>1 DEF Visits, HeartbeatTimeout, Tick, Calm, KeepsReads, registry, handler, worker, sweep

LEMMA TimeKept ==
  ASSUME Faults = {}, Inv, [Next]_vars
  PROVE  TimeInv'
<1> USE ConstantsAssumption
<1> USE DEF Attached
<1>0. /\ TypeOK /\ QueueInv /\ ClaimInv /\ HolderInv /\ StatusInv /\ TimeInv /\ SweepInv
      /\ \A k \in Conns : pc[k] \in Holding => code[k] \in Codes
      /\ rows \in [Codes -> Row] /\ now \in Nat /\ sweepNow \in Nat
      /\ \A c \in Codes : rows[c].expires \in Int
  BY DEF Inv, TypeOK, ClaimInv, Row
<1>1. \A k \in Conns : k # Sweep /\ k # Visitor
  OBVIOUS
<1>2. ASSUME NEW k \in Conns, Seek(k) PROVE TimeInv'
  <2>1. Sought(k)
    BY <1>0, <1>2, SeekStep
  <2>2. \A j \in Conns : j # k /\ Before(j, Sweep) => Before(j, Sweep)'
    BY <2>1 DEF Sought, KeepsTurns
  <2> QED BY <1>0, <2>1, <2>2 DEF TimeInv, Sought, Elsewhere, Outside, ClaimSelects
<1>3. ASSUME NEW k \in Conns, NEW c \in Codes, Take(k, c) PROVE TimeInv'
  <2>1. Taken(k, c)
    BY <1>3, TakeStep
  <2>2. \A j \in Conns : j # k /\ Before(j, Sweep) => Before(j, Sweep)'
    BY <2>1 DEF Taken, KeepsTurns
  <2>3. ~Past(rows[c], now) => rows[c].expires = Never \/ rows[c].expires >= now
    BY <1>0 DEF Past
  <2> QED BY <1>0, <2>1, <2>2, <2>3 DEF TimeInv, Taken, Elsewhere
<1>4. ASSUME NEW k \in Conns, NEW p \in Holding, NEW q, Moved(k, p, q), OtherRows(code[k]),
             rows'[code[k]].status = "online" =>
               rows'[code[k]].expires = Never \/ rows'[code[k]].expires >= now,
             q \in Attached /\ rows'[code[k]].status = "expired" => rows'[code[k]].expires >= now,
             q \notin {"update", "insert"}
      PROVE  TimeInv'
  <2>1. \A j \in Conns : j # k /\ Before(j, Sweep) => Before(j, Sweep)'
    BY <1>4 DEF Moved, KeepsTurns
  <2>2. \A j \in Conns : j # k /\ pc[j] \in Holding => rows'[code[j]] = rows[code[j]]
    BY <1>0, <1>4 DEF HolderInv, Moved, OtherRows
  <2>3. /\ pc'[k] = q /\ code'[k] = code[k] /\ code[k] \in Codes
        /\ UNCHANGED <<now, until, spc, cur>>
        /\ \A j \in Conns : j # k => pc'[j] = pc[j] /\ code'[j] = code[j]
    BY <1>4 DEF Moved, Elsewhere
  <2>4. \A c \in Codes : rows'[c].status = "online" => rows'[c].expires = Never \/ rows'[c].expires >= now'
    BY <1>0, <1>4, <2>3 DEF TimeInv, OtherRows
  <2> QED BY <1>0, <1>4, <2>1, <2>2, <2>3, <2>4 DEF TimeInv, Holding
<1>5. ASSUME NEW k \in Conns, NEW p \in Holding, Left(k, p) PROVE TimeInv'
  <2>1. \A j \in Conns : j # k /\ Before(j, Sweep) => Before(j, Sweep)'
    BY <1>5 DEF Left, KeepsTurns
  <2>2. \A j \in Conns : j # k => pc'[j] = pc[j] /\ code'[j] = code[j] /\ until'[j] = until[j]
    BY <1>5 DEF Left, Elsewhere
  <2> QED BY <1>0, <1>5, <2>1, <2>2 DEF TimeInv, Left
<1>6. CASE CrashAndRestart
  <2>1. \A c \in Codes : rows'[c].status = "online" => rows'[c].expires = Never
    BY <1>6, CrashStep DEF DropboxRow, NoRow
  <2> QED BY <1>6, <2>1, CrashStep DEF TimeInv
<1>7. ASSUME NEW k \in Conns, ReclaimUpdate(k) PROVE TimeInv'
  <2>1. /\ Moved(k, "update", "reclaimed") /\ OtherRows(code[k]) /\ "update" \in Holding
        /\ rows'[code[k]].expires = rows[code[k]].expires
    BY <1>7, MoveStep DEF StatusSet, Holding
  <2>2. rows[code[k]].expires = Never \/ rows[code[k]].expires >= now
    BY <1>0, <2>1 DEF TimeInv, Moved
  <2> QED BY <1>4, <2>1, <2>2
<1>8. ASSUME NEW k \in Conns, RegisterInsert(k) PROVE TimeInv'
  <2>1. /\ Moved(k, "insert", "registered") /\ OtherRows(code[k]) /\ "insert" \in Holding
        /\ rows'[code[k]].expires = until[k]
    BY <1>8, MoveStep DEF Inserted, Holding
  <2>2. until[k] >= now
    BY <1>0, <2>1 DEF TimeInv, Moved
  <2> QED BY <1>4, <2>1, <2>2
<1>9. ASSUME NEW k \in Conns, Attach(k) \/ PolicyUpdate(k) \/ PolicyEntries(k) \/ PolicyCommit(k) PROVE TimeInv'
  <2>1. /\ pc[k] \in Opening \cup {"policy", "entries", "saved"} /\ code[k] \in Codes
        /\ OtherRows(code[k]) /\ rows'[code[k]].status = rows[code[k]].status
        /\ rows'[code[k]].expires = rows[code[k]].expires
    BY <1>9, MoveStep DEF PolicySet, OtherRows, Moved, Opening
  <2>2. /\ rows[code[k]].status = "expired" => rows[code[k]].expires >= now
        /\ rows[code[k]].status = "online" => rows[code[k]].expires = Never \/ rows[code[k]].expires >= now
    BY <1>0, <2>1 DEF TimeInv, StatusInv, Opening
  <2> QED BY <1>4, <1>9, <2>1, <2>2, MoveStep DEF Holding, Opening
<1>10. ASSUME NEW k \in Conns, Reply(k) \/ Disconnect(k) \/ OfflineStays(k) PROVE TimeInv'
  <2>1. pc[k] \in {"reply", "serving", "off_select"} /\ code[k] \in Codes /\ rows' = rows
    BY <1>10, ServeStep DEF Moved
  <2>2. /\ rows[code[k]].status = "expired" => rows[code[k]].expires >= now
        /\ rows[code[k]].status = "online" => rows[code[k]].expires = Never \/ rows[code[k]].expires >= now
    BY <1>0, <2>1 DEF TimeInv
  <2> QED BY <1>4, <1>10, <2>1, <2>2, ServeStep DEF Holding, OtherRows
<1>11. ASSUME NEW k \in Conns, OfflineUpdate(k) PROVE TimeInv'
  <2>1. Moved(k, "off_update", "off_commit") /\ OtherRows(code[k]) /\ rows'[code[k]].status = "offline"
    BY <1>11, ServeStep DEF StatusSet
  <2> QED BY <1>4, <2>1 DEF Holding
<1>12. ASSUME NEW k \in Conns, OfflineLeaves(k) \/ OfflineCommit(k) \/ ReplyFails(k) PROVE TimeInv'
  BY <1>5, <1>12, ServeStep DEF Holding
<1>13. CASE ExpireUpdate
  <2>1. /\ UNCHANGED <<pc, code, until, now, cur>> /\ spc = "exp_update" /\ spc' = "exp_commit"
        /\ cur.code \in Codes /\ rows'[cur.code].status = "expired"
        /\ rows'[cur.code].expires = rows[cur.code].expires /\ OtherRows(cur.code)
        /\ \A s : s # Sweep /\ In(s) => Before(s, Sweep)'
    BY <1>0, <1>13, ExpireStep DEF StatusSet, Swept, TypeOK, Item
  <2>2. Past(rows[cur.code], sweepNow) /\ \A k \in Conns : code[k] = cur.code => pc[k] # "update"
    BY <1>0, <2>1 DEF SweepInv, Doomed, InHand, ExpPcs
  <2>3. ASSUME NEW k \in Conns, pc[k] \in Attached, code[k] = cur.code
        PROVE  rows[cur.code].expires >= now \/ (pc[k] = "off_commit" /\ Before(k, Sweep)')
    <3>1. CASE rows[cur.code].status = "online"
      BY <1>0, <2>1, <2>2, <3>1 DEF TimeInv, Past
    <3>2. CASE rows[cur.code].status = "expired"
      BY <1>0, <2>1, <2>3, <3>2 DEF TimeInv
    <3>3. CASE pc[k] = "off_commit"
      <4>1. In(k)
        BY <1>0, <3>3 DEF QueueInv, DbPcs
      <4> QED BY <1>1, <2>1, <3>3, <4>1
    <3>4. pc[k] # "off_commit" => rows[code[k]].status \in {"online", "expired"}
      BY <1>0, <2>3 DEF StatusInv, Current
    <3> QED BY <2>3, <3>1, <3>2, <3>3, <3>4
  <2>4. ASSUME NEW k \in Conns, pc[k] \in Attached, code[k] # cur.code, rows'[code[k]].status = "expired"
        PROVE  rows'[code[k]].expires >= now
    BY <1>0, <2>1, <2>4 DEF TimeInv, OtherRows, Holding
  <2>5. \A c \in Codes : rows'[c].status = "online" => rows'[c].expires = Never \/ rows'[c].expires >= now
    BY <1>0, <2>1 DEF TimeInv, OtherRows
  <2>6. \A k \in Conns : pc[k] = "update" => rows'[code[k]] = rows[code[k]]
    BY <1>0, <2>1, <2>2 DEF OtherRows, Holding
  <2> QED BY <1>0, <2>1, <2>3, <2>4, <2>5, <2>6 DEF TimeInv
<1>14. CASE ExpireCommit
  <2>1. UNCHANGED <<pc, code, until, now, rows>> /\ \A s : ~Before(s, Sweep)
    BY <1>14, ExpireStep DEF Swept
  <2> QED BY <1>0, <2>1 DEF TimeInv
<1>15. CASE WarnUpdate
  <2>1. /\ UNCHANGED <<pc, code, until, now>> /\ spc # "exp_commit"
        /\ \A c \in Codes : rows'[c].status = rows[c].status /\ rows'[c].expires = rows[c].expires
    BY <1>15, KeepStep DEF WarnedSet, OtherRows, Swept
  <2> QED BY <1>0, <2>1 DEF TimeInv, Holding
<1>16. CASE RetentionDelete
  <2>1. /\ UNCHANGED <<pc, code, until, now>> /\ spc = "retain"
        /\ \A c \in Codes : rows'[c] = rows[c] \/ (rows'[c] = NoRow /\ rows[c].status = "expired")
    BY <1>16, KeepStep DEF Swept
  <2>2. NoRow.status = "absent"
    BY DEF NoRow
  <2>3. \A k \in Conns : pc[k] = "update" => rows'[code[k]] = rows[code[k]]
    BY <1>0, <2>1 DEF StatusInv, Holding
  <2> QED BY <1>0, <2>1, <2>2, <2>3 DEF TimeInv, Holding
<1>17. ASSUME NEW t \in Tasks, CursorHop(t) PROVE TimeInv'
  <2>1. /\ AtHead(t) /\ Requeue(t)
        /\ t \in Conns => pc[t] \in {"count", "off_select"} \cup ClaimSelects
        /\ UNCHANGED <<pc, code, until, now, rows, spc, cur>>
    BY <1>0, <1>17, CursorHops
  <2>2. \A k \in Conns : pc[k] = "off_commit" /\ Before(k, Sweep) => Before(k, Sweep)'
    BY <1>0, <2>1, Turns DEF KeepsTurns, ClaimSelects
  <2> QED BY <1>0, <2>1, <2>2 DEF TimeInv
<1>18. CASE SweepStart \/ SweepSnapshot \/ SweepNext \/ ExpireSelected \/ WarnCommit \/ RetentionCommit
  <2>1. UNCHANGED <<rows, pc, code, until>>
    BY <1>18, SweepStep, ExpireStep, KeepStep, QuietCases
  <2>2. spc # "exp_commit" /\ now' = now
    BY <1>18, SweepStep, ExpireStep, KeepStep DEF Swept
  <2> QED BY <1>0, <2>1, <2>2 DEF TimeInv
<1>19. CASE Calm /\ now' = now
  <2>1. \A k \in Conns : Before(k, Sweep) => Before(k, Sweep)'
    BY <1>1, <1>19 DEF Calm, KeepsTurns
  <2> QED BY <1>0, <1>19, <2>1 DEF TimeInv, Calm
<1>20. CASE Tick
  <2>1. Calm /\ Settled /\ now' = now + 1
    BY <1>20, CalmStep
  <2>2. \A c \in Codes : ~Past(rows[c], now) => rows[c].expires = Never \/ rows[c].expires >= now + 1
    BY <1>0 DEF Past
  <2>3. \A k \in Conns : now < until[k] => until[k] >= now + 1
    BY <1>0 DEF TypeOK
  <2> QED BY <1>0, <2>1, <2>2, <2>3 DEF TimeInv, Settled, Calm, Holding
<1>21. ASSUME NEW k \in Conns, DisconnectFails(k) PROVE TimeInv'
  BY <1>0, <1>21, FailStep DEF TimeInv, Dropped, Elsewhere, KeepsTurns
<1> QED BY <1>2, <1>3, <1>6, <1>7, <1>8, <1>9, <1>10, <1>11, <1>12, <1>13, <1>14, <1>15, <1>16,
           <1>17, <1>18, <1>19, <1>20, <1>21, Cases, CalmStep

\* The sweep does not move: what it is about to expire stays the same.
SweepStill ==
    /\ hop'[Sweep] = hop[Sweep] /\ seen'[Sweep] = seen[Sweep]
    /\ UNCHANGED <<spc, sweepNow, todo, cur>>

LEMMA SweepStays ==
  /\ SweepStill => \A c : /\ InSnapshot(c)' <=> InSnapshot(c)
                          /\ InTodo(c)' <=> InTodo(c)
                          /\ InHand(c)' <=> InHand(c)
                          /\ Doomed(c)' <=> Doomed(c)
  /\ \A t \in Tasks : t # Sweep /\ KeepsReads(t) /\ UNCHANGED <<spc, sweepNow, todo, cur>> => SweepStill
BY DEF SweepStill, KeepsReads, Doomed, InSnapshot, InTodo, InHand, Expires, Tasks

\* Nobody settles on a mount the sweep is going to expire: it is past its expiry.
LEMMA SweepKept ==
  ASSUME Faults = {}, Inv, [Next]_vars
  PROVE  SweepInv'
<1> USE ConstantsAssumption
<1>0. /\ TypeOK /\ QueueInv /\ ClaimInv /\ HolderInv /\ StatusInv /\ MapInv /\ SweepInv
      /\ \A k \in Conns : pc[k] \in Holding => code[k] \in Codes
      /\ rows \in [Codes -> Row] /\ now \in Nat /\ sweepNow \in Nat
      /\ \A c \in Codes : rows[c].expires \in Int
      /\ todo \subseteq Item /\ cur \in Item /\ cur.code \in Codes
  BY DEF Inv, TypeOK, ClaimInv, Row, Item
<1>1. /\ \A k \in Conns : k \in Tasks /\ k # Sweep /\ k # Visitor
      /\ Sweep \in Tasks /\ Visitor \in Tasks /\ Visitor # Sweep
  BY DEF Tasks
<1>2. \A c \in Codes : Doomed(c) =>
        /\ rows[c].status # "absent" /\ Past(rows[c], sweepNow) /\ Past(rows[c], now)
        /\ \A k \in Conns : code[k] = c => pc[k] \notin {"update", "insert"}
  BY <1>0 DEF SweepInv, Past
<1>3. ASSUME SweepStill, now' \in Nat, now' >= now,
             \A c \in Codes : Doomed(c) => rows'[c].status # "absent" /\ rows'[c].expires = rows[c].expires,
             \A k \in Conns : pc'[k] \in {"update", "insert"} =>
               (pc'[k] = pc[k] /\ code'[k] = code[k]) \/ ~Doomed(code'[k]),
             spc = "exp_commit" => rows'[cur.code].status \in {"offline", "expired"},
             \A k \in Conns :
               \/ pc'[k] = "gone" \/ pc[k] \notin {"gone", "failed"} \cup Attached
               \/ code'[k] = code[k] /\ pc[k] # "gone" /\ pc'[k] \in Attached \cup {"failed"}
               \/ code'[k] = code[k] /\ pc'[k] = pc[k]
      PROVE  SweepInv'
  <2>1. /\ UNCHANGED <<spc, sweepNow, todo, cur>>
        /\ \A c : Doomed(c)' <=> Doomed(c)
    BY <1>3, SweepStays DEF SweepStill
  <2>2. \A c \in Codes : Doomed(c)' =>
          /\ rows'[c].status # "absent" /\ Past(rows'[c], sweepNow')
          /\ \A k \in Conns : code'[k] = c => pc'[k] \notin {"update", "insert"}
    BY <1>2, <1>3, <2>1 DEF Past
  <2>3. \A i \in todo \cup {cur} : i.conn # NoConn =>
          i.conn \in Conns /\ (\/ pc[i.conn] = "gone"
                               \/ code[i.conn] = i.code /\ pc[i.conn] \in Attached \cup {"failed"})
    BY <1>0 DEF SweepInv, Item
  <2>4. \A i \in todo \cup {cur} : i.conn # NoConn =>
          \/ pc'[i.conn] = "gone"
          \/ code'[i.conn] = i.code /\ pc'[i.conn] \in Attached \cup {"failed"}
    BY <1>3, <2>3
  <2> QED BY <1>0, <1>3, <2>1, <2>2, <2>4 DEF SweepInv
<1>4. ASSUME UNCHANGED <<pc, code, now>>, sweepNow' \in {sweepNow, 0, now},
             \A c \in Codes : Doomed(c)' =>
               /\ Doomed(c) /\ sweepNow' = sweepNow
               /\ rows'[c].status # "absent" /\ rows'[c].expires = rows[c].expires,
             spc' \in {"idle", "active", "retain", "ret_commit"} => todo' = {},
             spc' = "exp_commit" => rows'[cur'.code].status = "expired",
             \A i \in todo' \cup {cur'} : i.conn # NoConn =>
               i \in todo \cup {cur} \/ (i.code \in Codes /\ i.conn = connections[i.code])
      PROVE  SweepInv'
  <2>1. \A c \in Codes : Doomed(c)' =>
          /\ rows'[c].status # "absent" /\ Past(rows'[c], sweepNow')
          /\ \A k \in Conns : code'[k] = c => pc'[k] \notin {"update", "insert"}
    BY <1>2, <1>4 DEF Past
  <2>2. \A i \in todo' \cup {cur'} : i.conn # NoConn =>
          \/ pc[i.conn] = "gone"
          \/ code[i.conn] = i.code /\ pc[i.conn] \in Attached \cup {"failed"}
    BY <1>0, <1>4 DEF SweepInv, MapInv
  <2>3. sweepNow' <= now'
    BY <1>0, <1>4 DEF SweepInv
  <2> QED BY <1>4, <2>1, <2>2, <2>3 DEF SweepInv
<1>5. ASSUME NEW k \in Conns, Seek(k) PROVE SweepInv'
  <2>1. Sought(k)
    BY <1>0, <1>5, SeekStep
  <2>2. SweepStill /\ rows' = rows /\ now' = now
    BY <1>1, <2>1, SweepStays DEF Sought
  <2>3. pc[k] \notin {"gone", "failed"} \cup Attached /\ pc'[k] \notin {"update", "insert"}
    BY <2>1 DEF Sought, Outside, ClaimSelects, Attached
  <2>4. \A j \in Conns : j # k => pc'[j] = pc[j] /\ code'[j] = code[j]
    BY <2>1 DEF Sought, Elsewhere
  <2>5. /\ \A c \in Codes : Doomed(c) => rows[c].status # "absent"
        /\ spc = "exp_commit" => rows[cur.code].status \in {"offline", "expired"}
    BY <1>0, <1>2 DEF SweepInv
  <2> QED BY <1>0, <1>3, <2>2, <2>3, <2>4, <2>5
<1>6. ASSUME NEW k \in Conns, NEW c \in Codes, Take(k, c) PROVE SweepInv'
  <2>1. Taken(k, c)
    BY <1>6, TakeStep
  <2>2. SweepStill /\ rows' = rows /\ now' = now
    BY <1>1, <2>1, SweepStays DEF Taken
  <2>3. pc[k] \notin {"gone", "failed"} \cup Attached /\ code'[k] = c
    BY <2>1 DEF Taken, Attached
  <2>4. \A j \in Conns : j # k => pc'[j] = pc[j] /\ code'[j] = code[j]
    BY <2>1 DEF Taken, Elsewhere
  <2>5. /\ \A d \in Codes : Doomed(d) => rows[d].status # "absent"
        /\ spc = "exp_commit" => rows[cur.code].status \in {"offline", "expired"}
    BY <1>0, <1>2 DEF SweepInv
  <2>6. ~Doomed(c)
    BY <1>2, <2>1 DEF Taken
  <2> QED BY <1>0, <1>3, <2>2, <2>3, <2>4, <2>5, <2>6
<1>7. ASSUME NEW k \in Conns, NEW p \in Holding, NEW q \in Holding, Moved(k, p, q), OtherRows(code[k]),
             q \notin {"update", "insert"}, p \in Attached => q \in Attached,
             \/ p \in {"update", "insert"}
             \/ /\ rows'[code[k]].expires = rows[code[k]].expires
                /\ rows'[code[k]].status \in {rows[code[k]].status, "offline"}
      PROVE  SweepInv'
  <2>1. SweepStill /\ now' = now /\ code[k] \in Codes
    BY <1>1, <1>7, SweepStays DEF Moved
  <2>2. \A j \in Conns : j # k => pc'[j] = pc[j] /\ code'[j] = code[j]
    BY <1>7 DEF Moved, Elsewhere
  <2>3. pc[k] = p /\ pc'[k] = q /\ code'[k] = code[k]
    BY <1>7 DEF Moved
  <2>4. p \in {"update", "insert"} => ~Doomed(code[k])
    BY <1>2, <2>1, <2>3
  <2>5. \A c \in Codes : Doomed(c) => rows'[c].status # "absent" /\ rows'[c].expires = rows[c].expires
    BY <1>2, <1>7, <2>4 DEF OtherRows
  <2>6. spc = "exp_commit" => Doomed(cur.code) /\ rows[cur.code].status \in {"offline", "expired"}
    BY <1>0 DEF SweepInv, Doomed, InHand, ExpPcs
  <2>7. spc = "exp_commit" => rows'[cur.code].status \in {"offline", "expired"}
    BY <1>0, <1>7, <2>4, <2>6 DEF OtherRows
  <2>8. q # "gone" /\ p \notin {"gone", "failed"}
    BY <1>7 DEF Holding, Opening, Attached
  <2> QED BY <1>0, <1>3, <1>7, <2>1, <2>2, <2>3, <2>5, <2>7, <2>8
<1>8. ASSUME NEW k \in Conns, NEW p \in Holding, Left(k, p) PROVE SweepInv'
  <2>1. SweepStill /\ rows' = rows /\ now' = now
    BY <1>1, <1>8, SweepStays DEF Left
  <2>2. \A j \in Conns : j # k => pc'[j] = pc[j] /\ code'[j] = code[j]
    BY <1>8 DEF Left, Elsewhere
  <2>3. /\ pc[k] \notin {"gone", "failed"}
        /\ pc'[k] = "gone" \/ (pc'[k] = "failed" /\ code'[k] = code[k])
    BY <1>8 DEF Left, Holding, Opening, Attached
  <2>5. /\ \A d \in Codes : Doomed(d) => rows[d].status # "absent"
        /\ spc = "exp_commit" => rows[cur.code].status \in {"offline", "expired"}
    BY <1>0, <1>2 DEF SweepInv
  <2> QED BY <1>0, <1>3, <2>1, <2>2, <2>3, <2>5

<1>9. CASE CrashAndRestart
  <2>1. /\ spc' = "idle" /\ sweepNow' = 0 /\ todo' = {} /\ cur' = NoItem /\ now' = now
        /\ hop'[Sweep] = 0
    BY <1>1, <1>9, CrashStep
  <2>2. \A c : ~Doomed(c)'
    BY <2>1 DEF Doomed, InSnapshot, InTodo, InHand, ExpPcs
  <2> QED BY <1>0, <2>1, <2>2 DEF SweepInv, NoItem
<1>10. ASSUME NEW k \in Conns, ReclaimUpdate(k) \/ RegisterInsert(k) PROVE SweepInv'
  <2>1. OtherRows(code[k])
    BY <1>10, MoveStep DEF StatusSet, Inserted
  <2> QED BY <1>7, <1>10, <2>1, MoveStep DEF Holding, Opening, Attached
<1>11. ASSUME NEW k \in Conns, Attach(k) \/ PolicyUpdate(k) \/ PolicyEntries(k) \/ PolicyCommit(k) PROVE SweepInv'
  <2>1. /\ OtherRows(code[k]) /\ rows'[code[k]].status = rows[code[k]].status
        /\ rows'[code[k]].expires = rows[code[k]].expires
    BY <1>11, MoveStep DEF PolicySet, OtherRows
  <2> QED BY <1>7, <1>11, <2>1, MoveStep DEF Holding, Opening, Attached
<1>12. ASSUME NEW k \in Conns, Reply(k) \/ Disconnect(k) \/ OfflineStays(k) \/ OfflineUpdate(k) PROVE SweepInv'
  <2>1. /\ OtherRows(code[k]) /\ rows'[code[k]].status \in {rows[code[k]].status, "offline"}
        /\ rows'[code[k]].expires = rows[code[k]].expires
    BY <1>12, ServeStep DEF StatusSet, OtherRows
  <2> QED BY <1>7, <1>12, <2>1, ServeStep DEF Holding, Attached
<1>13. ASSUME NEW k \in Conns, OfflineLeaves(k) \/ OfflineCommit(k) \/ ReplyFails(k) PROVE SweepInv'
  BY <1>8, <1>13, ServeStep DEF Holding, Attached
<1>14. CASE SweepStart
  <2>1. /\ UNCHANGED <<pc, code, now, rows, todo, cur>> /\ sweepNow' = now
        /\ spc = "idle" /\ spc' = "active" /\ hop'[Sweep] = 0
    BY <1>14, SweepStep DEF Swept
  <2>2. todo = {}
    BY <1>0, <2>1 DEF SweepInv
  <2>3. \A c : ~Doomed(c)'
    BY <2>1, <2>2 DEF Doomed, InSnapshot, InTodo, InHand, ExpPcs
  <2> QED BY <1>4, <2>1, <2>2, <2>3
<1>15. CASE SweepSnapshot
  <2>1. /\ UNCHANGED <<pc, code, now, rows, sweepNow, cur>>
        /\ spc = "active" /\ spc' = "next" /\ hop[Sweep] = 2
        /\ todo' = {Expiring(c) : c \in {d \in Codes : Expires(seen[Sweep][d])}}
              \cup {Warning(c) : c \in {d \in Codes : Warns(seen[Sweep][d])}}
    BY <1>15, SweepStep DEF Swept
  <2>2. ASSUME NEW i \in todo'
        PROVE  /\ i.code \in Codes /\ i.conn = connections[i.code]
               /\ i.act = "expire" => Expires(seen[Sweep][i.code])
    BY <2>1 DEF Expiring, Warning
  <2>3. \A c \in Codes : Doomed(c)' => Doomed(c)
    BY <2>1, <2>2 DEF Doomed, InSnapshot, InTodo, InHand, ExpPcs
  <2> QED BY <1>2, <1>4, <2>1, <2>2, <2>3
<1>16. CASE SweepNext
  <2>1. UNCHANGED <<pc, code, now>>
    BY <1>16, SweepStep DEF Swept
  <2>2. UNCHANGED <<rows, sweepNow>>
    BY <1>16, SweepStep
  <2>3. ASSUME NEW i \in todo, todo' = todo \ {i},
               \/ i.act = "expire" /\ Swept("next", "exp_select") /\ cur' = i
               \/ Swept("next", "warn_update") /\ cur' = i
               \/ Swept("next", "next") /\ cur' = cur
        PROVE  SweepInv'
    <3>1. /\ spc' \in {"exp_select", "warn_update", "next"} /\ cur' \in {i, cur}
          /\ spc' = "exp_select" => cur' = i /\ i.act = "expire"
      BY <2>3 DEF Swept
    <3>2. \A c \in Codes : Doomed(c)' => Doomed(c)
      BY <2>3, <3>1 DEF Doomed, InSnapshot, InTodo, InHand, ExpPcs
    <3> QED BY <1>2, <1>4, <2>1, <2>2, <2>3, <3>1, <3>2
  <2>4. ASSUME todo = {}, Swept("next", "retain"), UNCHANGED <<todo, cur>> PROVE SweepInv'
    <3>1. \A c \in Codes : ~Doomed(c)'
      BY <2>4 DEF Swept, Doomed, InSnapshot, InTodo, InHand, ExpPcs
    <3>2. spc' = "retain"
      BY <2>4 DEF Swept
    <3> QED BY <1>4, <2>1, <2>2, <2>4, <3>1, <3>2
  <2> QED BY <1>16, <2>3, <2>4, SweepStep
<1>17. CASE ExpireSelected
  <2>1. /\ UNCHANGED <<pc, code, now, rows, sweepNow, todo>> /\ spc = "exp_select"
        /\ (spc' = "next" /\ cur' = NoItem) \/ (spc' = "exp_update" /\ cur' = cur)
    BY <1>17, ExpireStep DEF Swept
  <2>2. \A c \in Codes : Doomed(c)' => Doomed(c)
    BY <2>1 DEF Doomed, InSnapshot, InTodo, InHand, ExpPcs
  <2> QED BY <1>2, <1>4, <2>1, <2>2 DEF NoItem
<1>18. CASE ExpireUpdate
  <2>1. /\ UNCHANGED <<pc, code, now, sweepNow, todo, cur>> /\ spc = "exp_update" /\ spc' = "exp_commit"
        /\ rows'[cur.code].status = "expired" /\ rows'[cur.code].expires = rows[cur.code].expires
        /\ OtherRows(cur.code)
    BY <1>18, ExpireStep DEF Swept, StatusSet
  <2>2. \A c \in Codes : Doomed(c)' => Doomed(c)
    BY <2>1 DEF Doomed, InSnapshot, InTodo, InHand, ExpPcs
  <2>3. \A c \in Codes : Doomed(c)' => rows'[c].status # "absent" /\ rows'[c].expires = rows[c].expires
    BY <1>2, <2>1, <2>2 DEF OtherRows
  <2> QED BY <1>4, <2>1, <2>2, <2>3
<1>19. CASE ExpireCommit \/ WarnCommit
  <2>1. /\ UNCHANGED <<pc, code, now, rows, sweepNow, todo>> /\ spc' = "next" /\ cur' = NoItem
    BY <1>19, ExpireStep, KeepStep DEF Swept
  <2>2. \A c \in Codes : Doomed(c)' => Doomed(c)
    BY <2>1 DEF Doomed, InSnapshot, InTodo, InHand, ExpPcs
  <2> QED BY <1>2, <1>4, <2>1, <2>2 DEF NoItem
<1>20. CASE WarnUpdate
  <2>1. /\ UNCHANGED <<pc, code, now, sweepNow, todo>> /\ spc' \in {"next", "warn_commit"}
        /\ cur' \in {NoItem, cur}
        /\ \A c \in Codes : rows'[c].status = rows[c].status /\ rows'[c].expires = rows[c].expires
    BY <1>20, KeepStep DEF Swept, WarnedSet, OtherRows
  <2>2. \A c \in Codes : Doomed(c)' => Doomed(c)
    BY <2>1 DEF Doomed, InSnapshot, InTodo, InHand, ExpPcs
  <2> QED BY <1>2, <1>4, <2>1, <2>2 DEF NoItem
<1>21. CASE RetentionDelete \/ RetentionCommit
  <2>1. /\ UNCHANGED <<pc, code, now, todo, cur>> /\ spc \in {"retain", "ret_commit"}
        /\ spc' \in {"ret_commit", "idle"} /\ sweepNow' \in {sweepNow, 0}
    BY <1>21, KeepStep DEF Swept
  <2>2. todo = {}
    BY <1>0, <2>1 DEF SweepInv
  <2>3. \A c : ~Doomed(c)'
    BY <2>1, <2>2 DEF Doomed, InSnapshot, InTodo, InHand, ExpPcs
  <2> QED BY <1>4, <2>1, <2>2, <2>3
<1>22. ASSUME NEW t \in Tasks, CursorHop(t) PROVE SweepInv'
  <2>1. /\ UNCHANGED <<pc, code, now, rows, spc, sweepNow, todo, cur>> /\ hop[t] \in {0, 1}
        /\ hop'[t] = hop[t] + 1 /\ \A s \in Tasks : s # t => hop'[s] = hop[s]
        /\ \A s \in Tasks : s # t \/ hop[t] = 1 => seen'[s] = seen[s]
        /\ t = Sweep /\ hop[t] = 0 /\ spc = "active" => \A c \in Codes : seen'[t][c] = rows[c]
    BY <1>0, <1>22, CursorHops
  <2>2. \A c \in Codes : Doomed(c)' => Doomed(c) \/ (rows[c].status = "online" /\ Past(rows[c], sweepNow))
    BY <1>1, <2>1 DEF Doomed, InSnapshot, InTodo, InHand, ExpPcs, Expires
  <2>3. \A k \in Conns : /\ pc[k] = "insert" => rows[code[k]].status = "absent"
                         /\ pc[k] = "update" => rows[code[k]].status = "offline"
    BY <1>0 DEF StatusInv
  <2> QED BY <1>0, <2>1, <2>2, <2>3 DEF SweepInv
<1>23. CASE Calm /\ now' \in {now, now + 1}
  <2>1. SweepStill /\ UNCHANGED <<rows, pc, code>>
    BY <1>1, <1>23, SweepStays DEF Calm
  <2>2. /\ \A d \in Codes : Doomed(d) => rows[d].status # "absent"
        /\ spc = "exp_commit" => rows[cur.code].status \in {"offline", "expired"}
    BY <1>0, <1>2 DEF SweepInv
  <2> QED BY <1>0, <1>3, <1>23, <2>1, <2>2
<1>24. ASSUME NEW k \in Conns, DisconnectFails(k) PROVE SweepInv'
  <2>1. /\ \A j \in Conns : j # k => pc'[j] = pc[j] /\ code'[j] = code[j]
        /\ pc[k] = "serving" /\ pc'[k] = "failed" /\ code'[k] = code[k] /\ UNCHANGED <<rows, now>>
        /\ KeepsReads(k) /\ UNCHANGED <<spc, sweepNow, todo, cur>>
    BY <1>24, FailStep DEF Dropped, Elsewhere
  <2>2. SweepStill
    BY <1>1, <2>1, SweepStays
  <2>3. /\ \A d \in Codes : Doomed(d) => rows[d].status # "absent"
        /\ spc = "exp_commit" => rows[cur.code].status \in {"offline", "expired"}
    BY <1>0, <1>2 DEF SweepInv
  <2> QED BY <1>0, <1>3, <2>1, <2>2, <2>3 DEF Attached
<1> QED BY <1>5, <1>6, <1>9, <1>10, <1>11, <1>12, <1>13, <1>14, <1>15, <1>16, <1>17, <1>18, <1>19,
           <1>20, <1>21, <1>22, <1>23, <1>24, Cases, CalmStep

\* Whoever waits when the sweep reads is served before the sweep resumes.
LEMMA OrderKept ==
  ASSUME Faults = {}, Inv, [Next]_vars
  PROVE  OrderInv'
<1> USE ConstantsAssumption
<1> DEFINE Early == Opening \cup {"policy", "entries", "saved"}
<1>0. /\ TypeOK /\ QueueInv /\ ClaimInv /\ SweepInv /\ OrderInv /\ hop \in [Tasks -> 0..2]
  BY DEF Inv, TypeOK
<1>1. /\ \A k \in Conns : k \in Tasks /\ k # Sweep /\ k # Visitor
      /\ Sweep \in Tasks /\ Visitor \in Tasks /\ Visitor # Sweep
  BY DEF Tasks
<1>2. \A k \in Conns : pc[k] \in Early => In(k)
  BY <1>0 DEF QueueInv, DbPcs, Claiming, Opening
<1>3. ASSUME SweepStill,
             \A k \in Conns :
               \/ pc'[k] \notin Early \/ code'[k] \notin Codes \/ ~Doomed(code'[k])
               \/ code'[k] = code[k] /\ pc'[k] = pc[k] /\ (Before(k, Sweep) => Before(k, Sweep)')
               \/ code'[k] = code[k] /\ pc[k] \in Opening /\ pc'[k] = "policy"
               \/ code'[k] = code[k] /\ pc[k] = "policy" /\ pc'[k] = "entries"
               \/ code'[k] = code[k] /\ pc[k] = "entries" /\ pc'[k] = "saved"
      PROVE  OrderInv'
  <2> SUFFICES ASSUME NEW c \in Codes, NEW k \in Conns, code'[k] = c
               PROVE  /\ InSnapshot(c)' =>
                           /\ hop'[Sweep] = 1 /\ pc'[k] \in Opening => Before(k, Sweep)'
                           /\ hop'[Sweep] = 2 => pc'[k] \notin Opening
                           /\ hop'[Sweep] = 2 /\ pc'[k] = "policy" => Before(k, Sweep)'
                      /\ InTodo(c)' \/ InHand(c)' => pc'[k] \notin Opening \cup {"policy"}
                      /\ InHand(c)' =>
                           /\ hop'[Sweep] = 1 /\ pc'[k] = "entries" => Before(k, Sweep)'
                           /\ hop'[Sweep] = 2 => pc'[k] # "entries"
                           /\ hop'[Sweep] = 2 /\ pc'[k] = "saved" => Before(k, Sweep)'
                           /\ spc' # "exp_select" => pc'[k] \notin {"entries", "saved"}
    BY DEF OrderInv
  <2>1. /\ InSnapshot(c)' <=> InSnapshot(c)
        /\ InTodo(c)' <=> InTodo(c)
        /\ InHand(c)' <=> InHand(c)
        /\ hop'[Sweep] = hop[Sweep] /\ spc' = spc
    BY <1>3, SweepStays DEF SweepStill
  <2>2. CASE pc'[k] \notin Early \/ ~Doomed(c)
    BY <2>1, <2>2 DEF Doomed
  <2>3. CASE code'[k] = code[k] /\ pc'[k] = pc[k] /\ (Before(k, Sweep) => Before(k, Sweep)')
    BY <1>0, <2>1, <2>3 DEF OrderInv
  <2>4. CASE code'[k] = code[k] /\ pc[k] \in Opening /\ pc'[k] = "policy"
    BY <1>0, <2>1, <2>4 DEF OrderInv, Opening
  <2>5. CASE code'[k] = code[k] /\ pc[k] = "policy" /\ pc'[k] = "entries"
    BY <1>0, <2>1, <2>5 DEF OrderInv, Opening
  <2>6. CASE code'[k] = code[k] /\ pc[k] = "entries" /\ pc'[k] = "saved"
    BY <1>0, <2>1, <2>6 DEF OrderInv, Opening
  <2> QED BY <1>3, <2>2, <2>3, <2>4, <2>5, <2>6
<1>4. ASSUME NEW k \in Conns, Seek(k) PROVE OrderInv'
  <2>1. Sought(k)
    BY <1>0, <1>4, SeekStep
  <2>2. SweepStill /\ code'[k] \notin Codes
    BY <1>1, <2>1, SweepStays DEF Sought
  <2>3. \A j \in Conns : j # k => pc'[j] = pc[j] /\ code'[j] = code[j] /\ (Before(j, Sweep) => Before(j, Sweep)')
    BY <2>1 DEF Sought, Elsewhere, KeepsTurns
  <2> QED BY <1>3, <2>2, <2>3
<1>5. ASSUME NEW k \in Conns, NEW c \in Codes, Take(k, c) PROVE OrderInv'
  <2>1. Taken(k, c)
    BY <1>5, TakeStep
  <2>2. SweepStill /\ pc'[k] \notin Early
    BY <1>1, <2>1, SweepStays DEF Taken, Opening
  <2>3. \A j \in Conns : j # k => pc'[j] = pc[j] /\ code'[j] = code[j] /\ (Before(j, Sweep) => Before(j, Sweep)')
    BY <2>1 DEF Taken, Elsewhere, KeepsTurns
  <2> QED BY <1>3, <2>2, <2>3
<1>6. ASSUME NEW k \in Conns, NEW p, NEW q, Moved(k, p, q),
             \/ q \notin Early \/ p \in {"update", "insert"}
             \/ p \in Opening /\ q = "policy"
             \/ p = "policy" /\ q = "entries"
             \/ p = "entries" /\ q = "saved"
      PROVE  OrderInv'
  <2>1. /\ SweepStill /\ pc[k] = p /\ pc'[k] = q /\ code'[k] = code[k] /\ code[k] \in Codes
    BY <1>1, <1>6, SweepStays DEF Moved
  <2>2. p \in {"update", "insert"} => ~Doomed(code[k])
    BY <1>0, <2>1 DEF SweepInv
  <2>3. \A j \in Conns : j # k => pc'[j] = pc[j] /\ code'[j] = code[j] /\ (Before(j, Sweep) => Before(j, Sweep)')
    BY <1>6 DEF Moved, Elsewhere, KeepsTurns
  <2> QED BY <1>3, <1>6, <2>1, <2>2, <2>3
<1>7. ASSUME NEW k \in Conns, NEW p, Left(k, p) PROVE OrderInv'
  <2>1. SweepStill /\ pc'[k] \notin Early
    BY <1>1, <1>7, SweepStays DEF Left, Opening
  <2>3. \A j \in Conns : j # k => pc'[j] = pc[j] /\ code'[j] = code[j] /\ (Before(j, Sweep) => Before(j, Sweep)')
    BY <1>7 DEF Left, Elsewhere, KeepsTurns
  <2> QED BY <1>3, <2>1, <2>3
<1>8. ASSUME UNCHANGED <<pc, code>>, hop'[Sweep] = 0,
             \A c \in Codes : ~InSnapshot(c)' /\ (InTodo(c)' => InTodo(c)),
             \A c \in Codes : InHand(c)' => (InTodo(c) /\ spc' = "exp_select") \/ (InHand(c) /\ spc # "exp_select")
      PROVE  OrderInv'
  BY <1>0, <1>8 DEF OrderInv
<1>9. CASE CrashAndRestart
  BY <1>9, CrashStep DEF OrderInv
<1>10. ASSUME NEW k \in Conns, ReclaimUpdate(k) \/ RegisterInsert(k) \/ Attach(k) PROVE OrderInv'
  BY <1>6, <1>10, MoveStep DEF Opening
<1>11. ASSUME NEW k \in Conns, PolicyUpdate(k) \/ PolicyEntries(k) \/ PolicyCommit(k) PROVE OrderInv'
  BY <1>6, <1>11, MoveStep DEF Opening
<1>12. ASSUME NEW k \in Conns, Reply(k) \/ Disconnect(k) \/ OfflineStays(k) \/ OfflineUpdate(k) PROVE OrderInv'
  BY <1>6, <1>12, ServeStep DEF Opening
<1>13. ASSUME NEW k \in Conns, OfflineLeaves(k) \/ OfflineCommit(k) \/ ReplyFails(k) PROVE OrderInv'
  BY <1>7, <1>13, ServeStep
<1>14. CASE SweepStart
  <2>1. /\ UNCHANGED <<pc, code, todo>> /\ spc' = "active" /\ hop'[Sweep] = 0
    BY <1>14, SweepStep DEF Swept
  <2> QED BY <1>8, <2>1 DEF InSnapshot, InTodo, InHand, ExpPcs
<1>15. CASE SweepSnapshot
  <2>1. /\ UNCHANGED <<pc, code>> /\ \A s : ~Before(s, Sweep)
        /\ spc = "active" /\ spc' = "next" /\ hop[Sweep] = 2
        /\ todo' = {Expiring(c) : c \in {d \in Codes : Expires(seen[Sweep][d])}}
              \cup {Warning(c) : c \in {d \in Codes : Warns(seen[Sweep][d])}}
    BY <1>15, SweepStep DEF Swept
  <2>2. ASSUME NEW i \in todo', i.act = "expire" PROVE Expires(seen[Sweep][i.code])
    BY <2>1, <2>2 DEF Expiring, Warning
  <2>3. \A c \in Codes : ~InSnapshot(c)' /\ ~InHand(c)' /\ (InTodo(c)' => InSnapshot(c))
    BY <2>1, <2>2 DEF InSnapshot, InTodo, InHand, ExpPcs
  <2>4. ASSUME NEW c \in Codes, NEW k \in Conns, code[k] = c, InTodo(c)' PROVE pc[k] \notin Opening \cup {"policy"}
    <3>1. /\ pc[k] \notin Opening
          /\ pc[k] = "policy" => Before(k, Sweep)
      BY <1>0, <2>1, <2>3, <2>4 DEF OrderInv
    <3> QED BY <2>1, <3>1
  <2> QED BY <2>1, <2>3, <2>4 DEF OrderInv
<1>16. CASE SweepNext
  <2>1. UNCHANGED <<pc, code>> /\ hop'[Sweep] = 0
    BY <1>16, SweepStep DEF Swept
  <2>2. \/ /\ spc' \in {"exp_select", "warn_update", "next"} /\ todo' \subseteq todo
           /\ spc' = "exp_select" => \E i \in todo : cur' = i /\ i.act = "expire"
        \/ spc' = "retain" /\ todo' = todo
    BY <1>16, SweepStep DEF Swept
  <2> QED BY <1>8, <2>1, <2>2 DEF InSnapshot, InTodo, InHand, ExpPcs
<1>17. CASE ExpireSelected
  <2>1. /\ UNCHANGED <<pc, code, todo>> /\ spc = "exp_select" /\ hop'[Sweep] = 0
        /\ (spc' = "next" /\ cur' = NoItem) \/ (spc' = "exp_update" /\ cur' = cur)
        /\ hop[Sweep] = 2 /\ \A s : ~Before(s, Sweep)
    BY <1>17, ExpireStep DEF Swept
  <2>2. \A c \in Codes : ~InSnapshot(c)' /\ (InTodo(c)' => InTodo(c)) /\ (InHand(c)' => InHand(c))
    BY <2>1 DEF InSnapshot, InTodo, InHand, ExpPcs
  <2>3. \A c \in Codes : \A k \in Conns : code[k] = c /\ InHand(c) => pc[k] \notin {"entries", "saved"}
    BY <1>0, <2>1 DEF OrderInv
  <2> QED BY <1>0, <2>1, <2>2, <2>3 DEF OrderInv
<1>18. CASE ExpireUpdate
  <2>1. UNCHANGED <<pc, code, todo, cur>> /\ spc = "exp_update" /\ spc' = "exp_commit" /\ hop'[Sweep] = 0
    BY <1>18, ExpireStep DEF Swept
  <2> QED BY <1>8, <2>1 DEF InSnapshot, InTodo, InHand, ExpPcs
<1>19. CASE ExpireCommit \/ WarnUpdate \/ WarnCommit \/ RetentionDelete \/ RetentionCommit
  <2>1. /\ UNCHANGED <<pc, code, todo>> /\ hop'[Sweep] = 0
        /\ spc' \in {"next", "warn_commit", "ret_commit", "idle"}
    BY <1>19, ExpireStep, KeepStep DEF Swept
  <2> QED BY <1>8, <2>1 DEF InSnapshot, InTodo, InHand, ExpPcs
<1>20. ASSUME CursorHop(Sweep) PROVE OrderInv'
  <2>1. /\ UNCHANGED <<pc, code, rows, spc, sweepNow, todo, cur>> /\ hop[Sweep] \in {0, 1}
        /\ hop'[Sweep] = hop[Sweep] + 1 /\ spc \in {"active", "exp_select"}
        /\ hop[Sweep] = 1 => seen'[Sweep] = seen[Sweep]
        /\ AtHead(Sweep) /\ Requeue(Sweep)
    BY <1>0, <1>1, <1>20, CursorHops
  <2>2. \A k \in Conns : ~Before(k, Sweep) /\ (pc[k] \in Early => Before(k, Sweep)')
    BY <1>0, <1>1, <1>2, <2>1, Trip
  <2>3. /\ \A c : (InTodo(c)' <=> InTodo(c)) /\ (InHand(c)' <=> InHand(c))
        /\ \A c \in Codes : InSnapshot(c)' => hop'[Sweep] = 1 \/ InSnapshot(c)
    BY <2>1 DEF InSnapshot, InTodo, InHand, Expires
  <2> QED BY <1>0, <2>1, <2>2, <2>3 DEF OrderInv, InHand
<1>21. ASSUME NEW t \in Tasks, t # Sweep, CursorHop(t) PROVE OrderInv'
  <2>1. /\ UNCHANGED <<pc, code, spc, sweepNow, todo, cur>> /\ AtHead(t) /\ Requeue(t)
        /\ hop'[Sweep] = hop[Sweep] /\ seen'[Sweep] = seen[Sweep]
        /\ t \in Conns => pc[t] \in {"count", "off_select"} \cup ClaimSelects
    BY <1>0, <1>1, <1>21, CursorHops
  <2>2. \A k \in Conns : pc[k] \in Early => k # t
    BY <1>1, <2>1 DEF ClaimSelects, Opening
  <2>3. \A k \in Conns : pc[k] \in Early /\ Before(k, Sweep) => Before(k, Sweep)'
    BY <1>0, <2>1, <2>2, Turns DEF KeepsTurns
  <2> QED BY <1>3, <2>1, <2>3 DEF SweepStill
<1>22. CASE Calm
  <2>1. SweepStill /\ UNCHANGED <<pc, code>> /\ \A k \in Conns : Before(k, Sweep) => Before(k, Sweep)'
    BY <1>1, <1>22, SweepStays DEF Calm, KeepsTurns
  <2> QED BY <1>3, <2>1
<1>23. ASSUME NEW k \in Conns, DisconnectFails(k) PROVE OrderInv'
  <2>1. /\ \A j \in Conns : j # k => pc'[j] = pc[j] /\ code'[j] = code[j]
        /\ pc'[k] = "failed" /\ KeepsReads(k) /\ KeepsTurns(k) /\ UNCHANGED <<spc, sweepNow, todo, cur>>
    BY <1>23, FailStep DEF Dropped, Elsewhere
  <2>2. SweepStill
    BY <1>1, <2>1, SweepStays
  <2> QED BY <1>3, <2>1, <2>2 DEF KeepsTurns, Opening
<1> QED BY <1>4, <1>5, <1>9, <1>10, <1>11, <1>12, <1>13, <1>14, <1>15, <1>16, <1>17, <1>18, <1>19,
           <1>20, <1>21, <1>22, <1>23, Cases, CalmStep

\* Each statement that changes a row is followed by a commit before anything
\* depends on it.
LEMMA DiskKept ==
  ASSUME Faults = {}, Inv, [Next]_vars
  PROVE  DiskInv'
<1> USE ConstantsAssumption
<1> USE DEF Current, Attached
<1>0. /\ TypeOK /\ QueueInv /\ ClaimInv /\ HolderInv /\ StatusInv /\ TimeInv /\ SweepInv /\ DiskInv
      /\ \A k \in Conns : pc[k] \in Holding => code[k] \in Codes
      /\ rows \in [Codes -> Row] /\ disk \in [Codes -> Row]
  BY DEF Inv, TypeOK, ClaimInv
<1>1. \A k \in Conns : pc[k] \in Current => pc[k] \in Holding /\ rows[code[k]].status \in {"online", "expired"}
  BY <1>0 DEF StatusInv, Holding
\* A commit.
<1>2. ASSUME rows' = rows, disk' = rows,
             \A k \in Conns : pc'[k] \in Current =>
               /\ code'[k] = code[k] /\ rows[code[k]].status # "absent"
               /\ pc'[k] # "policy" => pc[k] \in Current \ {"policy"}
      PROVE  DiskInv'
  <2>1. \A k \in Conns : pc'[k] \in Current \ {"policy"} => rows'[code'[k]].policy = k
    BY <1>0, <1>2 DEF DiskInv
  <2> QED BY <1>2, <2>1 DEF DiskInv
\* A step that changes no row.
<1>3. ASSUME rows' = rows, disk' = disk, spc = "ret_commit" => spc' = "ret_commit",
             \A k \in Conns :
               \/ pc'[k] = pc[k] /\ code'[k] = code[k]
               \/ pc'[k] = "insert" /\ disk[code'[k]].status = "absent"
               \/ pc'[k] \notin Current \cup {"insert"}
               \/ pc[k] = "entries" /\ pc'[k] = "saved" /\ code'[k] = code[k]
               \/ /\ pc[k] \in Current \ {"policy", "entries", "saved"} /\ code'[k] = code[k]
                  /\ pc'[k] \in Current
      PROVE  DiskInv'
  BY <1>0, <1>3 DEF DiskInv
\* A step that changes the row of a handler.
<1>4. ASSUME NEW k \in Conns, NEW p \in Holding, NEW q, Moved(k, p, q), OtherRows(code[k]), disk' = disk,
             rows'[code[k]].status # "absent",
             disk[code[k]].status # "absent" =>
               /\ rows[code[k]].status # "absent"
               /\ rows'[code[k]].expires = rows[code[k]].expires /\ rows'[code[k]].ip = rows[code[k]].ip,
             q \notin Current \/ (p = "policy" /\ q = "entries" /\ rows'[code[k]].policy = k
                                  /\ rows'[code[k]].status = rows[code[k]].status),
             q # "insert"
      PROVE  DiskInv'
  <2>1. /\ pc[k] = p /\ pc'[k] = q /\ code'[k] = code[k] /\ code[k] \in Codes /\ spc' = spc
        /\ \A j \in Conns : j # k => pc'[j] = pc[j] /\ code'[j] = code[j]
    BY <1>4 DEF Moved, Elsewhere
  <2>2. \A j \in Conns : j # k /\ pc[j] \in Current => rows'[code[j]] = rows[code[j]]
    BY <1>0, <1>1, <1>4, <2>1 DEF HolderInv, OtherRows
  <2>3. ASSUME NEW c \in Codes
        PROVE  /\ rows'[c].status # "absent" /\ disk'[c].status # "absent" =>
                    rows'[c].expires = disk'[c].expires /\ rows'[c].ip = disk'[c].ip
               /\ rows'[c].status = "absent" /\ disk'[c].status # "absent" =>
                    /\ spc' = "ret_commit"
                    /\ \A j \in Conns : code'[j] = c => pc'[j] # "insert"
    <3>1. CASE c = code[k]
      BY <1>0, <1>4, <3>1 DEF DiskInv
    <3>2. CASE c # code[k]
      BY <1>0, <1>4, <2>1, <3>2 DEF DiskInv, OtherRows
    <3> QED BY <3>1, <3>2
  <2>4. ASSUME NEW j \in Conns, j # k
        PROVE  /\ pc'[j] \in Current =>
                    /\ disk'[code'[j]].status # "absent"
                    /\ rows'[code'[j]].status = "online" => disk'[code'[j]].status = "online"
               /\ pc'[j] \in Current \ {"policy"} => rows'[code'[j]].policy = j
               /\ pc'[j] \in Current \ {"policy", "entries", "saved"} => disk'[code'[j]].policy = j
    BY <1>0, <1>4, <2>1, <2>2, <2>4 DEF DiskInv
  <2>5. q \in Current => disk[code[k]].status # "absent"
                         /\ (rows'[code[k]].status = "online" => disk[code[k]].status = "online")
    BY <1>0, <1>4, <2>1 DEF DiskInv
  <2> QED BY <1>4, <2>1, <2>3, <2>4, <2>5 DEF DiskInv
<1>5. ASSUME NEW k \in Conns, Seek(k) PROVE DiskInv'
  BY <1>0, <1>3, <1>5, SeekStep DEF Sought, Elsewhere, Outside, ClaimSelects
<1>6. ASSUME NEW k \in Conns, NEW c \in Codes, Take(k, c) PROVE DiskInv'
  BY <1>3, <1>6, TakeStep DEF Taken, Elsewhere
<1>7. ASSUME NEW k \in Conns, ReclaimUpdate(k) PROVE DiskInv'
  <2>1. /\ Moved(k, "update", "reclaimed") /\ disk' = disk /\ OtherRows(code[k])
        /\ rows'[code[k]].status = "online" /\ rows'[code[k]].expires = rows[code[k]].expires
        /\ rows'[code[k]].ip = rows[code[k]].ip
    BY <1>7, MoveStep DEF StatusSet
  <2>2. rows[code[k]].status = "offline"
    BY <1>0, <2>1 DEF StatusInv, Moved
  <2> QED BY <1>4, <2>1, <2>2 DEF Holding
<1>8. ASSUME NEW k \in Conns, RegisterInsert(k) PROVE DiskInv'
  <2>1. /\ Moved(k, "insert", "registered") /\ disk' = disk /\ OtherRows(code[k])
        /\ rows'[code[k]].status = "online"
    BY <1>8, MoveStep DEF Inserted
  <2>2. code[k] \in Codes /\ pc[k] = "insert" /\ rows[code[k]].status = "absent"
    BY <1>0, <2>1 DEF StatusInv, Moved
  <2>3. disk[code[k]].status = "absent"
    BY <1>0, <2>2 DEF DiskInv
  <2> QED BY <1>4, <2>1, <2>3 DEF Holding
<1>9. ASSUME NEW k \in Conns, Attach(k) PROVE DiskInv'
  <2>1. /\ pc[k] \in Opening /\ pc'[k] = "policy" /\ code'[k] = code[k] /\ rows' = rows /\ disk' = rows
        /\ \A j \in Conns : j # k => pc'[j] = pc[j] /\ code'[j] = code[j]
    BY <1>9, MoveStep DEF Moved, Elsewhere, Opening
  <2>2. rows[code[k]].status = "online"
    BY <1>0, <2>1 DEF StatusInv
  <2> QED BY <1>1, <1>2, <2>1, <2>2
<1>10. ASSUME NEW k \in Conns, PolicyUpdate(k) PROVE DiskInv'
  <2>1. /\ Moved(k, "policy", "entries") /\ disk' = disk /\ OtherRows(code[k])
        /\ rows'[code[k]].status = rows[code[k]].status /\ rows'[code[k]].policy = k
        /\ rows'[code[k]].expires = rows[code[k]].expires /\ rows'[code[k]].ip = rows[code[k]].ip
    BY <1>10, MoveStep DEF PolicySet
  <2>2. rows[code[k]].status # "absent"
    BY <1>1, <2>1 DEF Moved
  <2> QED BY <1>4, <2>1, <2>2 DEF Holding
<1>11. ASSUME NEW k \in Conns, PolicyEntries(k) PROVE DiskInv'
  BY <1>3, <1>11, MoveStep DEF Moved, Elsewhere
<1>12. ASSUME NEW k \in Conns, PolicyCommit(k) PROVE DiskInv'
  <2>1. /\ pc[k] = "saved" /\ pc'[k] = "reply" /\ code'[k] = code[k] /\ rows' = rows /\ disk' = rows
        /\ \A j \in Conns : j # k => pc'[j] = pc[j] /\ code'[j] = code[j]
    BY <1>12, MoveStep DEF Moved, Elsewhere
  <2> QED BY <1>1, <1>2, <2>1
<1>13. ASSUME NEW k \in Conns, Reply(k) \/ Disconnect(k) \/ OfflineStays(k) PROVE DiskInv'
  <2>1. /\ pc[k] \in {"reply", "serving", "off_select"} /\ pc'[k] \in {"serving", "off_select", "off_update"}
        /\ code'[k] = code[k] /\ rows' = rows /\ disk' = disk /\ spc' = spc
        /\ \A j \in Conns : j # k => pc'[j] = pc[j] /\ code'[j] = code[j]
    BY <1>13, ServeStep DEF Moved, Elsewhere
  <2> QED BY <1>3, <2>1
<1>14. ASSUME NEW k \in Conns, OfflineUpdate(k) PROVE DiskInv'
  <2>1. /\ Moved(k, "off_update", "off_commit") /\ disk' = disk /\ OtherRows(code[k])
        /\ rows'[code[k]].status = "offline" /\ rows'[code[k]].expires = rows[code[k]].expires
        /\ rows'[code[k]].ip = rows[code[k]].ip
    BY <1>14, ServeStep DEF StatusSet
  <2>2. rows[code[k]].status # "absent"
    BY <1>1, <2>1 DEF Moved
  <2> QED BY <1>4, <2>1, <2>2 DEF Holding
<1>15. ASSUME NEW k \in Conns, OfflineLeaves(k) \/ ReplyFails(k) PROVE DiskInv'
  <2>1. /\ pc'[k] \in {"gone", "failed"} /\ rows' = rows /\ disk' = disk /\ spc' = spc
        /\ \A j \in Conns : j # k => pc'[j] = pc[j] /\ code'[j] = code[j]
    BY <1>15, ServeStep DEF Left, Elsewhere
  <2> QED BY <1>3, <2>1
<1>16. ASSUME NEW k \in Conns, OfflineCommit(k) PROVE DiskInv'
  <2>1. /\ pc'[k] \in {"gone", "failed"} /\ rows' = rows /\ disk' = rows
        /\ \A j \in Conns : j # k => pc'[j] = pc[j] /\ code'[j] = code[j]
    BY <1>16, ServeStep DEF Left, Elsewhere
  <2> QED BY <1>1, <1>2, <2>1
<1>17. CASE ExpireCommit \/ WarnCommit \/ RetentionCommit
  <2>1. rows' = rows /\ disk' = rows /\ UNCHANGED <<pc, code>>
    BY <1>17, ExpireStep, KeepStep DEF Swept
  <2> QED BY <1>1, <1>2, <2>1
<1>18. CASE ExpireUpdate
  <2>1. /\ UNCHANGED <<pc, code, disk>> /\ spc = "exp_update" /\ cur.code \in Codes
        /\ rows'[cur.code].status = "expired" /\ rows'[cur.code].expires = rows[cur.code].expires
        /\ rows'[cur.code].ip = rows[cur.code].ip /\ rows'[cur.code].policy = rows[cur.code].policy
        /\ OtherRows(cur.code)
    BY <1>0, <1>18, ExpireStep DEF Swept, StatusSet, TypeOK, Item
  <2>2. rows[cur.code].status # "absent"
    BY <1>0, <2>1 DEF SweepInv, Doomed, InHand, ExpPcs
  <2>3. \A c \in Codes : /\ rows'[c].status = "absent" <=> rows[c].status = "absent"
                         /\ rows'[c].expires = rows[c].expires /\ rows'[c].ip = rows[c].ip
                         /\ rows'[c].policy = rows[c].policy
                         /\ rows'[c].status = "online" => rows[c].status = "online"
    BY <2>1, <2>2 DEF OtherRows
  <2> QED BY <1>0, <1>1, <2>1, <2>3 DEF DiskInv
<1>19. CASE WarnUpdate
  <2>1. /\ UNCHANGED <<pc, code, disk>> /\ spc = "warn_update"
        /\ \A c \in Codes : /\ rows'[c].status = rows[c].status /\ rows'[c].expires = rows[c].expires
                            /\ rows'[c].ip = rows[c].ip /\ rows'[c].policy = rows[c].policy
    BY <1>19, KeepStep DEF Swept, WarnedSet, OtherRows
  <2> QED BY <1>0, <1>1, <2>1 DEF DiskInv
<1>20. CASE RetentionDelete
  <2>1. /\ spc = "retain" /\ spc' = "ret_commit" /\ UNCHANGED <<pc, code, disk>>
        /\ \A c \in Codes : \/ rows'[c] = rows[c]
                            \/ /\ rows'[c] = NoRow /\ rows[c].status = "expired"
                               /\ rows[c].expires < sweepNow - Retention
    BY <1>20, KeepStep DEF Swept
  <2>2. \A k \in Conns : pc[k] \in Current /\ rows[code[k]].status = "expired" => rows[code[k]].expires >= now
    BY <1>0, <2>1 DEF TimeInv
  <2>3. \A c \in Codes : rows[c].expires >= now => ~(rows[c].expires < sweepNow - Retention)
    BY <1>0 DEF SweepInv, TypeOK, Row
  <2>4. \A k \in Conns : pc[k] \in Current => rows'[code[k]] = rows[code[k]]
    BY <1>0, <1>1, <2>1, <2>2, <2>3
  <2>5. \A k \in Conns : pc[k] = "insert" => rows[code[k]].status = "absent"
    BY <1>0 DEF StatusInv
  <2>6. NoRow.status = "absent"
    BY DEF NoRow
  <2>7. ASSUME NEW c \in Codes
        PROVE  /\ rows'[c].status # "absent" => rows'[c] = rows[c]
               /\ rows'[c].status = "absent" /\ disk[c].status # "absent" =>
                    \A k \in Conns : code[k] = c => pc[k] # "insert"
    BY <1>0, <2>1, <2>5, <2>6 DEF DiskInv
  <2> QED BY <1>0, <2>1, <2>4, <2>7 DEF DiskInv
<1>21. CASE SweepStart \/ SweepSnapshot \/ SweepNext \/ ExpireSelected
  <2>1. UNCHANGED <<rows, disk, pc, code>>
    BY <1>21, SweepStep, ExpireStep, QuietCases
  <2>2. spc # "ret_commit"
    BY <1>21, SweepStep, ExpireStep DEF Swept
  <2> QED BY <1>3, <2>1, <2>2
<1>22. ASSUME NEW t \in Tasks, CursorHop(t) PROVE DiskInv'
  BY <1>0, <1>3, <1>22, CursorHops
<1>23. CASE Calm
  BY <1>3, <1>23 DEF Calm
<1>24. CASE CrashAndRestart
  <2>1. disk' = rows' /\ \A k \in Conns : pc'[k] \notin Current
    BY <1>24, CrashStep
  <2> QED BY <2>1 DEF DiskInv
<1>25. ASSUME NEW k \in Conns, DisconnectFails(k) PROVE DiskInv'
  <2>1. /\ pc'[k] = "failed" /\ rows' = rows /\ disk' = disk /\ spc' = spc
        /\ \A j \in Conns : j # k => pc'[j] = pc[j] /\ code'[j] = code[j]
    BY <1>25, FailStep DEF Dropped, Elsewhere
  <2> QED BY <1>3, <2>1
<1> QED BY <1>5, <1>6, <1>7, <1>8, <1>9, <1>10, <1>11, <1>12, <1>13, <1>14, <1>15, <1>16, <1>17, <1>18,
           <1>19, <1>20, <1>21, <1>22, <1>23, <1>24, <1>25, Cases, CalmStep

\* A step of a handler, seen by everybody else.
HandlerSteps(j) ==
    \/ Seek(j) \/ (\E c \in Codes : Take(j, c))
    \/ ReclaimUpdate(j) \/ RegisterInsert(j) \/ Attach(j)
    \/ PolicyUpdate(j) \/ PolicyEntries(j) \/ PolicyCommit(j)
    \/ Reply(j) \/ Disconnect(j) \/ OfflineStays(j) \/ OfflineUpdate(j)
    \/ OfflineLeaves(j) \/ OfflineCommit(j) \/ ReplyFails(j) \/ DisconnectFails(j)

HandlerFrame(j) ==
    /\ Elsewhere(j) /\ KeepsTurns(j) /\ KeepsReads(j) /\ hop'[j] = 0
    /\ UNCHANGED <<now, spc, sweepNow, todo, cur>>
    /\ disk' \in {disk, rows} /\ pc[j] \in Holding \cup Outside
    /\ \A c \in Codes : c # code[j] \/ pc[j] \in {"off_commit"} \cup Outside =>
         rows'[c] = rows[c]
    /\ \A c \in Codes : c # code[j] \/ pc[j] \in Outside => connections'[c] = connections[c]
    /\ \/ pc'[j] \notin Holding
       \/ pc[j] \in Holding \ {"off_commit"} /\ code'[j] = code[j]
       \/ /\ pc[j] \in Outside /\ code'[j] \in Codes
          /\ \A k \in Conns : pc[k] \in Holding => code[k] # code'[j]
          /\ \A k \in Conns : k # j /\ pc[k] \in Claiming => code'[j] \notin {want[k], code[k]}

LEMMA HandlerFrames ==
  ASSUME Faults = {}, Inv, NEW j \in Conns, HandlerSteps(j)
  PROVE  HandlerFrame(j)
<1>0. TypeOK /\ QueueInv /\ ClaimInv
  BY DEF Inv
<1>1. CASE Seek(j)
  <2>1. Sought(j)
    BY <1>0, <1>1, SeekStep
  <2>2. pc'[j] \notin Holding
    BY <2>1 DEF Sought, Outside, ClaimSelects, Holding, Opening, Attached
  <2> QED BY <2>1, <2>2 DEF HandlerFrame, Sought
<1>2. ASSUME NEW c \in Codes, Take(j, c) PROVE HandlerFrame(j)
  BY <1>2, TakeStep DEF HandlerFrame, Taken, Outside, ClaimSelects
<1>3. ASSUME NEW p \in Holding \ {"off_commit"}, NEW q, Moved(j, p, q), disk' \in {disk, rows}, OtherRows(code[j]),
             \A c \in Codes : c # code[j] => connections'[c] = connections[c]
      PROVE  HandlerFrame(j)
  BY <1>3 DEF HandlerFrame, Moved, OtherRows, Outside, ClaimSelects, Holding, Opening, Attached
<1>4. ASSUME NEW p \in Holding, Left(j, p), disk' \in {disk, rows},
             \A c \in Codes : c # code[j] => connections'[c] = connections[c]
      PROVE  HandlerFrame(j)
  BY <1>4 DEF HandlerFrame, Left, Outside, ClaimSelects, Holding, Opening, Attached
<1>5. CASE ReclaimUpdate(j) \/ RegisterInsert(j) \/ PolicyUpdate(j)
  <2>1. OtherRows(code[j])
    BY <1>5, MoveStep DEF StatusSet, Inserted, PolicySet
  <2> QED BY <1>3, <1>5, <2>1, MoveStep DEF Holding, Attached
<1>6. CASE Attach(j) \/ PolicyEntries(j) \/ PolicyCommit(j)
  BY <1>3, <1>6, MoveStep DEF Holding, Opening, Attached, OtherRows
<1>7. CASE Reply(j) \/ Disconnect(j) \/ OfflineStays(j) \/ OfflineUpdate(j)
  <2>1. OtherRows(code[j])
    BY <1>7, ServeStep DEF StatusSet, OtherRows
  <2> QED BY <1>3, <1>7, <2>1, ServeStep DEF Holding, Attached
<1>8. CASE OfflineLeaves(j) \/ OfflineCommit(j) \/ ReplyFails(j)
  BY <1>4, <1>8, ServeStep DEF Holding, Attached
<1>9. CASE DisconnectFails(j)
  BY <1>9, FailStep DEF HandlerFrame, Dropped, Holding, Opening, Attached
<1> QED BY <1>1, <1>2, <1>5, <1>6, <1>7, <1>8, <1>9 DEF HandlerSteps

\* A step of the sweep, seen by everybody else.
SweepSteps ==
    \/ SweepStart \/ SweepSnapshot \/ SweepNext
    \/ ExpireSelected \/ ExpireUpdate \/ ExpireCommit
    \/ WarnUpdate \/ WarnCommit \/ RetentionDelete \/ RetentionCommit

SweepFrame ==
    /\ KeepsTurns(Sweep) /\ KeepsReads(Sweep) /\ UNCHANGED <<pc, want, code, until, now>>
    /\ \A c \in Codes :
         \/ rows'[c].status = rows[c].status /\ rows'[c].expires = rows[c].expires
         \/ rows'[c].status = "absent" /\ rows[c].status = "expired"
         \/ /\ rows'[c].status = "expired" /\ rows[c].status # "absent" /\ Past(rows[c], now)
            /\ rows'[c].expires = rows[c].expires
    /\ disk' = rows \/ (disk' = disk /\ spc # "ret_commit")
    /\ \A c \in Codes : connections'[c] \in {connections[c], NoConn}
    /\ spc = "exp_commit" => connections'[cur.code] = NoConn

LEMMA SweepFrames ==
  ASSUME Inv, SweepSteps
  PROVE  SweepFrame
<1> USE ConstantsAssumption
<1>0. /\ SweepInv /\ now \in Nat /\ sweepNow \in Nat /\ cur.code \in Codes
      /\ \A c \in Codes : rows[c].expires \in Int
  BY DEF Inv, TypeOK, Row, Item
<1>1. ASSUME NEW p, NEW q, Swept(p, q)
      PROVE  KeepsTurns(Sweep) /\ KeepsReads(Sweep) /\ UNCHANGED <<pc, want, code, until, now>> /\ spc = p
  BY <1>1 DEF Swept
<1>2. CASE SweepStart \/ SweepSnapshot \/ SweepNext \/ ExpireSelected
  <2>1. UNCHANGED <<rows, disk, connections>>
    BY <1>2, SweepStep, ExpireStep
  <2>2. /\ KeepsTurns(Sweep) /\ KeepsReads(Sweep) /\ UNCHANGED <<pc, want, code, until, now>>
        /\ spc \notin {"ret_commit", "exp_commit"}
    BY <1>2, SweepStep, ExpireStep DEF Swept
  <2> QED BY <2>1, <2>2 DEF SweepFrame
<1>3. CASE ExpireUpdate
  <2>1. /\ Swept("exp_update", "exp_commit") /\ StatusSet(cur.code, "expired")
        /\ UNCHANGED <<disk, connections>>
    BY <1>3, ExpireStep
  <2>2. rows[cur.code].status # "absent" /\ Past(rows[cur.code], sweepNow) /\ sweepNow <= now
    BY <1>0, <1>1, <2>1 DEF SweepInv, Doomed, InHand, ExpPcs
  <2>3. Past(rows[cur.code], now)
    BY <1>0, <2>2 DEF Past
  <2>4. \A c \in Codes :
          \/ rows'[c].status = rows[c].status /\ rows'[c].expires = rows[c].expires
          \/ /\ rows'[c].status = "expired" /\ rows[c].status # "absent" /\ Past(rows[c], now)
             /\ rows'[c].expires = rows[c].expires
    BY <2>1, <2>2, <2>3 DEF StatusSet, OtherRows
  <2> QED BY <1>1, <2>1, <2>4 DEF SweepFrame
<1>4. CASE ExpireCommit \/ WarnCommit \/ RetentionCommit
  <2>1. /\ UNCHANGED rows /\ disk' = rows /\ \A c \in Codes : connections'[c] \in {connections[c], NoConn}
        /\ ExpireCommit => connections'[cur.code] = NoConn
        /\ spc = "exp_commit" => ExpireCommit
    BY <1>4, ExpireStep, KeepStep DEF Swept
  <2>2. KeepsTurns(Sweep) /\ KeepsReads(Sweep) /\ UNCHANGED <<pc, want, code, until, now>>
    BY <1>4, ExpireStep, KeepStep DEF Swept
  <2> QED BY <2>1, <2>2 DEF SweepFrame
<1>5. CASE WarnUpdate
  <2>1. /\ UNCHANGED <<disk, connections>> /\ spc = "warn_update"
        /\ \A c \in Codes : rows'[c].status = rows[c].status /\ rows'[c].expires = rows[c].expires
    BY <1>5, KeepStep DEF Swept, WarnedSet, OtherRows
  <2>2. KeepsTurns(Sweep) /\ KeepsReads(Sweep) /\ UNCHANGED <<pc, want, code, until, now>>
    BY <1>5, KeepStep DEF Swept
  <2> QED BY <2>1, <2>2 DEF SweepFrame
<1>6. CASE RetentionDelete
  <2>1. /\ UNCHANGED <<disk, connections>> /\ Swept("retain", "ret_commit")
        /\ \A c \in Codes : rows'[c] = rows[c] \/ (rows'[c].status = "absent" /\ rows[c].status = "expired")
    BY <1>6, KeepStep DEF NoRow
  <2> QED BY <1>1, <2>1 DEF SweepFrame
<1> QED BY <1>2, <1>3, <1>4, <1>5, <1>6 DEF SweepSteps

LEMMA Frames ==
  ASSUME Inv, [Next]_vars
  PROVE  \/ \E t \in Tasks : CursorHop(t)
         \/ \E j \in Conns : HandlerSteps(j)
         \/ SweepSteps
         \/ Calm /\ now' \in {now, now + 1}
         \/ CrashAndRestart
BY Cases, CalmStep DEF HandlerSteps, SweepSteps

\* What a SELECT finds: the holder of an OFFLINE row is about to leave, a free
\* code has none, and a row that is gone from the table but not from the disk
\* has the sweep's commit in the queue.
LEMMA Found ==
  ASSUME Inv, NEW k \in Conns, CursorHop(k), hop[k] = 0
  PROVE  OfflineRead(k)' /\ FreeRead(k)' /\ OwnRead(k)'
<1> USE ConstantsAssumption
<1>0. /\ StrandInv /\ TypeOK /\ QueueInv /\ ClaimInv /\ HolderInv /\ StatusInv /\ MapInv /\ DiskInv
      /\ k \in Tasks /\ k # Sweep /\ connections \in [Codes -> Conns \cup {NoConn}]
  BY DEF Inv, Tasks, TypeOK
<1>1. /\ AtHead(k) /\ Requeue(k)
      /\ pc[k] \in ClaimSelects /\ want[k] \in Codes => seen'[k][want[k]] = rows[want[k]]
      /\ pc[k] = "off_select" /\ code[k] \in Codes => seen'[k][code[k]] = rows[code[k]]
      /\ UNCHANGED <<rows, disk, connections, pc, want, code, now, spc, cur>>
  BY <1>0, CursorHops
<1>2. \A s : s # k /\ In(s) => Before(s, k)'
  BY <1>0, <1>1, Trip
<1>3. ASSUME pc[k] \in ClaimSelects
      PROVE  /\ want[k] \in Codes /\ code[k] = NoCode
             /\ \A j \in Conns : pc[j] \in Holding /\ code[j] = want[k] =>
                  j # k /\ pc[j] \notin {"update", "insert"}
  BY <1>0, <1>3 DEF ClaimInv, Claiming
<1>4. OfflineRead(k)'
  <2> SUFFICES ASSUME pc[k] \in {"owner", "ip"}, rows[want[k]].status = "offline"
               PROVE  \A j \in Conns : pc[j] \in Holding /\ code[j] = want[k] =>
                        pc[j] = "off_commit" /\ Before(j, k)'
    BY <1>1, <1>3 DEF OfflineRead, ClaimSelects
  <2> SUFFICES ASSUME NEW j \in Conns, pc[j] \in Holding, code[j] = want[k]
               PROVE  pc[j] = "off_commit" /\ Before(j, k)'
    OBVIOUS
  <2>1. j # k /\ pc[j] = "off_commit"
    BY <1>0, <1>3 DEF StatusInv, Holding, Current, ClaimSelects
  <2>2. In(j)
    BY <1>0, <2>1 DEF QueueInv, DbPcs
  <2> QED BY <1>2, <2>1, <2>2
<1>5. FreeRead(k)'
  <2> SUFFICES ASSUME pc[k] = "has", rows[want[k]].status = "absent"
               PROVE  /\ \A j \in Conns : pc[j] \in Holding => code[j] # want[k]
                      /\ disk[want[k]].status # "absent" => Before(Sweep, k)'
    BY <1>1, <1>3 DEF FreeRead, ClaimSelects
  <2>1. \A j \in Conns : pc[j] \in Holding => code[j] # want[k]
    BY <1>0, <1>3 DEF StatusInv, Holding, Current, ClaimSelects
  <2>2. disk[want[k]].status # "absent" => In(Sweep)
    BY <1>0, <1>3 DEF DiskInv, QueueInv, ClaimSelects
  <2> QED BY <1>0, <1>2, <2>1, <2>2
<1>6. OwnRead(k)'
  <2>1. pc[k] = "off_select" => /\ code[k] \in Codes /\ pc[k] \in Holding
                                /\ rows[code[k]].status \in {"online", "expired"}
    BY <1>0 DEF ClaimInv, StatusInv, Current, Holding, Attached
  <2> SUFFICES ASSUME pc[k] = "off_select", rows[code[k]].status = "expired", connections[code[k]] # NoConn
               PROVE  spc = "exp_commit" /\ cur.code = code[k] /\ Before(Sweep, k)'
    BY <1>1, <2>1 DEF OwnRead
  <2>2. connections[code[k]] = k
    BY <1>0, <2>1 DEF MapInv, HolderInv, StrandInv, Stranded, Holding
  <2>3. spc = "exp_commit" /\ cur.code = code[k]
    BY <1>0, <2>1, <2>2 DEF MapInv
  <2>4. In(Sweep)
    BY <1>0, <2>3 DEF QueueInv
  <2> QED BY <1>0, <1>2, <2>3, <2>4
<1> QED BY <1>4, <1>5, <1>6

\* What has been read stays true while others are served.
LEMMA ReadKept ==
  ASSUME Faults = {}, Inv, [Next]_vars
  PROVE  ReadInv'
<1> USE ConstantsAssumption
<1>0. /\ TypeOK /\ QueueInv /\ ClaimInv /\ HolderInv /\ StatusInv /\ MapInv /\ DiskInv /\ ReadInv
      /\ rows \in [Codes -> Row] /\ now \in Nat
      /\ hop \in [Tasks -> 0..2] /\ seen \in [Tasks -> [Codes -> Row]]
  BY DEF Inv, TypeOK
<1>1. /\ \A k \in Conns : k \in Tasks /\ k # Sweep /\ k # Visitor
      /\ Sweep \in Tasks /\ Visitor \in Tasks /\ Visitor # Sweep
  BY DEF Tasks
<1>2. \A k \in Conns : /\ pc[k] \in ClaimSelects => want[k] \in Codes /\ pc[k] \in Claiming
                       /\ pc[k] \in Holding => code[k] \in Codes
  BY <1>0 DEF ClaimInv, Claiming
<1>3. CASE CrashAndRestart
  BY <1>1, <1>3, CrashStep DEF ReadInv
<1>4. ASSUME NEW j \in Conns, HandlerSteps(j) PROVE ReadInv'
  <2>1. HandlerFrame(j)
    BY <1>4, HandlerFrames
  <2> SUFFICES ASSUME NEW k \in Conns, hop'[k] # 0
               PROVE  OfflineRead(k)' /\ FreeRead(k)' /\ OwnRead(k)'
    BY DEF ReadInv
  <2>2. /\ k # j /\ hop[k] # 0 /\ seen'[k] = seen[k]
        /\ pc'[k] = pc[k] /\ want'[k] = want[k] /\ code'[k] = code[k]
        /\ UNCHANGED <<now, spc, cur>>
    BY <1>1, <2>1 DEF HandlerFrame, Elsewhere, KeepsReads
  <2>3. \A s : s # j /\ Before(s, k) => Before(s, k)'
    BY <2>1 DEF HandlerFrame, KeepsTurns
  <2>4. /\ \A i \in Conns : i # j => pc'[i] = pc[i] /\ code'[i] = code[i]
        /\ \/ pc'[j] \notin Holding
           \/ pc[j] \in Holding \ {"off_commit"} /\ code'[j] = code[j]
           \/ /\ pc[j] \in Outside /\ pc[k] \in Holding => code[k] # code'[j]
              /\ pc[k] \in Claiming => code'[j] # want[k]
    BY <2>1, <2>2 DEF HandlerFrame, Elsewhere
  <2>5. /\ \A c \in Codes : c # code[j] \/ pc[j] \in {"off_commit"} \cup Outside => rows'[c] = rows[c]
        /\ \A c \in Codes : c # code[j] \/ pc[j] \in Outside => connections'[c] = connections[c]
        /\ disk' \in {disk, rows}
    BY <2>1 DEF HandlerFrame
  <2>6. pc[j] \in Holding \/ pc[j] \in Outside
    BY <2>1 DEF HandlerFrame
  <2>7. OfflineRead(k)'
    <3> SUFFICES ASSUME pc[k] \in {"owner", "ip"}, seen[k][want[k]].status = "offline",
                        ~Past(seen[k][want[k]], now)
                 PROVE  /\ rows'[want[k]].status = "offline" /\ rows'[want[k]].expires = seen[k][want[k]].expires
                        /\ \A i \in Conns : pc'[i] \in Holding /\ code'[i] = want[k] =>
                              pc'[i] = "off_commit" /\ Before(i, k)'
      BY <2>2 DEF OfflineRead
    <3>1. /\ rows[want[k]].status = "offline" /\ rows[want[k]].expires = seen[k][want[k]].expires
          /\ \A i \in Conns : pc[i] \in Holding /\ code[i] = want[k] =>
                pc[i] = "off_commit" /\ Before(i, k)
          /\ want[k] \in Codes /\ pc[k] \in Claiming
      BY <1>0, <1>2, <2>2 DEF ReadInv, OfflineRead, ClaimSelects
    <3>2. rows'[want[k]] = rows[want[k]]
      BY <2>5, <2>6, <3>1
    <3>3. pc'[j] \in Holding => code'[j] # want[k]
      BY <2>4, <3>1
    <3> QED BY <2>3, <2>4, <3>1, <3>2, <3>3
  <2>8. FreeRead(k)'
    <3> SUFFICES ASSUME pc[k] = "has", seen[k][want[k]].status = "absent"
                 PROVE  /\ rows'[want[k]].status = "absent"
                        /\ \A i \in Conns : pc'[i] \in Holding => code'[i] # want[k]
                        /\ disk'[want[k]].status # "absent" => Before(Sweep, k)'
      BY <2>2 DEF FreeRead
    <3>1. /\ rows[want[k]].status = "absent"
          /\ \A i \in Conns : pc[i] \in Holding => code[i] # want[k]
          /\ disk[want[k]].status # "absent" => Before(Sweep, k)
          /\ want[k] \in Codes /\ pc[k] \in Claiming
      BY <1>0, <1>2, <2>2 DEF ReadInv, FreeRead, ClaimSelects
    <3>2. rows'[want[k]] = rows[want[k]]
      BY <2>5, <2>6, <3>1
    <3>3. pc'[j] \in Holding => code'[j] # want[k]
      BY <2>4, <3>1
    <3> QED BY <1>1, <2>3, <2>4, <2>5, <3>1, <3>2, <3>3
  <2>9. OwnRead(k)'
    <3> SUFFICES ASSUME pc[k] = "off_select"
                 PROVE  /\ seen[k][code[k]].status # "absent"
                        /\ seen[k][code[k]].status # "online" =>
                             /\ rows'[code[k]].status # "online"
                             /\ \/ connections'[code[k]] = NoConn
                                \/ spc = "exp_commit" /\ cur.code = code[k] /\ Before(Sweep, k)'
      BY <2>2 DEF OwnRead
    <3>1. pc[k] \in Holding /\ code[k] \in Codes /\ (pc[j] \in Holding => code[j] # code[k])
      BY <1>0, <1>2, <2>2 DEF HolderInv, Holding, Attached
    <3>2. connections'[code[k]] = connections[code[k]] /\ rows'[code[k]] = rows[code[k]]
      BY <2>5, <2>6, <3>1
    <3> QED BY <1>0, <1>1, <2>2, <2>3, <3>2 DEF ReadInv, OwnRead
  <2> QED BY <2>7, <2>8, <2>9

<1>5. CASE SweepSteps
  <2>1. SweepFrame
    BY <1>5, SweepFrames
  <2> SUFFICES ASSUME NEW k \in Conns, hop'[k] # 0
               PROVE  OfflineRead(k)' /\ FreeRead(k)' /\ OwnRead(k)'
    BY DEF ReadInv
  <2>2. hop[k] # 0 /\ seen'[k] = seen[k] /\ UNCHANGED <<pc, want, code, now>>
    BY <1>1, <2>1 DEF SweepFrame, KeepsReads
  <2>3. \A j \in Conns : Before(j, k) => Before(j, k)'
    BY <1>1, <2>1 DEF SweepFrame, KeepsTurns
  <2>4. ASSUME NEW c \in Codes
        PROVE  /\ rows[c].status = "absent" => rows'[c].status = "absent"
               /\ rows[c].status = "offline" /\ ~Past(rows[c], now) =>
                    rows'[c].status = "offline" /\ rows'[c].expires = rows[c].expires
               /\ rows[c].status # "online" => rows'[c].status # "online"
    BY <2>1 DEF SweepFrame
  <2>5. OfflineRead(k)'
    <3> SUFFICES ASSUME pc[k] \in {"owner", "ip"}, seen[k][want[k]].status = "offline",
                        ~Past(seen[k][want[k]], now)
                 PROVE  /\ rows'[want[k]].status = "offline" /\ rows'[want[k]].expires = seen[k][want[k]].expires
                        /\ \A i \in Conns : pc[i] \in Holding /\ code[i] = want[k] =>
                              pc[i] = "off_commit" /\ Before(i, k)'
      BY <2>2 DEF OfflineRead
    <3>1. /\ rows[want[k]].status = "offline" /\ rows[want[k]].expires = seen[k][want[k]].expires
          /\ \A i \in Conns : pc[i] \in Holding /\ code[i] = want[k] =>
                pc[i] = "off_commit" /\ Before(i, k)
          /\ want[k] \in Codes
      BY <1>0, <1>2, <2>2 DEF ReadInv, OfflineRead, ClaimSelects
    <3>2. ~Past(rows[want[k]], now)
      BY <3>1 DEF Past
    <3> QED BY <2>3, <2>4, <3>1, <3>2
  <2>6. FreeRead(k)'
    <3> SUFFICES ASSUME pc[k] = "has", seen[k][want[k]].status = "absent"
                 PROVE  /\ rows'[want[k]].status = "absent"
                        /\ \A i \in Conns : pc[i] \in Holding => code[i] # want[k]
                        /\ disk'[want[k]].status = "absent"
      BY <2>2 DEF FreeRead
    <3>1. /\ rows[want[k]].status = "absent" /\ want[k] \in Codes
          /\ \A i \in Conns : pc[i] \in Holding => code[i] # want[k]
      BY <1>0, <1>2, <2>2 DEF ReadInv, FreeRead, ClaimSelects
    <3>2. disk[want[k]].status # "absent" => spc = "ret_commit"
      BY <1>0, <3>1 DEF DiskInv
    <3>3. disk' = rows \/ (disk' = disk /\ spc # "ret_commit")
      BY <2>1 DEF SweepFrame
    <3> QED BY <2>4, <3>1, <3>2, <3>3
  <2>7. OwnRead(k)'
    <3> SUFFICES ASSUME pc[k] = "off_select"
                 PROVE  /\ seen[k][code[k]].status # "absent"
                        /\ seen[k][code[k]].status # "online" =>
                             rows'[code[k]].status # "online" /\ connections'[code[k]] = NoConn
      BY <2>2 DEF OwnRead
    <3>1. /\ code[k] \in Codes /\ seen[k][code[k]].status # "absent"
          /\ seen[k][code[k]].status # "online" =>
               /\ rows[code[k]].status # "online"
               /\ connections[code[k]] = NoConn \/ (spc = "exp_commit" /\ cur.code = code[k])
      BY <1>0, <1>2, <2>2 DEF ReadInv, OwnRead, Holding, Attached
    <3>2. /\ connections'[code[k]] \in {connections[code[k]], NoConn}
          /\ spc = "exp_commit" => connections'[cur.code] = NoConn
      BY <2>1, <3>1 DEF SweepFrame
    <3> QED BY <2>4, <3>1, <3>2
  <2> QED BY <2>5, <2>6, <2>7
<1>6. ASSUME NEW k \in Conns, hop[k] # 0, hop'[k] # 0, seen'[k] = seen[k],
             now' \in {now, now + 1},
             UNCHANGED <<rows, disk, connections, pc, want, code, spc, cur>>,
             \A j \in Conns : pc[j] = "off_commit" /\ Before(j, k) => Before(j, k)',
             spc \in {"exp_commit", "ret_commit"} /\ Before(Sweep, k) => Before(Sweep, k)'
      PROVE  OfflineRead(k)' /\ FreeRead(k)' /\ OwnRead(k)'
  <2>1. ASSUME pc[k] \in {"owner", "ip"} PROVE ~Past(seen[k][want[k]], now') => ~Past(seen[k][want[k]], now)
    <3>1. seen[k][want[k]].expires \in Int
      BY <1>0, <1>1, <1>2, <2>1 DEF Row, ClaimSelects
    <3> QED BY <1>0, <1>6, <3>1 DEF Past
  <2>2. OfflineRead(k)'
    BY <1>0, <1>6, <2>1 DEF ReadInv, OfflineRead
  <2>3. FreeRead(k)'
    <3>1. rows[want[k]].status = "absent" /\ disk[want[k]].status # "absent" /\ pc[k] = "has" => spc = "ret_commit"
      BY <1>0, <1>2 DEF DiskInv, ClaimSelects
    <3> QED BY <1>0, <1>6, <3>1 DEF ReadInv, FreeRead
  <2>4. OwnRead(k)'
    BY <1>0, <1>6 DEF ReadInv, OwnRead
  <2> QED BY <2>2, <2>3, <2>4
<1>7. ASSUME NEW t \in Tasks, CursorHop(t) PROVE ReadInv'
  <2> SUFFICES ASSUME NEW k \in Conns, hop'[k] # 0
               PROVE  OfflineRead(k)' /\ FreeRead(k)' /\ OwnRead(k)'
    BY DEF ReadInv
  <2>1. CASE t = k /\ hop[k] = 0
    BY <1>7, <2>1, Found
  <2>2. CASE t # k \/ hop[k] # 0
    <3>1. /\ AtHead(t) /\ Requeue(t) /\ hop[t] \in {0, 1}
          /\ hop'[t] = hop[t] + 1 /\ \A s \in Tasks : s # t => hop'[s] = hop[s]
          /\ \A s \in Tasks : s # t \/ hop[t] = 1 => seen'[s] = seen[s]
          /\ t \in Conns => pc[t] \in {"count", "off_select"} \cup ClaimSelects
          /\ t = Sweep => spc \in {"active", "exp_select"}
          /\ UNCHANGED <<rows, disk, connections, pc, want, code, now, spc, cur>>
      BY <1>0, <1>7, CursorHops
    <3>2. \A s : s # t /\ Before(s, k) => Before(s, k)'
      BY <1>0, <3>1, Turns DEF KeepsTurns
    <3>3. \A j \in Conns : pc[j] = "off_commit" => j # t
      BY <3>1 DEF ClaimSelects
    <3>4. hop[k] # 0 /\ seen'[k] = seen[k]
      BY <1>1, <2>2, <3>1
    <3>5. spc \in {"exp_commit", "ret_commit"} => t # Sweep
      BY <3>1
    <3> QED BY <1>6, <3>1, <3>2, <3>3, <3>4, <3>5
  <2> QED BY <2>1, <2>2
<1>8. CASE Calm /\ now' \in {now, now + 1}
  <2>1. ASSUME NEW k \in Conns, hop'[k] # 0
        PROVE  /\ hop[k] # 0 /\ seen'[k] = seen[k]
               /\ UNCHANGED <<rows, disk, connections, pc, want, code, spc, cur>>
               /\ \A s : s # Visitor /\ Before(s, k) => Before(s, k)'
    BY <1>1, <1>8, <2>1 DEF Calm, KeepsReads, KeepsTurns
  <2> QED BY <1>1, <1>6, <1>8, <2>1 DEF ReadInv
<1> QED BY <1>3, <1>4, <1>5, <1>7, <1>8, Frames

(***************************************************************************)
(* The invariant holds, and what follows from it.                            *)
(***************************************************************************)
LEMMA InvInit == Init => Inv
<1> SUFFICES ASSUME Init PROVE Inv
  OBVIOUS
<1> USE ConstantsAssumption
<1>1. TypeOK
  BY TypeInit
<1>2. /\ \A c \in Codes : rows[c] = IF c = Dropbox THEN DropboxRow ELSE NoRow
      /\ \A c \in Codes : disk[c] = IF c = Dropbox THEN DropboxRow ELSE NoRow
      /\ \A c \in Codes : connections[c] = NoConn /\ secrets[c] = NoConn
      /\ \A k \in Conns : pc[k] = "idle" /\ ~closed[k] /\ want[k] = NoCode /\ code[k] = NoCode
      /\ \A t \in Tasks : hop[t] = 0 /\ seen[t][Dropbox].expires = Never
      /\ spc = "idle" /\ sweepNow = 0 /\ now = 0 /\ todo = {} /\ cur = NoItem /\ vpc = "idle"
      /\ Sweep \in Tasks /\ Visitor \in Tasks /\ \A k \in Conns : k \in Tasks
  BY DEF Init, FreshTable, EmptyTable, NoRow, Tasks
<1>3. /\ DropboxRow.status = "online" /\ DropboxRow.expires = Never /\ NoRow.status = "absent"
      /\ NoItem.conn = NoConn
  BY DEF DropboxRow, NoRow, NoItem
<1>4. NoDuplicates /\ \A s : ~In(s)
  BY DEF Init, NoDuplicates, In
<1>5. DropboxInv
  BY <1>2, <1>3 DEF DropboxInv, DropboxOnline
<1>6. QueueInv
  BY <1>2, <1>4 DEF QueueInv, DbPcs, Claiming, ClaimSelects
<1>7. ClaimInv /\ HolderInv /\ StatusInv /\ MapInv /\ ClosedInv /\ ReadInv /\ OrderInv
  BY <1>2 DEF ClaimInv, HolderInv, StatusInv, MapInv, ClosedInv, ReadInv, OrderInv,
              Holding, Claiming, ClaimSelects, Opening, Current, Attached
<1>11. StrandInv /\ SecretInv
  BY <1>2 DEF StrandInv, Stranded, SecretInv, Filing
<1>8. OnlineInv /\ TimeInv
  BY <1>2, <1>3 DEF OnlineInv, TimeInv, Attached
<1>9. SweepInv
  <2>1. \A c \in Codes : ~Doomed(c)
    BY <1>2 DEF Doomed, InSnapshot, InTodo, InHand, ExpPcs
  <2> QED BY <1>2, <1>3, <2>1 DEF SweepInv
<1>10. DiskInv
  BY <1>2 DEF DiskInv, Current, Attached
<1> QED BY <1>1, <1>5, <1>6, <1>7, <1>8, <1>9, <1>10, <1>11 DEF Inv

LEMMA InvStep == Faults = {} /\ Inv /\ [Next]_vars => Inv'
<1> SUFFICES ASSUME Faults = {}, Inv, [Next]_vars PROVE Inv'
  OBVIOUS
<1>1. TypeOK' /\ DropboxInv' /\ QueueInv'
  BY TypeStep, DropboxStep, QueueStep DEF Inv
<1> QED BY <1>1, ClaimKept, HolderKept, StatusKept, OnlineKept, MapKept, StrandKept, SecretKept,
           ClosedKept, TimeKept, ReadKept, SweepKept, OrderKept, DiskKept DEF Inv

LEMMA InvHolds == Faults = {} => (Spec => []Inv)
<1> SUFFICES ASSUME Faults = {} PROVE Spec => []Inv
  OBVIOUS
<1>1. Inv /\ [Next]_vars => Inv'
  BY InvStep
<1> QED BY <1>1, InvInit, PTL DEF Spec

\* agent_ws: a tunnel in _connections belongs to a handler that registered that
\* code, and is closed when that handler has finished, whatever agents, sweep,
\* clock and crashes do.
THEOREM MappedTunnels == Faults = {} => (Spec => []MappedTunnelIsAttached)
<1>1. Inv => MappedTunnelIsAttached
  BY DEF Inv, MapInv, StrandInv, Stranded, MappedTunnelIsAttached
<1> QED BY <1>1, InvHolds, PTL

\* mount_proxy signs with the secret of the tunnel's own session or not at all.
THEOREM SecretsMatch == Faults = {} => (Spec => []SecretOfSession)
<1>1. Inv => SecretOfSession
  BY DEF Inv, SecretInv, SecretOfSession
<1> QED BY <1>1, InvHolds, PTL

\* The mounts table and the map of tunnels agree on every code nobody is
\* working on.
THEOREM TableAgreesWithMap == Faults = {} => (Spec => []TableMatchesMap)
<1>1. Inv => TableMatchesMap
  <2> SUFFICES ASSUME Inv, NEW c \in Codes \ {Dropbox}, ~Busy(c)
               PROVE  rows[c].status = "online" <=> connections[c] # NoConn
    BY DEF TableMatchesMap
  <2>1. ASSUME rows[c].status = "online" PROVE connections[c] # NoConn
    <3>1. PICK k \in Conns : /\ code[k] = c
                             /\ pc[k] \in Opening \/ (pc[k] \in Tied /\ connections[c] = k)
      BY <2>1 DEF Inv, OnlineInv
    <3>2. pc[k] \notin Opening
      BY <3>1 DEF Busy, Claiming, Opening
    <3> QED BY <3>1, <3>2, ConstantsAssumption
  <2>2. ASSUME connections[c] # NoConn PROVE rows[c].status = "online"
    <3> DEFINE k == connections[c]
    <3>1. /\ k \in Conns /\ code[k] = c
          /\ \/ rows[c].status = "online" \/ pc[k] = "off_commit"
             \/ spc = "exp_commit" /\ cur.code = c
      BY <2>2 DEF Inv, TypeOK, MapInv
    <3> QED BY <3>1 DEF Busy, Attached
  <2> QED BY <2>1, <2>2
<1> QED BY <1>1, InvHolds, PTL

\* mount_registered is sent only once the row and this session's policy are
\* committed.
THEOREM RegistrationDurable == Faults = {} => (Spec => []RegisteredIsDurable)
<1>1. Inv => RegisteredIsDurable
  <2> SUFFICES ASSUME Inv, NEW c \in Codes, connections[c] # NoConn,
                      pc[connections[c]] \in {"reply", "serving"}
               PROVE  disk[c].status # "absent" /\ disk[c].policy = connections[c]
    BY DEF RegisteredIsDurable
  <2>1. connections[c] \in Conns /\ code[connections[c]] = c
    BY DEF Inv, TypeOK, MapInv
  <2> QED BY <2>1 DEF Inv, DiskInv, Current, Attached
<1> QED BY <1>1, InvHolds, PTL

LEMMA OnlyCrashesCount ==
  ASSUME Inv, [Next]_vars, crashes' # crashes
  PROVE  CrashAndRestart
<1>0. TypeOK /\ QueueInv /\ ClaimInv
  BY DEF Inv
<1>1. ASSUME NEW t \in Tasks PROVE ~CursorHop(t)
  BY DEF CursorHop
<1>2. ASSUME NEW k \in Conns PROVE ~Seek(k) /\ \A c \in Codes : ~Take(k, c)
  BY <1>0, SeekStep, TakeStep DEF Sought, Taken
<1>3. ASSUME NEW k \in Conns
      PROVE  /\ ~ReclaimUpdate(k) /\ ~RegisterInsert(k) /\ ~Attach(k)
             /\ ~PolicyUpdate(k) /\ ~PolicyEntries(k) /\ ~PolicyCommit(k)
  BY MoveStep DEF Moved
<1>4. ASSUME NEW k \in Conns
      PROVE  /\ ~Reply(k) /\ ~HeartbeatTimeout(k) /\ ~Disconnect(k) /\ ~OfflineStays(k) /\ ~OfflineUpdate(k)
             /\ ~OfflineLeaves(k) /\ ~OfflineCommit(k) /\ ~ReplyFails(k) /\ ~DisconnectFails(k)
  BY DEF Reply, HeartbeatTimeout, Disconnect, OfflineStays, OfflineUpdate, OfflineLeaves,
         OfflineSelected, OfflineCommit, ReplyFails, DisconnectFails
<1>5. ~SweepSteps
  BY SweepStep, ExpireStep, KeepStep DEF SweepSteps, Swept
<1>6. ~Visits /\ ~Tick
  BY DEF Visits, Tick
<1> QED BY <1>1, <1>2, <1>3, <1>4, <1>5, <1>6, Cases DEF SweepSteps

\* _startup_cleanup: a mount that was being served is OFFLINE after a crash,
\* with its owner, address and expiry, for its agent to reclaim.
THEOREM CrashesKeepMounts == Faults = {} => (Spec => CrashKeepsMounts)
<1> DEFINE Kept == \A c \in Codes :
              LET k == connections[c] IN
              /\ k # NoConn
              /\ pc[k] \in {"reply", "serving"}
              /\ rows[c].status = "online" /\ ~Past(rows[c], now)
              => /\ rows'[c].status = "offline" /\ rows'[c].policy = k
                 /\ rows'[c].ip = rows[c].ip /\ rows'[c].expires = rows[c].expires
<1>1. Inv /\ [Next]_vars => [crashes' # crashes => Kept]_crashes
  <2> SUFFICES ASSUME Inv, [Next]_vars, crashes' # crashes PROVE Kept
    OBVIOUS
  <2> SUFFICES ASSUME NEW c \in Codes, connections[c] # NoConn,
                      pc[connections[c]] \in {"reply", "serving"},
                      rows[c].status = "online", ~Past(rows[c], now)
               PROVE  /\ rows'[c].status = "offline" /\ rows'[c].policy = connections[c]
                      /\ rows'[c].ip = rows[c].ip /\ rows'[c].expires = rows[c].expires
    OBVIOUS
  <2>1. CrashAndRestart
    BY OnlyCrashesCount
  <2>2. connections[c] \in Conns /\ code[connections[c]] = c /\ c # Dropbox
    BY DEF Inv, TypeOK, MapInv, DropboxInv
  <2>3. disk[c].status = "online" /\ disk[c].policy = connections[c]
    BY <2>2 DEF Inv, DiskInv, Current, Attached
  <2>4. rows[c].expires = disk[c].expires /\ rows[c].ip = disk[c].ip
    BY <2>3 DEF Inv, DiskInv
  <2>5. disk[c].expires = Never \/ disk[c].expires >= now
    <3>1. rows[c].expires \in Int /\ now \in Nat
      BY DEF Inv, TypeOK, Row
    <3> QED BY <2>4, <3>1 DEF Past
  <2>6. rows'[c].status = "offline"
    BY <2>1, <2>2, <2>3, <2>5, CrashStep
  <2> QED BY <2>1, <2>2, <2>3, <2>4, <2>6, CrashStep
<1> HIDE DEF Kept
<1>2. Faults = {} => (Spec => [][crashes' # crashes => Kept]_crashes)
  BY <1>1, InvHolds, PTL DEF Spec
<1> QED BY <1>2 DEF CrashKeepsMounts, Kept

\* try_reclaim, register, mark_offline, expire, the sweep and the start-up
\* cleanup: an EXPIRED mount does not come back, and no row's expiry moves.
THEOREM ExpiryFinal == Faults = {} => (Spec => NoResurrection)
<1> DEFINE Final == \A c \in Codes : rows[c].status # "absent" /\ rows'[c].status # "absent" =>
          /\ rows[c].status = "expired" => rows'[c].status # "online"
          /\ rows'[c].expires = rows[c].expires
<1>1. ASSUME Faults = {}, Inv, [Next]_vars PROVE Final
  <2>0. /\ TypeOK /\ QueueInv /\ ClaimInv /\ StatusInv /\ DiskInv /\ DropboxInv
    BY <1>1 DEF Inv
  <2>1. CASE rows' = rows
    BY <2>1
  <2>2. ASSUME NEW t \in Tasks, CursorHop(t) PROVE Final
    BY <2>0, <2>2, CursorHops
  <2>3. ASSUME NEW k \in Conns, Seek(k) \/ \E c \in Codes : Take(k, c) PROVE Final
    BY <1>1, <2>0, <2>3, SeekStep, TakeStep DEF Sought, Taken
  <2>4. ASSUME NEW k \in Conns, ReclaimUpdate(k) PROVE Final
    <3>1. pc[k] = "update" /\ StatusSet(code[k], "online")
      BY <1>1, <2>4, MoveStep DEF Moved
    <3>2. rows[code[k]].status = "offline"
      BY <2>0, <3>1 DEF StatusInv
    <3> QED BY <3>1, <3>2 DEF StatusSet, OtherRows
  <2>5. ASSUME NEW k \in Conns, RegisterInsert(k) PROVE Final
    <3>1. pc[k] = "insert" /\ Inserted(code[k], k)
      BY <1>1, <2>5, MoveStep DEF Moved
    <3>2. rows[code[k]].status = "absent"
      BY <2>0, <3>1 DEF StatusInv
    <3> QED BY <3>1, <3>2 DEF Inserted, OtherRows
  <2>6. ASSUME NEW k \in Conns, PolicyUpdate(k) PROVE Final
    BY <1>1, <2>6, MoveStep DEF PolicySet, OtherRows
  <2>7. ASSUME NEW k \in Conns, OfflineUpdate(k) PROVE Final
    BY <1>1, <2>7, ServeStep DEF StatusSet, OtherRows
  <2>8. ASSUME NEW k \in Conns,
               \/ Attach(k) \/ PolicyEntries(k) \/ PolicyCommit(k) \/ Reply(k) \/ Disconnect(k)
               \/ OfflineStays(k) \/ OfflineLeaves(k) \/ OfflineCommit(k) \/ ReplyFails(k) \/ DisconnectFails(k)
        PROVE  Final
    BY <1>1, <2>8, MoveStep, ServeStep, FailStep DEF Left, Dropped
  <2>9. CASE SweepSteps
    BY <1>1, <2>9, SweepFrames DEF SweepFrame
  <2>10. CASE Calm
    BY <2>10 DEF Calm
  <2>11. CASE CrashAndRestart
    <3>1. ASSUME NEW c \in Codes, c # Dropbox, rows[c].status # "absent", rows'[c].status # "absent"
          PROVE  rows'[c].status # "online" /\ rows'[c].expires = rows[c].expires
      BY <1>1, <2>0, <2>11, <3>1, CrashStep DEF DiskInv
    <3>2. /\ rows[Dropbox].status = "online"
          /\ rows'[Dropbox].expires = rows[Dropbox].expires
      BY <1>1, <2>0, <2>11, CrashStep DEF DropboxInv, DropboxOnline, DropboxRow, NoRow
    <3> QED BY <3>1, <3>2
  <2> HIDE DEF Final
  <2> QED BY <2>2, <2>3, <2>4, <2>5, <2>6, <2>7, <2>8, <2>9, <2>10, <2>11, <1>1, Frames DEF HandlerSteps
<1> HIDE DEF Final
<1>2. Faults = {} => (Inv /\ [Next]_vars => [Final]_rows)
  BY <1>1
<1>3. Faults = {} => (Spec => [][Final]_rows)
  <2> SUFFICES ASSUME Faults = {} PROVE Spec => [][Final]_rows
    OBVIOUS
  <2>1. Inv /\ [Next]_vars => [Final]_rows
    BY <1>2
  <2> QED BY <2>1, InvHolds, PTL DEF Spec
<1> QED BY <1>3 DEF NoResurrection, Final

(***************************************************************************)
(* What a visitor is told.  The lookup reads the row, and resumes two trips   *)
(* later; whoever brings the row ONLINE in between is served at most twice    *)
(* more before that, too few to be told that it is registered.                *)
(***************************************************************************)
\* The handler became the holder of an ONLINE row after the visitor's read.
Arriving(k) ==
    \/ pc[k] \in Opening /\ (hop[Visitor] = 1 => Before(Visitor, k))
    \/ pc[k] = "policy" /\ hop[Visitor] = 2 /\ Before(Visitor, k)

LookInv ==
    /\ hop[Visitor] # 0
    /\ seen[Visitor][visit].status # "online" /\ rows[visit].status = "online"
    => \A k \in Conns : code[k] = visit /\ pc[k] \in Holding => Arriving(k) \/ closed[k]

\* Only the visitor's own steps and a crash touch what it asks and is told; a
\* tunnel that was closed stays closed until then.
LEMMA VisitorStays ==
  ASSUME Inv, [Next]_vars
  PROVE  \/ \E c \in Visited : Lookup(c)
         \/ LookupDone \/ VisitorLeaves \/ CrashAndRestart
         \/ /\ UNCHANGED <<vpc, visit, answer>>
            /\ \A k \in Conns : closed[k] => closed'[k]
<1> DEFINE Stays == UNCHANGED <<vpc, visit, answer>> /\ \A k \in Conns : closed[k] => closed'[k]
<1>0. closed \in [Conns -> BOOLEAN] /\ TypeOK /\ QueueInv /\ ClaimInv
  BY DEF Inv, TypeOK
<1>1. ASSUME NEW t \in Tasks, CursorHop(t) PROVE Stays
  BY <1>1 DEF CursorHop, visitor, handler
<1>2. ASSUME NEW j \in Conns, NEW c \in Codes \cup {NoCode}, Dial(j, c) PROVE Stays
  BY <1>2 DEF Dial, visitor
<1>3. ASSUME NEW j \in Conns,
             \/ Authenticated(j) \/ AuthRejected(j) \/ CapCheck(j) \/ TryReclaim(j) \/ HasMount(j)
      PROVE  Stays
  BY <1>3 DEF Authenticated, AuthRejected, CapCheck, TryReclaim, HasMount, visitor
<1>4. ASSUME NEW j \in Conns,
             \/ ReclaimUpdate(j) \/ RegisterInsert(j) \/ Attach(j)
             \/ PolicyUpdate(j) \/ PolicyEntries(j) \/ PolicyCommit(j) \/ Reply(j) \/ ReplyFails(j)
      PROVE  Stays
  BY <1>4 DEF ReclaimUpdate, RegisterInsert, Attach, PolicyUpdate, PolicyEntries, PolicyCommit,
              Reply, ReplyFails, visitor
<1>5. ASSUME NEW j \in Conns,
             \/ HeartbeatTimeout(j) \/ Disconnect(j) \/ DisconnectFails(j)
             \/ OfflineSelected(j) \/ OfflineUpdate(j) \/ OfflineCommit(j)
      PROVE  Stays
  BY <1>0, <1>5 DEF HeartbeatTimeout, Disconnect, DisconnectFails, OfflineSelected, OfflineUpdate, OfflineCommit, visitor
<1>6. CASE SweepStart \/ SweepNext \/ SweepSnapshot \/ ExpireSelected \/ ExpireUpdate
  BY <1>6 DEF SweepStart, SweepNext, SweepSnapshot, ExpireSelected, ExpireUpdate, visitor, handler
<1>7. CASE ExpireCommit
  BY <1>0, <1>7 DEF ExpireCommit, visitor
<1>8. CASE WarnUpdate \/ WarnCommit \/ RetentionDelete \/ RetentionCommit \/ Tick
  BY <1>8 DEF WarnUpdate, WarnCommit, RetentionDelete, RetentionCommit, Tick, visitor, handler
<1>9. CASE UNCHANGED vars
  BY <1>9 DEF vars, visitor, handler
<1> HIDE DEF Stays
<1>10. CASE WorkerStep
  BY <1>1, <1>3, <1>4, <1>5, <1>6, <1>7, <1>8, <1>10 DEF WorkerStep, HandlerDb, SweepDb, Stays
<1>11. CASE Next
  BY <1>2, <1>3, <1>4, <1>5, <1>6, <1>8, <1>10, <1>11 DEF Next, Stays
<1> QED BY <1>9, <1>11 DEF Stays

\* A holder that came after the read moves on: it waits behind the visitor
\* while there is a trip to go that could take it further than the policy.
LEMMA ArrivalStep ==
  ASSUME Inv, LookInv, NEW k \in Conns, HandlerSteps(k), Faults = {}, UNCHANGED <<vpc, visit>>,
         hop[Visitor] # 0, seen[Visitor][visit].status # "online",
         UNCHANGED hop[Visitor],
         rows'[visit].status = "online", code'[k] = visit, pc'[k] \in Holding,
         closed[k] => closed'[k]
  PROVE  Arriving(k)' \/ closed'[k]
<1> USE ConstantsAssumption
<1>0. /\ TypeOK /\ QueueInv /\ ClaimInv /\ ClosedInv /\ visit \in Codes
      /\ k \in Tasks /\ Visitor \in Tasks /\ Visitor # k /\ hop[Visitor] \in {1, 2}
  BY DEF Inv, TypeOK, Tasks
<1>1. In(Visitor)
  BY <1>0 DEF QueueInv
<1>2. ASSUME AtHead(k) PROVE ~Before(Visitor, k) /\ (Requeue(k) => Before(Visitor, k)')
  BY <1>0, <1>1, <1>2, Trip
<1>3. CASE Seek(k)
  BY <1>0, <1>3, SeekStep DEF Sought, Outside, ClaimSelects, Holding, Opening, Attached
<1>4. ASSUME NEW c \in Codes, Take(k, c) PROVE FALSE
  BY <1>4, TakeStep DEF Taken
<1>5. CASE ReclaimUpdate(k) \/ RegisterInsert(k)
  <2>1. AtHead(k) /\ Requeue(k) /\ pc'[k] \in Opening
    BY <1>5, MoveStep DEF ReclaimUpdate, RegisterInsert, Executed, Moved, Opening
  <2> QED BY <1>2, <2>1 DEF Arriving
<1>6. CASE Attach(k)
  <2>1. /\ AtHead(k) /\ Requeue(k) /\ pc[k] \in Opening /\ pc'[k] = "policy"
        /\ UNCHANGED <<rows, closed>> /\ code[k] = visit
    BY <1>6, MoveStep DEF Attach, Executed, Moved, Opening
  <2>2. ~closed[k] /\ pc[k] \in Holding
    BY <1>0, <2>1 DEF ClosedInv, Opening, Claiming, Holding
  <2>3. Arriving(k)
    BY <2>1, <2>2 DEF LookInv
  <2>4. hop[Visitor] = 2
    BY <1>0, <1>2, <2>1, <2>3 DEF Arriving, Opening
  <2> QED BY <1>2, <2>1, <2>4 DEF Arriving
<1>7. CASE PolicyUpdate(k)
  <2>1. AtHead(k) /\ pc[k] = "policy" /\ rows[visit].status = "online" /\ code[k] = visit
    BY <1>7, <1>0, MoveStep DEF PolicyUpdate, Executed, Moved, PolicySet
  <2>2. ~closed[k] /\ pc[k] \in Holding
    BY <1>0, <2>1 DEF ClosedInv, Holding, Attached
  <2>3. Arriving(k)
    BY <2>1, <2>2 DEF LookInv
  <2> QED BY <1>2, <2>1, <2>3 DEF Arriving, Opening
<1>8. ASSUME PolicyEntries(k) \/ PolicyCommit(k) \/ Reply(k) \/ OfflineStays(k) PROVE closed'[k]
  <2>1. /\ pc[k] \in Holding \ (Opening \cup {"policy"}) /\ code[k] = visit
        /\ UNCHANGED rows
    BY <1>8, MoveStep, ServeStep DEF Moved, Holding, Opening, Attached
  <2>2. ~Arriving(k)
    BY <2>1 DEF Arriving
  <2> QED BY <2>1, <2>2 DEF LookInv
<1>9. ASSUME Disconnect(k) PROVE closed'[k]
  BY <1>9, ServeStep DEF Closes
<1>10. ASSUME OfflineUpdate(k) PROVE FALSE
  BY <1>10, ServeStep DEF Moved, StatusSet
<1>11. ASSUME OfflineLeaves(k) \/ OfflineCommit(k) \/ ReplyFails(k) PROVE FALSE
  BY <1>11, ServeStep DEF Left, Holding, Opening, Attached
<1>12. ASSUME DisconnectFails(k) PROVE FALSE
  BY <1>12, FailStep DEF Dropped, Holding, Opening, Attached
<1> QED BY <1>12, <1>3, <1>4, <1>5, <1>6, <1>7, <1>8, <1>9, <1>10, <1>11 DEF HandlerSteps

LEMMA LookKept ==
  ASSUME Faults = {}, Inv, LookInv, [Next]_vars
  PROVE  LookInv'
<1> USE ConstantsAssumption
<1> SUFFICES ASSUME hop'[Visitor] # 0, seen'[Visitor][visit'].status # "online",
                    rows'[visit'].status = "online",
                    NEW k \in Conns, code'[k] = visit', pc'[k] \in Holding
             PROVE  Arriving(k)' \/ closed'[k]
  BY DEF LookInv
<1>0. /\ TypeOK /\ QueueInv /\ ClaimInv /\ HolderInv /\ visit \in Codes
      /\ Visitor \in Tasks /\ Sweep \in Tasks /\ Visitor # Sweep /\ k \in Tasks /\ Visitor # k
      /\ hop \in [Tasks -> 0..2] /\ seen \in [Tasks -> [Codes -> Row]]
  BY DEF Inv, TypeOK, Tasks
<1>1. ~CrashAndRestart /\ ~LookupDone /\ ~VisitorLeaves /\ \A c \in Visited : ~Lookup(c)
  <2>1. ~CrashAndRestart
    BY <1>0 DEF CrashAndRestart
  <2>2. ~LookupDone
    BY <1>0 DEF LookupDone, Fetched
  <2> QED BY <1>0, <2>1, <2>2 DEF VisitorLeaves, Lookup, QueueInv, worker
<1>2. UNCHANGED <<vpc, visit, answer>> /\ \A j \in Conns : closed[j] => closed'[j]
  BY <1>1, VisitorStays
\* Nothing happens to the holder, and the visitor keeps its turn.
<1>3. ASSUME pc'[k] = pc[k], code'[k] = code[k], rows[visit].status = "online",
             Before(Visitor, k) => Before(Visitor, k)',
             hop'[Visitor] = hop[Visitor], seen'[Visitor] = seen[Visitor]
      PROVE  Arriving(k)' \/ closed'[k]
  <2>1. Arriving(k) \/ closed[k]
    BY <1>2, <1>3 DEF LookInv
  <2> QED BY <1>2, <1>3, <2>1 DEF Arriving
<1>4. ASSUME NEW t \in Tasks, CursorHop(t), t # Visitor PROVE Arriving(k)' \/ closed'[k]
  <2>1. KeepsTurns(t)
    BY <1>0, <1>4, CursorHops, Turns
  <2> QED BY <1>0, <1>2, <1>3, <1>4, <2>1, CursorHops DEF KeepsTurns
<1>5. CASE CursorHop(Visitor)
  <2>1. hop[Visitor] \in {0, 1} /\ hop'[Visitor] = hop[Visitor] + 1 /\ UNCHANGED <<rows, pc, code, closed>>
    BY <1>0, <1>5, CursorHops
  <2>2. CASE hop[Visitor] = 0
    <3>1. Selected(Visitor, visit)
      BY <1>0 DEF Selected
    <3>2. seen' = [seen EXCEPT ![Visitor] =
                     [c \in Codes |-> IF Selected(Visitor, c) THEN rows[c] ELSE NoRow]]
      BY <1>5, <2>2 DEF CursorHop
    <3>3. seen'[Visitor][visit] = rows[visit]
      BY <1>0, <3>1, <3>2
    <3> QED BY <1>2, <2>1, <3>3
  <2>3. CASE hop[Visitor] = 1
    <3>1. seen'[Visitor] = seen[Visitor]
      BY <1>0, <1>5, <2>3, CursorHops
    <3>2. Arriving(k) \/ closed[k]
      BY <1>2, <2>1, <2>3, <3>1 DEF LookInv
    <3>3. pc[k] \in Opening \/ closed[k]
      BY <2>3, <3>2 DEF Arriving
    <3> QED BY <2>1, <2>3, <3>3 DEF Arriving
  <2> QED BY <2>1, <2>2, <2>3
<1>6. ASSUME NEW j \in Conns, HandlerSteps(j) PROVE Arriving(k)' \/ closed'[k]
  <2>1. HandlerFrame(j)
    BY <1>6, HandlerFrames
  <2>2. hop'[Visitor] = hop[Visitor] /\ seen'[Visitor] = seen[Visitor]
    BY <1>0, <2>1 DEF HandlerFrame, KeepsReads
  <2>3. CASE k = j
    BY <1>2, <1>6, <2>2, <2>3, ArrivalStep
  <2>4. CASE k # j
    <3>1. pc'[k] = pc[k] /\ code'[k] = code[k]
      BY <2>1, <2>4 DEF HandlerFrame, Elsewhere
    <3>2. Before(Visitor, k) => Before(Visitor, k)'
      BY <1>0, <2>1 DEF HandlerFrame, KeepsTurns
    <3>3. code[j] # visit \/ pc[j] \in Outside
      BY <1>0, <1>2, <2>1, <2>4, <3>1 DEF HandlerFrame, HolderInv
    <3>4. rows'[visit] = rows[visit]
      BY <1>0, <2>1, <3>3 DEF HandlerFrame
    <3> QED BY <1>2, <1>3, <2>2, <3>1, <3>2, <3>4
  <2> QED BY <2>3, <2>4
<1>7. CASE SweepSteps
  <2>1. SweepFrame
    BY <1>7, SweepFrames
  <2>2. rows[visit].status = "online"
    BY <1>0, <1>2, <2>1 DEF SweepFrame
  <2> QED BY <1>0, <1>3, <2>1, <2>2 DEF SweepFrame, KeepsTurns, KeepsReads
<1>8. ASSUME UNCHANGED <<rows, pc, code, queue, hop, seen>> PROVE Arriving(k)' \/ closed'[k]
  BY <1>2, <1>3, <1>8 DEF Before
<1>9. Tick \/ (\E j \in Conns : HeartbeatTimeout(j)) \/ UNCHANGED vars
        => UNCHANGED <<rows, pc, code, queue, hop, seen>>
  BY DEF Tick, HeartbeatTimeout, vars, registry, handler, worker
<1>10. \/ \E t \in Tasks : CursorHop(t)
       \/ \E j \in Conns : HandlerSteps(j)
       \/ SweepSteps \/ Tick \/ (\E j \in Conns : HeartbeatTimeout(j)) \/ UNCHANGED vars
  BY <1>1, Steps DEF HandlerSteps, SweepSteps
<1> QED BY <1>4, <1>5, <1>6, <1>7, <1>8, <1>9, <1>10

\* get_connection against register, reclaim and mark_offline: a visitor is not
\* told that a mount is down while its agent is serving it.
THEOREM ServedIsNotDown == Faults = {} => (Spec => NotDownWhileServing)
<1> DEFINE Told == answer' \in {"not_found", "offline", "expired"} =>
          LET k == connections[visit] IN
          k # NoConn => pc[k] # "serving" \/ closed[k] \/ rows[visit].status # "online"
<1>1. Inv /\ LookInv /\ [Next]_vars => [Told]_answer
  <2> SUFFICES ASSUME Inv, LookInv, [Next]_vars, answer' # answer,
                      answer' \in {"not_found", "offline", "expired"},
                      connections[visit] # NoConn, pc[connections[visit]] = "serving",
                      ~closed[connections[visit]], rows[visit].status = "online"
               PROVE  FALSE
    OBVIOUS
  <2>0. connections[visit] \in Conns /\ visit \in Codes /\ code[connections[visit]] = visit
    BY DEF Inv, TypeOK, MapInv
  <2>1. LookupDone
    BY VisitorStays DEF Lookup, VisitorLeaves, CrashAndRestart
  <2>2. hop[Visitor] = 2 /\ answer' = LookupAnswer(visit, seen[Visitor][visit])
    BY <2>1 DEF LookupDone, Fetched
  <2>3. seen[Visitor][visit].status # "online"
    BY <2>2 DEF LookupAnswer
  <2>4. Arriving(connections[visit])
    BY <2>0, <2>2, <2>3 DEF LookInv, Holding, Attached
  <2> QED BY <2>4 DEF Arriving, Opening
<1>2. Init => LookInv
  BY ConstantsAssumption DEF Init, LookInv, Tasks
<1>3. Faults = {} => (Inv /\ LookInv /\ [Next]_vars => LookInv')
  BY LookKept
<1> HIDE DEF Told
<1>4. Faults = {} => (Spec => [][Told]_answer)
  <2> SUFFICES ASSUME Faults = {} PROVE Spec => [][Told]_answer
    OBVIOUS
  <2>1. Inv /\ LookInv /\ [Next]_vars => LookInv'
    BY <1>3
  <2> QED BY <1>1, <1>2, <2>1, InvHolds, PTL DEF Spec
<1> QED BY <1>4 DEF NotDownWhileServing, Told
=============================================================================
