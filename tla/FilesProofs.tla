---------------------------- MODULE FilesProofs ----------------------------
(***************************************************************************)
(* Proofs about Files, for every set of requests, names, sizes and clients  *)
(* and any number of crashes.  A file put under a name that nobody used is   *)
(* removed for its age only after its own TTL, and keeps its row until then *)
(* (TtlHolds); under conditions on who uses the temporary names, a name     *)
(* shows the whole of one upload (WholeFiles).                              *)
(***************************************************************************)
EXTENDS Files, SequenceTheorems, WellFoundedInduction, TLAPS

(***************************************************************************)
(* The inductive invariant, in parts.                                       *)
(***************************************************************************)
Places == {"idle", "before", "first", "pick", "open", "write", "place",
           "owner", "ttl", "after", "last", "rollback", "end"}
\* Places before an upload has its file in hand, with it in hand, in the loop
\* over the files, and in the loops over the results.
Pre == {"idle", "before", "first", "pick", "open"}
Hand == {"write", "place"}
Loop == {"pick", "open", "write", "place"}
Post == {"owner", "ttl", "after", "last", "rollback"}

Outcomes == [name : Names, file : Inodes \cup {Folder}]
DiskTyped ==
    /\ start \in Starts
    /\ link \in [Names -> Inodes \cup {None, Folder}]
    /\ data \in [Inodes -> Seq(Inodes \cup {None})]
    /\ rename = <<>> \/ (rename \in start.renames /\ rename[1] \in Names /\ rename[2] \in Names)
UploadsTyped ==
    /\ pc \in [Requests -> Places] /\ idx \in [Requests -> 1..MaxFiles]
    /\ dest \in [Requests -> Names \cup {NoName}] /\ fd \in [Requests -> Inodes \cup {None}]
    /\ pos \in [Requests -> Nat] /\ results \in [Requests -> Seq(Outcomes)]
\* A row the sweep has listed was due.
SweepTyped ==
    /\ ttl \in [Names -> Rows \cup {NoTtl}]
    /\ listed \subseteq [name : Names, by : Inodes \cup {Folder}, due : {TRUE}]
    /\ relay \in {"up", "boot", "purge", "remove"}
    /\ sweep \in Names \cup {"sleep", "next"}
    /\ relay # "up" => sweep = "sleep"
Typed == DiskTyped /\ UploadsTyped /\ SweepTyped

\* How far upload u is, and what it has in hand there.
Progress(u) ==
    /\ pc[u] \in {"idle", "before", "first"} => idx[u] = 1 /\ results[u] = <<>>
    /\ pc[u] \in Loop => idx[u] <= Len(Req(u).files) /\ Len(results[u]) = idx[u] - 1
    /\ pc[u] \in Post => idx[u] <= Len(results[u]) /\ Len(results[u]) = Len(Req(u).files)
    /\ Running(u) => Req(u).kind # "none"
    /\ pc[u] \in Hand \cup {"open"} => dest[u] \in Names /\ Wanted(u) \in Names
    /\ pc[u] \in Hand => fd[u] \in Inodes
Steps == \A u \in Requests : Progress(u)

\* The j-th file of u has not been created.
NotYet(u, j) == (pc[u] \in Pre /\ j >= idx[u]) \/ (pc[u] \in Hand /\ j > idx[u])
\* A file has one name, and none before it is created.
OneName == \A n, m \in Names : IsFile(n) /\ link[n] = link[m] => n = m
NotLinked == \A u \in Requests, j \in 1..MaxFiles : NotYet(u, j) => \A n \in Names : link[n] # <<u, j>>

\* Whatever speaks of the name of a fresh file speaks of that file.
FreshRow(n) == ttl[n] # NoTtl => ttl[n].by = link[n]
FreshListed(n) == \A r \in listed : r.name = n => r.by = link[n]
FreshResult(n) ==
    \A v \in Requests : Running(v) =>
        \A k \in DOMAIN results[v] : results[v][k].name = n => results[v][k].file = link[n]
FreshHand(n) == \A v \in Requests : pc[v] \in Hand /\ dest[v] = n => fd[v] = link[n]
Fresh(n) == IsFile(n) /\ link[n] \in fresh
FreshInv == \A n \in Names : Fresh(n) => FreshRow(n) /\ FreshListed(n) /\ FreshResult(n) /\ FreshHand(n)
\* Between the removal of a file and that of its row the name is not reused.
SweepInv == sweep \in Names => (\E r \in listed : r.name = sweep) /\ ~Fresh(sweep)

TtlInv == Typed /\ Steps /\ NotLinked /\ FreshInv /\ SweepInv

(***************************************************************************)
(* The conditions under which names show whole files: clients do not move   *)
(* temporary names, nor anything to a name that an upload may write; no old *)
(* file or row has a temporary name and no upload asks for one; at most two *)
(* overwrites go through a temporary name, and if clients delete it, they   *)
(* are of one request.                                                      *)
(***************************************************************************)
Named(s, n) ==
    \E u \in Requests : \E j \in DOMAIN s.req[u].files :
        LET m == s.req[u].files[j] IN
        m \in Names /\ (n = m \/ (s.req[u].mode = "rename" /\ \E k \in DOMAIN Alt[m] : n = Alt[m][k]))
Over(s, t) ==
    {w \in Writes : /\ s.req[w[1]].mode = "overwrite" /\ w[2] \in DOMAIN s.req[w[1]].files
                    /\ s.req[w[1]].files[w[2]] \in Names /\ Tmp[s.req[w[1]].files[w[2]]] = t}
Careful(s) ==
    /\ \A n \in Tmps : n \notin s.old \cup s.rows /\ ~Named(s, n)
    /\ \A p \in s.renames : p[1] \notin Tmps /\ ~Named(s, p[2]) /\ Over(s, p[2]) = {}
    /\ \A t \in Tmps :
          /\ \A a, b, c \in Over(s, t) : a = b \/ a = c \/ b = c
          /\ t \in s.deletes => \A a, b \in Over(s, t) : a[1] = b[1]

\* An upload writes to a name of its own, or to the temporary name.
Aim(u) ==
    /\ dest[u] \in Tmps => dest[u] = Tmp[Wanted(u)] /\ Req(u).mode = "overwrite"
    /\ dest[u] \notin Tmps => Named(start, dest[u])
Aims == \A u \in Requests : pc[u] \in Hand \cup {"open"} => Aim(u)
\* What the uploads and the tables name is no temporary name.
NoTmps ==
    /\ \A u \in Requests : \A k \in DOMAIN results[u] : results[u][k].name \notin Tmps
    /\ \A n \in Tmps : ttl[n] = NoTtl
    /\ \A r \in listed : r.name \notin Tmps

InHandOf(u) == pc[u] \in Hand
\* A file in hand that no one else wrote holds what its upload wrote so far.
Partial(u) ==
    InHandOf(u) /\ fd[u] \notin mixed =>
        /\ data[fd[u]] = [k \in 1..pos[u] |-> Me(u)] /\ pos[u] <= Size[u]
        /\ pc[u] = "place" => pos[u] = Size[u]
Partials == \A u \in Requests : Partial(u)
Sharers == \A u, v \in Requests : u # v /\ InHandOf(u) /\ InHandOf(v) /\ fd[u] = fd[v] => fd[u] \in mixed
\* A file that nobody has in hand is whole.
AtRest == \A n \in Names : IsFile(n) /\ link[n] \notin mixed \cup cut /\ InHand(link[n]) = {} => Whole(link[n])
\* A new file in hand is the upload's own; old files are never opened.
OwnFile == \A u \in Requests : InHandOf(u) /\ dest[u] \notin Tmps /\ fd[u] \notin mixed => fd[u][1] = u
OldSafe ==
    /\ \A u \in Requests : pc[u] = "open" /\ dest[u] \notin Tmps => link[dest[u]] \notin OldFiles
    /\ \A t \in Tmps : Over(start, t) # {} => link[t] \notin OldFiles
\* A temporary file in hand has no other name until it is put in place, and
\* no further upload comes once it has lost that name.
TmpOnly ==
    \A u \in Requests : InHandOf(u) /\ dest[u] \in Tmps /\ fd[u] \notin mixed =>
        \A n \in Names : link[n] = fd[u] => n = dest[u]
TmpHeld == \A u \in Requests : InHandOf(u) /\ dest[u] \in Tmps /\ IsFile(dest[u]) => link[dest[u]] = fd[u]
NoMore ==
    \A u \in Requests : InHandOf(u) /\ dest[u] \in Tmps /\ ~IsFile(dest[u]) =>
        \A w \in Over(start, dest[u]) : w[1] # u => ~NotYet(w[1], w[2])

CareInv ==
    /\ Aims /\ NoTmps
    /\ Partials /\ Sharers /\ AtRest /\ OwnFile /\ OldSafe /\ TmpOnly /\ TmpHeld /\ NoMore
Inv == TtlInv /\ OneName /\ (Careful(start) => CareInv)
-----------------------------------------------------------------------------
(***************************************************************************)
(* Constants and helpers.                                                   *)
(***************************************************************************)
LEMMA Bounds == MaxFiles \in Nat /\ MaxFiles >= 1 /\ \A u \in Requests : Size[u] \in Nat /\ Size[u] >= 1
<1>1. MaxFiles \in Nat \ {0} /\ Size \in [Requests -> Nat \ {0}]
  BY FilesAssumption
<1> QED BY <1>1

LEMMA Markers ==
  /\ None \notin Inodes /\ Folder \notin Inodes /\ None # Folder
  /\ NoName \notin Names /\ "sleep" \notin Names /\ "next" \notin Names
  /\ OldFiles \cap Writes = {} /\ NoTtl \notin Rows
<1>1. "none" \notin Names /\ "folder" \notin Names /\ "" \notin Names /\ "sleep" \notin Names /\ "next" \notin Names
  BY FilesAssumption
<1>a. \A w \in OldFiles : w[1] \in Names /\ w[2] = 0
  BY DEF OldFiles
<1>b. \A w \in Writes : w[1] \in Requests /\ w[2] # 0
  BY Bounds DEF Writes
<1>2. OldFiles \cap Writes = {}
  BY <1>a, <1>b
<1>3. None \notin Inodes /\ Folder \notin Inodes /\ None # Folder
  <2>1. None[1] = "none" /\ None[2] = 0 /\ Folder[1] = "folder" /\ Folder[2] = 0
    BY DEF None, Folder
  <2>2. "none" # "folder"
    OBVIOUS
  <2> QED BY <1>1, <1>a, <1>b, <2>1, <2>2 DEF Inodes
<1>4. NoTtl \notin Rows
  BY <1>3 DEF NoTtl, Rows
<1> QED BY <1>1, <1>2, <1>3, <1>4 DEF NoName

LEMMA WriteIsFile ==
  ASSUME NEW u \in Requests, NEW j \in 1..MaxFiles
  PROVE  <<u, j>> \in Writes /\ <<u, j>> \in Inodes
BY DEF Writes, Inodes

\* What the starts are.
LEMMA StartType ==
  ASSUME start \in Starts, NEW u \in Requests
  PROVE  /\ Req(u).kind \in {"api", "share", "mine", "none"}
         /\ Req(u).files \in Seq(Names \cup BadNames)
         /\ Len(Req(u).files) \in 1..MaxFiles /\ Len(Req(u).files) \in Nat
         /\ DOMAIN Req(u).files = 1..Len(Req(u).files)
<1>1. /\ Req(u).kind \in {"api", "share", "mine", "none"}
      /\ Req(u).files \in Seq(Names \cup BadNames)
      /\ Len(Req(u).files) \in 1..MaxFiles
  BY FilesAssumption DEF Req
<1> QED BY <1>1, LenProperties

LEMMA WantedType ==
  ASSUME start \in Starts, NEW u \in Requests, idx[u] \in 1..MaxFiles, idx[u] <= Len(Req(u).files)
  PROVE  /\ Wanted(u) \in Names \cup BadNames
         /\ ValidName(Wanted(u)) => Wanted(u) \in Names
         /\ idx[u] \in DOMAIN Req(u).files
<1>1. idx[u] \in 1..Len(Req(u).files)
  BY StartType, Bounds
<1>2. Wanted(u) \in Names \cup BadNames
  BY <1>1, StartType, ElementOfSeq DEF Wanted
<1> QED BY <1>1, <1>2, StartType DEF ValidName

LEMMA MinIsIn ==
  ASSUME NEW S \in SUBSET Nat, S # {}
  PROVE  Min(S) \in S
<1>1. PICK x \in S : \A y \in S : ~(<<y, x>> \in OpToRel(<, Nat))
  BY NatLessThanWellFounded, WFMin
<1>2. ASSUME NEW y \in S PROVE x <= y
  <2>1. x \in Nat /\ y \in Nat
    OBVIOUS
  <2>2. <<y, x>> \in Nat \X Nat /\ <<y, x>>[1] = y /\ <<y, x>>[2] = x
    BY <2>1
  <2>3. ~(y < x)
    BY <1>1, <2>2 DEF OpToRel
  <2> QED BY <2>1, <2>3
<1> QED BY <1>2 DEF Min

LEMMA FirstFreeIn ==
  ASSUME NEW n \in Names, HasFree(n)
  PROVE  \E k \in DOMAIN Alt[n] : FirstFree(n) = Alt[n][k] /\ Alt[n][k] \in Names /\ ~Exists(Alt[n][k])
<1> DEFINE S == {k \in DOMAIN Alt[n] : ~Exists(Alt[n][k])}
<1>1. Alt[n] \in Seq(Names)
  BY FilesAssumption
<1>2. S \in SUBSET Nat /\ S # {}
  BY <1>1, LenProperties DEF HasFree
<1>3. Min(S) \in S
  BY <1>2, MinIsIn
<1>4. Alt[n][Min(S)] \in Names
  BY <1>1, <1>3, LenProperties, ElementOfSeq
<1> QED BY <1>3, <1>4 DEF FirstFree

\* An upload aims at a free name, or, when it overwrites, at the temporary one.
LEMMA DestinationIs ==
  ASSUME start \in Starts, NEW u \in Requests, Wanted(u) \in Names, Destination(u) # NoName
  PROVE  /\ Destination(u) \in Names
         /\ \/ ~Exists(Destination(u)) /\ Destination(u) = Wanted(u)
            \/ /\ ~Exists(Destination(u)) /\ Req(u).mode = "rename"
               /\ \E k \in DOMAIN Alt[Wanted(u)] : Destination(u) = Alt[Wanted(u)][k]
            \/ Req(u).mode = "overwrite" /\ Destination(u) = Tmp[Wanted(u)]
<1>1. Tmp[Wanted(u)] \in Names
  BY FilesAssumption
<1>2. CASE ~Exists(Wanted(u))
  BY <1>2 DEF Destination
<1>3. CASE Exists(Wanted(u)) /\ Req(u).mode = "rename" /\ HasFree(Wanted(u))
  <2>1. Destination(u) = FirstFree(Wanted(u))
    BY <1>3 DEF Destination
  <2> QED BY <1>3, <2>1, FirstFreeIn
<1>4. CASE Exists(Wanted(u)) /\ Req(u).mode = "overwrite"
  BY <1>1, <1>4 DEF Destination
<1>5. CASE /\ Exists(Wanted(u)) /\ ~(Req(u).mode = "rename" /\ HasFree(Wanted(u)))
           /\ Req(u).mode # "overwrite"
  BY <1>5 DEF Destination
<1> QED BY <1>2, <1>3, <1>4, <1>5

\* A chunk written at the end of what one upload wrote.
LEMMA MaxIs ==
  ASSUME NEW a \in Nat, NEW b \in Nat
  PROVE  Max({a, b}) \in {a, b} /\ Max({a, b}) >= a /\ Max({a, b}) >= b
<1>1. \E x \in {a, b} : \A y \in {a, b} : x >= y
  OBVIOUS
<1> QED BY <1>1 DEF Max

LEMMA FunIsSeq ==
  ASSUME NEW T, NEW n \in Nat, NEW f \in [1..n -> T]
  PROVE  f \in Seq(T) /\ Len(f) = n
<1>1. f \in Seq(T)
  BY SeqDef
<1> QED BY <1>1, LenProperties

LEMMA ChunkType ==
  ASSUME NEW u \in Requests, NEW d \in Seq(Inodes \cup {None}), pos[u] \in Nat, idx[u] \in 1..MaxFiles
  PROVE  Chunk(u, d) \in Seq(Inodes \cup {None})
<1> DEFINE N == Max({Len(d), pos[u] + 1})
<1>1. Len(d) \in Nat /\ d \in [1..Len(d) -> Inodes \cup {None}]
  BY LenProperties
<1>2. N \in Nat
  BY <1>1, MaxIs
<1>3. Me(u) \in Inodes
  BY WriteIsFile DEF Me
<1>4. \A k \in 1..N : (IF k = pos[u] + 1 THEN Me(u) ELSE IF k <= Len(d) THEN d[k] ELSE None) \in Inodes \cup {None}
  BY <1>1, <1>2, <1>3
<1>5. Chunk(u, d) \in [1..N -> Inodes \cup {None}]
  BY <1>4 DEF Chunk
<1> QED BY <1>2, <1>5, FunIsSeq

LEMMA ChunkAppends ==
  ASSUME NEW u \in Requests, pos[u] \in Nat, idx[u] \in 1..MaxFiles, NEW d,
         d = [k \in 1..pos[u] |-> Me(u)]
  PROVE  Chunk(u, d) = [k \in 1..(pos[u] + 1) |-> Me(u)]
<1>1. d \in [1..pos[u] -> {Me(u)}]
  OBVIOUS
<1>2. Len(d) = pos[u]
  BY <1>1, FunIsSeq
<1>3. Max({Len(d), pos[u] + 1}) = pos[u] + 1
  BY <1>2, MaxIs
<1>4. \A k \in 1..(pos[u] + 1) :
         (IF k = pos[u] + 1 THEN Me(u) ELSE IF k <= Len(d) THEN d[k] ELSE None) = Me(u)
  BY <1>2
<1> QED BY <1>3, <1>4 DEF Chunk
-----------------------------------------------------------------------------
(***************************************************************************)
(* What the steps of an upload do.  Upload u goes to place p with index j,  *)
(* destination d, open file f at position q, and results r.                 *)
(***************************************************************************)
To(u, p, j) == pc' = [pc EXCEPT ![u] = p] /\ idx' = [idx EXCEPT ![u] = j]
Sets(u, p, j, d, f, q, r) ==
    /\ To(u, p, j)
    /\ dest' = [dest EXCEPT ![u] = d] /\ fd' = [fd EXCEPT ![u] = f] /\ pos' = [pos EXCEPT ![u] = q]
    /\ results' = [results EXCEPT ![u] = r]
\* The same, of the place and the index only.
Goes(u, p, j) == Sets(u, p, j, dest[u], fd[u], pos[u], results[u])
Rest == Up /\ UNCHANGED <<start, rename, sweep, listed, relay>>

LEMMA SetsType ==
  ASSUME Typed, NEW u \in Requests
  PROVE  /\ pc[u] \in Places /\ idx[u] \in 1..MaxFiles /\ idx[u] \in Nat /\ idx[u] >= 1
         /\ dest[u] \in Names \cup {NoName} /\ fd[u] \in Inodes \cup {None} /\ pos[u] \in Nat
         /\ results[u] \in Seq(Outcomes)
         /\ pc = [pc EXCEPT ![u] = pc[u]] /\ idx = [idx EXCEPT ![u] = idx[u]]
         /\ dest = [dest EXCEPT ![u] = dest[u]] /\ fd = [fd EXCEPT ![u] = fd[u]]
         /\ pos = [pos EXCEPT ![u] = pos[u]] /\ results = [results EXCEPT ![u] = results[u]]
BY Bounds DEF Typed, UploadsTyped

LEMMA GoesIf ==
  ASSUME Typed, NEW u \in Requests, NEW p, NEW j, To(u, p, j), UNCHANGED <<dest, fd, pos, results>>
  PROVE  Goes(u, p, j)
BY SetsType DEF Goes, Sets

\* u is as set, and the other uploads are as they were.
LEMMA SetsIs ==
  ASSUME Typed, NEW u \in Requests, NEW p, NEW j, NEW d, NEW f, NEW q, NEW r, Sets(u, p, j, d, f, q, r)
  PROVE  /\ pc'[u] = p /\ idx'[u] = j /\ dest'[u] = d /\ fd'[u] = f /\ pos'[u] = q /\ results'[u] = r
         /\ \A v \in Requests : v # u =>
               /\ pc'[v] = pc[v] /\ idx'[v] = idx[v] /\ dest'[v] = dest[v] /\ fd'[v] = fd[v]
               /\ pos'[v] = pos[v] /\ results'[v] = results[v]
BY DEF Typed, UploadsTyped, Sets, To

LEMMA SetsSteps ==
  ASSUME Typed, Steps, NEW u \in Requests, start' = start,
         NEW p \in Places, NEW j \in 1..MaxFiles, NEW d \in Names \cup {NoName},
         NEW f \in Inodes \cup {None}, NEW q \in Nat, NEW r \in Seq(Outcomes),
         Sets(u, p, j, d, f, q, r),
         p \in {"idle", "before", "first"} => j = 1 /\ r = <<>>,
         p \in Loop => j <= Len(Req(u).files) /\ Len(r) = j - 1,
         p \in Post => j <= Len(r) /\ Len(r) = Len(Req(u).files),
         p \notin {"idle", "end"} => Req(u).kind # "none",
         p \in Hand \cup {"open"} => d \in Names /\ Req(u).files[j] \in Names,
         p \in Hand => f \in Inodes
  PROVE  UploadsTyped' /\ Steps'
<1>1. UploadsTyped'
  BY DEF Typed, UploadsTyped, Sets, To
<1>2. \A v \in Requests : Req(v)' = Req(v)
  BY DEF Req
<1>3. Progress(u)'
  BY <1>2, SetsIs DEF Progress, Running, Wanted
<1>4. ASSUME NEW v \in Requests, v # u PROVE Progress(v)'
  BY <1>2, <1>4, SetsIs DEF Steps, Progress, Running, Wanted
<1> QED BY <1>1, <1>3, <1>4 DEF Steps

\* After a file, the next one or what follows the loop.
NextPlace(u, p, j) ==
    \/ p = "pick" /\ j = idx[u] + 1 /\ j <= Len(Req(u).files) /\ j \in 1..MaxFiles
    \/ p \in {"owner", "end", "after"} /\ j = 1 /\ idx[u] = Len(Req(u).files)

LEMMA AfterFileIs ==
  ASSUME Typed, Steps, NEW u \in Requests, pc[u] \in Loop, AfterFile(u)
  PROVE  \E p \in Places : \E j \in 1..MaxFiles : NextPlace(u, p, j) /\ To(u, p, j)
<1>1. /\ idx[u] \in 1..MaxFiles /\ idx[u] <= Len(Req(u).files) /\ Req(u).kind # "none"
      /\ Len(Req(u).files) \in 1..MaxFiles /\ Req(u).kind \in {"api", "share", "mine", "none"}
  BY StartType DEF Typed, DiskTyped, UploadsTyped, Steps, Progress, Running, Loop
<1>2. CASE idx[u] < Len(Req(u).files)
  <2>1. idx[u] + 1 \in 1..MaxFiles /\ idx[u] + 1 <= Len(Req(u).files) /\ "pick" \in Places
    BY <1>1, <1>2, Bounds DEF Places
  <2>2. NextPlace(u, "pick", idx[u] + 1) /\ To(u, "pick", idx[u] + 1)
    BY <2>1, <1>2 DEF AfterFile, To, NextPlace
  <2> QED BY <2>1, <2>2
<1>3. CASE ~(idx[u] < Len(Req(u).files))
  <2>1. idx[u] = Len(Req(u).files) /\ 1 \in 1..MaxFiles
    BY <1>1, <1>3, Bounds
  <2> DEFINE p == CASE Req(u).kind = "api" -> "owner"
                    [] Req(u).kind = "share" -> "end"
                    [] Req(u).kind = "mine" -> "after"
  <2>2. To(u, p, 1)
    BY <1>3 DEF AfterFile, To
  <2>3. p \in {"owner", "end", "after"}
    <3>1. CASE Req(u).kind = "api"
      BY <3>1
    <3>2. CASE Req(u).kind = "share"
      BY <3>2
    <3>3. CASE Req(u).kind = "mine"
      BY <3>3
    <3> QED BY <1>1, <3>1, <3>2, <3>3
  <2> HIDE DEF p
  <2>4. p \in Places /\ NextPlace(u, p, 1)
    BY <2>1, <2>3 DEF Places, NextPlace
  <2> QED BY <2>1, <2>2, <2>4
<1> QED BY <1>2, <1>3

\* The next result, or the part that follows.
NextOf(u, part, p, j) ==
    \/ p = pc[u] /\ j = idx[u] + 1 /\ j <= Len(results[u])
    \/ p = part /\ j = 1 /\ 1 <= Len(results[u])

LEMMA ResultIs ==
  ASSUME Typed, Steps, NEW u \in Requests, pc[u] \in Post
  PROVE  /\ Result(u) \in Outcomes /\ Result(u) = results[u][idx[u]] /\ idx[u] \in DOMAIN results[u]
         /\ Len(results[u]) \in 1..MaxFiles /\ Len(results[u]) = Len(Req(u).files)
<1>1. /\ idx[u] \in 1..MaxFiles /\ idx[u] \in Nat /\ idx[u] >= 1 /\ idx[u] <= Len(results[u])
      /\ results[u] \in Seq(Outcomes) /\ Len(results[u]) = Len(Req(u).files)
  BY Bounds DEF Typed, UploadsTyped, Steps, Progress
<1>2. Len(results[u]) \in 1..MaxFiles
  BY <1>1, StartType DEF Typed, DiskTyped
<1>3. Len(results[u]) \in Nat /\ idx[u] \in DOMAIN results[u] /\ results[u][idx[u]] \in Outcomes
  BY <1>1, LenProperties, ElementOfSeq
<1> QED BY <1>1, <1>2, <1>3 DEF Result

LEMMA NextResultIs ==
  ASSUME Typed, Steps, NEW u \in Requests, pc[u] \in Post, NEW part \in Places, NextResult(u, part)
  PROVE  \E p \in Places : \E j \in 1..MaxFiles : NextOf(u, part, p, j) /\ To(u, p, j)
<1>1. idx[u] \in 1..MaxFiles /\ Len(results[u]) \in 1..MaxFiles /\ pc[u] \in Places /\ 1 \in 1..MaxFiles
  BY ResultIs, SetsType, Bounds
<1>2. CASE idx[u] < Len(results[u])
  <2>1. idx[u] + 1 \in 1..MaxFiles /\ idx[u] + 1 <= Len(results[u])
    BY <1>1, <1>2, Bounds
  <2>2. To(u, pc[u], idx[u] + 1)
    BY <1>2, SetsType DEF NextResult, To
  <2> QED BY <1>1, <2>1, <2>2 DEF NextOf
<1>3. CASE ~(idx[u] < Len(results[u]))
  <2>1. To(u, part, 1) /\ 1 <= Len(results[u])
    BY <1>1, <1>3, Bounds DEF NextResult, To
  <2> QED BY <1>1, <2>1 DEF NextOf
<1> QED BY <1>2, <1>3
-----------------------------------------------------------------------------
(***************************************************************************)
(* The steps of an upload with no file in hand.                             *)
(***************************************************************************)
\* Upload u goes on, without a file in hand before or after.
Turn(u) ==
    /\ pc[u] \notin Hand \cup {"end"}
    /\ \E p \in Places \ (Hand \cup {"open"}) : \E j \in 1..MaxFiles :
          Goes(u, p, j) /\ (p \in Pre => pc[u] \in Pre /\ j = idx[u])
    /\ UNCHANGED <<data, mixed, cut, fresh>> /\ Rest

LEMMA TurnIf ==
  ASSUME Typed, Steps, NEW u \in Requests, pc[u] \notin Hand \cup {"end"}, NEW p \in Places, NEW j \in 1..MaxFiles,
         p \notin Hand \cup {"open"}, p \in Pre => pc[u] \in Pre /\ j = idx[u],
         To(u, p, j), UNCHANGED <<dest, fd, pos, results>>,
         UNCHANGED <<data, mixed, cut, fresh>>, Rest,
         p \in {"idle", "before", "first"} => j = 1 /\ results[u] = <<>>,
         p \in Loop => j <= Len(Req(u).files) /\ Len(results[u]) = j - 1,
         p \in Post => j <= Len(results[u]) /\ Len(results[u]) = Len(Req(u).files),
         p \notin {"idle", "end"} => Req(u).kind # "none"
  PROVE  Turn(u) /\ UploadsTyped' /\ Steps'
<1>1. Goes(u, p, j)
  BY GoesIf
<1>2. UploadsTyped' /\ Steps'
  <2>1. start' = start
    BY DEF Rest
  <2>2. Sets(u, p, j, dest[u], fd[u], pos[u], results[u])
    BY <1>1 DEF Goes
  <2> HIDE DEF Sets
  <2> QED BY <2>1, <2>2, SetsType, SetsSteps
<1>3. Turn(u)
  BY <1>1 DEF Turn
<1> QED BY <1>2, <1>3

LEMMA FailTurns ==
  ASSUME Typed, Steps, NEW u \in Requests, Fail(u), pc[u] \notin Hand \cup {"end"},
         UNCHANGED <<idx, dest, fd, pos, results, data, mixed, cut, fresh>>, Rest
  PROVE  Turn(u) /\ UploadsTyped' /\ Steps'
<1>1. To(u, "end", idx[u]) /\ "end" \in Places /\ idx[u] \in 1..MaxFiles
  BY SetsType DEF Fail, To, Places
<1> QED BY <1>1, TurnIf DEF Hand, Pre, Loop, Post

LEMMA SubmitTurns ==
  ASSUME Typed, Steps, NEW u \in Requests, Submit(u)
  PROVE  Turn(u) /\ UploadsTyped' /\ Steps' /\ UNCHANGED <<link, ttl>>
<1>1. PICK p \in {"before", "pick"} : pc' = [pc EXCEPT ![u] = p]
  BY DEF Submit
<1>2. /\ pc[u] = "idle" /\ UNCHANGED <<link, ttl>> /\ Rest /\ Req(u).kind # "none"
      /\ UNCHANGED <<idx, dest, fd, pos, results, data, mixed, cut, fresh>>
  BY DEF Submit, UploadStep, NoWalk, Rest, disk, sweeper
<1>3. idx[u] = 1 /\ results[u] = <<>> /\ idx[u] \in 1..MaxFiles
  BY <1>2, SetsType DEF Steps, Progress
<1>4. To(u, p, idx[u]) /\ p \in Places
  BY <1>1, <1>2, SetsType DEF To, Places
<1>5. Len(Req(u).files) >= 1 /\ Len(results[u]) = 0
  BY <1>3, StartType, EmptySeq DEF Typed, DiskTyped
<1> QED BY <1>1, <1>2, <1>3, <1>4, <1>5, TurnIf DEF Hand, Pre, Loop, Post

LEMMA RecordOwnerTurns ==
  ASSUME Typed, Steps, NEW u \in Requests, RecordOwner(u)
  PROVE  Turn(u) /\ UploadsTyped' /\ Steps' /\ UNCHANGED <<link, ttl>>
<1>1. /\ pc[u] = "owner" /\ UNCHANGED <<link, ttl>> /\ Rest
      /\ UNCHANGED <<dest, fd, pos, results, data, mixed, cut, fresh>>
  BY DEF RecordOwner, RouterStep, Rest, disk, sweeper
<1>2. /\ Req(u).kind # "none" /\ pc[u] \in Post /\ idx[u] <= Len(results[u]) /\ "ttl" \in Places
      /\ Len(results[u]) = Len(Req(u).files)
  BY <1>1 DEF Steps, Progress, Running, Post, Places
<1>3. PICK p \in Places, j \in 1..MaxFiles :
        /\ To(u, p, j) /\ p \in {"owner", "ttl"} /\ j <= Len(results[u])
  <2>1. CASE Req(u).user = NoName
    <3>1. To(u, "ttl", idx[u])
      BY <2>1, SetsType DEF RecordOwner, To
    <3> QED BY <3>1, <1>2, SetsType
  <2>2. CASE Req(u).user # NoName
    <3>1. NextResult(u, "ttl")
      BY <2>2 DEF RecordOwner
    <3>2. PICK p \in Places, j \in 1..MaxFiles : NextOf(u, "ttl", p, j) /\ To(u, p, j)
      BY <3>1, <1>2, NextResultIs
    <3>3. p \in {"owner", "ttl"} /\ j <= Len(results[u])
      BY <3>2, <1>1 DEF NextOf
    <3> QED BY <3>2, <3>3
  <2> QED BY <2>1, <2>2
<1> QED BY <1>1, <1>2, <1>3, TurnIf DEF Hand, Pre, Loop, Post

\* The row of the current result is replaced, or nothing is recorded.
LEMMA RecordTtlTurns ==
  ASSUME Typed, Steps, NEW u \in Requests, RecordTtl(u)
  PROVE  /\ Turn(u) /\ UploadsTyped' /\ Steps' /\ UNCHANGED link /\ pc[u] = "ttl"
         /\ \/ UNCHANGED ttl
            \/ ttl' = [ttl EXCEPT ![Result(u).name] = [by |-> Result(u).file, due |-> FALSE]]
<1>1. /\ pc[u] = "ttl" /\ UNCHANGED link /\ Rest
      /\ UNCHANGED <<dest, fd, pos, results, data, mixed, cut, fresh>>
  BY DEF RecordTtl, RouterStep, Rest, disk, sweeper
<1>2. /\ Req(u).kind # "none" /\ pc[u] \in Post /\ idx[u] <= Len(results[u]) /\ "end" \in Places
      /\ Len(results[u]) = Len(Req(u).files)
  BY <1>1 DEF Steps, Progress, Running, Post, Places
<1>3. PICK p \in Places, j \in 1..MaxFiles :
        /\ To(u, p, j) /\ p \in {"ttl", "end"} /\ j <= Len(results[u])
  <2>1. CASE ~Req(u).ttl
    <3>1. To(u, "end", idx[u])
      BY <2>1, SetsType DEF RecordTtl, To
    <3> QED BY <3>1, <1>2, SetsType
  <2>2. CASE Req(u).ttl
    <3>1. NextResult(u, "end")
      BY <2>2 DEF RecordTtl
    <3>2. PICK p \in Places, j \in 1..MaxFiles : NextOf(u, "end", p, j) /\ To(u, p, j)
      BY <3>1, <1>2, NextResultIs
    <3>3. p \in {"ttl", "end"} /\ j <= Len(results[u])
      BY <3>2, <1>1 DEF NextOf
    <3> QED BY <3>2, <3>3
  <2> QED BY <2>1, <2>2
<1>4. \/ UNCHANGED ttl
      \/ ttl' = [ttl EXCEPT ![Result(u).name] = [by |-> Result(u).file, due |-> FALSE]]
  BY DEF RecordTtl
<1>5. Turn(u) /\ UploadsTyped' /\ Steps'
  BY <1>1, <1>2, <1>3, TurnIf DEF Hand, Pre, Loop, Post
<1> QED BY <1>1, <1>4, <1>5

LEMMA StartWalkTurns ==
  ASSUME Typed, Steps, NEW u \in Requests, StartWalk(u)
  PROVE  Turn(u) /\ UploadsTyped' /\ Steps' /\ UNCHANGED <<link, ttl>>
<1>1. /\ pc[u] \in {"before", "after"} /\ UNCHANGED <<link, ttl>> /\ Rest
      /\ UNCHANGED <<idx, dest, fd, pos, results, data, mixed, cut, fresh>>
      /\ pc' = [pc EXCEPT ![u] = IF pc[u] = "before" THEN "first" ELSE "last"]
  BY SetsType DEF StartWalk, WalkStep, Rest, disk, sweeper
<1>2. /\ Req(u).kind # "none" /\ (pc[u] = "before" => idx[u] = 1 /\ results[u] = <<>>)
      /\ (pc[u] = "after" => idx[u] <= Len(results[u]) /\ Len(results[u]) = Len(Req(u).files))
  BY <1>1 DEF Steps, Progress, Running, Post
<1>3. CASE pc[u] = "before"
  <2>1. To(u, "first", idx[u]) /\ "first" \in Places /\ idx[u] \in 1..MaxFiles
    BY <1>1, <1>3, SetsType DEF To, Places
  <2> QED BY <1>1, <1>2, <1>3, <2>1, TurnIf DEF Hand, Pre, Loop, Post
<1>4. CASE pc[u] = "after"
  <2>1. To(u, "last", idx[u]) /\ "last" \in Places /\ idx[u] \in 1..MaxFiles
    BY <1>1, <1>4, SetsType DEF To, Places
  <2> QED BY <1>1, <1>2, <1>4, <2>1, TurnIf DEF Hand, Pre, Loop, Post
<1> QED BY <1>1, <1>3, <1>4

LEMMA StatTurns ==
  ASSUME Typed, Steps, NEW u \in Requests, Stat(u)
  PROVE  Turn(u) /\ UploadsTyped' /\ Steps' /\ UNCHANGED <<link, ttl>>
<1>1. /\ pc[u] \in {"first", "last"} /\ UNCHANGED <<link, ttl>> /\ Rest
      /\ UNCHANGED <<pc, idx, dest, fd, pos, results, data, mixed, cut, fresh>>
  BY DEF Stat, WalkStep, Rest, disk, sweeper
<1>2. To(u, pc[u], idx[u]) /\ pc[u] \in Places /\ idx[u] \in 1..MaxFiles
  BY <1>1, SetsType DEF To
<1>3. Progress(u)
  BY DEF Steps
<1> QED BY <1>1, <1>2, <1>3, TurnIf DEF Progress, Running, Hand, Pre, Loop, Post

LEMMA CheckQuotaTurns ==
  ASSUME Typed, Steps, NEW u \in Requests, CheckQuota(u)
  PROVE  Turn(u) /\ UploadsTyped' /\ Steps' /\ UNCHANGED <<link, ttl>>
<1>1. /\ pc[u] \in {"first", "last"} /\ UNCHANGED <<link, ttl>> /\ Rest
      /\ UNCHANGED <<idx, dest, fd, pos, results, data, mixed, cut, fresh>>
  BY DEF CheckQuota, WalkStep, Rest, disk, sweeper
<1> DEFINE good == pc[u] = "first" /\ (Declared(u) = 0 \/ sum[u] + Declared(u) <= Quota)
           over == pc[u] = "last" /\ sum[u] > Quota
           p == CASE good -> "pick" [] over -> "rollback" [] OTHER -> "end"
<1>2. pc' = [pc EXCEPT ![u] = p]
  BY SetsType DEF CheckQuota
<1>3. \/ p = "pick" /\ pc[u] = "first"
      \/ p = "rollback" /\ pc[u] = "last"
      \/ p = "end"
  <2>1. CASE good
    <3>1. ~over
      BY <2>1
    <3>2. p = "pick"
      BY <2>1, <3>1
    <3> QED BY <2>1, <3>2
  <2>2. CASE ~good /\ over
    <3>1. p = "rollback"
      BY <2>2
    <3> QED BY <2>2, <3>1
  <2>3. CASE ~good /\ ~over
    <3>1. p = "end"
      BY <2>3
    <3> QED BY <3>1
  <2> QED BY <2>1, <2>2, <2>3
<1> HIDE DEF p
<1>4. To(u, p, idx[u]) /\ p \in Places /\ idx[u] \in 1..MaxFiles
  BY <1>1, <1>2, <1>3, SetsType DEF To, Places
<1>5. Progress(u)
  BY DEF Steps
<1>6. Len(Req(u).files) >= 1
  BY StartType DEF Typed, DiskTyped
<1>7. results[u] = <<>> => Len(results[u]) = 0
  BY EmptySeq
<1> QED BY <1>1, <1>3, <1>4, <1>5, <1>6, <1>7, TurnIf DEF Progress, Running, Hand, Pre, Loop, Post

\* A rollback removes the name of the current result.
Unlink(n) == link' = [link EXCEPT ![n] = None]

LEMMA RollbackTurns ==
  ASSUME Typed, Steps, NEW u \in Requests, Rollback(u)
  PROVE  /\ Turn(u) /\ UploadsTyped' /\ Steps' /\ UNCHANGED ttl /\ pc[u] \in Post
         /\ UNCHANGED link \/ Unlink(Result(u).name)
<1>1. /\ pc[u] = "rollback" /\ UNCHANGED ttl /\ Rest
      /\ UNCHANGED <<dest, fd, pos, results, data, mixed, cut, fresh>>
  BY DEF Rollback, WalkStep, Rest, disk, sweeper
<1>2. /\ Req(u).kind # "none" /\ pc[u] \in Post /\ "end" \in Places
      /\ Len(results[u]) = Len(Req(u).files)
  BY <1>1 DEF Steps, Progress, Running, Post, Places
<1>3. CASE Exists(Result(u).name)
  <2>1. NextResult(u, "end") /\ Unlink(Result(u).name)
    BY <1>3 DEF Rollback, Unlink
  <2>2. PICK p \in Places, j \in 1..MaxFiles : NextOf(u, "end", p, j) /\ To(u, p, j)
    BY <2>1, <1>2, NextResultIs
  <2>3. p \in {"rollback", "end"} /\ j <= Len(results[u])
    BY <2>2, <1>1 DEF NextOf
  <2>4. Turn(u) /\ UploadsTyped' /\ Steps'
    BY <1>1, <1>2, <2>2, <2>3, TurnIf DEF Hand, Pre, Loop, Post
  <2> QED BY <1>1, <1>2, <2>1, <2>4
<1>4. CASE ~Exists(Result(u).name)
  <2>1. Fail(u) /\ UNCHANGED <<link, idx>>
    BY <1>4 DEF Rollback
  <2>2. Turn(u) /\ UploadsTyped' /\ Steps'
    BY <1>1, <2>1, FailTurns DEF Hand
  <2> QED BY <1>1, <1>2, <2>1, <2>2
<1> QED BY <1>3, <1>4
-----------------------------------------------------------------------------
(***************************************************************************)
(* The steps of upload_file.                                                *)
(***************************************************************************)
Got(u, n, i) == Append(results[u], [name |-> n, file |-> i])
\* u is done with a file: it names n, was i, and d is the destination from now.
Ends(u, n, i, d) ==
    \E p \in Places : \E j \in 1..MaxFiles :
        NextPlace(u, p, j) /\ Sets(u, p, j, d, fd[u], pos[u], Got(u, n, i))

Skips(u) ==
    /\ pc[u] = "pick" /\ Wanted(u) \in Names /\ Exists(Wanted(u))
    /\ Ends(u, Wanted(u), link[Wanted(u)], dest[u])
    /\ UNCHANGED <<disk, ttl>> /\ Rest
Aimed(u) ==
    /\ pc[u] = "pick" /\ Wanted(u) \in Names /\ Destination(u) # NoName
    /\ Sets(u, "open", idx[u], Destination(u), fd[u], pos[u], results[u])
    /\ UNCHANGED <<disk, ttl>> /\ Rest
Opens(u, i) ==
    /\ pc[u] = "open" /\ link[dest[u]] # Folder
    /\ i = IF IsFile(dest[u]) THEN link[dest[u]] ELSE Me(u)
    /\ Sets(u, "write", idx[u], dest[u], i, 0, results[u])
    /\ link' = [link EXCEPT ![dest[u]] = i] /\ data' = [data EXCEPT ![i] = <<>>]
    /\ mixed' = IF InHand(i) # {} \/ (dest[u] \notin Tmps /\ i[1] \in Requests \ {u})
                THEN mixed \cup {i} ELSE mixed
    /\ fresh' = IF InUse(u, dest[u]) THEN fresh \ {i} ELSE fresh \cup {i}
    /\ UNCHANGED <<cut, ttl>> /\ Rest
Wrote(u) ==
    /\ pc[u] = "write" /\ pos[u] < Size[u]
    /\ Sets(u, "write", idx[u], dest[u], fd[u], pos[u] + 1, results[u])
    /\ data' = [data EXCEPT ![fd[u]] = Chunk(u, data[fd[u]])]
    /\ UNCHANGED <<link, mixed, cut, fresh, ttl>> /\ Rest
Closed(u) ==
    /\ pc[u] = "write" /\ pos[u] = Size[u] /\ Goes(u, "place", idx[u])
    /\ UNCHANGED <<disk, ttl>> /\ Rest
Put(u) ==
    /\ pc[u] = "place" /\ dest[u] # Tmp[Wanted(u)]
    /\ Ends(u, dest[u], fd[u], NoName)
    /\ UNCHANGED <<disk, ttl>> /\ Rest
PutFails(u) ==
    /\ pc[u] = "place"
    /\ Sets(u, "end", idx[u], NoName, fd[u], pos[u], results[u])
    /\ UNCHANGED <<disk, ttl>> /\ Rest
Replaced(u) ==
    /\ pc[u] = "place" /\ dest[u] = Tmp[Wanted(u)]
    /\ Ends(u, Wanted(u), fd[u], NoName)
    /\ link' = [link EXCEPT ![Wanted(u)] = link[Tmp[Wanted(u)]], ![Tmp[Wanted(u)]] = None]
    /\ fresh' = fresh \ {link[Tmp[Wanted(u)]]}
    /\ UNCHANGED <<data, mixed, cut, ttl>> /\ Rest

LEMMA EndsSteps ==
  ASSUME Typed, Steps, NEW u \in Requests, pc[u] \in Loop, start' = start,
         NEW n \in Names, NEW i \in Inodes \cup {Folder}, NEW d \in Names \cup {NoName}, Ends(u, n, i, d)
  PROVE  /\ UploadsTyped' /\ Steps' /\ Got(u, n, i) \in Seq(Outcomes)
<1>1. PICK p \in Places, j \in 1..MaxFiles :
         NextPlace(u, p, j) /\ Sets(u, p, j, d, fd[u], pos[u], Got(u, n, i))
  BY DEF Ends
<1>2. [name |-> n, file |-> i] \in Outcomes /\ results[u] \in Seq(Outcomes)
  BY SetsType DEF Outcomes
<1>3. /\ Got(u, n, i) \in Seq(Outcomes) /\ Len(Got(u, n, i)) = Len(results[u]) + 1
  BY <1>2, AppendProperties DEF Got
<1>4. /\ idx[u] <= Len(Req(u).files) /\ Len(results[u]) = idx[u] - 1 /\ Req(u).kind # "none"
      /\ Len(Req(u).files) \in 1..MaxFiles
  BY StartType DEF Steps, Progress, Running, Loop, Typed, DiskTyped
<1>5. Len(Got(u, n, i)) = idx[u]
  BY <1>3, <1>4, SetsType
<1>6. /\ p \in Loop => j <= Len(Req(u).files) /\ Len(Got(u, n, i)) = j - 1
      /\ p \in Post => j <= Len(Got(u, n, i)) /\ Len(Got(u, n, i)) = Len(Req(u).files)
      /\ p \notin Hand \cup {"open"} /\ p \notin {"idle", "before", "first"}
  BY <1>1, <1>4, <1>5, SetsType, Bounds DEF NextPlace, Loop, Post, Hand
<1> HIDE DEF Sets, Got
<1>7. UploadsTyped' /\ Steps'
  BY <1>1, <1>3, <1>4, <1>6, SetsType, SetsSteps
<1> QED BY <1>3, <1>7

LEMMA PickIs ==
  ASSUME Typed, Steps, NEW u \in Requests, Pick(u)
  PROVE  /\ UploadsTyped' /\ Steps'
         /\ (Turn(u) /\ UNCHANGED <<link, ttl>>) \/ Skips(u) \/ Aimed(u)
<1>1. /\ pc[u] = "pick" /\ UNCHANGED <<link, data, mixed, cut, fresh, fd, pos, ttl>> /\ UNCHANGED disk /\ Rest
  BY DEF Pick, UploadStep, Rest, disk, sweeper
<1>2. /\ idx[u] <= Len(Req(u).files) /\ idx[u] \in 1..MaxFiles /\ pc[u] \in Loop
      /\ Len(results[u]) = idx[u] - 1 /\ Req(u).kind # "none" /\ start' = start
  BY <1>1, SetsType DEF Steps, Progress, Loop, Running, Rest
<1>3. /\ ValidName(Wanted(u)) => Wanted(u) \in Names
      /\ link \in [Names -> Inodes \cup {None, Folder}]
  BY <1>2, WantedType DEF Typed, DiskTyped
<1>4. CASE Fail(u) /\ UNCHANGED <<idx, dest, results>>
  BY <1>1, <1>4, FailTurns DEF Hand
<1>5. CASE ValidName(Wanted(u)) /\ Skipped(u)
  <2>1. /\ Exists(Wanted(u)) /\ AfterFile(u) /\ UNCHANGED dest /\ Wanted(u) \in Names
        /\ results' = [results EXCEPT ![u] = Got(u, Wanted(u), link[Wanted(u)])]
    BY <1>3, <1>5, SetsType DEF Skipped, Returned, Got
  <2>2. PICK p \in Places, j \in 1..MaxFiles : NextPlace(u, p, j) /\ To(u, p, j)
    BY <1>2, <2>1, AfterFileIs
  <2>3. Sets(u, p, j, dest[u], fd[u], pos[u], Got(u, Wanted(u), link[Wanted(u)]))
    BY <1>1, <2>1, <2>2, SetsType DEF Sets
  <2>4. Ends(u, Wanted(u), link[Wanted(u)], dest[u])
    BY <2>2, <2>3 DEF Ends
  <2>5. link[Wanted(u)] \in Inodes \cup {Folder}
    BY <1>3, <2>1 DEF Exists
  <2>6. UploadsTyped' /\ Steps'
    BY <1>2, <2>1, <2>4, <2>5, SetsType, EndsSteps
  <2> QED BY <1>1, <2>1, <2>4, <2>6 DEF Skips
<1>6. CASE /\ ValidName(Wanted(u)) /\ Destination(u) # NoName
           /\ dest' = [dest EXCEPT ![u] = Destination(u)] /\ pc' = [pc EXCEPT ![u] = "open"]
           /\ UNCHANGED <<idx, results, failed>>
  <2>1. Sets(u, "open", idx[u], Destination(u), fd[u], pos[u], results[u])
    BY <1>1, <1>6, SetsType DEF Sets, To
  <2>2. Destination(u) \in Names /\ Wanted(u) \in Names
    BY <1>3, <1>6, DestinationIs DEF Typed, DiskTyped
  <2>3. UploadsTyped' /\ Steps'
    <3>1. Req(u).files[idx[u]] \in Names
      BY <2>2 DEF Wanted
    <3> HIDE DEF Sets
    <3> QED BY <1>2, <2>1, <2>2, <3>1, SetsType, SetsSteps DEF Places, Loop, Post, Hand
  <2> QED BY <1>1, <1>6, <2>1, <2>2, <2>3 DEF Aimed
<1> QED BY <1>4, <1>5, <1>6 DEF Pick

LEMMA OpenIs ==
  ASSUME Typed, Steps, NEW u \in Requests, Open(u)
  PROVE  /\ UploadsTyped' /\ Steps'
         /\ (Turn(u) /\ UNCHANGED <<link, ttl>>) \/ \E i \in Inodes : Opens(u, i)
<1>1. pc[u] = "open" /\ UNCHANGED <<idx, dest, results, ttl>> /\ Rest
  BY DEF Open, UploadStep, Rest, disk, sweeper
<1>2. /\ idx[u] <= Len(Req(u).files) /\ idx[u] \in 1..MaxFiles /\ start' = start
      /\ Len(results[u]) = idx[u] - 1 /\ Req(u).kind # "none" /\ dest[u] \in Names /\ Wanted(u) \in Names
  BY <1>1, SetsType DEF Steps, Progress, Loop, Running, Rest
<1>3. CASE link[dest[u]] = Folder
  <2>1. Fail(u) /\ UNCHANGED <<link, data, mixed, cut, fresh, fd, pos>>
    BY <1>3 DEF Open, disk
  <2> QED BY <1>1, <2>1, FailTurns DEF Hand
<1>4. CASE link[dest[u]] # Folder
  <2> DEFINE i == IF IsFile(dest[u]) THEN link[dest[u]] ELSE Me(u)
  <2>1. i \in Inodes
    BY <1>2, WriteIsFile DEF Typed, DiskTyped, IsFile, Me
  <2>2. Sets(u, "write", idx[u], dest[u], i, 0, results[u])
    BY <1>1, <1>4, SetsType DEF Open, Sets, To
  <2>3. /\ link' = [link EXCEPT ![dest[u]] = i] /\ data' = [data EXCEPT ![i] = <<>>]
        /\ mixed' = IF InHand(i) # {} \/ (dest[u] \notin Tmps /\ i[1] \in Requests \ {u})
                    THEN mixed \cup {i} ELSE mixed
        /\ fresh' = IF InUse(u, dest[u]) THEN fresh \ {i} ELSE fresh \cup {i}
        /\ UNCHANGED cut
    BY <1>4 DEF Open
  <2>4. Opens(u, i)
    BY <1>1, <1>4, <2>2, <2>3 DEF Opens
  <2> HIDE DEF i
  <2>5. UploadsTyped' /\ Steps'
    <3>1. Req(u).files[idx[u]] \in Names
      BY <1>2 DEF Wanted
    <3> HIDE DEF Sets
    <3> QED BY <1>2, <2>1, <2>2, <3>1, SetsType, SetsSteps DEF Places, Loop, Post, Hand
  <2> QED BY <2>1, <2>4, <2>5
<1> QED BY <1>3, <1>4

LEMMA WriteIs ==
  ASSUME Typed, Steps, NEW u \in Requests, Write(u)
  PROVE  UploadsTyped' /\ Steps' /\ Wrote(u)
<1>1. /\ pc[u] = "write" /\ pos[u] < Size[u] /\ UNCHANGED <<idx, dest, fd, results, pc>>
      /\ pos' = [pos EXCEPT ![u] = pos[u] + 1] /\ Rest /\ start' = start
      /\ UNCHANGED <<link, mixed, cut, fresh, ttl>>
  BY SetsType DEF Write, UploadStep, Rest, disk, sweeper
<1>2. Sets(u, "write", idx[u], dest[u], fd[u], pos[u] + 1, results[u])
  BY <1>1, SetsType DEF Sets, To
<1>3. Progress(u) /\ fd[u] \in Inodes
  BY <1>1 DEF Steps, Progress, Hand
<1>4. data' = [data EXCEPT ![fd[u]] = Chunk(u, data[fd[u]])]
  BY <1>3 DEF Write, Typed, DiskTyped
<1>5. UploadsTyped' /\ Steps'
  <2>1. pos[u] + 1 \in Nat /\ "write" \in Places
    BY SetsType DEF Places
  <2> HIDE DEF Sets
  <2> QED BY <1>1, <1>2, <1>3, <2>1, SetsType, SetsSteps DEF Progress, Running, Wanted, Loop, Post, Hand
<1> QED BY <1>1, <1>2, <1>4, <1>5 DEF Wrote

LEMMA CloseIs ==
  ASSUME Typed, Steps, NEW u \in Requests, Close(u)
  PROVE  UploadsTyped' /\ Steps' /\ Closed(u)
<1>1. /\ pc[u] = "write" /\ pos[u] = Size[u] /\ UNCHANGED <<idx, dest, fd, results, pos>>
      /\ pc' = [pc EXCEPT ![u] = "place"] /\ Rest /\ start' = start /\ UNCHANGED <<disk, ttl>>
  BY DEF Close, UploadStep, Rest, sweeper
<1>2. Sets(u, "place", idx[u], dest[u], fd[u], pos[u], results[u])
  BY <1>1, SetsType DEF Sets, To
<1>3. Progress(u)
  BY DEF Steps
<1>4. UploadsTyped' /\ Steps'
  <2>1. "place" \in Places
    BY DEF Places
  <2> HIDE DEF Sets
  <2> QED BY <1>1, <1>2, <1>3, <2>1, SetsType, SetsSteps DEF Progress, Running, Wanted, Loop, Post, Hand
<1> QED BY <1>1, <1>2, <1>4 DEF Closed, Goes

LEMMA PlaceIs ==
  ASSUME Typed, Steps, NEW u \in Requests, Place(u)
  PROVE  /\ UploadsTyped' /\ Steps'
         /\ Put(u) \/ (PutFails(u) /\ dest[u] = Tmp[Wanted(u)]) \/ (Replaced(u) /\ Exists(Tmp[Wanted(u)]))
<1>1. /\ pc[u] = "place" /\ UNCHANGED <<fd, pos, ttl>> /\ Rest /\ start' = start
      /\ dest' = [dest EXCEPT ![u] = NoName]
  BY DEF Place, UploadStep, Rest, sweeper
<1>2. /\ pc[u] \in Loop /\ dest[u] \in Names /\ Wanted(u) \in Names /\ fd[u] \in Inodes
      /\ NoName \in Names \cup {NoName}
  BY <1>1 DEF Steps, Progress, Hand, Loop
<1>3. ASSUME NEW n, AfterFile(u), Returned(u, n, fd[u])
      PROVE  Ends(u, n, fd[u], NoName)
  <2>1. PICK p \in Places, j \in 1..MaxFiles : NextPlace(u, p, j) /\ To(u, p, j)
    BY <1>2, <1>3, AfterFileIs
  <2>2. results' = [results EXCEPT ![u] = Got(u, n, fd[u])]
    BY <1>3, SetsType DEF Returned, Got
  <2>3. Sets(u, p, j, NoName, fd[u], pos[u], Got(u, n, fd[u]))
    BY <1>1, <2>1, <2>2, SetsType DEF Sets
  <2> QED BY <2>1, <2>3 DEF Ends
<1>4. CASE dest[u] # Tmp[Wanted(u)]
  <2>1. Returned(u, dest[u], fd[u]) /\ AfterFile(u) /\ UNCHANGED disk
    BY <1>4 DEF Place
  <2>2. Ends(u, dest[u], fd[u], NoName)
    BY <1>3, <2>1
  <2>3. UploadsTyped' /\ Steps'
    BY <1>1, <1>2, <2>2, EndsSteps
  <2> QED BY <1>1, <1>4, <2>1, <2>2, <2>3 DEF Put
<1>5. CASE dest[u] = Tmp[Wanted(u)] /\ ~Moves(Tmp[Wanted(u)], Wanted(u))
  <2>1. Fail(u) /\ UNCHANGED <<disk, idx, results>>
    BY <1>5 DEF Place
  <2>2. Sets(u, "end", idx[u], NoName, fd[u], pos[u], results[u])
    BY <1>1, <2>1, SetsType DEF Fail, Sets, To
  <2>3. UploadsTyped' /\ Steps'
    <3>1. "end" \in Places /\ "end" \notin Loop /\ "end" \notin Post /\ "end" \notin Hand \cup {"open"}
      BY DEF Places, Loop, Post, Hand
    <3> HIDE DEF Sets
    <3> QED BY <1>1, <1>2, <2>2, <3>1, SetsType, SetsSteps DEF Hand
  <2> QED BY <1>1, <1>5, <2>1, <2>2, <2>3 DEF PutFails
<1>6. CASE dest[u] = Tmp[Wanted(u)] /\ Moves(Tmp[Wanted(u)], Wanted(u))
  <2>1. /\ Returned(u, Wanted(u), fd[u]) /\ AfterFile(u) /\ UNCHANGED <<data, mixed, cut>>
        /\ link' = [link EXCEPT ![Wanted(u)] = link[Tmp[Wanted(u)]], ![Tmp[Wanted(u)]] = None]
        /\ fresh' = fresh \ {link[Tmp[Wanted(u)]]} /\ Exists(Tmp[Wanted(u)])
    BY <1>6 DEF Place, Moves
  <2>2. Ends(u, Wanted(u), fd[u], NoName)
    BY <1>3, <2>1
  <2>3. UploadsTyped' /\ Steps'
    BY <1>1, <1>2, <2>2, EndsSteps
  <2> QED BY <1>1, <1>6, <2>1, <2>2, <2>3 DEF Replaced
<1> QED BY <1>4, <1>5, <1>6
-----------------------------------------------------------------------------
(***************************************************************************)
(* What clients, the sweep and the relay's start do.                        *)
(***************************************************************************)
\* Uploads and the contents of files stay as they are.
Held == UNCHANGED <<start, data, mixed, cut, pc, idx, dest, fd, pos, results>>
Tables == UNCHANGED <<ttl, listed, sweep, relay>>

LEMMA HeldSteps ==
  ASSUME Typed, Steps, Held
  PROVE  UploadsTyped' /\ Steps'
BY DEF Typed, Held, UploadsTyped, Steps, Progress, Running, Wanted, Req

LEMMA DeletePathIs ==
  ASSUME Typed, NEW n \in start.deletes, DeletePath(n)
  PROVE  n \in Names /\ Unlink(n) /\ UNCHANGED <<fresh, rename>> /\ Held /\ Tables
<1>1. n \in Names \cup BadNames
  BY FilesAssumption DEF Typed, DiskTyped
<1> QED BY <1>1 DEF DeletePath, Resolves, Unlink, ClientStep, Held, Tables, uploads, sweeper

LEMMA CreateFolderIs ==
  ASSUME Typed, NEW n \in start.folders, CreateFolder(n)
  PROVE  /\ n \in Names /\ ~Exists(n) /\ link' = [link EXCEPT ![n] = Folder]
         /\ UNCHANGED <<fresh, rename>> /\ Held /\ Tables
<1>1. n \in Names \cup BadNames
  BY FilesAssumption DEF Typed, DiskTyped
<1> QED BY <1>1 DEF CreateFolder, FreeName, ClientStep, Held, Tables, uploads, sweeper

LEMMA CheckRenameIs ==
  ASSUME Typed, NEW p \in start.renames, CheckRename(p[1], p[2])
  PROVE  /\ UNCHANGED <<link, fresh>> /\ Held /\ Tables
         /\ rename' \in start.renames /\ rename'[1] \in Names /\ rename'[2] \in Names
<1>0. start \in Starts
  BY DEF Typed, DiskTyped
<1>a. start.renames \subseteq (Names \cup BadNames) \X (Names \cup BadNames)
  BY <1>0, FilesAssumption
<1>1. /\ p = <<p[1], p[2]>> /\ p[1] \in Names \cup BadNames /\ p[2] \in Names \cup BadNames
  BY <1>a
<1>2. p[1] \notin BadNames /\ p[2] \notin BadNames /\ rename' = <<p[1], p[2]>>
  BY DEF CheckRename, Resolves, FreeName
<1>3. rename' = p
  BY <1>1, <1>2
<1> QED BY <1>1, <1>2, <1>3 DEF CheckRename, ClientStep, Held, Tables, uploads, sweeper

\* A file or folder goes from name n to name m.
Moved(n, m) ==
    /\ link' = [link EXCEPT ![n] = None, ![m] = link[n]]
    /\ fresh' = fresh \ {link[n]}

LEMMA RenameIs ==
  ASSUME Typed, Rename
  PROVE  /\ rename' = <<>> /\ Held /\ Tables
         /\ \/ UNCHANGED <<link, fresh>>
            \/ \E p \in start.renames : p[1] \in Names /\ p[2] \in Names /\ Exists(p[1]) /\ Moved(p[1], p[2])
<1>1. rename \in start.renames /\ rename[1] \in Names /\ rename[2] \in Names
  BY DEF Rename, Typed, DiskTyped
<1>2. rename' = <<>> /\ Held /\ Tables
  BY DEF Rename, ClientStep, Held, Tables, uploads, sweeper
<1>3. CASE Moves(rename[1], rename[2])
  <2>1. Moved(rename[1], rename[2]) /\ Exists(rename[1])
    BY <1>3 DEF Rename, Moved, Moves
  <2> QED BY <1>1, <1>2, <2>1
<1>4. CASE ~Moves(rename[1], rename[2])
  BY <1>2, <1>4 DEF Rename
<1> QED BY <1>3, <1>4

LEMMA ExpireIs ==
  ASSUME Typed, NEW n \in Names, Expire(n)
  PROVE  /\ ttl[n] # NoTtl /\ ttl'[n] # NoTtl /\ ttl'[n].by = ttl[n].by
         /\ ttl' \in [Names -> Rows \cup {NoTtl}]
         /\ \A m \in Names : m # n => ttl'[m] = ttl[m]
         /\ UNCHANGED <<link, fresh, rename, listed, sweep, relay>> /\ Held
<1>1. ttl[n] # NoTtl /\ ttl' = [ttl EXCEPT ![n].due = TRUE]
  BY DEF Expire
<1>2. ttl \in [Names -> Rows \cup {NoTtl}]
  BY DEF Typed, SweepTyped
<1>3. ttl[n] \in [by : Inodes \cup {Folder}, due : BOOLEAN]
  BY <1>1, <1>2 DEF Rows
<1>4. \A x \in [by : Inodes \cup {Folder}, due : BOOLEAN] :
         /\ [x EXCEPT !.due = TRUE] \in [by : Inodes \cup {Folder}, due : BOOLEAN]
         /\ [x EXCEPT !.due = TRUE].by = x.by
  OBVIOUS
<1>5. ttl'[n] = [ttl[n] EXCEPT !.due = TRUE] /\ \A m \in Names : m # n => ttl'[m] = ttl[m]
  BY <1>1, <1>2
<1>6. ttl'[n] \in Rows /\ ttl'[n].by = ttl[n].by
  BY <1>3, <1>4, <1>5 DEF Rows
<1>7. ttl'[n] # NoTtl
  BY <1>6, Markers
<1>8. ttl' \in [Names -> Rows \cup {NoTtl}]
  BY <1>1, <1>2, <1>5, <1>6
<1> QED BY <1>1, <1>5, <1>6, <1>7, <1>8 DEF Expire, Held, disk, uploads, sweeper

\* The rows that get_expired returns are due, and as the table has them.
LEMMA ExpiredIs ==
  ASSUME Typed
  PROVE  /\ Expired \subseteq [name : Names, by : Inodes \cup {Folder}, due : {TRUE}]
         /\ \A r \in Expired : ttl[r.name] # NoTtl /\ r.by = ttl[r.name].by
<1>1. SUFFICES ASSUME NEW r \in Expired
               PROVE  /\ r \in [name : Names, by : Inodes \cup {Folder}, due : {TRUE}]
                      /\ ttl[r.name] # NoTtl /\ r.by = ttl[r.name].by
  OBVIOUS
<1>2. PICK n \in Names : ttl[n].due /\ r = [name |-> n, by |-> ttl[n].by, due |-> ttl[n].due]
  BY DEF Expired
<1>3. ttl[n] # NoTtl
  BY <1>2 DEF NoTtl
<1>4. ttl[n] \in [by : Inodes \cup {Folder}, due : BOOLEAN]
  BY <1>3 DEF Typed, SweepTyped, Rows
<1>5. r.name = n /\ r.by = ttl[n].by /\ r.due = ttl[n].due /\ ttl[n].due = TRUE
  BY <1>2, <1>4
<1>6. ttl[n].by \in Inodes \cup {Folder}
  BY <1>4
<1> QED BY <1>2, <1>3, <1>5, <1>6

LEMMA SweepListIs ==
  ASSUME Typed, SweepList
  PROVE  /\ listed' = Expired /\ sweep' = "next" /\ relay = "up"
         /\ UNCHANGED <<link, fresh, rename, ttl, relay>> /\ Held
BY DEF SweepList, SweepStep, Up, Held, uploads

LEMMA SweepFileIs ==
  ASSUME Typed, NEW r \in listed, SweepFile(r)
  PROVE  /\ r.name \in Names /\ sweep' = r.name /\ relay = "up"
         /\ (Unlink(r.name) /\ IsFile(r.name)) \/ (UNCHANGED link /\ ~IsFile(r.name))
         /\ UNCHANGED <<fresh, rename, ttl, listed, relay>> /\ Held
<1>1. r.name \in Names /\ link \in [Names -> Inodes \cup {None, Folder}]
  BY DEF Typed, SweepTyped, DiskTyped
<1>2. (Unlink(r.name) /\ IsFile(r.name)) \/ (UNCHANGED link /\ ~IsFile(r.name))
  BY <1>1 DEF SweepFile, Unlink
<1> QED BY <1>1, <1>2 DEF SweepFile, SweepStep, Up, Held, uploads

LEMMA SweepForgetIs ==
  ASSUME Typed, SweepForget
  PROVE  /\ sweep \in Names /\ relay = "up" /\ sweep' \in {"sleep", "next"}
         /\ ttl' = [ttl EXCEPT ![sweep] = NoTtl] /\ listed' = {r \in listed : r.name # sweep}
         /\ UNCHANGED <<link, fresh, rename, relay>> /\ Held
BY DEF SweepForget, SweepStep, Up, Held, uploads

LEMMA BootListIs ==
  ASSUME Typed, BootList
  PROVE  /\ listed' = Expired /\ relay = "boot" /\ relay' \in {"up", "purge"}
         /\ UNCHANGED <<link, fresh, rename, ttl, sweep>> /\ Held
BY DEF BootList, BootStep, Held, uploads

LEMMA BootPurgeIs ==
  ASSUME Typed, BootPurge
  PROVE  /\ relay = "purge" /\ relay' = "remove"
         /\ ttl' = [n \in Names |-> IF \E r \in listed : r.name = n THEN NoTtl ELSE ttl[n]]
         /\ UNCHANGED <<link, fresh, rename, listed, sweep>> /\ Held
BY DEF BootPurge, BootStep, Held, uploads

LEMMA BootRemoveIs ==
  ASSUME Typed, NEW r \in listed, BootRemove(r)
  PROVE  /\ r.name \in Names /\ relay = "remove" /\ relay' \in {"boot", "up", "remove"}
         /\ listed' \subseteq listed /\ (UNCHANGED link \/ Unlink(r.name))
         /\ UNCHANGED <<fresh, rename, ttl, sweep>> /\ Held
<1>1. r.name \in Names
  BY DEF Typed, SweepTyped
<1>2. listed' \subseteq listed /\ (UNCHANGED link \/ Unlink(r.name))
  BY DEF BootRemove, Unlink
<1>3. relay' \in {"boot", "up", "remove"}
  BY DEF BootRemove
<1> QED BY <1>1, <1>2, <1>3 DEF BootRemove, BootStep, Held, uploads

LEMMA CrashIs ==
  ASSUME Typed, Crash
  PROVE  /\ relay' = "boot" /\ sweep' = "sleep" /\ listed' = {} /\ rename' = <<>>
         /\ cut' = cut \cup {fd[u] : u \in {v \in Requests : pc[v] = "write"}}
         /\ pc' = [u \in Requests |-> IF Running(u) THEN "end" ELSE pc[u]]
         /\ UNCHANGED <<start, link, data, mixed, fresh, idx, dest, fd, pos, results, ttl>>
BY DEF Crash
-----------------------------------------------------------------------------
(***************************************************************************)
(* Every step, and the types.                                               *)
(***************************************************************************)
Turns(u) == Turn(u) /\ UNCHANGED <<link, ttl>>
Records(u) ==
    /\ Turn(u) /\ UNCHANGED link /\ pc[u] \in Post
    /\ ttl' = [ttl EXCEPT ![Result(u).name] = [by |-> Result(u).file, due |-> FALSE]]
RollsBack(u) == Turn(u) /\ UNCHANGED ttl /\ pc[u] \in Post /\ Unlink(Result(u).name)
Lands(u) == Replaced(u) /\ Exists(dest[u])
UploadDoes(u) ==
    \/ Turns(u) \/ Records(u) \/ RollsBack(u) \/ Skips(u) \/ Aimed(u) \/ (\E i \in Inodes : Opens(u, i))
    \/ Wrote(u) \/ Closed(u) \/ Put(u) \/ PutFails(u) \/ Lands(u)

LEMMA UploadIs ==
  ASSUME Typed, Steps, NEW u \in Requests, UploadNext(u)
  PROVE  UploadsTyped' /\ Steps' /\ UploadDoes(u)
<1>1. CASE Submit(u)
  BY <1>1, SubmitTurns DEF UploadDoes, Turns
<1>2. CASE Pick(u)
  BY <1>2, PickIs DEF UploadDoes, Turns
<1>3. CASE Open(u)
  BY <1>3, OpenIs DEF UploadDoes, Turns
<1>4. CASE Write(u)
  BY <1>4, WriteIs DEF UploadDoes
<1>5. CASE Close(u)
  BY <1>5, CloseIs DEF UploadDoes
<1>6. CASE Place(u)
  <2>1. Replaced(u) => dest[u] = Tmp[Wanted(u)]
    BY DEF Replaced
  <2> QED BY <1>6, <2>1, PlaceIs DEF UploadDoes, Lands
<1>7. CASE RecordOwner(u)
  BY <1>7, RecordOwnerTurns DEF UploadDoes, Turns
<1>8. CASE RecordTtl(u)
  BY <1>8, RecordTtlTurns DEF UploadDoes, Turns, Records, Post
<1>9. CASE StartWalk(u)
  BY <1>9, StartWalkTurns DEF UploadDoes, Turns
<1>10. CASE Stat(u)
  BY <1>10, StatTurns DEF UploadDoes, Turns
<1>11. CASE CheckQuota(u)
  BY <1>11, CheckQuotaTurns DEF UploadDoes, Turns
<1>12. CASE Rollback(u)
  BY <1>12, RollbackTurns DEF UploadDoes, Turns, RollsBack
<1> QED BY <1>1, <1>2, <1>3, <1>4, <1>5, <1>6, <1>7, <1>8, <1>9, <1>10, <1>11, <1>12 DEF UploadNext

LEMMA RestTyped ==
  ASSUME Typed, Rest
  PROVE  /\ start' \in Starts
         /\ rename' = <<>> \/ (rename' \in start'.renames /\ rename'[1] \in Names /\ rename'[2] \in Names)
         /\ ttl' \in [Names -> Rows \cup {NoTtl}] => SweepTyped'
BY DEF Typed, DiskTyped, SweepTyped, Rest

LEMMA UploadTyped ==
  ASSUME Typed, Steps, NEW u \in Requests, UploadDoes(u)
  PROVE  DiskTyped' /\ SweepTyped'
<1>0. /\ link \in [Names -> Inodes \cup {None, Folder}] /\ data \in [Inodes -> Seq(Inodes \cup {None})]
      /\ ttl \in [Names -> Rows \cup {NoTtl}]
  BY DEF Typed, DiskTyped, SweepTyped
<1>1. ASSUME Rest, link' \in [Names -> Inodes \cup {None, Folder}],
             data' \in [Inodes -> Seq(Inodes \cup {None})], ttl' \in [Names -> Rows \cup {NoTtl}]
      PROVE  DiskTyped' /\ SweepTyped'
  BY <1>1, RestTyped DEF DiskTyped
<1>2. CASE Turns(u)
  BY <1>0, <1>1, <1>2 DEF Turns, Turn
<1>3. CASE Records(u)
  <2>1. Result(u) \in Outcomes
    BY <1>3, ResultIs DEF Records
  <2>2. Result(u).name \in Names /\ [by |-> Result(u).file, due |-> FALSE] \in Rows
    BY <2>1 DEF Outcomes, Rows
  <2> QED BY <1>0, <1>1, <1>3, <2>2 DEF Records, Turn
<1>4. CASE RollsBack(u)
  BY <1>0, <1>1, <1>4 DEF RollsBack, Turn, Unlink
<1>5. CASE Skips(u)
  BY <1>0, <1>1, <1>5 DEF Skips, disk
<1>6. CASE Aimed(u)
  BY <1>0, <1>1, <1>6 DEF Aimed, disk
<1>7. ASSUME NEW i \in Inodes, Opens(u, i) PROVE DiskTyped' /\ SweepTyped'
  <2>1. data' \in [Inodes -> Seq(Inodes \cup {None})]
    BY <1>0, <1>7, EmptySeq DEF Opens
  <2>2. link' \in [Names -> Inodes \cup {None, Folder}]
    BY <1>0, <1>7 DEF Opens
  <2> QED BY <1>0, <1>1, <1>7, <2>1, <2>2 DEF Opens
<1>8. CASE Wrote(u)
  <2>1. fd[u] \in Inodes
    BY <1>8 DEF Steps, Progress, Wrote, Hand
  <2>2. Chunk(u, data[fd[u]]) \in Seq(Inodes \cup {None})
    BY <1>0, <2>1, SetsType, ChunkType
  <2>3. data' \in [Inodes -> Seq(Inodes \cup {None})]
    BY <1>0, <1>8, <2>2 DEF Wrote
  <2> QED BY <1>0, <1>1, <1>8, <2>3 DEF Wrote
<1>9. CASE Closed(u)
  BY <1>0, <1>1, <1>9 DEF Closed, disk
<1>10. CASE Put(u)
  BY <1>0, <1>1, <1>10 DEF Put, disk
<1>11. CASE PutFails(u)
  BY <1>0, <1>1, <1>11 DEF PutFails, disk
<1>12. CASE Lands(u)
  <2>1. Wanted(u) \in Names /\ Tmp[Wanted(u)] \in Names
    BY <1>12, FilesAssumption DEF Steps, Progress, Lands, Replaced, Hand
  <2>2. link' \in [Names -> Inodes \cup {None, Folder}]
    BY <1>0, <1>12, <2>1 DEF Lands, Replaced
  <2> QED BY <1>0, <1>1, <1>12, <2>2 DEF Lands, Replaced
<1> QED BY <1>2, <1>3, <1>4, <1>5, <1>6, <1>7, <1>8, <1>9, <1>10, <1>11, <1>12 DEF UploadDoes

\* The steps of others.
OtherNext == ClientNext \/ (\E n \in Names : Expire(n)) \/ SweepNext \/ BootNext \/ Crash

LEMMA OtherTyped ==
  ASSUME Typed, Steps, OtherNext
  PROVE  Typed' /\ Steps'
<1>0. /\ start \in Starts /\ link \in [Names -> Inodes \cup {None, Folder}]
      /\ data \in [Inodes -> Seq(Inodes \cup {None})]
      /\ ttl \in [Names -> Rows \cup {NoTtl}]
      /\ listed \subseteq [name : Names, by : Inodes \cup {Folder}, due : {TRUE}]
      /\ relay \in {"up", "boot", "purge", "remove"} /\ sweep \in Names \cup {"sleep", "next"}
      /\ relay # "up" => sweep = "sleep"
      /\ rename = <<>> \/ (rename \in start.renames /\ rename[1] \in Names /\ rename[2] \in Names)
  BY DEF Typed, DiskTyped, SweepTyped
<1>1. ASSUME Held, link' \in [Names -> Inodes \cup {None, Folder}],
             rename' = <<>> \/ (rename' \in start.renames /\ rename'[1] \in Names /\ rename'[2] \in Names)
      PROVE  DiskTyped' /\ UploadsTyped' /\ Steps'
  BY <1>0, <1>1, HeldSteps DEF DiskTyped, Held
<1>2. Tables => SweepTyped'
  BY <1>0 DEF Tables, SweepTyped
<1>3. ASSUME NEW n \in start.deletes, DeletePath(n) PROVE Typed' /\ Steps'
  BY <1>0, <1>1, <1>2, <1>3, DeletePathIs DEF Unlink, Typed
<1>4. ASSUME NEW n \in start.folders, CreateFolder(n) PROVE Typed' /\ Steps'
  BY <1>0, <1>1, <1>2, <1>4, CreateFolderIs DEF Typed
<1>5. ASSUME NEW p \in start.renames, CheckRename(p[1], p[2]) PROVE Typed' /\ Steps'
  BY <1>0, <1>1, <1>2, <1>5, CheckRenameIs DEF Typed
<1>6. CASE Rename
  <2>1. link' \in [Names -> Inodes \cup {None, Folder}]
    BY <1>0, <1>6, RenameIs DEF Moved
  <2> QED BY <1>1, <1>2, <1>6, <2>1, RenameIs DEF Typed
<1>7. ASSUME NEW n \in Names, Expire(n) PROVE Typed' /\ Steps'
  <2>1. SweepTyped'
    BY <1>0, <1>7, ExpireIs DEF SweepTyped
  <2> QED BY <1>0, <1>1, <1>7, <2>1, ExpireIs DEF Typed
<1>8. CASE SweepList
  <2>1. SweepTyped'
    BY <1>0, <1>8, SweepListIs, ExpiredIs DEF SweepTyped
  <2> QED BY <1>0, <1>1, <1>8, <2>1, SweepListIs DEF Typed
<1>9. ASSUME NEW r \in listed, SweepFile(r) PROVE Typed' /\ Steps'
  <2>1. SweepTyped'
    BY <1>0, <1>9, SweepFileIs DEF SweepTyped
  <2>2. link' \in [Names -> Inodes \cup {None, Folder}]
    BY <1>0, <1>9, SweepFileIs DEF Unlink
  <2> QED BY <1>0, <1>1, <1>9, <2>1, <2>2, SweepFileIs DEF Typed
<1>10. CASE SweepForget
  <2>1. SweepTyped'
    BY <1>0, <1>10, SweepForgetIs DEF SweepTyped
  <2> QED BY <1>0, <1>1, <1>10, <2>1, SweepForgetIs DEF Typed
<1>11. CASE BootList
  <2>1. SweepTyped'
    BY <1>0, <1>11, BootListIs, ExpiredIs DEF SweepTyped
  <2> QED BY <1>0, <1>1, <1>11, <2>1, BootListIs DEF Typed
<1>12. CASE BootPurge
  <2>1. SweepTyped'
    BY <1>0, <1>12, BootPurgeIs DEF SweepTyped
  <2> QED BY <1>0, <1>1, <1>12, <2>1, BootPurgeIs DEF Typed
<1>13. ASSUME NEW r \in listed, BootRemove(r) PROVE Typed' /\ Steps'
  <2>1. SweepTyped'
    BY <1>0, <1>13, BootRemoveIs DEF SweepTyped
  <2>2. link' \in [Names -> Inodes \cup {None, Folder}]
    BY <1>0, <1>13, BootRemoveIs DEF Unlink
  <2> QED BY <1>0, <1>1, <1>13, <2>1, <2>2, BootRemoveIs DEF Typed
<1>14. CASE Crash
  <2>1. /\ relay' = "boot" /\ sweep' = "sleep" /\ listed' = {} /\ rename' = <<>>
        /\ pc' = [u \in Requests |-> IF Running(u) THEN "end" ELSE pc[u]]
        /\ UNCHANGED <<start, link, data, idx, dest, fd, pos, results, ttl>>
    BY <1>14, CrashIs
  <2>2. DiskTyped' /\ SweepTyped'
    BY <1>0, <2>1 DEF DiskTyped, SweepTyped
  <2>3. \A u \in Requests : pc'[u] \in Places /\ (pc'[u] = "end" \/ (pc'[u] = pc[u] /\ pc[u] = "idle"))
    BY <2>1, SetsType DEF Running, Places
  <2>4. UploadsTyped'
    BY <2>1, <2>3 DEF Typed, UploadsTyped
  <2>5. Steps'
    BY <2>1, <2>3 DEF Steps, Progress, Running, Wanted, Req, Loop, Post, Hand
  <2> QED BY <2>2, <2>4, <2>5 DEF Typed
<1> QED BY <1>3, <1>4, <1>5, <1>6, <1>7, <1>8, <1>9, <1>10, <1>11, <1>12, <1>13, <1>14
        DEF OtherNext, ClientNext, SweepNext, BootNext

LEMMA NextIs == Next <=> (\E u \in Requests : UploadNext(u)) \/ OtherNext
BY DEF Next, OtherNext

LEMMA TypedNext ==
  ASSUME Typed, Steps, Next
  PROVE  Typed' /\ Steps'
<1>1. ASSUME NEW u \in Requests, UploadNext(u) PROVE Typed' /\ Steps'
  BY <1>1, UploadIs, UploadTyped DEF Typed
<1> QED BY <1>1, OtherTyped, NextIs
-----------------------------------------------------------------------------
(***************************************************************************)
(* Names of files.                                                          *)
(***************************************************************************)
\* A step that creates no file.
Shift ==
    \/ link' = link
    \/ \E n \in Names : Unlink(n)
    \/ \E n \in Names : ~Exists(n) /\ link' = [link EXCEPT ![n] = Folder]
    \/ \E n, m \in Names : link' = [link EXCEPT ![n] = None, ![m] = link[n]]
    \/ \E n, m \in Names : link' = [link EXCEPT ![m] = link[n], ![n] = None]

\* Files that have yet to be created become fewer.
Fewer == \A w \in Requests, k \in 1..MaxFiles : NotYet(w, k)' => NotYet(w, k)

LEMMA FewerIf ==
  ASSUME Typed, NEW u \in Requests, NEW p, NEW j \in 1..MaxFiles, NEW d, NEW f, NEW q, NEW r,
         Sets(u, p, j, d, f, q, r),
         \A k \in 1..MaxFiles : (p \in Pre /\ k >= j) \/ (p \in Hand /\ k > j) => NotYet(u, k)
  PROVE  Fewer
<1>1. SUFFICES ASSUME NEW w \in Requests, NEW k \in 1..MaxFiles, NotYet(w, k)' PROVE NotYet(w, k)
  BY DEF Fewer
<1>2. CASE w = u
  <2>1. pc'[u] = p /\ idx'[u] = j
    BY SetsIs
  <2>2. (p \in Pre /\ k >= j) \/ (p \in Hand /\ k > j)
    BY <1>1, <1>2, <2>1 DEF NotYet
  <2> QED BY <1>2, <2>2
<1>3. CASE w # u
  <2>1. pc'[w] = pc[w] /\ idx'[w] = idx[w]
    BY <1>3, SetsIs
  <2> QED BY <1>1, <2>1 DEF NotYet
<1> QED BY <1>2, <1>3

LEMMA EndsFewer ==
  ASSUME Typed, NEW u \in Requests, pc[u] \in Pre \cup Hand, NEW n, NEW i, NEW d, Ends(u, n, i, d)
  PROVE  Fewer
<1>1. PICK p \in Places, j \in 1..MaxFiles :
         NextPlace(u, p, j) /\ Sets(u, p, j, d, fd[u], pos[u], Got(u, n, i))
  BY DEF Ends
<1>2. idx[u] \in Nat
  BY SetsType
<1>3. ASSUME NEW k \in 1..MaxFiles, (p \in Pre /\ k >= j) \/ (p \in Hand /\ k > j) PROVE NotYet(u, k)
  <2>1. p = "pick" /\ j = idx[u] + 1
    BY <1>1, <1>3 DEF NextPlace, Pre, Hand
  <2>2. k \in Nat /\ k > idx[u] /\ k >= idx[u]
    BY <1>2, <1>3, <2>1, Bounds DEF Hand
  <2> QED BY <2>2 DEF NotYet
<1> HIDE DEF Sets, Got
<1> QED BY <1>1, <1>3, FewerIf

LEMMA UploadFewer ==
  ASSUME Typed, Steps, NEW u \in Requests, UploadDoes(u)
  PROVE  Fewer
<1>0. idx[u] \in 1..MaxFiles
  BY SetsType
<1>1. CASE Turn(u)
  <2>1. PICK p \in Places \ (Hand \cup {"open"}), j \in 1..MaxFiles :
          Sets(u, p, j, dest[u], fd[u], pos[u], results[u]) /\ (p \in Pre => pc[u] \in Pre /\ j = idx[u])
    BY <1>1 DEF Turn, Goes
  <2>2. \A k \in 1..MaxFiles : (p \in Pre /\ k >= j) \/ (p \in Hand /\ k > j) => NotYet(u, k)
    BY <2>1 DEF NotYet
  <2> HIDE DEF Sets
  <2> QED BY <2>1, <2>2, FewerIf
<1>2. CASE Skips(u)
  BY <1>2, EndsFewer DEF Skips, Pre
<1>3. CASE Aimed(u)
  <2>1. Sets(u, "open", idx[u], Destination(u), fd[u], pos[u], results[u]) /\ pc[u] = "pick"
    BY <1>3 DEF Aimed
  <2>2. \A k \in 1..MaxFiles : ("open" \in Pre /\ k >= idx[u]) \/ ("open" \in Hand /\ k > idx[u]) => NotYet(u, k)
    BY <2>1 DEF NotYet, Pre, Hand
  <2> HIDE DEF Sets
  <2> QED BY <1>0, <2>1, <2>2, FewerIf
<1>4. ASSUME NEW i \in Inodes, Opens(u, i) PROVE Fewer
  <2>1. Sets(u, "write", idx[u], dest[u], i, 0, results[u]) /\ pc[u] = "open"
    BY <1>4 DEF Opens
  <2>2. \A k \in 1..MaxFiles : ("write" \in Pre /\ k >= idx[u]) \/ ("write" \in Hand /\ k > idx[u]) => NotYet(u, k)
    BY <1>0, <2>1, Bounds DEF NotYet, Pre, Hand
  <2> HIDE DEF Sets
  <2> QED BY <1>0, <2>1, <2>2, FewerIf
<1>5. CASE Wrote(u)
  <2>1. Sets(u, "write", idx[u], dest[u], fd[u], pos[u] + 1, results[u]) /\ pc[u] = "write"
    BY <1>5 DEF Wrote
  <2>2. \A k \in 1..MaxFiles : ("write" \in Pre /\ k >= idx[u]) \/ ("write" \in Hand /\ k > idx[u]) => NotYet(u, k)
    BY <2>1 DEF NotYet, Pre, Hand
  <2> HIDE DEF Sets
  <2> QED BY <1>0, <2>1, <2>2, FewerIf
<1>6. CASE Closed(u)
  <2>1. Sets(u, "place", idx[u], dest[u], fd[u], pos[u], results[u]) /\ pc[u] = "write"
    BY <1>6 DEF Closed, Goes
  <2>2. \A k \in 1..MaxFiles : ("place" \in Pre /\ k >= idx[u]) \/ ("place" \in Hand /\ k > idx[u]) => NotYet(u, k)
    BY <2>1 DEF NotYet, Pre, Hand
  <2> HIDE DEF Sets
  <2> QED BY <1>0, <2>1, <2>2, FewerIf
<1>7. CASE Put(u)
  BY <1>7, EndsFewer DEF Put, Hand
<1>8. CASE PutFails(u)
  <2>1. Sets(u, "end", idx[u], NoName, fd[u], pos[u], results[u])
    BY <1>8 DEF PutFails
  <2>2. "end" \notin Pre /\ "end" \notin Hand
    BY DEF Pre, Hand
  <2> HIDE DEF Sets
  <2> QED BY <1>0, <2>1, <2>2, FewerIf
<1>9. CASE Lands(u)
  BY <1>9, EndsFewer DEF Lands, Replaced, Hand
<1> QED BY <1>1, <1>2, <1>3, <1>4, <1>5, <1>6, <1>7, <1>8, <1>9 DEF UploadDoes, Turns, Records, RollsBack

LEMMA UploadShifts ==
  ASSUME Typed, Steps, NEW u \in Requests, UploadDoes(u)
  PROVE  Shift \/ \E i \in Inodes : Opens(u, i)
<1>1. CASE RollsBack(u)
  <2>1. Result(u).name \in Names
    BY <1>1, ResultIs DEF RollsBack, Outcomes
  <2> QED BY <1>1, <2>1 DEF RollsBack, Shift
<1>2. CASE Lands(u)
  <2>1. Wanted(u) \in Names /\ Tmp[Wanted(u)] \in Names
    BY <1>2, FilesAssumption DEF Steps, Progress, Lands, Replaced, Hand
  <2> QED BY <1>2, <2>1 DEF Lands, Replaced, Shift
<1> QED BY <1>1, <1>2
        DEF UploadDoes, Shift, Turns, Records, Skips, Aimed, Wrote, Closed, Put, PutFails, disk

LEMMA OtherShifts ==
  ASSUME Typed, Steps, OtherNext
  PROVE  Shift /\ Fewer
<1>1. Held => Fewer
  BY DEF Held, Fewer, NotYet
<1>2. ASSUME NEW n \in start.deletes, DeletePath(n) PROVE Shift /\ Held
  BY <1>2, DeletePathIs DEF Shift
<1>3. ASSUME NEW n \in start.folders, CreateFolder(n) PROVE Shift /\ Held
  BY <1>3, CreateFolderIs DEF Shift
<1>4. ASSUME NEW p \in start.renames, CheckRename(p[1], p[2]) PROVE Shift /\ Held
  BY <1>4, CheckRenameIs DEF Shift
<1>5. CASE Rename
  BY <1>1, <1>5, RenameIs DEF Shift, Moved
<1>6. ASSUME NEW n \in Names, Expire(n) PROVE Shift /\ Held
  BY <1>6, ExpireIs DEF Shift
<1>7. CASE SweepList
  BY <1>1, <1>7, SweepListIs DEF Shift
<1>8. ASSUME NEW r \in listed, SweepFile(r) PROVE Shift /\ Held
  BY <1>8, SweepFileIs DEF Shift
<1>9. CASE SweepForget
  BY <1>1, <1>9, SweepForgetIs DEF Shift
<1>10. CASE BootList
  BY <1>1, <1>10, BootListIs DEF Shift
<1>11. CASE BootPurge
  BY <1>1, <1>11, BootPurgeIs DEF Shift
<1>12. ASSUME NEW r \in listed, BootRemove(r) PROVE Shift /\ Held
  BY <1>12, BootRemoveIs DEF Shift
<1>13. CASE Crash
  <2>1. link' = link /\ idx' = idx /\ pc' = [u \in Requests |-> IF Running(u) THEN "end" ELSE pc[u]]
    BY <1>13, CrashIs
  <2>2. \A u \in Requests : pc'[u] \in Pre \cup Hand => pc'[u] = pc[u]
    BY <2>1 DEF Pre, Hand
  <2>3. Fewer
    BY <2>1, <2>2 DEF Fewer, NotYet
  <2> QED BY <2>1, <2>3 DEF Shift
<1> QED BY <1>1, <1>2, <1>3, <1>4, <1>5, <1>6, <1>7, <1>8, <1>9, <1>10, <1>11, <1>12, <1>13
        DEF OtherNext, ClientNext, SweepNext, BootNext

LEMMA NamesNext ==
  ASSUME Typed, Steps, NotLinked, Next
  PROVE  NotLinked' /\ (OneName => OneName')
<1>0. link \in [Names -> Inodes \cup {None, Folder}]
  BY DEF Typed, DiskTyped
<1>1. ASSUME Shift, Fewer PROVE NotLinked' /\ (OneName => OneName')
  <2>1. \A n \in Names : link'[n] \in {None, Folder} \/ \E m \in Names : link'[n] = link[m]
    BY <1>0, <1>1 DEF Shift, Unlink
  <2>2. \A u \in Requests, j \in 1..MaxFiles : <<u, j>> \notin {None, Folder}
    BY Markers, WriteIsFile
  <2>3. NotLinked'
    BY <1>1, <2>1, <2>2 DEF NotLinked, Fewer
  <2>4. ASSUME OneName PROVE OneName'
    <3>1. CASE link' = link
      BY <2>4, <3>1 DEF OneName, IsFile
    <3>2. CASE \E n \in Names : Unlink(n)
      BY <1>0, <2>4, <3>2 DEF OneName, IsFile, Unlink
    <3>3. CASE \E n \in Names : ~Exists(n) /\ link' = [link EXCEPT ![n] = Folder]
      BY <1>0, <2>4, <3>3 DEF OneName, IsFile
    <3>4. CASE \E n, m \in Names : link' = [link EXCEPT ![n] = None, ![m] = link[n]]
      BY <1>0, <2>4, <3>4 DEF OneName, IsFile
    <3>5. CASE \E n, m \in Names : link' = [link EXCEPT ![m] = link[n], ![n] = None]
      BY <1>0, <2>4, <3>5 DEF OneName, IsFile
    <3> QED BY <1>1, <3>1, <3>2, <3>3, <3>4, <3>5 DEF Shift
  <2> QED BY <2>3, <2>4
<1>2. ASSUME NEW u \in Requests, NEW i \in Inodes, Opens(u, i), Fewer PROVE NotLinked' /\ (OneName => OneName')
  <2>1. /\ pc[u] = "open" /\ dest[u] \in Names /\ idx[u] \in 1..MaxFiles
        /\ link' = [link EXCEPT ![dest[u]] = i] /\ i = IF IsFile(dest[u]) THEN link[dest[u]] ELSE Me(u)
        /\ pc'[u] = "write" /\ idx'[u] = idx[u]
    <3>1. Sets(u, "write", idx[u], dest[u], i, 0, results[u]) /\ pc[u] = "open"
      BY <1>2 DEF Opens
    <3>2. pc'[u] = "write" /\ idx'[u] = idx[u]
      BY <3>1, SetsIs
    <3>3. dest[u] \in Names /\ idx[u] \in 1..MaxFiles
      BY <3>1, SetsType DEF Steps, Progress
    <3> QED BY <1>2, <3>1, <3>2, <3>3 DEF Opens
  <2>2. \A n \in Names : link[n] # Me(u)
    <3>1. NotYet(u, idx[u])
      BY <2>1, SetsType DEF NotYet, Pre
    <3> QED BY <2>1, <3>1 DEF NotLinked, Me
  <2>3. ASSUME NEW k \in 1..MaxFiles, NotYet(u, k)' PROVE k # idx[u]
    <3>1. ~(idx[u] > idx[u]) /\ "write" \notin Pre
      BY <2>1, SetsType DEF Pre
    <3> QED BY <2>1, <2>3, <3>1 DEF NotYet
  <2>4. ASSUME NEW w \in Requests, NEW k \in 1..MaxFiles, NotYet(w, k)', NEW n \in Names PROVE link'[n] # <<w, k>>
    <3>1. <<w, k>> # Me(u)
      BY <2>3, <2>4 DEF Me
    <3>2. link[n] # <<w, k>> /\ link[dest[u]] # <<w, k>>
      BY <1>2, <2>1, <2>4 DEF Fewer, NotLinked
    <3> QED BY <1>0, <2>1, <3>1, <3>2
  <2>5. OneName => OneName'
    <3>1. CASE IsFile(dest[u])
      <4>1. link' = link
        BY <1>0, <2>1, <3>1
      <4> QED BY <4>1 DEF OneName, IsFile
    <3>2. CASE ~IsFile(dest[u])
      <4>1. \A n \in Names : link'[n] = IF n = dest[u] THEN Me(u) ELSE link[n]
        BY <1>0, <2>1, <3>2
      <4> QED BY <2>2, <4>1 DEF OneName, IsFile
    <3> QED BY <3>1, <3>2
  <2> QED BY <2>4, <2>5 DEF NotLinked
<1>3. ASSUME NEW u \in Requests, UploadNext(u) PROVE NotLinked' /\ (OneName => OneName')
  BY <1>1, <1>2, <1>3, UploadIs, UploadFewer, UploadShifts
<1> QED BY <1>1, <1>3, OtherShifts, NextIs
-----------------------------------------------------------------------------
(***************************************************************************)
(* Files under a name that nobody else used.                                *)
(***************************************************************************)
\* A fresh file was one before, under the same name, or has just been created
\* under a name that is not in use.
Stays(n) == Fresh(n) /\ link'[n] = link[n]
FreshOnly == \A n \in Names : Fresh(n)' => Stays(n)

LEMMA UploadFresh ==
  ASSUME Typed, Steps, NEW u \in Requests, UploadDoes(u)
  PROVE  FreshOnly \/ \E i \in Inodes : Opens(u, i)
<1>0. link \in [Names -> Inodes \cup {None, Folder}]
  BY DEF Typed, DiskTyped
<1>1. CASE RollsBack(u)
  <2>1. Result(u).name \in Names
    BY <1>1, ResultIs DEF RollsBack, Outcomes
  <2>2. \A n \in Names : link'[n] = None \/ link'[n] = link[n]
    BY <1>0, <1>1, <2>1 DEF RollsBack, Unlink
  <2> QED BY <1>1, <2>2 DEF RollsBack, Turn, FreshOnly, Stays, Fresh, IsFile
<1>2. CASE Lands(u)
  <2>1. Wanted(u) \in Names /\ Tmp[Wanted(u)] \in Names
    BY <1>2, FilesAssumption DEF Steps, Progress, Lands, Replaced, Hand
  <2>2. /\ fresh' = fresh \ {link[Tmp[Wanted(u)]]}
        /\ \A n \in Names : link'[n] \in {None, link[Tmp[Wanted(u)]]} \/ link'[n] = link[n]
    BY <1>0, <1>2, <2>1 DEF Lands, Replaced
  <2> QED BY <2>2 DEF FreshOnly, Stays, Fresh, IsFile
<1>3. link' = link /\ fresh' = fresh => FreshOnly
  BY DEF FreshOnly, Stays, Fresh, IsFile
<1> QED BY <1>1, <1>2, <1>3
        DEF UploadDoes, Turn, Turns, Records, Skips, Aimed, Wrote, Closed, Put, PutFails, disk

LEMMA OtherFresh ==
  ASSUME Typed, Steps, OtherNext
  PROVE  FreshOnly
<1>0. link \in [Names -> Inodes \cup {None, Folder}]
  BY DEF Typed, DiskTyped
<1>1. link' = link /\ fresh' = fresh => FreshOnly
  BY DEF FreshOnly, Stays, Fresh, IsFile
<1>2. ASSUME NEW n \in Names, Unlink(n), fresh' = fresh PROVE FreshOnly
  <2>1. \A m \in Names : link'[m] = None \/ link'[m] = link[m]
    BY <1>0, <1>2 DEF Unlink
  <2> QED BY <1>2, <2>1 DEF FreshOnly, Stays, Fresh, IsFile
<1>3. ASSUME NEW n \in start.deletes, DeletePath(n) PROVE FreshOnly
  BY <1>2, <1>3, DeletePathIs
<1>4. ASSUME NEW n \in start.folders, CreateFolder(n) PROVE FreshOnly
  <2>1. n \in Names /\ link' = [link EXCEPT ![n] = Folder] /\ fresh' = fresh
    BY <1>4, CreateFolderIs
  <2>2. \A m \in Names : link'[m] = Folder \/ link'[m] = link[m]
    BY <1>0, <2>1
  <2> QED BY <2>1, <2>2 DEF FreshOnly, Stays, Fresh, IsFile
<1>5. ASSUME NEW p \in start.renames, CheckRename(p[1], p[2]) PROVE FreshOnly
  BY <1>1, <1>5, CheckRenameIs
<1>6. CASE Rename
  <2>1. CASE UNCHANGED <<link, fresh>>
    BY <1>1, <2>1
  <2>2. ASSUME NEW p \in start.renames, p[1] \in Names, p[2] \in Names, Moved(p[1], p[2]) PROVE FreshOnly
    <3>1. /\ fresh' = fresh \ {link[p[1]]}
          /\ \A n \in Names : link'[n] \in {None, link[p[1]]} \/ link'[n] = link[n]
      BY <1>0, <2>2 DEF Moved
    <3> QED BY <3>1 DEF FreshOnly, Stays, Fresh, IsFile
  <2> QED BY <1>6, <2>1, <2>2, RenameIs
<1>7. ASSUME NEW n \in Names, Expire(n) PROVE FreshOnly
  BY <1>1, <1>7, ExpireIs
<1>8. CASE SweepList
  BY <1>1, <1>8, SweepListIs
<1>9. ASSUME NEW r \in listed, SweepFile(r) PROVE FreshOnly
  BY <1>1, <1>2, <1>9, SweepFileIs
<1>10. CASE SweepForget
  BY <1>1, <1>10, SweepForgetIs
<1>11. CASE BootList
  BY <1>1, <1>11, BootListIs
<1>12. CASE BootPurge
  BY <1>1, <1>12, BootPurgeIs
<1>13. ASSUME NEW r \in listed, BootRemove(r) PROVE FreshOnly
  BY <1>1, <1>2, <1>13, BootRemoveIs
<1>14. CASE Crash
  BY <1>1, <1>14, CrashIs
<1> QED BY <1>3, <1>4, <1>5, <1>6, <1>7, <1>8, <1>9, <1>10, <1>11, <1>12, <1>13, <1>14
        DEF OtherNext, ClientNext, SweepNext, BootNext

LEMMA OpensFacts ==
  ASSUME Typed, Steps, NotLinked, NEW u \in Requests, NEW i \in Inodes, Opens(u, i)
  PROVE  /\ dest[u] \in Names /\ link'[dest[u]] = i /\ \A n \in Names : n # dest[u] => link'[n] = link[n]
         /\ pc'[u] = "write" /\ fd'[u] = i /\ dest' = dest /\ results' = results /\ idx' = idx /\ pos'[u] = 0
         /\ \A v \in Requests : v # u => pc'[v] = pc[v] /\ fd'[v] = fd[v] /\ pos'[v] = pos[v]
         /\ i # Me(u) => IsFile(dest[u]) /\ link[dest[u]] = i
         /\ i = Me(u) => \A n \in Names : link[n] # i
<1>1. /\ Sets(u, "write", idx[u], dest[u], i, 0, results[u]) /\ pc[u] = "open"
      /\ link' = [link EXCEPT ![dest[u]] = i] /\ i = IF IsFile(dest[u]) THEN link[dest[u]] ELSE Me(u)
  BY DEF Opens
<1>2. dest[u] \in Names /\ idx[u] \in 1..MaxFiles /\ idx[u] \in Nat
  BY <1>1, SetsType DEF Steps, Progress
<1>3. link \in [Names -> Inodes \cup {None, Folder}]
  BY DEF Typed, DiskTyped
<1>4. \A n \in Names : link[n] # Me(u)
  <2>1. NotYet(u, idx[u])
    BY <1>1, <1>2 DEF NotYet, Pre
  <2> QED BY <1>2, <2>1 DEF NotLinked, Me
<1>5. dest' = dest /\ results' = results /\ idx' = idx
  BY <1>1, SetsType DEF Sets, To
<1>6. /\ pc'[u] = "write" /\ fd'[u] = i /\ pos'[u] = 0
      /\ \A v \in Requests : v # u => pc'[v] = pc[v] /\ fd'[v] = fd[v] /\ pos'[v] = pos[v]
  BY <1>1, SetsIs
<1> QED BY <1>1, <1>2, <1>3, <1>4, <1>5, <1>6

LEMMA OpensFresh ==
  ASSUME Typed, Steps, NotLinked, NEW u \in Requests, NEW i \in Inodes, Opens(u, i), NEW n \in Names, Fresh(n)'
  PROVE  IF n = dest[u] THEN ~InUse(u, n) ELSE Stays(n)
<1>1. fresh' = IF InUse(u, dest[u]) THEN fresh \ {i} ELSE fresh \cup {i}
  BY DEF Opens
<1>2. Exists(dest[u]) => InUse(u, dest[u])
  BY DEF InUse
<1>3. IsFile(dest[u]) => Exists(dest[u])
  BY DEF IsFile, Exists
<1>4. CASE n = dest[u]
  BY <1>1, <1>4, OpensFacts DEF Fresh, IsFile
<1>5. CASE n # dest[u]
  <2>1. link'[n] = link[n]
    BY <1>5, OpensFacts
  <2>2. IsFile(n) /\ link[n] \in fresh'
    BY <2>1 DEF Fresh, IsFile
  <2>3. link[n] \in fresh
    BY <1>1, <1>2, <1>3, <2>2, OpensFacts
  <2> QED BY <1>5, <2>1, <2>2, <2>3 DEF Stays, Fresh
<1> QED BY <1>4, <1>5

\* The parts of FreshInv for a file that stays, one by one.
FreshAll(n) == FreshRow(n) /\ FreshListed(n) /\ FreshResult(n) /\ FreshHand(n)

LEMMA OpensFreshAll ==
  ASSUME Typed, Steps, NotLinked, FreshInv, NEW u \in Requests, NEW i \in Inodes, Opens(u, i),
         NEW n \in Names, Fresh(n)'
  PROVE  FreshAll(n)'
<1>0. ttl' = ttl /\ listed' = listed
  BY DEF Opens, Rest
<1>a. \A v \in Requests : Running(v)' <=> Running(v)
  <2>1. pc[u] = "open" /\ pc'[u] = "write"
    BY OpensFacts DEF Opens
  <2> QED BY <2>1, OpensFacts DEF Running
<1>1. CASE n = dest[u]
  <2>1. ~InUse(u, n)
    BY <1>1, OpensFresh
  <2>2. FreshRow(n)' /\ FreshListed(n)'
    BY <1>0, <2>1 DEF InUse, FreshRow, FreshListed
  <2>3. FreshResult(n)'
    BY <1>a, <2>1, OpensFacts DEF InUse, FreshResult
  <2>4. FreshHand(n)'
    <3>1. SUFFICES ASSUME NEW v \in Requests, pc'[v] \in Hand, dest'[v] = n PROVE fd'[v] = link'[n]
      BY DEF FreshHand
    <3>2. CASE v = u
      BY <1>1, <3>2, OpensFacts
    <3>3. CASE v # u
      <4>1. pc[v] \in Hand /\ dest[v] = n
        BY <3>1, <3>3, OpensFacts
      <4>2. Running(v)
        BY <4>1 DEF Running, Hand
      <4> QED BY <2>1, <3>3, <4>1, <4>2 DEF InUse
    <3> QED BY <3>2, <3>3
  <2> QED BY <2>2, <2>3, <2>4 DEF FreshAll
<1>2. CASE n # dest[u]
  <2>1. Fresh(n) /\ link'[n] = link[n]
    BY <1>2, OpensFresh DEF Stays
  <2>2. FreshAll(n)
    BY <2>1 DEF FreshInv, FreshAll
  <2>3. FreshRow(n)' /\ FreshListed(n)'
    BY <1>0, <2>1, <2>2 DEF FreshAll, FreshRow, FreshListed
  <2>4. FreshResult(n)'
    BY <1>a, <2>1, <2>2, OpensFacts DEF FreshAll, FreshResult
  <2>5. FreshHand(n)'
    BY <1>2, <2>1, <2>2, OpensFacts DEF FreshAll, FreshHand
  <2> QED BY <2>3, <2>4, <2>5 DEF FreshAll
<1> QED BY <1>1, <1>2

\* The other steps of an upload.
LEMMA TurnFresh ==
  ASSUME Typed, Steps, FreshInv, NEW u \in Requests, Turn(u), NEW n \in Names, Stays(n)
  PROVE  FreshListed(n)' /\ FreshResult(n)' /\ FreshHand(n)'
<1>0. FreshListed(n) /\ FreshResult(n) /\ FreshHand(n) /\ link'[n] = link[n]
  BY DEF FreshInv, Stays
<1>1. PICK p \in Places \ (Hand \cup {"open"}), j \in 1..MaxFiles :
        Sets(u, p, j, dest[u], fd[u], pos[u], results[u])
  BY DEF Turn, Goes
<1>2. pc'[u] \notin Hand /\ dest' = dest /\ fd' = fd /\ results' = results /\ listed' = listed
  <2>1. dest' = dest /\ fd' = fd /\ results' = results
    BY <1>1, SetsType DEF Sets
  <2> QED BY <1>1, <2>1, SetsIs DEF Turn, Rest
<1>3. \A v \in Requests : v # u => pc'[v] = pc[v]
  BY <1>1, SetsIs
<1>4. FreshListed(n)'
  BY <1>0, <1>2 DEF FreshListed
<1>5. FreshHand(n)'
  BY <1>0, <1>2, <1>3 DEF FreshHand
<1>6. FreshResult(n)'
  <2>1. SUFFICES ASSUME NEW v \in Requests, Running(v)', NEW k \in DOMAIN results'[v], results'[v][k].name = n
                 PROVE  results'[v][k].file = link'[n]
    BY DEF FreshResult
  <2>2. Running(v)
    <3>1. CASE v # u
      BY <2>1, <1>3, <3>1 DEF Running
    <3>2. CASE v = u
      <4>1. pc[u] # "end"
        BY DEF Turn
      <4>2. pc[u] = "idle" => results[u] = <<>>
        BY DEF Steps, Progress
      <4>3. results[u] # <<>>
        BY <1>2, <2>1, <3>2
      <4> QED BY <3>2, <4>1, <4>2, <4>3 DEF Running
    <3> QED BY <3>1, <3>2
  <2> QED BY <1>0, <1>2, <2>1, <2>2 DEF FreshResult
<1> QED BY <1>4, <1>5, <1>6

LEMMA EndsFresh ==
  ASSUME Typed, Steps, FreshInv, NEW u \in Requests, pc[u] \in Loop,
         NEW m \in Names, NEW i \in Inodes \cup {Folder}, NEW d, Ends(u, m, i, d), Rest,
         NEW n \in Names, Stays(n), m = n => i = link[n]
  PROVE  FreshListed(n)' /\ FreshResult(n)' /\ FreshHand(n)'
<1>0. FreshListed(n) /\ FreshResult(n) /\ FreshHand(n) /\ link'[n] = link[n]
  BY DEF FreshInv, Stays
<1>1. PICK p \in Places, j \in 1..MaxFiles :
         NextPlace(u, p, j) /\ Sets(u, p, j, d, fd[u], pos[u], Got(u, m, i))
  BY DEF Ends
<1>2. pc'[u] \notin Hand
  BY <1>1, SetsIs DEF NextPlace, Hand
<1>3. \A v \in Requests : v # u =>
         pc'[v] = pc[v] /\ dest'[v] = dest[v] /\ fd'[v] = fd[v] /\ results'[v] = results[v]
  BY <1>1, SetsIs
<1>4. FreshListed(n)'
  BY <1>0 DEF FreshListed, Rest
<1>5. FreshHand(n)'
  BY <1>0, <1>2, <1>3 DEF FreshHand
<1>6. FreshResult(n)'
  <2>1. SUFFICES ASSUME NEW v \in Requests, Running(v)', NEW k \in DOMAIN results'[v], results'[v][k].name = n
                 PROVE  results'[v][k].file = link'[n]
    BY DEF FreshResult
  <2>2. CASE v # u
    BY <1>0, <1>3, <2>1, <2>2 DEF FreshResult, Running
  <2>3. CASE v = u
    <3>1. Running(u)
      BY DEF Running, Loop
    <3>2. results'[u] = Append(results[u], [name |-> m, file |-> i])
      <4>1. results'[u] = Got(u, m, i)
        BY <1>1, SetsIs
      <4> QED BY <4>1 DEF Got
    <3>3. results[u] \in Seq(Outcomes) /\ [name |-> m, file |-> i] \in Outcomes
      BY SetsType DEF Outcomes
    <3>4. /\ DOMAIN results'[u] = 1..(Len(results[u]) + 1) /\ DOMAIN results[u] = 1..Len(results[u])
          /\ Len(results[u]) \in Nat
          /\ \A x \in 1..Len(results[u]) : results'[u][x] = results[u][x]
          /\ results'[u][Len(results[u]) + 1] = [name |-> m, file |-> i]
      BY <3>2, <3>3, AppendProperties, LenProperties
    <3>5. CASE k \in 1..Len(results[u])
      BY <1>0, <2>1, <2>3, <3>1, <3>4, <3>5 DEF FreshResult
    <3>6. CASE k = Len(results[u]) + 1
      <4>1. results'[v][k] = [name |-> m, file |-> i]
        BY <2>3, <3>4, <3>6
      <4> QED BY <1>0, <2>1, <4>1
    <3> QED BY <2>1, <2>3, <3>4, <3>5, <3>6
  <2> QED BY <2>2, <2>3
<1> QED BY <1>4, <1>5, <1>6

LEMMA UploadFreshAll ==
  ASSUME Typed, Steps, NotLinked, FreshInv, NEW u \in Requests, UploadDoes(u), NEW n \in Names, Fresh(n)'
  PROVE  FreshAll(n)'
<1>1. ASSUME NEW i \in Inodes, Opens(u, i) PROVE FreshAll(n)'
  BY <1>1, OpensFreshAll
<1>2. ASSUME Stays(n) PROVE FreshAll(n)'
  <2>0. FreshAll(n) /\ link'[n] = link[n] /\ Fresh(n)
    BY <1>2 DEF FreshInv, FreshAll, Stays
  <2>a. ttl' = ttl => FreshRow(n)'
    BY <2>0 DEF FreshAll, FreshRow
  <2>1. CASE Turns(u)
    BY <1>2, <2>1, <2>a, TurnFresh DEF Turns, FreshAll
  <2>2. CASE Records(u)
    <3>1. /\ Result(u) \in Outcomes /\ Result(u) = results[u][idx[u]] /\ idx[u] \in DOMAIN results[u]
          /\ Result(u).name \in Names
      BY <2>2, ResultIs DEF Records, Outcomes
    <3>2. Running(u)
      BY <2>2 DEF Records, Running, Post
    <3>3. Result(u).name = n => Result(u).file = link[n]
      BY <2>0, <3>1, <3>2 DEF FreshAll, FreshResult
    <3>4. ttl'[n] = IF n = Result(u).name THEN [by |-> Result(u).file, due |-> FALSE] ELSE ttl[n]
      BY <2>2, <3>1 DEF Records, Typed, SweepTyped
    <3>5. FreshRow(n)'
      BY <2>0, <3>3, <3>4 DEF FreshAll, FreshRow
    <3> QED BY <1>2, <2>2, <3>5, TurnFresh DEF Records, FreshAll
  <2>3. CASE RollsBack(u)
    BY <1>2, <2>3, <2>a, TurnFresh DEF RollsBack, FreshAll
  <2>4. CASE Skips(u)
    <3>1. /\ Wanted(u) \in Names /\ link[Wanted(u)] \in Inodes \cup {Folder} /\ pc[u] \in Loop
          /\ Ends(u, Wanted(u), link[Wanted(u)], dest[u]) /\ Rest /\ ttl' = ttl
      BY <2>4 DEF Skips, Exists, Typed, DiskTyped, Loop
    <3> QED BY <1>2, <2>a, <3>1, EndsFresh DEF FreshAll
  <2>5. CASE Put(u)
    <3>1. /\ dest[u] \in Names /\ fd[u] \in Inodes /\ pc[u] \in Loop /\ pc[u] \in Hand
          /\ Ends(u, dest[u], fd[u], NoName) /\ Rest /\ ttl' = ttl
      BY <2>5 DEF Put, Steps, Progress, Hand, Loop
    <3>2. dest[u] = n => fd[u] = link[n]
      BY <2>0, <3>1 DEF FreshAll, FreshHand
    <3> QED BY <1>2, <2>a, <3>1, <3>2, EndsFresh DEF FreshAll
  <2>6. CASE Lands(u)
    <3>1. /\ Wanted(u) \in Names /\ Tmp[Wanted(u)] \in Names /\ fd[u] \in Inodes /\ pc[u] \in Loop
          /\ Ends(u, Wanted(u), fd[u], NoName) /\ Rest /\ ttl' = ttl
      BY <2>6, FilesAssumption DEF Lands, Replaced, Steps, Progress, Hand, Loop
    <3>2. Wanted(u) # n
      <4>1. link'[Wanted(u)] \in {None, link[Tmp[Wanted(u)]]} /\ fresh' = fresh \ {link[Tmp[Wanted(u)]]}
        BY <2>6, <3>1 DEF Lands, Replaced, Typed, DiskTyped
      <4> QED BY <4>1 DEF Fresh, IsFile
    <3> QED BY <1>2, <2>a, <3>1, <3>2, EndsFresh DEF FreshAll
  <2>7. ASSUME NEW p \in Places, NEW d, NEW q, Sets(u, p, idx[u], d, fd[u], q, results[u]), Rest, ttl' = ttl,
               pc[u] \notin {"idle", "end"}, p \in Hand => pc[u] \in Hand /\ d = dest[u]
        PROVE  FreshAll(n)'
    <3>1. /\ pc'[u] = p /\ dest'[u] = d /\ fd'[u] = fd[u] /\ results'[u] = results[u]
          /\ \A v \in Requests : v # u =>
                pc'[v] = pc[v] /\ dest'[v] = dest[v] /\ fd'[v] = fd[v] /\ results'[v] = results[v]
      BY <2>7, SetsIs
    <3>2. FreshHand(n)'
      BY <2>0, <2>7, <3>1 DEF FreshAll, FreshHand
    <3>3. \A v \in Requests : Running(v)' => Running(v) /\ results'[v] = results[v]
      BY <2>7, <3>1 DEF Running
    <3>4. FreshResult(n)'
      BY <2>0, <3>3 DEF FreshAll, FreshResult
    <3>5. FreshListed(n)'
      BY <2>0, <2>7 DEF FreshAll, FreshListed, Rest
    <3> QED BY <2>7, <2>a, <3>2, <3>4, <3>5 DEF FreshAll
  <2>8. CASE Aimed(u)
    <3>1. Sets(u, "open", idx[u], Destination(u), fd[u], pos[u], results[u]) /\ Rest /\ ttl' = ttl /\ pc[u] = "pick"
      BY <2>8 DEF Aimed
    <3>2. "open" \in Places /\ "open" \notin Hand
      BY DEF Places, Hand
    <3> HIDE DEF Sets
    <3> QED BY <2>7, <3>1, <3>2
  <2>9. CASE Wrote(u)
    <3>1. /\ Sets(u, "write", idx[u], dest[u], fd[u], pos[u] + 1, results[u]) /\ Rest /\ ttl' = ttl
          /\ pc[u] = "write"
      BY <2>9 DEF Wrote
    <3>2. "write" \in Places /\ "write" \in Hand
      BY DEF Places, Hand
    <3> HIDE DEF Sets
    <3> QED BY <2>7, <3>1, <3>2
  <2>10. CASE Closed(u)
    <3>1. Sets(u, "place", idx[u], dest[u], fd[u], pos[u], results[u]) /\ Rest /\ ttl' = ttl /\ pc[u] = "write"
      BY <2>10 DEF Closed, Goes
    <3>2. "place" \in Places /\ "write" \in Hand
      BY DEF Places, Hand
    <3> HIDE DEF Sets
    <3> QED BY <2>7, <3>1, <3>2
  <2>11. CASE PutFails(u)
    <3>1. Sets(u, "end", idx[u], NoName, fd[u], pos[u], results[u]) /\ Rest /\ ttl' = ttl /\ pc[u] = "place"
      BY <2>11 DEF PutFails
    <3>2. "end" \in Places /\ "end" \notin Hand
      BY DEF Places, Hand
    <3> HIDE DEF Sets
    <3> QED BY <2>7, <3>1, <3>2
  <2> QED BY <1>1, <2>1, <2>2, <2>3, <2>4, <2>5, <2>6, <2>8, <2>9, <2>10, <2>11 DEF UploadDoes
<1> QED BY <1>1, <1>2, UploadFresh DEF FreshOnly

LEMMA OtherFreshAll ==
  ASSUME Typed, Steps, FreshInv, OtherNext, NEW n \in Names, Fresh(n)'
  PROVE  FreshAll(n)'
<1>0. FreshAll(n) /\ link'[n] = link[n]
  BY OtherFresh DEF FreshOnly, Stays, FreshInv, FreshAll
<1>1. Held => FreshResult(n)' /\ FreshHand(n)'
  BY <1>0 DEF FreshAll, Held, FreshResult, FreshHand, Running
<1>2. ttl' = ttl => FreshRow(n)'
  BY <1>0 DEF FreshAll, FreshRow
<1>3. listed' \subseteq listed => FreshListed(n)'
  BY <1>0 DEF FreshAll, FreshListed
<1>4. listed' = Expired => FreshListed(n)'
  BY <1>0, ExpiredIs DEF FreshAll, FreshListed, FreshRow
<1>5. Tables => FreshRow(n)' /\ FreshListed(n)'
  BY <1>2, <1>3 DEF Tables
<1>6. ASSUME NEW m \in start.deletes, DeletePath(m) PROVE FreshAll(n)'
  BY <1>1, <1>5, <1>6, DeletePathIs DEF FreshAll
<1>7. ASSUME NEW m \in start.folders, CreateFolder(m) PROVE FreshAll(n)'
  BY <1>1, <1>5, <1>7, CreateFolderIs DEF FreshAll
<1>8. ASSUME NEW p \in start.renames, CheckRename(p[1], p[2]) PROVE FreshAll(n)'
  BY <1>1, <1>5, <1>8, CheckRenameIs DEF FreshAll
<1>9. CASE Rename
  BY <1>1, <1>5, <1>9, RenameIs DEF FreshAll
<1>10. ASSUME NEW m \in Names, Expire(m) PROVE FreshAll(n)'
  <2>1. FreshRow(n)'
    BY <1>0, <1>10, ExpireIs DEF FreshAll, FreshRow
  <2> QED BY <1>1, <1>3, <1>10, <2>1, ExpireIs DEF FreshAll
<1>11. CASE SweepList
  BY <1>1, <1>2, <1>4, <1>11, SweepListIs DEF FreshAll
<1>12. ASSUME NEW r \in listed, SweepFile(r) PROVE FreshAll(n)'
  BY <1>1, <1>2, <1>3, <1>12, SweepFileIs DEF FreshAll
<1>13. CASE SweepForget
  <2>1. ttl'[n] = NoTtl \/ ttl'[n] = ttl[n]
    BY <1>13, SweepForgetIs DEF Typed, SweepTyped
  <2>2. FreshRow(n)'
    BY <1>0, <2>1 DEF FreshAll, FreshRow
  <2>3. listed' \subseteq listed
    BY <1>13, SweepForgetIs
  <2> QED BY <1>1, <1>3, <1>13, <2>2, <2>3, SweepForgetIs DEF FreshAll
<1>14. CASE BootList
  BY <1>1, <1>2, <1>4, <1>14, BootListIs DEF FreshAll
<1>15. CASE BootPurge
  <2>1. ttl'[n] = NoTtl \/ ttl'[n] = ttl[n]
    BY <1>15, BootPurgeIs
  <2>2. FreshRow(n)'
    BY <1>0, <2>1 DEF FreshAll, FreshRow
  <2> QED BY <1>1, <1>3, <1>15, <2>2, BootPurgeIs DEF FreshAll
<1>16. ASSUME NEW r \in listed, BootRemove(r) PROVE FreshAll(n)'
  BY <1>1, <1>2, <1>3, <1>16, BootRemoveIs DEF FreshAll
<1>17. CASE Crash
  <2>1. /\ listed' = {} /\ pc' = [u \in Requests |-> IF Running(u) THEN "end" ELSE pc[u]]
        /\ UNCHANGED <<dest, fd, results, ttl>>
    BY <1>17, CrashIs
  <2>2. \A v \in Requests : ~Running(v)' /\ pc'[v] \notin Hand
    BY <2>1 DEF Running, Hand
  <2>3. FreshResult(n)' /\ FreshHand(n)' /\ FreshListed(n)'
    BY <2>1, <2>2 DEF FreshResult, FreshHand, FreshListed
  <2> QED BY <1>2, <2>1, <2>3 DEF FreshAll
<1> QED BY <1>6, <1>7, <1>8, <1>9, <1>10, <1>11, <1>12, <1>13, <1>14, <1>15, <1>16, <1>17
        DEF OtherNext, ClientNext, SweepNext, BootNext

LEMMA FreshNext ==
  ASSUME TtlInv, Next
  PROVE  FreshInv'
<1>0. Typed /\ Steps /\ NotLinked /\ FreshInv
  BY DEF TtlInv
<1>1. SUFFICES ASSUME NEW n \in Names, Fresh(n)' PROVE FreshAll(n)'
  BY DEF FreshInv, FreshAll
<1>2. ASSUME NEW u \in Requests, UploadNext(u) PROVE FreshAll(n)'
  BY <1>0, <1>1, <1>2, UploadIs, UploadFreshAll
<1> QED BY <1>0, <1>1, <1>2, OtherFreshAll, NextIs

\* The name the sweep has just cleared is still listed, hence in use.
LEMMA SweepNextInv ==
  ASSUME TtlInv, Next
  PROVE  SweepInv'
<1>0. Typed /\ Steps /\ NotLinked /\ SweepInv
  BY DEF TtlInv
<1>a. "sleep" \notin Names /\ "next" \notin Names
  BY Markers
<1>b. relay # "up" => sweep = "sleep"
  BY <1>0 DEF Typed, SweepTyped
<1>1. ASSUME FreshOnly, sweep' = sweep, listed' = listed PROVE SweepInv'
  <2>1. SUFFICES ASSUME sweep \in Names PROVE (\E r \in listed : r.name = sweep) /\ ~Fresh(sweep)'
    BY <1>1 DEF SweepInv, Fresh, IsFile
  <2> QED BY <1>0, <1>1, <2>1 DEF SweepInv, FreshOnly, Stays
<1>2. ASSUME NEW u \in Requests, UploadNext(u) PROVE SweepInv'
  <2>1. UploadDoes(u)
    BY <1>0, <1>2, UploadIs
  <2>2. sweep' = sweep /\ listed' = listed
    BY <2>1 DEF UploadDoes, Turns, Records, RollsBack, Turn, Skips, Aimed, Opens, Wrote, Closed, Put, PutFails,
                Lands, Replaced, Rest
  <2>3. ASSUME NEW i \in Inodes, Opens(u, i) PROVE SweepInv'
    <3>1. SUFFICES ASSUME sweep \in Names, Fresh(sweep)' PROVE FALSE
      BY <1>0, <2>2 DEF SweepInv, Fresh, IsFile
    <3>2. (\E r \in listed : r.name = sweep) /\ ~Fresh(sweep)
      BY <1>0, <3>1 DEF SweepInv
    <3>3. InUse(u, sweep)
      BY <3>2 DEF InUse
    <3> DEFINE n == sweep
    <3>4. n \in Names /\ Fresh(n)'
      BY <2>2, <3>1 DEF Fresh, IsFile
    <3> QED BY <1>0, <2>3, <3>1, <3>2, <3>3, <2>2, OpensFresh DEF Stays
  <2> QED BY <1>0, <1>1, <2>1, <2>2, <2>3, UploadFresh
<1>3. CASE OtherNext
  <2>0. FreshOnly
    BY <1>0, <1>3, OtherFresh
  <2>a. Tables => SweepInv'
    BY <1>1, <2>0 DEF Tables
  <2>b. sweep' \notin Names => SweepInv'
    BY DEF SweepInv
  <2>1. ASSUME NEW m \in start.deletes, DeletePath(m) PROVE SweepInv'
    BY <1>0, <2>a, <2>1, DeletePathIs
  <2>2. ASSUME NEW m \in start.folders, CreateFolder(m) PROVE SweepInv'
    BY <1>0, <2>a, <2>2, CreateFolderIs
  <2>3. ASSUME NEW p \in start.renames, CheckRename(p[1], p[2]) PROVE SweepInv'
    BY <1>0, <2>a, <2>3, CheckRenameIs
  <2>4. CASE Rename
    BY <1>0, <2>a, <2>4, RenameIs
  <2>5. ASSUME NEW m \in Names, Expire(m) PROVE SweepInv'
    BY <1>0, <1>1, <2>0, <2>5, ExpireIs
  <2>6. CASE SweepList
    BY <1>0, <1>a, <2>b, <2>6, SweepListIs
  <2>7. ASSUME NEW r \in listed, SweepFile(r) PROVE SweepInv'
    <3>1. /\ r.name \in Names /\ sweep' = r.name /\ listed' = listed
          /\ (Unlink(r.name) /\ IsFile(r.name)) \/ (UNCHANGED link /\ ~IsFile(r.name))
      BY <1>0, <2>7, SweepFileIs
    <3>2. link'[r.name] \in {None, Folder}
      BY <1>0, <3>1 DEF Unlink, IsFile, Typed, DiskTyped
    <3> QED BY <3>1, <3>2 DEF SweepInv, Fresh, IsFile
  <2>8. CASE SweepForget
    BY <1>0, <1>a, <2>b, <2>8, SweepForgetIs
  <2>9. CASE BootList
    BY <1>0, <1>a, <1>b, <2>b, <2>9, BootListIs
  <2>10. CASE BootPurge
    BY <1>0, <1>a, <1>b, <2>b, <2>10, BootPurgeIs
  <2>11. ASSUME NEW r \in listed, BootRemove(r) PROVE SweepInv'
    BY <1>0, <1>a, <1>b, <2>b, <2>11, BootRemoveIs
  <2>12. CASE Crash
    BY <1>0, <1>a, <2>b, <2>12, CrashIs
  <2> QED BY <1>3, <2>1, <2>2, <2>3, <2>4, <2>5, <2>6, <2>7, <2>8, <2>9, <2>10, <2>11, <2>12
          DEF OtherNext, ClientNext, SweepNext, BootNext
<1> QED BY <1>2, <1>3, NextIs

LEMMA TtlInit == Init => TtlInv
<1> SUFFICES ASSUME Init PROVE TtlInv
  OBVIOUS
<1>0. start \in Starts /\ start.old \subseteq Names /\ start.rows \subseteq Names
  BY FilesAssumption DEF Init
<1>1. \A n \in Names : OldFile(n) \in OldFiles /\ OldFile(n) \in Inodes
  BY DEF OldFile, OldFiles, Inodes
<1>2. DiskTyped
  <2>1. ASSUME NEW i \in Inodes PROVE (IF i \in OldFiles THEN <<i>> ELSE <<>>) \in Seq(Inodes \cup {None})
    <3>1. <<i>> \in Seq(Inodes \cup {None})
      BY <2>1
    <3>2. <<>> \in Seq(Inodes \cup {None})
      BY EmptySeq
    <3> QED BY <3>1, <3>2
  <2>2. data \in [Inodes -> Seq(Inodes \cup {None})]
    BY <2>1 DEF Init
  <2>3. link \in [Names -> Inodes \cup {None, Folder}]
    BY <1>1 DEF Init
  <2> QED BY <1>0, <2>2, <2>3 DEF Init, DiskTyped
<1>3. UploadsTyped
  <2>1. "idle" \in Places /\ 1 \in 1..MaxFiles /\ <<>> \in Seq(Outcomes)
    BY Bounds, EmptySeq DEF Places
  <2> QED BY <2>1 DEF Init, UploadsTyped
<1>4. SweepTyped
  <2>1. \A n \in Names : [by |-> OldFile(n), due |-> FALSE] \in Rows
    BY <1>1 DEF Rows
  <2> QED BY <2>1 DEF Init, SweepTyped
<1>5. Steps
  BY DEF Init, Steps, Progress, Running, Loop, Post, Hand
<1>6. NotLinked
  <2>1. \A u \in Requests, j \in 1..MaxFiles : <<u, j>> \in Writes /\ <<u, j>> # None
    BY WriteIsFile, Markers
  <2> QED BY <1>1, <2>1, Markers DEF Init, NotLinked
<1>7. FreshInv
  <2>1. ASSUME NEW n \in Names, Fresh(n) PROVE FreshAll(n)
    <3>1. link[n] = OldFile(n)
      BY <2>1 DEF Init, Fresh, IsFile
    <3>2. FreshRow(n)
      BY <3>1 DEF Init, FreshRow
    <3>3. FreshListed(n) /\ FreshHand(n) /\ FreshResult(n)
      BY DEF Init, FreshListed, FreshHand, FreshResult, Hand, Running
    <3> QED BY <3>2, <3>3 DEF FreshAll
  <2> QED BY <2>1 DEF FreshInv, FreshAll
<1>8. SweepInv
  BY Markers DEF Init, SweepInv
<1> QED BY <1>2, <1>3, <1>4, <1>5, <1>6, <1>7, <1>8 DEF TtlInv, Typed

LEMMA TtlNext == TtlInv /\ [Next]_vars => TtlInv'
<1>1. ASSUME TtlInv, Next PROVE TtlInv'
  BY <1>1, TypedNext, NamesNext, FreshNext, SweepNextInv DEF TtlInv
<1>2. ASSUME TtlInv, UNCHANGED vars PROVE TtlInv'
  <2>1. /\ UNCHANGED <<link, fresh, rename, ttl, listed, sweep, relay>> /\ Held
    BY <1>2 DEF vars, disk, uploads, sweeper, Held
  <2>2. Typed /\ Steps /\ NotLinked /\ FreshInv /\ SweepInv
    BY <1>2 DEF TtlInv
  <2>3. UploadsTyped' /\ Steps'
    BY <2>1, <2>2, HeldSteps
  <2>4. DiskTyped' /\ SweepTyped'
    BY <2>1, <2>2 DEF Typed, DiskTyped, SweepTyped, Held
  <2>5. NotLinked'
    BY <2>1, <2>2 DEF NotLinked, NotYet, Held
  <2>6. FreshInv' /\ SweepInv'
    BY <2>1, <2>2 DEF FreshInv, SweepInv, Fresh, IsFile, FreshRow, FreshListed, FreshResult, FreshHand, Running, Held
  <2> QED BY <2>3, <2>4, <2>5, <2>6 DEF TtlInv, Typed
<1> QED BY <1>1, <1>2

LEMMA TtlInvHolds == Spec => []TtlInv
BY TtlInit, TtlNext, PTL DEF Spec

\* The two halves of TtlHonoured, of one step and one name.
Removal(n) ==
    IsFile(n) /\ link[n] \in fresh /\ link'[n] = None /\ (relay = "remove" \/ (sweep' = n /\ sweep # n))
        => \E r \in listed : r.name = n /\ r.by = link[n] /\ r.due
RowKept(n) ==
    IsFile(n) /\ link[n] \in fresh /\ link'[n] = link[n] /\ ttl[n].by = link[n]
        => ttl'[n] # NoTtl \/ relay = "purge"

LEMMA RemovalStep ==
  ASSUME TtlInv, Next, NEW n \in Names
  PROVE  Removal(n)
<1>1. SUFFICES ASSUME Fresh(n), link'[n] = None, relay = "remove" \/ (sweep' = n /\ sweep # n)
               PROVE  \E r \in listed : r.name = n /\ r.by = link[n] /\ r.due
  BY DEF Removal, Fresh
<1>2. Typed /\ Steps /\ FreshListed(n) /\ link[n] # None
  BY <1>1 DEF TtlInv, FreshInv, Fresh, IsFile
<1>3. \A r \in listed : r.due
  BY <1>2 DEF Typed, SweepTyped
<1>4. (\E r \in listed : r.name = n) => \E r \in listed : r.name = n /\ r.by = link[n] /\ r.due
  BY <1>2, <1>3 DEF FreshListed
<1>5. ASSUME NEW u \in Requests, UploadNext(u) PROVE FALSE
  <2>1. Rest
    BY <1>2, <1>5, UploadIs DEF UploadDoes, Turns, Records, RollsBack, Turn, Skips, Aimed, Opens, Wrote, Closed,
       Put, PutFails, Lands, Replaced
  <2> QED BY <1>1, <2>1 DEF Rest, Up
<1>6. CASE OtherNext
  <2>1. ASSUME Up, sweep' = sweep PROVE FALSE
    BY <1>1, <2>1 DEF Up
  <2>2. link' # link
    BY <1>1, <1>2
  <2>3. CASE ClientNext
    <3>1. ClientStep
      BY <2>3 DEF ClientNext, DeletePath, CreateFolder, CheckRename, Rename
    <3> QED BY <2>1, <3>1 DEF ClientStep, sweeper
  <2>4. ASSUME NEW m \in Names, Expire(m) PROVE FALSE
    BY <1>2, <2>2, <2>4, ExpireIs
  <2>5. ASSUME NEW r \in listed, SweepFile(r) PROVE \E q \in listed : q.name = n
    <3>1. sweep' = r.name /\ relay = "up"
      BY <1>2, <2>5, SweepFileIs
    <3> QED BY <1>1, <3>1
  <2>6. ASSUME NEW r \in listed, BootRemove(r) PROVE \E q \in listed : q.name = n
    <3>1. r.name \in Names /\ (link' = link \/ Unlink(r.name)) /\ link \in [Names -> Inodes \cup {None, Folder}]
      BY <1>2, <2>6, BootRemoveIs DEF Typed, DiskTyped
    <3>2. r.name = n
      BY <1>1, <1>2, <3>1 DEF Unlink
    <3> QED BY <3>2
  <2>7. ~SweepList /\ ~SweepForget /\ ~BootList /\ ~BootPurge /\ ~Crash
    BY <1>2, <2>2, SweepListIs, SweepForgetIs, BootListIs, BootPurgeIs, CrashIs
  <2> QED BY <1>4, <1>6, <2>3, <2>4, <2>5, <2>6, <2>7 DEF OtherNext, SweepNext, BootNext
<1> QED BY <1>5, <1>6, NextIs

LEMMA RowKeptStep ==
  ASSUME TtlInv, Next, NEW n \in Names
  PROVE  RowKept(n)
<1>1. SUFFICES ASSUME Fresh(n), ttl[n].by = link[n], relay # "purge", link'[n] = link[n] PROVE ttl'[n] # NoTtl
  BY DEF RowKept, Fresh
<1>2. Typed /\ Steps /\ SweepInv
  BY <1>1 DEF TtlInv
<1>3. ttl[n] # NoTtl
  BY <1>1, Markers DEF NoTtl, Fresh, IsFile
<1>4. ASSUME NEW u \in Requests, UploadNext(u) PROVE ttl'[n] # NoTtl
  <2>1. UploadDoes(u)
    BY <1>2, <1>4, UploadIs
  <2>2. CASE Records(u)
    <3>1. Result(u) \in Outcomes
      BY <1>2, <2>2, ResultIs DEF Records
    <3>2. Result(u).name \in Names /\ [by |-> Result(u).file, due |-> FALSE] \in Rows
      BY <3>1 DEF Outcomes, Rows
    <3>3. ttl'[n] = ttl[n] \/ ttl'[n] \in Rows
      BY <1>2, <2>2, <3>2 DEF Records, Typed, SweepTyped
    <3> QED BY <1>3, <3>3, Markers
  <2>3. CASE ttl' = ttl
    BY <1>3, <2>3
  <2> QED BY <2>1, <2>2, <2>3 DEF UploadDoes, Turns, RollsBack, Skips, Aimed, Opens, Wrote, Closed, Put, PutFails,
          Lands, Replaced
<1>5. CASE OtherNext
  <2>1. ttl' = ttl => ttl'[n] # NoTtl
    BY <1>3
  <2>2. CASE ClientNext
    <3>1. ClientStep
      BY <2>2 DEF ClientNext, DeletePath, CreateFolder, CheckRename, Rename
    <3> QED BY <2>1, <3>1 DEF ClientStep
  <2>3. ASSUME NEW m \in Names, Expire(m) PROVE ttl'[n] # NoTtl
    BY <1>2, <1>3, <2>3, ExpireIs
  <2>4. CASE SweepForget
    <3>1. sweep \in Names /\ ttl' = [ttl EXCEPT ![sweep] = NoTtl]
      BY <1>2, <2>4, SweepForgetIs
    <3>2. n # sweep
      BY <1>1, <1>2, <3>1 DEF SweepInv
    <3> QED BY <1>2, <1>3, <3>1, <3>2 DEF Typed, SweepTyped
  <2>5. ASSUME NEW r \in listed, SweepFile(r) PROVE ttl'[n] # NoTtl
    BY <1>2, <2>1, <2>5, SweepFileIs
  <2>6. ASSUME NEW r \in listed, BootRemove(r) PROVE ttl'[n] # NoTtl
    BY <1>2, <2>1, <2>6, BootRemoveIs
  <2>7. ~BootPurge
    BY <1>1, <1>2, BootPurgeIs
  <2>8. SweepList \/ BootList \/ Crash => ttl' = ttl
    BY <1>2, SweepListIs, BootListIs, CrashIs
  <2> QED BY <1>5, <2>1, <2>2, <2>3, <2>4, <2>5, <2>6, <2>7, <2>8 DEF OtherNext, SweepNext, BootNext
<1> QED BY <1>4, <1>5, NextIs

\* A file put under a name that nobody else used is removed for its age only
\* after its own TTL has passed, and keeps its row until then, for any number
\* of uploads, names and crashes: the sweep, which removes the files of rows it
\* listed earlier, cannot hit a file that came since (file_ttl_sweep.py:34),
\* because a listed name is a name in use.
THEOREM TtlHolds == Spec => TtlHonoured
<1>1. ASSUME TtlInv, [Next]_vars
      PROVE  [\A n \in Names :
                /\ IsFile(n) /\ link[n] \in fresh /\ link'[n] = None
                   /\ (relay = "remove" \/ (sweep' = n /\ sweep # n))
                   => \E r \in listed : r.name = n /\ r.by = link[n] /\ r.due
                /\ IsFile(n) /\ link[n] \in fresh /\ link'[n] = link[n] /\ ttl[n].by = link[n]
                   => ttl'[n] # NoTtl \/ relay = "purge"]_vars
  BY <1>1, RemovalStep, RowKeptStep DEF Removal, RowKept
<1> QED BY <1>1, TtlInvHolds, PTL DEF Spec, TtlHonoured
-----------------------------------------------------------------------------
(***************************************************************************)
(* Whole files.  First, what the conditions say of an upload.               *)
(***************************************************************************)
LEMMA TmpsAreNames == Tmps \subseteq Names /\ \A n \in Names : Tmp[n] \in Tmps
BY FilesAssumption DEF Tmps

LEMMA WantedNamed ==
  ASSUME start \in Starts, NEW u \in Requests, idx[u] \in 1..MaxFiles, idx[u] <= Len(Req(u).files),
         Wanted(u) \in Names
  PROVE  /\ Named(start, Wanted(u))
         /\ Req(u).mode = "rename" => \A k \in DOMAIN Alt[Wanted(u)] : Named(start, Alt[Wanted(u)][k])
         /\ Req(u).mode = "overwrite" => Me(u) \in Over(start, Tmp[Wanted(u)])
<1>1. idx[u] \in DOMAIN start.req[u].files /\ Wanted(u) = start.req[u].files[idx[u]]
  BY WantedType DEF Wanted, Req
<1>2. Named(start, Wanted(u))
  BY <1>1 DEF Named
<1>3. ASSUME Req(u).mode = "rename", NEW k \in DOMAIN Alt[Wanted(u)] PROVE Named(start, Alt[Wanted(u)][k])
  BY <1>1, <1>3 DEF Named, Req
<1>4. ASSUME Req(u).mode = "overwrite" PROVE Me(u) \in Over(start, Tmp[Wanted(u)])
  <2>1. Me(u) \in Writes /\ Me(u)[1] = u /\ Me(u)[2] = idx[u]
    BY WriteIsFile DEF Me
  <2> QED BY <1>1, <1>4, <2>1 DEF Over, Req
<1> QED BY <1>2, <1>3, <1>4

\* An upload that has a destination is one of the overwrites through it, if it
\* is a temporary name.
LEMMA AimFacts ==
  ASSUME Typed, Steps, Careful(start), Aims, NEW u \in Requests, pc[u] \in Hand \cup {"open"}
  PROVE  /\ dest[u] \in Names /\ Wanted(u) \in Names /\ Wanted(u) \notin Tmps
         /\ dest[u] \in Tmps <=> dest[u] = Tmp[Wanted(u)]
         /\ dest[u] \in Tmps => Me(u) \in Over(start, dest[u])
         /\ dest[u] \notin Tmps => Named(start, dest[u])
<1>1. /\ start \in Starts /\ idx[u] \in 1..MaxFiles /\ idx[u] <= Len(Req(u).files)
      /\ dest[u] \in Names /\ Wanted(u) \in Names
  BY SetsType DEF Typed, DiskTyped, Steps, Progress, Hand, Loop
<1>2. Aim(u)
  BY DEF Aims
<1>3. Wanted(u) \notin Tmps
  BY <1>1, WantedNamed DEF Careful
<1> QED BY <1>1, <1>2, <1>3, WantedNamed, TmpsAreNames DEF Aim

\* An upload with a file in hand goes on with it, or lets go of it.
Kept(v) ==
    /\ pc'[v] \in Hand =>
          /\ pc[v] \in Hand /\ dest'[v] = dest[v] /\ fd'[v] = fd[v] /\ idx'[v] = idx[v]
          /\ pos'[v] = pos[v] \/ Wrote(v)
          /\ pc'[v] = "place" => pc[v] = "place" \/ pos[v] = Size[v]
    /\ pc[v] \in Hand /\ pc'[v] \notin Hand => pc[v] = "place" \/ fd[v] \in cut'
\* An upload that is about to open a file found no file there.
Finds(v) ==
    pc'[v] = "open" =>
        \/ pc[v] = "open" /\ dest'[v] = dest[v] /\ idx'[v] = idx[v]
        \/ /\ link' = link /\ (dest'[v] \in Tmps => dest'[v] = Tmp[Wanted(v)'] /\ Req(v)'.mode = "overwrite")
           /\ dest'[v] \notin Tmps => link[dest'[v]] = None /\ Named(start, dest'[v])

LEMMA UploadKept ==
  ASSUME Typed, Steps, Careful(start), NEW u \in Requests, UploadDoes(u), NEW v \in Requests,
         v = u => ~\E i \in Inodes : Opens(u, i)
  PROVE  Kept(v) /\ Finds(v)
<1>0. "open" \notin Hand
  BY DEF Hand
<1>1. ASSUME NEW p, NEW j, NEW d, NEW f, NEW q, NEW r, Sets(u, p, j, d, f, q, r),
             p \notin Hand \cup {"open"}, pc[u] \in Hand => pc[u] = "place"
      PROVE  Kept(v) /\ Finds(v)
  <2>1. CASE v = u
    BY <1>1, <2>1, SetsIs DEF Kept, Finds
  <2>2. CASE v # u
    BY <1>1, <2>2, SetsIs DEF Kept, Finds
  <2> QED BY <2>1, <2>2
<1>2. CASE v # u
  <2>1. ASSUME NEW p, NEW j, NEW d, NEW f, NEW q, NEW r, Sets(u, p, j, d, f, q, r) PROVE Kept(v) /\ Finds(v)
    BY <1>2, <2>1, SetsIs DEF Kept, Finds
  <2>2. \E p, j, d, f, q, r : Sets(u, p, j, d, f, q, r)
    <3> HIDE DEF Sets
    <3> QED BY DEF UploadDoes, Turns, Records, RollsBack, Turn, Goes, Skips, Aimed, Opens, Wrote, Closed, Put, PutFails,
                   Lands, Replaced, Ends
  <2> QED BY <2>1, <2>2
<1>3. CASE v = u
  <2>1. CASE Turn(u)
    BY <1>1, <2>1 DEF Turn, Goes
  <2>2. ASSUME NEW n, NEW i, NEW d, Ends(u, n, i, d), pc[u] \in {"pick", "place"} PROVE Kept(v) /\ Finds(v)
    <3>1. PICK p \in Places, j \in 1..MaxFiles :
            NextPlace(u, p, j) /\ Sets(u, p, j, d, fd[u], pos[u], Got(u, n, i))
      BY <2>2 DEF Ends
    <3>2. p \notin Hand \cup {"open"}
      BY <3>1 DEF NextPlace, Hand
    <3>3. pc[u] \in Hand => pc[u] = "place"
      BY <2>2 DEF Hand
    <3> HIDE DEF Sets, Got
    <3> QED BY <1>1, <3>1, <3>2, <3>3
  <2>3. CASE Skips(u) \/ Put(u) \/ Lands(u)
    BY <2>2, <2>3 DEF Skips, Put, Lands, Replaced
  <2>4. CASE PutFails(u)
    <3>1. Sets(u, "end", idx[u], NoName, fd[u], pos[u], results[u]) /\ pc[u] = "place"
      BY <2>4 DEF PutFails
    <3>2. "end" \notin Hand \cup {"open"}
      BY DEF Hand
    <3> HIDE DEF Sets
    <3> QED BY <1>1, <3>1, <3>2
  <2>5. CASE Wrote(u)
    <3>1. /\ pc'[u] = "write" /\ pc[u] = "write" /\ dest'[u] = dest[u] /\ fd'[u] = fd[u] /\ idx'[u] = idx[u]
      BY <2>5, SetsIs DEF Wrote
    <3> QED BY <1>3, <2>5, <3>1 DEF Kept, Finds, Hand
  <2>6. CASE Closed(u)
    <3>1. /\ pc'[u] = "place" /\ pc[u] = "write" /\ dest'[u] = dest[u] /\ fd'[u] = fd[u] /\ idx'[u] = idx[u]
          /\ pos'[u] = pos[u] /\ pos[u] = Size[u]
      BY <2>6, SetsIs DEF Closed, Goes
    <3> QED BY <1>3, <3>1 DEF Kept, Finds, Hand
  <2>7. CASE Aimed(u)
    <3>1. /\ pc'[u] = "open" /\ pc[u] = "pick" /\ dest'[u] = Destination(u) /\ idx'[u] = idx[u] /\ Rest
          /\ link' = link /\ Wanted(u) \in Names /\ Destination(u) # NoName
      BY <2>7, SetsIs DEF Aimed, disk
    <3>2. Req(u)' = Req(u) /\ Wanted(u)' = Wanted(u)
      BY <3>1 DEF Req, Wanted, Rest
    <3>3. start \in Starts /\ idx[u] \in 1..MaxFiles /\ idx[u] <= Len(Req(u).files)
      BY <3>1, SetsType DEF Typed, DiskTyped, Steps, Progress, Loop
    <3>4. \/ link[Destination(u)] = None /\ Named(start, Destination(u))
          \/ Req(u).mode = "overwrite" /\ Destination(u) = Tmp[Wanted(u)] /\ Tmp[Wanted(u)] \in Tmps
      BY <3>1, <3>3, DestinationIs, WantedNamed, TmpsAreNames DEF Exists
    <3>5. Named(start, Destination(u)) => Destination(u) \notin Tmps
      BY DEF Careful
    <3>6. Finds(u)
      BY <3>1, <3>2, <3>4, <3>5 DEF Finds
    <3>7. Kept(u)
      BY <3>1 DEF Kept, Hand
    <3> QED BY <1>3, <3>6, <3>7
  <2> QED BY <1>3, <2>1, <2>3, <2>4, <2>5, <2>6, <2>7 DEF UploadDoes, Turns, Records, RollsBack
<1> QED BY <1>2, <1>3

LEMMA OtherKept ==
  ASSUME Typed, Steps, OtherNext, NEW v \in Requests
  PROVE  Kept(v) /\ Finds(v)
<1>1. CASE Crash
  <2>1. /\ pc' = [u \in Requests |-> IF Running(u) THEN "end" ELSE pc[u]]
        /\ cut' = cut \cup {fd[u] : u \in {w \in Requests : pc[w] = "write"}}
    BY <1>1, CrashIs
  <2>2. pc'[v] \in {"idle", "end"}
    BY <2>1 DEF Running
  <2>3. pc[v] \in Hand => pc[v] = "place" \/ fd[v] \in cut'
    BY <2>1 DEF Hand
  <2> QED BY <2>2, <2>3 DEF Kept, Finds, Hand
<1>2. Held => Kept(v) /\ Finds(v)
  BY DEF Held, Kept, Finds
<1>3. CASE ClientNext
  <2>1. ClientStep
    BY <1>3 DEF ClientNext, DeletePath, CreateFolder, CheckRename, Rename
  <2> QED BY <1>2, <2>1 DEF ClientStep, Held, uploads
<1>4. ASSUME NEW m \in Names, Expire(m) PROVE Held
  BY <1>4, ExpireIs
<1>5. CASE SweepNext
  BY <1>2, <1>5, SweepListIs, SweepFileIs, SweepForgetIs DEF SweepNext
<1>6. CASE BootNext
  BY <1>2, <1>6, BootListIs, BootPurgeIs, BootRemoveIs DEF BootNext
<1> QED BY <1>1, <1>2, <1>3, <1>4, <1>5, <1>6 DEF OtherNext

-----------------------------------------------------------------------------
(***************************************************************************)
(* Destinations, and names in the tables.                                   *)
(***************************************************************************)
LEMMA StartKept ==
  ASSUME Typed, Steps, Next
  PROVE  start' = start
<1>1. ASSUME NEW u \in Requests, UploadNext(u) PROVE start' = start
  BY <1>1, UploadIs DEF UploadDoes, Turns, Records, RollsBack, Turn, Skips, Aimed, Opens, Wrote, Closed,
     Put, PutFails, Lands, Replaced, Rest
<1>2. CASE OtherNext
  <2>1. CASE ClientNext
    BY <2>1 DEF ClientNext, DeletePath, CreateFolder, CheckRename, Rename, ClientStep
  <2>2. ASSUME NEW m \in Names, Expire(m) PROVE start' = start
    BY <2>2, ExpireIs DEF Held
  <2>3. CASE SweepNext
    BY <2>3, SweepListIs, SweepFileIs, SweepForgetIs DEF SweepNext, Held
  <2>4. CASE BootNext
    BY <2>4, BootListIs, BootPurgeIs, BootRemoveIs DEF BootNext, Held
  <2>5. CASE Crash
    BY <2>5, CrashIs
  <2> QED BY <1>2, <2>1, <2>2, <2>3, <2>4, <2>5 DEF OtherNext
<1> QED BY <1>1, <1>2, NextIs

\* Every step keeps an upload's file in hand, or opens one.
LEMMA KeptOrOpens ==
  ASSUME Typed, Steps, NotLinked, Careful(start), Next
  PROVE  \/ \A v \in Requests : Kept(v) /\ Finds(v)
         \/ \E u \in Requests : \E i \in Inodes :
               Opens(u, i) /\ \A v \in Requests : v # u => Kept(v) /\ Finds(v)
<1>1. ASSUME NEW u \in Requests, UploadNext(u)
      PROVE  \/ \A v \in Requests : Kept(v) /\ Finds(v)
             \/ \E i \in Inodes : Opens(u, i) /\ \A v \in Requests : v # u => Kept(v) /\ Finds(v)
  BY <1>1, UploadIs, UploadKept
<1> QED BY <1>1, OtherKept, NextIs

LEMMA AimsNext ==
  ASSUME Typed, Steps, NotLinked, Careful(start), Aims, Next
  PROVE  Aims'
<1>0. start' = start
  BY StartKept
<1>1. ASSUME NEW v \in Requests, pc'[v] \in Hand \cup {"open"}, pc[v] \in Hand \cup {"open"},
             dest'[v] = dest[v], idx'[v] = idx[v]
      PROVE  Aim(v)'
  <2>1. Req(v)' = Req(v) /\ Wanted(v)' = Wanted(v) /\ Aim(v)
    BY <1>0, <1>1 DEF Req, Wanted, Aims
  <2> QED BY <1>0, <1>1, <2>1 DEF Aim
<1>2. ASSUME NEW v \in Requests, Kept(v), Finds(v), pc'[v] \in Hand \cup {"open"} PROVE Aim(v)'
  <2>1. CASE pc'[v] \in Hand
    BY <1>1, <1>2, <2>1 DEF Kept
  <2>2. CASE pc'[v] = "open" /\ pc[v] = "open" /\ dest'[v] = dest[v] /\ idx'[v] = idx[v]
    BY <1>1, <1>2, <2>2
  <2>3. CASE /\ dest'[v] \in Tmps => dest'[v] = Tmp[Wanted(v)'] /\ Req(v)'.mode = "overwrite"
             /\ dest'[v] \notin Tmps => Named(start, dest'[v])
    BY <1>0, <2>3 DEF Aim
  <2> QED BY <1>2, <2>1, <2>2, <2>3 DEF Finds
<1>3. ASSUME NEW u \in Requests, NEW i \in Inodes, Opens(u, i) PROVE Aim(u)'
  <2>1. pc[u] = "open" /\ pc'[u] = "write" /\ dest'[u] = dest[u] /\ idx'[u] = idx[u]
    BY <1>3, OpensFacts DEF Opens
  <2> QED BY <1>1, <2>1 DEF Hand
<1> QED BY <1>2, <1>3, KeptOrOpens DEF Aims

NoTmpResult == \A u \in Requests : \A k \in DOMAIN results[u] : results[u][k].name \notin Tmps
NoTmpRow == (\A n \in Tmps : ttl[n] = NoTtl) /\ (\A r \in listed : r.name \notin Tmps)

LEMMA EndsNoTmp ==
  ASSUME Typed, Steps, NoTmpResult, NEW u \in Requests,
         NEW n \in Names, NEW i \in Inodes \cup {Folder}, NEW d, Ends(u, n, i, d), n \notin Tmps
  PROVE  NoTmpResult'
<1>1. PICK p, j : Sets(u, p, j, d, fd[u], pos[u], Got(u, n, i))
  BY DEF Ends
<1>2. results'[u] = Got(u, n, i) /\ \A v \in Requests : v # u => results'[v] = results[v]
  BY <1>1, SetsIs
<1>3. results[u] \in Seq(Outcomes) /\ [name |-> n, file |-> i] \in Outcomes
  BY SetsType DEF Outcomes
<1>4. /\ DOMAIN results'[u] = 1..(Len(results[u]) + 1) /\ DOMAIN results[u] = 1..Len(results[u])
      /\ Len(results[u]) \in Nat
      /\ \A x \in 1..Len(results[u]) : results'[u][x] = results[u][x]
      /\ results'[u][Len(results[u]) + 1] = [name |-> n, file |-> i]
  BY <1>2, <1>3, AppendProperties, LenProperties DEF Got
<1>5. ASSUME NEW k \in DOMAIN results'[u] PROVE results'[u][k].name \notin Tmps
  <2>1. CASE k \in 1..Len(results[u])
    BY <1>4, <2>1 DEF NoTmpResult
  <2>2. CASE k = Len(results[u]) + 1
    BY <1>4, <2>2
  <2> QED BY <1>4, <1>5, <2>1, <2>2
<1> QED BY <1>2, <1>5 DEF NoTmpResult

LEMMA UploadNoTmps ==
  ASSUME Typed, Steps, Careful(start), Aims, NoTmps, NEW u \in Requests, UploadDoes(u)
  PROVE  NoTmps'
<1>0. NoTmpResult /\ NoTmpRow
  BY DEF NoTmps, NoTmpResult, NoTmpRow
<1>1. ttl' = ttl /\ listed' = listed => NoTmpRow'
  BY <1>0 DEF NoTmpRow
<1>2. results' = results => NoTmpResult'
  BY <1>0 DEF NoTmpResult
<1>3. ASSUME NEW p, NEW j, NEW d, NEW f, NEW q, Sets(u, p, j, d, f, q, results[u]) PROVE results' = results
  BY <1>3, SetsType DEF Sets
<1>4. CASE Turns(u) \/ RollsBack(u)
  <2>1. ttl' = ttl /\ listed' = listed /\ results' = results
    BY <1>3, <1>4 DEF Turns, RollsBack, Turn, Goes, Rest
  <2> QED BY <1>1, <1>2, <2>1 DEF NoTmps, NoTmpResult, NoTmpRow
<1>5. CASE Records(u)
  <2>1. listed' = listed /\ results' = results
    BY <1>3, <1>5 DEF Records, Turn, Goes, Rest
  <2>2. /\ Result(u) \in Outcomes /\ Result(u) = results[u][idx[u]] /\ idx[u] \in DOMAIN results[u]
        /\ Result(u).name \in Names
    BY <1>5, ResultIs DEF Records, Outcomes
  <2>3. Result(u).name \notin Tmps
    BY <1>0, <2>2 DEF NoTmpResult
  <2>4. NoTmpRow'
    BY <1>0, <1>5, <2>1, <2>2, <2>3, TmpsAreNames DEF NoTmpRow, Records, Typed, SweepTyped
  <2> QED BY <1>2, <2>1, <2>4 DEF NoTmps, NoTmpResult, NoTmpRow
<1>6. CASE Skips(u)
  <2>1. /\ Wanted(u) \in Names /\ link[Wanted(u)] \in Inodes \cup {Folder} /\ Rest /\ ttl' = ttl
        /\ Ends(u, Wanted(u), link[Wanted(u)], dest[u])
    BY <1>6 DEF Skips, Exists, Typed, DiskTyped
  <2>2. Wanted(u) \notin Tmps
    <3>1. start \in Starts /\ idx[u] \in 1..MaxFiles /\ idx[u] <= Len(Req(u).files)
      BY <1>6, SetsType DEF Typed, DiskTyped, Steps, Progress, Loop, Skips
    <3> QED BY <2>1, <3>1, WantedNamed DEF Careful
  <2>3. NoTmpResult'
    BY <1>0, <2>1, <2>2, EndsNoTmp
  <2> QED BY <1>1, <2>1, <2>3 DEF NoTmps, NoTmpResult, NoTmpRow, Rest
<1>7. CASE Put(u) \/ Lands(u)
  <2>0. pc[u] \in Hand \cup {"open"} /\ pc[u] = "place" /\ Rest /\ ttl' = ttl
    BY <1>7 DEF Put, Lands, Replaced, Hand
  <2>1. fd[u] \in Inodes /\ dest[u] \in Names /\ Wanted(u) \in Names
    BY <2>0 DEF Steps, Progress, Hand
  <2>2. PICK n \in Names : n \notin Tmps /\ Ends(u, n, fd[u], NoName)
    BY <1>7, <2>0, <2>1, AimFacts DEF Put, Lands, Replaced
  <2>3. NoTmpResult'
    BY <1>0, <2>1, <2>2, EndsNoTmp
  <2> QED BY <1>1, <2>0, <2>3 DEF NoTmps, NoTmpResult, NoTmpRow, Rest
<1>8. CASE Aimed(u) \/ (\E i \in Inodes : Opens(u, i)) \/ Wrote(u) \/ Closed(u) \/ PutFails(u)
  <2>1. \E p, j, d, f, q : Sets(u, p, j, d, f, q, results[u])
    <3> HIDE DEF Sets
    <3> QED BY <1>8 DEF Aimed, Opens, Wrote, Closed, Goes, PutFails
  <2>2. results' = results /\ ttl' = ttl /\ listed' = listed
    BY <1>3, <1>8, <2>1 DEF Aimed, Opens, Wrote, Closed, PutFails, Rest
  <2> QED BY <1>1, <1>2, <2>2 DEF NoTmps, NoTmpResult, NoTmpRow
<1> QED BY <1>4, <1>5, <1>6, <1>7, <1>8 DEF UploadDoes

LEMMA OtherNoTmps ==
  ASSUME Typed, Steps, NoTmps, OtherNext
  PROVE  NoTmps'
<1>0. NoTmpResult /\ NoTmpRow
  BY DEF NoTmps, NoTmpResult, NoTmpRow
<1>1. results' = results => NoTmpResult'
  BY <1>0 DEF NoTmpResult
<1>2. ASSUME \A n \in Tmps : ttl'[n] \in {ttl[n], NoTtl}, listed' \subseteq listed \cup Expired PROVE NoTmpRow'
  <2>1. \A r \in Expired : ttl[r.name] # NoTtl
    BY ExpiredIs
  <2> QED BY <1>0, <1>2, <2>1 DEF NoTmpRow
<1>3. CASE ClientNext
  <2>1. ClientStep
    BY <1>3 DEF ClientNext, DeletePath, CreateFolder, CheckRename, Rename
  <2>2. ttl' = ttl /\ listed' = listed /\ results' = results
    BY <2>1 DEF ClientStep, uploads, sweeper
  <2> QED BY <1>1, <1>2, <2>2 DEF NoTmps, NoTmpResult, NoTmpRow
<1>4. ASSUME NEW m \in Names, Expire(m) PROVE NoTmps'
  <2>1. m \notin Tmps /\ results' = results /\ listed' = listed
    BY <1>0, <1>4, ExpireIs DEF NoTmpRow, Held
  <2>2. \A n \in Tmps : ttl'[n] \in {ttl[n], NoTtl}
    BY <1>4, <2>1, ExpireIs, TmpsAreNames
  <2> QED BY <1>1, <1>2, <2>1, <2>2 DEF NoTmps, NoTmpResult, NoTmpRow
<1>5. CASE SweepNext
  <2>1. results' = results /\ listed' \subseteq listed \cup Expired
    BY <1>5, SweepListIs, SweepFileIs, SweepForgetIs DEF SweepNext, Held
  <2>2. ttl' = ttl \/ (sweep \in Names /\ ttl' = [ttl EXCEPT ![sweep] = NoTtl])
    BY <1>5, SweepListIs, SweepFileIs, SweepForgetIs DEF SweepNext
  <2>3. \A n \in Tmps : ttl'[n] \in {ttl[n], NoTtl}
    BY <2>2, TmpsAreNames DEF Typed, SweepTyped
  <2> QED BY <1>1, <1>2, <2>1, <2>3 DEF NoTmps, NoTmpResult, NoTmpRow
<1>6. CASE BootNext
  <2>1. results' = results /\ listed' \subseteq listed \cup Expired
    BY <1>6, BootListIs, BootPurgeIs, BootRemoveIs DEF BootNext, Held
  <2>2. ttl' = ttl \/ ttl' = [n \in Names |-> IF \E r \in listed : r.name = n THEN NoTtl ELSE ttl[n]]
    BY <1>6, BootListIs, BootPurgeIs, BootRemoveIs DEF BootNext
  <2>3. \A n \in Tmps : ttl'[n] \in {ttl[n], NoTtl}
    BY <2>2, TmpsAreNames
  <2> QED BY <1>1, <1>2, <2>1, <2>3 DEF NoTmps, NoTmpResult, NoTmpRow
<1>7. CASE Crash
  <2>1. results' = results /\ ttl' = ttl /\ listed' = {}
    BY <1>7, CrashIs
  <2> QED BY <1>1, <1>2, <2>1 DEF NoTmps, NoTmpResult, NoTmpRow
<1> QED BY <1>3, <1>4, <1>5, <1>6, <1>7 DEF OtherNext

LEMMA NoTmpsNext ==
  ASSUME Typed, Steps, Careful(start), Aims, NoTmps, Next
  PROVE  NoTmps'
<1>1. ASSUME NEW u \in Requests, UploadNext(u) PROVE NoTmps'
  BY <1>1, UploadIs, UploadNoTmps
<1> QED BY <1>1, OtherNoTmps, NextIs

-----------------------------------------------------------------------------
(***************************************************************************)
(* What files hold.                                                         *)
(***************************************************************************)
LEMMA EmptyIs == \A x : <<>> = [k \in 1..0 |-> x]
<1>1. SUFFICES ASSUME NEW x PROVE <<>> = [k \in 1..0 |-> x]
  OBVIOUS
<1>2. [k \in 1..0 |-> x] \in [1..0 -> {x}]
  OBVIOUS
<1>3. [k \in 1..0 |-> x] \in Seq({x}) /\ Len([k \in 1..0 |-> x]) = 0
  BY <1>2, FunIsSeq
<1> QED BY <1>3, EmptySeq

\* Steps that write nothing.
Dry == data' = data /\ mixed' = mixed /\ cut \subseteq cut' /\ Shift /\ \A v \in Requests : Kept(v)

LEMMA UploadDry ==
  ASSUME Typed, Steps, Careful(start), NEW u \in Requests, UploadDoes(u),
         ~Wrote(u), ~\E i \in Inodes : Opens(u, i)
  PROVE  Dry
<1>1. data' = data /\ mixed' = mixed /\ cut \subseteq cut'
  BY DEF UploadDoes, Turns, Records, RollsBack, Turn, Skips, Aimed, Closed, Put, PutFails, Lands, Replaced, disk
<1> QED BY <1>1, UploadShifts, UploadKept DEF Dry

LEMMA OtherDry ==
  ASSUME Typed, Steps, OtherNext
  PROVE  Dry
<1>1. CASE Crash
  <2>1. data' = data /\ mixed' = mixed /\ cut \subseteq cut'
    BY <1>1, CrashIs
  <2> QED BY <2>1, OtherShifts, OtherKept DEF Dry
<1>2. Held => Dry
  BY OtherShifts, OtherKept DEF Dry, Held
<1>3. CASE ClientNext
  <2>1. ClientStep
    BY <1>3 DEF ClientNext, DeletePath, CreateFolder, CheckRename, Rename
  <2> QED BY <1>2, <2>1 DEF ClientStep, Held, uploads
<1>4. ASSUME NEW m \in Names, Expire(m) PROVE Held
  BY <1>4, ExpireIs
<1>5. CASE SweepNext
  BY <1>2, <1>5, SweepListIs, SweepFileIs, SweepForgetIs DEF SweepNext
<1>6. CASE BootNext
  BY <1>2, <1>6, BootListIs, BootPurgeIs, BootRemoveIs DEF BootNext
<1> QED BY <1>1, <1>2, <1>3, <1>4, <1>5, <1>6 DEF OtherNext

\* A step writes nothing, empties a file or writes a chunk.
LEMMA DryOrNot ==
  ASSUME Typed, Steps, Careful(start), Next
  PROVE  \/ Dry /\ \A v \in Requests : ~Wrote(v)
         \/ \E u \in Requests : Wrote(u)
         \/ \E u \in Requests : \E i \in Inodes : Opens(u, i)
<1>1. ASSUME NEW u \in Requests, UploadNext(u)
      PROVE  Dry \/ Wrote(u) \/ \E i \in Inodes : Opens(u, i)
  BY <1>1, UploadIs, UploadDry
<1> QED BY <1>1, OtherDry, NextIs

LEMMA WroteFacts ==
  ASSUME Typed, Steps, NEW u \in Requests, Wrote(u)
  PROVE  /\ fd[u] \in Inodes /\ pc[u] = "write" /\ pc'[u] = "write" /\ pos[u] \in Nat /\ pos'[u] = pos[u] + 1
         /\ pos[u] < Size[u] /\ dest' = dest /\ fd' = fd /\ idx' = idx /\ link' = link
         /\ mixed' = mixed /\ cut' = cut
         /\ \A v \in Requests : pc'[v] = pc[v] /\ (v # u => pos'[v] = pos[v])
         /\ data'[fd[u]] = Chunk(u, data[fd[u]]) /\ \A i \in Inodes : i # fd[u] => data'[i] = data[i]
<1>1. /\ pc[u] = "write" /\ pos[u] < Size[u]
      /\ Sets(u, "write", idx[u], dest[u], fd[u], pos[u] + 1, results[u])
      /\ data' = [data EXCEPT ![fd[u]] = Chunk(u, data[fd[u]])]
      /\ UNCHANGED <<link, mixed, cut>>
  BY DEF Wrote
<1>2. fd[u] \in Inodes
  BY <1>1 DEF Steps, Progress, Hand
<1>3. dest' = dest /\ fd' = fd /\ idx' = idx
  BY <1>1, SetsType DEF Sets, To
<1>4. pc'[u] = "write" /\ pos'[u] = pos[u] + 1 /\ \A v \in Requests : v # u => pc'[v] = pc[v] /\ pos'[v] = pos[v]
  BY <1>1, SetsIs
<1>5. data'[fd[u]] = Chunk(u, data[fd[u]]) /\ \A i \in Inodes : i # fd[u] => data'[i] = data[i]
  BY <1>1, <1>2 DEF Typed, DiskTyped
<1> QED BY <1>1, <1>2, <1>3, <1>4, <1>5, SetsType

LEMMA OpensData ==
  ASSUME Typed, Steps, NotLinked, NEW u \in Requests, NEW i \in Inodes, Opens(u, i)
  PROVE  /\ data'[i] = <<>> /\ \A j \in Inodes : j # i => data'[j] = data[j]
         /\ mixed \subseteq mixed' /\ mixed' \subseteq mixed \cup {i} /\ cut' = cut
         /\ i \notin mixed' => (\A v \in Requests : pc[v] \in Hand => fd[v] # i)
         /\ i \notin mixed' /\ dest[u] \notin Tmps => i[1] \notin Requests \ {u}
<1>1. /\ data' = [data EXCEPT ![i] = <<>>] /\ cut' = cut
      /\ mixed' = IF InHand(i) # {} \/ (dest[u] \notin Tmps /\ i[1] \in Requests \ {u})
                  THEN mixed \cup {i} ELSE mixed
  BY DEF Opens
<1>2. data'[i] = <<>> /\ \A j \in Inodes : j # i => data'[j] = data[j]
  BY <1>1 DEF Typed, DiskTyped
<1>3. i \notin mixed' => (\A v \in Requests : pc[v] \in Hand => fd[v] # i)
  BY <1>1 DEF InHand, Hand
<1> QED BY <1>1, <1>2, <1>3

LEMMA SharersNext ==
  ASSUME Typed, Steps, NotLinked, Careful(start), Sharers, Next
  PROVE  Sharers'
<1>1. CASE Dry
  BY <1>1 DEF Dry, Kept, Sharers, InHandOf
<1>2. ASSUME NEW u \in Requests, Wrote(u) PROVE Sharers'
  BY <1>2, WroteFacts DEF Sharers, InHandOf
<1>3. ASSUME NEW u \in Requests, NEW i \in Inodes, Opens(u, i) PROVE Sharers'
  <2>1. SUFFICES ASSUME NEW v \in Requests, NEW w \in Requests, v # w, pc'[v] \in Hand, pc'[w] \in Hand,
                        fd'[v] = fd'[w], fd'[v] \notin mixed'
                 PROVE  FALSE
    BY DEF Sharers, InHandOf
  <2>2. CASE v = u \/ w = u
    BY <1>3, <2>1, <2>2, OpensFacts, OpensData
  <2>3. CASE v # u /\ w # u
    BY <1>3, <2>1, <2>3, OpensFacts, OpensData DEF Sharers, InHandOf
  <2> QED BY <2>2, <2>3
<1> QED BY <1>1, <1>2, <1>3, DryOrNot

LEMMA PartialsNext ==
  ASSUME Typed, Steps, NotLinked, Careful(start), Sharers, Partials, Next
  PROVE  Partials'
<1>1. SUFFICES ASSUME NEW v \in Requests, pc'[v] \in Hand, fd'[v] \notin mixed'
               PROVE  /\ data'[fd'[v]] = [k \in 1..pos'[v] |-> <<v, idx'[v]>>] /\ pos'[v] <= Size[v]
                      /\ pc'[v] = "place" => pos'[v] = Size[v]
  BY DEF Partials, Partial, InHandOf, Me
<1>2. ASSUME pc[v] \in Hand, fd[v] \notin mixed
      PROVE  /\ data[fd[v]] = [k \in 1..pos[v] |-> <<v, idx[v]>>] /\ pos[v] <= Size[v]
             /\ pc[v] = "place" => pos[v] = Size[v]
  BY <1>2 DEF Partials, Partial, InHandOf, Me
<1>3. CASE Dry /\ \A w \in Requests : ~Wrote(w)
  BY <1>1, <1>2, <1>3 DEF Dry, Kept
<1>4. ASSUME NEW u \in Requests, Wrote(u)
      PROVE  /\ data'[fd'[v]] = [k \in 1..pos'[v] |-> <<v, idx'[v]>>] /\ pos'[v] <= Size[v]
             /\ pc'[v] = "place" => pos'[v] = Size[v]
  <2>1. pc[v] \in Hand /\ pc[u] \in Hand /\ fd[v] \notin mixed
    BY <1>1, <1>4, WroteFacts DEF Hand
  <2>2. CASE v = u
    <3>1. data[fd[u]] = [k \in 1..pos[u] |-> Me(u)]
      BY <1>2, <2>1, <2>2 DEF Me
    <3>2. Chunk(u, data[fd[u]]) = [k \in 1..(pos[u] + 1) |-> Me(u)]
      BY <3>1, SetsType, ChunkAppends
    <3>3. pos[u] + 1 <= Size[u]
      BY <1>4, WroteFacts, Bounds
    <3>4. data'[fd'[v]] = [k \in 1..pos'[v] |-> <<v, idx'[v]>>]
      BY <1>4, <2>2, <3>2, WroteFacts DEF Me
    <3> QED BY <1>4, <2>2, <3>3, <3>4, WroteFacts
  <2>3. CASE v # u
    <3>1. fd[v] # fd[u] /\ fd[v] \in Inodes
      BY <2>1, <2>3 DEF Sharers, InHandOf, Steps, Progress
    <3>2. data'[fd'[v]] = data[fd[v]] /\ pos'[v] = pos[v] /\ idx'[v] = idx[v] /\ pc'[v] = pc[v]
      BY <1>4, <2>3, <3>1, WroteFacts
    <3> QED BY <1>2, <2>1, <3>2
  <2> QED BY <2>2, <2>3
<1>5. ASSUME NEW u \in Requests, NEW i \in Inodes, Opens(u, i)
      PROVE  /\ data'[fd'[v]] = [k \in 1..pos'[v] |-> <<v, idx'[v]>>] /\ pos'[v] <= Size[v]
             /\ pc'[v] = "place" => pos'[v] = Size[v]
  <2>1. CASE v = u
    <3>1. data'[fd'[v]] = <<>> /\ pos'[v] = 0 /\ pc'[v] = "write"
      BY <1>5, <2>1, OpensFacts, OpensData
    <3>2. data'[fd'[v]] = [k \in 1..pos'[v] |-> <<v, idx'[v]>>]
      BY <3>1, EmptyIs
    <3> QED BY <3>1, <3>2, Bounds
  <2>2. CASE v # u
    <3>1. /\ pc[v] \in Hand /\ pc'[v] = pc[v] /\ fd'[v] = fd[v] /\ pos'[v] = pos[v] /\ idx'[v] = idx[v]
          /\ fd[v] \notin mixed /\ fd[v] \in Inodes
      BY <1>1, <1>5, <2>2, OpensFacts, OpensData DEF Steps, Progress
    <3>2. fd[v] # i
      BY <1>1, <1>5, <3>1, OpensData
    <3>3. data'[fd'[v]] = data[fd[v]]
      BY <1>5, <3>1, <3>2, OpensData
    <3> QED BY <1>2, <3>1, <3>3
  <2> QED BY <2>1, <2>2
<1> QED BY <1>3, <1>4, <1>5, DryOrNot

LEMMA AtRestNext ==
  ASSUME Typed, Steps, NotLinked, Careful(start), Partials, AtRest, Next
  PROVE  AtRest'
<1>0. link \in [Names -> Inodes \cup {None, Folder}]
  BY DEF Typed, DiskTyped
<1>1. SUFFICES ASSUME NEW n \in Names, link'[n] \notin {None, Folder}, link'[n] \notin mixed' \cup cut',
                      \A v \in Requests : ~(pc'[v] \in Hand /\ fd'[v] = link'[n])
               PROVE  \E w \in Inodes : data'[link'[n]] = WholeOf(w)
  BY DEF AtRest, IsFile, InHand, Hand, Whole
<1>2. ASSUME NEW m \in Names, link[m] \notin {None, Folder}, link[m] \notin mixed \cup cut,
             \A v \in Requests : ~(pc[v] \in Hand /\ fd[v] = link[m])
      PROVE  \E w \in Inodes : data[link[m]] = WholeOf(w)
  BY <1>2 DEF AtRest, IsFile, InHand, Hand, Whole
<1>3. CASE Dry
  <2>1. PICK m \in Names : link'[n] = link[m] /\ link[m] \notin {None, Folder}
    <3>1. link'[n] \in {None, Folder} \/ \E m \in Names : link'[n] = link[m]
      BY <1>0, <1>3 DEF Dry, Shift, Unlink
    <3> QED BY <1>1, <3>1
  <2>2. CASE \A v \in Requests : ~(pc[v] \in Hand /\ fd[v] = link[m])
    BY <1>1, <1>2, <1>3, <2>1, <2>2 DEF Dry
  <2>3. ASSUME NEW v \in Requests, pc[v] \in Hand, fd[v] = link[m]
        PROVE  \E w \in Inodes : data'[link'[n]] = WholeOf(w)
    <3>1. Kept(v) /\ data' = data /\ mixed' = mixed
      BY <1>3 DEF Dry
    <3>2. pc[v] = "place"
      BY <1>1, <2>1, <2>3, <3>1 DEF Kept
    <3>3. data[fd[v]] = [k \in 1..Size[v] |-> Me(v)]
      BY <1>1, <2>1, <2>3, <3>1, <3>2 DEF Partials, Partial, InHandOf
    <3>4. Me(v) \in Writes /\ Me(v) \in Inodes /\ Me(v)[1] = v /\ Me(v) \notin OldFiles
      BY SetsType, WriteIsFile, Markers DEF Me
    <3>5. WholeOf(Me(v)) = [k \in 1..Size[v] |-> Me(v)]
      BY <3>4 DEF WholeOf
    <3> QED BY <2>1, <2>3, <3>1, <3>3, <3>4, <3>5
  <2> QED BY <2>2, <2>3
<1>4. ASSUME NEW u \in Requests, Wrote(u) PROVE \E w \in Inodes : data'[link'[n]] = WholeOf(w)
  <2>1. link'[n] = link[n] /\ fd[u] # link[n] /\ link[n] \in Inodes
    BY <1>0, <1>1, <1>4, WroteFacts DEF Hand
  <2>2. data'[link'[n]] = data[link[n]]
    BY <1>4, <2>1, WroteFacts
  <2>3. \A v \in Requests : ~(pc[v] \in Hand /\ fd[v] = link[n])
    BY <1>1, <1>4, WroteFacts
  <2> QED BY <1>1, <1>2, <1>4, <2>1, <2>2, <2>3, WroteFacts
<1>5. ASSUME NEW u \in Requests, NEW i \in Inodes, Opens(u, i) PROVE \E w \in Inodes : data'[link'[n]] = WholeOf(w)
  <2>1. i # link'[n]
    BY <1>1, <1>5, OpensFacts DEF Hand
  <2>2. link'[n] = link[n] /\ link[n] \in Inodes
    BY <1>0, <1>1, <1>5, <2>1, OpensFacts
  <2>3. data'[link'[n]] = data[link[n]] /\ link[n] \notin mixed \cup cut
    BY <1>1, <1>5, <2>1, <2>2, OpensData
  <2>4. \A v \in Requests : pc[v] \in Hand => v # u
    BY <1>5 DEF Opens, Hand
  <2>5. \A v \in Requests : ~(pc[v] \in Hand /\ fd[v] = link[n])
    BY <1>1, <1>5, <2>2, <2>4, OpensFacts
  <2> QED BY <1>1, <1>2, <2>2, <2>3, <2>5
<1> QED BY <1>3, <1>4, <1>5, DryOrNot
-----------------------------------------------------------------------------
(***************************************************************************)
(* Who names which file.                                                    *)
(***************************************************************************)
\* Steps that neither open a file nor put a temporary one in place.
CalmLink ==
    \/ link' = link
    \/ \E n \in Names : Unlink(n) /\ (n \in Tmps => n \in start.deletes)
    \/ \E n \in Names : ~Exists(n) /\ link' = [link EXCEPT ![n] = Folder]
    \/ \E n, m \in Names : /\ n \notin Tmps /\ ~Named(start, m) /\ Over(start, m) = {}
                           /\ link' = [link EXCEPT ![n] = None, ![m] = link[n]]
Calm == mixed' = mixed /\ CalmLink /\ \A v \in Requests : Kept(v) /\ Finds(v)

LEMMA UploadCalm ==
  ASSUME Typed, Steps, Careful(start), NoTmps, NEW u \in Requests, UploadDoes(u),
         ~Lands(u), ~\E i \in Inodes : Opens(u, i)
  PROVE  Calm
<1>1. CASE RollsBack(u)
  <2>1. /\ Result(u) \in Outcomes /\ Result(u) = results[u][idx[u]] /\ idx[u] \in DOMAIN results[u]
        /\ Result(u).name \in Names
    BY <1>1, ResultIs DEF RollsBack, Outcomes
  <2>2. Result(u).name \notin Tmps
    BY <2>1 DEF NoTmps
  <2>3. CalmLink /\ mixed' = mixed
    BY <1>1, <2>1, <2>2 DEF RollsBack, Turn, CalmLink
  <2> QED BY <2>3, UploadKept DEF Calm
<1>2. CASE Turns(u) \/ Records(u) \/ Skips(u) \/ Aimed(u) \/ Wrote(u) \/ Closed(u) \/ Put(u) \/ PutFails(u)
  <2>1. link' = link /\ mixed' = mixed
    BY <1>2 DEF Turns, Records, Turn, Skips, Aimed, Wrote, Closed, Put, PutFails, disk
  <2> QED BY <2>1, UploadKept DEF Calm, CalmLink
<1> QED BY <1>1, <1>2 DEF UploadDoes

LEMMA OtherCalm ==
  ASSUME Typed, Steps, Careful(start), NoTmps, OtherNext
  PROVE  Calm
<1>1. \A v \in Requests : Kept(v) /\ Finds(v)
  BY OtherKept
<1>2. mixed' = mixed
  BY OtherDry DEF Dry
<1>3. CalmLink
  <2>1. link' = link => CalmLink
    BY DEF CalmLink
  <2>2. ASSUME NEW n \in start.deletes, DeletePath(n) PROVE CalmLink
    BY <2>2, DeletePathIs DEF CalmLink
  <2>3. ASSUME NEW n \in start.folders, CreateFolder(n) PROVE CalmLink
    BY <2>3, CreateFolderIs DEF CalmLink
  <2>4. ASSUME NEW p \in start.renames, CheckRename(p[1], p[2]) PROVE CalmLink
    BY <2>1, <2>4, CheckRenameIs
  <2>5. CASE Rename
    <3>1. ASSUME NEW p \in start.renames, p[1] \in Names, p[2] \in Names, Moved(p[1], p[2]) PROVE CalmLink
      <4>1. p[1] \notin Tmps /\ ~Named(start, p[2]) /\ Over(start, p[2]) = {}
        BY DEF Careful
      <4>2. link' = [link EXCEPT ![p[1]] = None, ![p[2]] = link[p[1]]]
        BY <3>1 DEF Moved
      <4> QED BY <3>1, <4>1, <4>2 DEF CalmLink
    <3> QED BY <2>1, <2>5, <3>1, RenameIs
  <2>6. ASSUME NEW n \in Names, Expire(n) PROVE CalmLink
    BY <2>1, <2>6, ExpireIs
  <2>7. ASSUME NEW r \in listed, SweepFile(r) PROVE CalmLink
    <3>1. r.name \notin Tmps
      BY DEF NoTmps
    <3> QED BY <2>7, <3>1, SweepFileIs DEF CalmLink
  <2>8. ASSUME NEW r \in listed, BootRemove(r) PROVE CalmLink
    <3>1. r.name \notin Tmps
      BY DEF NoTmps
    <3> QED BY <2>8, <3>1, BootRemoveIs DEF CalmLink
  <2>9. SweepList \/ SweepForget \/ BootList \/ BootPurge \/ Crash => CalmLink
    BY <2>1, SweepListIs, SweepForgetIs, BootListIs, BootPurgeIs, CrashIs
  <2> QED BY <2>2, <2>3, <2>4, <2>5, <2>6, <2>7, <2>8, <2>9 DEF OtherNext, ClientNext, SweepNext, BootNext
<1> QED BY <1>1, <1>2, <1>3 DEF Calm

OpensOnly(u, i) == Opens(u, i) /\ \A v \in Requests : v # u => Kept(v) /\ Finds(v)
LandsOnly(u) == Lands(u) /\ \A v \in Requests : Kept(v) /\ Finds(v)

\* Every step is one of three.
LEMMA CalmOrNot ==
  ASSUME Typed, Steps, Careful(start), NoTmps, Next
  PROVE  /\ start' = start /\ Fewer
         /\ \/ Calm
            \/ \E u \in Requests : LandsOnly(u)
            \/ \E u \in Requests, i \in Inodes : OpensOnly(u, i)
<1>1. ASSUME NEW u \in Requests, UploadNext(u)
      PROVE  Fewer /\ (Calm \/ LandsOnly(u) \/ \E i \in Inodes : OpensOnly(u, i))
  <2>1. UploadDoes(u)
    BY <1>1, UploadIs
  <2>2. Fewer
    BY <2>1, UploadFewer
  <2>3. ASSUME NEW i \in Inodes, Opens(u, i) PROVE OpensOnly(u, i)
    BY <2>1, <2>3, UploadKept DEF OpensOnly
  <2>4. ASSUME Lands(u), ~\E i \in Inodes : Opens(u, i) PROVE LandsOnly(u)
    BY <2>1, <2>4, UploadKept DEF LandsOnly
  <2> QED BY <2>1, <2>2, <2>3, <2>4, UploadCalm
<1>2. OtherNext => Fewer
  BY OtherShifts
<1>3. OtherNext => Calm
  BY OtherCalm
<1> QED BY <1>1, <1>2, <1>3, NextIs, StartKept

\* What becomes of a name that uploads may write.
LEMMA CalmName ==
  ASSUME Typed, Calm, NEW d \in Names, Named(start, d) \/ Over(start, d) # {}
  PROVE  \/ link'[d] = link[d]
         \/ link'[d] = None /\ (d \in Tmps => d \in start.deletes)
         \/ link'[d] = Folder /\ link[d] = None
<1>0. link \in [Names -> Inodes \cup {None, Folder}]
  BY DEF Typed, DiskTyped
<1>1. CASE \E n \in Names : Unlink(n) /\ (n \in Tmps => n \in start.deletes)
  BY <1>0, <1>1 DEF Unlink
<1>2. CASE \E n \in Names : ~Exists(n) /\ link' = [link EXCEPT ![n] = Folder]
  BY <1>0, <1>2 DEF Exists
<1>3. ASSUME NEW n \in Names, NEW m \in Names, n \notin Tmps, ~Named(start, m), Over(start, m) = {},
             link' = [link EXCEPT ![n] = None, ![m] = link[n]]
      PROVE  link'[d] = link[d] \/ (link'[d] = None /\ d \notin Tmps)
  <2>1. d # m
    BY <1>3
  <2>2. link'[d] = IF d = n THEN None ELSE link[d]
    BY <1>0, <1>3, <2>1
  <2> QED BY <1>3, <2>2
<1> QED BY <1>1, <1>2, <1>3 DEF Calm, CalmLink

LEMMA LandsFacts ==
  ASSUME Typed, Steps, Careful(start), Aims, NEW u \in Requests, Lands(u)
  PROVE  /\ pc[u] \in Hand /\ pc'[u] \notin Hand /\ mixed' = mixed
         /\ dest[u] \in Tmps /\ dest[u] \in Names /\ Wanted(u) \in Names /\ Wanted(u) \notin Tmps
         /\ Me(u) \in Over(start, dest[u]) /\ link[dest[u]] # None
         /\ link'[dest[u]] = None /\ link'[Wanted(u)] = link[dest[u]]
         /\ \A n \in Names : n # dest[u] /\ n # Wanted(u) => link'[n] = link[n]
         /\ \A k \in 1..MaxFiles : k = idx[u] => ~NotYet(u, k)'
<1>1. /\ pc[u] = "place" /\ dest[u] = Tmp[Wanted(u)] /\ Ends(u, Wanted(u), fd[u], NoName)
      /\ link' = [link EXCEPT ![Wanted(u)] = link[Tmp[Wanted(u)]], ![Tmp[Wanted(u)]] = None]
      /\ mixed' = mixed /\ Exists(dest[u])
  BY DEF Lands, Replaced
<1>2. pc[u] \in Hand \cup {"open"} /\ pc[u] \in Hand
  BY <1>1 DEF Hand
<1>3. /\ dest[u] \in Names /\ Wanted(u) \in Names /\ Wanted(u) \notin Tmps /\ dest[u] \in Tmps
      /\ Me(u) \in Over(start, dest[u])
  BY <1>1, <1>2, AimFacts
<1>4. PICK p \in Places, j \in 1..MaxFiles :
        NextPlace(u, p, j) /\ Sets(u, p, j, NoName, fd[u], pos[u], Got(u, Wanted(u), fd[u]))
  BY <1>1 DEF Ends
<1>5. pc'[u] = p /\ idx'[u] = j /\ p \notin Hand
  BY <1>4, SetsIs DEF NextPlace, Hand
<1>6. \A k \in 1..MaxFiles : k = idx[u] => ~NotYet(u, k)'
  <2>1. idx[u] \in Nat
    BY SetsType
  <2>2. p \in Pre => j = idx[u] + 1
    BY <1>4 DEF NextPlace, Pre
  <2>3. ~(p \in Pre /\ idx[u] >= j)
    BY <2>1, <2>2
  <2> QED BY <1>5, <2>3 DEF NotYet
<1>7. link \in [Names -> Inodes \cup {None, Folder}]
  BY DEF Typed, DiskTyped
<1>8. /\ link'[dest[u]] = None /\ link'[Wanted(u)] = link[dest[u]]
      /\ \A n \in Names : n # dest[u] /\ n # Wanted(u) => link'[n] = link[n]
  BY <1>1, <1>3, <1>7
<1> QED BY <1>1, <1>2, <1>3, <1>5, <1>6, <1>8 DEF Exists

\* A step that keeps upload u's file in hand, or opens it.
LEMMA KeptHand ==
  ASSUME Typed, Steps, NEW u \in Requests, Kept(u), pc'[u] \in Hand
  PROVE  /\ pc[u] \in Hand /\ dest'[u] = dest[u] /\ fd'[u] = fd[u] /\ idx'[u] = idx[u]
         /\ fd[u] \in Inodes /\ dest[u] \in Names
BY DEF Kept, Steps, Progress

LEMMA OwnFileNext ==
  ASSUME Typed, Steps, NotLinked, Careful(start), NoTmps, OwnFile, OldSafe, Next
  PROVE  OwnFile'
<1>1. SUFFICES ASSUME NEW v \in Requests, pc'[v] \in Hand, dest'[v] \notin Tmps, fd'[v] \notin mixed'
               PROVE  fd'[v][1] = v
  BY DEF OwnFile, InHandOf
<1>2. ASSUME Kept(v), mixed \subseteq mixed' PROVE fd'[v][1] = v
  BY <1>1, <1>2, KeptHand DEF OwnFile, InHandOf
<1>3. CASE Calm
  BY <1>2, <1>3 DEF Calm
<1>4. ASSUME NEW u \in Requests, LandsOnly(u) PROVE fd'[v][1] = v
  BY <1>2, <1>4 DEF LandsOnly, Lands, Replaced
<1>5. ASSUME NEW u \in Requests, NEW i \in Inodes, OpensOnly(u, i) PROVE fd'[v][1] = v
  <2>1. Opens(u, i)
    BY <1>5 DEF OpensOnly
  <2>2. CASE v # u
    BY <1>2, <1>5, <2>1, <2>2, OpensData DEF OpensOnly
  <2>3. CASE v = u
    <3>1. fd'[v] = i /\ dest[v] \notin Tmps /\ pc[u] = "open"
      BY <1>1, <2>1, <2>3, OpensFacts DEF Opens
    <3>2. CASE i = Me(u)
      BY <2>3, <3>1, <3>2 DEF Me
    <3>3. CASE i # Me(u)
      <4>1. i \notin OldFiles
        BY <2>1, <2>3, <3>1, <3>3, OpensFacts DEF OldSafe
      <4>2. i[1] \in Requests
        BY <4>1 DEF Inodes, Writes
      <4> QED BY <1>1, <2>1, <2>3, <3>1, <4>2, OpensData
    <3> QED BY <3>2, <3>3
  <2> QED BY <2>2, <2>3
<1> QED BY <1>3, <1>4, <1>5, CalmOrNot

LEMMA OldSafeNext ==
  ASSUME Typed, Steps, NotLinked, Careful(start), Aims, NoTmps, OldSafe, Next
  PROVE  OldSafe'
<1>0. None \notin OldFiles /\ Folder \notin OldFiles /\ start' = start
  BY Markers, StartKept DEF Inodes
\* A name that uploads may write and that holds no old file will hold none.
<1>1. ASSUME NEW d \in Names, Named(start, d) \/ (d \in Tmps /\ Over(start, d) # {}), link[d] \notin OldFiles
      PROVE  link'[d] \notin OldFiles
  <2>1. CASE Calm
    BY <1>0, <1>1, <2>1, CalmName
  <2>2. ASSUME NEW u \in Requests, LandsOnly(u) PROVE link'[d] \notin OldFiles
    <3>1. Lands(u)
      BY <2>2 DEF LandsOnly
    <3>2. link[dest[u]] \notin OldFiles
      BY <3>1, LandsFacts DEF OldSafe
    <3> QED BY <1>0, <1>1, <3>1, <3>2, LandsFacts
  <2>3. ASSUME NEW u \in Requests, NEW i \in Inodes, OpensOnly(u, i) PROVE link'[d] \notin OldFiles
    <3>1. Opens(u, i)
      BY <2>3 DEF OpensOnly
    <3>2. Me(u) \notin OldFiles
      BY SetsType, WriteIsFile, Markers DEF Me
    <3> QED BY <1>1, <3>1, <3>2, OpensFacts
  <2> QED BY <2>1, <2>2, <2>3, CalmOrNot
<1>2. ASSUME NEW v \in Requests, pc'[v] = "open", dest'[v] \notin Tmps PROVE link'[dest'[v]] \notin OldFiles
  <2>1. Finds(v)
    <3>1. ASSUME NEW u \in Requests, NEW i \in Inodes, OpensOnly(u, i) PROVE Finds(v)
      <4>1. pc'[u] = "write"
        BY <3>1, OpensFacts DEF OpensOnly
      <4> QED BY <1>2, <3>1, <4>1 DEF OpensOnly
    <3> QED BY <3>1, CalmOrNot DEF Calm, LandsOnly
  <2>2. CASE pc[v] = "open" /\ dest'[v] = dest[v]
    <3>1. dest[v] \in Names /\ Named(start, dest[v]) /\ link[dest[v]] \notin OldFiles
      BY <1>2, <2>2, AimFacts DEF OldSafe
    <3> QED BY <1>1, <2>2, <3>1
  <2>3. CASE link' = link /\ link[dest'[v]] = None
    BY <1>0, <2>3
  <2> QED BY <1>2, <2>1, <2>2, <2>3 DEF Finds
<1>3. ASSUME NEW t \in Tmps, Over(start, t) # {} PROVE link'[t] \notin OldFiles
  BY <1>1, <1>3, TmpsAreNames DEF OldSafe
<1> QED BY <1>0, <1>2, <1>3 DEF OldSafe

LEMMA TmpOnlyNext ==
  ASSUME Typed, Steps, NotLinked, OneName, Careful(start), Aims, NoTmps, Sharers, TmpOnly, TmpHeld, Next
  PROVE  TmpOnly'
<1>0. link \in [Names -> Inodes \cup {None, Folder}]
  BY DEF Typed, DiskTyped
<1>1. SUFFICES ASSUME NEW u \in Requests, pc'[u] \in Hand, dest'[u] \in Tmps, fd'[u] \notin mixed',
                      NEW n \in Names, link'[n] = fd'[u]
               PROVE  n = dest'[u]
  BY DEF TmpOnly, InHandOf
\* Before the step, if u keeps its file.
<1>2. ASSUME Kept(u), mixed \subseteq mixed', NEW m \in Names, link[m] = fd[u] PROVE m = dest[u]
  BY <1>1, <1>2, KeptHand DEF TmpOnly, InHandOf
<1>3. CASE Calm
  <2>1. Kept(u) /\ mixed \subseteq mixed' /\ CalmLink
    BY <1>3 DEF Calm
  <2>2. dest'[u] = dest[u] /\ fd'[u] = fd[u] /\ fd[u] \in Inodes
    BY <1>1, <2>1, KeptHand
  <2>3. link'[n] \notin {None, Folder}
    BY <1>1, <2>2, Markers
  <2>4. CASE link'[n] = link[n]
    BY <1>1, <1>2, <2>1, <2>2, <2>4
  <2>5. ASSUME NEW p \in Names, NEW q \in Names, p \notin Tmps,
               link' = [link EXCEPT ![p] = None, ![q] = link[p]]
        PROVE  link'[n] = link[n]
    <3>1. link[p] # fd[u]
      BY <1>1, <1>2, <2>1, <2>2, <2>5
    <3> QED BY <1>0, <1>1, <2>2, <2>3, <2>5, <3>1
  <2>6. ASSUME NEW m \in Names, Unlink(m) \/ link' = [link EXCEPT ![m] = Folder] PROVE link'[n] = link[n]
    BY <1>0, <2>3, <2>6 DEF Unlink
  <2> QED BY <2>1, <2>4, <2>5, <2>6 DEF CalmLink
<1>4. ASSUME NEW v \in Requests, LandsOnly(v) PROVE n = dest'[u]
  <2>1. Kept(u) /\ Lands(v)
    BY <1>4 DEF LandsOnly
  <2>2. dest'[u] = dest[u] /\ fd'[u] = fd[u] /\ fd[u] \in Inodes /\ pc[u] \in Hand /\ mixed' = mixed /\ u # v
    BY <1>1, <2>1, KeptHand, LandsFacts
  <2>3. n # dest[v]
    BY <1>1, <2>1, <2>2, LandsFacts, Markers
  <2>4. CASE n = Wanted(v)
    <3>1. link[dest[v]] = fd[u] /\ dest[v] \in Names /\ dest[v] \in Tmps /\ pc[v] \in Hand
      BY <1>1, <2>1, <2>2, <2>4, LandsFacts
    <3>2. IsFile(dest[v])
      BY <2>2, <3>1, Markers DEF IsFile
    <3>3. fd[v] = fd[u]
      BY <3>1, <3>2 DEF TmpHeld, InHandOf
    <3>4. fd[u] \in mixed
      BY <2>2, <3>1, <3>3 DEF Sharers, InHandOf
    <3> QED BY <1>1, <2>2, <3>4
  <2>5. CASE n # Wanted(v)
    <3>1. link[n] = fd[u]
      BY <1>1, <2>1, <2>2, <2>3, <2>5, LandsFacts
    <3> QED BY <1>2, <2>1, <2>2, <3>1
  <2> QED BY <2>4, <2>5
<1>5. ASSUME NEW v \in Requests, NEW i \in Inodes, OpensOnly(v, i) PROVE n = dest'[u]
  <2>1. Opens(v, i)
    BY <1>5 DEF OpensOnly
  <2>2. CASE u = v
    <3>1. link'[n] = i /\ dest'[u] = dest[u]
      BY <1>1, <2>1, <2>2, OpensFacts
    <3>2. ASSUME n # dest[u] PROVE FALSE
      <4>1. link[n] = i
        BY <2>1, <2>2, <3>1, <3>2, OpensFacts
      <4> QED BY <2>1, <2>2, <3>2, <4>1, OpensFacts DEF OneName
    <3> QED BY <3>1, <3>2
  <2>3. CASE u # v
    <3>1. Kept(u) /\ mixed \subseteq mixed' /\ dest'[u] = dest[u] /\ fd'[u] = fd[u] /\ pc[u] \in Hand
      BY <1>1, <1>5, <2>1, <2>3, OpensData, KeptHand DEF OpensOnly
    <3>2. fd[u] # i
      BY <1>1, <2>1, <3>1, OpensData
    <3>3. link[n] = fd[u]
      BY <1>1, <2>1, <3>1, <3>2, OpensFacts
    <3> QED BY <1>2, <3>1, <3>3
  <2> QED BY <2>2, <2>3
<1> QED BY <1>3, <1>4, <1>5, CalmOrNot

LEMMA TmpHeldNext ==
  ASSUME Typed, Steps, NotLinked, Careful(start), Aims, NoTmps, TmpHeld, NoMore, Next
  PROVE  TmpHeld'
<1>1. SUFFICES ASSUME NEW u \in Requests, pc'[u] \in Hand, dest'[u] \in Tmps, link'[dest'[u]] \notin {None, Folder}
               PROVE  link'[dest'[u]] = fd'[u]
  BY DEF TmpHeld, InHandOf, IsFile
<1>2. ASSUME Kept(u), link'[dest[u]] = link[dest[u]] PROVE link'[dest'[u]] = fd'[u]
  BY <1>1, <1>2, KeptHand DEF TmpHeld, InHandOf, IsFile
<1>3. CASE Calm
  <2>1. Kept(u)
    BY <1>3 DEF Calm
  <2>2. pc[u] \in Hand /\ dest[u] \in Tmps /\ dest[u] \in Names /\ dest'[u] = dest[u]
    BY <1>1, <2>1, KeptHand
  <2>3. Over(start, dest[u]) # {}
    BY <2>2, AimFacts
  <2> QED BY <1>1, <1>2, <1>3, <2>1, <2>2, <2>3, CalmName
<1>4. ASSUME NEW v \in Requests, LandsOnly(v) PROVE link'[dest'[u]] = fd'[u]
  <2>1. Kept(u) /\ Lands(v)
    BY <1>4 DEF LandsOnly
  <2>2. dest[u] \in Tmps /\ dest[u] \in Names /\ dest'[u] = dest[u]
    BY <1>1, <2>1, KeptHand
  <2>3. link'[dest[u]] = link[dest[u]]
    BY <1>1, <2>1, <2>2, LandsFacts
  <2> QED BY <1>2, <2>1, <2>3
<1>5. ASSUME NEW v \in Requests, NEW i \in Inodes, OpensOnly(v, i) PROVE link'[dest'[u]] = fd'[u]
  <2>1. Opens(v, i)
    BY <1>5 DEF OpensOnly
  <2>2. CASE u = v
    BY <2>1, <2>2, OpensFacts
  <2>3. CASE u # v
    <3>1. /\ Kept(u) /\ pc[u] \in Hand /\ dest[u] \in Tmps /\ dest[u] \in Names
          /\ dest'[u] = dest[u] /\ fd'[u] = fd[u]
      BY <1>1, <1>5, <2>3, KeptHand DEF OpensOnly
    <3>2. CASE dest[v] # dest[u]
      BY <1>2, <2>1, <3>1, <3>2, OpensFacts
    <3>3. CASE dest[v] = dest[u]
      <4>1. pc[v] = "open"
        BY <2>1 DEF Opens
      <4>2. Me(v) \in Over(start, dest[u]) /\ Me(v)[1] = v /\ Me(v)[2] = idx[v]
        BY <3>1, <3>3, <4>1, AimFacts DEF Me
      <4>3. NotYet(v, idx[v])
        BY <4>1, SetsType DEF NotYet, Pre
      <4>4. IsFile(dest[u])
        BY <2>3, <3>1, <4>2, <4>3 DEF NoMore, InHandOf
      <4>5. link'[dest[u]] = link[dest[u]]
        BY <2>1, <3>3, <4>4, OpensFacts DEF Opens
      <4> QED BY <1>2, <3>1, <4>5
    <3> QED BY <3>2, <3>3
  <2> QED BY <2>2, <2>3
<1> QED BY <1>3, <1>4, <1>5, CalmOrNot

LEMMA NoMoreNext ==
  ASSUME Typed, Steps, NotLinked, Careful(start), Aims, NoTmps, NoMore, Next
  PROVE  NoMore'
<1>0. start' = start /\ Fewer
  BY CalmOrNot
<1>1. SUFFICES ASSUME NEW u \in Requests, pc'[u] \in Hand, dest'[u] \in Tmps, link'[dest'[u]] \in {None, Folder},
                      NEW w \in Over(start, dest'[u]), w[1] # u
               PROVE  ~NotYet(w[1], w[2])'
  BY <1>0 DEF NoMore, InHandOf, IsFile
<1>2. w \in Writes /\ w[1] \in Requests /\ w[2] \in 1..MaxFiles
  BY DEF Over, Writes
<1>3. ASSUME ~NotYet(w[1], w[2]) PROVE ~NotYet(w[1], w[2])'
  BY <1>0, <1>2, <1>3 DEF Fewer
<1>4. ASSUME Kept(u), ~IsFile(dest[u]) PROVE ~NotYet(w[1], w[2])'
  <2>1. ~NotYet(w[1], w[2])
    BY <1>1, <1>4, KeptHand DEF NoMore, InHandOf
  <2> QED BY <1>3, <2>1
<1>5. ASSUME Kept(u) PROVE /\ pc[u] \in Hand /\ dest[u] \in Tmps /\ dest[u] \in Names /\ dest'[u] = dest[u]
                           /\ Me(u) \in Over(start, dest[u]) /\ Me(u)[1] = u
  <2>1. pc[u] \in Hand /\ dest[u] \in Tmps /\ dest[u] \in Names /\ dest'[u] = dest[u]
    BY <1>1, <1>5, KeptHand
  <2> QED BY <2>1, AimFacts DEF Me
<1>6. CASE Calm
  <2>1. Kept(u)
    BY <1>6 DEF Calm
  <2>2. CASE IsFile(dest[u])
    <3>1. dest[u] \in start.deletes
      BY <1>1, <1>5, <1>6, <2>1, <2>2, CalmName DEF IsFile
    <3>2. w[1] = Me(u)[1]
      BY <1>1, <1>5, <2>1, <3>1 DEF Careful
    <3> QED BY <1>1, <1>5, <2>1, <3>2
  <2> QED BY <1>4, <2>1, <2>2
<1>7. ASSUME NEW v \in Requests, LandsOnly(v) PROVE ~NotYet(w[1], w[2])'
  <2>1. Kept(u) /\ Lands(v)
    BY <1>7 DEF LandsOnly
  <2>2. CASE IsFile(dest[u])
    <3>1. dest[v] = dest[u] /\ Me(v) \in Over(start, dest[u]) /\ u # v
      BY <1>1, <1>5, <2>1, <2>2, LandsFacts DEF IsFile
    <3>2. Me(v)[1] = v /\ Me(v)[2] = idx[v]
      BY DEF Me
    <3>3. w = Me(v)
      BY <1>1, <1>5, <2>1, <3>1, <3>2 DEF Careful
    <3> QED BY <1>2, <2>1, <3>2, <3>3, LandsFacts
  <2> QED BY <1>4, <2>1, <2>2
<1>8. ASSUME NEW v \in Requests, NEW i \in Inodes, OpensOnly(v, i) PROVE ~NotYet(w[1], w[2])'
  <2>1. Opens(v, i)
    BY <1>8 DEF OpensOnly
  <2>2. u # v
    BY <1>1, <2>1, OpensFacts, Markers
  <2>3. Kept(u) /\ ~IsFile(dest[u])
    <3>1. Kept(u)
      BY <1>8, <2>2 DEF OpensOnly
    <3>2. link'[dest[u]] = i \/ link'[dest[u]] = link[dest[u]]
      BY <1>5, <2>1, <3>1, OpensFacts
    <3>3. link'[dest[u]] \in {None, Folder} /\ i \notin {None, Folder}
      BY <1>1, <1>5, <3>1, Markers
    <3> QED BY <3>1, <3>2, <3>3 DEF IsFile
  <2> QED BY <1>4, <2>3
<1> QED BY <1>6, <1>7, <1>8, CalmOrNot
-----------------------------------------------------------------------------
(***************************************************************************)
(* The invariant and the theorem.                                           *)
(***************************************************************************)
LEMMA CareInit == Init => OneName /\ (Careful(start) => CareInv)
<1> SUFFICES ASSUME Init PROVE OneName /\ (Careful(start) => CareInv)
  OBVIOUS
<1>1. \A n \in Names : OldFile(n) \in OldFiles /\ OldFile(n) \in Inodes /\ OldFile(n)[1] = n
  BY DEF OldFile, OldFiles, Inodes
<1>2. \A n \in Names : link[n] = IF n \in start.old THEN OldFile(n) ELSE None
  BY DEF Init
<1>3. OneName
  BY <1>1, <1>2 DEF OneName, IsFile
<1>4. \A u \in Requests : pc[u] = "idle" /\ pc[u] \notin Hand \cup {"open"} /\ pc[u] \notin Hand
  BY DEF Init, Hand
<1>5. ASSUME Careful(start) PROVE CareInv
  <2>1. Aims /\ Partials /\ Sharers /\ OwnFile /\ TmpOnly /\ TmpHeld /\ NoMore
    BY <1>4 DEF Aims, Partials, Partial, Sharers, OwnFile, TmpOnly, TmpHeld, NoMore, InHandOf
  <2>2. NoTmps
    <3>1. \A u \in Requests : DOMAIN results[u] = {}
      BY DEF Init
    <3>2. \A n \in Tmps : ttl[n] = NoTtl
      BY <1>5, TmpsAreNames DEF Init, Careful
    <3> QED BY <3>1, <3>2 DEF NoTmps, Init
  <2>3. AtRest
    <3>1. ASSUME NEW n \in Names, IsFile(n) PROVE Whole(link[n])
      <4>1. link[n] = OldFile(n)
        BY <1>2, <3>1 DEF IsFile
      <4>2. data[link[n]] = <<link[n]>>
        BY <1>1, <4>1 DEF Init
      <4>3. WholeOf(link[n]) = <<link[n]>> /\ link[n] \in Inodes
        BY <1>1, <4>1 DEF WholeOf
      <4> QED BY <4>2, <4>3 DEF Whole
    <3> QED BY <3>1 DEF AtRest
  <2>4. OldSafe
    <3>1. \A t \in Tmps : link[t] = None
      BY <1>2, <1>5, TmpsAreNames DEF Careful
    <3>2. None \notin OldFiles
      BY Markers DEF Inodes
    <3> QED BY <1>4, <3>1, <3>2 DEF OldSafe
  <2> QED BY <2>1, <2>2, <2>3, <2>4 DEF CareInv
<1> QED BY <1>3, <1>5

LEMMA InvNext == Inv /\ [Next]_vars => Inv'
<1>1. ASSUME Inv, Next PROVE Inv'
  <2>1. TtlInv' /\ Typed /\ Steps /\ NotLinked /\ OneName
    BY <1>1, TtlNext DEF Inv, TtlInv
  <2>2. OneName' /\ start' = start
    BY <1>1, <2>1, NamesNext, StartKept
  <2>3. ASSUME Careful(start) PROVE CareInv'
    <3>1. CareInv
      BY <1>1, <2>3 DEF Inv
    <3>2. Aims' /\ NoTmps'
      BY <1>1, <2>1, <2>3, <3>1, AimsNext, NoTmpsNext DEF CareInv
    <3>3. Partials' /\ Sharers' /\ AtRest'
      BY <1>1, <2>1, <2>3, <3>1, PartialsNext, SharersNext, AtRestNext DEF CareInv
    <3>4. OwnFile' /\ OldSafe'
      BY <1>1, <2>1, <2>3, <3>1, OwnFileNext, OldSafeNext DEF CareInv
    <3>5. TmpOnly' /\ TmpHeld' /\ NoMore'
      BY <1>1, <2>1, <2>3, <3>1, TmpOnlyNext, TmpHeldNext, NoMoreNext DEF CareInv
    <3> QED BY <3>2, <3>3, <3>4, <3>5 DEF CareInv
  <2>4. Careful(start)' => Careful(start)
    BY <2>2
  <2> QED BY <2>1, <2>2, <2>3, <2>4 DEF Inv
<1>2. ASSUME Inv, UNCHANGED vars PROVE Inv'
  <2>1. /\ UNCHANGED <<start, link, data, mixed, cut, ttl, listed>>
        /\ UNCHANGED <<pc, idx, dest, fd, pos, results>>
    BY <1>2 DEF vars, disk, uploads, sweeper
  <2>2. TtlInv'
    BY <1>2, TtlNext DEF Inv
  <2>3. OneName'
    BY <1>2, <2>1 DEF Inv, OneName, IsFile
  <2>4. ASSUME Careful(start) PROVE CareInv'
    <3>1. CareInv
      BY <1>2, <2>4 DEF Inv
    <3>2. Aims' /\ NoTmps'
      BY <2>1, <3>1 DEF CareInv, Aims, Aim, NoTmps, Wanted, Req
    <3>3. Partials' /\ Sharers'
      BY <2>1, <3>1 DEF CareInv, Partials, Partial, Sharers, InHandOf, Me
    <3>4. AtRest'
      BY <2>1, <3>1 DEF CareInv, AtRest, IsFile, InHand, Whole
    <3>5. OwnFile' /\ OldSafe'
      BY <2>1, <3>1 DEF CareInv, OwnFile, OldSafe, InHandOf
    <3>6. TmpOnly' /\ TmpHeld' /\ NoMore'
      BY <2>1, <3>1 DEF CareInv, TmpOnly, TmpHeld, NoMore, InHandOf, IsFile, NotYet
    <3> QED BY <3>2, <3>3, <3>4, <3>5, <3>6 DEF CareInv
  <2>5. Careful(start)' => Careful(start)
    BY <2>1
  <2> QED BY <2>2, <2>3, <2>4, <2>5 DEF Inv
<1> QED BY <1>1, <1>2

LEMMA InvHolds == Spec => []Inv
<1>1. Init => Inv
  BY TtlInit, CareInit DEF Inv
<1> QED BY <1>1, InvNext, PTL DEF Spec

LEMMA InvShowsWholeFiles ==
  ASSUME Inv, Careful(start)
  PROVE  ShowsWholeFiles
<1>1. CareInv /\ Typed
  BY DEF Inv, TtlInv
<1>2. SUFFICES ASSUME NEW n \in Names \ Tmps, IsFile(n), link[n] \notin mixed \cup cut, ~Whole(link[n])
               PROVE  \E u \in InHand(link[n]) : link[n][1] = u /\ dest[u] \notin Tmps
  BY DEF ShowsWholeFiles
<1>3. PICK u \in InHand(link[n]) : TRUE
  BY <1>1, <1>2 DEF CareInv, AtRest
<1>4. u \in Requests /\ InHandOf(u) /\ fd[u] = link[n] /\ fd[u] \notin mixed
  BY <1>2, <1>3 DEF InHand, InHandOf, Hand
<1>5. dest[u] \notin Tmps
  BY <1>1, <1>2, <1>4 DEF CareInv, TmpOnly
<1>6. fd[u][1] = u
  BY <1>1, <1>4, <1>5 DEF CareInv, OwnFile
<1> QED BY <1>3, <1>4, <1>5, <1>6

\* Overwrites are atomic ("Atomic overwrite: write to temp, then replace",
\* file_service.py:220), for any number of requests, names, sizes and
\* crashes: if at most two overwrites go through a temporary name and nobody
\* else touches it (Careful), a name shows the whole of one upload, or a new
\* file whose own upload is under way.  Overwrites of different names, new
\* files, renames, deletes, folders, the sweep and the start are not bounded.
\* With a third overwrite of one name it is false: run files_overwrites.
THEOREM WholeFiles == Spec => [](Careful(start) => ShowsWholeFiles)
<1>1. Inv => (Careful(start) => ShowsWholeFiles)
  BY InvShowsWholeFiles
<1> QED BY <1>1, InvHolds, PTL
=============================================================================
