------------------------ MODULE ContentCache_proofs ------------------------
(***************************************************************************)
(* What the shared content cache promises, for any number of paths, files, *)
(* readers and bytes: what it holds is whole, reusing it shows neither an  *)
(* older file nor another read policy's view of it, and its list, its map  *)
(* and its byte counter agree.                                             *)
(***************************************************************************)
EXTENDS ContentCache, TLAPS, FiniteSetTheorems, SequenceTheorems

\* No step takes a version back.
VersionsGrow == \A i \in Inodes : version[i] <= version'[i]

\* The cache opens empty, with nobody in it.
LEMMA InitLemma == Init => CacheInv
  BY OutcomesAssumption DEF Init, CacheInv, TypeOK, EntryInv, CallInv, PC

\* Writes and renames take the versions away from no entry and no call.
LEMMA FileSystemLemma ==
  ASSUME CacheInv,
         NEW i \in Inodes, Write(i) \/ \E p \in Paths : Rename(p, i)
  PROVE  CacheInv'
<1>1. TypeOK /\ EntryInv /\ CallInv
  BY DEF CacheInv
<1>2. UNCHANGED <<cacheVars, pc, call>>
  BY DEF Write, Rename
<1>3. version' \in [Inodes -> Nat] /\ VersionsGrow
  BY <1>1 DEF Write, Rename, TypeOK, VersionsGrow
<1>4. name' \in [Paths -> Inodes]
  BY <1>1 DEF Write, Rename, TypeOK
<1>5. TypeOK'
  BY <1>1, <1>2, <1>3, <1>4 DEF TypeOK, cacheVars
<1>6. EntryInv'
  BY <1>1, <1>2, <1>3 DEF TypeOK, EntryInv, EntryOK, VersionsGrow, cacheVars, Entry, Info
<1>7. CallInv'
  <2>1. SUFFICES ASSUME NEW r \in Readers, call[r] # NoCall
                 PROVE  CallOK(r)'
    BY <1>2 DEF CallInv
  <2>2. call[r] \in Call
    BY <1>1, <2>1 DEF TypeOK
  <2> QED
    BY <1>1, <1>2, <1>3, <2>1, <2>2
       DEF CallInv, CallOK, VersionsGrow, TypeOK, Call, Info, Data, excluded, dropped, candidate
<1> QED
  BY <1>5, <1>6, <1>7 DEF CacheInv

\* A step of one reader that leaves the files alone keeps the invariant if it
\* keeps the types, the entries and that reader's own call.
LEMMA OneReaderLemma ==
  ASSUME CacheInv, NEW r \in Readers, UNCHANGED fsVars, TypeOK', EntryInv',
         call'[r] # NoCall => CallOK(r)',
         \A q \in Readers \ {r} : pc'[q] = pc[q] /\ call'[q] = call[q]
  PROVE  CacheInv'
<1>1. ASSUME NEW q \in Readers \ {r}, call'[q] # NoCall
      PROVE  CallOK(q)'
  BY <1>1 DEF CacheInv, CallInv, CallOK, fsVars, excluded, dropped, candidate
<1> QED
  BY <1>1 DEF CacheInv, CallInv

\* What put leaves in the map is the entry it was given or was there before.
LEMMA PutLemma ==
  ASSUME TypeOK, EntryInv, UNCHANGED version,
         NEW p \in Paths, NEW entry \in Entry, EntryOK(p, entry), put(p, entry)
  PROVE  entries' \in [Paths -> Entry \cup {NoEntry}] /\ EntryInv'
<1>1. CASE UNCHANGED cacheVars
  BY <1>1 DEF TypeOK, EntryInv, EntryOK, cacheVars
<1>2. CASE \E left, used : PushFront(p, entry, left, used)
  <2>1. entries' \in [Paths -> Entry \cup {NoEntry}]
    BY <1>2 DEF PushFront, TypeOK
  <2>2. \A q \in Paths : entries'[q] \in {entries[q], NoEntry} \/ (q = p /\ entries'[q] = entry)
    BY <1>2 DEF PushFront
  <2> QED
    BY <2>1, <2>2 DEF EntryInv, EntryOK
<1> QED
  BY <1>1, <1>2 DEF put

LEMMA OpenLemma ==
  ASSUME CacheInv, NEW r \in Readers, NEW p \in Paths, NEW src \in BOOLEAN,
         OpenFile(r, p, src)
  PROVE  CacheInv'
<1> DEFINE c == [path |-> p, source |-> src, fd |-> name[p],
                 since |-> version[name[p]], before |-> NoInfo, head |-> 0,
                 outcome |-> NoData]
<1>1. TypeOK /\ EntryInv
  BY DEF CacheInv
<1>2. c \in Call /\ name[p] \in Inodes /\ version[name[p]] \in Nat
  BY <1>1 DEF TypeOK, Call
<1>3. /\ call' = [call EXCEPT ![r] = c] /\ pc' = [pc EXCEPT ![r] = "opened"]
      /\ UNCHANGED <<fsVars, cacheVars>>
  BY DEF OpenFile
<1>4. call'[r] = c /\ pc'[r] = "opened"
  BY <1>1, <1>3 DEF TypeOK
<1>5. TypeOK'
  BY <1>1, <1>2, <1>3, AbsentAssumption DEF TypeOK, fsVars, cacheVars, PC
<1>6. EntryInv'
  BY <1>1, <1>3 DEF EntryInv, EntryOK, fsVars, cacheVars
<1>7. CallOK(r)'
  BY <1>2, <1>3, <1>4 DEF CallOK, fsVars
<1> QED
  BY <1>1, <1>3, <1>5, <1>6, <1>7, OneReaderLemma DEF TypeOK

LEMMA StatLemma ==
  ASSUME CacheInv, NEW r \in Readers, StatBefore(r)
  PROVE  CacheInv'
<1>1. TypeOK /\ EntryInv /\ CallInv
  BY DEF CacheInv
<1>2. PICK info \in {Stat(call[r].fd), NoInfo} :
         call' = [call EXCEPT ![r].before = info]
  BY DEF StatBefore
<1>3. /\ pc[r] = "opened" /\ pc' = [pc EXCEPT ![r] = "lookup"]
      /\ UNCHANGED <<fsVars, cacheVars>>
  BY DEF StatBefore
<1>4. call[r] # NoCall /\ call[r] \in Call /\ CallOK(r)
  BY <1>1, <1>3 DEF TypeOK, CallInv
<1>5. info \in Info \cup {NoInfo}
  BY <1>1, <1>4 DEF Stat, Info, TypeOK, Call
<1>6. call'[r] = [call[r] EXCEPT !.before = info] /\ call'[r] \in Call
  BY <1>1, <1>2, <1>4, <1>5 DEF TypeOK, Call
<1>7. TypeOK'
  BY <1>1, <1>2, <1>3, <1>6, AbsentAssumption DEF TypeOK, fsVars, cacheVars, PC
<1>8. EntryInv'
  BY <1>1, <1>3 DEF EntryInv, EntryOK, fsVars, cacheVars
<1>9. CallOK(r)'
  BY <1>1, <1>3, <1>4, <1>6 DEF CallOK, Stat, Call, TypeOK, fsVars
<1> QED
  BY <1>1, <1>2, <1>3, <1>7, <1>8, <1>9, OneReaderLemma DEF TypeOK

\* A hit is the entry's one version of the file the reader has open, under the
\* reader's own policy.
LEMMA HitLemma ==
  ASSUME CacheInv, NEW r \in Readers, Hit(r)
  PROVE  CacheInv'
<1> DEFINE e == entries[call[r].path]
<1>1. TypeOK /\ EntryInv /\ CallInv
  BY DEF CacheInv
<1>2. /\ pc[r] = "lookup" /\ pc' = [pc EXCEPT ![r] = "done"]
      /\ call' = [call EXCEPT ![r].outcome = e.data]
      /\ UNCHANGED <<fsVars, entries>>
      /\ e # NoEntry /\ e.source = call[r].source
      /\ call[r].before # NoInfo /\ e.info = call[r].before
  BY DEF Hit, ReturnOutcome, get, sameFileVersion
<1>3. call[r] # NoCall /\ call[r] \in Call /\ CallOK(r)
  BY <1>1, <1>2 DEF TypeOK, CallInv
<1>4. e \in Entry /\ EntryOK(call[r].path, e)
  BY <1>1, <1>2, <1>3 DEF TypeOK, EntryInv, Call
<1>5. e.data \in Data /\ e.data # Excluded
  BY <1>4, OutcomesAssumption DEF Entry
<1>6. call'[r] = [call[r] EXCEPT !.outcome = e.data] /\ call'[r] \in Call
  BY <1>1, <1>2, <1>3, <1>5 DEF TypeOK, Call
<1>7. TypeOK'
  BY <1>1, <1>2, <1>6, AbsentAssumption DEF TypeOK, fsVars, PC
<1>8. EntryInv'
  BY <1>1, <1>2 DEF EntryInv, EntryOK, fsVars
<1>9. CallOK(r)'
  <2>1. ~excluded(r)'
    BY <1>2, <1>3, <1>4, <1>6 DEF CallOK, EntryOK, excluded, dropped, candidate, Call
  <2>2. e.info = call[r].before /\ e.info \in Info /\ e.info.inode = call[r].fd
    BY <1>2, <1>3, <1>4 DEF CallOK, Entry
  <2>3. /\ e.data.inode = call[r].fd
        /\ e.data.part = partRead(call[r].path, call[r].fd)
        /\ e.data.head = e.info.version /\ e.data.tail = e.info.version
    BY <1>4, <2>2 DEF EntryOK, contentOf
  <2>4. call[r].since <= e.info.version
    BY <1>2, <1>3, <2>2 DEF CallOK
  <2> QED
    BY <1>2, <1>3, <1>5, <1>6, <2>1, <2>3, <2>4, <1>1 DEF CallOK, Call, TypeOK, fsVars
<1> QED
  BY <1>1, <1>2, <1>7, <1>8, <1>9, OneReaderLemma DEF TypeOK

LEMMA MissLemma ==
  ASSUME CacheInv, NEW r \in Readers, Miss(r)
  PROVE  CacheInv'
<1>1. TypeOK /\ EntryInv /\ CallInv
  BY DEF CacheInv
<1>2. /\ pc[r] = "lookup" /\ pc' = [pc EXCEPT ![r] = "prefix"]
      /\ UNCHANGED <<fsVars, cacheVars, call>>
  BY DEF Miss
<1>3. TypeOK'
  BY <1>1, <1>2 DEF TypeOK, fsVars, cacheVars, PC
<1>4. EntryInv'
  BY <1>1, <1>2 DEF EntryInv, EntryOK, fsVars, cacheVars
<1>5. call[r] # NoCall => CallOK(r)'
  BY <1>1, <1>2 DEF CallInv, CallOK, TypeOK, fsVars
<1> QED
  BY <1>1, <1>2, <1>3, <1>4, <1>5, OneReaderLemma DEF TypeOK

\* A reader that leaves takes its call with it.
LEMMA LeaveLemma ==
  ASSUME CacheInv, NEW r \in Readers, Leave(r), TypeOK', EntryInv'
  PROVE  CacheInv'
<1>1. call'[r] = NoCall /\ UNCHANGED fsVars
  BY DEF Leave, CacheInv, TypeOK
<1>2. \A q \in Readers \ {r} : pc'[q] = pc[q] /\ call'[q] = call[q]
  BY DEF Leave, CacheInv, TypeOK
<1> QED
  BY <1>1, <1>2, OneReaderLemma

LEMMA AwayLemma ==
  ASSUME CacheInv, NEW r \in Readers, ReadFails(r) \/ Return(r)
  PROVE  CacheInv'
<1>1. TypeOK /\ EntryInv
  BY DEF CacheInv
<1>2. Leave(r) /\ UNCHANGED cacheVars
  BY DEF ReadFails, Return
<1>3. TypeOK'
  BY <1>1, <1>2 DEF TypeOK, Leave, fsVars, cacheVars, PC
<1>4. EntryInv'
  BY <1>1, <1>2 DEF EntryInv, EntryOK, Leave, fsVars, cacheVars
<1> QED
  BY <1>2, <1>3, <1>4, LeaveLemma

LEMMA ExcludeLemma ==
  ASSUME CacheInv, NEW r \in Readers, Exclude(r)
  PROVE  CacheInv'
<1>1. TypeOK /\ EntryInv /\ CallInv
  BY DEF CacheInv
<1>2. /\ pc[r] = "prefix" /\ excluded(r) /\ pc' = [pc EXCEPT ![r] = "done"]
      /\ call' = [call EXCEPT ![r].outcome = Excluded]
      /\ UNCHANGED <<fsVars, cacheVars>>
  BY DEF Exclude, ReturnOutcome
<1>3. call[r] # NoCall /\ call[r] \in Call /\ CallOK(r)
  BY <1>1, <1>2 DEF TypeOK, CallInv
<1>4. call'[r] = [call[r] EXCEPT !.outcome = Excluded] /\ call'[r] \in Call
  BY <1>1, <1>2, <1>3 DEF TypeOK, Call
<1>5. TypeOK'
  BY <1>1, <1>2, <1>4, AbsentAssumption DEF TypeOK, fsVars, cacheVars, PC
<1>6. EntryInv'
  BY <1>1, <1>2 DEF EntryInv, EntryOK, fsVars, cacheVars
<1>7. excluded(r)'
  BY <1>2, <1>3, <1>4 DEF excluded, dropped, candidate, Call
<1>8. CallOK(r)'
  BY <1>1, <1>2, <1>3, <1>4, <1>7 DEF CallOK, TypeOK, Call, fsVars
<1> QED
  BY <1>1, <1>2, <1>5, <1>6, <1>8, OneReaderLemma DEF TypeOK

LEMMA PrefixLemma ==
  ASSUME CacheInv, NEW r \in Readers, ReadPrefix(r)
  PROVE  CacheInv'
<1> DEFINE fd == call[r].fd
           data == contentOf(fd, "prefix", version[fd], version[fd])
<1>1. TypeOK /\ EntryInv /\ CallInv
  BY DEF CacheInv
<1>2. pc[r] = "prefix" /\ ~excluded(r) /\ UNCHANGED <<fsVars, cacheVars>>
  BY DEF ReadPrefix
<1>3. call[r] # NoCall /\ call[r] \in Call /\ CallOK(r)
  BY <1>1, <1>2 DEF TypeOK, CallInv
<1>4. EntryInv'
  BY <1>1, <1>2 DEF EntryInv, EntryOK, fsVars, cacheVars
<1>5. CASE partRead(call[r].path, fd) = "prefix"
  <2>1. /\ pc' = [pc EXCEPT ![r] = "store"]
        /\ call' = [call EXCEPT ![r].head = version[fd], ![r].outcome = data]
    BY <1>5 DEF ReadPrefix
  <2>2. data \in Data /\ version[fd] \in Nat
    BY <1>1, <1>3 DEF Data, contentOf, Call, TypeOK
  <2>3. /\ call'[r] = [call[r] EXCEPT !.head = version[fd], !.outcome = data]
        /\ call'[r] \in Call /\ call'[r].outcome = data
    BY <1>1, <1>3, <2>1, <2>2 DEF TypeOK, Call
  <2>4. TypeOK'
    BY <1>1, <1>2, <2>1, <2>2, <2>3, AbsentAssumption DEF TypeOK, fsVars, cacheVars, PC
  <2>5. ~excluded(r)'
    BY <1>2, <1>3, <2>3 DEF excluded, dropped, candidate, Call
  <2>6. CallOK(r)'
    BY <1>1, <1>2, <1>3, <1>5, <2>1, <2>2, <2>3, <2>5
       DEF CallOK, TypeOK, Call, contentOf, fsVars
  <2> QED
    BY <1>1, <1>2, <1>4, <2>1, <2>4, <2>6, OneReaderLemma DEF TypeOK
<1>6. CASE partRead(call[r].path, fd) # "prefix"
  <2>1. /\ pc' = [pc EXCEPT ![r] = "rest"]
        /\ call' = [call EXCEPT ![r].head = version[fd]]
    BY <1>6 DEF ReadPrefix
  <2>2. /\ call'[r] = [call[r] EXCEPT !.head = version[fd]]
        /\ call'[r] \in Call
    BY <1>1, <1>3, <2>1 DEF TypeOK, Call
  <2>3. TypeOK'
    BY <1>1, <1>2, <2>1, <2>2, AbsentAssumption DEF TypeOK, fsVars, cacheVars, PC
  <2>4. ~excluded(r)' /\ partRead(call[r].path, call[r].fd) = "whole"
    BY <1>2, <1>3, <1>6, <2>2 DEF excluded, dropped, candidate, Call, partRead
  <2>5. CallOK(r)'
    BY <1>1, <1>2, <1>3, <2>1, <2>2, <2>4 DEF CallOK, TypeOK, Call, fsVars
  <2> QED
    BY <1>1, <1>2, <1>4, <2>1, <2>3, <2>5, OneReaderLemma DEF TypeOK
<1> QED
  BY <1>5, <1>6

LEMMA RestLemma ==
  ASSUME CacheInv, NEW r \in Readers, ReadRest(r)
  PROVE  CacheInv'
<1> DEFINE fd == call[r].fd
           data == contentOf(fd, "whole", call[r].head, version[fd])
<1>1. TypeOK /\ EntryInv /\ CallInv
  BY DEF CacheInv
<1>2. /\ pc[r] = "rest" /\ pc' = [pc EXCEPT ![r] = "store"]
      /\ call' = [call EXCEPT ![r].outcome = data]
      /\ UNCHANGED <<fsVars, cacheVars>>
  BY DEF ReadRest
<1>3. call[r] # NoCall /\ call[r] \in Call /\ CallOK(r)
  BY <1>1, <1>2 DEF TypeOK, CallInv
<1>4. data \in Data
  BY <1>1, <1>3 DEF Data, contentOf, Call, TypeOK
<1>5. /\ call'[r] = [call[r] EXCEPT !.outcome = data]
      /\ call'[r] \in Call /\ call'[r].outcome = data
  BY <1>1, <1>2, <1>3, <1>4 DEF TypeOK, Call
<1>6. TypeOK'
  BY <1>1, <1>2, <1>4, <1>5, AbsentAssumption DEF TypeOK, fsVars, cacheVars, PC
<1>7. EntryInv'
  BY <1>1, <1>2 DEF EntryInv, EntryOK, fsVars, cacheVars
<1>8. ~excluded(r)'
  BY <1>2, <1>3, <1>5 DEF CallOK, excluded, dropped, candidate, Call
<1>9. CallOK(r)'
  BY <1>1, <1>2, <1>3, <1>5, <1>8 DEF CallOK, TypeOK, Call, contentOf, fsVars
<1> QED
  BY <1>1, <1>2, <1>6, <1>7, <1>9, OneReaderLemma DEF TypeOK

\* The file is at one version before and after the read, and versions only
\* grow: both halves are that version's.
LEMMA StoreLemma ==
  ASSUME CacheInv, NEW r \in Readers, StoreContent(r)
  PROVE  CacheInv'
<1>1. TypeOK /\ EntryInv /\ CallInv
  BY DEF CacheInv
<1>2. pc[r] = "store" /\ Leave(r)
  BY DEF StoreContent
<1>3. call[r] # NoCall /\ call[r] \in Call /\ CallOK(r) /\ call[r].outcome \in Data
  BY <1>1, <1>2 DEF TypeOK, CallInv
<1>4. PICK after \in {Stat(call[r].fd), NoInfo} : StatAfter(r, after)
  BY DEF StoreContent
<1>5. entries' \in [Paths -> Entry \cup {NoEntry}] /\ EntryInv'
  <2>1. CASE UNCHANGED cacheVars
    BY <1>1, <1>2, <2>1 DEF TypeOK, EntryInv, EntryOK, Leave, fsVars, cacheVars
  <2>2. CASE /\ sameFileVersion(call[r].before, after)
             /\ put(call[r].path, entryOf(r, after))
    <3>1. after = Stat(call[r].fd) /\ call[r].before = after /\ after \in Info
      BY <1>1, <1>3, <1>4, <2>2 DEF sameFileVersion, Stat, Info, Call, TypeOK
    <3>2. entryOf(r, after) \in Entry
      BY <1>3, <3>1 DEF entryOf, Entry, Call
    <3>3. /\ call[r].outcome.inode = after.inode
          /\ call[r].outcome.part = partRead(call[r].path, after.inode)
          /\ call[r].outcome.head = after.version
          /\ call[r].outcome.tail = after.version
      BY <1>1, <1>2, <1>3, <3>1, AbsentAssumption
         DEF CallOK, Stat, Call, Data, Info, TypeOK
    <3>4. call[r].outcome = contentOf(after.inode, partRead(call[r].path, after.inode),
                                      after.version, after.version)
      BY <1>3, <3>3 DEF Data, contentOf
    <3>5. ~dropped(call[r].path, call[r].source, call[r].fd, candidate(call[r].path, after))
      BY <1>2, <1>3, <3>1 DEF CallOK, excluded
    <3>6. EntryOK(call[r].path, entryOf(r, after))
      BY <1>1, <1>3, <3>1, <3>4, <3>5 DEF EntryOK, entryOf, Stat, TypeOK, Call
    <3> QED
      BY <1>1, <1>2, <1>3, <2>2, <3>2, <3>6, PutLemma DEF Leave, fsVars, Call
  <2> QED
    BY <1>4, <2>1, <2>2 DEF StatAfter
<1>6. TypeOK'
  BY <1>1, <1>2, <1>5 DEF TypeOK, Leave, fsVars, PC
<1> QED
  BY <1>2, <1>5, <1>6, LeaveLemma

THEOREM Invariance == Spec => []CacheInv
<1>1. CacheInv /\ [Next]_vars => CacheInv'
  <2> SUFFICES ASSUME CacheInv, [Next]_vars PROVE CacheInv'
    OBVIOUS
  <2>1. CASE UNCHANGED vars
    BY <2>1 DEF vars, fsVars, cacheVars, CacheInv, TypeOK, EntryInv, EntryOK,
                CallInv, CallOK, excluded, dropped, candidate
  <2>2. CASE \E i \in Inodes : Write(i)
    BY <2>2, FileSystemLemma
  <2>3. CASE \E p \in Paths, i \in Inodes : Rename(p, i)
    BY <2>3, FileSystemLemma
  <2>4. ASSUME NEW r \in Readers, Reader(r)
        PROVE  CacheInv'
    BY <2>4, OpenLemma, StatLemma, HitLemma, MissLemma, AwayLemma,
       ExcludeLemma, PrefixLemma, RestLemma, StoreLemma DEF Reader
  <2> QED
    BY <2>1, <2>2, <2>3, <2>4 DEF Next
<1> QED
  BY InitLemma, <1>1, PTL DEF Spec

\* What is cached is one version of one file, whole (readCachedContent).
THEOREM CacheHoldsWholeFiles == Spec => []CacheIsWhole
<1>1. CacheInv => CacheIsWhole
  <2> SUFFICES ASSUME CacheInv, NEW p \in Paths, entries[p] # NoEntry
               PROVE  /\ entries[p].data.inode = entries[p].info.inode
                      /\ entries[p].data.head = entries[p].info.version
                      /\ entries[p].data.tail = entries[p].info.version
    BY Zenon DEF CacheIsWhole
  <2>1. entries[p].data = [inode |-> entries[p].info.inode,
                           part |-> partRead(p, entries[p].info.inode),
                           head |-> entries[p].info.version,
                           tail |-> entries[p].info.version]
    BY Zenon DEF CacheInv, EntryInv, EntryOK, contentOf
  <2> QED
    BY <2>1
<1> QED
  BY Invariance, <1>1, PTL

\* Reuse never shows a reader an older file (sameFileVersion in get).
THEOREM ReuseIsFresh == Spec => []ReadsAreFresh
<1>1. CacheInv => ReadsAreFresh
  <2> SUFFICES ASSUME CacheInv, NEW r \in Readers, pc[r] \in {"store", "done"},
                      call[r].outcome # Excluded
               PROVE  /\ call[r].outcome.inode = call[r].fd
                      /\ call[r].outcome.head >= call[r].since
                      /\ call[r].outcome.tail >= call[r].since
    BY DEF ReadsAreFresh
  <2>1. call[r] \in Call /\ CallOK(r)
    BY DEF CacheInv, TypeOK, CallInv
  <2>2. call[r].outcome \in Data
    BY <2>1 DEF CacheInv, TypeOK, CallOK
  <2> QED
    BY <2>1, <2>2 DEF CallOK, Call, Data, CacheInv, TypeOK
<1> QED
  BY Invariance, <1>1, PTL

\* A reader is never told that a file is excluded which its own read would have
\* kept, nor given what that read would have dropped, nor more or less of the
\* file than it would have taken (the policy in get, readScanContent).
THEOREM ReuseKeepsPolicy == Spec => []PolicyIsKept
<1>1. CacheInv => PolicyIsKept
  <2> SUFFICES ASSUME CacheInv, NEW r \in Readers, pc[r] \in {"store", "done"}
               PROVE  /\ call[r].outcome = Excluded <=> excluded(r)
                      /\ call[r].outcome # Excluded =>
                            call[r].outcome.part = partRead(call[r].path, call[r].fd)
    BY DEF PolicyIsKept
  <2>1. call[r] # NoCall /\ CallOK(r)
    BY DEF CacheInv, TypeOK, CallInv
  <2>2. CASE pc[r] = "store"
    BY <2>1, <2>2, OutcomesAssumption DEF CacheInv, TypeOK, CallOK
  <2>3. CASE pc[r] = "done"
    BY <2>1, <2>3 DEF CallOK
  <2> QED
    BY <2>2, <2>3
<1> QED
  BY Invariance, <1>1, PTL

-----------------------------------------------------------------------------
(* The cache's accounting: the list and the map hold the same paths, and   *)
(* the counter is what they hold.                                          *)

\* The bytes a map holds for some paths, one by one.
Held(e, ps) == UNION {{p} \X (1..size(e[p].data)) : p \in ps}

\* A list that names every path of a set once.
Lists(s, ps) ==
    /\ s \in Seq(Paths)
    /\ \A i, j \in 1..Len(s) : s[i] = s[j] => i = j
    /\ ToSet(s) = ps

OrderInv ==
    /\ Lists(order, cached)
    /\ bytes = bytesOf(cached)
    /\ bytes <= Capacity

\* A set of numbers up to a bound has a largest one: the sets n..N are finite,
\* and a smallest of them belongs to it.
LEMMA LargestLemma ==
  ASSUME NEW N \in Nat, NEW T \in SUBSET (0..N), T # {}
  PROVE  Max(T) \in T
<1> DEFINE D == {S \in SUBSET (0..N) : \E n \in T : S = n..N}
<1>1. IsFiniteSet(0..N)
  BY FS_Interval
<1>2. FiniteSubsetsOf(0..N) = SUBSET (0..N)
  BY <1>1, FS_FiniteSubsetsOfFinite
<1>3. IsWellFoundedOn(StrictSubsetOrdering(0..N), SUBSET (0..N))
  BY <1>2, FS_StrictSubsetOrderingWellFounded
<1>4. D # {} /\ D \subseteq SUBSET (0..N)
  <2>1. PICK n \in T : TRUE
    OBVIOUS
  <2>2. n..N \in D
    BY <2>1
  <2> QED
    BY <2>2
<1>5. PICK S \in D : \A U \in D : ~(<<U, S>> \in StrictSubsetOrdering(0..N))
  <2> HIDE DEF D
  <2> QED
    BY <1>3, <1>4, WFMin
<1>6. PICK n \in T : S = n..N
  OBVIOUS
<1>7. ASSUME NEW m \in T, m > n PROVE FALSE
  <2>1. m..N \in D /\ m..N \subseteq n..N /\ n \in n..N /\ n \notin m..N
    BY <1>7
  <2> QED
    BY <1>5, <1>6, <2>1 DEF StrictSubsetOrdering
<1>8. \A m \in T : n >= m
  BY <1>7
<1> QED
  BY <1>8 DEF Max

\* What is held for finitely many entries is finite.
LEMMA HeldLemma ==
  ASSUME NEW e, NEW ps, IsFiniteSet(ps), \A p \in ps : e[p] \in Entry
  PROVE  IsFiniteSet(Held(e, ps)) /\ Cardinality(Held(e, ps)) \in Nat
<1> DEFINE f == [p \in ps |-> {p} \X (1..size(e[p].data))]
           T == {f[p] : p \in ps}
<1>1. f \in Surjection(ps, T)
  BY DEF Surjection
<1>2. IsFiniteSet(T)
  <2> HIDE DEF f, T
  <2> QED
    BY <1>1, FS_Surjection
<1>3. ASSUME NEW p \in ps PROVE IsFiniteSet(f[p])
  <2>1. size(e[p].data) \in Nat
    BY LengthAssumption, PrefixAssumption DEF Entry, Data, size
  <2>2. IsFiniteSet(1..size(e[p].data))
    BY <2>1, FS_Interval
  <2>3. IsFiniteSet({p})
    BY FS_Singleton
  <2> QED
    BY <2>2, <2>3, FS_Product
<1>4. \A X \in T : IsFiniteSet(X)
  BY <1>3
<1>5. IsFiniteSet(UNION T)
  <2> HIDE DEF T
  <2> QED
    BY <1>2, <1>4, FS_UNION
<1>6. Held(e, ps) = UNION T
  BY DEF Held
<1> QED
  BY <1>5, <1>6, FS_CardinalityType

\* For one path it is as much as its file is long.
LEMMA HeldOneLemma ==
  ASSUME NEW e, NEW p, e[p] \in Entry
  PROVE  /\ Cardinality(Held(e, {p})) = size(e[p].data)
         /\ size(e[p].data) \in Nat
<1>1. PICK n : n = size(e[p].data)
  OBVIOUS
<1>2. n \in Nat
  BY <1>1, LengthAssumption, PrefixAssumption DEF Entry, Data, size
<1>3. IsFiniteSet(1..n) /\ Cardinality(1..n) = n
  BY <1>2, FS_Interval
<1>4. IsFiniteSet({p}) /\ Cardinality({p}) = 1
  BY FS_Singleton
<1>5. Cardinality({p} \X (1..n)) = 1 * n
  BY <1>3, <1>4, FS_Product
<1>6. Held(e, {p}) = {p} \X (1..n)
  BY <1>1 DEF Held
<1>7. 1 * n = n
  BY <1>2
<1> QED
  BY Zenon, <1>1, <1>2, <1>5, <1>6, <1>7

\* What is held for disjoint sets of paths adds up.
LEMMA HeldUnionLemma ==
  ASSUME NEW e, NEW A, NEW B, IsFiniteSet(A), IsFiniteSet(B), A \cap B = {},
         \A p \in A \cup B : e[p] \in Entry
  PROVE  Cardinality(Held(e, A \cup B)) =
            Cardinality(Held(e, A)) + Cardinality(Held(e, B))
<1>1. Held(e, A \cup B) = Held(e, A) \cup Held(e, B)
  BY DEF Held
<1>2. Held(e, A) \cap Held(e, B) = {}
  BY DEF Held
<1>3. /\ IsFiniteSet(Held(e, A)) /\ Cardinality(Held(e, A)) \in Nat
      /\ IsFiniteSet(Held(e, B)) /\ Cardinality(Held(e, B)) \in Nat
  BY HeldLemma
<1>4. PICK X, Y : X = Held(e, A) /\ Y = Held(e, B)
  OBVIOUS
<1>5. /\ IsFiniteSet(X) /\ Cardinality(X) \in Nat
      /\ IsFiniteSet(Y) /\ Cardinality(Y) \in Nat
      /\ X \cap Y = {} /\ Held(e, A \cup B) = X \cup Y
  BY Zenon, <1>1, <1>2, <1>3, <1>4
<1>6. Cardinality(X \cap Y) = 0
  BY Zenon, <1>5, FS_EmptySet
<1>7. Cardinality(X \cup Y) = Cardinality(X) + Cardinality(Y) - Cardinality(X \cap Y)
  BY <1>5, FS_Union
<1>8. Cardinality(X \cup Y) = Cardinality(X) + Cardinality(Y)
  BY <1>5, <1>6, <1>7
<1> QED
  BY Zenon, <1>4, <1>5, <1>8

\* It is no matter what else a map holds.
LEMMA HeldSameLemma ==
  ASSUME NEW e, NEW g, NEW ps, \A p \in ps : e[p] = g[p]
  PROVE  Held(e, ps) = Held(g, ps)
BY DEF Held

\* A list without repetitions is as long as its set is large.
LEMMA ListsLemma ==
  ASSUME NEW s, NEW ps, Lists(s, ps)
  PROVE  IsFiniteSet(ps) /\ Cardinality(ps) = Len(s)
<1>1. /\ Len(s) \in Nat /\ s \in [1..Len(s) -> Paths]
      /\ \A i, j \in 1..Len(s) : s[i] = s[j] => i = j
      /\ ps = {s[i] : i \in 1..Len(s)}
  BY DEF Lists, ToSet
<1>2. s \in Bijection(1..Len(s), ps)
  BY <1>1 DEF Bijection, Injection, Surjection, IsInjective
<1>3. ExistsBijection(1..Len(s), ps)
  BY <1>2 DEF ExistsBijection
<1>4. IsFiniteSet(1..Len(s)) /\ Cardinality(1..Len(s)) = Len(s)
  BY <1>1, FS_Interval
<1> QED
  BY <1>3, <1>4, FS_Bijection

\* A list less one element names the others.
LEMMA RemoveLemma ==
  ASSUME NEW s, NEW ps, Lists(s, ps), NEW k \in 1..Len(s)
  PROVE  Lists(RemoveAt(s, k), ps \ {s[k]})
<1>1. /\ s \in Seq(Paths) /\ Len(s) \in Nat
      /\ \A i, j \in 1..Len(s) : s[i] = s[j] => i = j
      /\ ps = {s[i] : i \in 1..Len(s)}
  BY DEF Lists, ToSet
<1> DEFINE a == SubSeq(s, 1, k - 1)
           b == SubSeq(s, k + 1, Len(s))
           t == a \o b
<1>2. a \in Seq(Paths) /\ Len(a) = k - 1 /\ \A i \in 1..(k - 1) : a[i] = s[i]
  BY <1>1, SubSeqProperties
<1>3. /\ b \in Seq(Paths) /\ Len(b) = Len(s) - k
      /\ \A i \in 1..(Len(s) - k) : b[i] = s[k + i]
  BY <1>1, SubSeqProperties
<1> HIDE DEF a, b
<1>4. /\ t \in Seq(Paths) /\ Len(t) = Len(s) - 1
      /\ \A i \in 1..(Len(s) - 1) : t[i] = IF i < k THEN s[i] ELSE s[i + 1]
  <2>1. /\ t \in Seq(Paths) /\ Len(t) = Len(a) + Len(b)
        /\ \A i \in 1..Len(a) + Len(b) :
              t[i] = IF i <= Len(a) THEN a[i] ELSE b[i - Len(a)]
    BY <1>2, <1>3, ConcatProperties
  <2> HIDE DEF t
  <2>2. Len(t) = Len(s) - 1
    BY <1>1, <1>2, <1>3, <2>1
  <2>3. ASSUME NEW i \in 1..(Len(s) - 1)
        PROVE  t[i] = IF i < k THEN s[i] ELSE s[i + 1]
    <3>1. t[i] = IF i <= k - 1 THEN a[i] ELSE b[i - (k - 1)]
      BY <1>1, <1>2, <1>3, <2>1, <2>2
    <3>2. CASE i < k
      BY <1>1, <1>2, <3>1, <3>2
    <3>3. CASE ~(i < k)
      <4>1. i - (k - 1) \in 1..(Len(s) - k) /\ k + (i - (k - 1)) = i + 1
        BY <1>1, <3>3
      <4>2. b[i - (k - 1)] = s[k + (i - (k - 1))]
        BY <1>3, <4>1
      <4>3. t[i] = b[i - (k - 1)]
        BY <1>1, <3>1, <3>3
      <4> QED
        BY <3>3, <4>1, <4>2, <4>3
    <3> QED
      BY <3>2, <3>3
  <2> QED
    BY <2>1, <2>2, <2>3
<1> HIDE DEF t
<1>5. \A i, j \in 1..Len(t) : t[i] = t[j] => i = j
  BY <1>1, <1>4
<1>6. \A i \in 1..Len(t) : t[i] \in ps \ {s[k]}
  BY <1>1, <1>4
<1>7. ASSUME NEW i \in 1..Len(s), s[i] # s[k]
      PROVE  \E j \in 1..Len(t) : t[j] = s[i]
  <2>1. CASE i < k
    <3>1. i \in 1..Len(t) /\ t[i] = s[i]
      BY <1>1, <1>4, <2>1
    <3> QED
      BY <3>1
  <2>2. CASE i > k
    <3>1. i - 1 \in 1..Len(t) /\ t[i - 1] = s[i]
      BY <1>1, <1>4, <2>2
    <3> QED
      BY <3>1
  <2>3. i # k
    BY <1>7
  <2> QED
    BY <1>1, <2>1, <2>2, <2>3
<1>8. ToSet(t) = ps \ {s[k]}
  <2>1. ToSet(t) = {t[i] : i \in 1..Len(t)}
    BY <1>4 DEF ToSet
  <2>2. ps \ {s[k]} \subseteq {t[i] : i \in 1..Len(t)}
    <3>1. SUFFICES ASSUME NEW q \in ps \ {s[k]}
                   PROVE  \E j \in 1..Len(t) : t[j] = q
      OBVIOUS
    <3>2. PICK i \in 1..Len(s) : q = s[i]
      BY <1>1
    <3> QED
      BY Zenon, <1>7, <3>1, <3>2
  <2> QED
    BY Zenon, <1>6, <2>1, <2>2
<1>9. RemoveAt(s, k) = t
  BY DEF RemoveAt, t, a, b
<1> QED
  BY <1>4, <1>5, <1>8, <1>9 DEF Lists

\* The front of a list and the rest of it share its paths out.
LEMMA SplitLemma ==
  ASSUME NEW s, NEW ps, Lists(s, ps), NEW k \in 0..Len(s)
  PROVE  LET front == SubSeq(s, 1, k)
             back == {s[j] : j \in (k + 1)..Len(s)}
         IN  /\ Lists(front, ToSet(front))
             /\ ToSet(front) \cup back = ps
             /\ ToSet(front) \cap back = {}
<1> DEFINE front == SubSeq(s, 1, k)
           back == {s[j] : j \in (k + 1)..Len(s)}
<1>1. /\ s \in Seq(Paths) /\ Len(s) \in Nat
      /\ \A i, j \in 1..Len(s) : s[i] = s[j] => i = j
      /\ ps = {s[i] : i \in 1..Len(s)}
  BY DEF Lists, ToSet
<1>2. front \in Seq(Paths) /\ Len(front) = k /\ \A i \in 1..k : front[i] = s[i]
  BY <1>1, SubSeqProperties
<1> HIDE DEF front
<1>3. ToSet(front) = {s[i] : i \in 1..k}
  BY <1>1, <1>2 DEF ToSet
<1>4. Lists(front, ToSet(front))
  BY <1>1, <1>2 DEF Lists
<1>5. ToSet(front) \cup back = ps
  BY <1>1, <1>3
<1>6. ToSet(front) \cap back = {}
  BY <1>1, <1>3
<1> QED
  BY <1>4, <1>5, <1>6 DEF front

\* A path that a list does not name may be put before it.
LEMMA FrontLemma ==
  ASSUME NEW s, NEW ps, Lists(s, ps), NEW p \in Paths \ ps
  PROVE  Lists(<<p>> \o s, {p} \cup ps)
<1> DEFINE t == <<p>> \o s
<1>1. /\ s \in Seq(Paths) /\ Len(s) \in Nat
      /\ \A i, j \in 1..Len(s) : s[i] = s[j] => i = j
      /\ ps = {s[i] : i \in 1..Len(s)}
  BY DEF Lists, ToSet
<1>2. /\ t \in Seq(Paths) /\ Len(t) = Len(s) + 1
      /\ t[1] = p /\ \A i \in 1..Len(s) : t[i + 1] = s[i]
  BY <1>1
<1> HIDE DEF t
<1>3. \A i \in 1..Len(t) : i = 1 \/ (i - 1 \in 1..Len(s) /\ t[i] = s[i - 1])
  <2>1. SUFFICES ASSUME NEW i \in 1..Len(t), i # 1
                 PROVE  i - 1 \in 1..Len(s) /\ t[i] = s[i - 1]
    OBVIOUS
  <2>2. i - 1 \in 1..Len(s)
    BY <1>1, <1>2, <2>1
  <2>3. t[(i - 1) + 1] = s[i - 1]
    BY <1>2, <2>2
  <2> QED
    BY <2>2, <2>3
<1>4. ASSUME NEW i \in 1..Len(t), NEW j \in 1..Len(t), t[i] = t[j]
      PROVE  i = j
  <2>1. CASE i = 1 \/ j = 1
    <3>1. \A m \in 1..Len(t) : m # 1 => t[m] # p
      BY <1>1, <1>3
    <3> QED
      BY <1>2, <1>4, <2>1, <3>1
  <2>2. CASE i # 1 /\ j # 1
    <3>1. /\ i - 1 \in 1..Len(s) /\ t[i] = s[i - 1]
          /\ j - 1 \in 1..Len(s) /\ t[j] = s[j - 1]
      BY <1>3, <2>2
    <3>2. i - 1 = j - 1
      BY <1>1, <1>4, <3>1
    <3> QED
      BY <1>2, <3>2
  <2> QED
    BY <2>1, <2>2
<1>5. ToSet(t) = {p} \cup ps
  <2>1. ToSet(t) = {t[i] : i \in 1..Len(t)}
    BY <1>2 DEF ToSet
  <2>2. \A i \in 1..Len(t) : t[i] \in {p} \cup ps
    BY <1>1, <1>2, <1>3
  <2>3. \A i \in 1..Len(s) : \E j \in 1..Len(t) : t[j] = s[i]
    <3>1. \A i \in 1..Len(s) : i + 1 \in 1..Len(t) /\ t[i + 1] = s[i]
      BY <1>1, <1>2
    <3> QED
      BY <3>1
  <2>4. 1 \in 1..Len(t) /\ t[1] = p
    BY <1>1, <1>2
  <2>5. ps \subseteq {t[i] : i \in 1..Len(t)}
    <3>1. SUFFICES ASSUME NEW q \in ps
                   PROVE  \E j \in 1..Len(t) : t[j] = q
      OBVIOUS
    <3>2. PICK i \in 1..Len(s) : q = s[i]
      BY <1>1
    <3> QED
      BY Zenon, <2>3, <3>1, <3>2
  <2> QED
    BY Zenon, <2>1, <2>2, <2>4, <2>5
<1> QED
  BY <1>2, <1>4, <1>5 DEF Lists, t

\* Taking a path out of the list leaves the other cached paths in it.
LEMMA WithoutLemma ==
  ASSUME Lists(order, cached), NEW p \in Paths
  PROVE  Lists(without(p), cached \ {p})
<1>1. CASE p \in cached
  <2>1. \E k \in 1..Len(order) : order[k] = p
    BY <1>1 DEF Lists, ToSet
  <2>2. DOMAIN order = 1..Len(order)
    BY DEF Lists
  <2>3. PICK k \in 1..Len(order) :
           order[k] = p /\ without(p) = RemoveAt(order, k)
    BY <1>1, <2>1, <2>2 DEF without
  <2> QED
    BY <2>3, RemoveLemma
<1>2. CASE p \notin cached
  <2>1. cached \ {p} = cached /\ without(p) = order
    BY <1>2 DEF without
  <2> QED
    BY <2>1
<1> QED
  BY <1>1, <1>2

\* What is evicted is what the back of the list held, and what is left fits.
LEMMA PushLemma ==
  ASSUME TypeOK, NEW p \in Paths, NEW entry \in Entry, NEW left, NEW used,
         Lists(left, cached \ {p}), used = bytesOf(cached \ {p}),
         PushFront(p, entry, left, used)
  PROVE  OrderInv'
<1> DEFINE n == size(entry.data)
           keeps == evict(left, used, n)
<1>1. PICK k : k = Max(keeps)
  OBVIOUS
<1> DEFINE front == SubSeq(left, 1, k)
           kept == ToSet(front)
           back == {left[j] : j \in (k + 1)..Len(left)}
<1>2. k \in 0..Len(left) /\ used - bytesOf(back) + n <= Capacity
  <2>1. Len(left) \in Nat
    BY DEF Lists
  <2>2. keeps # {} /\ keeps \in SUBSET (0..Len(left))
    BY DEF PushFront, evict, fitting
  <2>3. Max(keeps) \in keeps
    <3> HIDE DEF keeps
    <3> QED
      BY <2>1, <2>2, LargestLemma
  <2> QED
    BY <1>1, <2>3 DEF evict, fitting, droppedBytes
<1>3. /\ entries' = [q \in Paths |-> IF q = p THEN entry
                                     ELSE IF q \in kept THEN entries[q]
                                     ELSE NoEntry]
      /\ order' = <<p>> \o front
      /\ bytes' = used - bytesOf(back) + n
  BY <1>1 DEF PushFront, droppedBytes
<1>4. Lists(front, kept) /\ kept \cup back = cached \ {p} /\ kept \cap back = {}
  BY <1>2, SplitLemma
<1> HIDE DEF front, back, n
<1>5. /\ \A q \in kept \cup back : q \in Paths /\ q # p /\ entries[q] \in Entry
      /\ IsFiniteSet(kept) /\ IsFiniteSet(back)
  <2>1. \A q \in kept \cup back : q \in Paths /\ q # p /\ entries[q] \in Entry
    BY <1>4 DEF cached, TypeOK
  <2>2. IsFiniteSet(kept) /\ IsFiniteSet(cached \ {p})
    BY <1>4, ListsLemma
  <2>3. back \in SUBSET (cached \ {p})
    BY <1>4
  <2> HIDE DEF kept
  <2> QED
    BY <2>1, <2>2, <2>3, FS_Subset
<1> HIDE DEF kept
<1>6. cached' = {p} \cup kept
  BY <1>3, <1>5, AbsentAssumption DEF cached
<1>7. Lists(order', cached')
  BY <1>3, <1>4, <1>5, <1>6, FrontLemma
<1>8. PICK a, b, c, m : /\ a = Cardinality(Held(entries, kept))
                        /\ b = Cardinality(Held(entries, back))
                        /\ c = Cardinality(Held(entries', {p} \cup kept))
                        /\ m = n
  OBVIOUS
<1>9. a \in Nat /\ b \in Nat /\ used = a + b
  <2>1. a \in Nat /\ b \in Nat
    BY <1>5, <1>8, HeldLemma
  <2>2. Cardinality(Held(entries, kept \cup back)) = a + b
    BY <1>4, <1>5, <1>8, HeldUnionLemma
  <2>3. used = Cardinality(Held(entries, kept \cup back))
    BY <1>4 DEF bytesOf, held, Held
  <2> QED
    BY <2>1, <2>2, <2>3
<1>10. c = a + m /\ m \in Nat
  <2>1. entries'[p] = entry /\ \A q \in kept : entries'[q] = entries[q]
    BY <1>3, <1>5
  <2>2. PICK e : e = entries'
    OBVIOUS
  <2>3. Held(e, kept) = Held(entries, kept)
    BY <2>1, <2>2, HeldSameLemma
  <2>4. Cardinality(Held(e, {p})) = m /\ m \in Nat
    BY <1>8, <2>1, <2>2, HeldOneLemma DEF n
  <2>5. IsFiniteSet({p}) /\ {p} \cap kept = {}
    BY <1>5, FS_Singleton
  <2>6. \A q \in {p} \cup kept : e[q] \in Entry
    BY <1>5, <2>1, <2>2
  <2>7. Cardinality(Held(e, {p} \cup kept)) =
           Cardinality(Held(e, {p})) + Cardinality(Held(e, kept))
    <3> DEFINE one == {p}
    <3>1. IsFiniteSet(one) /\ one \cap kept = {} /\ \A q \in one \cup kept : e[q] \in Entry
      BY <2>5, <2>6
    <3> HIDE DEF one
    <3>2. Cardinality(Held(e, one \cup kept)) =
             Cardinality(Held(e, one)) + Cardinality(Held(e, kept))
      BY <1>5, <3>1, HeldUnionLemma
    <3> QED
      BY <3>2 DEF one
  <2>8. c = m + a
    BY Zenon, <1>8, <2>2, <2>3, <2>4, <2>7
  <2> QED
    BY <1>9, <2>4, <2>8
<1>11. bytesOf(cached)' = c
  BY <1>6, <1>8 DEF bytesOf, held, Held
<1>12. b = bytesOf(back)
  BY <1>8 DEF bytesOf, held, Held
<1>13. bytes' = c /\ bytes' <= Capacity
  BY <1>2, <1>3, <1>8, <1>9, <1>10, <1>12
<1> QED
  BY <1>7, <1>11, <1>13 DEF OrderInv

\* What is left once a path's old entry is out is what the counter says then.
LEMMA RestOfLemma ==
  ASSUME TypeOK, OrderInv, NEW p \in Paths
  PROVE  bytes - bytesOf({p} \cap cached) = bytesOf(cached \ {p})
<1> DEFINE old == {p} \cap cached
           rest == cached \ {p}
<1>1. IsFiniteSet(cached) /\ \A q \in cached : entries[q] \in Entry
  BY ListsLemma DEF OrderInv, cached, TypeOK
<1>2. IsFiniteSet(old) /\ IsFiniteSet(rest) /\ old \cap rest = {} /\ old \cup rest = cached
  <2>1. old \in SUBSET cached /\ rest \in SUBSET cached
    OBVIOUS
  <2> HIDE DEF old, rest
  <2>2. IsFiniteSet(old) /\ IsFiniteSet(rest)
    BY <1>1, <2>1, FS_Subset
  <2> QED
    BY <2>2 DEF old, rest
<1> HIDE DEF old, rest
<1>3. PICK a, b : a = Cardinality(Held(entries, old)) /\ b = Cardinality(Held(entries, rest))
  OBVIOUS
<1>4. a \in Nat /\ b \in Nat
  BY <1>1, <1>2, <1>3, HeldLemma
<1>5. Cardinality(Held(entries, old \cup rest)) = a + b
  BY <1>1, <1>2, <1>3, HeldUnionLemma
<1>6. bytes = a + b
  BY <1>2, <1>5 DEF OrderInv, bytesOf, held, Held
<1>7. bytesOf(old) = a /\ bytesOf(rest) = b
  BY <1>3 DEF bytesOf, held, Held
<1>8. bytes - bytesOf(old) = bytesOf(rest)
  BY <1>4, <1>6, <1>7
<1> QED
  BY <1>8 DEF old, rest

\* Putting an entry first takes the path's old one out, with its bytes.
LEMMA AccountLemma ==
  ASSUME TypeOK, OrderInv, NEW p \in Paths, NEW entry \in Entry, put(p, entry)
  PROVE  OrderInv'
<1>1. CASE UNCHANGED cacheVars
  BY <1>1 DEF OrderInv, Lists, cached, bytesOf, held, cacheVars
<1>2. CASE PushFront(p, entry, without(p), bytes - bytesOf({p} \cap cached))
  <2>1. Lists(without(p), cached \ {p})
    BY WithoutLemma DEF OrderInv
  <2>2. bytes - bytesOf({p} \cap cached) = bytesOf(cached \ {p})
    BY RestOfLemma
  <2> QED
    BY <1>2, <2>1, <2>2, PushLemma
<1> QED
  BY <1>1, <1>2 DEF put

\* A hit moves the path to the front and leaves the rest as it was.
LEMMA MoveLemma ==
  ASSUME TypeOK, OrderInv, NEW r \in Readers, Hit(r)
  PROVE  OrderInv'
<1> DEFINE p == call[r].path
<1>1. call[r] \in Call
  BY DEF Hit, TypeOK
<1>2. p \in Paths /\ p \in cached
  BY <1>1 DEF Call, Hit, get, cached
<1>3. order' = <<p>> \o without(p) /\ UNCHANGED <<entries, bytes>>
  BY DEF Hit
<1> HIDE DEF p
<1>4. Lists(without(p), cached \ {p})
  BY <1>2, WithoutLemma DEF OrderInv
<1>5. Lists(<<p>> \o without(p), {p} \cup (cached \ {p}))
  BY <1>2, <1>4, FrontLemma
<1>6. {p} \cup (cached \ {p}) = cached
  BY <1>2
<1>7. cached' = cached /\ bytesOf(cached)' = bytesOf(cached)
  BY <1>3 DEF cached, bytesOf, held
<1> QED
  BY <1>3, <1>5, <1>6, <1>7 DEF OrderInv

\* What the cache's list, map and counter are to each other at every step.
THEOREM AccountInvariance == Spec => []OrderInv
<1>1. Init => OrderInv
  <2> SUFFICES ASSUME Init PROVE OrderInv
    OBVIOUS
  <2>1. cached = {} /\ order = <<>> /\ bytes = 0
    BY DEF Init, cached
  <2>2. held(cached) = {}
    BY <2>1 DEF held
  <2>3. bytesOf(cached) = 0
    BY <2>2, FS_EmptySet DEF bytesOf
  <2>4. Lists(order, cached)
    BY <2>1 DEF Lists, ToSet
  <2> QED
    BY <2>1, <2>3, <2>4, CapacityAssumption DEF OrderInv
<1>2. CacheInv /\ OrderInv /\ [Next]_vars => OrderInv'
  <2> SUFFICES ASSUME CacheInv, OrderInv, [Next]_vars PROVE OrderInv'
    OBVIOUS
  <2>1. TypeOK
    BY DEF CacheInv
  <2>2. CASE UNCHANGED cacheVars
    BY <2>2 DEF OrderInv, Lists, cached, bytesOf, held, cacheVars
  <2>3. ASSUME NEW r \in Readers, StoreContent(r) PROVE OrderInv'
    <3>1. PICK after \in {Stat(call[r].fd), NoInfo} : StatAfter(r, after)
      BY <2>3 DEF StoreContent
    <3>2. CASE /\ sameFileVersion(call[r].before, after)
               /\ put(call[r].path, entryOf(r, after))
      <4>1. call[r] \in Call /\ call[r].outcome \in Data
        BY <2>1, <2>3 DEF StoreContent, TypeOK
      <4>2. after \in Info
        BY <2>1, <3>2, <4>1 DEF sameFileVersion, Stat, Info, Call, TypeOK
      <4>3. entryOf(r, after) \in Entry /\ call[r].path \in Paths
        BY <4>1, <4>2 DEF entryOf, Entry, Call
      <4> QED
        BY <2>1, <3>2, <4>3, AccountLemma
    <3> QED
      BY <2>2, <3>1, <3>2 DEF StatAfter
  <2>4. ASSUME NEW r \in Readers, Reader(r) PROVE OrderInv'
    BY <2>1, <2>2, <2>3, <2>4, MoveLemma
       DEF Reader, OpenFile, StatBefore, Miss, ReadFails, Exclude, ReadPrefix, ReadRest, Return
  <2> QED
    BY <2>2, <2>4 DEF Next, Write, Rename, vars
<1> QED
  BY <1>1, <1>2, Invariance, PTL DEF Spec

\* The list, the map and the counter agree, and the counter stays within the
\* budget, for any number of paths and any lengths (put, remove).
THEOREM AccountingIsAlwaysExact == Spec => []AccountingIsExact
<1>1. OrderInv => AccountingIsExact
  BY ListsLemma DEF OrderInv, AccountingIsExact, Lists
<1> QED
  BY <1>1, AccountInvariance, PTL

\* The eviction loop always finds room for an entry put accepts: it never asks
\* an empty list for its back element, on which remove would panic (put).
EvictionFindsRoom ==
    \A p \in Paths, entry \in Entry :
        size(entry.data) <= Capacity =>
            evict(without(p), bytes - bytesOf({p} \cap cached),
                  size(entry.data)) # {}

\* With every entry gone the counter is zero, and the new one fits.
THEOREM EvictionAlwaysFindsRoom == Spec => []EvictionFindsRoom
<1>1. TypeOK /\ OrderInv => EvictionFindsRoom
  <2>1. SUFFICES ASSUME TypeOK, OrderInv, NEW p \in Paths, NEW entry \in Entry,
                        size(entry.data) <= Capacity
                 PROVE  evict(without(p), bytes - bytesOf({p} \cap cached),
                              size(entry.data)) # {}
    BY DEF EvictionFindsRoom
  <2> DEFINE left == without(p)
             rest == cached \ {p}
  <2>2. Lists(left, rest) /\ Len(left) \in Nat
    BY <2>1, WithoutLemma DEF OrderInv, Lists
  <2>3. {left[j] : j \in (0 + 1)..Len(left)} = rest
    BY <2>2 DEF Lists, ToSet
  <2>4. droppedBytes(left, 0) = bytesOf(rest)
    BY <2>3 DEF droppedBytes
  <2>5. IsFiniteSet(rest)
    BY <2>2, ListsLemma
  <2>6. bytesOf(rest) \in Nat
    <3>1. \A q \in rest : entries[q] \in Entry
      BY <2>1 DEF cached, TypeOK
    <3> HIDE DEF rest
    <3> QED
      BY <2>5, <3>1, HeldLemma DEF bytesOf, held, Held
  <2>7. bytes - bytesOf({p} \cap cached) = bytesOf(rest)
    BY <2>1, RestOfLemma
  <2>8. PICK n : n = size(entry.data)
    OBVIOUS
  <2>9. n \in Nat /\ n <= Capacity
    BY <2>1, <2>8, LengthAssumption, PrefixAssumption DEF Entry, Data, size
  <2> HIDE DEF left, rest
  <2>10. 0 \in fitting(left, bytesOf(rest), n)
    BY <2>2, <2>4, <2>6, <2>9, CapacityAssumption DEF fitting
  <2> QED
    BY <2>7, <2>8, <2>10 DEF evict, left
<1> QED
  BY <1>1, Invariance, AccountInvariance, PTL DEF CacheInv
=============================================================================
