---------------------------- MODULE ContentCache ----------------------------
(***************************************************************************)
(* The content cache every reader of a scan shares                         *)
(* (internal/scan/content_cache.go): readCachedContent runs in the worker  *)
(* of a read, on the descriptor the worker opened, while other programs    *)
(* write the files in place or rename others over them.  A worker the scan *)
(* timed out on goes on reading, so several readers may be in here at once; *)
(* get and put each hold the cache's lock.                                 *)
(*                                                                         *)
(* A file's bytes are the version it was at when they were read, in two    *)
(* halves, because a read is not atomic.  A FileInfo is the identity and   *)
(* the version of a file: every write changes its size or its mtime.  What *)
(* a file is (native code, an asset, text) and its length stay the same.   *)
(***************************************************************************)
EXTENDS Naturals, FiniteSets, FiniteSetsExt, SequencesExt

CONSTANTS
    Paths,      \* the paths readers ask for
    Inodes,     \* the files those names may lead to
    Readers,    \* the goroutines inside readCachedContent
    Capacity,   \* contentCacheBytes
    Length,     \* how many bytes each file holds
    PrefixLength,  \* the bytes readScanContent looks at first
    Native,     \* the files with a native executable header
    ValidAssets,   \* by path: the files that are what its asset extension says
    Opaque,     \* by path: the files that look binary to a source read
    Payloads,   \* the files with the exact size of a published payload
    NamedPayloads, \* the paths with the name of a published payload
    NoInfo,     \* a Stat that failed
    NoEntry,    \* the map's absent entry
    NoCall,     \* a goroutine that is not in readCachedContent
    NoData,     \* nothing read yet
    Excluded,   \* the outcome "binary, excluded from inspection"
    MaxChanges  \* bound: writes in place and renames

Info == [inode : Inodes, version : Nat]
Data == [inode : Inodes, part : {"prefix", "whole"}, head : Nat, tail : Nat]
Entry == [source : BOOLEAN, info : Info, data : Data]

\* One call of readCachedContent: the file its descriptor is open on and the
\* version that file was at when it was opened, what fstat said before the
\* read, the version the first half was read at, and what was read.
Call == [path : Paths, source : BOOLEAN, fd : Inodes, since : Nat,
         before : Info \cup {NoInfo}, head : Nat,
         outcome : Data \cup {NoData, Excluded}]

ASSUME CapacityAssumption == Capacity \in Nat
ASSUME LengthAssumption == Length \in [Inodes -> Nat]
ASSUME PrefixAssumption == PrefixLength \in Nat
ASSUME ChangesAssumption == MaxChanges \in Nat
ASSUME OutcomesAssumption ==
    NoData \notin Data /\ Excluded \notin Data /\ NoData # Excluded
ASSUME AbsentAssumption ==
    NoInfo \notin Info /\ NoEntry \notin Entry /\ NoCall \notin Call

VARIABLES
    name,     \* which file each path leads to
    version,  \* how often each file was written
    changes,  \* how often any was written or renamed (MaxChanges)
    entries,  \* cache: the entry of each path
    order,    \* cache: the cached paths, most recently used first
    bytes,    \* cache: the bytes accounted for
    pc,       \* where each reader is
    call      \* its call

fsVars == <<name, version, changes>>
cacheVars == <<entries, order, bytes>>
vars == <<fsVars, cacheVars, pc, call>>

PC == {"idle", "opened", "lookup", "prefix", "rest", "store", "done"}

TypeOK ==
    /\ name \in [Paths -> Inodes]
    /\ version \in [Inodes -> Nat]
    /\ entries \in [Paths -> Entry \cup {NoEntry}]
    /\ pc \in [Readers -> PC]
    /\ call \in [Readers -> Call \cup {NoCall}]
    /\ \A r \in Readers : pc[r] = "idle" <=> call[r] = NoCall
    /\ \A r \in Readers : pc[r] = "store" => call[r].outcome \in Data

Init ==
    /\ name \in [Paths -> Inodes]
    /\ version = [i \in Inodes |-> 0]
    /\ changes = 0
    /\ entries = [p \in Paths |-> NoEntry]
    /\ order = <<>>
    /\ bytes = 0
    /\ pc = [r \in Readers |-> "idle"]
    /\ call = [r \in Readers |-> NoCall]

-----------------------------------------------------------------------------
(* The file system, written by other programs while the scan reads.        *)

Write(i) ==
    /\ changes < MaxChanges
    /\ changes' = changes + 1
    /\ version' = [version EXCEPT ![i] = @ + 1]
    /\ UNCHANGED <<name, cacheVars, pc, call>>

\* Another file is renamed over a path.
Rename(p, i) ==
    /\ name[p] # i
    /\ changes < MaxChanges
    /\ changes' = changes + 1
    /\ name' = [name EXCEPT ![p] = i]
    /\ UNCHANGED <<version, cacheVars, pc, call>>

-----------------------------------------------------------------------------
(* The cache.                                                              *)

Stat(i) == [inode |-> i, version |-> version[i]]

\* Mutant: identity alone is compared, not size and mtime.
sameFileVersion_Identity(a, b) ==
    a # NoInfo /\ b # NoInfo /\ a.inode = b.inode

sameFileVersion(a, b) == a # NoInfo /\ a = b

\* Mutant: an entry answers whichever policy asks.
get_AnyPolicy(p, src, info) ==
    entries[p] # NoEntry /\ sameFileVersion(entries[p].info, info)

\* Whether an entry answers a reader of p.
get(p, src, info) ==
    /\ entries[p] # NoEntry
    /\ entries[p].source = src
    /\ sameFileVersion(entries[p].info, info)

cached == {p \in Paths : entries[p] # NoEntry}

\* len(data): an asset is cached as its prefix, any other file whole.
size(data) ==
    IF data.part = "prefix" /\ PrefixLength < Length[data.inode]
    THEN PrefixLength
    ELSE Length[data.inode]

\* The bytes held for some paths, one by one.
held(ps) == UNION {{p} \X (1..size(entries[p].data)) : p \in ps}
bytesOf(ps) == Cardinality(held(ps))

droppedBytes(left, k) == bytesOf({left[j] : j \in (k + 1)..Len(left)})

\* The prefixes of the list that leave room for n more bytes.
fitting(left, used, n) ==
    {k \in 0..Len(left) : used - droppedBytes(left, k) + n <= Capacity}

\* The eviction loop removes from the back until the new entry fits.  With no
\* entry left to remove while it does not, Back() is nil and remove panics:
\* the set is empty.
evict(left, used, n) == fitting(left, used, n)

\* The list without a path's element, which the map knows (remove).
without(p) ==
    IF p \in cached THEN RemoveAt(order, CHOOSE k \in DOMAIN order : order[k] = p)
    ELSE order

\* `left` is the list and `used` the counter once the path's old entry is gone.
PushFront(p, entry, left, used) ==
    LET n == size(entry.data)
        keeps == evict(left, used, n)
        front == SubSeq(left, 1, Max(keeps))
    IN /\ keeps # {}
       /\ entries' = [q \in Paths |-> IF q = p THEN entry
                                      ELSE IF q \in ToSet(front) THEN entries[q]
                                      ELSE NoEntry]
       /\ order' = <<p>> \o front
       /\ bytes' = used - droppedBytes(left, Max(keeps)) + n

\* Mutant: the path's old entry is not removed first.
put_KeepsOld(p, entry) ==
    IF size(entry.data) > Capacity
    THEN UNCHANGED cacheVars
    ELSE PushFront(p, entry, order, bytes)

put(p, entry) ==
    IF size(entry.data) > Capacity
    THEN UNCHANGED cacheVars
    ELSE PushFront(p, entry, without(p), bytes - bytesOf({p} \cap cached))

-----------------------------------------------------------------------------
(* readCachedContent, one reader.                                          *)

\* The worker opens the path, whichever file it leads to by then.
OpenFile(r, p, src) ==
    /\ pc[r] = "idle"
    /\ pc' = [pc EXCEPT ![r] = "opened"]
    /\ call' = [call EXCEPT ![r] =
                  [path |-> p, source |-> src, fd |-> name[p],
                   since |-> version[name[p]], before |-> NoInfo, head |-> 0,
                   outcome |-> NoData]]
    /\ UNCHANGED <<fsVars, cacheVars>>

StatBefore(r) ==
    /\ pc[r] = "opened"
    /\ pc' = [pc EXCEPT ![r] = "lookup"]
    /\ \E info \in {Stat(call[r].fd), NoInfo} :
          call' = [call EXCEPT ![r].before = info]
    /\ UNCHANGED <<fsVars, cacheVars>>

\* The call is over but for its return to the worker.
ReturnOutcome(r, result) ==
    /\ pc' = [pc EXCEPT ![r] = "done"]
    /\ call' = [call EXCEPT ![r].outcome = result]

Leave(r) ==
    /\ pc' = [pc EXCEPT ![r] = "idle"]
    /\ call' = [call EXCEPT ![r] = NoCall]
    /\ UNCHANGED fsVars

Hit(r) ==
    LET p == call[r].path IN
    /\ pc[r] = "lookup"
    /\ get(p, call[r].source, call[r].before)
    /\ order' = <<p>> \o without(p)
    /\ ReturnOutcome(r, entries[p].data)
    /\ UNCHANGED <<fsVars, entries, bytes>>

Miss(r) ==
    /\ pc[r] = "lookup"
    /\ ~get(call[r].path, call[r].source, call[r].before)
    /\ pc' = [pc EXCEPT ![r] = "prefix"]
    /\ UNCHANGED <<fsVars, cacheVars, call>>

\* A published payload by its name or, where that is known, its size: read
\* whole whatever the policy.
candidate(p, info) ==
    p \in NamedPayloads \/ (info # NoInfo /\ info.inode \in Payloads)

\* readScanContent drops native code under either policy, and from a source
\* read what looks binary, unless it is the asset its name promises.
dropped(p, source, i, kept) ==
    /\ ~kept
    /\ i \in Native \/ (source /\ i \in Opaque[p] \ ValidAssets[p])

excluded(r) ==
    LET c == call[r] IN dropped(c.path, c.source, c.fd, candidate(c.path, c.before))

\* Of an asset that is what its name promises the prefix is enough.
partRead(p, i) == IF i \in ValidAssets[p] THEN "prefix" ELSE "whole"

\* A read that fails returns an error and caches nothing.
ReadFails(r) ==
    /\ pc[r] \in {"prefix", "rest"}
    /\ Leave(r)
    /\ UNCHANGED cacheVars

Exclude(r) ==
    /\ pc[r] = "prefix"
    /\ excluded(r)
    /\ ReturnOutcome(r, Excluded)
    /\ UNCHANGED <<fsVars, cacheVars>>

contentOf(i, read, first, last) ==
    [inode |-> i, part |-> read, head |-> first, tail |-> last]

\* The prefix is all that is read, or is followed by the rest.
ReadPrefix(r) ==
    LET c == call[r]
        now == version[c.fd]
    IN
    /\ pc[r] = "prefix"
    /\ ~excluded(r)
    /\ IF partRead(c.path, c.fd) = "prefix"
       THEN /\ pc' = [pc EXCEPT ![r] = "store"]
            /\ call' = [call EXCEPT ![r].head = now,
                           ![r].outcome = contentOf(c.fd, "prefix", now, now)]
       ELSE /\ pc' = [pc EXCEPT ![r] = "rest"]
            /\ call' = [call EXCEPT ![r].head = now]
    /\ UNCHANGED <<fsVars, cacheVars>>

ReadRest(r) ==
    LET c == call[r] IN
    /\ pc[r] = "rest"
    /\ pc' = [pc EXCEPT ![r] = "store"]
    /\ call' = [call EXCEPT ![r].outcome =
                   contentOf(c.fd, "whole", c.head, version[c.fd])]
    /\ UNCHANGED <<fsVars, cacheVars>>

entryOf(r, after) ==
    [source |-> call[r].source, info |-> after, data |-> call[r].outcome]

\* Mutant: what was read is cached without a second look at the file.
StatAfter_NoRecheck(r, after) ==
    IF after # NoInfo
    THEN put(call[r].path, entryOf(r, after))
    ELSE UNCHANGED cacheVars

\* Only a file that did not change while it was read is cached.
StatAfter(r, after) ==
    IF sameFileVersion(call[r].before, after)
    THEN put(call[r].path, entryOf(r, after))
    ELSE UNCHANGED cacheVars

StoreContent(r) ==
    /\ pc[r] = "store"
    /\ \E after \in {Stat(call[r].fd), NoInfo} : StatAfter(r, after)
    /\ Leave(r)

Return(r) ==
    /\ pc[r] = "done"
    /\ Leave(r)
    /\ UNCHANGED cacheVars

Reader(r) ==
    \/ \E p \in Paths, src \in BOOLEAN : OpenFile(r, p, src)
    \/ StatBefore(r) \/ Hit(r) \/ Miss(r)
    \/ ReadFails(r) \/ Exclude(r) \/ ReadPrefix(r) \/ ReadRest(r) \/ StoreContent(r)
    \/ Return(r)

Next ==
    \/ \E r \in Readers : Reader(r)
    \/ \E i \in Inodes : Write(i)
    \/ \E p \in Paths, i \in Inodes : Rename(p, i)

Spec == Init /\ [][Next]_vars

-----------------------------------------------------------------------------
(* Properties.                                                             *)

\* Whatever is written or renamed while readers race, every entry holds one
\* version of one file, whole, and the FileInfo it is filed under is that
\* version's (readCachedContent's second Stat).
CacheIsWhole ==
    \A p \in Paths : entries[p] # NoEntry =>
        LET e == entries[p] IN
        /\ e.data.inode = e.info.inode
        /\ e.data.head = e.info.version
        /\ e.data.tail = e.info.version

\* Reuse never shows an older file: what a reader is given is content of the
\* file it opened, no half of it older than that file was at the open.
ReadsAreFresh ==
    \A r \in Readers : pc[r] \in {"store", "done"} /\ call[r].outcome # Excluded =>
        LET c == call[r] IN
        /\ c.outcome.inode = c.fd
        /\ c.outcome.head >= c.since
        /\ c.outcome.tail >= c.since

\* Reuse never changes what a policy sees, whatever the cache held for the
\* path before, under whichever name and policy it was read: a reader is told
\* that a file is excluded just when its own read would have dropped it, and is
\* otherwise given as much of the file as its own read would have taken.
PolicyIsKept ==
    \A r \in Readers : pc[r] \in {"store", "done"} =>
        LET c == call[r] IN
        /\ c.outcome = Excluded <=> excluded(r)
        /\ c.outcome # Excluded => c.outcome.part = partRead(c.path, c.fd)

\* Why the three hold: versions only grow, so a file that is at one version
\* before and after a read was at that version during it; and an entry is what
\* a read under its path and policy makes of its file.
EntryOK(p, e) ==
    /\ e.data = contentOf(e.info.inode, partRead(p, e.info.inode),
                          e.info.version, e.info.version)
    /\ e.info.version <= version[e.info.inode]
    /\ ~dropped(p, e.source, e.info.inode, candidate(p, e.info))

EntryInv == \A p \in Paths : entries[p] # NoEntry => EntryOK(p, entries[p])

CallOK(r) ==
    LET c == call[r] IN
    /\ c.since <= version[c.fd]
    /\ c.before # NoInfo => /\ c.before.inode = c.fd
                            /\ c.since <= c.before.version
                            /\ c.before.version <= version[c.fd]
    /\ pc[r] = "rest" => partRead(c.path, c.fd) = "whole"
    /\ pc[r] \in {"rest", "store"} =>
          /\ ~excluded(r)
          /\ c.since <= c.head /\ c.head <= version[c.fd]
          /\ c.before # NoInfo => c.before.version <= c.head
    /\ pc[r] = "store" =>
          /\ c.outcome.inode = c.fd
          /\ c.outcome.part = partRead(c.path, c.fd)
          /\ c.outcome.head = c.head
          /\ c.head <= c.outcome.tail /\ c.outcome.tail <= version[c.fd]
    /\ pc[r] = "done" =>
          /\ c.outcome = Excluded <=> excluded(r)
          /\ c.outcome # Excluded => /\ c.outcome \in Data
                                     /\ c.outcome.inode = c.fd
                                     /\ c.outcome.part = partRead(c.path, c.fd)
                                     /\ c.since <= c.outcome.head
                                     /\ c.since <= c.outcome.tail

CallInv == \A r \in Readers : call[r] # NoCall => CallOK(r)

CacheInv == TypeOK /\ EntryInv /\ CallInv

\* The list and the map hold the same paths, once each, the counter is the sum
\* of what they hold, and it stays within the budget (put, remove).
AccountingIsExact ==
    /\ ToSet(order) = cached
    /\ Len(order) = Cardinality(cached)
    /\ bytes = bytesOf(cached)
    /\ bytes <= Capacity

=============================================================================
