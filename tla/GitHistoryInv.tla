---------------------------- MODULE GitHistoryInv ----------------------------
(* The inductive invariant behind GitHistory's safety properties.  Each part  *)
(* is about one thing: where scanGitRepositories is in its list, what it has  *)
(* counted, where the walk of one repository stands, what is in the pipes of  *)
(* cat-file, and what was looked at.                                          *)
EXTENDS GitHistory

Outcomes == {"unvisited", "skipped", "failed", "scanned"}
Visiting == {"discover"} \cup Scanning
Streaming == {"walk", "check", "request", "header", "body", "wait"}
Holding == {"check", "request", "header", "body"}
Reading == {"request", "header", "body"}
Idle == {"shallow", "start"}

Pending == {left[k] : k \in DOMAIN left}

Walks == [announced : Nat, told : BOOLEAN, id : Objects \cup {NoObject},
          path : BOOLEAN, absent : BOOLEAN, missing : Nat, ended : BOOLEAN]

KindInv ==
  /\ pc \in {"lookup", "version", "next", "discover", "done"} \cup Scanning
  /\ installed \in Versions /\ (pc = "version" => installed # "none")
  /\ version \in Versions /\ discovered \in Discoveries
  /\ left \in Seq(Paths) /\ repo \in Paths \cup {NoRepo}
  /\ found \in Nat /\ scanned \in Nat
  /\ lost \subseteq Objects /\ died \subseteq Processes
  /\ outcome \in [Paths -> Outcomes]

(* Each discovered path is still to be visited, being visited, or settled.    *)
VisitInv ==
  /\ \A j, k \in DOMAIN left : left[j] = left[k] => j = k
  /\ \A p \in Pending : outcome[p] = "unvisited"
  /\ pc \in Visiting => repo \in Paths \ Pending /\ outcome[repo] = "unvisited"
  /\ \A j \in DOMAIN discovered :
       LET p == discovered[j] IN
         outcome[p] = "unvisited" => p \in Pending \/ (pc \in Visiting /\ p = repo)
  /\ pc \in {"lookup", "version"} => \A p \in Paths : outcome[p] = "unvisited"

(* A common directory is marked for a path that was not itself skipped.       *)
SeenInv ==
  /\ \A c \in seen :
       \/ pc \in Scanning /\ Common[repo] = c
       \/ \E q \in Paths : Common[q] = c /\ outcome[q] \in {"failed", "scanned"}
  /\ \A p \in Paths : outcome[p] = "skipped" => Common[p] \in seen

(* The warnings about single repositories, and how many there are.            *)
Listed == {f \in Incomplete : f.path \in Paths}
ListInv == IsFiniteSet(Listed) /\ FailuresAreListed

(* What a Git half that could not begin, or found nothing, has said.          *)
CoverInv ==
  /\ found > 0 \/ left # <<>> \/ pc \in Visiting => discovered # <<>>
  /\ pc \notin {"lookup", "version"} /\ version = "none" =>
       gitScanError("git") \in findings \/ gitScanError("GitPath") \in findings
  /\ CleanMeansWhole

-----------------------------------------------------------------------------
(* The objects whose record is complete, and those that are dealt with.       *)
Flushed == IF walk.id = NoObject THEN walk.announced ELSE walk.announced - 1
Handled == IF pc \in Holding THEN Flushed - 1 ELSE Flushed

(* The stream of rev-list names the history in order, and the object in hand  *)
(* is the last one whose record is complete.                                  *)
WalkInv ==
  pc \in Streaming =>
    /\ walk \in Walks /\ walk.announced <= Len(Order)
    /\ walk.id = IF walk.ended \/ walk.announced = 0 THEN NoObject ELSE Order[walk.announced]
    /\ walk.absent => walk.id \in lost
    /\ walk.missing > 0 => \E k \in DOMAIN Order : Order[k] \in lost
    /\ pc = "wait" => walk.ended
    /\ pc = "walk" => ~walk.ended
    /\ pc \in Holding => Flushed > 0 /\ current.id = Order[Flushed]
    /\ pc \in Reading => current.id \in Blobs \ (Published \cup Large \cup lost)

(* cat-file --batch owes nothing between two objects, and inside one it owes  *)
(* the answer to the one id it was asked.                                     *)
PipeInv ==
  /\ pc \in Streaming \ {"header", "body"} => pipe = <<>> /\ asked = NoObject
  /\ pc = "header" =>
       \/ asked = current.id /\ pipe = <<>>
       \/ asked = NoObject /\ pipe = <<header(current.id), body(current.id)>>
       \/ asked = NoObject /\ pipe = <<unavailable(current.id)>> /\ trouble
  /\ pc = "body" => asked = NoObject /\ pipe = <<body(current.id)>>
  /\ \A e \in examined : e.body = e.id

AlarmInv == (died # {} => trouble) /\ NoFalseAlarm

-----------------------------------------------------------------------------
Did(p, id, how) == [path |-> p, id |-> id, how |-> how, body |-> id] \in examined

(* One object of a repository as a completed scan must have dealt with it.    *)
Whole(p, id) ==
  /\ id \notin lost
  /\ id \in Published => Did(p, id, "identity")
  /\ id \in Sized \ Published => Did(p, id, "hash")
  /\ id \in Named \ (Published \cup Large) => ~gitPathsSupported(version) \/ Did(p, id, "name")

(* While rev-list has not died, what is known of an object is what it said,   *)
(* and each object dealt with was whole, or counted as missing.               *)
ProgressInv ==
  /\ pc \in Streaming /\ "list" \notin died =>
       /\ walk.told /\ walk.id \in lost => walk.absent
       /\ walk.told /\ walk.id \in Blobs \ lost /\ gitPathsSupported(version) => walk.path
       /\ pc \in Holding /\ current.id \in Blobs \ lost /\ gitPathsSupported(version) => current.path
       /\ walk.ended => walk.announced = Len(Order)
       /\ \A k \in 1..Handled : Whole(repo, Order[k]) \/ walk.missing > 0
  /\ pc \in {"closeContents", "closeMetadata"} \/ (pc = "conclude" /\ result = "ok") =>
       \A k \in DOMAIN Order : Whole(repo, Order[k])
  /\ ScannedIsComplete

-----------------------------------------------------------------------------
With(p, i) == {e \in examined : e.path = p /\ e.how = "name" /\ i \in Carries[e.id]}
Told(p, i) == {f \in findings : f.check = "git-history" /\ f.path = p /\ f.indicator = i}

(* A path is looked into, and its history told, only once it is visited.      *)
LookInv ==
  /\ \A e \in examined :
       /\ e.path \in Paths /\ e.id \in Objects
       /\ outcome[e.path] # "unvisited" \/ (e.path = repo /\ pc \in Scanning \ Idle)
  /\ pc \in Streaming => \A e \in examined :
       e.path = repo => \E k \in 1..Handled : e.id = Order[k]
  /\ \A f \in findings : f.check = "git-history" =>
       f.path \in Paths /\ outcome[f.path] # "unvisited"

(* What is held of the indicators of the repository being scanned.            *)
HeldInv ==
  /\ DOMAIN gitHistory \subseteq Indicators
  /\ pc \notin Scanning \ Idle => gitHistory = NoHits
  /\ \A i \in DOMAIN gitHistory :
       /\ gitHistory[i] \in [id : Objects, revisions : Nat]
       /\ \E e \in With(repo, i) : e.id = gitHistory[i].id
       /\ \A e \in With(repo, i) : position(repo, gitHistory[i].id) <= position(repo, e.id)

HitInv ==
  /\ \A p \in Paths, i \in Indicators : IsFiniteSet(With(p, i))
  /\ HitsAreReported

GitInv ==
  /\ KindInv /\ VisitInv /\ SeenInv /\ ListInv /\ CoverInv
  /\ WalkInv /\ PipeInv /\ AlarmInv /\ ProgressInv
  /\ LookInv /\ HeldInv /\ HitInv
=============================================================================
