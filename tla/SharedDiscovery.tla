--------------------------- MODULE SharedDiscovery ---------------------------
(* One walk for four consumers (internal/scan/discovery.go, roots.go and      *)
(* temp.go).  scanSharedDiscovery walks home, the -root directories and the   *)
(* temp directories once, and offers every entry to each consumer: the        *)
(* project checks, Python discovery, temp staging names and Git discovery.    *)
(* Each consumer prunes for itself; a directory is read while any of them     *)
(* wants what is in it.  Roots may overlap, be links, or not exist.           *)
(*                                                                            *)
(* A path is the sequence of its names.  Lists of a directory come in every   *)
(* order and may fail part way, and directories that others use come and go   *)
(* between one step of the walk and the next.                                 *)
EXTENDS Naturals, SequencesExt

CONSTANTS Tree,         \* the paths that may exist
          Directories,  \* those that are directories
          Links,        \* directory links: a function from path to target
          Bare,         \* directories that look like bare repositories
          Staging,      \* files with a published staging name
          TempRoots,    \* the candidates for temp directories, in order: a sequence
          Home,         \* the home directory
          RootChoices,  \* what may be given with -root: sequences of paths
          Boundaries,   \* names of storage that is never entered
          Fleeting,     \* entries that may come or go during the walk
          MaxChanges    \* bound: how many of them do

ASSUME TreeAssumption ==
  /\ Tree \subseteq Seq(STRING) \ {<<>>} /\ IsFiniteSet(Tree)
  /\ \A p \in Tree : \A n \in 1..Len(p) : n < Len(p) => SubSeq(p, 1, n) \in Directories
  /\ Directories \cup DOMAIN Links \cup Staging \subseteq Tree
  /\ Bare \subseteq Directories
  /\ Staging \cap Directories = {}
  /\ \A p \in DOMAIN Links : Links[p] \in Directories /\ p \notin Directories
  /\ Home \in Directories /\ TempRoots \in Seq(Seq(STRING))
  /\ RootChoices \subseteq Seq(Seq(STRING))
  /\ Fleeting \subseteq Tree /\ MaxChanges \in Nat
  /\ LET fixed == {Home} \cup ToSet(TempRoots) \cup DOMAIN Links \cup {Links[p] : p \in DOMAIN Links}
                  \cup UNION {ToSet(given) : given \in RootChoices}
     IN \A f \in Fleeting, p \in fixed : ~IsPrefix(f, p)

VARIABLES
  pc,        \* "tops", "root", "walk" or "done"
  home, extra, only, skipTemps, deep,   \* HomeDir, ExtraRoots and the flags
  left,      \* the roots still to walk
  root,      \* the root being walked: its spelling and what it resolves to
  walked,    \* the roots walked so far
  stack,     \* the entries still to visit, next first
  reading,   \* the directory about to be listed, or none
  skip,      \* discoveryVisitor.skip of each consumer
  visited,   \* how often each consumer was shown each entry
  staged,    \* suspicious-temp-file findings
  errors,    \* scan-incomplete findings
  notices,   \* scan-limited findings
  hidden,    \* entries no listing returned
  there,     \* what exists now
  changed    \* history: the entries that came or went since the walk began

settings == <<home, extra, only, skipTemps, deep>>
reports == <<staged, errors, notices>>
disk == <<there, changed>>
vars == <<pc, settings, left, root, walked, stack, reading, skip, visited, reports, hidden,
          disk>>

NoPath == <<>>
NoRoot == [absolute |-> NoPath, resolved |-> NoPath]
AllVisitors == {"project", "python", "temp", "git"}

pathWithin(prior, path) == IsPrefix(prior, path)

(* resolveScanRoot: a root is a directory, a link to one, or an error.        *)
resolvable(p) == p \in Directories \cup DOMAIN Links
resolve(p) == IF p \in DOMAIN Links THEN Links[p] ELSE p
resolvedScanRoots(roots) == {resolve(r) : r \in {x \in roots : resolvable(x)}}
requested == {home} \cup ToSet(extra)

(* pathInScope: under -only a path counts by its spelling or by its target.   *)
pathInScope(p) ==
  ~only \/ \E r \in resolvedScanRoots(requested) : pathWithin(r, p) \/ pathWithin(r, resolve(p))

(* rootRequested: a temp directory that -root (under -only, home too) names.  *)
rootRequested(p) ==
  \E r \in resolvedScanRoots(ToSet(extra) \cup IF only THEN {home} ELSE {}) :
    pathWithin(r, p) \/ pathWithin(r, resolve(p))

(* Mutant: -skip-tmproots drops a temp directory that was asked for as well.  *)
walksTemp_NoRequest(p) == resolvable(p) /\ pathInScope(p) /\ ~skipTemps

walksTemp(p) == resolvable(p) /\ pathInScope(p) /\ (skipTemps => rootRequested(p))

tempScanRoots == {resolve(p) : p \in {t \in ToSet(TempRoots) : walksTemp(t)}}

(* Of several candidates that are one directory, the first to pass is kept,   *)
(* and what the walk reports is matched under its spelling or its target.     *)
isFirst(k) ==
  \A j \in 1..(k - 1) : walksTemp(TempRoots[j]) => resolve(TempRoots[j]) # resolve(TempRoots[k])
tempSpellings ==
  tempScanRoots \cup
  {TempRoots[k] : k \in {i \in DOMAIN TempRoots : walksTemp(TempRoots[i]) /\ isFirst(i)}}

(* tempWalkRoots: those no requested root contains.                           *)
tempWalkRoots ==
  {t \in tempScanRoots : ~\E r \in resolvedScanRoots(requested) : pathWithin(r, t)}

ScanRoots == <<home>> \o extra \o SetToSeq(tempWalkRoots)
targets == resolvedScanRoots(ToSet(ScanRoots))

Visitors == AllVisitors \ IF tempScanRoots = {} THEN {"temp"} ELSE {}

below(p) == {q \in Tree : IsPrefix(p, q)}

Init ==
  /\ \E given \in RootChoices :
       /\ only \in {b \in BOOLEAN : b => given # <<>> /\ resolvable(Head(given))}
       /\ home = IF only THEN Head(given) ELSE Home
       /\ extra = IF only THEN Tail(given) ELSE given
  /\ skipTemps \in BOOLEAN /\ deep \in BOOLEAN
  /\ pc = "tops"
  /\ left = <<>> /\ root = NoRoot /\ walked = {}
  /\ stack = <<>> /\ reading = NoPath
  /\ skip = [v \in AllVisitors |-> NoPath]
  /\ visited = [v \in AllVisitors |-> [p \in Tree |-> 0]]
  /\ staged = {} /\ errors = {} /\ notices = {} /\ hidden = {}
  /\ there \in {Tree} \cup {Tree \ below(p) : p \in Fleeting}
  /\ changed = {}

(* What others do to the files: an entry goes with all that is in it, or one  *)
(* that was not there is back.                                                *)
ComeOrGo(p) ==
  /\ pc \in {"root", "walk"}
  /\ p \notin changed /\ Cardinality(changed) < MaxChanges
  /\ there' = IF p \in there THEN there \ below(p) ELSE there \cup below(p)
  /\ changed' = changed \cup {p}
  /\ UNCHANGED <<pc, settings, left, root, walked, stack, reading, skip, visited, reports, hidden>>

(* checkSkippedTempTops: of a temp directory that is not walked, the staging  *)
(* names at its top.                                                          *)
skippedTops ==
  {resolve(t) : t \in {x \in ToSet(TempRoots) : resolvable(x) /\ pathInScope(x)}} \ tempScanRoots

CheckTops ==
  /\ pc = "tops"
  /\ staged' = IF skipTemps THEN {p \in Staging \cap there : Front(p) \in skippedTops}
               ELSE {}
  /\ left' = ScanRoots
  /\ pc' = "root"
  /\ UNCHANGED <<settings, root, walked, stack, reading, skip, visited, errors,
                 notices, hidden, disk>>

-----------------------------------------------------------------------------
(* walkScanRoots.                                                             *)

rootCovered(r) == \E w \in walked : pathWithin(w.resolved, r)

(* Mutant: a root that is not there is passed over, as temp directories are.  *)
NextRoot_Silent ==
  /\ pc = "root" /\ left # <<>>
  /\ left' = Tail(left)
  /\ LET r == Head(left) IN
       IF ~resolvable(r)
         THEN /\ UNCHANGED <<pc, root, stack, errors>>
       ELSE IF rootCovered(resolve(r))
         THEN UNCHANGED <<pc, root, stack, errors>>
       ELSE /\ root' = [absolute |-> r, resolved |-> resolve(r)]
            /\ stack' = <<resolve(r)>>
            /\ pc' = "walk"
            /\ UNCHANGED errors
  /\ UNCHANGED <<settings, walked, reading, skip, visited, staged, notices, hidden, disk>>

NextRoot ==
  /\ pc = "root" /\ left # <<>>
  /\ left' = Tail(left)
  /\ LET r == Head(left) IN
       IF ~resolvable(r)
         THEN /\ errors' = errors \cup {r} /\ UNCHANGED <<pc, root, stack>>
       ELSE IF rootCovered(resolve(r))
         THEN UNCHANGED <<pc, root, stack, errors>>
       ELSE /\ root' = [absolute |-> r, resolved |-> resolve(r)]
            /\ stack' = <<resolve(r)>>
            /\ pc' = "walk"
            /\ UNCHANGED errors
  /\ UNCHANGED <<settings, walked, reading, skip, visited, staged, notices, hidden, disk>>

AllWalked ==
  /\ pc = "root" /\ left = <<>>
  /\ pc' = "done"
  /\ UNCHANGED <<settings, left, root, walked, stack, reading, skip, visited,
                 reports, hidden, disk>>

(* rootVisitor: the caller's spelling of a path below the root.               *)
display(p) == root.absolute \o SubSeq(p, Len(root.resolved) + 1, Len(p))

(* skipNpmCache and skipBrowserStorage, which judge the spelling.             *)
excluded(p, spelling) == p \in Directories /\ Last(spelling) \in Boundaries

(* Mutant: a root walked before is walked again from a root that contains it. *)
stopsAt_OnlyBoundary(p) == excluded(p, display(p))

walkedBefore(p) == p \in Directories /\ \E w \in walked : w.resolved = p
stopsAt(p) == walkedBefore(p) \/ excluded(p, display(p))

(* noteUnfollowedDirLink: a link out of everything that is scanned.           *)
leadsOut(p) == p \in DOMAIN Links /\ ~\E t \in targets : pathWithin(t, Links[p])

(* What each consumer returns SkipDir for: by its name, a temp directory by   *)
(* its spelling.  deep is what the command line always asks for; without it   *)
(* the dependency directories are pruned too.                                 *)
prunes(v, p, spelling) ==
  \/ v \in {"project", "git"} /\ Last(p) = ".git"
  \/ v = "project" /\ ~deep /\ Last(p) = "node_modules"
  \/ v \in {"project", "python"} /\ ~deep /\ Last(p) = "site-packages"
  \/ v = "git" /\ p \in Bare
  \/ v = "temp" /\ ~\E t \in tempSpellings : pathWithin(t, spelling)

(* discoveryVisitor.apply: nothing below what the consumer skips is shown.    *)
applies(v, d) == skip[v] = NoPath \/ ~IsStrictPrefix(skip[v], d)

(* Mutant: a directory is left as soon as one consumer prunes it.             *)
descend_All(next, d) == \A v \in Visitors : ~pathWithin(next[v], d) \/ next[v] = NoPath

descend(next, d) == \E v \in Visitors : next[v] = NoPath \/ ~pathWithin(next[v], d)

(* One entry of the walk: the boundaries, then each consumer in turn.         *)
Offer(p) ==
  LET d == display(p)
      shown == {v \in Visitors : applies(v, d)}
      next == [v \in AllVisitors |->
                 IF v \notin shown THEN skip[v]
                 ELSE IF p \in Directories /\ prunes(v, p, d) THEN d ELSE NoPath]
  IN /\ skip' = next
     /\ visited' = [v \in AllVisitors |->
                      IF v \in shown THEN [visited[v] EXCEPT ![p] = @ + 1] ELSE visited[v]]
     /\ staged' = IF "temp" \in shown /\ p \in Staging /\ ~prunes("temp", p, d)
                    THEN staged \cup {p} ELSE staged
     /\ reading' = IF p \in Directories /\ descend(next, d) THEN p ELSE NoPath

VisitEntry ==
  /\ pc = "walk" /\ reading = NoPath /\ stack # <<>>
  /\ stack' = Tail(stack)
  /\ LET p == Head(stack) IN
       /\ notices' = IF leadsOut(p) \/ (excluded(p, display(p)) /\ ~walkedBefore(p))
                       THEN notices \cup {p} ELSE notices
       /\ IF stopsAt(p) THEN UNCHANGED <<skip, visited, staged, reading>> ELSE Offer(p)
  /\ UNCHANGED <<pc, settings, left, root, walked, errors, hidden, disk>>

Children(p) == {c \in Tree : Len(c) = Len(p) + 1 /\ IsPrefix(p, c)}

(* walkClassified lists a directory; what a failed listing did return is      *)
(* walked all the same.  A directory that is gone by now cannot be listed.    *)
ReadDirectory ==
  /\ pc = "walk" /\ reading # NoPath
  /\ \E got \in SUBSET (Children(reading) \cap there) :
       /\ \E order \in SetToSeqs(got) : stack' = order \o stack
       /\ hidden' = hidden \cup (Children(reading) \ got)
       /\ errors' = IF reading \in there /\ got = Children(reading) \cap there THEN errors
                    ELSE errors \cup {display(reading)}
  /\ reading' = NoPath
  /\ UNCHANGED <<pc, settings, left, root, walked, skip, visited, staged, notices,
                 disk>>

FinishRoot ==
  /\ pc = "walk" /\ reading = NoPath /\ stack = <<>>
  /\ walked' = walked \cup {root}
  /\ root' = NoRoot
  /\ pc' = "root"
  /\ UNCHANGED <<settings, left, stack, reading, skip, visited, reports, hidden, disk>>

Next ==
  \/ \E p \in Fleeting : ComeOrGo(p)
  \/ CheckTops \/ NextRoot \/ AllWalked \/ VisitEntry \/ ReadDirectory \/ FinishRoot

Spec == Init /\ [][Next]_vars

-----------------------------------------------------------------------------
(* The walk a path belongs to: that of the innermost root that contains it.   *)
Holding(p) == {w \in walked : pathWithin(w.resolved, p)}
Innermost(p, w) == w \in Holding(p) /\ \A x \in Holding(p) : pathWithin(x.resolved, w.resolved)
Spelled(w, p) == w.absolute \o SubSeq(p, Len(w.resolved) + 1, Len(p))
Reachable(p, w) ==
  \A a \in Tree : pathWithin(w.resolved, a) /\ pathWithin(a, p) =>
    ~excluded(a, Spelled(w, a)) /\ (a # w.resolved => a \notin hidden)

(* What stood from the beginning to the end.                                  *)
steady(p) == p \in there /\ ~\E f \in changed : IsPrefix(f, p)

(* Every variable holds a value of its kind, what is still to be visited lies *)
(* below the root being walked, and findings name paths that exist.           *)
TypeOK ==
  /\ pc \in {"tops", "root", "walk", "done"}
  /\ only \in BOOLEAN /\ skipTemps \in BOOLEAN /\ deep \in BOOLEAN
  /\ \A k \in DOMAIN stack : stack[k] \in Tree /\ pathWithin(root.resolved, stack[k])
  /\ reading = NoPath \/ reading \in Directories
  /\ \A v \in AllVisitors, p \in Tree : visited[v][p] \in Nat
  /\ staged \subseteq Staging /\ notices \subseteq Tree /\ hidden \subseteq Tree
  /\ errors \subseteq requested \cup tempScanRoots \cup
       {Spelled(w, p) : w \in {x \in walked \cup {root} : x # NoRoot}, p \in Directories}

(* However the roots overlap and are spelled, no consumer sees an entry twice *)
(* (a finding under two spellings, a repository counted twice).               *)
AtMostOnce == \A v \in AllVisitors, p \in Tree : visited[v][p] <= 1

(* "Each consumer keeps its original pruning rules" (discovery.go): sharing   *)
(* the walk shows each of them exactly what a walk of its own would, whatever *)
(* the others prune.                                                          *)
KeepsItsPruning ==
  pc = "done" =>
    \A v \in Visitors \ {"temp"}, p \in Tree :
      visited[v][p] > 0 <=>
        \E w \in walked :
          /\ Innermost(p, w) /\ Reachable(p, w)
          /\ ~\E a \in Directories : /\ pathWithin(w.resolved, a) /\ IsStrictPrefix(a, p)
                                     /\ prunes(v, a, Spelled(w, a))

wanted(t) ==
  /\ resolvable(t)
  /\ only => \E r \in resolvedScanRoots(requested) : pathWithin(r, resolve(t))
  /\ skipTemps => \E x \in ToSet(extra) \cup (IF only THEN {home} ELSE {}) :
                    resolvable(x) /\ pathWithin(resolve(x), resolve(t))

(* A staging name is reported at every depth of a temp directory that is to   *)
(* be walked, and at the top of one that -skip-tmproots keeps out of the walk *)
(* (docs/CHECKS.md, suspicious-temp-file).                                    *)
StagingIsMatched ==
  pc = "done" =>
    \A p \in Staging :
      /\ \A t \in {resolve(x) : x \in {y \in ToSet(TempRoots) : wanted(y)}}, w \in walked :
           pathWithin(t, p) /\ Innermost(p, w) /\ Reachable(p, w) => p \in staged
      /\ steady(p) /\ Front(p) \in skippedTops /\ skipTemps => p \in staged

(* Nothing below a root that stood throughout is missed in silence, whatever  *)
(* else comes and goes: an entry no consumer was shown lies in storage that   *)
(* is excluded with a notice, in a directory whose listing failed, which is   *)
(* an error under the name it is reported by, or below what all of them       *)
(* prune; a root that cannot be walked is an error; a link that leads out has *)
(* a notice.                                                                  *)
NothingIsMissedSilently ==
  pc = "done" =>
    /\ \A k \in DOMAIN ScanRoots : ~resolvable(ScanRoots[k]) => ScanRoots[k] \in errors
    /\ \A p \in Tree : steady(p) /\ (\E r \in targets : pathWithin(r, p)) =>
         \/ \E v \in Visitors : visited[v][p] > 0 /\ (leadsOut(p) => p \in notices)
         \/ \E a \in notices \cap Directories : pathWithin(a, p)
         \/ \E a \in hidden, w \in walked :
              pathWithin(a, p) /\ Innermost(Front(a), w) /\ Spelled(w, Front(a)) \in errors
         \/ \E w \in walked : Innermost(p, w) /\ \A v \in Visitors :
              \E a \in Directories : pathWithin(w.resolved, a) /\ IsStrictPrefix(a, p)
                                     /\ prunes(v, a, Spelled(w, a))

=============================================================================
