--------------------------- MODULE LocalChecksInv ----------------------------
(***************************************************************************)
(* The inductive invariant of LocalChecks: what holds between any two      *)
(* checks and implies that marks are earned, that files are read once and  *)
(* inside, that usual files are passed over, and that processes are        *)
(* accounted for.  LocalChecks_proofs proves it.                           *)
(***************************************************************************)
EXTENDS LocalChecks

\* The reads that NothingIsReadTwice is about.
Persistence == {"application", "npm", "startup"}

Fixed == {"artifact", "npm", "application", "system", "staging", "toolchain", "login",
          "service"}
Met == {"list", "config", "modules", "file", "vendor", "package", "dist", "pth"}
Tasks == (Fixed \cup Met \cup {"site"}) \X (Paths \cup Dirs)

\* What the walk meets lies inside, and what is known or parsed by its place is
\* what such a path may be.
Fits(t) ==
  /\ t[1] \in Met => (only => t[2] \in Scope)
  /\ t[1] = "package" =>
       /\ only => DirOf[t[2]] \in Scope
       /\ is("scoped", t[2]) => parent(DirOf[t[2]]) \in IF only THEN Dirs \cap Scope ELSE Dirs
  /\ t[1] \in {"artifact", "staging"} => Usual[t[2]].there = "missing"
  /\ t[1] \in {"login", "service", "vendor", "package"} => ~assetExtension(Ext[t[2]])

\* The npm entrypoints come first, each of them once, unmarked, after nothing
\* that could have marked it.
Orderly(s) ==
  /\ s \in Seq(Tasks) /\ \A k \in 1..Len(s) : Fits(s[k])
  /\ \A k \in 1..Len(s) : s[k][1] = "npm" =>
       /\ s[k][2] \in Paths \ persistenceChecked
       /\ "sidecar" \notin Kind[s[k][2]]
       /\ \A j \in 1..(k - 1) : s[j][1] \in {"artifact", "npm"} /\ s[j] # s[k]

AgendaInv == Orderly(agenda)

\* Whatever a persistence check has read is marked.
ReadsAreMarked == \A r \in inspected : r[1] \in Persistence => r[2] \in persistenceChecked

WorldInv == content \in [Paths -> Content] /\ only \in BOOLEAN

\* What a listing of the walk returned was there, and still is unless it changed.
EntriesInv ==
  \A p \in Paths \cap entries : steady(p) => content[p].there # "missing"

CheckInv ==
  WorldInv /\ AgendaInv /\ ReadsAreMarked /\ NothingIsReadTwice /\ OnlyReadsInside
  /\ MarksAreEarned

\* What has been said of a process that was inspected.
Settled(q) ==
  /\ Command[q].sidecar => <<"running-payload-process", q>> \in findings
  /\ nodeScript(q) /\ ~Command[q].located => q \in unresolved
  /\ nodeScript(q) /\ Command[q].located /\ steady(Command[q].script)
     /\ ~headOnly(Command[q].script) /\ runningScriptMatch(content[Command[q].script])
     /\ content[Command[q].script].there \in {"file", "unreadable"}
       => <<"running-payload-process", q>> \in findings \/ hasGap(Command[q].script)

\* Each of those in the snapshot is settled or still to be inspected.
ProcessInv ==
  /\ stage \in {"waiting", "inspecting", "done"} /\ listed \subseteq Procs
  /\ stage = "waiting" => listed = {} /\ restricted = {} /\ unresolved = {}
  /\ stage # "waiting" => (Self \notin listed => collection \in findings)
  /\ stage = "done" =>
       /\ \A q \in listed \ {Self} : Command[q].args => q \notin left
       /\ restricted # {} => <<"scan-limited", "restricted">> \in findings
       /\ unresolved # {} => <<"scan-limited", "unresolved">> \in findings
  /\ \A q \in listed \ {Self} : Command[q].args => q \in left \/ Settled(q)

LocalInv == CheckInv /\ EntriesInv /\ QuietFilesStayQuiet /\ ProcessInv

-----------------------------------------------------------------------------
\* What EvidenceIsReported rests on.

\* A file that is there, as it was when the scan began, and one that carries a
\* signature.
stays(p) == steady(p) /\ content[p].there \in {"file", "unreadable"}
signed(p) == stays(p) /\ carriesSignature(p, content[p])

\* The names whose files a persistence check may come to outside the fixed paths.
Watched == {"startup", "toolchain", "entrypoint"}

\* A mark comes with the evidence, or with a read that does not look for it.
EarnedInv ==
  /\ \A p \in Paths \cap (persistenceChecked \cup scriptChecked \cup packageChecked) :
       signed(p) => reported(p)
  /\ \A p \in Paths \cap persistenceChecked :
       /\ stays(p) /\ content[p].sidecar /\ ~headOnly(p) => reported(p) \/ <<"startup", p>> \in inspected
       /\ stays(p) /\ p \notin fixed /\ Kind[p] \cap Watched = {} => reported(p)
  /\ \A p \in Paths \cap scriptChecked :
       stays(p) =>
         \/ reported(p) \/ <<"script", p>> \in inspected
         \/ <<"dependency", p>> \in inspected
            /\ (content[p].published => validAsset(Ext[p], content[p]))

\* What a manifest names was looked at with it.
NamedInv ==
  \A m \in Paths \cap packageChecked :
    parsed(m) => \A p \in Paths \cap names(m) : pathInScope(p) /\ signed(p) => reported(p)

\* A directory was listed whole, in which case what was in it was shown and what
\* it is is known, or a gap above what is missing is named.
excused(d) == \E k \in DOMAIN Up[d] : Up[d][k] \in unlisted /\ hasGap(Up[d][k])
listedWhole(d) ==
  /\ d \notin unlisted /\ found(d)
  /\ \A p \in Paths : DirOf[p] = d /\ steady(p) /\ content[p].there # "missing" => p \in entries
  /\ \A e \in Dirs : ~top(e) /\ parent(e) = d => e \in entries
  /\ ~pruned(d) /\ inProject(d) => d \in contentDirs
sorted(d) == excused(d) \/ listedWhole(d)

DependencyInv == \A d \in Dirs \cap dependencyDirs : ~ownSource(d)

\* What is still to be visited lies where it is known, or is listed before.
OrderInv ==
  \A k \in DOMAIN agenda : \A t \in {agenda[k]} :
    LET before(d) == sorted(d) \/ \E j \in 1..(k - 1) : agenda[j] = <<"list", d>> IN
    /\ t[1] = "file" => t[2] \in Paths /\ before(DirOf[t[2]])
    /\ t[1] \in {"list", "modules"} => t[2] \in Dirs /\ (top(t[2]) \/ before(parent(t[2])))

\* As long as entrypoints and toolchains are to be checked no startup file has
\* been; the fixed paths are of the fixed lists.
Early == {"artifact", "npm", "application", "system", "staging", "toolchain"}
EarlyInv ==
  \A k \in DOMAIN agenda :
    /\ agenda[k][1] \in {"npm", "application", "toolchain"} =>
         /\ \A j \in 1..k : agenda[j][1] \in Early
         /\ \A r \in inspected : r[1] # "startup"
    /\ agenda[k][1] \in {"npm", "application", "toolchain", "login", "service"} =>
         agenda[k][2] \in fixed
    /\ agenda[k][1] = "npm" => agenda[k][2] \in ToSet(NpmCLIs)

\* Each promise is kept or still to be kept.
due(t) == t \in ToSet(agenda)
attended(p) ==
  pathInScope(DirOf[p]) /\ stays(p) => reported(p) \/ p \in persistenceChecked
persisted(p) ==
  pathInScope(DirOf[p]) /\ stays(p) /\ content[p].sidecar /\ ~headOnly(p) => reported(p)
visitedWell(p) ==
  stays(p) =>
    /\ selected(p) /\ carriesSignature(p, content[p]) => reported(p)
    /\ asSource(p, {"script"}) /\ content[p].published
       /\ ~validAsset(Ext[p], content[p]) => reported(p)
    /\ asSource(p, {"script", "dependency"}) /\ Ext[p] = "font" /\ content[p].head = "text"
       => reported(p)

FixedInv ==
  /\ \A p \in ToSet(NpmCLIs) : due(<<"npm", p>>) \/ (attended(p) /\ persisted(p))
  /\ \A p \in ToSet(Applications) : due(<<"application", p>>) \/ (attended(p) /\ persisted(p))
  /\ \A p \in ToSet(Toolchains) : due(<<"toolchain", p>>) \/ (attended(p) /\ persisted(p))
  /\ \A p \in ToSet(LoginFiles) : due(<<"login", p>>) \/ attended(p)
  /\ \A p \in ToSet(ServiceFiles) : due(<<"service", p>>) \/ attended(p)
VisitInv == \A p \in walkedFiles : due(<<"file", p>>) \/ visitedWell(p)
ManifestInv ==
  \A m \in Paths :
    parsed(m) /\ m \notin packageChecked =>
      /\ metInWalk(m) => due(<<"file", m>>)
      /\ \A d \in Dirs : metIn(d, m) => due(<<"modules", d>>) \/ due(<<"package", m>>)

EvidenceInv ==
  /\ EarnedInv /\ NamedInv /\ DependencyInv /\ OrderInv /\ EarlyInv
  /\ FixedInv /\ VisitInv /\ ManifestInv

=============================================================================
