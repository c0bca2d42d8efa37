--------------------------- MODULE TargetedChecks ----------------------------
(* The checks of internal/scan that know which file they want: Run's first   *)
(* phase (artifacts, npm CLI, application entrypoints, system roots, staging *)
(* paths, toolchains, startup files), the project walk with the package      *)
(* manifests it meets and what these name, and the Python packages.          *)
(*                                                                           *)
(* A check is a task, <<its name, a path>>, and agenda is what Run still has *)
(* to do.  Each task is one call of the code, with every read it makes.  A   *)
(* directory of packages puts the checks of its packages on the agenda.      *)
EXTENDS ContentScope, SequencesExt

CONSTANTS
  Artifacts,      \* fixed paths of known artifacts, in the order of the code,
  NpmCLIs,        \* of global npm entrypoints,
  Applications,   \* of application entrypoints,
  System,         \* of the files below the persistence roots,
  Staging,        \* of staging paths,
  Toolchains,     \* of what is in ~/.local/share/claude/versions,
  LoginFiles,     \* of startup files,
  ServiceFiles,   \* and of the files in startup directories
  Walks,          \* what the walk meets: tasks, in the orders it may have
  SitePackages,   \* tasks of the directories of Python packages
  Packages,       \* what is in a directory of packages: tasks
  Phantoms,       \* the phantom packages a node_modules may hold
  PayloadFiles,   \* the payload files a package may hold
  Hooks,          \* what the lifecycle scripts of a manifest run
  Entries         \* what a manifest names as entrypoints

(* The walk stays below the roots, and so does what a directory of packages  *)
(* or a manifest below them leads to (insideDependencyPath): a package lies  *)
(* in a directory of its own, of its scope if it has one.  checkNpmCLI       *)
(* comes to a path once, and the name it looks for is not a sidecar's.  What *)
(* is known by its place is on no clean machine, and what is parsed by its   *)
(* place, as a startup file or a manifest, has no other header to promise.   *)
ASSUME TargetsAssumption ==
  LET absent == {p \in Paths : Usual[p].there = "missing"}
      parsed == {p \in Paths : ~assetExtension(Ext[p])} IN
  /\ {NpmCLIs, Applications, System, Toolchains} \subseteq Seq(Paths)
  /\ {Artifacts, Staging} \subseteq Seq(absent) /\ {LoginFiles, ServiceFiles} \subseteq Seq(parsed)
  /\ \A j, k \in 1..Len(NpmCLIs) : NpmCLIs[j] = NpmCLIs[k] => j = k
  /\ \A k \in 1..Len(NpmCLIs) : "sidecar" \notin Kind[NpmCLIs[k]]
  /\ Walks \subseteq Seq(({"list", "config", "modules", "file"} \X Scope)
                        \cup ({"vendor"} \X (parsed \cap Scope)))
  /\ SitePackages \in Seq({"site"} \X Dirs)
  /\ \A d \in Dirs :
       /\ Packages[d] \in Seq(({"package"} \X parsed) \cup ({"dist", "pth"} \X Paths))
       /\ \A m \in Paths : <<"package", m>> \in ToSet(Packages[d]) =>
            LET above == Up[DirOf[m]] IN
              IF is("scoped", m) THEN Len(above) > 2 /\ above[3] = d
                                 ELSE Len(above) > 1 /\ above[2] = d
       /\ Phantoms[d] \cap Paths \subseteq absent
       /\ d \in Scope => /\ Phantoms[d] \subseteq Scope
                         /\ \A k \in 1..Len(Packages[d]) : Packages[d][k][2] \in Scope
  /\ \A m \in Paths :
       /\ PayloadFiles[m] \cap Paths \subseteq absent
       /\ m \in Scope => PayloadFiles[m] \cup Entries[m] \subseteq Scope

(* The orders of the walk are of the same visits, and in each of them a      *)
(* directory is listed before what is in it is visited.                      *)
ASSUME WalksAssumption ==
  /\ \A v, w \in Walks : ToSet(v) = ToSet(w)
  /\ \A w \in Walks : \A k \in DOMAIN w :
       LET before(d) == \E j \in 1..(k - 1) : w[j] = <<"list", d>> IN
       /\ w[k][1] = "file" => w[k][2] \in Paths /\ before(DirOf[w[k][2]])
       /\ w[k][1] \in {"list", "modules"} =>
            w[k][2] \in Dirs /\ (top(w[k][2]) \/ before(parent(w[k][2])))

VARIABLE agenda
targetedVars == <<fileVars, scopeVars, agenda>>

tasks(check, paths) == [k \in 1..Len(paths) |-> <<check, paths[k]>>]

(* Scanner.Run, as far as the Python packages.                               *)
Agendas ==
  {tasks("artifact", Artifacts) \o tasks("npm", NpmCLIs)
     \o tasks("application", Applications) \o tasks("system", System)
     \o tasks("staging", Staging) \o tasks("toolchain", Toolchains)
     \o tasks("login", LoginFiles) \o tasks("service", ServiceFiles)
     \o walk \o SitePackages : walk \in Walks}

Perform(check, p, outcome) ==
  /\ agenda # <<>> /\ Head(agenda) = <<check, p>>
  /\ agenda' = Tail(agenda)
  /\ Conclude(outcome) /\ UNCHANGED scopeVars

-----------------------------------------------------------------------------
(* Paths whose presence is the finding: checkArtifacts, checkStagingPaths,   *)
(* checkNpmPayloadFiles, checkNodeModulesDir.  Only of a staging path is it  *)
(* told that it could not be looked up; for the others that is absence.      *)
present(p, check) == finds(p, report(check, content[p].there # "missing"))
presentAny(S, check) ==
  [Nothing EXCEPT !.found = {<<check, p>> : p \in {q \in S : content[q].there # "missing"}}]

CheckArtifact(p) ==
  Perform("artifact", p, IF pathInScope(p) THEN present(p, "known-artifact") ELSE Nothing)

refusals(p) == IF content[p].there = "unreadable" THEN BOOLEAN ELSE {FALSE}

CheckStaging(p) ==
  \E refused \in refusals(p) :
    Perform("staging", p,
      IF ~pathInScope(p) THEN Nothing
      ELSE IF refused THEN finds(p, {"scan-incomplete"})
      ELSE present(p, "runtime-staging-artifact"))

-----------------------------------------------------------------------------
(* Entrypoints that malware persists in.                                     *)

sidecars(d) == {q \in Paths : DirOf[q] = d /\ is("sidecar", q) /\ content[q].there # "missing"}

(* checkPersistenceSiblings: the sidecars beside an entrypoint, once.        *)
checkPersistenceSiblings(d) ==
  IF d \in persistenceChecked THEN Nothing
  ELSE IF d \in unlisted
    THEN [Nothing EXCEPT !.persisted = {d}, !.found = {gap(d)}]
  ELSE [Nothing EXCEPT !.persisted = {d} \cup sidecars(d),
          !.found = {<<"malicious-repo-artifact", q>> : q \in sidecars(d) \ persistenceChecked}]

(* Mutant: a file is read however often a check comes to it.                 *)
checkApplicationFile_NoMark(p) ==
  IF content[p].there = "missing" THEN Nothing
  ELSE IF content[p].there = "irregular" THEN finds(p, {"scan-incomplete"})
  ELSE processFile("application", p, inspectApplication(fileBytes(p)), FALSE)

checkApplicationFile(p) ==
  IF p \in persistenceChecked THEN Nothing
  ELSE [(IF content[p].there = "missing" THEN Nothing
         ELSE IF content[p].there = "irregular" THEN finds(p, {"scan-incomplete"})
         ELSE processFile("application", p, inspectApplication(fileBytes(p)), FALSE))
        EXCEPT !.persisted = {p}]

CheckApplication(p) ==
  Perform("application", p,
    IF pathInScope(DirOf[p])
      THEN together({checkPersistenceSiblings(DirOf[p]), checkApplicationFile(p)})
    ELSE Nothing)

(* An entrypoint that is not there is not marked, and one too large to be    *)
(* genuine is not read.                                                      *)
checkNpmFile(p) ==
  IF content[p].there = "missing" THEN Nothing
  ELSE IF content[p].there = "irregular" THEN finds(p, {"scan-incomplete"})
  ELSE [(IF content[p].size # "normal" THEN finds(p, {"patched-npm-cli"})
         ELSE processFile("npm", p, inspectNpmCLI(fileBytes(p)), FALSE))
        EXCEPT !.persisted = {p}]

CheckNpmCLI(p) ==
  Perform("npm", p,
    IF pathInScope(DirOf[p])
      THEN together({checkPersistenceSiblings(DirOf[p]), checkNpmFile(p)})
    ELSE Nothing)

CheckToolchain(p) ==
  Perform("toolchain", p,
    IF ~pathInScope(DirOf[p]) THEN Nothing
    ELSE IF DirOf[p] \in unlisted THEN finds(DirOf[p], {"scan-incomplete"})
    ELSE checkApplicationFile(p))

(* visitPersistencePath: of a tree that is not read as a project only the    *)
(* sidecars and the files of a known shape.                                  *)
visitPersistencePath(p) ==
  IF content[p].there = "missing" THEN Nothing
  ELSE IF is("sidecar", p)
    THEN IF p \in persistenceChecked THEN Nothing
         ELSE [checkRepoArtifactName(p) EXCEPT !.persisted = {p}]
  ELSE IF is("entrypoint", p) \/ is("toolchain", p) THEN checkApplicationFile(p)
  ELSE Nothing

(* checkPersistenceRoots: the scope is judged of the root.  Its walk goes on *)
(* with what a failed listing did return; lost is the listing, if any, that  *)
(* lacks the way to p.                                                       *)
systemRoot(p) == Last(Up[DirOf[p]])
failedListings(p) == {k \in DOMAIN Up[DirOf[p]] : Up[DirOf[p]][k] \in unlisted}

VisitSystem(p) ==
  \E lost \in {0} \cup failedListings(p) :
    Perform("system", p,
      IF ~pathInScope(systemRoot(p)) THEN Nothing
      ELSE together(
        {[Nothing EXCEPT !.found = {gap(Up[DirOf[p]][k]) : k \in {i \in failedListings(p) : lost <= i}}],
         IF lost = 0 THEN visitPersistencePath(p) ELSE Nothing}))

(* Mutant: the mark is taken for the check that was to follow.               *)
checkStartupFile_MarkOnly(p, optional) ==
  IF p \in persistenceChecked THEN Nothing
  ELSE IF optional /\ content[p].there \in {"missing", "unreadable"}
    THEN [Nothing EXCEPT !.persisted = {p}]
  ELSE [processFile("startup", p, inspectStartupContent(Ext[p], fileBytes(p)), FALSE)
        EXCEPT !.persisted = {p}]

checkStartupFile(p, optional) ==
  IF p \in persistenceChecked \/ (optional /\ content[p].there = "missing") THEN Nothing
  ELSE [processFile("startup", p, inspectStartupContent(Ext[p], fileBytes(p)), FALSE)
        EXCEPT !.persisted = {p}]

CheckLoginFile(p) ==
  Perform("login", p, IF pathInScope(p) THEN checkStartupFile(p, TRUE) ELSE Nothing)

(* Whether a listing has a file that came or went since the scan began is    *)
(* left open; any other is listed exactly when it is there.                  *)
seen(p) == IF content[p].there # "missing" THEN {TRUE}
           ELSE IF p \in changed THEN BOOLEAN ELSE {FALSE}

(* inspectStartupPaths walks its directories: what a listing returned may be *)
(* gone when it is read.                                                     *)
CheckServiceFile(p) ==
  \E listed \in seen(p) :
    Perform("service", p,
      IF ~pathInScope(DirOf[p]) THEN Nothing
      ELSE IF DirOf[p] \in unlisted THEN finds(DirOf[p], {"scan-incomplete"})
      ELSE IF listed THEN checkStartupFile(p, FALSE) ELSE Nothing)

-----------------------------------------------------------------------------
(* Manifests and what they name.                                             *)

(* Mutant: a target is read wherever the manifest points.                    *)
hooked_Anywhere(m) == {t \in Hooks[m] : content[t].there # "missing"}

(* checkScriptTarget reads only targets in scope; an absent one is a notice. *)
hooked(m) == {t \in Hooks[m] : pathInScope(t) /\ content[t].there # "missing"}
unhooked(m) == {t \in Hooks[m] : pathInScope(t) /\ content[t].there = "missing"}

checkScriptTarget(t) ==
  [processFile("script", t, inspectScriptTarget(fileBytes(t)), FALSE) EXCEPT !.scripted = {t}]

(* inspectDependencyTarget, on a scanner that has marked what it hooked.     *)
declared(m, marked) ==
  {t \in Entries[m] : content[t].there \in {"file", "unreadable"}} \ marked

inspectDependencyTarget(t) ==
  [processSourceFile("dependency", t, inspectDependency(Ext[t], sourceBytes(t)))
   EXCEPT !.scripted = {t}]

(* What a manifest that parses leads to, all of it under the manifest's own  *)
(* read: what its scripts run and, deep, what it declares.                   *)
namedBy(m) == {checkScriptTarget(t) : t \in hooked(m)}
              \cup {inspectDependencyTarget(t) : t \in IF deep THEN declared(m, hooked(m)) ELSE {}}

analyzeScript(c) == c.review = "code"

inspectManifest(m, known) ==
  IF content[m].head = "magic" THEN finds(m, {"scan-limited"})
  ELSE IF content[m].head # "text" THEN finds(m, {"scan-incomplete"})
  ELSE together(namedBy(m) \cup
         {finds(m, inspectGeneralContent(content[m])
                   \cup report("compromised-version", content[m].declares /\ known)
                   \cup report("suspicious-install-script", analyzeScript(content[m]))),
          [Nothing EXCEPT !.found = {<<"missing-script-target", t>> : t \in unhooked(m)}]})

(* A manifest is read once.  known: the name it is looked up by is the full  *)
(* name of the package.                                                      *)
checkPackageManifest(m, known, optional) ==
  IF m \in packageChecked THEN Nothing
  ELSE [together({processFile("manifest", m, {}, optional)}
                 \cup IF readable(m) THEN {inspectManifest(m, known)} ELSE {})
        EXCEPT !.packaged = {m}]

(* scanNodeModulesPackages: a scope that cannot be listed, or a link to a    *)
(* package that cannot be followed, is a gap, and what it holds is not met.  *)
scopeFails(m) == is("scoped", m) /\ parent(DirOf[m]) \in unlisted
linkErrors(m) == IF content[m].there \in {"missing", "unreadable"} THEN BOOLEAN ELSE {FALSE}

(* Mutant: the manifest of an installed package has to be there.             *)
CheckPackage_Required(m) ==
  \E broken \in linkErrors(m) :
    Perform("package", m,
      IF scopeFails(m) THEN finds(parent(DirOf[m]), {"scan-incomplete"})
      ELSE IF broken THEN finds(DirOf[m], {"scan-incomplete"})
      ELSE together({checkPackageManifest(m, TRUE, FALSE),
                     presentAny(PayloadFiles[m], "npm-payload-file")}))

CheckPackage(m) ==
  \E broken \in linkErrors(m) :
    Perform("package", m,
      IF scopeFails(m) THEN finds(parent(DirOf[m]), {"scan-incomplete"})
      ELSE IF broken THEN finds(DirOf[m], {"scan-incomplete"})
      ELSE together({checkPackageManifest(m, TRUE, TRUE),
                     presentAny(PayloadFiles[m], "npm-payload-file")}))

(* A directory of packages puts them on the agenda, in os.ReadDir's order.   *)
Enter(check, d, met, outcome) ==
  /\ agenda # <<>> /\ Head(agenda) = <<check, d>>
  /\ agenda' = (IF met /\ d \notin unlisted THEN Packages[d] ELSE <<>>) \o Tail(agenda)
  /\ Conclude(IF ~met THEN Nothing
              ELSE together({outcome, finds(d, report("scan-incomplete", d \in unlisted))}))
  /\ UNCHANGED scopeVars

CheckNodeModulesDir(d) ==
  Enter("modules", d, visited(d), presentAny(Phantoms[d], "phantom-dependency"))

CheckSitePackagesDir(d) == Enter("site", d, pathInScope(d) /\ found(d), Nothing)

CheckComposerVendor(m) ==
  Perform("vendor", m,
    IF ~visited(parent(DirOf[m])) \/ content[m].there = "missing" THEN Nothing
    ELSE together({processFile("composer", m,
                               IF content[m].head # "text" THEN {"scan-incomplete"}
                               ELSE report("compromised-composer-version", content[m].declares),
                               FALSE)}
                  \cup {inspectDependencyTarget(t) :
                          t \in IF deep /\ readable(m) /\ content[m].head = "text"
                                  THEN declared(m, {}) ELSE {}}))

(* entry_points.txt, if there is one, and the modules its commands run.      *)
inspectPythonEntrypoints(m) ==
  together({processFile("points", m, {}, TRUE)} \cup
           {inspectDependencyTarget(t) : t \in IF readable(m) THEN declared(m, {}) ELSE {}})

CheckDistInfo(m) ==
  Perform("dist", m,
    together({finds(m, report("compromised-python-version", is("baddist", m)))} \cup
             IF deep THEN {inspectPythonEntrypoints(m)} ELSE {}))

CheckPthFile(p) ==
  \E listed \in seen(p) :
    Perform("pth", p,
      IF ~listed THEN Nothing
      ELSE IF is("badpth", p) THEN finds(p, {"malicious-pth-file"})
      ELSE processFile("pth", p, inspectPth(deep, fileBytes(p)), FALSE))

-----------------------------------------------------------------------------
(* The project walk.                                                         *)

checkSourceFile(p) ==
  IF is("startup", p) THEN checkStartupFile(p, FALSE)
  ELSE IF is("toolchain", p) THEN checkApplicationFile(p)
  ELSE IF is("manifest", p) THEN checkPackageManifest(p, ~is("scoped", p), FALSE)
  ELSE IF p \in persistenceChecked \cup scriptChecked THEN Nothing
  ELSE IF is("entrypoint", p) THEN checkApplicationFile(p)
  ELSE IF is("sidecar", p) \/ is("artifact", p) THEN checkRepoArtifactName(p)
  ELSE IF is("gitignore", p) THEN processFile("gitignore", p, inspectGitignore(fileBytes(p)), FALSE)
  ELSE processSourceFile("source", p, inspectSourceContent(Ext[p], sourceBytes(p)))

(* scanDirFiles: of a config directory that the walk ends at, its own files. *)
scanDirFiles(d) == "config" \in DirKind[d] /\ ~pruned(parent(d)) /\ d \notin unlisted

(* Of what is pruned, persistenceOrDescend walks the names.                  *)
visitProject(p) ==
  together((IF ~pruned(DirOf[p]) \/ scanDirFiles(DirOf[p])
              THEN {IF routineContentFile(p) THEN checkSourceFile(p) ELSE Nothing} ELSE {})
           \cup IF pruned(DirOf[p]) THEN {visitPersistencePath(p)} ELSE {})

(* What the walk was shown may be gone when it gets there.                   *)
VisitFile(p) == Perform("file", p, IF p \in entries THEN visitProject(p) ELSE Nothing)

ListDirectory(d) ==
  /\ agenda # <<>> /\ Head(agenda) = <<"list", d>>
  /\ agenda' = Tail(agenda)
  /\ Conclude(finds(d, report("scan-incomplete", found(d) /\ d \in unlisted)))
  /\ List(d)

(* checkProjectArtifactDir: a config directory, before the walk enters it.   *)
CheckConfigDir(d) ==
  /\ agenda # <<>> /\ Head(agenda) = <<"config", d>>
  /\ agenda' = Tail(agenda)
  /\ Conclude(IF visited(d) THEN presentAny(Phantoms[d], "project-artifact") ELSE Nothing)
  /\ UNCHANGED scopeVars

Check(p) ==
  \/ CheckArtifact(p) \/ CheckNpmCLI(p) \/ CheckApplication(p) \/ VisitSystem(p)
  \/ CheckStaging(p) \/ CheckToolchain(p) \/ CheckLoginFile(p) \/ CheckServiceFile(p)
  \/ VisitFile(p) \/ CheckPackage(p) \/ CheckComposerVendor(p) \/ CheckPthFile(p)
  \/ CheckDistInfo(p)

CheckDir(d) ==
  \/ ListDirectory(d) \/ CheckNodeModulesDir(d) \/ CheckSitePackagesDir(d) \/ CheckConfigDir(d)

TargetedInit == FilesInit /\ ScopeInit /\ agenda \in Agendas
TargetedNext ==
  /\ agenda # <<>>
  /\ \E p \in {Head(agenda)[2]} : (p \in Paths /\ Check(p)) \/ (p \in Dirs /\ CheckDir(p))
=============================================================================
