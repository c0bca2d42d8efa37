------------------------- MODULE LocalChecks_proofs --------------------------
(***************************************************************************)
(* What the checks of one machine's files and processes keep to, for any   *)
(* number of files, directories, packages and processes, whatever the      *)
(* files are called and however they change: a mark is earned, a file the  *)
(* persistence checks share is read by one of them, -only stays inside the *)
(* roots, a file that is as usual gives rise to no word, and of the        *)
(* processes in the snapshot none is forgotten.                            *)
(*                                                                         *)
(* A check is judged by its outcome, before it is known which task it was: *)
(* an outcome is Good if its marks are earned, if what it reads for        *)
(* persistence it marks and found unmarked, and if it stays inside; it is  *)
(* Quiet if it has no word of a genuine file.  What several checks amount  *)
(* to together is good, and quiet, if each of them is.                     *)
(*                                                                         *)
(* What is to be found is a matter of promises.  Every task on the agenda  *)
(* carries one, and an outcome Keeps it if it comes with a finding, a gap, *)
(* or an inspection of the file the promise is about.  A mark stops later  *)
(* checks, so an outcome also Tells: each of its marks comes with what the *)
(* mark keeps from being found.  Together they give EvidenceInv, that      *)
(* every promise is either still on the agenda or kept.                    *)
(***************************************************************************)
EXTENDS LocalChecksInv, TLAPS

Earned(o) ==
  \A p \in Paths \cap (o.persisted \cup o.scripted) :
    content[p].there \in {"file", "unreadable"} =>
      \/ p \in persistenceChecked \cup scriptChecked
      \/ gap(p) \in o.found
      \/ \E r \in o.read : r[2] = p
      \/ \E k \in criticals : <<k, p>> \in o.found

Once(o) ==
  \A r \in o.read : r[1] \in Persistence => r[2] \in o.persisted \ persistenceChecked

Inside(o) ==
  only => (\A r \in o.read : r[2] \in Scope) /\ (\A f \in o.found : f[2] \in Scope)

Good(o) == Earned(o) /\ Once(o) /\ Inside(o)

outcome(f, r) ==
  [found |-> f, read |-> r, persisted |-> {}, scripted |-> {}, packaged |-> {}]

\* A check that comes to nothing is good.
LEMMA NothingIsGood == Good(Nothing)
  BY DEF Good, Earned, Once, Inside, Nothing

\* What is good one by one is good together.
LEMMA TogetherIsGood ==
  ASSUME NEW O, \A o \in O : Good(o)
  PROVE  Good(together(O))
<1>1. Earned(together(O))
  <2> SUFFICES ASSUME NEW o \in O, NEW p \in Paths, p \in o.persisted \cup o.scripted,
                      content[p].there \in {"file", "unreadable"},
                      p \notin persistenceChecked \cup scriptChecked
               PROVE  \/ gap(p) \in UNION {x.found : x \in O}
                      \/ \E r \in UNION {x.read : x \in O} : r[2] = p
                      \/ \E k \in criticals : <<k, p>> \in UNION {x.found : x \in O}
    BY DEF Earned, together
  <2>1. \/ gap(p) \in o.found
        \/ \E r \in o.read : r[2] = p
        \/ \E k \in criticals : <<k, p>> \in o.found
    BY DEF Good, Earned
  <2> QED
    BY <2>1
<1>2. Once(together(O))
  BY DEF Good, Once, together
<1>3. Inside(together(O))
  BY DEF Good, Inside, together
<1> QED
  BY <1>1, <1>2, <1>3 DEF Good

\* Two at a time.
LEMMA PairIsGood ==
  ASSUME NEW a, NEW b, Good(a), Good(b)
  PROVE  Good(together({a, b}))
  BY TogetherIsGood

\* A word about a path inside is good.
LEMMA FindsIsGood ==
  ASSUME NEW p, NEW checks, only => p \in Scope
  PROVE  Good(finds(p, checks))
<1>1. finds(p, checks) = outcome({<<k, p>> : k \in checks}, {})
  BY DEF finds, Nothing, outcome
<1>2. \A f \in {<<k, p>> : k \in checks} : f[2] = p
  OBVIOUS
<1> QED
  BY <1>1, <1>2 DEF Good, Earned, Once, Inside, outcome

\* Words about several.
LEMMA WordsAreGood ==
  ASSUME NEW o, NEW F, o = outcome(F, {}), only => \A f \in F : f[2] \in Scope
  PROVE  Good(o)
  BY DEF Good, Earned, Once, Inside, outcome

\* A read leaves no mark, speaks of its own file only, and of a file that is
\* there it takes the content or says that it could not.
LEMMA ProcessFileShape ==
  ASSUME NEW how, NEW p, NEW checks, NEW optional
  PROVE  \E f, r : /\ processFile(how, p, checks, optional) = outcome(f, r)
                   /\ r \subseteq {<<how, p>>}
                   /\ \A x \in f : x[2] = p
                   /\ content[p].there \in {"file", "unreadable"} =>
                        gap(p) \in f \/ r = {<<how, p>>}
<1> DEFINE said(S) == {<<k, p>> : k \in S}
<1>1. ASSUME NEW S
      PROVE  finds(p, S) = outcome(said(S), {}) /\ \A x \in said(S) : x[2] = p
  <2>1. \A x \in said(S) : x[2] = p
    OBVIOUS
  <2>2. finds(p, S) = [Nothing EXCEPT !.found = said(S)]
    BY DEF finds
  <2> HIDE DEF said
  <2>3. finds(p, S) = outcome(said(S), {})
    BY <2>2 DEF Nothing, outcome
  <2> QED
    BY <2>1, <2>3
<1>2. CASE content[p].there = "irregular" \/ (optional /\ content[p].there = "missing")
  <2>1. processFile(how, p, checks, optional) = outcome({}, {})
    BY <1>2 DEF processFile, Nothing, outcome
  <2> QED
    BY <2>1, <1>2
<1>3. CASE /\ ~(content[p].there = "irregular" \/ (optional /\ content[p].there = "missing"))
           /\ ~readable(p)
  <2>1. processFile(how, p, checks, optional) = outcome(said({"scan-incomplete"}), {})
    BY <1>3, <1>1 DEF processFile
  <2>2. gap(p) \in said({"scan-incomplete"})
    BY DEF gap
  <2> HIDE DEF said
  <2> QED
    BY <2>1, <2>2, <1>1
<1>4. CASE /\ ~(content[p].there = "irregular" \/ (optional /\ content[p].there = "missing"))
           /\ readable(p)
  <2> DEFINE words == checks \cup report("scan-limited", nativeExecutable(p))
  <2>1. processFile(how, p, checks, optional) = [finds(p, words) EXCEPT !.read = {<<how, p>>}]
    BY <1>4 DEF processFile
  <2> HIDE DEF said, words
  <2>2. processFile(how, p, checks, optional) = outcome(said(words), {<<how, p>>})
    <3>1. finds(p, words) = outcome(said(words), {})
      BY <1>1
    <3> QED
      BY <2>1, <3>1 DEF outcome
  <2> QED
    BY <2>2, <1>1
<1> QED
  BY <1>2, <1>3, <1>4

\* A read that none of the persistence checks asked for, of a file inside.
LEMMA ProcessFileIsGood ==
  ASSUME NEW how, NEW p, NEW checks, NEW optional,
         how \notin Persistence, only => p \in Scope
  PROVE  Good(processFile(how, p, checks, optional))
<1>1. PICK f, r : /\ processFile(how, p, checks, optional) = outcome(f, r)
                  /\ r \subseteq {<<how, p>>}
                  /\ \A x \in f : x[2] = p
  BY ProcessFileShape
<1> QED
  BY <1>1 DEF Good, Earned, Once, Inside, outcome

LEMMA ProcessSourceFileIsGood ==
  ASSUME NEW how, NEW p, NEW checks, how \notin Persistence, only => p \in Scope
  PROVE  Good(processSourceFile(how, p, checks))
  BY ProcessFileIsGood DEF processSourceFile

\* A read whose file is marked with it, for a persistence check or not.
LEMMA MarkedReadIsGood ==
  ASSUME NEW how, NEW p, NEW checks, NEW optional,
         p \notin persistenceChecked, only => p \in Scope
  PROVE  Good([processFile(how, p, checks, optional) EXCEPT !.persisted = {p}])
<1>1. PICK f, r : /\ processFile(how, p, checks, optional) = outcome(f, r)
                  /\ r \subseteq {<<how, p>>}
                  /\ \A x \in f : x[2] = p
                  /\ content[p].there \in {"file", "unreadable"} =>
                       gap(p) \in f \/ r = {<<how, p>>}
  BY ProcessFileShape
<1>2. [processFile(how, p, checks, optional) EXCEPT !.persisted = {p}] =
        [found |-> f, read |-> r, persisted |-> {p}, scripted |-> {}, packaged |-> {}]
  BY <1>1 DEF outcome
<1> DEFINE o == [found |-> f, read |-> r, persisted |-> {p}, scripted |-> {}, packaged |-> {}]
<1>3. Earned(o)
  BY <1>1 DEF Earned
<1>4. Once(o) /\ Inside(o)
  BY <1>1 DEF Once, Inside
<1> QED
  BY <1>2, <1>3, <1>4 DEF Good

LEMMA ScriptedReadIsGood ==
  ASSUME NEW how, NEW p, NEW checks, NEW optional, how \notin Persistence, only => p \in Scope
  PROVE  Good([processFile(how, p, checks, optional) EXCEPT !.scripted = {p}])
<1>1. PICK f, r : /\ processFile(how, p, checks, optional) = outcome(f, r)
                  /\ r \subseteq {<<how, p>>}
                  /\ \A x \in f : x[2] = p
                  /\ content[p].there \in {"file", "unreadable"} =>
                       gap(p) \in f \/ r = {<<how, p>>}
  BY ProcessFileShape
<1>2. [processFile(how, p, checks, optional) EXCEPT !.scripted = {p}] =
        [found |-> f, read |-> r, persisted |-> {}, scripted |-> {p}, packaged |-> {}]
  <2> DEFINE read == processFile(how, p, checks, optional)
  <2>1. read = [found |-> f, read |-> r, persisted |-> {}, scripted |-> {}, packaged |-> {}]
    BY <1>1 DEF outcome
  <2> HIDE DEF read
  <2>2. [read EXCEPT !.scripted = {p}] =
          [found |-> f, read |-> r, persisted |-> {}, scripted |-> {p}, packaged |-> {}]
    BY <2>1
  <2> QED
    BY <2>2 DEF read
<1> DEFINE o == [found |-> f, read |-> r, persisted |-> {}, scripted |-> {p}, packaged |-> {}]
<1>3. Earned(o)
  BY <1>1 DEF Earned
<1>4. Once(o) /\ Inside(o)
  BY <1>1 DEF Once, Inside
<1> QED
  BY <1>2, <1>3, <1>4 DEF Good

-----------------------------------------------------------------------------
(* The checks, one after the other.                                        *)

\* A file that was found not to be a file is marked without a read.
LEMMA MarkedWordsAreGood ==
  ASSUME NEW o, NEW F, NEW p, o = outcome(F, {}), only => \A f \in F : f[2] \in Scope,
         \/ content[p].there \notin {"file", "unreadable"}
         \/ \E k \in criticals : <<k, p>> \in F
  PROVE  Good([o EXCEPT !.persisted = {p}])
<1> DEFINE m == [found |-> F, read |-> {}, persisted |-> {p}, scripted |-> {}, packaged |-> {}]
<1>1. [o EXCEPT !.persisted = {p}] = m
  BY DEF outcome
<1>2. Earned(m) /\ Once(m) /\ Inside(m)
  BY DEF Earned, Once, Inside
<1> QED
  BY <1>1, <1>2 DEF Good

\* What finds amounts to.
LEMMA FindsShape ==
  ASSUME NEW p, NEW checks
  PROVE  \E F : /\ finds(p, checks) = outcome(F, {}) /\ \A f \in F : f[2] = p
                /\ \A k \in checks : <<k, p>> \in F
<1> DEFINE F == {<<k, p>> : k \in checks}
<1>1. (\A f \in F : f[2] = p) /\ \A k \in checks : <<k, p>> \in F
  OBVIOUS
<1>2. finds(p, checks) = [Nothing EXCEPT !.found = F]
  BY DEF finds
<1> HIDE DEF F
<1>3. finds(p, checks) = outcome(F, {})
  BY <1>2 DEF Nothing, outcome
<1> QED
  BY <1>1, <1>3

LEMMA PresentAnyIsGood ==
  ASSUME NEW S, NEW check, only => S \subseteq Scope
  PROVE  Good(presentAny(S, check))
<1> DEFINE F == {<<check, p>> : p \in {q \in S : content[q].there # "missing"}}
<1>1. only => \A f \in F : f[2] \in Scope
  OBVIOUS
<1>2. presentAny(S, check) = [Nothing EXCEPT !.found = F]
  BY DEF presentAny
<1> HIDE DEF F
<1>3. presentAny(S, check) = outcome(F, {})
  BY <1>2 DEF Nothing, outcome
<1> QED
  BY <1>1, <1>3, WordsAreGood

LEMMA SiblingsAreGood ==
  ASSUME NEW d \in Dirs, only => d \in Scope
  PROVE  Good(checkPersistenceSiblings(d))
<1>1. CASE d \in persistenceChecked
  BY <1>1, NothingIsGood DEF checkPersistenceSiblings
<1>2. CASE d \notin persistenceChecked /\ d \in unlisted
  <2> DEFINE o == [found |-> {gap(d)}, read |-> {}, persisted |-> {d}, scripted |-> {},
                   packaged |-> {}]
  <2>1. checkPersistenceSiblings(d) = o
    BY <1>2 DEF checkPersistenceSiblings, Nothing
  <2>2. Earned(o) /\ Once(o) /\ Inside(o)
    BY FilesAssumption DEF Earned, Once, Inside, gap
  <2> QED
    BY <2>1, <2>2 DEF Good
<1>3. CASE d \notin persistenceChecked /\ d \notin unlisted
  <2> DEFINE S == sidecars(d)
             F == {<<"malicious-repo-artifact", q>> : q \in S \ persistenceChecked}
             o == [found |-> F, read |-> {}, persisted |-> {d} \cup S, scripted |-> {},
                   packaged |-> {}]
  <2>1. checkPersistenceSiblings(d) = o
    BY <1>3 DEF checkPersistenceSiblings, Nothing
  <2>2. S \subseteq Paths /\ (only => S \subseteq Scope)
    BY FilesAssumption DEF sidecars
  <2> HIDE DEF S
  <2>3. Earned(o)
    BY FilesAssumption, <2>2 DEF Earned, criticals
  <2>4. Once(o) /\ Inside(o)
    BY <2>2 DEF Once, Inside
  <2> HIDE DEF o
  <2> QED
    BY <2>1, <2>3, <2>4 DEF Good, S
<1> QED
  BY <1>1, <1>2, <1>3

LEMMA ApplicationFileIsGood ==
  ASSUME NEW p, only => p \in Scope
  PROVE  Good(checkApplicationFile(p))
<1>1. CASE p \in persistenceChecked
  BY <1>1, NothingIsGood DEF checkApplicationFile
<1>2. CASE p \notin persistenceChecked /\ content[p].there = "missing"
  <2> DEFINE F == {}
  <2>1. Nothing = outcome(F, {}) /\ \A f \in F : f[2] \in Scope
    BY DEF Nothing, outcome
  <2> HIDE DEF F
  <2>2. Good([Nothing EXCEPT !.persisted = {p}])
    BY <1>2, <2>1, MarkedWordsAreGood
  <2> QED
    BY <1>2, <2>2 DEF checkApplicationFile
<1>3. CASE p \notin persistenceChecked /\ content[p].there = "irregular"
  <2>1. PICK F : finds(p, {"scan-incomplete"}) = outcome(F, {}) /\ \A f \in F : f[2] = p
    BY FindsShape
  <2>2. Good([finds(p, {"scan-incomplete"}) EXCEPT !.persisted = {p}])
    BY <1>3, <2>1, MarkedWordsAreGood
  <2> QED
    BY <1>3, <2>2 DEF checkApplicationFile
<1>4. CASE p \notin persistenceChecked /\ content[p].there \notin {"missing", "irregular"}
  <2> DEFINE checks == inspectApplication(fileBytes(p))
             optional == FALSE
  <2> HIDE DEF checks, optional
  <2>1. Good([processFile("application", p, checks, optional) EXCEPT !.persisted = {p}])
    BY <1>4, MarkedReadIsGood
  <2> QED
    BY <1>4, <2>1 DEF checkApplicationFile, checks, optional
<1> QED
  BY <1>1, <1>2, <1>3, <1>4

LEMMA NpmFileIsGood ==
  ASSUME NEW p, p \notin persistenceChecked, only => p \in Scope
  PROVE  Good(checkNpmFile(p))
<1>1. CASE content[p].there = "missing"
  BY <1>1, NothingIsGood DEF checkNpmFile
<1>2. CASE content[p].there = "irregular"
  BY <1>2, FindsIsGood DEF checkNpmFile
<1>3. CASE content[p].there \notin {"missing", "irregular"} /\ content[p].size # "normal"
  <2>1. PICK F : /\ finds(p, {"patched-npm-cli"}) = outcome(F, {})
                 /\ \A f \in F : f[2] = p
                 /\ \A k \in {"patched-npm-cli"} : <<k, p>> \in F
    BY FindsShape
  <2>2. \E k \in criticals : <<k, p>> \in F
    BY <2>1 DEF criticals
  <2>3. Good([finds(p, {"patched-npm-cli"}) EXCEPT !.persisted = {p}])
    BY <2>1, <2>2, MarkedWordsAreGood
  <2> QED
    BY <1>3, <2>3 DEF checkNpmFile
<1>4. CASE content[p].there \notin {"missing", "irregular"} /\ content[p].size = "normal"
  <2> DEFINE checks == inspectNpmCLI(fileBytes(p))
             optional == FALSE
  <2> HIDE DEF checks, optional
  <2>1. Good([processFile("npm", p, checks, optional) EXCEPT !.persisted = {p}])
    BY MarkedReadIsGood
  <2> QED
    BY <1>4, <2>1 DEF checkNpmFile, checks, optional
<1> QED
  BY <1>1, <1>2, <1>3, <1>4

LEMMA StartupFileIsGood ==
  ASSUME NEW p, NEW optional, only => p \in Scope
  PROVE  Good(checkStartupFile(p, optional))
<1>1. CASE p \in persistenceChecked \/ (optional /\ content[p].there = "missing")
  BY <1>1, NothingIsGood DEF checkStartupFile
<1>2. CASE ~(p \in persistenceChecked \/ (optional /\ content[p].there = "missing"))
  <2> DEFINE checks == inspectStartupContent(Ext[p], fileBytes(p))
             required == FALSE
  <2> HIDE DEF checks, required
  <2>1. Good([processFile("startup", p, checks, required) EXCEPT !.persisted = {p}])
    BY <1>2, MarkedReadIsGood
  <2> QED
    BY <1>2, <2>1 DEF checkStartupFile, checks, required
<1> QED
  BY <1>1, <1>2

LEMMA PersistencePathIsGood ==
  ASSUME NEW p, only => p \in Scope
  PROVE  Good(visitPersistencePath(p))
<1>1. CASE content[p].there # "missing" /\ is("sidecar", p) /\ p \notin persistenceChecked
  <2> DEFINE checks == report("malicious-repo-artifact", is("sidecar", p) \/ is("artifact", p))
  <2>1. "malicious-repo-artifact" \in checks
    BY <1>1 DEF report
  <2>2. checkRepoArtifactName(p) = finds(p, checks)
    BY DEF checkRepoArtifactName
  <2> HIDE DEF checks
  <2>3. PICK F : /\ finds(p, checks) = outcome(F, {}) /\ \A f \in F : f[2] = p
                 /\ \A k \in checks : <<k, p>> \in F
    BY FindsShape
  <2>4. \E k \in criticals : <<k, p>> \in F
    BY <2>1, <2>3 DEF criticals
  <2>5. Good([finds(p, checks) EXCEPT !.persisted = {p}])
    BY <2>3, <2>4, MarkedWordsAreGood
  <2> QED
    BY <1>1, <2>2, <2>5 DEF visitPersistencePath
<1>2. CASE ~(content[p].there # "missing" /\ is("sidecar", p) /\ p \notin persistenceChecked)
  BY <1>2, NothingIsGood, ApplicationFileIsGood DEF visitPersistencePath
<1> QED
  BY <1>1, <1>2

-----------------------------------------------------------------------------
(* Manifests and what they name.                                           *)

LEMMA ScriptTargetIsGood ==
  ASSUME NEW t, only => t \in Scope
  PROVE  Good(checkScriptTarget(t))
<1> DEFINE checks == inspectScriptTarget(fileBytes(t))
           optional == FALSE
<1> HIDE DEF checks, optional
<1>1. Good([processFile("script", t, checks, optional) EXCEPT !.scripted = {t}])
  BY ScriptedReadIsGood DEF Persistence
<1> QED
  BY <1>1 DEF checkScriptTarget, checks, optional

LEMMA DependencyTargetIsGood ==
  ASSUME NEW t, only => t \in Scope
  PROVE  Good(inspectDependencyTarget(t))
<1> DEFINE checks == inspectDependency(Ext[t], sourceBytes(t))
                     \cup report("scan-limited", binarySource(t))
           optional == FALSE
<1> HIDE DEF checks, optional
<1>1. Good([processFile("dependency", t, checks, optional) EXCEPT !.scripted = {t}])
  BY ScriptedReadIsGood DEF Persistence
<1> QED
  BY <1>1 DEF inspectDependencyTarget, processSourceFile, checks, optional

\* Under -only a manifest inside declares what lies inside.
LEMMA DeclaredIsInside ==
  ASSUME NEW m \in Paths, NEW marked, only => m \in Scope, NEW t \in declared(m, marked)
  PROVE  only => t \in Scope
  BY TargetsAssumption DEF declared

LEMMA ManifestIsGood ==
  ASSUME NEW m \in Paths, NEW known, only => m \in Scope
  PROVE  Good(inspectManifest(m, known))
<1>1. CASE content[m].head # "text"
  BY <1>1, FindsIsGood DEF inspectManifest
<1>2. CASE content[m].head = "text"
  <2> DEFINE checks == inspectGeneralContent(content[m])
                       \cup report("compromised-version", content[m].declares /\ known)
                       \cup report("suspicious-install-script", analyzeScript(content[m]))
             F == {<<"missing-script-target", t>> : t \in unhooked(m)}
             absent == [Nothing EXCEPT !.found = F]
             O == namedBy(m) \cup {finds(m, checks), absent}
  <2>1. inspectManifest(m, known) = together(O)
    BY <1>2 DEF inspectManifest
  <2>2. only => \A f \in F : f[2] \in Scope
    BY DEF unhooked, pathInScope
  <2> HIDE DEF F, checks
  <2>3. absent = outcome(F, {})
    BY DEF Nothing, outcome
  <2>4. Good(absent) /\ Good(finds(m, checks))
    BY <2>2, <2>3, WordsAreGood, FindsIsGood
  <2>5. ASSUME NEW t \in hooked(m)
        PROVE  Good(checkScriptTarget(t))
    BY ScriptTargetIsGood DEF hooked, pathInScope
  <2>6. ASSUME NEW t \in declared(m, hooked(m))
        PROVE  Good(inspectDependencyTarget(t))
    BY DependencyTargetIsGood, DeclaredIsInside
  <2>7. \A o \in namedBy(m) : Good(o)
    <3> SUFFICES ASSUME NEW o \in namedBy(m)
                 PROVE  Good(o)
      OBVIOUS
    <3>1. \/ \E t \in hooked(m) : o = checkScriptTarget(t)
          \/ \E t \in declared(m, hooked(m)) : o = inspectDependencyTarget(t)
      BY DEF namedBy
    <3> QED
      BY <3>1, <2>5, <2>6
  <2>8. \A o \in O : Good(o)
    BY <2>4, <2>7
  <2> HIDE DEF O
  <2> QED
    BY <2>1, <2>8, TogetherIsGood
<1> QED
  BY <1>1, <1>2

LEMMA PackageManifestIsGood ==
  ASSUME NEW m \in Paths, NEW known, NEW optional, only => m \in Scope
  PROVE  Good(checkPackageManifest(m, known, optional))
<1>1. CASE m \in packageChecked
  BY <1>1, NothingIsGood DEF checkPackageManifest
<1>2. CASE m \notin packageChecked
  <2> DEFINE checks == {}
             read == processFile("manifest", m, checks, optional)
             O == {read} \cup IF readable(m) THEN {inspectManifest(m, known)} ELSE {}
             all == together(O)
  <2>1. checkPackageManifest(m, known, optional) = [all EXCEPT !.packaged = {m}]
    BY <1>2 DEF checkPackageManifest
  <2> HIDE DEF checks
  <2>2. Good(read)
    BY ProcessFileIsGood DEF Persistence
  <2> HIDE DEF read
  <2>3. \A o \in O : Good(o)
    BY <2>2, ManifestIsGood
  <2> HIDE DEF O
  <2>4. Good(all)
    BY <2>3, TogetherIsGood
  <2>5. PICK f, r, q, s, k : all = [found |-> f, read |-> r, persisted |-> q, scripted |-> s,
                                    packaged |-> k]
    BY DEF together
  <2> HIDE DEF all
  <2>6. [all EXCEPT !.packaged = {m}] =
          [found |-> f, read |-> r, persisted |-> q, scripted |-> s, packaged |-> {m}]
    BY <2>5
  <2>7. Good([all EXCEPT !.packaged = {m}])
    BY <2>4, <2>5, <2>6 DEF Good, Earned, Once, Inside
  <2> QED
    BY <2>1, <2>7
<1> QED
  BY <1>1, <1>2

LEMMA EntrypointsAreGood ==
  ASSUME NEW m \in Paths, only => m \in Scope
  PROVE  Good(inspectPythonEntrypoints(m))
<1> DEFINE checks == {}
           optional == TRUE
           marked == {}
           read == processFile("points", m, checks, optional)
           D == declared(m, marked)
           O == {read} \cup {inspectDependencyTarget(t) : t \in IF readable(m) THEN D ELSE {}}
<1>1. inspectPythonEntrypoints(m) = together(O)
  BY DEF inspectPythonEntrypoints
<1> HIDE DEF checks, optional, marked
<1>2. Good(read)
  BY ProcessFileIsGood DEF Persistence
<1>3. \A t \in D : Good(inspectDependencyTarget(t))
  BY DependencyTargetIsGood, DeclaredIsInside
<1> HIDE DEF read, D
<1>4. \A o \in O : Good(o)
  BY <1>2, <1>3
<1> HIDE DEF O
<1> QED
  BY <1>1, <1>4, TogetherIsGood

-----------------------------------------------------------------------------
(* The project walk.                                                       *)

LEMMA SourceFileIsGood ==
  ASSUME NEW p \in Paths, only => p \in Scope
  PROVE  Good(checkSourceFile(p))
<1> DEFINE known == ~is("scoped", p)
           optional == FALSE
           ignores == inspectGitignore(fileBytes(p))
           sources == inspectSourceContent(Ext[p], sourceBytes(p))
           words == report("malicious-repo-artifact", is("sidecar", p) \/ is("artifact", p))
           by_name == finds(p, words)
           startup == checkStartupFile(p, optional)
           manifest == checkPackageManifest(p, known, optional)
           application == checkApplicationFile(p)
           ignored == processFile("gitignore", p, ignores, optional)
           source == processSourceFile("source", p, sources)
<1>1. checkSourceFile(p) \in {startup, application, manifest, Nothing, by_name, ignored, source}
  BY DEF checkSourceFile, checkRepoArtifactName
<1> HIDE DEF known, optional, ignores, sources, words
<1>2. Good(startup) /\ Good(application) /\ Good(manifest)
  BY StartupFileIsGood, ApplicationFileIsGood, PackageManifestIsGood
<1>3. Good(Nothing) /\ Good(by_name)
  BY NothingIsGood, FindsIsGood
<1>4. Good(ignored) /\ Good(source)
  BY ProcessFileIsGood, ProcessSourceFileIsGood DEF Persistence
<1> HIDE DEF by_name, startup, manifest, application, ignored, source
<1> QED
  BY <1>1, <1>2, <1>3, <1>4

LEMMA VisitIsGood ==
  ASSUME NEW p \in Paths, only => p \in Scope
  PROVE  Good(visitProject(p))
<1> DEFINE O == (IF ~pruned(DirOf[p]) \/ scanDirFiles(DirOf[p])
                   THEN {IF routineContentFile(p) THEN checkSourceFile(p) ELSE Nothing} ELSE {})
                \cup IF pruned(DirOf[p]) THEN {visitPersistencePath(p)} ELSE {}
<1>1. visitProject(p) = together(O)
  BY DEF visitProject
<1>2. \A o \in O : o \in {checkSourceFile(p), Nothing, visitPersistencePath(p)}
  OBVIOUS
<1> HIDE DEF O
<1>3. \A o \in O : Good(o)
  BY <1>2, NothingIsGood, SourceFileIsGood, PersistencePathIsGood
<1> QED
  BY <1>1, <1>3, TogetherIsGood

-----------------------------------------------------------------------------
(* Sequences of tasks.                                                     *)

\* The tasks of one check.
LEMMA TasksLemma ==
  ASSUME NEW check, NEW paths \in Seq(Paths)
  PROVE  /\ tasks(check, paths) \in Seq({check} \X Paths)
         /\ Len(tasks(check, paths)) = Len(paths)
         /\ \A k \in 1..Len(paths) : tasks(check, paths)[k] = <<check, paths[k]>>
<1>1. Len(paths) \in Nat /\ \A k \in 1..Len(paths) : paths[k] \in Paths
  OBVIOUS
<1>2. tasks(check, paths) \in [1..Len(paths) -> {check} \X Paths]
  BY <1>1 DEF tasks
<1> QED
  BY <1>1, <1>2 DEF tasks

\* Where an element of a concatenation comes from.
LEMMA ConcatLemma ==
  ASSUME NEW S, NEW s \in Seq(S), NEW t \in Seq(S)
  PROVE  /\ s \o t \in Seq(S) /\ Len(s) \in Nat /\ Len(t) \in Nat
         /\ Len(s \o t) = Len(s) + Len(t)
         /\ \A k \in 1..Len(s \o t) :
              \/ k \in 1..Len(s) /\ (s \o t)[k] = s[k]
              \/ \E i \in 1..Len(t) : k = Len(s) + i /\ (s \o t)[k] = t[i]
<1>1. s \o t \in Seq(S) /\ Len(s) \in Nat /\ Len(t) \in Nat /\ Len(s \o t) = Len(s) + Len(t)
  OBVIOUS
<1>2. ASSUME NEW k \in 1..Len(s \o t)
      PROVE  \/ k \in 1..Len(s) /\ (s \o t)[k] = s[k]
             \/ \E i \in 1..Len(t) : k = Len(s) + i /\ (s \o t)[k] = t[i]
  <2>1. CASE k <= Len(s)
    BY <1>1, <2>1
  <2>2. CASE k > Len(s)
    <3>1. k - Len(s) \in 1..Len(t) /\ k = Len(s) + (k - Len(s))
      BY <1>1, <2>2
    <3>2. (s \o t)[k] = t[k - Len(s)]
      BY <1>1, <2>2
    <3> QED
      BY <3>1, <3>2
  <2> QED
    BY <1>1, <2>1, <2>2
<1> QED
  BY <1>1, <1>2

\* What can be taken up after the npm entrypoints.
Absent == {p \in Paths : Usual[p].there = "missing"}
Parsed == {p \in Paths : ~assetExtension(Ext[p])}
Late == ({"application", "system", "toolchain"} \X Paths) \cup ({"staging"} \X Absent)
        \cup ({"login", "service"} \X Parsed) \cup ((Met \ {"vendor", "package"}) \X Scope)
        \cup ({"vendor"} \X (Parsed \cap Scope)) \cup ({"site"} \X Dirs)

LEMMA LateLemma ==
  Late \subseteq Tasks /\ \A t \in Late : t[1] # "npm" /\ Fits(t)
<1>1. Late \subseteq Tasks
  BY FilesAssumption DEF Late, Absent, Parsed, Tasks, Fixed, Met
<1>2. ASSUME NEW t \in Late
      PROVE  t[1] # "npm" /\ Fits(t)
  <2>1. CASE t \in {"application", "system", "toolchain"} \X Paths
    BY <2>1 DEF Met, Fits
  <2>2. CASE t \in {"staging"} \X Absent
    BY <2>2 DEF Met, Fits, Absent
  <2>3. CASE t \in (Met \ {"vendor", "package"}) \X Scope
    BY <2>3 DEF Met, Fits
  <2>4. CASE t \in {"vendor"} \X (Parsed \cap Scope)
    BY <2>4 DEF Met, Fits, Parsed
  <2>5. CASE t \in {"site"} \X Dirs
    BY <2>5 DEF Met, Fits
  <2>6. CASE t \in {"login", "service"} \X Parsed
    BY <2>6 DEF Met, Fits, Parsed
  <2> QED
    BY <2>1, <2>2, <2>3, <2>4, <2>5, <2>6 DEF Late
<1> QED
  BY <1>1, <1>2

\* An agenda stays orderly when such tasks are put at its end.
LEMMA AppendLemma ==
  ASSUME NEW s, Orderly(s), NEW t \in Seq(Late)
  PROVE  Orderly(s \o t)
<1>1. s \in Seq(Tasks) /\ t \in Seq(Tasks)
  BY LateLemma DEF Orderly
<1>2. /\ s \o t \in Seq(Tasks) /\ Len(s) \in Nat /\ Len(t) \in Nat
      /\ Len(s \o t) = Len(s) + Len(t)
      /\ \A k \in 1..Len(s \o t) :
           \/ k \in 1..Len(s) /\ (s \o t)[k] = s[k]
           \/ \E i \in 1..Len(t) : k = Len(s) + i /\ (s \o t)[k] = t[i]
  BY <1>1, ConcatLemma
<1>3. \A k \in 1..Len(s \o t) :
        \/ k \in 1..Len(s) /\ (s \o t)[k] = s[k]
        \/ k > Len(s) /\ (s \o t)[k] \in Late
  <2>1. \A i \in 1..Len(t) : t[i] \in Late /\ Len(s) + i > Len(s)
    BY <1>2
  <2> QED
    BY <1>2, <2>1
<1> DEFINE u == s \o t
<1> HIDE DEF u
<1>4. u \in Seq(Tasks) /\ Len(u) \in Nat /\ Len(s) \in Nat
  BY <1>1, <1>2 DEF u
<1>5. \A k \in 1..Len(u) : \/ k \in 1..Len(s) /\ u[k] = s[k]
                           \/ k > Len(s) /\ u[k] \in Late
  BY <1>3 DEF u
<1>6. ASSUME NEW k \in 1..Len(u)
      PROVE  Fits(u[k])
  BY <1>5, <1>6, LateLemma DEF Orderly
<1>7. ASSUME NEW k \in 1..Len(u), u[k][1] = "npm"
      PROVE  /\ u[k][2] \in Paths \ persistenceChecked
             /\ "sidecar" \notin Kind[u[k][2]]
             /\ \A j \in 1..(k - 1) : u[j][1] \in {"artifact", "npm"} /\ u[j] # u[k]
  <2>1. k \in 1..Len(s) /\ u[k] = s[k]
    BY <1>5, <1>7, LateLemma
  <2>2. \A j \in 1..(k - 1) : j \in 1..Len(u) /\ j \in 1..Len(s) /\ u[j] = s[j]
    BY <2>1, <1>4, <1>5
  <2> QED
    BY <1>7, <2>1, <2>2 DEF Orderly
<1> QED
  BY <1>4, <1>6, <1>7 DEF Orderly, u

\* The agenda opens orderly.
LEMMA OpeningLemma ==
  ASSUME persistenceChecked = {}, agenda \in Agendas
  PROVE  AgendaInv
<1>1. PICK walk \in Walks :
        agenda = tasks("artifact", Artifacts) \o tasks("npm", NpmCLIs)
                   \o tasks("application", Applications) \o tasks("system", System)
                   \o tasks("staging", Staging) \o tasks("toolchain", Toolchains)
                   \o tasks("login", LoginFiles) \o tasks("service", ServiceFiles)
                   \o walk \o SitePackages
  BY DEF Agendas
<1> DEFINE a == tasks("artifact", Artifacts)
           n == tasks("npm", NpmCLIs)
           s == a \o n
<1>2. Orderly(s)
  <2>1. /\ Artifacts \in Seq(Paths) /\ NpmCLIs \in Seq(Paths)
        /\ \A k \in 1..Len(Artifacts) : Artifacts[k] \in Absent
    <3>1. Artifacts \in Seq(Absent) /\ NpmCLIs \in Seq(Paths)
      BY TargetsAssumption DEF Absent
    <3>2. Absent \subseteq Paths
      BY DEF Absent
    <3> QED
      BY <3>1, <3>2
  <2> DEFINE artifact == "artifact"
             npm == "npm"
  <2> HIDE DEF artifact, npm
  <2>2. /\ tasks(artifact, Artifacts) \in Seq({artifact} \X Paths)
        /\ Len(tasks(artifact, Artifacts)) = Len(Artifacts)
        /\ \A k \in 1..Len(Artifacts) : tasks(artifact, Artifacts)[k] = <<artifact, Artifacts[k]>>
        /\ tasks(npm, NpmCLIs) \in Seq({npm} \X Paths)
        /\ Len(tasks(npm, NpmCLIs)) = Len(NpmCLIs)
        /\ \A k \in 1..Len(NpmCLIs) : tasks(npm, NpmCLIs)[k] = <<npm, NpmCLIs[k]>>
    BY <2>1, TasksLemma
  <2>3. /\ a \in Seq({artifact} \X Paths) /\ Len(a) = Len(Artifacts)
        /\ \A k \in 1..Len(Artifacts) : a[k] = <<artifact, Artifacts[k]>>
        /\ n \in Seq({npm} \X Paths)
        /\ Len(n) = Len(NpmCLIs)
        /\ \A k \in 1..Len(NpmCLIs) : n[k] = <<npm, NpmCLIs[k]>>
    BY <2>2 DEF artifact, npm
  <2>4. {artifact} \X Paths \subseteq Tasks /\ {npm} \X Paths \subseteq Tasks
    BY DEF Tasks, Fixed, artifact, npm
  <2> HIDE DEF a, n
  <2>5. a \in Seq(Tasks) /\ n \in Seq(Tasks)
    BY <2>3, <2>4
  <2>6. /\ s \in Seq(Tasks) /\ Len(a) \in Nat /\ Len(n) \in Nat /\ Len(s) \in Nat
        /\ \A k \in 1..Len(s) : \/ k \in 1..Len(a) /\ s[k] = a[k]
                                \/ \E i \in 1..Len(n) : k = Len(a) + i /\ s[k] = n[i]
    BY <2>5, ConcatLemma
  <2> HIDE DEF s
  <2>7. \A k \in 1..Len(a) : a[k] \in {artifact} \X Absent
    BY <2>1, <2>3
  <2>8. \A k \in 1..Len(s) :
          \/ s[k] \in {artifact} \X Absent
          \/ \E i \in 1..Len(NpmCLIs) : k = Len(a) + i /\ s[k] = <<npm, NpmCLIs[i]>>
    <3>1. \A i \in 1..Len(n) : i \in 1..Len(NpmCLIs) /\ n[i] = <<npm, NpmCLIs[i]>>
      BY <2>3
    <3> SUFFICES ASSUME NEW k \in 1..Len(s)
                 PROVE  \/ s[k] \in {artifact} \X Absent
                        \/ \E i \in 1..Len(NpmCLIs) : k = Len(a) + i /\ s[k] = <<npm, NpmCLIs[i]>>
      OBVIOUS
    <3>2. CASE k \in 1..Len(a) /\ s[k] = a[k]
      BY <2>7, <3>2
    <3>3. CASE \E i \in 1..Len(n) : k = Len(a) + i /\ s[k] = n[i]
      <4> PICK i \in 1..Len(n) : k = Len(a) + i /\ s[k] = n[i]
        BY <3>3
      <4>1. i \in 1..Len(NpmCLIs) /\ n[i] = <<npm, NpmCLIs[i]>>
        BY <3>1
      <4>2. s[k] = <<npm, NpmCLIs[i]>>
        BY <4>1
      <4> QED
        BY <4>1, <4>2
    <3> QED
      BY <2>6, <3>2, <3>3
  <2>9. \A i \in 1..Len(NpmCLIs) : NpmCLIs[i] \in Paths
    BY <2>1
  <2>10. \A k \in 1..Len(s) : s[k][1] \in {artifact, npm} /\ s[k][2] \in Paths
    <3> SUFFICES ASSUME NEW k \in 1..Len(s)
                 PROVE  s[k][1] \in {artifact, npm} /\ s[k][2] \in Paths
      OBVIOUS
    <3>1. CASE s[k] \in {artifact} \X Absent
      BY <3>1 DEF Absent
    <3>2. CASE \E i \in 1..Len(NpmCLIs) : s[k] = <<npm, NpmCLIs[i]>>
      BY <3>2, <2>9
    <3> QED
      BY <2>8, <3>1, <3>2
  <2>11. \A k \in 1..Len(s) : s[k][1] = npm =>
           \E i \in 1..Len(NpmCLIs) : k = Len(a) + i /\ s[k] = <<npm, NpmCLIs[i]>>
    BY <2>8 DEF artifact, npm
  <2>12. ASSUME NEW k \in 1..Len(s), s[k][1] = npm
         PROVE  "sidecar" \notin Kind[s[k][2]] /\ \A j \in 1..(k - 1) : s[j] # s[k]
    <3>1. PICK i \in 1..Len(NpmCLIs) : k = Len(a) + i /\ s[k] = <<npm, NpmCLIs[i]>>
      BY <2>11, <2>12
    <3>2. \A x \in 1..Len(NpmCLIs) : "sidecar" \notin Kind[NpmCLIs[x]]
      BY TargetsAssumption
    <3>3. s[k][2] = NpmCLIs[i]
      BY <3>1
    <3>4. "sidecar" \notin Kind[s[k][2]]
      BY <3>2, <3>3
    <3>5. ASSUME NEW j \in 1..(k - 1), s[j] = s[k]
          PROVE  FALSE
      <4>1. j \in 1..Len(s) /\ s[j][1] = npm /\ j # k
        BY <2>6, <2>12, <3>5
      <4>2. PICK x \in 1..Len(NpmCLIs) : j = Len(a) + x /\ s[j] = <<npm, NpmCLIs[x]>>
        BY <2>11, <4>1
      <4>3. NpmCLIs[x] = NpmCLIs[i]
        BY <3>1, <3>5, <4>2
      <4>4. x = i
        BY <4>3, TargetsAssumption
      <4> QED
        BY <3>1, <4>1, <4>2, <4>4
    <3> QED
      BY <3>4, <3>5
  <2>13. ASSUME NEW k \in 1..Len(s)
         PROVE  Fits(s[k])
    <3>1. CASE s[k] \in {artifact} \X Absent
      BY <3>1 DEF Fits, Met, Absent, artifact
    <3>2. CASE \E i \in 1..Len(NpmCLIs) : s[k] = <<npm, NpmCLIs[i]>>
      BY <3>2 DEF Fits, Met, npm
    <3> QED
      BY <2>8, <3>1, <3>2
  <2>14. \A k \in 1..Len(s) : \A j \in 1..(k - 1) : j \in 1..Len(s)
    BY <2>6
  <2> QED
    BY <2>6, <2>10, <2>12, <2>13, <2>14 DEF Orderly, artifact, npm
<1>3. ASSUME NEW check, NEW S \in SUBSET Paths, NEW paths \in Seq(S), {check} \X S \subseteq Late
      PROVE  tasks(check, paths) \in Seq(Late)
  <2>1. paths \in Seq(Paths) /\ Len(paths) \in Nat /\ \A k \in 1..Len(paths) : paths[k] \in S
    OBVIOUS
  <2>2. /\ tasks(check, paths) \in Seq({check} \X Paths)
        /\ Len(tasks(check, paths)) = Len(paths)
        /\ \A k \in 1..Len(paths) : tasks(check, paths)[k] = <<check, paths[k]>>
    BY <2>1, TasksLemma
  <2> DEFINE t == tasks(check, paths)
  <2> HIDE DEF t
  <2>3. \A k \in 1..Len(paths) : <<check, paths[k]>> \in Late
    BY <1>3, <2>1
  <2>4. t \in Seq(Late)
    BY <2>2, <2>3 DEF t
  <2> QED
    BY <2>4 DEF t
<1> DEFINE t1 == tasks("application", Applications)
           t2 == tasks("system", System)
           t3 == tasks("staging", Staging)
           t4 == tasks("toolchain", Toolchains)
           t5 == tasks("login", LoginFiles)
           t6 == tasks("service", ServiceFiles)
<1>4. /\ t1 \in Seq(Late) /\ t2 \in Seq(Late) /\ t3 \in Seq(Late)
      /\ t4 \in Seq(Late) /\ t5 \in Seq(Late) /\ t6 \in Seq(Late)
  <2>1. /\ {Applications, System, Toolchains} \subseteq Seq(Paths)
        /\ Staging \in Seq(Absent) /\ {LoginFiles, ServiceFiles} \subseteq Seq(Parsed)
        /\ Absent \subseteq Paths /\ Parsed \subseteq Paths
    BY TargetsAssumption DEF Absent, Parsed
  <2>2. /\ \A check \in {"application", "system", "toolchain"} : {check} \X Paths \subseteq Late
        /\ {"staging"} \X Absent \subseteq Late
        /\ \A check \in {"login", "service"} : {check} \X Parsed \subseteq Late
    BY DEF Late
  <2>3. t1 \in Seq(Late) /\ t2 \in Seq(Late) /\ t4 \in Seq(Late)
    BY <1>3, <2>1, <2>2
  <2>4. t5 \in Seq(Late) /\ t6 \in Seq(Late)
    BY <1>3, <2>1, <2>2
  <2>5. t3 \in Seq(Late)
    BY <1>3, <2>1, <2>2
  <2> QED
    BY <2>3, <2>4, <2>5
<1>5. walk \in Seq(Late) /\ SitePackages \in Seq(Late)
  <2> DEFINE M == ({"list", "config", "modules", "file"} \X Scope)
                  \cup ({"vendor"} \X (Parsed \cap Scope))
  <2>1. walk \in Seq(M)
    BY TargetsAssumption DEF Parsed
  <2>2. M \subseteq Late
    BY DEF Late, Met
  <2>3. {"site"} \X Dirs \subseteq Late
    BY DEF Late
  <2> QED
    BY <2>1, <2>2, <2>3, TargetsAssumption
<1>6. agenda = s \o t1 \o t2 \o t3 \o t4 \o t5 \o t6 \o walk \o SitePackages
  BY <1>1
<1> HIDE DEF a, n, s, t1, t2, t3, t4, t5, t6
<1>7. Orderly(s \o t1 \o t2 \o t3)
  BY <1>2, <1>4, AppendLemma
<1>8. Orderly(s \o t1 \o t2 \o t3 \o t4 \o t5 \o t6)
  BY <1>4, <1>7, AppendLemma
<1>9. Orderly(s \o t1 \o t2 \o t3 \o t4 \o t5 \o t6 \o walk \o SitePackages)
  BY <1>5, <1>8, AppendLemma
<1> QED
  BY <1>6, <1>9 DEF AgendaInv

-----------------------------------------------------------------------------
(* One step.                                                               *)

\* A good outcome leaves everything in order that is not about the agenda.
LEMMA ConcludeLemma ==
  ASSUME CheckInv, NEW o, Good(o), Conclude(o)
  PROVE  (WorldInv /\ ReadsAreMarked /\ NothingIsReadTwice /\ OnlyReadsInside /\ MarksAreEarned)'
<1>1. /\ findings' = findings \cup o.found
      /\ inspected' = inspected \cup o.read
      /\ again' = again \cup (persistenceReads(o.read) \cap persistenceReads(inspected))
      /\ persistenceChecked' = persistenceChecked \cup o.persisted
      /\ scriptChecked' = scriptChecked \cup o.scripted
      /\ only' = only /\ content' = content /\ changed' = changed
  BY DEF Conclude, world
<1>2. WorldInv'
  BY <1>1 DEF CheckInv, WorldInv
<1>3. ReadsAreMarked'
  BY <1>1 DEF CheckInv, ReadsAreMarked, Good, Once
<1>4. NothingIsReadTwice'
  <2>1. \A q \in persistenceReads(inspected) : q \in persistenceChecked
    BY DEF persistenceReads, CheckInv, ReadsAreMarked, Persistence
  <2>2. \A q \in persistenceReads(o.read) : q \notin persistenceChecked
    BY DEF persistenceReads, Good, Once, Persistence
  <2> QED
    BY <1>1, <2>1, <2>2 DEF CheckInv, NothingIsReadTwice
<1>5. OnlyReadsInside'
  BY <1>1 DEF CheckInv, OnlyReadsInside, Good, Inside
<1>6. MarksAreEarned'
  <2> SUFFICES ASSUME NEW p \in Paths, p \in persistenceChecked' \cup scriptChecked',
                      p \notin changed, content[p].there \in {"file", "unreadable"}
               PROVE  \/ gap(p) \in findings'
                      \/ \E r \in inspected' : r[2] = p
                      \/ \E k \in criticals : <<k, p>> \in findings'
    BY <1>1 DEF MarksAreEarned, steady, hasGap
  <2>1. CASE p \in persistenceChecked \cup scriptChecked
    <3>1. \/ gap(p) \in findings
          \/ \E r \in inspected : r[2] = p
          \/ \E k \in criticals : <<k, p>> \in findings
      BY <2>1 DEF CheckInv, MarksAreEarned, steady, hasGap
    <3> QED
      BY <1>1, <3>1
  <2>2. CASE p \notin persistenceChecked \cup scriptChecked
    <3>1. \/ gap(p) \in o.found
          \/ \E r \in o.read : r[2] = p
          \/ \E k \in criticals : <<k, p>> \in o.found
      BY <1>1, <2>2 DEF Good, Earned
    <3> QED
      BY <1>1, <3>1
  <2> QED
    BY <2>1, <2>2
<1> QED
  BY <1>2, <1>3, <1>4, <1>5, <1>6

\* The rest of an orderly agenda is orderly, if the task that is gone marked
\* nothing but what an npm task marks.
LEMMA TailLemma ==
  ASSUME AgendaInv, agenda # <<>>, agenda' = Tail(agenda), only' = only,
         \A q \in Paths \cap persistenceChecked' :
           q \in persistenceChecked \/ "sidecar" \in Kind[q] \/ Head(agenda) = <<"npm", q>>
           \/ Head(agenda)[1] \notin {"artifact", "npm"}
  PROVE  AgendaInv'
<1>1. /\ agenda \in Seq(Tasks) /\ Len(agenda) \in Nat \ {0}
      /\ agenda' \in Seq(Tasks) /\ Len(agenda') = Len(agenda) - 1
      /\ Head(agenda) = agenda[1]
      /\ \A k \in 1..Len(agenda') : k + 1 \in 1..Len(agenda) /\ agenda'[k] = agenda[k + 1]
  BY DEF AgendaInv, Orderly
<1>2. ASSUME NEW k \in 1..Len(agenda')
      PROVE  Fits(agenda'[k])
  BY <1>1, <1>2 DEF AgendaInv, Orderly
<1>3. ASSUME NEW k \in 1..Len(agenda'), agenda'[k][1] = "npm"
      PROVE  /\ agenda'[k][2] \in Paths \ persistenceChecked'
             /\ "sidecar" \notin Kind[agenda'[k][2]]
             /\ \A j \in 1..(k - 1) : agenda'[j][1] \in {"artifact", "npm"} /\ agenda'[j] # agenda'[k]
  <2> DEFINE n == k + 1
  <2>1. n \in 1..Len(agenda) /\ agenda'[k] = agenda[n] /\ agenda[n][1] = "npm"
    BY <1>1, <1>3
  <2>2. /\ agenda[n][2] \in Paths \ persistenceChecked
        /\ "sidecar" \notin Kind[agenda[n][2]]
        /\ \A j \in 1..(n - 1) : agenda[j][1] \in {"artifact", "npm"} /\ agenda[j] # agenda[n]
    BY <2>1 DEF AgendaInv, Orderly
  <2>3. 1 \in 1..(n - 1) /\ \A j \in 1..(k - 1) : j + 1 \in 1..(n - 1) /\ agenda'[j] = agenda[j + 1]
    BY <1>1
  <2>4. agenda[n] = <<"npm", agenda[n][2]>>
    BY <1>1, <2>1 DEF Tasks
  <2>5. Head(agenda)[1] \in {"artifact", "npm"} /\ Head(agenda) # <<"npm", agenda[n][2]>>
    BY <1>1, <2>2, <2>3, <2>4
  <2>6. agenda[n][2] \notin persistenceChecked'
    BY <2>2, <2>5
  <2>7. \A j \in 1..(k - 1) : agenda'[j][1] \in {"artifact", "npm"} /\ agenda'[j] # agenda[n]
    BY <2>2, <2>3
  <2> HIDE DEF n
  <2> QED
    BY <2>1, <2>2, <2>6, <2>7
<1> QED
  BY <1>1, <1>2, <1>3 DEF AgendaInv, Orderly, Fits

\* A task that is no npm check, and marks nothing if it is an artifact's.
LEMMA TaskLemma ==
  ASSUME CheckInv, NEW check, NEW p, NEW o, agenda # <<>>, Head(agenda) = <<check, p>>,
         agenda' = Tail(agenda), Conclude(o), Good(o),
         check # "npm", check = "artifact" => o.persisted = {}
  PROVE  CheckInv'
<1>1. persistenceChecked' = persistenceChecked \cup o.persisted /\ only' = only
  BY DEF Conclude, world
<1>2. AgendaInv'
  <2>1. \A q \in Paths \cap persistenceChecked' :
          q \in persistenceChecked \/ Head(agenda)[1] \notin {"artifact", "npm"}
    BY <1>1
  <2> QED
    BY <1>1, <2>1, TailLemma DEF CheckInv
<1> QED
  BY <1>2, ConcludeLemma DEF CheckInv

LEMMA PerformLemma ==
  ASSUME CheckInv, NEW check, NEW p, NEW o, Perform(check, p, o), Good(o),
         check # "npm", check = "artifact" => o.persisted = {}
  PROVE  CheckInv'
  BY TaskLemma DEF Perform

\* A package lies in the directory of packages, or in a scope there.
LEMMA PackageLies ==
  ASSUME NEW d \in Dirs, NEW m \in Paths, <<"package", m>> \in ToSet(Packages[d])
  PROVE  /\ d \in Scope => DirOf[m] \in Scope /\ (is("scoped", m) => parent(DirOf[m]) \in Scope)
         /\ parent(DirOf[m]) \in Dirs
         /\ ~is("scoped", m) => ~top(DirOf[m]) /\ parent(DirOf[m]) = d
         /\ is("scoped", m) => ~top(DirOf[m]) /\ ~top(parent(DirOf[m])) /\ parent(parent(DirOf[m])) = d
<1> DEFINE e == DirOf[m]
           u == Up[e]
<1>1. e \in Dirs
  BY FilesAssumption
<1>2. IF is("scoped", m) THEN Len(u) > 2 /\ u[3] = d ELSE Len(u) > 1 /\ u[2] = d
  BY TargetsAssumption
<1> HIDE DEF e
<1>3. /\ u \in Seq(Dirs) /\ Len(u) \in Nat /\ DOMAIN u = 1..Len(u) /\ u[1] = e
      /\ Len(u) > 1 => Up[u[2]] = Tail(u)
      /\ \A j, k \in DOMAIN u : j <= k /\ u[k] \in Scope => u[j] \in Scope
  BY <1>1, ScopeAssumption
<1> HIDE DEF u
<1>4. CASE ~is("scoped", m)
  <2>1. 1 \in DOMAIN u /\ 2 \in DOMAIN u
    BY <1>2, <1>3, <1>4
  <2>2. d \in Scope => e \in Scope
    BY <1>2, <1>3, <1>4, <2>1
  <2>3. ~top(e) /\ parent(e) = d /\ parent(e) \in Dirs
    BY <1>2, <1>4, <1>3 DEF top, parent, u
  <2> QED
    BY <1>4, <2>2, <2>3 DEF e
<1>5. CASE is("scoped", m)
  <2>1. 1 \in DOMAIN u /\ 2 \in DOMAIN u /\ 3 \in DOMAIN u
    BY <1>2, <1>3, <1>5
  <2>2. d \in Scope => e \in Scope /\ u[2] \in Scope
    BY <1>2, <1>3, <1>5, <2>1
  <2>3. ~top(e) /\ parent(e) = u[2] /\ u[2] \in Dirs
    BY <1>2, <1>5, <1>3 DEF top, parent, u
  <2>4. Up[u[2]] = Tail(u) /\ Len(Tail(u)) = Len(u) - 1 /\ Tail(u)[2] = u[3]
    BY <1>2, <1>3, <1>5
  <2>5. ~top(u[2]) /\ parent(u[2]) = d
    BY <1>2, <1>3, <1>5, <2>4 DEF top, parent
  <2> QED
    BY <1>5, <2>2, <2>3, <2>5 DEF e
<1> QED
  BY <1>4, <1>5

\* A directory of packages puts their checks first.
LEMMA EnterLemma ==
  ASSUME CheckInv, NEW check, NEW d \in Dirs, NEW met, NEW o, Enter(check, d, met, o),
         Good(o), check \in {"modules", "site"}, met /\ only => d \in Scope
  PROVE  CheckInv'
<1> DEFINE s == IF met /\ d \notin unlisted THEN Packages[d] ELSE <<>>
           all == IF ~met THEN Nothing
                  ELSE together({o, finds(d, report("scan-incomplete", d \in unlisted))})
<1>1. /\ agenda # <<>> /\ Head(agenda) = <<check, d>> /\ agenda' = s \o Tail(agenda)
      /\ Conclude(all)
  BY DEF Enter
<1>2. Good(all)
  <2> DEFINE checks == report("scan-incomplete", d \in unlisted)
  <2> HIDE DEF checks
  <2>1. met => Good(finds(d, checks))
    BY FindsIsGood
  <2>2. met => Good(together({o, finds(d, checks)}))
    BY <2>1, PairIsGood
  <2> QED
    BY <2>2, NothingIsGood DEF checks
<1> HIDE DEF all
<1>3. only' = only
  BY <1>1 DEF Conclude, world
<1>4. /\ s \in Seq(({"package"} \X Parsed) \cup ({"dist", "pth"} \X Paths))
      /\ \A k \in 1..Len(s) : only => s[k][2] \in Scope
      /\ \A k \in 1..Len(s) : s[k][1] = "package" => Fits(s[k])
  <2>1. CASE met /\ d \notin unlisted
    <3>1. s = Packages[d] /\ (only => d \in Scope)
      BY <2>1
    <3>2. /\ s \in Seq(({"package"} \X Parsed) \cup ({"dist", "pth"} \X Paths))
          /\ \A k \in 1..Len(s) : only => s[k][2] \in Scope
      <4>1. /\ Packages[d] \in Seq(({"package"} \X Parsed) \cup ({"dist", "pth"} \X Paths))
            /\ d \in Scope => \A k \in 1..Len(Packages[d]) : Packages[d][k][2] \in Scope
        BY TargetsAssumption DEF Parsed
      <4> HIDE DEF s
      <4> QED
        BY <3>1, <4>1
    <3>3. ASSUME NEW k \in 1..Len(s), s[k][1] = "package"
          PROVE  Fits(s[k])
      <4> DEFINE m == s[k][2]
      <4>1. s[k] \in {"package"} \X Parsed
        BY <3>2, <3>3
      <4>2. /\ m \in Paths /\ s[k] = <<"package", m>> /\ <<"package", m>> \in ToSet(Packages[d])
            /\ only => m \in Scope
            /\ ~assetExtension(Ext[m])
        BY <3>1, <3>2, <4>1 DEF Parsed, ToSet
      <4> HIDE DEF m
      <4>3. /\ only => DirOf[m] \in Scope
            /\ is("scoped", m) => parent(DirOf[m]) \in IF only THEN Dirs \cap Scope ELSE Dirs
        BY <3>1, <4>2, PackageLies
      <4> QED
        BY <4>2, <4>3 DEF Fits, Met
    <3> QED
      BY <3>2, <3>3
  <2>2. CASE ~(met /\ d \notin unlisted)
    BY <2>2
  <2> QED
    BY <2>1, <2>2
<1> DEFINE t == Tail(agenda)
<1>5. /\ t \in Seq(Tasks)
      /\ \A i \in 1..Len(t) : t[i][1] # "npm" /\ Fits(t[i])
  <2>1. /\ agenda \in Seq(Tasks) /\ t \in Seq(Tasks) /\ Len(t) = Len(agenda) - 1
        /\ agenda[1] = <<check, d>> /\ Len(agenda) \in Nat
        /\ \A i \in 1..Len(t) : i + 1 \in 1..Len(agenda) /\ t[i] = agenda[i + 1]
                                /\ 1 \in 1..((i + 1) - 1)
    BY <1>1 DEF CheckInv, AgendaInv, Orderly
  <2> HIDE DEF t
  <2>2. ASSUME NEW i \in 1..Len(t)
        PROVE  t[i][1] # "npm" /\ Fits(t[i])
    <3> DEFINE n == i + 1
    <3>1. n \in 1..Len(agenda) /\ t[i] = agenda[n] /\ 1 \in 1..(n - 1)
      BY <2>1
    <3>2. agenda[1][1] \notin {"artifact", "npm"}
      BY <2>1
    <3> HIDE DEF n
    <3> QED
      BY <3>1, <3>2 DEF CheckInv, AgendaInv, Orderly
  <2> QED
    BY <2>1, <2>2
<1>6. agenda' = s \o t
  BY <1>1
<1> HIDE DEF s, t
<1>7. AgendaInv'
  <2>1. s \in Seq(Tasks)
    <3>1. ({"package"} \X Parsed) \cup ({"dist", "pth"} \X Paths) \subseteq Tasks
      BY DEF Tasks, Met, Parsed
    <3> QED
      BY <1>4, <3>1
  <2>2. /\ agenda' \in Seq(Tasks)
        /\ \A k \in 1..Len(agenda') : \/ k \in 1..Len(s) /\ agenda'[k] = s[k]
                                      \/ \E i \in 1..Len(t) : agenda'[k] = t[i]
    BY <1>5, <1>6, <2>1, ConcatLemma
  <2>3. \A k \in 1..Len(s) : s[k][1] # "npm" /\ Fits(s[k])
    <3> SUFFICES ASSUME NEW k \in 1..Len(s)
                 PROVE  s[k][1] # "npm" /\ Fits(s[k])
      OBVIOUS
    <3>1. CASE s[k] \in {"package"} \X Parsed
      BY <1>4, <3>1 DEF Fits, Parsed, Met
    <3>2. CASE s[k] \in {"dist", "pth"} \X Paths
      BY <1>4, <3>2 DEF Fits
    <3> QED
      BY <1>4, <3>1, <3>2
  <2>4. \A k \in 1..Len(agenda') : agenda'[k][1] # "npm" /\ Fits(agenda'[k])
    BY <1>5, <2>2, <2>3
  <2> QED
    BY <1>3, <2>2, <2>4 DEF AgendaInv, Orderly, Fits
<1> QED
  BY <1>1, <1>2, <1>7, ConcludeLemma DEF CheckInv

-----------------------------------------------------------------------------
(* Every task of Run's first three phases.                                 *)

\* What the walk meets is inside.
LEMMA MetLemma ==
  ASSUME AgendaInv, agenda # <<>>, NEW check \in Met, NEW p, Head(agenda) = <<check, p>>
  PROVE  only => p \in Scope
<1>1. agenda \in Seq(Tasks) /\ 1 \in 1..Len(agenda) /\ agenda[1] = <<check, p>>
  BY DEF AgendaInv, Orderly
<1> QED
  BY <1>1 DEF AgendaInv, Orderly, Fits

\* What a root of the persistence roots' walks has in scope, it has all the way.
LEMMA RootLemma ==
  ASSUME NEW p \in Paths
  PROVE  /\ \E k \in DOMAIN Up[DirOf[p]] : systemRoot(p) = Up[DirOf[p]][k]
         /\ Up[DirOf[p]][1] = DirOf[p] /\ 1 \in DOMAIN Up[DirOf[p]]
         /\ \A k \in DOMAIN Up[DirOf[p]] : Up[DirOf[p]][k] \in Dirs
         /\ only /\ pathInScope(systemRoot(p)) =>
              p \in Scope /\ \A k \in DOMAIN Up[DirOf[p]] : Up[DirOf[p]][k] \in Scope
<1> DEFINE d == DirOf[p]
           u == Up[d]
<1>1. d \in Dirs /\ (d \in Scope => p \in Scope)
  BY FilesAssumption
<1> HIDE DEF d
<1>2. /\ u \in Seq(Dirs) /\ Len(u) > 0 /\ u[1] = d
      /\ \A j, k \in DOMAIN u : j <= k /\ u[k] \in Scope => u[j] \in Scope
  BY <1>1, ScopeAssumption
<1> HIDE DEF u
<1>3. /\ Len(u) \in Nat /\ DOMAIN u = 1..Len(u) /\ Len(u) \in DOMAIN u /\ 1 \in DOMAIN u
      /\ Last(u) = u[Len(u)] /\ \A k \in DOMAIN u : u[k] \in Dirs /\ k <= Len(u)
  BY <1>2 DEF Last
<1>4. u[Len(u)] \in Scope => \A k \in DOMAIN u : u[k] \in Scope
  BY <1>2, <1>3
<1>5. systemRoot(p) = u[Len(u)]
  BY <1>3 DEF systemRoot, u, d
<1>6. only /\ pathInScope(u[Len(u)]) => p \in Scope /\ \A k \in DOMAIN u : u[k] \in Scope
  BY <1>1, <1>2, <1>3, <1>4 DEF pathInScope
<1> QED
  BY <1>2, <1>3, <1>5, <1>6 DEF u, d

\* What a file of the persistence roots comes to.
lostGaps(p, lost) ==
  [Nothing EXCEPT !.found = {gap(Up[DirOf[p]][k]) : k \in {i \in failedListings(p) : lost <= i}}]
systemOutcome(p, lost) ==
  IF ~pathInScope(systemRoot(p)) THEN Nothing
  ELSE together({lostGaps(p, lost), IF lost = 0 THEN visitPersistencePath(p) ELSE Nothing})

\* The gaps of failed listings are of directories.
LEMMA LostShape ==
  ASSUME NEW p \in Paths, NEW lost
  PROVE  \E F : /\ lostGaps(p, lost) = outcome(F, {})
                /\ \A f \in F : \E k \in DOMAIN Up[DirOf[p]] : f = gap(Up[DirOf[p]][k])
                /\ lost \in failedListings(p) => gap(Up[DirOf[p]][lost]) \in F
<1> DEFINE F == {gap(Up[DirOf[p]][k]) : k \in {i \in failedListings(p) : lost <= i}}
<1>1. \A f \in F : \E k \in DOMAIN Up[DirOf[p]] : f = gap(Up[DirOf[p]][k])
  BY DEF failedListings
<1>2. lost \in failedListings(p) => gap(Up[DirOf[p]][lost]) \in F
  <2>1. lost \in failedListings(p) => lost <= lost
    BY ScopeAssumption, FilesAssumption DEF failedListings
  <2> QED
    BY <2>1
<1>3. lostGaps(p, lost) = [Nothing EXCEPT !.found = F]
  BY DEF lostGaps
<1> HIDE DEF F
<1>4. lostGaps(p, lost) = outcome(F, {})
  BY <1>3 DEF Nothing, outcome
<1> QED
  BY <1>1, <1>2, <1>4

LEMMA SystemIsGood ==
  ASSUME NEW p \in Paths, NEW lost
  PROVE  Good(systemOutcome(p, lost))
<1>1. PICK F : /\ lostGaps(p, lost) = outcome(F, {})
               /\ \A f \in F : \E k \in DOMAIN Up[DirOf[p]] : f = gap(Up[DirOf[p]][k])
  BY LostShape
<1> DEFINE gaps == lostGaps(p, lost)
           rest == IF lost = 0 THEN visitPersistencePath(p) ELSE Nothing
<1>2. CASE ~pathInScope(systemRoot(p))
  BY <1>2, NothingIsGood DEF systemOutcome
<1>3. CASE pathInScope(systemRoot(p))
  <2>1. only => p \in Scope /\ \A f \in F : f[2] \in Scope
    BY <1>1, <1>3, RootLemma DEF gap
  <2>2. Good(gaps)
    BY <1>1, <2>1, WordsAreGood
  <2>3. Good(rest)
    BY <2>1, NothingIsGood, PersistencePathIsGood
  <2>4. systemOutcome(p, lost) = together({gaps, rest})
    BY <1>3 DEF systemOutcome
  <2> HIDE DEF gaps, rest
  <2> QED
    BY <2>2, <2>3, <2>4, PairIsGood
<1> QED
  BY <1>2, <1>3

\* The checks that know their paths.
LEMMA FixedPathsLemma ==
  ASSUME CheckInv, NEW p \in Paths,
         \/ CheckArtifact(p) \/ CheckStaging(p) \/ CheckApplication(p) \/ CheckToolchain(p)
         \/ VisitSystem(p) \/ CheckLoginFile(p) \/ CheckServiceFile(p)
  PROVE  CheckInv'
<1> DEFINE d == DirOf[p]
<1>1. d \in Dirs /\ (only /\ d \in Scope => p \in Scope)
  BY FilesAssumption
<1>2. CASE CheckArtifact(p)
  <2> DEFINE checks == report("known-artifact", content[p].there # "missing")
             o == IF pathInScope(p) THEN finds(p, checks) ELSE Nothing
             check == "artifact"
  <2>1. Perform(check, p, o)
    BY <1>2 DEF CheckArtifact, present
  <2>2. o.persisted = {}
    <3> HIDE DEF checks
    <3>1. PICK F : finds(p, checks) = outcome(F, {})
      BY FindsShape
    <3> QED
      BY <3>1 DEF outcome, Nothing
  <2> HIDE DEF checks
  <2>3. Good(o)
    BY NothingIsGood, FindsIsGood DEF pathInScope
  <2>4. check # "npm"
    OBVIOUS
  <2> HIDE DEF o, check
  <2> QED
    BY <2>1, <2>2, <2>3, <2>4, PerformLemma
<1>3. CASE CheckStaging(p)
  <2>0. PICK refused \in refusals(p) :
          Perform("staging", p,
            IF ~pathInScope(p) THEN Nothing
            ELSE IF refused THEN finds(p, {"scan-incomplete"})
            ELSE present(p, "runtime-staging-artifact"))
    BY <1>3 DEF CheckStaging
  <2> DEFINE checks == IF refused THEN {"scan-incomplete"}
                       ELSE report("runtime-staging-artifact", content[p].there # "missing")
             o == IF pathInScope(p) THEN finds(p, checks) ELSE Nothing
             check == "staging"
  <2>1. Perform(check, p, o)
    BY <2>0 DEF present
  <2> HIDE DEF checks
  <2>2. Good(o)
    BY NothingIsGood, FindsIsGood DEF pathInScope
  <2>3. check \notin {"npm", "artifact"}
    OBVIOUS
  <2> HIDE DEF o, check
  <2> QED
    BY <2>1, <2>2, <2>3, PerformLemma
<1>4. CASE CheckApplication(p)
  <2> DEFINE siblings == checkPersistenceSiblings(d)
             file == checkApplicationFile(p)
             o == IF pathInScope(d) THEN together({siblings, file}) ELSE Nothing
             check == "application"
  <2>1. Perform(check, p, o)
    BY <1>4 DEF CheckApplication
  <2> HIDE DEF d
  <2>2. pathInScope(d) => Good(siblings) /\ Good(file)
    BY <1>1, SiblingsAreGood, ApplicationFileIsGood DEF pathInScope
  <2> HIDE DEF siblings, file
  <2>3. Good(o)
    BY <2>2, NothingIsGood, PairIsGood
  <2>4. check \notin {"npm", "artifact"}
    OBVIOUS
  <2> HIDE DEF o, check
  <2> QED
    BY <2>1, <2>3, <2>4, PerformLemma
<1>5. CASE CheckToolchain(p)
  <2> DEFINE checks == {"scan-incomplete"}
             o == IF ~pathInScope(d) THEN Nothing
                  ELSE IF d \in unlisted THEN finds(d, checks) ELSE checkApplicationFile(p)
             check == "toolchain"
  <2>1. Perform(check, p, o)
    BY <1>5 DEF CheckToolchain
  <2> HIDE DEF d, checks
  <2>2. Good(o)
    BY <1>1, NothingIsGood, FindsIsGood, ApplicationFileIsGood DEF pathInScope
  <2>3. check \notin {"npm", "artifact"}
    OBVIOUS
  <2> HIDE DEF o, check
  <2> QED
    BY <2>1, <2>2, <2>3, PerformLemma
<1>6. CASE VisitSystem(p)
  <2>0. PICK lost \in {0} \cup failedListings(p) : Perform("system", p, systemOutcome(p, lost))
    BY <1>6 DEF VisitSystem, systemOutcome, lostGaps
  <2> DEFINE o == systemOutcome(p, lost)
             check == "system"
  <2>1. Perform(check, p, o)
    BY <2>0
  <2>2. Good(o)
    BY SystemIsGood
  <2>3. check \notin {"npm", "artifact"}
    OBVIOUS
  <2> HIDE DEF o, check
  <2> QED
    BY <2>1, <2>2, <2>3, PerformLemma
<1>7. CASE CheckLoginFile(p)
  <2> DEFINE optional == TRUE
             o == IF pathInScope(p) THEN checkStartupFile(p, optional) ELSE Nothing
             check == "login"
  <2>1. Perform(check, p, o)
    BY <1>7 DEF CheckLoginFile
  <2> HIDE DEF optional
  <2>2. Good(o)
    BY NothingIsGood, StartupFileIsGood DEF pathInScope
  <2>3. check \notin {"npm", "artifact"}
    OBVIOUS
  <2> HIDE DEF o, check
  <2> QED
    BY <2>1, <2>2, <2>3, PerformLemma
<1>8. CASE CheckServiceFile(p)
  <2>1. PICK here \in seen(p) :
          Perform("service", p,
            IF ~pathInScope(d) THEN Nothing
            ELSE IF d \in unlisted THEN finds(d, {"scan-incomplete"})
            ELSE IF here THEN checkStartupFile(p, FALSE) ELSE Nothing)
    BY <1>8 DEF CheckServiceFile
  <2> DEFINE optional == FALSE
             checks == {"scan-incomplete"}
             o == IF ~pathInScope(d) THEN Nothing
                  ELSE IF d \in unlisted THEN finds(d, checks)
                  ELSE IF here THEN checkStartupFile(p, optional) ELSE Nothing
             check == "service"
  <2>2. Perform(check, p, o)
    BY <2>1
  <2> HIDE DEF d, checks, optional
  <2>3. Good(o)
    BY <1>1, NothingIsGood, FindsIsGood, StartupFileIsGood DEF pathInScope
  <2>4. check \notin {"npm", "artifact"}
    OBVIOUS
  <2> HIDE DEF o, check
  <2> QED
    BY <2>2, <2>3, <2>4, PerformLemma
<1> QED
  BY <1>2, <1>3, <1>4, <1>5, <1>6, <1>7, <1>8

\* An npm entrypoint, which is read however it was marked: nothing before it on
\* the agenda can have marked it.
LEMMA NpmLemma ==
  ASSUME CheckInv, NEW p \in Paths, CheckNpmCLI(p)
  PROVE  CheckInv'
<1> DEFINE d == DirOf[p]
           siblings == checkPersistenceSiblings(d)
           file == checkNpmFile(p)
           o == IF pathInScope(d) THEN together({siblings, file}) ELSE Nothing
<1>1. /\ agenda # <<>> /\ Head(agenda) = <<"npm", p>> /\ agenda' = Tail(agenda)
      /\ Conclude(o)
  BY DEF CheckNpmCLI, Perform
<1>2. d \in Dirs /\ (only /\ d \in Scope => p \in Scope)
  BY FilesAssumption
<1>3. p \notin persistenceChecked
  <2>1. agenda \in Seq(Tasks) /\ 1 \in 1..Len(agenda) /\ agenda[1] = <<"npm", p>>
    BY <1>1 DEF CheckInv, AgendaInv, Orderly
  <2> QED
    BY <2>1 DEF CheckInv, AgendaInv, Orderly
<1>4. \A q \in Paths \cap siblings.persisted : "sidecar" \in Kind[q]
  BY <1>2, FilesAssumption DEF checkPersistenceSiblings, Nothing, sidecars, is
<1>5. \A q \in file.persisted : q = p
  <2>1. CASE content[p].there = "missing"
    BY <2>1 DEF checkNpmFile, Nothing
  <2>2. CASE content[p].there = "irregular"
    BY <2>2 DEF checkNpmFile, finds, Nothing
  <2>3. CASE content[p].there \notin {"missing", "irregular"} /\ content[p].size # "normal"
    BY <2>3 DEF checkNpmFile, finds, Nothing
  <2>4. CASE content[p].there \notin {"missing", "irregular"} /\ content[p].size = "normal"
    <3> DEFINE checks == inspectNpmCLI(fileBytes(p))
               optional == FALSE
               read == processFile("npm", p, checks, optional)
    <3>1. file = [read EXCEPT !.persisted = {p}]
      BY <2>4 DEF checkNpmFile
    <3> HIDE DEF checks, optional
    <3>2. PICK f, r : read = outcome(f, r)
      BY ProcessFileShape
    <3> HIDE DEF read
    <3> QED
      BY <3>1, <3>2 DEF outcome
  <2> QED
    BY <2>1, <2>2, <2>3, <2>4
<1>6. pathInScope(d) => Good(siblings) /\ Good(file)
  <2> HIDE DEF d
  <2> QED
    BY <1>2, <1>3, SiblingsAreGood, NpmFileIsGood DEF pathInScope
<1> HIDE DEF siblings, file
<1>7. Good(o)
  BY <1>6, NothingIsGood, PairIsGood
<1>8. \A q \in Paths \cap o.persisted : "sidecar" \in Kind[q] \/ q = p
  BY <1>4, <1>5 DEF together, Nothing
<1> HIDE DEF o
<1>9. persistenceChecked' = persistenceChecked \cup o.persisted /\ only' = only
  BY <1>1 DEF Conclude, world
<1>10. AgendaInv'
  BY <1>1, <1>8, <1>9, TailLemma DEF CheckInv
<1> QED
  BY <1>1, <1>7, <1>10, ConcludeLemma DEF CheckInv

LEMMA PackageLemma ==
  ASSUME CheckInv, NEW m \in Paths, CheckPackage(m)
  PROVE  CheckInv'
<1>0. PICK broken \in linkErrors(m) :
        Perform("package", m,
          IF scopeFails(m) THEN finds(parent(DirOf[m]), {"scan-incomplete"})
          ELSE IF broken THEN finds(DirOf[m], {"scan-incomplete"})
          ELSE together({checkPackageManifest(m, TRUE, TRUE),
                         presentAny(PayloadFiles[m], "npm-payload-file")}))
  BY DEF CheckPackage
<1> DEFINE known == TRUE
           name == "npm-payload-file"
           check == "package"
           fails == {"scan-incomplete"}
           manifest == checkPackageManifest(m, known, known)
           payloads == presentAny(PayloadFiles[m], name)
           o == IF scopeFails(m) THEN finds(parent(DirOf[m]), fails)
                ELSE IF broken THEN finds(DirOf[m], fails) ELSE together({manifest, payloads})
<1>1. Perform(check, m, o)
  BY <1>0
<1>2. /\ only => m \in Scope /\ DirOf[m] \in Scope
      /\ only /\ scopeFails(m) => parent(DirOf[m]) \in Scope
  <2>1. agenda \in Seq(Tasks) /\ 1 \in 1..Len(agenda) /\ agenda[1] = <<check, m>>
    BY <1>1 DEF CheckInv, AgendaInv, Orderly, Perform
  <2>2. Fits(<<check, m>>)
    BY <2>1 DEF CheckInv, AgendaInv, Orderly
  <2> QED
    BY <2>2 DEF Fits, Met, scopeFails
<1> HIDE DEF known, name, fails
<1>3. Good(manifest)
  BY <1>2, PackageManifestIsGood
<1>4. only => PayloadFiles[m] \subseteq Scope
  BY <1>2, TargetsAssumption
<1>5. Good(payloads)
  BY <1>4, PresentAnyIsGood
<1> HIDE DEF manifest, payloads
<1>6. Good(o)
  BY <1>2, <1>3, <1>5, PairIsGood, FindsIsGood
<1>7. check \notin {"npm", "artifact"}
  OBVIOUS
<1> HIDE DEF o, check
<1> QED
  BY <1>1, <1>6, <1>7, PerformLemma

LEMMA ComposerLemma ==
  ASSUME CheckInv, NEW m \in Paths, CheckComposerVendor(m)
  PROVE  CheckInv'
<1> DEFINE absent == ~visited(parent(DirOf[m])) \/ content[m].there = "missing"
           checks == IF content[m].head # "text" THEN {"scan-incomplete"}
                     ELSE report("compromised-composer-version", content[m].declares)
           optional == FALSE
           how == "composer"
           marked == {}
           read == processFile(how, m, checks, optional)
           D == IF deep /\ readable(m) /\ content[m].head = "text" THEN declared(m, marked) ELSE {}
           O == {read} \cup {inspectDependencyTarget(t) : t \in D}
           o == IF absent THEN Nothing ELSE together(O)
           check == "vendor"
<1>1. Perform(check, m, o)
  BY DEF CheckComposerVendor
<1>2. only => m \in Scope
  BY <1>1, MetLemma DEF Perform, Met, CheckInv
<1> HIDE DEF absent, checks, optional, marked
<1>3. Good(read)
  <2>1. how \notin Persistence
    BY DEF Persistence
  <2> HIDE DEF how
  <2> QED
    BY <1>2, <2>1, ProcessFileIsGood
<1>4. \A t \in D : Good(inspectDependencyTarget(t))
  BY <1>2, DependencyTargetIsGood, DeclaredIsInside
<1> HIDE DEF read, D
<1>5. \A x \in O : Good(x)
  BY <1>3, <1>4
<1> HIDE DEF O
<1>6. Good(o)
  BY <1>5, NothingIsGood, TogetherIsGood
<1>7. check \notin {"npm", "artifact"}
  OBVIOUS
<1> HIDE DEF o, check
<1> QED
  BY <1>1, <1>6, <1>7, PerformLemma

LEMMA DistInfoLemma ==
  ASSUME CheckInv, NEW m \in Paths, CheckDistInfo(m)
  PROVE  CheckInv'
<1> DEFINE checks == report("compromised-python-version", is("baddist", m))
           O == {finds(m, checks)} \cup IF deep THEN {inspectPythonEntrypoints(m)} ELSE {}
           o == together(O)
           check == "dist"
<1>1. Perform(check, m, o)
  BY DEF CheckDistInfo
<1>2. only => m \in Scope
  BY <1>1, MetLemma DEF Perform, Met, CheckInv
<1> HIDE DEF checks
<1>3. \A x \in O : Good(x)
  BY <1>2, FindsIsGood, EntrypointsAreGood
<1> HIDE DEF O
<1>4. Good(o)
  BY <1>3, TogetherIsGood
<1>5. check \notin {"npm", "artifact"}
  OBVIOUS
<1> HIDE DEF o, check
<1> QED
  BY <1>1, <1>4, <1>5, PerformLemma

LEMMA PthLemma ==
  ASSUME CheckInv, NEW p \in Paths, CheckPthFile(p)
  PROVE  CheckInv'
<1>1. PICK here \in seen(p) :
        Perform("pth", p,
          IF ~here THEN Nothing
          ELSE IF is("badpth", p) THEN finds(p, {"malicious-pth-file"})
          ELSE processFile("pth", p, inspectPth(deep, fileBytes(p)), FALSE))
  BY DEF CheckPthFile
<1> DEFINE words == {"malicious-pth-file"}
           checks == inspectPth(deep, fileBytes(p))
           optional == FALSE
           how == "pth"
           o == IF ~here THEN Nothing
                ELSE IF is("badpth", p) THEN finds(p, words)
                ELSE processFile(how, p, checks, optional)
<1>2. Perform(how, p, o)
  BY <1>1
<1>3. only => p \in Scope
  BY <1>2, MetLemma DEF Perform, Met, CheckInv
<1>4. how \notin {"npm", "artifact"} /\ how \notin Persistence
  BY DEF Persistence
<1> HIDE DEF words, checks, optional, how
<1>5. Good(o)
  BY <1>3, <1>4, NothingIsGood, FindsIsGood, ProcessFileIsGood
<1> HIDE DEF o
<1> QED
  BY <1>2, <1>4, <1>5, PerformLemma

LEMMA VisitLemma ==
  ASSUME CheckInv, NEW p \in Paths, VisitFile(p)
  PROVE  CheckInv'
<1> DEFINE o == IF p \in entries THEN visitProject(p) ELSE Nothing
           check == "file"
<1>1. Perform(check, p, o)
  BY DEF VisitFile
<1>2. only => p \in Scope
  BY <1>1, MetLemma DEF Perform, Met, CheckInv
<1>3. Good(o)
  BY <1>2, NothingIsGood, VisitIsGood
<1>4. check \notin {"npm", "artifact"}
  OBVIOUS
<1> HIDE DEF o, check
<1> QED
  BY <1>1, <1>3, <1>4, PerformLemma

LEMMA DirectoryLemma ==
  ASSUME CheckInv, NEW d \in Dirs, CheckDir(d)
  PROVE  CheckInv'
<1>1. CASE ListDirectory(d)
  <2> DEFINE checks == report("scan-incomplete", found(d) /\ d \in unlisted)
             o == finds(d, checks)
             check == "list"
  <2>1. /\ agenda # <<>> /\ Head(agenda) = <<check, d>> /\ agenda' = Tail(agenda)
        /\ Conclude(o)
    BY <1>1 DEF ListDirectory
  <2>2. only => d \in Scope
    BY <2>1, MetLemma DEF Met, CheckInv
  <2> HIDE DEF checks
  <2>3. Good(o)
    BY <2>2, FindsIsGood
  <2>4. check \notin {"npm", "artifact"}
    OBVIOUS
  <2> HIDE DEF o, check
  <2> QED
    BY <2>1, <2>3, <2>4, TaskLemma
<1>2. CASE CheckConfigDir(d)
  <2> DEFINE name == "project-artifact"
             o == IF visited(d) THEN presentAny(Phantoms[d], name) ELSE Nothing
             check == "config"
  <2>1. /\ agenda # <<>> /\ Head(agenda) = <<check, d>> /\ agenda' = Tail(agenda)
        /\ Conclude(o)
    BY <1>2 DEF CheckConfigDir
  <2>2. only => d \in Scope
    BY <2>1, MetLemma DEF Met, CheckInv
  <2>3. only => Phantoms[d] \subseteq Scope
    BY <2>2, TargetsAssumption
  <2> HIDE DEF name
  <2>4. Good(o)
    BY <2>3, NothingIsGood, PresentAnyIsGood
  <2>5. check \notin {"npm", "artifact"}
    OBVIOUS
  <2> HIDE DEF o, check
  <2> QED
    BY <2>1, <2>4, <2>5, TaskLemma
<1>3. CASE CheckNodeModulesDir(d)
  <2> DEFINE name == "phantom-dependency"
             o == presentAny(Phantoms[d], name)
             check == "modules"
             met == visited(d)
  <2>1. Enter(check, d, met, o)
    BY <1>3 DEF CheckNodeModulesDir
  <2>2. only => d \in Scope
    BY <2>1, MetLemma DEF Enter, Met, CheckInv
  <2>3. only => Phantoms[d] \subseteq Scope
    BY <2>2, TargetsAssumption
  <2> HIDE DEF name
  <2>4. Good(o)
    BY <2>3, PresentAnyIsGood
  <2>5. check \in {"modules", "site"}
    OBVIOUS
  <2> HIDE DEF o, check, met
  <2> QED
    BY <2>1, <2>2, <2>4, <2>5, EnterLemma
<1>4. CASE CheckSitePackagesDir(d)
  <2> DEFINE o == Nothing
             check == "site"
             met == pathInScope(d) /\ found(d)
  <2>1. Enter(check, d, met, o)
    BY <1>4 DEF CheckSitePackagesDir
  <2>2. met /\ only => d \in Scope
    BY DEF pathInScope
  <2>3. Good(o)
    BY NothingIsGood
  <2>4. check \in {"modules", "site"}
    OBVIOUS
  <2> HIDE DEF o, check, met
  <2> QED
    BY <2>1, <2>2, <2>3, <2>4, EnterLemma
<1> QED
  BY <1>1, <1>2, <1>3, <1>4 DEF CheckDir

LEMMA TargetedLemma ==
  ASSUME CheckInv, TargetedNext
  PROVE  CheckInv'
<1>1. PICK p : (p \in Paths /\ Check(p)) \/ (p \in Dirs /\ CheckDir(p))
  BY DEF TargetedNext
<1>2. CASE p \in Paths /\ Check(p)
  BY <1>2, FixedPathsLemma, NpmLemma, PackageLemma, ComposerLemma, DistInfoLemma, PthLemma,
     VisitLemma DEF Check
<1> QED
  BY <1>1, <1>2, DirectoryLemma

-----------------------------------------------------------------------------
(* The processes, which are inspected after all that, and the files that   *)
(* change all the while.                                                   *)

LEMMA EmptyAgendaLemma == Orderly(<<>>) /\ Orderly(<<>>)'
<1>1. <<>> \in Seq(Tasks) /\ 1..Len(<<>>) = {}
  OBVIOUS
<1> QED
  BY <1>1 DEF Orderly

\* Of a machine, as of its processes, only what is good is said.
LEMMA SpeechLemma ==
  ASSUME CheckInv, agenda = <<>>, UNCHANGED agenda, NEW o, Good(o), Conclude(o)
  PROVE  CheckInv'
  BY ConcludeLemma, EmptyAgendaLemma DEF CheckInv, AgendaInv

LEMMA ProcessesLemma ==
  ASSUME CheckInv, RunProcesses
  PROVE  CheckInv'
<1>1. agenda = <<>> /\ agenda' = agenda /\ ~only /\ ProcessNext
  BY DEF RunProcesses
<1>2. CASE CollectionFails \/ CollectProcesses
  <2>1. PICK F : Conclude([Nothing EXCEPT !.found = F])
    BY <1>2 DEF CollectionFails, CollectProcesses
  <2> DEFINE o == [Nothing EXCEPT !.found = F]
  <2>2. o = outcome(F, {})
    BY DEF Nothing, outcome
  <2> HIDE DEF o
  <2>3. Good(o)
    BY <1>1, <2>2, WordsAreGood
  <2> QED
    BY <1>1, <2>1, <2>3, SpeechLemma DEF o
<1>3. ASSUME NEW q \in Procs, InspectProcess(q)
      PROVE  CheckInv'
  <2> DEFINE words == report("running-payload-process", reasons(q))
             script == Command[q].script
             checks == {}
             optional == TRUE
             how == "process"
             read == processFile(how, script, checks, optional)
             O == {finds(q, words)} \cup IF nodeScript(q) /\ Command[q].located THEN {read} ELSE {}
             o == together(O)
  <2>1. Conclude(o)
    BY <1>3 DEF InspectProcess
  <2>2. how \notin Persistence
    BY DEF Persistence
  <2> HIDE DEF words, script, checks, optional, how
  <2>3. Good(finds(q, words)) /\ Good(read)
    BY <1>1, <2>2, FindsIsGood, ProcessFileIsGood
  <2> HIDE DEF read
  <2>4. \A x \in O : Good(x)
    BY <2>3
  <2> HIDE DEF O
  <2>5. Good(o)
    BY <2>4, TogetherIsGood
  <2> HIDE DEF o
  <2> QED
    BY <1>1, <2>1, <2>5, SpeechLemma
<1>4. CASE FinishProcesses
  <2> DEFINE restrictions == report("scan-limited", restricted # {})
             scripts == report("scan-limited", unresolved # {})
             p == "restricted"
             u == "unresolved"
             o == together({finds(p, restrictions), finds(u, scripts)})
  <2>1. Conclude(o)
    BY <1>4 DEF FinishProcesses
  <2> HIDE DEF restrictions, scripts, p, u
  <2>2. Good(o)
    BY <1>1, FindsIsGood, PairIsGood
  <2> HIDE DEF o
  <2> QED
    BY <1>1, <2>1, <2>2, SpeechLemma
<1> QED
  BY <1>1, <1>2, <1>3, <1>4 DEF ProcessNext

\* How much a read returns is a matter of the file.
LEMMA HeadOnlyStays ==
  ASSUME NEW p, content'[p] = content[p]
  PROVE  headOnly(p) <=> headOnly(p)'
  BY DEF headOnly, nativeExecutable, payloadCandidate

\* A file that changes is not steady any more; nothing else is touched.
LEMMA WorldLemma ==
  ASSUME LocalInv, World
  PROVE  LocalInv'
<1>1. PICK p \in Changing : Change(p)
  BY DEF World
<1>2. /\ p \in Paths /\ UNCHANGED <<scopeVars, agenda, processVars, reports, marks, only>>
      /\ changed' = changed \cup {p}
  BY <1>1, FilesAssumption DEF World, Change
<1>3. content' \in [Paths -> Content] /\ \A q \in Paths \ {p} : content'[q] = content[q]
  <2>1. PICK c \in Variants[p] \cup {Usual[p]} : content' = [content EXCEPT ![p] = c]
    BY <1>1 DEF Change
  <2>2. c \in Content
    BY <1>2, FilesAssumption
  <2> QED
    BY <2>1, <2>2 DEF LocalInv, CheckInv, WorldInv
<1>4. \A q \in Paths : q \notin changed' => q \notin changed /\ content'[q] = content[q]
  BY <1>2, <1>3
<1>5. (WorldInv /\ AgendaInv /\ ReadsAreMarked /\ NothingIsReadTwice /\ OnlyReadsInside)'
  BY <1>2, <1>3 DEF LocalInv, CheckInv, WorldInv, AgendaInv, Orderly, Fits, ReadsAreMarked,
     NothingIsReadTwice, OnlyReadsInside, reports, marks
<1>6. MarksAreEarned'
  BY <1>2, <1>4 DEF LocalInv, CheckInv, MarksAreEarned, steady, hasGap, reports, marks
<1>7. ASSUME NEW q \in Procs, Settled(q)
      PROVE  Settled(q)'
  <2>1. nodeScript(q) => Command[q].script \in Paths
    BY ProcessAssumption DEF nodeScript
  <2>2. findings' = findings /\ unresolved' = unresolved
    BY <1>2 DEF reports, processVars
  <2>3. \A x \in Paths : x \notin changed' => (headOnly(x) <=> headOnly(x)')
    BY <1>4, HeadOnlyStays
  <2> QED
    BY <1>4, <1>7, <2>1, <2>2, <2>3 DEF Settled, steady, hasGap, nodeScript
<1>8. ProcessInv'
  BY <1>2, <1>7 DEF LocalInv, ProcessInv, processVars, reports
<1>9. (EntriesInv /\ QuietFilesStayQuiet)'
  <2>1. EntriesInv'
    BY <1>2, <1>4 DEF LocalInv, EntriesInv, steady, scopeVars
  <2>2. findings' = findings
    BY <1>2 DEF reports
  <2>3. QuietFilesStayQuiet'
    BY <1>4, <2>2 DEF LocalInv, QuietFilesStayQuiet, steady
  <2> QED
    BY <2>1, <2>3
<1> QED
  BY <1>5, <1>6, <1>8, <1>9 DEF LocalInv, CheckInv

\* Findings are only ever added to, and no check changes the files.
LEMMA SettledLemma ==
  ASSUME NEW q, Settled(q), NEW o, Conclude(o), unresolved \subseteq unresolved'
  PROVE  Settled(q)'
<1>1. findings \subseteq findings' /\ content' = content /\ changed' = changed
  BY DEF Conclude, world
<1>2. headOnly(Command[q].script) <=> headOnly(Command[q].script)'
  BY <1>1, HeadOnlyStays
<1> QED
  BY <1>1, <1>2 DEF Settled, nodeScript, steady, hasGap

LEMMA AccountLemma ==
  ASSUME ProcessInv, ProcessNext
  PROVE  ProcessInv'
<1>1. CASE CollectionFails
  <2>1. Conclude([Nothing EXCEPT !.found = {collection}])
    BY <1>1 DEF CollectionFails
  <2>2. collection \in findings'
    BY <2>1 DEF Conclude, Nothing
  <2> QED
    BY <1>1, <2>2 DEF CollectionFails, ProcessInv
<1>2. CASE CollectProcesses
  <2>1. Conclude([Nothing EXCEPT !.found = IF Self \in listed' THEN {} ELSE {collection}])
    BY <1>2 DEF CollectProcesses
  <2>2. Self \notin listed' => collection \in findings'
    BY <2>1 DEF Conclude, Nothing
  <2> QED
    BY <1>2, <2>2 DEF CollectProcesses, ProcessInv
<1>3. ASSUME NEW q \in Procs, InspectProcess(q)
      PROVE  ProcessInv'
  <2> DEFINE script == Command[q].script
             how == "process"
             checks == {}
             optional == TRUE
             words == report("running-payload-process", reasons(q))
             read == processFile(how, script, checks, optional)
             O == {finds(q, words)} \cup IF nodeScript(q) /\ Command[q].located THEN {read} ELSE {}
  <2>1. /\ stage = "inspecting" /\ left' = left \ {q}
        /\ unresolved' = unresolved \cup (IF located(q) THEN {} ELSE {q})
        /\ Conclude(together(O)) /\ UNCHANGED <<stage, listed, restricted>>
    BY <1>3 DEF InspectProcess
  <2>2. /\ findings' = findings \cup UNION {o.found : o \in O}
        /\ content' = content /\ changed' = changed
    BY <2>1 DEF Conclude, together, world
  <2>3. reasons(q) => <<"running-payload-process", q>> \in findings'
    <3>1. reasons(q) => "running-payload-process" \in words
      BY DEF report
    <3> HIDE DEF words
    <3>2. PICK F : finds(q, words) = outcome(F, {}) /\ \A k \in words : <<k, q>> \in F
      BY FindsShape
    <3>3. F \subseteq findings'
      <4>1. finds(q, words) \in O /\ finds(q, words).found = F
        BY <3>2 DEF outcome
      <4> HIDE DEF O
      <4> QED
        BY <2>2, <4>1
    <3> QED
      BY <3>1, <3>2, <3>3
  <2>4. nodeScript(q) /\ Command[q].located /\ ~readable(script)
        /\ content[script].there \in {"file", "unreadable"} => gap(script) \in findings'
    <3> HIDE DEF words
    <3> SUFFICES ASSUME nodeScript(q), Command[q].located, ~readable(script),
                        content[script].there \in {"file", "unreadable"}
                 PROVE  gap(script) \in findings'
      OBVIOUS
    <3>1. read = finds(script, {"scan-incomplete"})
      BY DEF processFile
    <3>2. PICK F : /\ finds(script, {"scan-incomplete"}) = outcome(F, {})
                   /\ \A k \in {"scan-incomplete"} : <<k, script>> \in F
      BY FindsShape
    <3> HIDE DEF read, script
    <3>3. read \in O
      OBVIOUS
    <3>4. read.found = F /\ <<"scan-incomplete", script>> \in F
      BY <3>1, <3>2 DEF outcome
    <3>5. gap(script) \in read.found
      BY <3>4 DEF gap
    <3> HIDE DEF O
    <3> QED
      BY <2>2, <3>3, <3>5
  <2>5. Settled(q)'
    <3>1. Command[q].sidecar => reasons(q)
      BY DEF reasons
    <3>2. nodeScript(q) /\ ~Command[q].located => q \in unresolved'
      BY <2>1 DEF located
    <3>3. nodeScript(q) /\ Command[q].located /\ readable(script)
          /\ ~headOnly(script) /\ runningScriptMatch(content[script]) => reasons(q)
      BY DEF reasons, fileBytes
    <3>4. headOnly(script) <=> headOnly(script)'
      BY <2>2, HeadOnlyStays
    <3> HIDE DEF O, words, read, script
    <3> QED
      BY <2>2, <2>3, <2>4, <3>1, <3>2, <3>3, <3>4 DEF Settled, hasGap, nodeScript, script
  <2>6. \A x \in listed \ {Self} : Command[x].args => x \in left' \/ Settled(x)'
    <3> DEFINE o == together(O)
    <3>1. Conclude(o) /\ unresolved \subseteq unresolved'
      BY <2>1
    <3> HIDE DEF o
    <3> QED
      BY <2>1, <2>5, <3>1, SettledLemma DEF ProcessInv
  <2> QED
    <3> HIDE DEF O
    <3> QED
      BY <2>1, <2>2, <2>6 DEF ProcessInv
<1>4. CASE FinishProcesses
  <2> DEFINE p == "restricted"
             u == "unresolved"
             limit == "scan-limited"
             P == report(limit, restricted # {})
             U == report(limit, unresolved # {})
             o == together({finds(p, P), finds(u, U)})
  <2>1. /\ stage = "inspecting" /\ left = {} /\ stage' = "done" /\ Conclude(o)
        /\ UNCHANGED <<listed, left, restricted, unresolved>>
    BY <1>4 DEF FinishProcesses
  <2>2. (restricted # {} => limit \in P) /\ (unresolved # {} => limit \in U)
    BY DEF report
  <2> HIDE DEF P, U
  <2>3. PICK F : finds(p, P) = outcome(F, {}) /\ \A k \in P : <<k, p>> \in F
    BY FindsShape
  <2>4. PICK G : finds(u, U) = outcome(G, {}) /\ \A k \in U : <<k, u>> \in G
    BY FindsShape
  <2>5. findings' = findings \cup F \cup G
    BY <2>1, <2>3, <2>4 DEF Conclude, together, outcome
  <2>6. /\ restricted' # {} => <<limit, p>> \in findings'
        /\ unresolved' # {} => <<limit, u>> \in findings'
    BY <2>1, <2>2, <2>3, <2>4, <2>5
  <2> HIDE DEF o
  <2>7. \A q \in listed \ {Self} : Command[q].args => q \in left' \/ Settled(q)'
    BY <2>1, SettledLemma DEF ProcessInv
  <2> QED
    BY <2>1, <2>5, <2>6, <2>7 DEF ProcessInv
<1> QED
  BY <1>1, <1>2, <1>3, <1>4 DEF ProcessNext

-----------------------------------------------------------------------------
(* Files that are as usual, or not there, from beginning to end.           *)

genuine(p) ==
  p \in Paths /\ steady(p) /\ (content[p].there = "missing" \/ content[p] = Usual[p])

Excused == {"missing-script-target", "compromised-python-version"}
Still(F) == \A f \in F : genuine(f[2]) => f[1] \in Excused
Quiet(o) == Still(o.found)

LEMMA QuietLemma == QuietFilesStayQuiet <=> Still(findings)
  BY DEF QuietFilesStayQuiet, Still, genuine, Excused

\* What is there is a plain file, with its header if it is an asset, and has the
\* name of no threat.
LEMMA GenuineLemma ==
  ASSUME NEW p, genuine(p), content[p].there # "missing"
  PROVE  /\ content[p] = IF assetExtension(Ext[p]) THEN [ordinary EXCEPT !.head = "magic"]
                         ELSE ordinary
         /\ Kind[p] \cap {"sidecar", "artifact", "badpth"} = {}
         /\ Usual[p].there # "missing" /\ p \in Paths
  BY CleanAssumption DEF genuine

\* Of that no check of contents has anything to say.
LEMMA CleanContentLemma ==
  ASSUME NEW p, genuine(p), content[p].there # "missing"
  PROVE  /\ readable(p) /\ content[p].there = "file" /\ content[p].size = "normal"
         /\ report("scan-limited", nativeExecutable(p)) = {}
         /\ inspectGeneralContent(content[p]) = {}
         /\ inspectApplication(fileBytes(p)) = {} /\ inspectNpmCLI(fileBytes(p)) = {}
         /\ inspectScriptTarget(fileBytes(p)) = {} /\ inspectGitignore(fileBytes(p)) = {}
         /\ inspectPth(deep, fileBytes(p)) = {}
         /\ inspectDependency(Ext[p], sourceBytes(p)) \cup report("scan-limited", binarySource(p)) = {}
         /\ inspectSourceContent(Ext[p], sourceBytes(p)) \cup report("scan-limited", binarySource(p)) = {}
         /\ ~content[p].declares /\ ~analyzeScript(content[p])
         /\ ~assetExtension(Ext[p]) =>
              content[p].head = "text" /\ inspectStartupContent(Ext[p], fileBytes(p)) = {}
<1> DEFINE c == content[p]
           e == Ext[p]
<1>1. /\ c = IF assetExtension(e) THEN [ordinary EXCEPT !.head = "magic"] ELSE ordinary
  BY GenuineLemma
<1> HIDE DEF c, e
<1>4. PICK h : /\ c = [there |-> "file", head |-> h, marker |-> "none", commented |-> FALSE,
                       sidecar |-> FALSE, published |-> FALSE, padding |-> "none",
                       review |-> "none", declares |-> FALSE, size |-> "normal"]
               /\ h = IF assetExtension(e) THEN "magic" ELSE "text"
  BY <1>1 DEF ordinary
<1>5. /\ c.there = "file" /\ c.marker = "none" /\ ~c.commented /\ ~c.sidecar /\ ~c.published
      /\ c.padding = "none" /\ c.review = "none" /\ ~c.declares /\ c.size = "normal"
      /\ c.head \in {"magic", "text"}
  BY <1>4
<1>2. c = content[p]
  BY DEF c
<1>3. prefix(c) = c
  <2>1. c.head = h
    BY <1>4
  <2>2. prefix(c) = [ordinary EXCEPT !.head = h]
    BY <2>1 DEF prefix
  <2> QED
    BY <1>4, <2>2, ZenonT(60) DEF ordinary
<1>6. /\ ~nativeExecutable(p) /\ ~binarySource(p) /\ readable(p)
      /\ fileBytes(p) = c /\ sourceBytes(p) = c
  BY <1>2, <1>3, <1>5 DEF nativeExecutable, binarySource, readable, fileBytes, sourceBytes
<1>7. normalizeASCII(c).marker = "none" /\ ~normalizeASCII(c).sidecar
  BY <1>4 DEF normalizeASCII
<1>8. ~assetExtension(e) => c.head = "text"
  BY <1>4
<1>9. inspectGeneralContent(c) = {}
  BY <1>5, <1>7 DEF inspectGeneralContent, payloadSignature, inspectLoaderPatterns, checkUnicode, report
<1>10. inspectApplication(c) = {} /\ inspectNpmCLI(c) = {}
  BY <1>5, <1>7, <1>9 DEF inspectApplication, inspectNpmCLI, persistenceSignature, payloadSignature, report
<1>11. inspectScriptTarget(c) = {} /\ inspectGitignore(c) = {} /\ inspectPth(deep, c) = {} /\ ~analyzeScript(c)
  BY <1>5, <1>9 DEF inspectScriptTarget, inspectGitignore, inspectPth, analyzePthContent,
     obfuscationFlags, analyzeScript, report
<1>12. checkDisguisedAsset(e, c) = {} /\ (assetExtension(e) => validAsset(e, c))
  BY <1>4 DEF checkDisguisedAsset, validAsset, report
<1>13. inspectDependency(e, c) = {}
  BY <1>5, <1>9, <1>12 DEF inspectDependency
<1>14. inspectSourceContent(e, c) = {}
  <2>1. e = "tasks" => c.head = "text"
    BY <1>8 DEF assetExtension
  <2>2. (IF e = "tasks" THEN checkFontTask(c) ELSE {}) = {}
    BY <1>5, <2>1 DEF checkFontTask, report
  <2>3. (IF e = "font" THEN checkFakeFont(c) ELSE checkDisguisedAsset(e, c)) = {}
    BY <1>4, <1>12 DEF checkFakeFont, report, assetExtension
  <2>4. generalThenPadding(e, c) = {}
    <3>1. e = "settings" => c.head = "text"
      BY <1>8 DEF assetExtension
    <3>2. (IF e = "settings" THEN checkWorkspaceSettings(c) ELSE {}) = {}
      BY <1>5, <3>1 DEF checkWorkspaceSettings, report
    <3>3. checkPadding(e, c) = {}
      BY <1>5 DEF checkPadding
    <3> QED
      BY <1>9, <3>2, <3>3 DEF generalThenPadding
  <2> QED
    BY <1>5, <2>2, <2>3, <2>4 DEF inspectSourceContent
<1>15. ~assetExtension(e) => inspectStartupContent(e, c) = {}
  <2>1. withoutComments(c) = c
    BY <1>4 DEF withoutComments
  <2> QED
    BY <1>5, <1>8, <1>9, <2>1 DEF inspectStartupContent, inspectHosts, report
<1>16. report("scan-limited", binarySource(p)) = {} /\ report("scan-limited", nativeExecutable(p)) = {}
  BY <1>6 DEF report
<1> QED
  BY <1>5, <1>6, <1>8, <1>9, <1>10, <1>11, <1>13, <1>14, <1>15, <1>16 DEF c, e

LEMMA NothingIsQuiet == Quiet(Nothing)
  BY DEF Quiet, Still, Nothing

LEMMA TogetherIsQuiet ==
  ASSUME NEW O, \A o \in O : Quiet(o)
  PROVE  Quiet(together(O))
  BY DEF Quiet, Still, together

LEMMA PairIsQuiet ==
  ASSUME NEW a, NEW b, Quiet(a), Quiet(b)
  PROVE  Quiet(together({a, b}))
  BY TogetherIsQuiet

LEMMA FindsIsQuiet ==
  ASSUME NEW p, NEW checks, genuine(p) => checks \subseteq Excused
  PROVE  Quiet(finds(p, checks)) /\ \E F : finds(p, checks) = outcome(F, {}) /\ Still(F)
<1> DEFINE F == {<<k, p>> : k \in checks}
<1>1. Still(F)
  BY DEF Still
<1>2. finds(p, checks) = [Nothing EXCEPT !.found = F]
  BY DEF finds
<1> HIDE DEF F
<1>3. finds(p, checks) = outcome(F, {})
  BY <1>2 DEF Nothing, outcome
<1> QED
  BY <1>1, <1>3 DEF Quiet, outcome

\* A mark says nothing.
LEMMA MarkedIsQuiet ==
  ASSUME NEW o, NEW f, NEW r, o = outcome(f, r), Still(f), NEW S
  PROVE  /\ Quiet(o) /\ Quiet([o EXCEPT !.persisted = S]) /\ Quiet([o EXCEPT !.scripted = S])
  BY DEF Quiet, outcome

\* A read is quiet if the file may be missing, and its check has nothing to say.
LEMMA ReadIsQuiet ==
  ASSUME NEW how, NEW p, NEW checks, NEW optional,
         genuine(p) => IF content[p].there = "missing" THEN optional ELSE checks = {}
  PROVE  \E f, r : processFile(how, p, checks, optional) = outcome(f, r) /\ Still(f)
<1>1. CASE content[p].there = "irregular" \/ (optional /\ content[p].there = "missing")
  <2> DEFINE f == {}
  <2>1. processFile(how, p, checks, optional) = outcome(f, {}) /\ Still(f)
    BY <1>1 DEF processFile, Nothing, outcome, Still
  <2> HIDE DEF f
  <2> QED
    BY <2>1
<1>2. CASE ~(content[p].there = "irregular" \/ (optional /\ content[p].there = "missing"))
           /\ ~readable(p)
  <2>1. ~genuine(p)
    BY <1>2, CleanContentLemma
  <2> DEFINE words == {"scan-incomplete"}
  <2>2. processFile(how, p, checks, optional) = finds(p, words)
    BY <1>2 DEF processFile
  <2> HIDE DEF words
  <2> QED
    BY <2>1, <2>2, FindsIsQuiet
<1>3. CASE ~(content[p].there = "irregular" \/ (optional /\ content[p].there = "missing"))
           /\ readable(p)
  <2> DEFINE words == checks \cup report("scan-limited", nativeExecutable(p))
  <2>1. genuine(p) => words \subseteq Excused
    BY <1>3, CleanContentLemma DEF readable
  <2>3. processFile(how, p, checks, optional) = [finds(p, words) EXCEPT !.read = {<<how, p>>}]
    BY <1>3 DEF processFile
  <2> HIDE DEF words
  <2>2. PICK F : finds(p, words) = outcome(F, {}) /\ Still(F)
    BY <2>1, FindsIsQuiet
  <2> DEFINE r == {<<how, p>>}
  <2> HIDE DEF r
  <2>4. processFile(how, p, checks, optional) = outcome(F, r)
    BY <2>2, <2>3, SMTT(30) DEF outcome, r
  <2> QED
    BY <2>2, <2>4
<1> QED
  BY <1>1, <1>2, <1>3

LEMMA FileIsQuiet ==
  ASSUME NEW how, NEW p, NEW checks, NEW optional,
         genuine(p) => IF content[p].there = "missing" THEN optional ELSE checks = {}
  PROVE  Quiet(processFile(how, p, checks, optional))
<1>1. PICK f, r : processFile(how, p, checks, optional) = outcome(f, r) /\ Still(f)
  BY ReadIsQuiet
<1> QED
  BY <1>1 DEF Quiet, outcome

LEMMA PersistedIsQuiet ==
  ASSUME NEW how, NEW p, NEW checks, NEW optional,
         genuine(p) => IF content[p].there = "missing" THEN optional ELSE checks = {}
  PROVE  Quiet([processFile(how, p, checks, optional) EXCEPT !.persisted = {p}])
<1> DEFINE read == processFile(how, p, checks, optional)
           S == {p}
<1>1. PICK f, r : read = outcome(f, r) /\ Still(f)
  BY ReadIsQuiet
<1> HIDE DEF read, S
<1>2. Quiet([read EXCEPT !.persisted = S])
  BY <1>1, MarkedIsQuiet
<1> QED
  BY <1>2 DEF read, S

LEMMA ScriptedIsQuiet ==
  ASSUME NEW how, NEW p, NEW checks, NEW optional,
         genuine(p) => IF content[p].there = "missing" THEN optional ELSE checks = {}
  PROVE  Quiet([processFile(how, p, checks, optional) EXCEPT !.scripted = {p}])
<1> DEFINE read == processFile(how, p, checks, optional)
           S == {p}
<1>1. PICK f, r : read = outcome(f, r) /\ Still(f)
  BY ReadIsQuiet
<1> HIDE DEF read, S
<1>2. Quiet([read EXCEPT !.scripted = S])
  BY <1>1, MarkedIsQuiet
<1> QED
  BY <1>2 DEF read, S

LEMMA PresentIsQuiet ==
  ASSUME NEW p, NEW check, genuine(p) => Usual[p].there = "missing"
  PROVE  Quiet(present(p, check))
<1> DEFINE checks == report(check, content[p].there # "missing")
<1>1. present(p, check) = finds(p, checks)
  BY DEF present
<1>2. genuine(p) => checks = {}
  BY GenuineLemma DEF report
<1> HIDE DEF checks
<1> QED
  BY <1>1, <1>2, FindsIsQuiet

LEMMA PresentAnyIsQuiet ==
  ASSUME NEW S, NEW check, \A p \in S \cap Paths : Usual[p].there = "missing"
  PROVE  Quiet(presentAny(S, check))
<1> DEFINE F == {<<check, p>> : p \in {q \in S : content[q].there # "missing"}}
<1>1. Still(F)
  <2>1. \A p \in S : content[p].there # "missing" => ~genuine(p)
    BY GenuineLemma
  <2> QED
    BY <2>1 DEF Still
<1>2. presentAny(S, check) = [Nothing EXCEPT !.found = F]
  BY DEF presentAny
<1> HIDE DEF F
<1> QED
  BY <1>1, <1>2 DEF Quiet, Nothing

LEMMA SiblingsAreQuiet ==
  ASSUME NEW d \in Dirs
  PROVE  Quiet(checkPersistenceSiblings(d))
<1>1. ~genuine(d)
  BY FilesAssumption DEF genuine
<1> DEFINE F == {<<"malicious-repo-artifact", q>> : q \in sidecars(d) \ persistenceChecked}
<1>2. Still({gap(d)}) /\ Still(F)
  <2>1. \A q \in sidecars(d) : ~genuine(q)
    BY GenuineLemma DEF sidecars, is
  <2> QED
    BY <1>1, <2>1 DEF Still, gap
<1>3. checkPersistenceSiblings(d).found \in {{}, {gap(d)}, F}
  BY DEF checkPersistenceSiblings, Nothing
<1>4. Still({})
  BY DEF Still
<1> QED
  BY <1>2, <1>3, <1>4 DEF Quiet

\* The same with a mark.
LEMMA MarkedNothingIsQuiet ==
  ASSUME NEW S
  PROVE  Quiet([Nothing EXCEPT !.persisted = S])
  BY DEF Quiet, Still, Nothing

LEMMA MarkedFindsIsQuiet ==
  ASSUME NEW p, NEW checks, genuine(p) => checks \subseteq Excused, NEW S
  PROVE  Quiet([finds(p, checks) EXCEPT !.persisted = S])
<1>1. PICK F : finds(p, checks) = outcome(F, {}) /\ Still(F)
  BY FindsIsQuiet
<1> DEFINE o == finds(p, checks)
           r == {}
<1> HIDE DEF r
<1>2. o = outcome(F, r)
  BY <1>1 DEF r
<1> HIDE DEF o
<1>3. Quiet([o EXCEPT !.persisted = S])
  BY <1>1, <1>2, MarkedIsQuiet
<1> QED
  BY <1>3 DEF o

LEMMA ApplicationFileIsQuiet ==
  ASSUME NEW p
  PROVE  Quiet(checkApplicationFile(p))
<1> DEFINE checks == inspectApplication(fileBytes(p))
           words == {"scan-incomplete"}
           optional == FALSE
           S == {p}
<1>1. genuine(p) /\ content[p].there # "missing" => content[p].there = "file" /\ checks = {}
  BY CleanContentLemma
<1>2. CASE p \in persistenceChecked
  BY <1>2, NothingIsQuiet DEF checkApplicationFile
<1>3. CASE p \notin persistenceChecked /\ content[p].there = "missing"
  BY <1>3, MarkedNothingIsQuiet DEF checkApplicationFile
<1>4. CASE p \notin persistenceChecked /\ content[p].there = "irregular"
  <2>1. checkApplicationFile(p) = [finds(p, words) EXCEPT !.persisted = S]
    BY <1>4 DEF checkApplicationFile
  <2> HIDE DEF words, S
  <2> QED
    BY <1>1, <1>4, <2>1, MarkedFindsIsQuiet, SMTT(30)
<1>5. CASE p \notin persistenceChecked /\ content[p].there \notin {"missing", "irregular"}
  <2>1. checkApplicationFile(p) =
          [processFile("application", p, checks, optional) EXCEPT !.persisted = {p}]
    BY <1>5 DEF checkApplicationFile
  <2> HIDE DEF checks, optional
  <2>2. Quiet([processFile("application", p, checks, optional) EXCEPT !.persisted = {p}])
    BY <1>1, <1>5, PersistedIsQuiet
  <2> QED
    BY <2>1, <2>2
<1> QED
  BY <1>2, <1>3, <1>4, <1>5

LEMMA NpmFileIsQuiet ==
  ASSUME NEW p
  PROVE  Quiet(checkNpmFile(p))
<1> DEFINE checks == inspectNpmCLI(fileBytes(p))
           words == {"scan-incomplete"}
           large == {"patched-npm-cli"}
           optional == FALSE
           S == {p}
<1>1. genuine(p) /\ content[p].there # "missing" =>
        content[p].there = "file" /\ content[p].size = "normal" /\ checks = {}
  BY CleanContentLemma
<1>2. CASE content[p].there = "missing"
  BY <1>2, NothingIsQuiet DEF checkNpmFile
<1>3. CASE content[p].there = "irregular"
  <2>1. checkNpmFile(p) = finds(p, words)
    BY <1>3 DEF checkNpmFile
  <2> HIDE DEF words
  <2> QED
    BY <1>1, <1>3, <2>1, FindsIsQuiet
<1>4. CASE content[p].there \notin {"missing", "irregular"} /\ content[p].size # "normal"
  <2>1. checkNpmFile(p) = [finds(p, large) EXCEPT !.persisted = S]
    BY <1>4 DEF checkNpmFile
  <2> HIDE DEF large, S
  <2> QED
    BY <1>1, <1>4, <2>1, MarkedFindsIsQuiet
<1>5. CASE content[p].there \notin {"missing", "irregular"} /\ content[p].size = "normal"
  <2>1. checkNpmFile(p) = [processFile("npm", p, checks, optional) EXCEPT !.persisted = {p}]
    BY <1>5 DEF checkNpmFile
  <2> HIDE DEF checks, optional
  <2>2. Quiet([processFile("npm", p, checks, optional) EXCEPT !.persisted = {p}])
    BY <1>1, <1>5, PersistedIsQuiet
  <2> QED
    BY <2>1, <2>2
<1> QED
  BY <1>2, <1>3, <1>4, <1>5

LEMMA StartupFileIsQuiet ==
  ASSUME NEW p, NEW optional,
         genuine(p) => ~assetExtension(Ext[p]) /\ (optional \/ content[p].there # "missing")
  PROVE  Quiet(checkStartupFile(p, optional))
<1> DEFINE checks == inspectStartupContent(Ext[p], fileBytes(p))
           required == FALSE
<1>1. genuine(p) /\ content[p].there # "missing" => checks = {}
  BY CleanContentLemma
<1>2. CASE p \in persistenceChecked \/ (optional /\ content[p].there = "missing")
  BY <1>2, NothingIsQuiet DEF checkStartupFile
<1>3. CASE ~(p \in persistenceChecked \/ (optional /\ content[p].there = "missing"))
  <2>1. checkStartupFile(p, optional) =
          [processFile("startup", p, checks, required) EXCEPT !.persisted = {p}]
    BY <1>3 DEF checkStartupFile
  <2> HIDE DEF checks, required
  <2>2. Quiet([processFile("startup", p, checks, required) EXCEPT !.persisted = {p}])
    BY <1>1, <1>3, PersistedIsQuiet
  <2> QED
    BY <2>1, <2>2
<1> QED
  BY <1>2, <1>3

LEMMA PersistencePathIsQuiet ==
  ASSUME NEW p
  PROVE  Quiet(visitPersistencePath(p))
<1> DEFINE checks == report("malicious-repo-artifact", is("sidecar", p) \/ is("artifact", p))
           S == {p}
<1>1. CASE content[p].there # "missing" /\ is("sidecar", p) /\ p \notin persistenceChecked
  <2>1. ~genuine(p)
    BY <1>1, GenuineLemma DEF is
  <2>2. visitPersistencePath(p) = [finds(p, checks) EXCEPT !.persisted = S]
    BY <1>1 DEF visitPersistencePath, checkRepoArtifactName
  <2> HIDE DEF checks, S
  <2> QED
    BY <2>1, <2>2, MarkedFindsIsQuiet
<1>2. CASE ~(content[p].there # "missing" /\ is("sidecar", p) /\ p \notin persistenceChecked)
  BY <1>2, NothingIsQuiet, ApplicationFileIsQuiet DEF visitPersistencePath
<1> QED
  BY <1>1, <1>2

LEMMA ScriptTargetIsQuiet ==
  ASSUME NEW t, content[t].there # "missing"
  PROVE  Quiet(checkScriptTarget(t))
<1> DEFINE checks == inspectScriptTarget(fileBytes(t))
           optional == FALSE
<1>1. genuine(t) => checks = {}
  BY CleanContentLemma
<1>2. checkScriptTarget(t) = [processFile("script", t, checks, optional) EXCEPT !.scripted = {t}]
  BY DEF checkScriptTarget
<1> HIDE DEF checks, optional
<1>3. Quiet([processFile("script", t, checks, optional) EXCEPT !.scripted = {t}])
  BY <1>1, ScriptedIsQuiet
<1> QED
  BY <1>2, <1>3

LEMMA DependencyTargetIsQuiet ==
  ASSUME NEW t, content[t].there # "missing"
  PROVE  Quiet(inspectDependencyTarget(t))
<1> DEFINE checks == inspectDependency(Ext[t], sourceBytes(t))
                     \cup report("scan-limited", binarySource(t))
           optional == FALSE
<1>1. genuine(t) => checks = {}
  BY CleanContentLemma
<1>2. inspectDependencyTarget(t) =
        [processFile("dependency", t, checks, optional) EXCEPT !.scripted = {t}]
  BY DEF inspectDependencyTarget, processSourceFile
<1> HIDE DEF checks, optional
<1>3. Quiet([processFile("dependency", t, checks, optional) EXCEPT !.scripted = {t}])
  BY <1>1, ScriptedIsQuiet
<1> QED
  BY <1>2, <1>3

\* A manifest that is there and clean is what it should be, and what it names is
\* read only where it is there.
LEMMA ManifestIsQuiet ==
  ASSUME NEW m, NEW known, content[m].there # "missing",
         genuine(m) => ~assetExtension(Ext[m])
  PROVE  Quiet(inspectManifest(m, known))
<1> DEFINE limited == {"scan-limited"}
           incomplete == {"scan-incomplete"}
<1>1. genuine(m) => /\ content[m].head = "text" /\ ~content[m].declares
                    /\ ~analyzeScript(content[m]) /\ inspectGeneralContent(content[m]) = {}
  BY CleanContentLemma
<1>2. CASE content[m].head # "text"
  <2>1. inspectManifest(m, known) \in {finds(m, limited), finds(m, incomplete)}
    BY <1>2 DEF inspectManifest
  <2> HIDE DEF limited, incomplete
  <2> QED
    BY <1>1, <1>2, <2>1, FindsIsQuiet
<1>3. CASE content[m].head = "text"
  <2> DEFINE checks == inspectGeneralContent(content[m])
                       \cup report("compromised-version", content[m].declares /\ known)
                       \cup report("suspicious-install-script", analyzeScript(content[m]))
             F == {<<"missing-script-target", t>> : t \in unhooked(m)}
             absent == [Nothing EXCEPT !.found = F]
             O == namedBy(m) \cup {finds(m, checks), absent}
  <2>1. inspectManifest(m, known) = together(O)
    BY <1>3 DEF inspectManifest
  <2>2. Still(F)
    BY DEF Still, Excused
  <2>3. genuine(m) => checks = {}
    BY <1>1 DEF report
  <2> HIDE DEF F, checks
  <2>4. Quiet(absent) /\ Quiet(finds(m, checks))
    <3>1. Quiet(absent)
      BY <2>2 DEF Quiet, Nothing
    <3> QED
      BY <3>1, <2>3, FindsIsQuiet
  <2>5. \A t \in hooked(m) : Quiet(checkScriptTarget(t))
    BY ScriptTargetIsQuiet DEF hooked
  <2>6. \A t \in declared(m, hooked(m)) : Quiet(inspectDependencyTarget(t))
    BY DependencyTargetIsQuiet DEF declared
  <2>7. \A o \in namedBy(m) : Quiet(o)
    <3> SUFFICES ASSUME NEW o \in namedBy(m)
                 PROVE  Quiet(o)
      OBVIOUS
    <3>1. \/ \E t \in hooked(m) : o = checkScriptTarget(t)
          \/ \E t \in declared(m, hooked(m)) : o = inspectDependencyTarget(t)
      BY DEF namedBy
    <3> QED
      BY <3>1, <2>5, <2>6
  <2>8. \A o \in O : Quiet(o)
    BY <2>4, <2>7
  <2> HIDE DEF O
  <2> QED
    BY <2>1, <2>8, TogetherIsQuiet
<1> QED
  BY <1>2, <1>3

LEMMA PackageManifestIsQuiet ==
  ASSUME NEW m, NEW known, NEW optional,
         genuine(m) => ~assetExtension(Ext[m]) /\ (optional \/ content[m].there # "missing")
  PROVE  Quiet(checkPackageManifest(m, known, optional))
<1>1. CASE m \in packageChecked
  BY <1>1, NothingIsQuiet DEF checkPackageManifest
<1>2. CASE m \notin packageChecked
  <2> DEFINE checks == {}
             read == processFile("manifest", m, checks, optional)
             O == {read} \cup IF readable(m) THEN {inspectManifest(m, known)} ELSE {}
             all == together(O)
  <2>1. checkPackageManifest(m, known, optional) = [all EXCEPT !.packaged = {m}]
    BY <1>2 DEF checkPackageManifest
  <2>2. checks = {}
    OBVIOUS
  <2> HIDE DEF checks
  <2>3. Quiet(read)
    BY <2>2, FileIsQuiet
  <2> HIDE DEF read
  <2>4. \A o \in O : Quiet(o)
    BY <2>3, ManifestIsQuiet DEF readable
  <2> HIDE DEF O
  <2>5. Quiet(all)
    BY <2>4, TogetherIsQuiet
  <2>6. Quiet([all EXCEPT !.packaged = {m}])
    BY <2>5 DEF Quiet, together
  <2> QED
    BY <2>1, <2>6
<1> QED
  BY <1>1, <1>2

LEMMA EntrypointsAreQuiet ==
  ASSUME NEW m
  PROVE  Quiet(inspectPythonEntrypoints(m))
<1> DEFINE checks == {}
           optional == TRUE
           marked == {}
           read == processFile("points", m, checks, optional)
           D == declared(m, marked)
           O == {read} \cup {inspectDependencyTarget(t) : t \in IF readable(m) THEN D ELSE {}}
<1>1. inspectPythonEntrypoints(m) = together(O)
  BY DEF inspectPythonEntrypoints
<1>2. checks = {} /\ optional
  OBVIOUS
<1> HIDE DEF checks, optional, marked
<1>3. Quiet(read)
  BY <1>2, FileIsQuiet
<1>4. \A t \in D : Quiet(inspectDependencyTarget(t))
  BY DependencyTargetIsQuiet DEF declared
<1> HIDE DEF read, D
<1>5. \A o \in O : Quiet(o)
  BY <1>3, <1>4
<1> HIDE DEF O
<1> QED
  BY <1>1, <1>5, TogetherIsQuiet

LEMMA SourceFileIsQuiet ==
  ASSUME NEW p, genuine(p) => content[p].there # "missing"
  PROVE  Quiet(checkSourceFile(p))
<1> DEFINE known == ~is("scoped", p)
           optional == FALSE
           ignores == inspectGitignore(fileBytes(p))
           sources == inspectSourceContent(Ext[p], sourceBytes(p))
                      \cup report("scan-limited", binarySource(p))
           words == report("malicious-repo-artifact", is("sidecar", p) \/ is("artifact", p))
           by_name == finds(p, words)
           startup == checkStartupFile(p, optional)
           manifest == checkPackageManifest(p, known, optional)
           application == checkApplicationFile(p)
           ignored == processFile("gitignore", p, ignores, optional)
           source == processFile("source", p, sources, optional)
<1>1. \/ checkSourceFile(p) \in {application, Nothing, by_name, ignored, source}
      \/ checkSourceFile(p) = startup /\ is("startup", p)
      \/ checkSourceFile(p) = manifest /\ is("manifest", p)
  BY DEF checkSourceFile, checkRepoArtifactName, processSourceFile
<1>2. genuine(p) => ignores = {} /\ sources = {}
  BY CleanContentLemma
<1>3. genuine(p) => words = {}
  BY GenuineLemma DEF report, is
<1>4. genuine(p) /\ (is("startup", p) \/ is("manifest", p)) => ~assetExtension(Ext[p])
  BY CleanAssumption DEF genuine, is
<1> HIDE DEF known, optional, ignores, sources, words
<1>5. is("startup", p) => Quiet(startup)
  BY <1>4, StartupFileIsQuiet
<1>6. is("manifest", p) => Quiet(manifest)
  BY <1>4, PackageManifestIsQuiet
<1>7. Quiet(application) /\ Quiet(Nothing) /\ Quiet(by_name)
  BY <1>3, ApplicationFileIsQuiet, NothingIsQuiet, FindsIsQuiet
<1>8. Quiet(ignored) /\ Quiet(source)
  BY <1>2, FileIsQuiet
<1> HIDE DEF by_name, startup, manifest, application, ignored, source
<1> QED
  BY <1>1, <1>5, <1>6, <1>7, <1>8

LEMMA VisitIsQuiet ==
  ASSUME NEW p, genuine(p) => content[p].there # "missing"
  PROVE  Quiet(visitProject(p))
<1> DEFINE O == (IF ~pruned(DirOf[p]) \/ scanDirFiles(DirOf[p])
                   THEN {IF routineContentFile(p) THEN checkSourceFile(p) ELSE Nothing} ELSE {})
                \cup IF pruned(DirOf[p]) THEN {visitPersistencePath(p)} ELSE {}
<1>1. visitProject(p) = together(O)
  BY DEF visitProject
<1>2. \A o \in O : o \in {checkSourceFile(p), Nothing, visitPersistencePath(p)}
  OBVIOUS
<1> HIDE DEF O
<1>3. \A o \in O : Quiet(o)
  BY <1>2, NothingIsQuiet, SourceFileIsQuiet, PersistencePathIsQuiet
<1> QED
  BY <1>1, <1>3, TogetherIsQuiet

\* What is added to the findings, and to what listings have returned.
LEMMA QuietConcludeLemma ==
  ASSUME QuietFilesStayQuiet, NEW o, Quiet(o), Conclude(o)
  PROVE  QuietFilesStayQuiet'
<1>1. findings' = findings \cup o.found /\ content' = content /\ changed' = changed
  BY DEF Conclude, world
<1>2. \A f \in findings' : genuine(f[2]) => f[1] \in Excused
  BY <1>1, QuietLemma DEF Still, Quiet
<1> QED
  BY <1>1, <1>2 DEF QuietFilesStayQuiet, genuine, Excused, steady

LEMMA EntriesLemma ==
  ASSUME EntriesInv, NEW o, Conclude(o), UNCHANGED scopeVars \/ \E d \in Dirs : List(d)
  PROVE  EntriesInv'
<1>1. content' = content /\ changed' = changed
  BY DEF Conclude, world
<1>2. CASE UNCHANGED scopeVars
  BY <1>1, <1>2 DEF EntriesInv, steady, scopeVars
<1>3. ASSUME NEW d \in Dirs, List(d), ~(UNCHANGED scopeVars)
      PROVE  EntriesInv'
  <2>1. PICK got \in listings(d) : entries' = entries \cup got
    BY <1>3 DEF List
  <2>2. got \subseteq children(d)
    BY <2>1 DEF listings
  <2>3. \A p \in Paths \cap got : content[p].there # "missing"
    BY <2>2, FilesAssumption DEF children
  <2> QED
    BY <1>1, <2>1, <2>3 DEF EntriesInv, steady
<1> QED
  BY <1>2, <1>3

\* The task at hand fits.
LEMMA HeadFits ==
  ASSUME AgendaInv, agenda # <<>>
  PROVE  Fits(Head(agenda))
<1>1. agenda \in Seq(Tasks) /\ 1 \in 1..Len(agenda) /\ Head(agenda) = agenda[1]
  BY DEF AgendaInv, Orderly
<1> QED
  BY <1>1 DEF AgendaInv, Orderly

LEMMA PerformFits ==
  ASSUME AgendaInv, NEW check, NEW p, NEW o, Perform(check, p, o)
  PROVE  Conclude(o) /\ UNCHANGED scopeVars /\ Fits(<<check, p>>)
  BY HeadFits DEF Perform

\* What a listing returned is there, if it is genuine.
LEMMA SeenLemma ==
  ASSUME NEW p, NEW here \in seen(p), here, genuine(p)
  PROVE  content[p].there # "missing"
  BY DEF seen, genuine, steady

LEMMA QuietFixedPathsLemma ==
  ASSUME AgendaInv, NEW p \in Paths,
         \/ CheckArtifact(p) \/ CheckStaging(p) \/ CheckApplication(p) \/ CheckToolchain(p)
         \/ VisitSystem(p) \/ CheckLoginFile(p) \/ CheckServiceFile(p) \/ CheckNpmCLI(p)
  PROVE  \E o : Conclude(o) /\ Quiet(o) /\ UNCHANGED scopeVars
<1> DEFINE d == DirOf[p]
<1>1. d \in Dirs /\ ~genuine(d)
  BY FilesAssumption DEF genuine
<1>2. CASE CheckArtifact(p)
  <2> DEFINE o == IF pathInScope(p) THEN present(p, "known-artifact") ELSE Nothing
  <2>1. Perform("artifact", p, o)
    BY <1>2 DEF CheckArtifact
  <2>2. Usual[p].there = "missing"
    BY <2>1, PerformFits DEF Fits
  <2>3. Quiet(o)
    BY <2>2, PresentIsQuiet, NothingIsQuiet
  <2> HIDE DEF o
  <2> QED
    BY <2>1, <2>3, PerformFits
<1>3. CASE CheckStaging(p)
  <2>0. PICK refused \in refusals(p) :
          Perform("staging", p,
            IF ~pathInScope(p) THEN Nothing
            ELSE IF refused THEN finds(p, {"scan-incomplete"})
            ELSE present(p, "runtime-staging-artifact"))
    BY <1>3 DEF CheckStaging
  <2> DEFINE words == {"scan-incomplete"}
             o == IF ~pathInScope(p) THEN Nothing
                  ELSE IF refused THEN finds(p, words)
                  ELSE present(p, "runtime-staging-artifact")
  <2>1. Perform("staging", p, o)
    BY <2>0
  <2>2. Usual[p].there = "missing" /\ (refused => ~genuine(p))
    <3>1. Usual[p].there = "missing"
      BY <2>1, PerformFits DEF Fits
    <3> QED
      BY <3>1 DEF refusals, genuine
  <2> HIDE DEF words
  <2>3. Quiet(o)
    BY <2>2, PresentIsQuiet, NothingIsQuiet, FindsIsQuiet
  <2> HIDE DEF o
  <2> QED
    BY <2>1, <2>3, PerformFits
<1>4. CASE CheckApplication(p)
  <2> DEFINE o == IF pathInScope(d)
                    THEN together({checkPersistenceSiblings(d), checkApplicationFile(p)})
                  ELSE Nothing
  <2>1. Perform("application", p, o)
    BY <1>4 DEF CheckApplication
  <2> HIDE DEF d
  <2>2. Quiet(o)
    BY <1>1, SiblingsAreQuiet, ApplicationFileIsQuiet, PairIsQuiet, NothingIsQuiet
  <2> HIDE DEF o
  <2> QED
    BY <2>1, <2>2, PerformFits
<1>5. CASE CheckNpmCLI(p)
  <2> DEFINE o == IF pathInScope(d)
                    THEN together({checkPersistenceSiblings(d), checkNpmFile(p)})
                  ELSE Nothing
  <2>1. Perform("npm", p, o)
    BY <1>5 DEF CheckNpmCLI
  <2> HIDE DEF d
  <2>2. Quiet(o)
    BY <1>1, SiblingsAreQuiet, NpmFileIsQuiet, PairIsQuiet, NothingIsQuiet
  <2> HIDE DEF o
  <2> QED
    BY <2>1, <2>2, PerformFits
<1>6. CASE CheckToolchain(p)
  <2> DEFINE words == {"scan-incomplete"}
             o == IF ~pathInScope(d) THEN Nothing
                  ELSE IF d \in unlisted THEN finds(d, words) ELSE checkApplicationFile(p)
  <2>1. Perform("toolchain", p, o)
    BY <1>6 DEF CheckToolchain
  <2> HIDE DEF d, words
  <2>2. Quiet(o)
    BY <1>1, FindsIsQuiet, ApplicationFileIsQuiet, NothingIsQuiet
  <2> HIDE DEF o
  <2> QED
    BY <2>1, <2>2, PerformFits
<1>7. CASE VisitSystem(p)
  <2>0. PICK lost \in {0} \cup failedListings(p) : Perform("system", p, systemOutcome(p, lost))
    BY <1>7 DEF VisitSystem, systemOutcome, lostGaps
  <2> DEFINE gaps == lostGaps(p, lost)
             rest == IF lost = 0 THEN visitPersistencePath(p) ELSE Nothing
             o == IF ~pathInScope(systemRoot(p)) THEN Nothing ELSE together({gaps, rest})
  <2>1. Perform("system", p, o)
    BY <2>0 DEF systemOutcome
  <2>2. Quiet(gaps)
    <3>1. PICK F : /\ gaps = outcome(F, {})
                   /\ \A f \in F : \E k \in DOMAIN Up[DirOf[p]] : f = gap(Up[DirOf[p]][k])
      BY LostShape
    <3>2. \A f \in F : ~genuine(f[2])
      BY <3>1, RootLemma, FilesAssumption DEF gap, genuine
    <3> QED
      BY <3>1, <3>2 DEF Quiet, Still, outcome
  <2>3. Quiet(rest)
    BY PersistencePathIsQuiet, NothingIsQuiet
  <2> HIDE DEF gaps, rest
  <2>4. Quiet(o)
    BY <2>2, <2>3, PairIsQuiet, NothingIsQuiet
  <2> HIDE DEF o
  <2> QED
    BY <2>1, <2>4, PerformFits
<1>8. CASE CheckLoginFile(p)
  <2> DEFINE optional == TRUE
             o == IF pathInScope(p) THEN checkStartupFile(p, optional) ELSE Nothing
  <2>1. Perform("login", p, o)
    BY <1>8 DEF CheckLoginFile
  <2>2. ~assetExtension(Ext[p]) /\ optional
    BY <2>1, PerformFits DEF Fits
  <2> HIDE DEF optional
  <2>3. Quiet(o)
    BY <2>2, StartupFileIsQuiet, NothingIsQuiet
  <2> HIDE DEF o
  <2> QED
    BY <2>1, <2>3, PerformFits
<1>9. CASE CheckServiceFile(p)
  <2>1. PICK here \in seen(p) :
          Perform("service", p,
            IF ~pathInScope(d) THEN Nothing
            ELSE IF d \in unlisted THEN finds(d, {"scan-incomplete"})
            ELSE IF here THEN checkStartupFile(p, FALSE) ELSE Nothing)
    BY <1>9 DEF CheckServiceFile
  <2> DEFINE optional == FALSE
             words == {"scan-incomplete"}
             o == IF ~pathInScope(d) THEN Nothing
                  ELSE IF d \in unlisted THEN finds(d, words)
                  ELSE IF here THEN checkStartupFile(p, optional) ELSE Nothing
  <2>2. Perform("service", p, o)
    BY <2>1
  <2>3. ~assetExtension(Ext[p])
    BY <2>2, PerformFits DEF Fits
  <2> HIDE DEF d, words, optional
  <2>4. Quiet(finds(d, words))
    BY <1>1, FindsIsQuiet
  <2>5. here => Quiet(checkStartupFile(p, optional))
    BY <2>3, SeenLemma, StartupFileIsQuiet
  <2>6. Quiet(o)
    BY <2>4, <2>5, NothingIsQuiet
  <2> HIDE DEF o
  <2> QED
    BY <2>2, <2>6, PerformFits
<1> QED
  BY <1>2, <1>3, <1>4, <1>5, <1>6, <1>7, <1>8, <1>9

LEMMA QuietPackagesLemma ==
  ASSUME AgendaInv, NEW m \in Paths,
         CheckPackage(m) \/ CheckComposerVendor(m) \/ CheckDistInfo(m) \/ CheckPthFile(m)
  PROVE  \E o : Conclude(o) /\ Quiet(o) /\ UNCHANGED scopeVars
<1>1. CASE CheckPackage(m)
  <2>0. PICK broken \in linkErrors(m) :
          Perform("package", m,
            IF scopeFails(m) THEN finds(parent(DirOf[m]), {"scan-incomplete"})
            ELSE IF broken THEN finds(DirOf[m], {"scan-incomplete"})
            ELSE together({checkPackageManifest(m, TRUE, TRUE),
                           presentAny(PayloadFiles[m], "npm-payload-file")}))
    BY <1>1 DEF CheckPackage
  <2> DEFINE known == TRUE
             name == "npm-payload-file"
             fails == {"scan-incomplete"}
             o == IF scopeFails(m) THEN finds(parent(DirOf[m]), fails)
                  ELSE IF broken THEN finds(DirOf[m], fails)
                  ELSE together({checkPackageManifest(m, known, known),
                                 presentAny(PayloadFiles[m], name)})
  <2>1. Perform("package", m, o)
    BY <2>0
  <2>2. ~assetExtension(Ext[m]) /\ known /\ (scopeFails(m) => parent(DirOf[m]) \in Dirs)
    BY <2>1, PerformFits DEF Fits, scopeFails
  <2>6. ~genuine(DirOf[m]) /\ (scopeFails(m) => ~genuine(parent(DirOf[m])))
    BY <2>2, FilesAssumption DEF genuine
  <2> HIDE DEF known, name, fails
  <2>3. Quiet(checkPackageManifest(m, known, known))
    BY <2>2, PackageManifestIsQuiet
  <2>4. Quiet(presentAny(PayloadFiles[m], name))
    <3>1. \A p \in PayloadFiles[m] \cap Paths : Usual[p].there = "missing"
      BY TargetsAssumption
    <3> QED
      BY <3>1, PresentAnyIsQuiet
  <2>5. Quiet(o)
    BY <2>6, <2>3, <2>4, PairIsQuiet, FindsIsQuiet
  <2> HIDE DEF o
  <2> QED
    BY <2>1, <2>5, PerformFits
<1>2. CASE CheckComposerVendor(m)
  <2> DEFINE checks == IF content[m].head # "text" THEN {"scan-incomplete"}
                       ELSE report("compromised-composer-version", content[m].declares)
             optional == FALSE
             marked == {}
             read == processFile("composer", m, checks, optional)
             D == IF deep /\ readable(m) /\ content[m].head = "text" THEN declared(m, marked) ELSE {}
             O == {read} \cup {inspectDependencyTarget(t) : t \in D}
             o == IF ~visited(parent(DirOf[m])) \/ content[m].there = "missing" THEN Nothing
                  ELSE together(O)
  <2>1. Perform("vendor", m, o)
    BY <1>2 DEF CheckComposerVendor
  <2>2. genuine(m) /\ content[m].there # "missing" => checks = {}
    <3>1. ~assetExtension(Ext[m])
      BY <2>1, PerformFits DEF Fits
    <3> QED
      BY <3>1, CleanContentLemma DEF report
  <2>3. \A t \in D : Quiet(inspectDependencyTarget(t))
    BY DependencyTargetIsQuiet DEF declared
  <2> HIDE DEF checks, optional, marked, D
  <2>4. content[m].there # "missing" => Quiet(read)
    BY <2>2, FileIsQuiet
  <2> HIDE DEF read
  <2>5. content[m].there # "missing" => \A x \in O : Quiet(x)
    BY <2>3, <2>4
  <2> HIDE DEF O
  <2>6. Quiet(o)
    BY <2>5, TogetherIsQuiet, NothingIsQuiet
  <2> HIDE DEF o
  <2> QED
    BY <2>1, <2>6, PerformFits
<1>3. CASE CheckDistInfo(m)
  <2> DEFINE checks == report("compromised-python-version", is("baddist", m))
             O == {finds(m, checks)} \cup IF deep THEN {inspectPythonEntrypoints(m)} ELSE {}
             o == together(O)
  <2>1. Perform("dist", m, o)
    BY <1>3 DEF CheckDistInfo
  <2>2. checks \subseteq Excused
    BY DEF report, Excused
  <2> HIDE DEF checks
  <2>3. \A x \in O : Quiet(x)
    BY <2>2, FindsIsQuiet, EntrypointsAreQuiet
  <2> HIDE DEF O
  <2>4. Quiet(o)
    BY <2>3, TogetherIsQuiet
  <2> HIDE DEF o
  <2> QED
    BY <2>1, <2>4, PerformFits
<1>4. CASE CheckPthFile(m)
  <2>1. PICK here \in seen(m) :
          Perform("pth", m,
            IF ~here THEN Nothing
            ELSE IF is("badpth", m) THEN finds(m, {"malicious-pth-file"})
            ELSE processFile("pth", m, inspectPth(deep, fileBytes(m)), FALSE))
    BY <1>4 DEF CheckPthFile
  <2> DEFINE words == {"malicious-pth-file"}
             checks == inspectPth(deep, fileBytes(m))
             optional == FALSE
             o == IF ~here THEN Nothing
                  ELSE IF is("badpth", m) THEN finds(m, words)
                  ELSE processFile("pth", m, checks, optional)
  <2>2. Perform("pth", m, o)
    BY <2>1
  <2>3. here /\ genuine(m) => content[m].there # "missing"
    BY SeenLemma
  <2>4. here /\ genuine(m) => ~is("badpth", m) /\ checks = {}
    BY <2>3, GenuineLemma, CleanContentLemma DEF is
  <2> HIDE DEF words, checks, optional
  <2>5. here /\ is("badpth", m) => Quiet(finds(m, words))
    BY <2>4, FindsIsQuiet
  <2>6. here => Quiet(processFile("pth", m, checks, optional))
    BY <2>3, <2>4, FileIsQuiet
  <2>7. Quiet(o)
    BY <2>5, <2>6, NothingIsQuiet
  <2> HIDE DEF o
  <2> QED
    BY <2>2, <2>7, PerformFits
<1> QED
  BY <1>1, <1>2, <1>3, <1>4

LEMMA QuietVisitLemma ==
  ASSUME AgendaInv, EntriesInv, NEW p \in Paths, VisitFile(p)
  PROVE  \E o : Conclude(o) /\ Quiet(o) /\ UNCHANGED scopeVars
<1> DEFINE o == IF p \in entries THEN visitProject(p) ELSE Nothing
<1>1. Perform("file", p, o)
  BY DEF VisitFile
<1>2. p \in entries /\ genuine(p) => content[p].there # "missing"
  BY DEF EntriesInv, genuine
<1>3. Quiet(o)
  BY <1>2, VisitIsQuiet, NothingIsQuiet
<1> HIDE DEF o
<1> QED
  BY <1>1, <1>3, PerformFits

LEMMA QuietDirectoriesLemma ==
  ASSUME NEW d \in Dirs, CheckDir(d)
  PROVE  \E o : Conclude(o) /\ Quiet(o) /\ (UNCHANGED scopeVars \/ List(d))
<1>1. ~genuine(d)
  BY FilesAssumption DEF genuine
<1>2. \A p \in Phantoms[d] \cap Paths : Usual[p].there = "missing"
  BY TargetsAssumption
<1>3. CASE ListDirectory(d)
  <2> DEFINE checks == report("scan-incomplete", found(d) /\ d \in unlisted)
             o == finds(d, checks)
  <2>1. Conclude(o) /\ List(d)
    BY <1>3 DEF ListDirectory
  <2> HIDE DEF checks
  <2>2. Quiet(o)
    BY <1>1, FindsIsQuiet
  <2> HIDE DEF o
  <2> QED
    BY <2>1, <2>2
<1>4. CASE CheckConfigDir(d)
  <2> DEFINE name == "project-artifact"
             o == IF visited(d) THEN presentAny(Phantoms[d], name) ELSE Nothing
  <2>1. Conclude(o) /\ UNCHANGED scopeVars
    BY <1>4 DEF CheckConfigDir
  <2> HIDE DEF name
  <2>2. Quiet(o)
    BY <1>2, PresentAnyIsQuiet, NothingIsQuiet
  <2> HIDE DEF o
  <2> QED
    BY <2>1, <2>2
<1>5. ASSUME NEW check, NEW met, NEW o, Enter(check, d, met, o), Quiet(o)
      PROVE  \E x : Conclude(x) /\ Quiet(x) /\ UNCHANGED scopeVars
  <2> DEFINE checks == report("scan-incomplete", d \in unlisted)
             x == IF ~met THEN Nothing ELSE together({o, finds(d, checks)})
  <2>1. Conclude(x) /\ UNCHANGED scopeVars
    BY <1>5 DEF Enter
  <2> HIDE DEF checks
  <2>2. Quiet(finds(d, checks))
    BY <1>1, FindsIsQuiet
  <2>3. Quiet(x)
    BY <1>5, <2>2, PairIsQuiet, NothingIsQuiet
  <2> HIDE DEF x
  <2> QED
    BY <2>1, <2>3
<1>6. CASE CheckNodeModulesDir(d)
  <2> DEFINE name == "phantom-dependency"
             o == presentAny(Phantoms[d], name)
             check == "modules"
             met == visited(d)
  <2>1. Enter(check, d, met, o)
    BY <1>6 DEF CheckNodeModulesDir
  <2> HIDE DEF name
  <2>2. Quiet(o)
    BY <1>2, PresentAnyIsQuiet
  <2> HIDE DEF o, check, met
  <2> QED
    BY <1>5, <2>1, <2>2
<1>7. CASE CheckSitePackagesDir(d)
  <2> DEFINE o == Nothing
             check == "site"
             met == pathInScope(d) /\ found(d)
  <2>1. Enter(check, d, met, o) /\ Quiet(o)
    BY <1>7, NothingIsQuiet DEF CheckSitePackagesDir
  <2> HIDE DEF o, check, met
  <2> QED
    BY <1>5, <2>1
<1> QED
  BY <1>3, <1>4, <1>6, <1>7 DEF CheckDir

\* No task says a word of a file that is as usual.
LEMMA QuietTargetedLemma ==
  ASSUME AgendaInv, EntriesInv, QuietFilesStayQuiet, TargetedNext
  PROVE  (EntriesInv /\ QuietFilesStayQuiet)'
<1>1. PICK p : (p \in Paths /\ Check(p)) \/ (p \in Dirs /\ CheckDir(p))
  BY DEF TargetedNext
<1>2. \E o : Conclude(o) /\ Quiet(o) /\ (UNCHANGED scopeVars \/ \E d \in Dirs : List(d))
  <2>1. CASE p \in Paths /\ Check(p)
    BY <2>1, QuietFixedPathsLemma, QuietPackagesLemma, QuietVisitLemma DEF Check
  <2>2. CASE p \in Dirs /\ CheckDir(p)
    BY <2>2, QuietDirectoriesLemma
  <2> QED
    BY <1>1, <2>1, <2>2
<1>3. PICK o : Conclude(o) /\ Quiet(o) /\ (UNCHANGED scopeVars \/ \E d \in Dirs : List(d))
  BY <1>2
<1> QED
  BY <1>3, QuietConcludeLemma, EntriesLemma

\* Nor does what is said of processes, which are no files.
LEMMA QuietProcessesLemma ==
  ASSUME EntriesInv, QuietFilesStayQuiet, RunProcesses
  PROVE  (EntriesInv /\ QuietFilesStayQuiet)'
<1>1. UNCHANGED scopeVars /\ ProcessNext
  BY DEF RunProcesses
<1>2. \A q \in Procs \cup {"processes", "restricted", "unresolved"} : ~genuine(q)
  BY CleanAssumption DEF genuine
<1>3. \E o : Conclude(o) /\ Quiet(o)
  <2>1. CASE CollectionFails \/ CollectProcesses
    <3>1. PICK F \in SUBSET {collection} : Conclude([Nothing EXCEPT !.found = F])
      BY <2>1 DEF CollectionFails, CollectProcesses
    <3>2. Quiet([Nothing EXCEPT !.found = F])
      BY <1>2, <3>1 DEF Quiet, Still, Nothing, collection
    <3> QED
      BY <3>1, <3>2
  <2>2. ASSUME NEW q \in Procs, InspectProcess(q)
        PROVE  \E o : Conclude(o) /\ Quiet(o)
    <3> DEFINE words == report("running-payload-process", reasons(q))
               script == Command[q].script
               checks == {}
               optional == TRUE
               read == processFile("process", script, checks, optional)
               O == {finds(q, words)} \cup
                    IF nodeScript(q) /\ Command[q].located THEN {read} ELSE {}
               o == together(O)
    <3>1. Conclude(o)
      BY <2>2 DEF InspectProcess
    <3>2. checks = {} /\ optional
      OBVIOUS
    <3> HIDE DEF words, script, checks, optional
    <3>3. Quiet(finds(q, words)) /\ Quiet(read)
      BY <1>2, <3>2, FindsIsQuiet, FileIsQuiet
    <3> HIDE DEF read
    <3>4. \A x \in O : Quiet(x)
      BY <3>3
    <3> HIDE DEF O
    <3>5. Quiet(o)
      BY <3>4, TogetherIsQuiet
    <3> HIDE DEF o
    <3> QED
      BY <3>1, <3>5
  <2>3. CASE FinishProcesses
    <3> DEFINE restrictions == report("scan-limited", restricted # {})
               scripts == report("scan-limited", unresolved # {})
               p == "restricted"
               u == "unresolved"
               o == together({finds(p, restrictions), finds(u, scripts)})
    <3>1. Conclude(o)
      BY <2>3 DEF FinishProcesses
    <3>2. ~genuine(p) /\ ~genuine(u)
      BY <1>2
    <3> HIDE DEF restrictions, scripts, p, u
    <3>3. Quiet(o)
      BY <3>2, FindsIsQuiet, PairIsQuiet
    <3> HIDE DEF o
    <3> QED
      BY <3>1, <3>3
  <2> QED
    BY <1>1, <2>1, <2>2, <2>3 DEF ProcessNext
<1>4. PICK o : Conclude(o) /\ Quiet(o)
  BY <1>3
<1> QED
  BY <1>1, <1>4, QuietConcludeLemma, EntriesLemma

-----------------------------------------------------------------------------
(* The evidence.  An outcome Tells if every mark in it comes with what the  *)
(* mark keeps from being found: a finding, a gap, or what was told before.  *)

Told(F, p) ==
  \/ reported(p)
  \/ gap(p) \in F \/ \E k \in DOMAIN Up[DirOf[p]] : gap(Up[DirOf[p]][k]) \in F
  \/ \E k \in criticals : <<k, p>> \in F

SignaturesTold(o) ==
  \A p \in Paths \cap (o.persisted \cup o.scripted \cup o.packaged) : signed(p) => Told(o.found, p)

PersistedTold(o) ==
  \A p \in Paths \cap o.persisted :
    /\ stays(p) /\ content[p].sidecar /\ ~headOnly(p) =>
         Told(o.found, p) \/ <<"startup", p>> \in o.read \cup inspected
    /\ stays(p) /\ p \notin fixed /\ Kind[p] \cap Watched = {} => Told(o.found, p)

ScriptedTold(o) ==
  \A p \in Paths \cap o.scripted :
    stays(p) =>
      \/ Told(o.found, p) \/ <<"script", p>> \in o.read \cup inspected
      \/ <<"dependency", p>> \in o.read \cup inspected
         /\ (content[p].published => validAsset(Ext[p], content[p]))

NamedTold(o) ==
  \A m \in Paths \cap o.packaged :
    parsed(m) => \A p \in Paths \cap names(m) : pathInScope(p) /\ signed(p) => Told(o.found, p)

Tells(o) == SignaturesTold(o) /\ PersistedTold(o) /\ ScriptedTold(o) /\ NamedTold(o)

LEMMA ToldGrows ==
  ASSUME NEW F, NEW G, F \subseteq G, NEW p, Told(F, p)
  PROVE  Told(G, p)
  BY DEF Told

\* An outcome without marks keeps nothing from being found.
LEMMA UnmarkedTells ==
  ASSUME NEW o, o.persisted = {}, o.scripted = {}, o.packaged = {}
  PROVE  Tells(o)
  BY DEF Tells, SignaturesTold, PersistedTold, ScriptedTold, NamedTold

LEMMA NothingTells == Tells(Nothing)
  BY UnmarkedTells DEF Nothing

LEMMA FindsTells ==
  ASSUME NEW p, NEW checks
  PROVE  Tells(finds(p, checks))
<1>1. PICK F : finds(p, checks) = outcome(F, {})
  BY FindsShape
<1> QED
  BY <1>1, UnmarkedTells DEF outcome

LEMMA TogetherTells ==
  ASSUME NEW O, \A o \in O : Tells(o)
  PROVE  Tells(together(O))
<1> DEFINE t == together(O)
<1>1. /\ t.found = UNION {o.found : o \in O} /\ t.read = UNION {o.read : o \in O}
      /\ t.persisted = UNION {o.persisted : o \in O}
      /\ t.scripted = UNION {o.scripted : o \in O}
      /\ t.packaged = UNION {o.packaged : o \in O}
  BY DEF together
<1> HIDE DEF t
<1>2. \A o \in O : o.found \subseteq t.found /\ o.read \subseteq t.read
  BY <1>1
<1>3. \A o \in O : \A p : Told(o.found, p) => Told(t.found, p)
  BY <1>2, ToldGrows
<1>4. SignaturesTold(t)
  BY <1>1, <1>3 DEF Tells, SignaturesTold
<1>5. PersistedTold(t)
  <2> SUFFICES ASSUME NEW o \in O, NEW p \in Paths \cap o.persisted
               PROVE  /\ stays(p) /\ content[p].sidecar /\ ~headOnly(p) =>
                           Told(t.found, p) \/ <<"startup", p>> \in t.read \cup inspected
                      /\ stays(p) /\ p \notin fixed /\ Kind[p] \cap Watched = {} => Told(t.found, p)
    BY <1>1, ZenonT(60) DEF PersistedTold
  <2> QED
    BY <1>2, <1>3 DEF Tells, PersistedTold
<1>6. ScriptedTold(t)
  <2> SUFFICES ASSUME NEW o \in O, NEW p \in Paths \cap o.scripted, stays(p)
               PROVE  \/ Told(t.found, p) \/ <<"script", p>> \in t.read \cup inspected
                      \/ /\ <<"dependency", p>> \in t.read \cup inspected
                         /\ content[p].published => validAsset(Ext[p], content[p])
    BY <1>1, ZenonT(60) DEF ScriptedTold
  <2> QED
    BY <1>2, <1>3 DEF Tells, ScriptedTold
<1>7. NamedTold(t)
  <2> SUFFICES ASSUME NEW o \in O, NEW m \in Paths \cap o.packaged, parsed(m),
                      NEW p \in Paths \cap names(m), pathInScope(p), signed(p)
               PROVE  Told(t.found, p)
    BY <1>1 DEF NamedTold
  <2> QED
    BY <1>3 DEF Tells, NamedTold
<1> QED
  BY <1>4, <1>5, <1>6, <1>7 DEF Tells, t

LEMMA PairTells ==
  ASSUME NEW a, NEW b, Tells(a), Tells(b)
  PROVE  Tells(together({a, b}))
  BY TogetherTells

\* What is told by one of them is told by all together.
LEMMA TogetherTold ==
  ASSUME NEW O, NEW o \in O, NEW p, Told(o.found, p)
  PROVE  Told(together(O).found, p)
<1>1. o.found \subseteq together(O).found
  BY DEF together
<1> QED
  BY <1>1, ToldGrows


\* A signature is found by every check of contents that looks at it.
LEMMA SignatureLemma ==
  ASSUME WorldInv, NEW p \in Paths, carriesSignature(p, content[p])
  PROVE  /\ content[p].head = "text" /\ ~is("gitignore", p)
         /\ "payload-signature" \in inspectGeneralContent(content[p])
         /\ "payload-signature" \in inspectScriptTarget(fileBytes(p))
         /\ "patched-application" \in inspectApplication(fileBytes(p))
         /\ p \in ToSet(NpmCLIs) => "patched-npm-cli" \in inspectNpmCLI(fileBytes(p))
         /\ "payload-signature" \in inspectStartupContent(Ext[p], fileBytes(p))
         /\ \E k \in criticals : k \in inspectDependency(Ext[p], sourceBytes(p))
         /\ \E k \in criticals : k \in inspectSourceContent(Ext[p], sourceBytes(p))
<1> DEFINE c == content[p]
           e == Ext[p]
           b == sourceBytes(p)
<1>1. /\ ~is("gitignore", p) /\ e # "hosts" /\ c.marker \in {"plain", "escaped"}
      /\ p \in ToSet(NpmCLIs) => c.marker = "plain"
      /\ ~c.commented /\ c.head = "text" /\ c \in Content
  BY DEF carriesSignature, WorldInv
<1>2. fileBytes(p) = c /\ b = c
  BY <1>1 DEF fileBytes, sourceBytes, headOnly, nativeExecutable, binarySource, validAsset
<1>3. b.marker = c.marker /\ b.head = c.head /\ b \in Content
  BY <1>1, <1>2
<1>11. c = content[p] /\ e = Ext[p] /\ b = sourceBytes(p)
  OBVIOUS
<1> HIDE DEF c, e, b
<1>4. ASSUME NEW x \in Content, x.marker \in {"plain", "escaped"}, x.head = "text"
      PROVE  payloadSignature(normalizeASCII(x)) /\ "payload-signature" \in inspectGeneralContent(x)
  <2>1. normalizeASCII(x).marker = "plain"
    BY <1>4 DEF normalizeASCII, Content
  <2> QED
    BY <1>4, <2>1 DEF payloadSignature, inspectGeneralContent
<1>5. "payload-signature" \in inspectGeneralContent(c) /\ "payload-signature" \in inspectScriptTarget(c)
  BY <1>1, <1>4 DEF inspectScriptTarget
<1>6. "patched-application" \in inspectApplication(c)
  BY <1>1, <1>4 DEF inspectApplication, persistenceSignature
<1>7. p \in ToSet(NpmCLIs) => "patched-npm-cli" \in inspectNpmCLI(c)
  BY <1>1 DEF inspectNpmCLI, persistenceSignature, payloadSignature, report
<1>8. "payload-signature" \in inspectStartupContent(e, c)
  <2>1. withoutComments(c) \in Content /\ withoutComments(c).marker = c.marker
        /\ withoutComments(c).head = "text"
    BY <1>1 DEF withoutComments, Content
  <2> QED
    BY <1>1, <1>4, <2>1 DEF inspectStartupContent
<1>9. \E k \in criticals : k \in inspectDependency(e, b)
  <2>1. "payload-signature" \in criticals /\ "malicious-repo-artifact" \in criticals
    BY DEF criticals
  <2>2. CASE b.published
    BY <2>1, <2>2 DEF inspectDependency, checkRepoPayloadHash, report
  <2>3. CASE ~b.published
    BY <1>1, <1>3, <1>4, <2>1, <2>3 DEF inspectDependency
  <2> QED
    BY <2>2, <2>3
<1>10. \E k \in criticals : k \in inspectSourceContent(e, b)
  <2>1. "payload-signature" \in criticals /\ "malicious-repo-artifact" \in criticals
    BY DEF criticals
  <2>2. ~validAsset(e, b)
    BY <1>1, <1>3 DEF validAsset
  <2>3. CASE b.published
    BY <2>1, <2>2, <2>3 DEF inspectSourceContent, checkRepoPayloadHash, report
  <2>4. CASE ~b.published
    BY <1>1, <1>3, <1>4, <2>1, <2>2, <2>4 DEF inspectSourceContent, generalThenPadding
  <2> QED
    BY <2>3, <2>4
<1> QED
  BY <1>1, <1>2, <1>5, <1>6, <1>7, <1>8, <1>9, <1>10, <1>11

\* Published bytes are found by what looks for them, and so is a font that is text.
LEMMA PayloadLemma ==
  ASSUME WorldInv, NEW p \in Paths
  PROVE  /\ content[p].published /\ ~validAsset(Ext[p], content[p]) =>
              /\ \E k \in criticals : k \in inspectDependency(Ext[p], sourceBytes(p))
              /\ \E k \in criticals : k \in inspectSourceContent(Ext[p], sourceBytes(p))
         /\ Ext[p] = "font" /\ content[p].head = "text" =>
              \E k \in criticals : k \in inspectSourceContent(Ext[p], sourceBytes(p))
<1> DEFINE c == content[p]
           e == Ext[p]
<1>1. (c.published /\ ~validAsset(e, c)) \/ c.head = "text" => sourceBytes(p) = c
  BY DEF sourceBytes, fileBytes, headOnly, nativeExecutable, binarySource, payloadCandidate, validAsset
<1>2. c = content[p] /\ e = Ext[p]
  OBVIOUS
<1> HIDE DEF c, e
<1>4. "malicious-repo-artifact" \in criticals /\ "fake-font-payload" \in criticals
  BY DEF criticals
<1>5. c.published => \E k \in criticals : k \in inspectDependency(e, c)
  BY <1>4 DEF inspectDependency, checkRepoPayloadHash, report
<1>6. c.published /\ ~validAsset(e, c) => \E k \in criticals : k \in inspectSourceContent(e, c)
  BY <1>4 DEF inspectSourceContent, checkRepoPayloadHash, report, validAsset
<1>7. e = "font" /\ c.head = "text" => \E k \in criticals : k \in inspectSourceContent(e, c)
  BY <1>4 DEF inspectSourceContent, checkFakeFont, report
<1> QED
  BY <1>1, <1>2, <1>5, <1>6, <1>7

\* A module that is referred to is found in an entrypoint.
LEMMA ReferenceLemma ==
  ASSUME WorldInv, NEW p \in Paths, content[p].sidecar, ~headOnly(p)
  PROVE  /\ "patched-application" \in inspectApplication(fileBytes(p))
         /\ "patched-npm-cli" \in inspectNpmCLI(fileBytes(p))
<1> DEFINE c == content[p]
<1>1. c \in Content
  BY DEF WorldInv
<1> HIDE DEF c
<1>2. normalizeASCII(c).sidecar = c.sidecar
  BY <1>1 DEF normalizeASCII, Content
<1>3. c.sidecar /\ fileBytes(p) = c
  BY DEF c, fileBytes
<1>4. "patched-application" \in inspectApplication(c) /\ "patched-npm-cli" \in inspectNpmCLI(c)
  BY <1>2, <1>3 DEF inspectApplication, inspectNpmCLI, persistenceSignature, report
<1> QED
  BY <1>3, <1>4

\* A read of a file that stays takes it, with all its check has to say, or
\* names it as a gap.
LEMMA ReadShape ==
  ASSUME NEW how, NEW p, NEW checks, NEW optional
  PROVE  \E f, r : /\ processFile(how, p, checks, optional) = outcome(f, r)
                   /\ stays(p) => \/ gap(p) \in f
                                  \/ r = {<<how, p>>} /\ \A k \in checks : <<k, p>> \in f
<1>1. CASE content[p].there = "irregular" \/ (optional /\ content[p].there = "missing")
  <2>1. processFile(how, p, checks, optional) = outcome({}, {})
    BY <1>1 DEF processFile, Nothing, outcome
  <2> QED
    BY <1>1, <2>1 DEF stays
<1>2. CASE /\ ~(content[p].there = "irregular" \/ (optional /\ content[p].there = "missing"))
           /\ ~readable(p)
  <2> DEFINE words == {"scan-incomplete"}
  <2>1. processFile(how, p, checks, optional) = finds(p, words) /\ "scan-incomplete" \in words
    BY <1>2 DEF processFile
  <2> HIDE DEF words
  <2>2. PICK F : finds(p, words) = outcome(F, {}) /\ \A k \in words : <<k, p>> \in F
    BY FindsShape
  <2>3. gap(p) \in F
    BY <2>1, <2>2 DEF gap
  <2> QED
    BY <2>1, <2>2, <2>3
<1>3. CASE /\ ~(content[p].there = "irregular" \/ (optional /\ content[p].there = "missing"))
           /\ readable(p)
  <2> DEFINE r == {<<how, p>>}
  <2> DEFINE words == checks \cup report("scan-limited", nativeExecutable(p))
  <2>1. processFile(how, p, checks, optional) = [finds(p, words) EXCEPT !.read = r]
    BY <1>3 DEF processFile
  <2>2. checks \subseteq words
    OBVIOUS
  <2> HIDE DEF words
  <2>4. PICK F : finds(p, words) = outcome(F, {}) /\ \A k \in words : <<k, p>> \in F
    BY FindsShape
  <2> HIDE DEF r
  <2>3. processFile(how, p, checks, optional) = outcome(F, r)
    BY <2>1, <2>4 DEF outcome
  <2> QED
    BY <2>2, <2>3, <2>4 DEF r
<1> QED
  BY <1>1, <1>2, <1>3

\* What a read is to say of a file that stays is told.
LEMMA ReadTold ==
  ASSUME NEW how, NEW p, NEW checks, NEW optional, stays(p), \E k \in criticals : k \in checks
  PROVE  Told(processFile(how, p, checks, optional).found, p)
<1>1. PICK f, r : /\ processFile(how, p, checks, optional) = outcome(f, r)
                  /\ stays(p) => \/ gap(p) \in f
                                 \/ r = {<<how, p>>} /\ \A k \in checks : <<k, p>> \in f
  BY ReadShape
<1> QED
  BY <1>1 DEF Told, outcome

LEMMA ReadTells ==
  ASSUME NEW how, NEW p, NEW checks, NEW optional
  PROVE  Tells(processFile(how, p, checks, optional))
<1>1. PICK f, r : processFile(how, p, checks, optional) = outcome(f, r)
  BY ReadShape
<1> QED
  BY <1>1, UnmarkedTells DEF outcome

\* A persistence check may mark what it reads if it looks for signatures, and for
\* references unless it is the one of startup files.
LEMMA MarkedReadTells ==
  ASSUME NEW how, NEW p, NEW checks, NEW optional,
         carriesSignature(p, content[p]) => \E k \in criticals : k \in checks,
         content[p].sidecar /\ ~headOnly(p) => how = "startup" \/ \E k \in criticals : k \in checks,
         p \in fixed \/ Kind[p] \cap Watched # {}
  PROVE  Tells([processFile(how, p, checks, optional) EXCEPT !.persisted = {p}])
<1>1. PICK f, r : /\ processFile(how, p, checks, optional) = outcome(f, r)
                  /\ stays(p) => \/ gap(p) \in f
                                 \/ r = {<<how, p>>} /\ \A k \in checks : <<k, p>> \in f
  BY ReadShape
<1> DEFINE o == [found |-> f, read |-> r, persisted |-> {p}, scripted |-> {}, packaged |-> {}]
<1>2. [processFile(how, p, checks, optional) EXCEPT !.persisted = {p}] = o
  BY <1>1 DEF outcome
<1>3. SignaturesTold(o)
  BY <1>1 DEF SignaturesTold, signed, Told
<1>4. PersistedTold(o)
  BY <1>1 DEF PersistedTold, Told
<1>5. ScriptedTold(o) /\ NamedTold(o)
  BY DEF ScriptedTold, NamedTold
<1> QED
  BY <1>2, <1>3, <1>4, <1>5 DEF Tells

\* What a manifest names may be marked if it is looked at for signatures and, by
\* the check of dependencies, for published bytes.
LEMMA ScriptedReadTells ==
  ASSUME NEW how, NEW p, NEW checks, NEW optional,
         p \in Paths /\ carriesSignature(p, content[p]) => \E k \in criticals : k \in checks,
         \/ how = "script"
         \/ /\ how = "dependency"
            /\ p \in Paths /\ content[p].published /\ ~validAsset(Ext[p], content[p]) =>
                 \E k \in criticals : k \in checks
  PROVE  /\ Tells([processFile(how, p, checks, optional) EXCEPT !.scripted = {p}])
         /\ p \in Paths /\ signed(p) =>
              Told([processFile(how, p, checks, optional) EXCEPT !.scripted = {p}].found, p)
<1>1. PICK f, r : /\ processFile(how, p, checks, optional) = outcome(f, r)
                  /\ stays(p) => \/ gap(p) \in f
                                 \/ r = {<<how, p>>} /\ \A k \in checks : <<k, p>> \in f
  BY ReadShape
<1> DEFINE o == [found |-> f, read |-> r, persisted |-> {}, scripted |-> {p}, packaged |-> {}]
           read == processFile(how, p, checks, optional)
<1>2. [processFile(how, p, checks, optional) EXCEPT !.scripted = {p}] = o
  <2>1. read = [found |-> f, read |-> r, persisted |-> {}, scripted |-> {}, packaged |-> {}]
    BY <1>1 DEF outcome
  <2> HIDE DEF read
  <2>2. [read EXCEPT !.scripted = {p}] = o
    BY <2>1
  <2> QED
    BY <2>2 DEF read
<1>3. p \in Paths /\ signed(p) => Told(f, p)
  BY <1>1 DEF signed, Told
<1>4. SignaturesTold(o)
  BY <1>3 DEF SignaturesTold
<1>5. ScriptedTold(o)
  BY <1>1 DEF ScriptedTold, Told
<1>6. PersistedTold(o) /\ NamedTold(o)
  BY DEF PersistedTold, NamedTold
<1> QED
  BY <1>2, <1>3, <1>4, <1>5, <1>6 DEF Tells

\* A file may be marked that is not there, or of which a finding tells.
LEMMA MarkedWordsTell ==
  ASSUME NEW o, NEW F, NEW p, o = outcome(F, {}),
         stays(p) => Told(F, p)
  PROVE  Tells([o EXCEPT !.persisted = {p}])
<1> DEFINE m == [found |-> F, read |-> {}, persisted |-> {p}, scripted |-> {}, packaged |-> {}]
<1>1. [o EXCEPT !.persisted = {p}] = m
  BY DEF outcome
<1>2. SignaturesTold(m) /\ PersistedTold(m)
  BY DEF SignaturesTold, PersistedTold, signed
<1>3. ScriptedTold(m) /\ NamedTold(m)
  BY DEF ScriptedTold, NamedTold
<1> QED
  BY <1>1, <1>2, <1>3 DEF Tells

\* Sidecars are reported for their names before they are marked.
LEMMA SiblingsTell ==
  ASSUME EarnedInv, NEW d \in Dirs
  PROVE  Tells(checkPersistenceSiblings(d))
<1> DEFINE o == checkPersistenceSiblings(d)
<1>1. CASE d \in persistenceChecked
  BY <1>1, NothingTells DEF checkPersistenceSiblings
<1>2. CASE d \notin persistenceChecked /\ d \in unlisted
  <2>1. o = [found |-> {gap(d)}, read |-> {}, persisted |-> {d}, scripted |-> {}, packaged |-> {}]
    BY <1>2 DEF checkPersistenceSiblings, Nothing
  <2>2. Paths \cap {d} = {}
    BY FilesAssumption
  <2> HIDE DEF o
  <2>3. Tells(o)
    BY <2>1, <2>2 DEF Tells, SignaturesTold, PersistedTold, ScriptedTold, NamedTold
  <2> QED
    BY <2>3 DEF o
<1>3. CASE d \notin persistenceChecked /\ d \notin unlisted
  <2> DEFINE F == {<<"malicious-repo-artifact", q>> : q \in sidecars(d) \ persistenceChecked}
             P == {d} \cup sidecars(d)
  <2>1. o = [found |-> F, read |-> {}, persisted |-> P, scripted |-> {}, packaged |-> {}]
    BY <1>3 DEF checkPersistenceSiblings, Nothing
  <2>2. ASSUME NEW p \in Paths \cap P
        PROVE  p \in persistenceChecked \/ Told(F, p)
    <3>1. p \in sidecars(d)
      BY FilesAssumption
    <3>2. "malicious-repo-artifact" \in criticals
      BY DEF criticals
    <3> QED
      BY <3>1, <3>2 DEF Told
  <2>3. \A p : reported(p) => Told(F, p)
    BY DEF Told
  <2> HIDE DEF o, F, P
  <2>4. SignaturesTold(o)
    BY <2>1, <2>2, <2>3 DEF SignaturesTold, EarnedInv
  <2>5. PersistedTold(o)
    <3> SUFFICES ASSUME NEW p \in Paths \cap P
                 PROVE  /\ stays(p) /\ content[p].sidecar /\ ~headOnly(p) =>
                             Told(F, p) \/ <<"startup", p>> \in inspected
                        /\ stays(p) /\ p \notin fixed /\ Kind[p] \cap Watched = {} => Told(F, p)
      BY <2>1 DEF PersistedTold
    <3> QED
      BY <2>2, <2>3 DEF EarnedInv
  <2>6. ScriptedTold(o) /\ NamedTold(o)
    BY <2>1 DEF ScriptedTold, NamedTold
  <2> QED
    BY <2>4, <2>5, <2>6 DEF Tells, o
<1> QED
  BY <1>1, <1>2, <1>3

\* A mark on a file that a persistence check may come to.
LEMMA ApplicationFileTells ==
  ASSUME WorldInv, NEW p \in Paths, p \in fixed \/ Kind[p] \cap Watched # {}
  PROVE  /\ Tells(checkApplicationFile(p))
         /\ p \in persistenceChecked \cup checkApplicationFile(p).persisted
<1>1. CASE p \in persistenceChecked
  BY <1>1, NothingTells DEF checkApplicationFile
<1>2. CASE p \notin persistenceChecked /\ content[p].there = "missing"
  <2> DEFINE F == {}
             P == {p}
  <2>1. Nothing = outcome(F, {})
    BY DEF Nothing, outcome
  <2> HIDE DEF F
  <2>2. Tells([Nothing EXCEPT !.persisted = {p}])
    BY <1>2, <2>1, MarkedWordsTell DEF stays
  <2>3. checkApplicationFile(p) = [Nothing EXCEPT !.persisted = {p}]
    BY <1>2 DEF checkApplicationFile
  <2> QED
    BY <2>2, <2>3 DEF Nothing
<1>3. CASE p \notin persistenceChecked /\ content[p].there = "irregular"
  <2> DEFINE o == finds(p, {"scan-incomplete"})
  <2>1. PICK F : o = outcome(F, {})
    BY FindsShape
  <2>2. checkApplicationFile(p) = [o EXCEPT !.persisted = {p}]
    BY <1>3 DEF checkApplicationFile
  <2> HIDE DEF o
  <2>3. Tells([o EXCEPT !.persisted = {p}])
    BY <1>3, <2>1, MarkedWordsTell DEF stays
  <2> QED
    BY <2>1, <2>2, <2>3 DEF outcome
<1>4. CASE p \notin persistenceChecked /\ content[p].there \notin {"missing", "irregular"}
  <2> DEFINE checks == inspectApplication(fileBytes(p))
             optional == FALSE
             how == "application"
             read == processFile(how, p, checks, optional)
  <2>1. /\ carriesSignature(p, content[p]) => \E k \in criticals : k \in checks
        /\ content[p].sidecar /\ ~headOnly(p) => \E k \in criticals : k \in checks
    <3>1. "patched-application" \in criticals
      BY DEF criticals
    <3> QED
      BY <3>1, SignatureLemma, ReferenceLemma
  <2>2. checkApplicationFile(p) = [read EXCEPT !.persisted = {p}]
    BY <1>4 DEF checkApplicationFile
  <2> HIDE DEF checks, optional, how
  <2>3. Tells([read EXCEPT !.persisted = {p}])
    BY <2>1, MarkedReadTells
  <2>4. PICK f, r : read = outcome(f, r)
    BY ReadShape
  <2> QED
    BY <2>2, <2>3, <2>4 DEF outcome
<1> QED
  BY <1>1, <1>2, <1>3, <1>4

LEMMA NpmFileTells ==
  ASSUME WorldInv, NEW p \in ToSet(NpmCLIs), p \in Paths
  PROVE  /\ Tells(checkNpmFile(p))
         /\ stays(p) => p \in persistenceChecked \cup checkNpmFile(p).persisted
<1>0. p \in fixed
  BY DEF fixed, persistent
<1>1. CASE content[p].there = "missing"
  BY <1>1, NothingTells DEF checkNpmFile, stays
<1>2. CASE content[p].there = "irregular"
  BY <1>2, FindsTells DEF checkNpmFile, stays
<1>3. CASE content[p].there \notin {"missing", "irregular"} /\ content[p].size # "normal"
  <2> DEFINE o == finds(p, {"patched-npm-cli"})
  <2>1. PICK F : o = outcome(F, {}) /\ \A k \in {"patched-npm-cli"} : <<k, p>> \in F
    BY FindsShape
  <2>2. checkNpmFile(p) = [o EXCEPT !.persisted = {p}]
    BY <1>3 DEF checkNpmFile
  <2>3. Told(F, p)
    BY <2>1 DEF Told, criticals
  <2> HIDE DEF o
  <2>4. Tells([o EXCEPT !.persisted = {p}])
    BY <2>1, <2>3, MarkedWordsTell
  <2> QED
    BY <2>1, <2>2, <2>4 DEF outcome
<1>4. CASE content[p].there \notin {"missing", "irregular"} /\ content[p].size = "normal"
  <2> DEFINE checks == inspectNpmCLI(fileBytes(p))
             optional == FALSE
             how == "npm"
             read == processFile(how, p, checks, optional)
  <2>1. /\ carriesSignature(p, content[p]) => \E k \in criticals : k \in checks
        /\ content[p].sidecar /\ ~headOnly(p) => \E k \in criticals : k \in checks
    <3>1. "patched-npm-cli" \in criticals
      BY DEF criticals
    <3> QED
      BY <3>1, SignatureLemma, ReferenceLemma
  <2>2. checkNpmFile(p) = [read EXCEPT !.persisted = {p}]
    BY <1>4 DEF checkNpmFile
  <2> HIDE DEF checks, optional, how
  <2>3. Tells([read EXCEPT !.persisted = {p}])
    BY <1>0, <2>1, MarkedReadTells
  <2>4. PICK f, r : read = outcome(f, r)
    BY ReadShape
  <2> QED
    BY <2>2, <2>3, <2>4 DEF outcome
<1> QED
  BY <1>1, <1>2, <1>3, <1>4

LEMMA StartupFileTells ==
  ASSUME WorldInv, NEW p \in Paths, p \in fixed \/ Kind[p] \cap Watched # {}, NEW optional
  PROVE  /\ Tells(checkStartupFile(p, optional))
         /\ stays(p) => p \in persistenceChecked \cup checkStartupFile(p, optional).persisted
<1>1. CASE p \in persistenceChecked \/ (optional /\ content[p].there = "missing")
  BY <1>1, NothingTells DEF checkStartupFile, stays
<1>2. CASE ~(p \in persistenceChecked \/ (optional /\ content[p].there = "missing"))
  <2> DEFINE checks == inspectStartupContent(Ext[p], fileBytes(p))
             required == FALSE
             how == "startup"
             read == processFile(how, p, checks, required)
  <2>1. carriesSignature(p, content[p]) => \E k \in criticals : k \in checks
    <3>1. "payload-signature" \in criticals
      BY DEF criticals
    <3> QED
      BY <3>1, SignatureLemma
  <2>2. checkStartupFile(p, optional) = [read EXCEPT !.persisted = {p}]
    BY <1>2 DEF checkStartupFile
  <2> HIDE DEF checks, required
  <2>3. Tells([read EXCEPT !.persisted = {p}])
    BY <2>1, MarkedReadTells
  <2> HIDE DEF how
  <2>4. PICK f, r : read = outcome(f, r)
    BY ReadShape
  <2> QED
    BY <2>2, <2>3, <2>4 DEF outcome
<1> QED
  BY <1>1, <1>2

\* A file with the name of a sidecar or an artifact is reported for it.
LEMMA NameTold ==
  ASSUME NEW p, is("sidecar", p) \/ is("artifact", p)
  PROVE  /\ Told(checkRepoArtifactName(p).found, p)
         /\ Tells([checkRepoArtifactName(p) EXCEPT !.persisted = {p}])
<1> DEFINE checks == report("malicious-repo-artifact", is("sidecar", p) \/ is("artifact", p))
<1>1. "malicious-repo-artifact" \in checks
  BY DEF report
<1>2. checkRepoArtifactName(p) = finds(p, checks)
  BY DEF checkRepoArtifactName
<1> HIDE DEF checks
<1>3. PICK F : finds(p, checks) = outcome(F, {}) /\ \A k \in checks : <<k, p>> \in F
  BY FindsShape
<1>4. Told(F, p)
  BY <1>1, <1>3 DEF Told, criticals
<1> QED
  BY <1>2, <1>3, <1>4, MarkedWordsTell DEF outcome

LEMMA PersistencePathTells ==
  ASSUME WorldInv, NEW p \in Paths
  PROVE  Tells(visitPersistencePath(p))
<1>1. CASE content[p].there # "missing" /\ is("sidecar", p) /\ p \notin persistenceChecked
  BY <1>1, NameTold DEF visitPersistencePath
<1>2. CASE /\ content[p].there # "missing" /\ ~is("sidecar", p)
           /\ is("entrypoint", p) \/ is("toolchain", p)
  <2>1. Kind[p] \cap Watched # {}
    BY <1>2 DEF is, Watched
  <2> QED
    BY <1>2, <2>1, ApplicationFileTells DEF visitPersistencePath
<1>3. CASE visitPersistencePath(p) = Nothing
  BY <1>3, NothingTells
<1> QED
  BY <1>1, <1>2, <1>3 DEF visitPersistencePath

LEMMA ScriptTargetTells ==
  ASSUME WorldInv, NEW t
  PROVE  /\ Tells(checkScriptTarget(t))
         /\ t \in Paths /\ signed(t) => Told(checkScriptTarget(t).found, t)
<1> DEFINE checks == inspectScriptTarget(fileBytes(t))
           optional == FALSE
           how == "script"
<1>1. t \in Paths /\ carriesSignature(t, content[t]) => \E k \in criticals : k \in checks
  <2>1. "payload-signature" \in criticals
    BY DEF criticals
  <2> QED
    BY <2>1, SignatureLemma
<1>2. checkScriptTarget(t) = [processFile(how, t, checks, optional) EXCEPT !.scripted = {t}]
  BY DEF checkScriptTarget
<1> HIDE DEF checks, optional
<1>3. /\ Tells([processFile(how, t, checks, optional) EXCEPT !.scripted = {t}])
      /\ t \in Paths /\ signed(t) =>
           Told([processFile(how, t, checks, optional) EXCEPT !.scripted = {t}].found, t)
  BY <1>1, ScriptedReadTells
<1> QED
  BY <1>2, <1>3

LEMMA DependencyTargetTells ==
  ASSUME WorldInv, NEW t
  PROVE  /\ Tells(inspectDependencyTarget(t))
         /\ t \in Paths /\ signed(t) => Told(inspectDependencyTarget(t).found, t)
<1> DEFINE checks == inspectDependency(Ext[t], sourceBytes(t))
                     \cup report("scan-limited", binarySource(t))
           optional == FALSE
           how == "dependency"
<1>1. t \in Paths /\ carriesSignature(t, content[t]) => \E k \in criticals : k \in checks
  BY SignatureLemma
<1>2. t \in Paths /\ content[t].published /\ ~validAsset(Ext[t], content[t]) =>
        \E k \in criticals : k \in checks
  BY PayloadLemma
<1>3. inspectDependencyTarget(t) =
        [processFile(how, t, checks, optional) EXCEPT !.scripted = {t}]
  BY DEF inspectDependencyTarget, processSourceFile
<1> HIDE DEF checks, optional
<1>4. /\ Tells([processFile(how, t, checks, optional) EXCEPT !.scripted = {t}])
      /\ t \in Paths /\ signed(t) =>
           Told([processFile(how, t, checks, optional) EXCEPT !.scripted = {t}].found, t)
  BY <1>1, <1>2, ScriptedReadTells
<1> QED
  BY <1>3, <1>4

\* What a manifest names is looked at with it, and the manifest itself.
LEMMA ManifestTells ==
  ASSUME WorldInv, NEW m \in Paths, NEW known
  PROVE  /\ Tells(inspectManifest(m, known))
         /\ content[m].head = "text" =>
              /\ signed(m) => Told(inspectManifest(m, known).found, m)
              /\ \A p \in Paths \cap names(m) :
                   pathInScope(p) /\ signed(p) => Told(inspectManifest(m, known).found, p)
<1>1. CASE content[m].head # "text"
  BY <1>1, FindsTells DEF inspectManifest
<1>2. CASE content[m].head = "text"
  <2> DEFINE checks == inspectGeneralContent(content[m])
                       \cup report("compromised-version", content[m].declares /\ known)
                       \cup report("suspicious-install-script", analyzeScript(content[m]))
             F == {<<"missing-script-target", t>> : t \in unhooked(m)}
             absent == [Nothing EXCEPT !.found = F]
             O == namedBy(m) \cup {finds(m, checks), absent}
  <2>1. inspectManifest(m, known) = together(O)
    BY <1>2 DEF inspectManifest
  <2>2. signed(m) => "payload-signature" \in checks
    BY SignatureLemma DEF signed
  <2> HIDE DEF F, checks
  <2>3. absent = outcome(F, {})
    BY DEF Nothing, outcome
  <2>4. Tells(absent) /\ Tells(finds(m, checks))
    BY <2>3, UnmarkedTells, FindsTells DEF outcome
  <2>5. \A t \in hooked(m) : checkScriptTarget(t) \in namedBy(m)
    BY DEF namedBy
  <2>6. deep => \A t \in declared(m, hooked(m)) : inspectDependencyTarget(t) \in namedBy(m)
    BY DEF namedBy
  <2>7. \A o \in namedBy(m) : Tells(o)
    <3> SUFFICES ASSUME NEW o \in namedBy(m)
                 PROVE  Tells(o)
      OBVIOUS
    <3>1. (\E t : o = checkScriptTarget(t)) \/ (\E t : o = inspectDependencyTarget(t))
      BY DEF namedBy
    <3> QED
      BY <3>1, ScriptTargetTells, DependencyTargetTells
  <2>8. \A o \in O : Tells(o)
    BY <2>4, <2>7
  <2>9. Tells(together(O))
    BY <2>8, TogetherTells
  <2>10. signed(m) => Told(together(O).found, m)
    <3>1. PICK G : finds(m, checks) = outcome(G, {}) /\ \A k \in checks : <<k, m>> \in G
      BY FindsShape
    <3>2. signed(m) => Told(finds(m, checks).found, m)
      BY <2>2, <3>1 DEF outcome, Told, criticals
    <3>3. finds(m, checks) \in O
      OBVIOUS
    <3> HIDE DEF O
    <3> QED
      BY <3>2, <3>3, TogetherTold
  <2>11. ASSUME NEW p \in Paths \cap names(m), pathInScope(p), signed(p)
         PROVE  Told(together(O).found, p)
    <3>1. content[p].there \in {"file", "unreadable"}
      BY <2>11 DEF signed, stays
    <3>2. CASE p \in Hooks[m]
      <4>1. p \in hooked(m)
        BY <2>11, <3>1, <3>2 DEF hooked
      <4>2. checkScriptTarget(p) \in O
        BY <2>5, <4>1
      <4>3. Told(checkScriptTarget(p).found, p)
        BY <2>11, ScriptTargetTells
      <4> HIDE DEF O
      <4> QED
        BY <4>2, <4>3, TogetherTold
    <3>3. CASE p \notin Hooks[m]
      <4>1. deep /\ p \in declared(m, hooked(m))
        BY <2>11, <3>1, <3>3 DEF names, declared, hooked
      <4>2. inspectDependencyTarget(p) \in O
        BY <2>6, <4>1
      <4>3. Told(inspectDependencyTarget(p).found, p)
        BY <2>11, DependencyTargetTells
      <4> HIDE DEF O
      <4> QED
        BY <4>2, <4>3, TogetherTold
    <3> QED
      BY <3>2, <3>3
  <2> HIDE DEF O
  <2> QED
    BY <1>2, <2>1, <2>9, <2>10, <2>11
<1> QED
  BY <1>1, <1>2

LEMMA PackageManifestTells ==
  ASSUME WorldInv, NEW m \in Paths, NEW known, NEW optional
  PROVE  /\ Tells(checkPackageManifest(m, known, optional))
         /\ m \in packageChecked \cup checkPackageManifest(m, known, optional).packaged
<1>1. CASE m \in packageChecked
  BY <1>1, NothingTells DEF checkPackageManifest
<1>2. CASE m \notin packageChecked
  <2> DEFINE checks == {}
             how == "manifest"
             read == processFile(how, m, checks, optional)
             O == {read} \cup IF readable(m) THEN {inspectManifest(m, known)} ELSE {}
             all == together(O)
  <2>1. checkPackageManifest(m, known, optional) = [all EXCEPT !.packaged = {m}]
    BY <1>2 DEF checkPackageManifest
  <2>2. Tells(read)
    BY ReadTells
  <2>3. stays(m) /\ ~readable(m) => Told(read.found, m)
    <3> SUFFICES ASSUME stays(m), ~readable(m)
                 PROVE  Told(read.found, m)
      OBVIOUS
    <3>1. read = finds(m, {"scan-incomplete"})
      BY DEF processFile, stays
    <3>2. PICK F : /\ finds(m, {"scan-incomplete"}) = outcome(F, {})
                   /\ \A k \in {"scan-incomplete"} : <<k, m>> \in F
      BY FindsShape
    <3> HIDE DEF read
    <3> QED
      BY <3>1, <3>2 DEF Told, gap, outcome
  <2> HIDE DEF checks, how, read
  <2>4. \A o \in O : Tells(o)
    BY <2>2, ManifestTells
  <2>5. Tells(all)
    <3> HIDE DEF O
    <3> QED
      BY <2>4, TogetherTells
  <2>6. signed(m) => Told(all.found, m)
    <3> SUFFICES ASSUME signed(m)
                 PROVE  Told(all.found, m)
      OBVIOUS
    <3>1. content[m].head = "text" /\ stays(m)
      BY SignatureLemma DEF signed
    <3>2. PICK o \in O : Told(o.found, m)
      BY <2>3, <3>1, ManifestTells
    <3> HIDE DEF O
    <3> QED
      BY <3>2, TogetherTold
  <2>7. parsed(m) => \A p \in Paths \cap names(m) : pathInScope(p) /\ signed(p) => Told(all.found, p)
    <3> SUFFICES ASSUME parsed(m), NEW p \in Paths \cap names(m), pathInScope(p), signed(p)
                 PROVE  Told(all.found, p)
      OBVIOUS
    <3>1. content[m].head = "text" /\ inspectManifest(m, known) \in O
      BY DEF parsed
    <3>2. Told(inspectManifest(m, known).found, p)
      BY <3>1, ManifestTells
    <3> HIDE DEF O
    <3> QED
      BY <3>1, <3>2, TogetherTold
  <2>8. PICK f, r, q, s, k : all = [found |-> f, read |-> r, persisted |-> q, scripted |-> s,
                                    packaged |-> k]
    BY DEF together
  <2> HIDE DEF O, all
  <2> DEFINE o == [found |-> f, read |-> r, persisted |-> q, scripted |-> s, packaged |-> {m}]
  <2>9. [all EXCEPT !.packaged = {m}] = o
    BY <2>8
  <2>10. SignaturesTold(o)
    BY <2>5, <2>6, <2>8 DEF Tells, SignaturesTold
  <2>11. PersistedTold(o) /\ ScriptedTold(o)
    BY <2>5, <2>8 DEF Tells, PersistedTold, ScriptedTold
  <2>12. NamedTold(o)
    BY <2>7, <2>8 DEF NamedTold
  <2> QED
    BY <2>1, <2>9, <2>10, <2>11, <2>12 DEF Tells
<1> QED
  BY <1>1, <1>2

LEMMA EntrypointsTell ==
  ASSUME WorldInv, NEW m
  PROVE  Tells(inspectPythonEntrypoints(m))
<1> DEFINE checks == {}
           optional == TRUE
           marked == {}
           read == processFile("points", m, checks, optional)
           D == declared(m, marked)
           O == {read} \cup {inspectDependencyTarget(t) : t \in IF readable(m) THEN D ELSE {}}
<1>1. inspectPythonEntrypoints(m) = together(O)
  BY DEF inspectPythonEntrypoints
<1> HIDE DEF checks, optional, marked
<1>2. Tells(read)
  BY ReadTells
<1>3. \A t \in D : Tells(inspectDependencyTarget(t))
  BY DependencyTargetTells
<1> HIDE DEF read, D
<1>4. \A o \in O : Tells(o)
  BY <1>2, <1>3
<1> HIDE DEF O
<1> QED
  BY <1>1, <1>4, TogetherTells

\* What the walk selects and nothing has read before is a source to it.
AsSource(p, reads) ==
  /\ p \notin fixed
  /\ Kind[p] \cap {"startup", "toolchain", "manifest", "gitignore", "entrypoint"} = {}
  /\ \A how \in reads : <<how, p>> \notin inspected

\* The check of a file that the walk came to finds what it is to find.
LEMMA SourceFileTells ==
  ASSUME WorldInv, EarnedInv, NEW p \in Paths
  PROVE  /\ Tells(checkSourceFile(p))
         /\ signed(p) => Told(checkSourceFile(p).found, p)
         /\ stays(p) /\ AsSource(p, {"script"}) /\ content[p].published
            /\ ~validAsset(Ext[p], content[p]) => Told(checkSourceFile(p).found, p)
         /\ stays(p) /\ AsSource(p, {"script", "dependency"}) /\ Ext[p] = "font"
            /\ content[p].head = "text" => Told(checkSourceFile(p).found, p)
         /\ is("manifest", p) /\ ~is("startup", p) /\ ~is("toolchain", p) =>
              p \in packageChecked \cup checkSourceFile(p).packaged
<1> DEFINE o == checkSourceFile(p)
           own == {"startup", "toolchain", "manifest", "gitignore", "entrypoint"}
<1>1. /\ is("startup", p) => Kind[p] \cap Watched # {} /\ Kind[p] \cap own # {}
      /\ is("toolchain", p) => Kind[p] \cap Watched # {} /\ Kind[p] \cap own # {}
      /\ is("entrypoint", p) => Kind[p] \cap Watched # {} /\ Kind[p] \cap own # {}
      /\ is("manifest", p) => Kind[p] \cap own # {}
      /\ is("gitignore", p) => Kind[p] \cap own # {}
  BY DEF is, Watched
<1>2. ASSUME Tells(o), p \in persistenceChecked \/ p \in scriptChecked \/ p \in packageChecked
                       \/ p \in o.persisted \cup o.scripted \cup o.packaged
      PROVE  signed(p) => Told(o.found, p)
  <2>1. signed(p) => reported(p) \/ Told(o.found, p)
    BY <1>2 DEF Tells, SignaturesTold, EarnedInv
  <2> QED
    BY <2>1 DEF Told
<1>3. CASE is("startup", p)
  <2> DEFINE optional == FALSE
  <2>1. o = checkStartupFile(p, optional)
    BY <1>3 DEF checkSourceFile
  <2> HIDE DEF o, optional
  <2>2. Tells(o) /\ (stays(p) => p \in persistenceChecked \cup o.persisted)
    BY <1>1, <1>3, <2>1, StartupFileTells
  <2>3. signed(p) => Told(o.found, p)
    BY <1>2, <2>2 DEF signed
  <2> QED
    BY <1>1, <1>3, <2>2, <2>3 DEF AsSource, o
<1>4. CASE ~is("startup", p) /\ is("toolchain", p)
  <2>1. o = checkApplicationFile(p)
    BY <1>4 DEF checkSourceFile
  <2> HIDE DEF o
  <2>2. Tells(o) /\ p \in persistenceChecked \cup o.persisted
    BY <1>1, <1>4, <2>1, ApplicationFileTells
  <2>3. signed(p) => Told(o.found, p)
    BY <1>2, <2>2
  <2> QED
    BY <1>1, <1>4, <2>2, <2>3 DEF AsSource, o
<1>5. CASE ~is("startup", p) /\ ~is("toolchain", p) /\ is("manifest", p)
  <2> DEFINE known == ~is("scoped", p)
             optional == FALSE
  <2>1. o = checkPackageManifest(p, known, optional)
    BY <1>5 DEF checkSourceFile
  <2> HIDE DEF o, known, optional
  <2>2. Tells(o) /\ p \in packageChecked \cup o.packaged
    BY <2>1, PackageManifestTells
  <2>3. signed(p) => Told(o.found, p)
    BY <1>2, <2>2
  <2> QED
    BY <1>1, <1>5, <2>2, <2>3 DEF AsSource, o
<1> DEFINE rest == ~is("startup", p) /\ ~is("toolchain", p) /\ ~is("manifest", p)
<1>6. CASE rest /\ p \in persistenceChecked \cup scriptChecked
  <2>1. o = Nothing
    BY <1>6 DEF checkSourceFile
  <2>2. Tells(o)
    BY <2>1, NothingTells
  <2>3. \A x : reported(x) => Told(o.found, x)
    BY DEF Told
  <2> HIDE DEF o
  <2>4. signed(p) => Told(o.found, p)
    BY <1>2, <1>6, <2>2
  <2>5. stays(p) /\ AsSource(p, {"script"}) /\ content[p].published
        /\ ~validAsset(Ext[p], content[p]) => reported(p)
    <3>1. AsSource(p, {"script"}) => p \notin fixed /\ Kind[p] \cap Watched = {}
                                     /\ <<"script", p>> \notin inspected
      BY DEF AsSource, Watched
    <3> QED
      BY <1>6, <3>1 DEF EarnedInv
  <2>6. stays(p) /\ AsSource(p, {"script", "dependency"}) => reported(p)
    <3>1. AsSource(p, {"script", "dependency"}) =>
            /\ p \notin fixed /\ Kind[p] \cap Watched = {}
            /\ <<"script", p>> \notin inspected /\ <<"dependency", p>> \notin inspected
      BY DEF AsSource, Watched
    <3> QED
      BY <1>6, <3>1 DEF EarnedInv
  <2> QED
    BY <1>6, <2>2, <2>3, <2>4, <2>5, <2>6 DEF o
<1>7. CASE rest /\ p \notin persistenceChecked \cup scriptChecked /\ is("entrypoint", p)
  <2>1. o = checkApplicationFile(p)
    BY <1>7 DEF checkSourceFile
  <2> HIDE DEF o
  <2>2. Tells(o) /\ p \in persistenceChecked \cup o.persisted
    BY <1>1, <1>7, <2>1, ApplicationFileTells
  <2>3. signed(p) => Told(o.found, p)
    BY <1>2, <2>2
  <2> QED
    BY <1>1, <1>7, <2>2, <2>3 DEF AsSource, o
<1>8. CASE /\ rest /\ p \notin persistenceChecked \cup scriptChecked /\ ~is("entrypoint", p)
           /\ is("sidecar", p) \/ is("artifact", p)
  <2>1. o = checkRepoArtifactName(p)
    BY <1>8 DEF checkSourceFile
  <2>2. Told(o.found, p)
    BY <1>8, <2>1, NameTold
  <2>3. Tells(o)
    BY <2>1, FindsTells DEF checkRepoArtifactName
  <2> HIDE DEF o
  <2> QED
    BY <1>8, <2>2, <2>3 DEF o
<1>9. CASE /\ rest /\ p \notin persistenceChecked \cup scriptChecked /\ ~is("entrypoint", p)
           /\ ~is("sidecar", p) /\ ~is("artifact", p) /\ is("gitignore", p)
  <2> DEFINE checks == inspectGitignore(fileBytes(p))
             optional == FALSE
             how == "gitignore"
  <2>1. o = processFile(how, p, checks, optional)
    BY <1>9 DEF checkSourceFile
  <2> HIDE DEF o, checks, optional
  <2>2. Tells(o)
    BY <2>1, ReadTells
  <2>3. ~signed(p)
    BY <1>9, SignatureLemma DEF signed
  <2> QED
    BY <1>1, <1>9, <2>2, <2>3 DEF AsSource, o
<1>10. CASE /\ rest /\ p \notin persistenceChecked \cup scriptChecked /\ ~is("entrypoint", p)
            /\ ~is("sidecar", p) /\ ~is("artifact", p) /\ ~is("gitignore", p)
  <2> DEFINE sources == inspectSourceContent(Ext[p], sourceBytes(p))
             checks == sources \cup report("scan-limited", binarySource(p))
             optional == FALSE
             how == "source"
  <2>1. o = processFile(how, p, checks, optional)
    BY <1>10 DEF checkSourceFile, processSourceFile
  <2>2. /\ signed(p) => \E k \in criticals : k \in checks
        /\ content[p].published /\ ~validAsset(Ext[p], content[p]) =>
             \E k \in criticals : k \in checks
        /\ Ext[p] = "font" /\ content[p].head = "text" => \E k \in criticals : k \in checks
    BY SignatureLemma, PayloadLemma DEF signed
  <2> HIDE DEF o, checks, optional, how
  <2>3. Tells(o)
    BY <2>1, ReadTells
  <2>4. stays(p) /\ (\E k \in criticals : k \in checks) => Told(o.found, p)
    BY <2>1, ReadTold
  <2>5. signed(p) => stays(p)
    BY DEF signed
  <2> QED
    BY <1>10, <2>2, <2>3, <2>4, <2>5 DEF o
<1> HIDE DEF o
<1> QED
  BY <1>3, <1>4, <1>5, <1>6, <1>7, <1>8, <1>9, <1>10 DEF o

-----------------------------------------------------------------------------
(* The promises.  An outcome Keeps the promise of the task it comes of.     *)

Attends(o, p) ==
  pathInScope(DirOf[p]) /\ stays(p) => Told(o.found, p) \/ p \in persistenceChecked \cup o.persisted

Persists(o, p) ==
  pathInScope(DirOf[p]) /\ stays(p) /\ content[p].sidecar /\ ~headOnly(p) => Told(o.found, p)

Visits(o, p) ==
  stays(p) =>
    /\ selected(p) /\ carriesSignature(p, content[p]) => Told(o.found, p)
    /\ asSource(p, {"script"}) /\ content[p].published
       /\ ~validAsset(Ext[p], content[p]) => Told(o.found, p)
    /\ asSource(p, {"script", "dependency"}) /\ Ext[p] = "font" /\ content[p].head = "text"
       => Told(o.found, p)

Keeps(t, o) ==
  /\ t[1] \in {"npm", "application", "toolchain"} => Attends(o, t[2]) /\ Persists(o, t[2])
  /\ t[1] \in {"login", "service"} => Attends(o, t[2])
  /\ t[1] = "file" => /\ Visits(o, t[2])
                      /\ metInWalk(t[2]) /\ parsed(t[2]) => t[2] \in packageChecked \cup o.packaged
  /\ t[1] = "package" /\ parsed(t[2]) /\ ~scopeFails(t[2]) =>
       t[2] \in packageChecked \cup o.packaged
  /\ t[1] \in Early => \A r \in o.read : r[1] # "startup"

\* What was told is reported once the outcome is taken over, and what was
\* reported stays so.
LEMMA ReportsGrow ==
  ASSUME NEW o, Conclude(o)
  PROVE  /\ \A p : Told(o.found, p) => reported(p)'
         /\ \A p : reported(p) => reported(p)'
         /\ \A d : excused(d) => excused(d)'
<1>1. findings' = findings \cup o.found /\ unlisted' = unlisted
  BY DEF Conclude, world
<1>2. \A d : hasGap(d) => hasGap(d)'
  BY <1>1 DEF hasGap
<1>3. \A p : reported(p) => reported(p)'
  BY <1>1, <1>2 DEF reported
<1>4. \A p : Told(o.found, p) => reported(p)'
  <2> SUFFICES ASSUME NEW p, Told(o.found, p)
               PROVE  reported(p)'
    OBVIOUS
  <2>1. CASE reported(p)
    BY <1>3, <2>1
  <2>2. CASE gap(p) \in o.found
    BY <1>1, <2>2 DEF reported, hasGap
  <2>3. CASE \E k \in criticals : <<k, p>> \in o.found
    BY <1>1, <2>3 DEF reported
  <2>4. CASE \E k \in DOMAIN Up[DirOf[p]] : gap(Up[DirOf[p]][k]) \in o.found
    BY <1>1, <2>4 DEF reported, hasGap
  <2> QED
    BY <2>1, <2>2, <2>3, <2>4 DEF Told
<1>5. \A d : excused(d) => excused(d)'
  BY <1>1, <1>2 DEF excused
<1> QED
  BY <1>3, <1>4, <1>5

\* No check changes a file, or what is asked of one.
LEMMA FilesKeep ==
  ASSUME NEW o, Conclude(o)
  PROVE  /\ \A p : (stays(p) <=> stays(p)') /\ (signed(p) <=> signed(p)')
                   /\ (parsed(p) <=> parsed(p)') /\ names(p)' = names(p)
                   /\ (selected(p) <=> selected(p)') /\ (metInWalk(p) <=> metInWalk(p)')
                   /\ (headOnly(p) <=> headOnly(p)') /\ (scopeFails(p) <=> scopeFails(p)')
                   /\ (asSource(p, {"script"})' => asSource(p, {"script"}))
                   /\ (asSource(p, {"script", "dependency"})' => asSource(p, {"script", "dependency"}))
         /\ \A d : (pathInScope(d) <=> pathInScope(d)')
                   /\ (entered(d) <=> entered(d)') /\ (inProject(d) <=> inProject(d)')
                   /\ (pruned(d) <=> pruned(d)')
<1>1. /\ only' = only /\ deep' = deep /\ content' = content /\ unlisted' = unlisted
      /\ changed' = changed /\ inspected \subseteq inspected'
  BY DEF Conclude, world
<1>2. \A p : (stays(p) <=> stays(p)') /\ (signed(p) <=> signed(p)')
             /\ (parsed(p) <=> parsed(p)') /\ names(p)' = names(p)
             /\ (headOnly(p) <=> headOnly(p)') /\ (scopeFails(p) <=> scopeFails(p)')
  BY <1>1 DEF stays, signed, parsed, names, steady, readable, headOnly, nativeExecutable,
     payloadCandidate, carriesSignature, scopeFails
<1>3. \A d : (pathInScope(d) <=> pathInScope(d)') /\ (pruned(d) <=> pruned(d)')
             /\ (open(d) <=> open(d)')
  BY <1>1 DEF pathInScope, pruned, open
<1>4. \A d : inProject(d) <=> inProject(d)'
  BY <1>1 DEF inProject, steady
<1>5. \A p : (selected(p) <=> selected(p)') /\ (metInWalk(p) <=> metInWalk(p)')
  BY <1>1, <1>3, <1>4 DEF selected, metInWalk, hashSizeCandidate
<1>6. \A d : entered(d) <=> entered(d)'
  BY <1>3 DEF entered
<1>7. \A p : /\ asSource(p, {"script"})' => asSource(p, {"script"})
             /\ asSource(p, {"script", "dependency"})' => asSource(p, {"script", "dependency"})
  BY <1>1, <1>5 DEF asSource
<1> QED
  BY <1>2, <1>3, <1>4, <1>5, <1>6, <1>7

\* Marks that come with the evidence stay earned.
LEMMA EarnedStays ==
  ASSUME EarnedInv, NamedInv, NEW o, Conclude(o), Tells(o)
  PROVE  (EarnedInv /\ NamedInv)'
<1>1. /\ persistenceChecked' = persistenceChecked \cup o.persisted
      /\ scriptChecked' = scriptChecked \cup o.scripted
      /\ packageChecked' = packageChecked \cup o.packaged
      /\ inspected' = inspected \cup o.read /\ content' = content
  BY DEF Conclude, world
<1>2. /\ \A p : Told(o.found, p) => reported(p)'
      /\ \A p : reported(p) => reported(p)'
  BY ReportsGrow
<1>3. /\ \A p : (stays(p) <=> stays(p)') /\ (signed(p) <=> signed(p)')
                /\ (parsed(p) <=> parsed(p)') /\ names(p)' = names(p)
                /\ (headOnly(p) <=> headOnly(p)')
      /\ \A d : pathInScope(d) <=> pathInScope(d)'
  BY FilesKeep
<1>4. ASSUME NEW p \in Paths \cap (persistenceChecked \cup scriptChecked \cup packageChecked)', signed(p)'
      PROVE  reported(p)'
  BY <1>1, <1>2, <1>3, <1>4 DEF EarnedInv, Tells, SignaturesTold
<1>5. ASSUME NEW p \in Paths \cap persistenceChecked'
      PROVE  /\ stays(p)' /\ content'[p].sidecar /\ ~(headOnly(p)') => reported(p)' \/ <<"startup", p>> \in inspected'
             /\ stays(p)' /\ p \notin fixed /\ Kind[p] \cap Watched = {} => reported(p)'
  <2>1. CASE p \in persistenceChecked
    BY <1>1, <1>2, <1>3, <2>1 DEF EarnedInv
  <2>2. CASE p \in o.persisted
    BY <1>1, <1>2, <1>3, <2>2 DEF Tells, PersistedTold
  <2> QED
    BY <1>1, <1>5, <2>1, <2>2
<1>6. ASSUME NEW p \in Paths \cap scriptChecked', stays(p)'
      PROVE  \/ reported(p)' \/ <<"script", p>> \in inspected'
             \/ <<"dependency", p>> \in inspected'
                /\ (content'[p].published => validAsset(Ext[p], content'[p]))
  <2>1. CASE p \in scriptChecked
    BY <1>1, <1>2, <1>3, <1>6, <2>1 DEF EarnedInv
  <2>2. CASE p \in o.scripted
    BY <1>1, <1>2, <1>3, <1>6, <2>2 DEF Tells, ScriptedTold
  <2> QED
    BY <1>1, <1>6, <2>1, <2>2
<1>7. EarnedInv'
  BY <1>4, <1>5, <1>6 DEF EarnedInv
<1>8. NamedInv'
  <2> SUFFICES ASSUME NEW m \in Paths \cap packageChecked', parsed(m)',
                      NEW p \in Paths \cap names(m)', pathInScope(p)', signed(p)'
               PROVE  reported(p)'
    BY DEF NamedInv
  <2>1. parsed(m) /\ p \in names(m) /\ pathInScope(p) /\ signed(p)
    BY <1>3
  <2>2. CASE m \in packageChecked
    BY <1>2, <2>1, <2>2 DEF NamedInv
  <2>3. CASE m \in o.packaged
    BY <1>2, <2>1, <2>3 DEF Tells, NamedTold
  <2> QED
    BY <1>1, <2>2, <2>3
<1> QED
  BY <1>7, <1>8

\* A promise that was kept stays so, and one that an outcome keeps is.
LEMMA PromisesStay ==
  ASSUME NEW o, Conclude(o)
  PROVE  /\ \A p : attended(p) \/ Attends(o, p) => attended(p)'
         /\ \A p : persisted(p) \/ Persists(o, p) => persisted(p)'
         /\ \A p : visitedWell(p) \/ Visits(o, p) => visitedWell(p)'
<1>1. persistenceChecked' = persistenceChecked \cup o.persisted /\ content' = content
  BY DEF Conclude, world
<1>2. /\ \A p : Told(o.found, p) => reported(p)'
      /\ \A p : reported(p) => reported(p)'
  BY ReportsGrow
<1>3. /\ \A p : (stays(p) <=> stays(p)')
                /\ (selected(p) <=> selected(p)') /\ (headOnly(p) <=> headOnly(p)')
                /\ (asSource(p, {"script"})' => asSource(p, {"script"}))
                /\ (asSource(p, {"script", "dependency"})' => asSource(p, {"script", "dependency"}))
      /\ \A d : pathInScope(d) <=> pathInScope(d)'
  BY FilesKeep
<1>4. \A p : attended(p) \/ Attends(o, p) => attended(p)'
  BY <1>1, <1>2, <1>3 DEF attended, Attends
<1>5. \A p : persisted(p) \/ Persists(o, p) => persisted(p)'
  BY <1>1, <1>2, <1>3 DEF persisted, Persists
<1>6. \A p : carriesSignature(p, content[p]) <=> carriesSignature(p, content[p])'
  BY <1>1 DEF carriesSignature
<1>7. ASSUME NEW p, visitedWell(p) \/ Visits(o, p), stays(p)'
      PROVE  /\ selected(p)' /\ carriesSignature(p, content[p])' => reported(p)'
             /\ asSource(p, {"script"})' /\ content'[p].published
                /\ ~validAsset(Ext[p], content'[p]) => reported(p)'
             /\ asSource(p, {"script", "dependency"})' /\ Ext[p] = "font" /\ content'[p].head = "text"
                => reported(p)'
  <2>1. stays(p) /\ content'[p] = content[p]
    BY <1>1, <1>3, <1>7
  <2>2. CASE visitedWell(p)
    BY <1>1, <1>2, <1>3, <1>6, <2>1, <2>2 DEF visitedWell
  <2>3. CASE Visits(o, p)
    BY <1>1, <1>2, <1>3, <1>6, <2>1, <2>3 DEF Visits
  <2> QED
    BY <1>7, <2>2, <2>3
<1>8. \A p : visitedWell(p) \/ Visits(o, p) => visitedWell(p)'
  BY <1>7 DEF visitedWell
<1> QED
  BY <1>4, <1>5, <1>8

\* The rest of an agenda, after what a directory put before it.
LEMMA RestLemma ==
  ASSUME AgendaInv, agenda # <<>>, NEW s \in Seq(Tasks), agenda' = s \o Tail(agenda)
  PROVE  /\ \A k \in DOMAIN agenda' :
              \/ k \in 1..Len(s) /\ agenda'[k] = s[k]
              \/ \E i \in 2..Len(agenda) : /\ k = Len(s) + i - 1 /\ agenda'[k] = agenda[i]
                                           /\ i \in DOMAIN agenda
         /\ \A i \in 2..Len(agenda) : /\ Len(s) + i - 1 \in DOMAIN agenda'
                                      /\ agenda'[Len(s) + i - 1] = agenda[i]
         /\ \A k \in 1..Len(s) : k \in DOMAIN agenda' /\ agenda'[k] = s[k]
         /\ Len(s) \in Nat /\ Len(agenda) \in Nat \ {0} /\ DOMAIN agenda = 1..Len(agenda)
         /\ DOMAIN agenda' = 1..Len(agenda') /\ agenda' \in Seq(Tasks)
         /\ Head(agenda) = agenda[1] /\ 1 \in DOMAIN agenda
<1> DEFINE t == Tail(agenda)
<1>1. /\ agenda \in Seq(Tasks) /\ Len(agenda) \in Nat \ {0} /\ DOMAIN agenda = 1..Len(agenda)
      /\ Head(agenda) = agenda[1] /\ 1 \in DOMAIN agenda
      /\ t \in Seq(Tasks) /\ Len(t) = Len(agenda) - 1
      /\ \A i \in 1..Len(t) : i + 1 \in 2..Len(agenda) /\ t[i] = agenda[i + 1]
      /\ \A i \in 2..Len(agenda) : i - 1 \in 1..Len(t) /\ t[i - 1] = agenda[i]
  BY DEF AgendaInv, Orderly
<1>2. agenda' = s \o t
  OBVIOUS
<1> HIDE DEF t
<1>3. /\ s \o t \in Seq(Tasks) /\ Len(s) \in Nat /\ Len(t) \in Nat /\ Len(s \o t) = Len(s) + Len(t)
      /\ \A k \in 1..Len(s \o t) :
           \/ k \in 1..Len(s) /\ (s \o t)[k] = s[k]
           \/ \E i \in 1..Len(t) : k = Len(s) + i /\ (s \o t)[k] = t[i]
  <2>1. t \in Seq(Tasks)
    BY <1>1
  <2> QED
    BY <2>1, ConcatLemma
<1>4. \A k \in 1..Len(s) : (s \o t)[k] = s[k]
  BY <1>1, <1>3
<1>5. \A i \in 1..Len(t) : (s \o t)[Len(s) + i] = t[i]
  BY <1>1, <1>3
<1> DEFINE u == s \o t
<1>6. /\ u \in Seq(Tasks) /\ Len(u) = Len(s) + Len(t) /\ DOMAIN u = 1..Len(u)
      /\ \A k \in 1..Len(u) : \/ k \in 1..Len(s) /\ u[k] = s[k]
                              \/ \E i \in 1..Len(t) : k = Len(s) + i /\ u[k] = t[i]
      /\ \A k \in 1..Len(s) : u[k] = s[k]
      /\ \A i \in 1..Len(t) : u[Len(s) + i] = t[i]
  BY <1>3, <1>4, <1>5
<1>7. agenda' = u
  BY <1>2
<1> HIDE DEF u
<1>8. \A k \in DOMAIN u : \/ k \in 1..Len(s) /\ u[k] = s[k]
                          \/ \E i \in 2..Len(agenda) : /\ k = Len(s) + i - 1 /\ u[k] = agenda[i]
                                                       /\ i \in DOMAIN agenda
  <2> SUFFICES ASSUME NEW k \in DOMAIN u, ~(k \in 1..Len(s) /\ u[k] = s[k])
               PROVE  \E i \in 2..Len(agenda) : /\ k = Len(s) + i - 1 /\ u[k] = agenda[i]
                                                /\ i \in DOMAIN agenda
    OBVIOUS
  <2>1. PICK i \in 1..Len(t) : k = Len(s) + i /\ u[k] = t[i]
    BY <1>6
  <2> DEFINE n == i + 1
  <2>2. n \in 2..Len(agenda) /\ k = Len(s) + n - 1 /\ u[k] = agenda[n] /\ n \in DOMAIN agenda
    BY <1>1, <1>3, <2>1
  <2> QED
    BY <2>2
<1>9. \A i \in 2..Len(agenda) : Len(s) + i - 1 \in DOMAIN u /\ u[Len(s) + i - 1] = agenda[i]
  <2> SUFFICES ASSUME NEW i \in 2..Len(agenda)
               PROVE  Len(s) + i - 1 \in DOMAIN u /\ u[Len(s) + i - 1] = agenda[i]
    OBVIOUS
  <2> DEFINE j == i - 1
  <2>1. j \in 1..Len(t) /\ t[j] = agenda[i] /\ Len(s) + i - 1 = Len(s) + j
    BY <1>1, <1>3
  <2> QED
    BY <1>3, <1>6, <2>1
<1>10. \A k \in 1..Len(s) : k \in DOMAIN u /\ u[k] = s[k]
  BY <1>3, <1>6
<1> QED
  BY <1>1, <1>3, <1>6, <1>7, <1>8, <1>9, <1>10, ZenonT(60)

\* What is due and is not the task at hand is still due, and so is what a
\* directory put on the agenda.
LEMMA DueLemma ==
  ASSUME AgendaInv, agenda # <<>>, NEW s \in Seq(Tasks), agenda' = s \o Tail(agenda)
  PROVE  /\ \A t : due(t) => t = Head(agenda) \/ due(t)'
         /\ \A t \in ToSet(s) : due(t)'
<1>1. /\ \A i \in 2..Len(agenda) : /\ Len(s) + i - 1 \in DOMAIN agenda'
                                   /\ agenda'[Len(s) + i - 1] = agenda[i]
      /\ \A k \in 1..Len(s) : k \in DOMAIN agenda' /\ agenda'[k] = s[k]
      /\ DOMAIN agenda = 1..Len(agenda) /\ Len(agenda) \in Nat /\ Head(agenda) = agenda[1]
  BY RestLemma
<1>2. DOMAIN s = 1..Len(s)
  OBVIOUS
<1>3. ASSUME NEW t, due(t), t # Head(agenda)
      PROVE  due(t)'
  <2>1. PICK i \in DOMAIN agenda : agenda[i] = t
    BY <1>3 DEF due, ToSet
  <2>2. i \in 2..Len(agenda)
    BY <1>1, <1>3, <2>1
  <2> QED
    BY <1>1, <2>1, <2>2 DEF due, ToSet
<1>4. \A t \in ToSet(s) : due(t)'
  BY <1>1, <1>2 DEF due, ToSet
<1> QED
  BY <1>3, <1>4

\* One task, its outcome, and what it puts on the agenda.
LEMMA StepLemma ==
  ASSUME AgendaInv, EvidenceInv, agenda # <<>>, NEW t, Head(agenda) = t,
         NEW s \in Seq({"package", "dist", "pth"} \X Paths), agenda' = s \o Tail(agenda),
         NEW o, Conclude(o), Tells(o), Keeps(t, o),
         s # <<>> => t[1] \notin Early,
         t[1] = "modules" /\ entered(t[2]) => s = Packages[t[2]],
         t[1] = "list" => sorted(t[2])',
         \A d : sorted(d) => sorted(d)', DependencyInv'
  PROVE  EvidenceInv'
<1>0. /\ EarnedInv /\ NamedInv /\ DependencyInv /\ OrderInv /\ EarlyInv
      /\ FixedInv /\ VisitInv /\ ManifestInv
  BY DEF EvidenceInv
<1>1. s \in Seq(Tasks)
  <2>1. {"package", "dist", "pth"} \X Paths \subseteq Tasks
    BY DEF Tasks, Met
  <2> QED
    BY <2>1
<1>2. /\ \A k \in DOMAIN agenda' :
           \/ k \in 1..Len(s) /\ agenda'[k] = s[k]
           \/ \E i \in 2..Len(agenda) : /\ k = Len(s) + i - 1 /\ agenda'[k] = agenda[i]
                                        /\ i \in DOMAIN agenda
      /\ \A i \in 2..Len(agenda) : /\ Len(s) + i - 1 \in DOMAIN agenda'
                                   /\ agenda'[Len(s) + i - 1] = agenda[i]
      /\ Len(s) \in Nat /\ Len(agenda) \in Nat \ {0} /\ DOMAIN agenda = 1..Len(agenda)
      /\ agenda[1] = t /\ 1 \in DOMAIN agenda
  BY <1>1, RestLemma
<1>3. \A k \in 1..Len(s) : s[k][1] \in {"package", "dist", "pth"}
  OBVIOUS
<1>4. /\ \A x : due(x) => x = t \/ due(x)'
      /\ \A x \in ToSet(s) : due(x)'
  BY <1>1, DueLemma
<1>5. (EarnedInv /\ NamedInv)'
  BY <1>0, EarnedStays
<1>6. OrderInv'
  <2> DEFINE Before(k, d) == sorted(d)' \/ \E j \in 1..(k - 1) : agenda'[j] = <<"list", d>>
  <2> SUFFICES ASSUME NEW k \in DOMAIN agenda', NEW x \in {agenda'[k]}
               PROVE  /\ x[1] = "file" => x[2] \in Paths /\ Before(k, DirOf[x[2]])
                      /\ x[1] \in {"list", "modules"} =>
                           x[2] \in Dirs /\ (top(x[2]) \/ Before(k, parent(x[2])))
    BY DEF OrderInv
  <2>1. CASE k \in 1..Len(s) /\ agenda'[k] = s[k]
    BY <1>3, <2>1
  <2>2. CASE \E i \in 2..Len(agenda) : /\ k = Len(s) + i - 1 /\ agenda'[k] = agenda[i]
                                       /\ i \in DOMAIN agenda
    <3>1. PICK i \in 2..Len(agenda) : /\ k = Len(s) + i - 1 /\ agenda'[k] = agenda[i]
                                      /\ i \in DOMAIN agenda
      BY <2>2
    <3>2. ASSUME NEW d, sorted(d) \/ \E j \in 1..(i - 1) : agenda[j] = <<"list", d>>
          PROVE  Before(k, d)
      <4>1. CASE sorted(d)
        BY <4>1
      <4>2. CASE \E j \in 1..(i - 1) : agenda[j] = <<"list", d>>
        <5>1. PICK j \in 1..(i - 1) : agenda[j] = <<"list", d>>
          BY <4>2
        <5>2. CASE j = 1
          <6>1. t = <<"list", d>>
            BY <1>2, <5>1, <5>2
          <6>2. t[1] = "list" /\ t[2] = d
            BY <6>1
          <6>3. sorted(d)'
            BY <6>2
          <6> QED
            BY <6>3
        <5>3. CASE j # 1
          <6> DEFINE n == Len(s) + j - 1
          <6>1. j \in 2..Len(agenda) /\ n \in 1..(k - 1)
            BY <1>2, <3>1, <5>1, <5>3
          <6>2. agenda'[n] = <<"list", d>>
            BY <1>2, <5>1, <6>1
          <6> HIDE DEF n
          <6> QED
            BY <6>1, <6>2
        <5> QED
          BY <5>2, <5>3
      <4> QED
        BY <3>2, <4>1, <4>2
    <3> HIDE DEF Before
    <3>3. /\ x[1] = "file" =>
               /\ x[2] \in Paths
               /\ \/ sorted(DirOf[x[2]])
                  \/ \E j \in 1..(i - 1) : agenda[j] = <<"list", DirOf[x[2]]>>
          /\ x[1] \in {"list", "modules"} =>
               /\ x[2] \in Dirs
               /\ \/ top(x[2]) \/ sorted(parent(x[2]))
                  \/ \E j \in 1..(i - 1) : agenda[j] = <<"list", parent(x[2])>>
      <4>1. x \in {agenda[i]} /\ i \in DOMAIN agenda
        BY <3>1
      <4> QED
        BY <1>0, <4>1 DEF OrderInv
    <3> QED
      BY <3>1, <3>2, <3>3
  <2> QED
    BY <1>2, <2>1, <2>2
<1>7. EarlyInv'
  <2>1. inspected' = inspected \cup o.read
    BY DEF Conclude
  <2> SUFFICES ASSUME NEW k \in DOMAIN agenda'
               PROVE  /\ agenda'[k][1] \in {"npm", "application", "toolchain"} =>
                           /\ \A j \in 1..k : agenda'[j][1] \in Early
                           /\ \A r \in inspected' : r[1] # "startup"
                      /\ agenda'[k][1] \in {"npm", "application", "toolchain", "login", "service"} =>
                           agenda'[k][2] \in fixed
                      /\ agenda'[k][1] = "npm" => agenda'[k][2] \in ToSet(NpmCLIs)
    BY DEF EarlyInv
  <2>2. CASE k \in 1..Len(s) /\ agenda'[k] = s[k]
    BY <1>3, <2>2
  <2>3. CASE \E i \in 2..Len(agenda) : /\ k = Len(s) + i - 1 /\ agenda'[k] = agenda[i]
                                       /\ i \in DOMAIN agenda
    <3>1. PICK i \in 2..Len(agenda) : /\ k = Len(s) + i - 1 /\ agenda'[k] = agenda[i]
                                      /\ i \in DOMAIN agenda
      BY <2>3
    <3>2. /\ agenda[i][1] \in {"npm", "application", "toolchain"} =>
               /\ \A j \in 1..i : agenda[j][1] \in Early
               /\ \A r \in inspected : r[1] # "startup"
          /\ agenda[i][1] \in {"npm", "application", "toolchain", "login", "service"} =>
               agenda[i][2] \in fixed
          /\ agenda[i][1] = "npm" => agenda[i][2] \in ToSet(NpmCLIs)
      BY <1>0, <3>1 DEF EarlyInv
    <3>3. ASSUME agenda[i][1] \in {"npm", "application", "toolchain"}
          PROVE  /\ \A j \in 1..k : agenda'[j][1] \in Early
                 /\ \A r \in inspected' : r[1] # "startup"
      <4>1. t[1] \in Early
        <5>1. 1 \in 1..i
          OBVIOUS
        <5> QED
          BY <1>2, <3>2, <3>3, <5>1
      <4>2. s = <<>> /\ Len(s) = 0
        BY <4>1
      <4>3. \A j \in 1..k : j + 1 \in 1..i /\ j + 1 \in 2..Len(agenda) /\ agenda'[j] = agenda[j + 1]
        <5> SUFFICES ASSUME NEW j \in 1..k
                     PROVE  j + 1 \in 1..i /\ j + 1 \in 2..Len(agenda) /\ agenda'[j] = agenda[j + 1]
          OBVIOUS
        <5> DEFINE n == j + 1
        <5>1. n \in 1..i /\ n \in 2..Len(agenda) /\ Len(s) + n - 1 = j
          BY <1>2, <3>1, <4>2
        <5> QED
          BY <1>2, <5>1
      <4>4. \A r \in o.read : r[1] # "startup"
        BY <4>1 DEF Keeps
      <4> QED
        BY <2>1, <3>2, <3>3, <4>3, <4>4
    <3> QED
      BY <3>1, <3>2, <3>3
  <2> QED
    BY <1>2, <2>2, <2>3
<1>8. /\ \A p : attended(p) \/ Attends(o, p) => attended(p)'
      /\ \A p : persisted(p) \/ Persists(o, p) => persisted(p)'
      /\ \A p : visitedWell(p) \/ Visits(o, p) => visitedWell(p)'
  BY PromisesStay
<1>9. FixedInv'
  <2>1. \A check \in {"npm", "application", "toolchain"} : \A p :
          due(<<check, p>>) \/ (attended(p) /\ persisted(p)) =>
            due(<<check, p>>)' \/ (attended(p)' /\ persisted(p)')
    <3> SUFFICES ASSUME NEW check \in {"npm", "application", "toolchain"}, NEW p,
                        t = <<check, p>>
                 PROVE  attended(p)' /\ persisted(p)'
      BY <1>4, <1>8
    <3>1. t[1] = check /\ t[2] = p
      OBVIOUS
    <3> QED
      BY <1>8, <3>1 DEF Keeps
  <2>2. \A check \in {"login", "service"} : \A p :
          due(<<check, p>>) \/ attended(p) => due(<<check, p>>)' \/ attended(p)'
    <3> SUFFICES ASSUME NEW check \in {"login", "service"}, NEW p, t = <<check, p>>
                 PROVE  attended(p)'
      BY <1>4, <1>8
    <3>1. t[1] = check /\ t[2] = p
      OBVIOUS
    <3> QED
      BY <1>8, <3>1 DEF Keeps
  <2>3. \A p \in ToSet(NpmCLIs) : due(<<"npm", p>>)' \/ (attended(p)' /\ persisted(p)')
    BY <1>0, <2>1 DEF FixedInv
  <2>4. \A p \in ToSet(Applications) : due(<<"application", p>>)' \/ (attended(p)' /\ persisted(p)')
    BY <1>0, <2>1 DEF FixedInv
  <2>5. \A p \in ToSet(Toolchains) : due(<<"toolchain", p>>)' \/ (attended(p)' /\ persisted(p)')
    BY <1>0, <2>1 DEF FixedInv
  <2>6. \A p \in ToSet(LoginFiles) : due(<<"login", p>>)' \/ attended(p)'
    BY <1>0, <2>2 DEF FixedInv
  <2>7. \A p \in ToSet(ServiceFiles) : due(<<"service", p>>)' \/ attended(p)'
    BY <1>0, <2>2 DEF FixedInv
  <2> QED
    BY <2>3, <2>4, <2>5, <2>6, <2>7 DEF FixedInv
<1>10. VisitInv'
  <2> SUFFICES ASSUME NEW p \in walkedFiles
               PROVE  due(<<"file", p>>)' \/ visitedWell(p)'
    BY DEF VisitInv, walkedFiles, walked
  <2>1. CASE t = <<"file", p>>
    <3>1. t[1] = "file" /\ t[2] = p
      BY <2>1
    <3> QED
      BY <1>8, <3>1 DEF Keeps
  <2>2. CASE t # <<"file", p>>
    BY <1>0, <1>4, <1>8, <2>2 DEF VisitInv
  <2> QED
    BY <2>1, <2>2
<1>11. ManifestInv'
  <2>1. /\ packageChecked' = packageChecked \cup o.packaged
        /\ \A m : (parsed(m) <=> parsed(m)') /\ (metInWalk(m) <=> metInWalk(m)')
                 /\ (scopeFails(m) <=> scopeFails(m)')
        /\ \A d : entered(d) <=> entered(d)'
    BY FilesKeep DEF Conclude
  <2> SUFFICES ASSUME NEW m \in Paths, parsed(m)', m \notin packageChecked'
               PROVE  /\ metInWalk(m)' => due(<<"file", m>>)'
                      /\ \A d \in Dirs : metIn(d, m)' =>
                           due(<<"modules", d>>)' \/ due(<<"package", m>>)'
    BY DEF ManifestInv
  <2>2. parsed(m) /\ m \notin packageChecked \cup o.packaged
    BY <2>1
  <2>3. metInWalk(m)' => due(<<"file", m>>)'
    <3> SUFFICES ASSUME metInWalk(m)
                 PROVE  due(<<"file", m>>)'
      BY <2>1
    <3>1. due(<<"file", m>>)
      BY <1>0, <2>2 DEF ManifestInv
    <3>2. t # <<"file", m>>
      <4> SUFFICES ASSUME t = <<"file", m>>
                   PROVE  FALSE
        OBVIOUS
      <4>1. t[1] = "file" /\ t[2] = m
        OBVIOUS
      <4> QED
        BY <2>2, <4>1 DEF Keeps
    <3> QED
      BY <1>4, <3>1, <3>2
  <2>4. ASSUME NEW d \in Dirs, metIn(d, m)'
        PROVE  due(<<"modules", d>>)' \/ due(<<"package", m>>)'
    <3>1. metIn(d, m)
      BY <2>1, <2>4 DEF metIn
    <3>2. due(<<"modules", d>>) \/ due(<<"package", m>>)
      BY <1>0, <2>2, <3>1 DEF ManifestInv
    <3>3. CASE due(<<"package", m>>)
      <4>1. t # <<"package", m>>
        <5> SUFFICES ASSUME t = <<"package", m>>
                     PROVE  FALSE
          OBVIOUS
        <5>1. t[1] = "package" /\ t[2] = m
          OBVIOUS
        <5> QED
          BY <2>2, <3>1, <5>1 DEF Keeps, metIn
      <4> QED
        BY <1>4, <3>3, <4>1
    <3>4. CASE due(<<"modules", d>>) /\ t = <<"modules", d>>
      <4>1. t[1] = "modules" /\ t[2] = d
        BY <3>4
      <4>2. s = Packages[d]
        BY <3>1, <4>1 DEF metIn
      <4> QED
        BY <1>4, <3>1, <4>2 DEF metIn
    <3>5. CASE due(<<"modules", d>>) /\ t # <<"modules", d>>
      BY <1>4, <3>5
    <3> QED
      BY <3>2, <3>3, <3>4, <3>5
  <2> QED
    BY <2>3, <2>4
<1> QED
  BY <1>5, <1>6, <1>7, <1>9, <1>10, <1>11 DEF EvidenceInv

-----------------------------------------------------------------------------
(* Every task keeps its promise.                                            *)

\* None of the checks of entrypoints reads a file as a startup file.
LEMMA NoStartupRead ==
  ASSUME NEW p, NEW d
  PROVE  /\ \A r \in checkApplicationFile(p).read : r[1] # "startup"
         /\ \A r \in checkNpmFile(p).read : r[1] # "startup"
         /\ checkPersistenceSiblings(d).read = {}
<1>1. ASSUME NEW how, how # "startup", NEW checks, NEW optional
      PROVE  \E f, r : /\ processFile(how, p, checks, optional) = outcome(f, r)
                       /\ \A x \in r : x[1] # "startup"
  BY <1>1, ProcessFileShape
<1>2. checkPersistenceSiblings(d).read = {}
  BY DEF checkPersistenceSiblings, Nothing
<1>3. \A r \in checkApplicationFile(p).read : r[1] # "startup"
  <2> DEFINE checks == inspectApplication(fileBytes(p))
             optional == FALSE
             how == "application"
             words == {"scan-incomplete"}
             read == processFile(how, p, checks, optional)
             o == IF content[p].there = "missing" THEN Nothing
                  ELSE IF content[p].there = "irregular" THEN finds(p, words) ELSE read
  <2>1. checkApplicationFile(p) = IF p \in persistenceChecked THEN Nothing
                                  ELSE [o EXCEPT !.persisted = {p}]
    BY DEF checkApplicationFile
  <2>2. how # "startup"
    OBVIOUS
  <2> HIDE DEF checks, optional, how, words
  <2>3. PICK f, r : read = outcome(f, r) /\ \A x \in r : x[1] # "startup"
    BY <1>1, <2>2
  <2>4. PICK F : finds(p, words) = outcome(F, {})
    BY FindsShape
  <2> HIDE DEF read
  <2>5. \E g, q : o = outcome(g, q) /\ \A x \in q : x[1] # "startup"
    <3>1. Nothing = outcome({}, {})
      BY DEF Nothing, outcome
    <3> QED
      BY <2>3, <2>4, <3>1
  <2> HIDE DEF o
  <2> QED
    BY <2>1, <2>5 DEF Nothing, outcome
<1>4. \A r \in checkNpmFile(p).read : r[1] # "startup"
  <2> DEFINE checks == inspectNpmCLI(fileBytes(p))
             optional == FALSE
             how == "npm"
             words == {"scan-incomplete"}
             patched == {"patched-npm-cli"}
             read == processFile(how, p, checks, optional)
             o == IF content[p].size # "normal" THEN finds(p, patched) ELSE read
  <2>1. checkNpmFile(p) = IF content[p].there = "missing" THEN Nothing
                          ELSE IF content[p].there = "irregular" THEN finds(p, words)
                          ELSE [o EXCEPT !.persisted = {p}]
    BY DEF checkNpmFile
  <2>2. how # "startup"
    OBVIOUS
  <2> HIDE DEF checks, optional, how, words, patched
  <2>3. PICK f, r : read = outcome(f, r) /\ \A x \in r : x[1] # "startup"
    BY <1>1, <2>2
  <2>4. PICK F : finds(p, words) = outcome(F, {})
    BY FindsShape
  <2>5. PICK G : finds(p, patched) = outcome(G, {})
    BY FindsShape
  <2> HIDE DEF read
  <2>6. \E g, q : o = outcome(g, q) /\ \A x \in q : x[1] # "startup"
    BY <2>3, <2>5
  <2> HIDE DEF o
  <2> QED
    BY <2>1, <2>4, <2>6 DEF Nothing, outcome
<1> QED
  BY <1>2, <1>3, <1>4

\* What an entrypoint was marked for, when no startup file has been read.
LEMMA MarkedPersists ==
  ASSUME EarnedInv, NEW p \in Paths, NEW o, Tells(o),
         \A r \in inspected \cup o.read : r[1] # "startup",
         pathInScope(DirOf[p]) /\ stays(p) =>
           Told(o.found, p) \/ p \in persistenceChecked \cup o.persisted
  PROVE  Attends(o, p) /\ Persists(o, p)
<1>1. Attends(o, p)
  BY DEF Attends
<1>2. <<"startup", p>> \notin inspected \cup o.read
  OBVIOUS
<1>3. ASSUME pathInScope(DirOf[p]), stays(p), content[p].sidecar, ~headOnly(p)
      PROVE  Told(o.found, p)
  <2>1. CASE p \in persistenceChecked
    <3>1. reported(p)
      BY <1>2, <1>3, <2>1 DEF EarnedInv
    <3> QED
      BY <3>1 DEF Told
  <2>2. CASE p \in o.persisted
    BY <1>2, <1>3, <2>2 DEF Tells, PersistedTold
  <2> QED
    BY <1>3, <2>1, <2>2
<1> QED
  BY <1>1, <1>3 DEF Persists

\* What a directory was found to be it stays, and what was listed.
LEMMA SortedStays ==
  ASSUME NEW o, Conclude(o), entries \subseteq entries', contentDirs \subseteq contentDirs'
  PROVE  \A d : sorted(d) => sorted(d)'
<1>1. content' = content /\ changed' = changed /\ unlisted' = unlisted
  BY DEF Conclude, world
<1>2. \A d : (inProject(d) <=> inProject(d)') /\ (pruned(d) <=> pruned(d)')
  BY FilesKeep
<1>3. \A d : found(d) => found(d)'
  BY DEF found
<1>4. \A d : listedWhole(d) => listedWhole(d)'
  BY <1>1, <1>2, <1>3 DEF listedWhole, steady
<1> QED
  BY <1>4, ReportsGrow DEF sorted

\* The task at hand, as the agenda has it.
LEMMA HeadLemma ==
  ASSUME AgendaInv, EvidenceInv, agenda # <<>>, NEW check, NEW p, Head(agenda) = <<check, p>>
  PROVE  /\ check = "file" => p \in Paths /\ sorted(DirOf[p])
         /\ check \in {"list", "modules"} => p \in Dirs /\ (top(p) \/ sorted(parent(p)))
         /\ check \in {"npm", "application", "toolchain", "login", "service"} => p \in fixed
         /\ check \in {"npm", "application", "toolchain"} => \A r \in inspected : r[1] # "startup"
         /\ check = "npm" => p \in ToSet(NpmCLIs)
<1>1. 1 \in DOMAIN agenda /\ agenda[1] = <<check, p>>
  BY DEF AgendaInv, Orderly
<1>2. OrderInv /\ EarlyInv
  BY DEF EvidenceInv
<1>3. <<check, p>> \in {agenda[1]} /\ <<check, p>>[1] = check /\ <<check, p>>[2] = p
  BY <1>1
<1>4. \A d : ~(\E j \in 1..(1 - 1) : agenda[j] = <<"list", d>>)
  OBVIOUS
<1>5. /\ check = "file" => p \in Paths /\ sorted(DirOf[p])
      /\ check \in {"list", "modules"} => p \in Dirs /\ (top(p) \/ sorted(parent(p)))
  BY <1>1, <1>2, <1>3, <1>4 DEF OrderInv
<1> QED
  BY <1>1, <1>2, <1>3, <1>5 DEF EarlyInv

\* A check of one path that keeps its promise.
LEMMA PerformKeeps ==
  ASSUME AgendaInv, EvidenceInv, NEW check, NEW p, NEW o, Perform(check, p, o),
         Tells(o), Keeps(<<check, p>>, o), check \notin {"list", "modules"}
  PROVE  EvidenceInv'
<1> DEFINE t == <<check, p>>
           s == <<>>
<1>1. /\ agenda # <<>> /\ Head(agenda) = t /\ agenda' = Tail(agenda) /\ Conclude(o)
      /\ entries' = entries /\ contentDirs' = contentDirs /\ dependencyDirs' = dependencyDirs
  BY DEF Perform, scopeVars
<1>2. /\ s \in Seq({"package", "dist", "pth"} \X Paths) /\ s = <<>>
      /\ \A u \in Seq(Tasks) : s \o u = u
  OBVIOUS
<1>3. Tail(agenda) \in Seq(Tasks)
  BY <1>1 DEF AgendaInv, Orderly
<1>4. agenda' = s \o Tail(agenda)
  BY <1>1, <1>2, <1>3
<1>5. \A d : sorted(d) => sorted(d)'
  BY <1>1, SortedStays
<1>6. DependencyInv'
  BY <1>1 DEF EvidenceInv, DependencyInv, ownSource
<1>7. t[1] # "modules" /\ t[1] # "list"
  OBVIOUS
<1> HIDE DEF s, t
<1>8. Tells(o) /\ Keeps(t, o)
  BY DEF t
<1> QED
  BY <1>1, <1>2, <1>4, <1>5, <1>6, <1>7, <1>8, StepLemma

\* The paths whose presence is the finding leave no mark and read nothing.
LEMMA PresentTells ==
  ASSUME NEW p, NEW S, NEW check
  PROVE  /\ Tells(present(p, check)) /\ present(p, check).read = {}
         /\ Tells(presentAny(S, check)) /\ presentAny(S, check).read = {}
<1>1. Tells(present(p, check)) /\ present(p, check).read = {}
  <2> DEFINE checks == report(check, content[p].there # "missing")
  <2>1. present(p, check) = finds(p, checks)
    BY DEF present
  <2> HIDE DEF checks
  <2>2. PICK F : finds(p, checks) = outcome(F, {})
    BY FindsShape
  <2> QED
    BY <2>1, <2>2, FindsTells DEF outcome
<1>2. Tells(presentAny(S, check)) /\ presentAny(S, check).read = {}
  <2> DEFINE F == {<<check, q>> : q \in {x \in S : content[x].there # "missing"}}
             o == presentAny(S, check)
  <2>1. o = [Nothing EXCEPT !.found = F]
    BY DEF presentAny
  <2> HIDE DEF F, o
  <2>2. /\ o.persisted = {} /\ o.scripted = {} /\ o.packaged = {} /\ o.read = {}
    BY <2>1 DEF Nothing
  <2>3. Tells(o)
    BY <2>2, UnmarkedTells
  <2> QED
    BY <2>2, <2>3 DEF o
<1> QED
  BY <1>1, <1>2

\* What two checks amount to together.
LEMMA PairLemma ==
  ASSUME NEW a, NEW b
  PROVE  LET o == together({a, b}) IN
           /\ o.read = a.read \cup b.read /\ o.persisted = a.persisted \cup b.persisted
           /\ o.packaged = a.packaged \cup b.packaged
           /\ \A p : Told(a.found, p) \/ Told(b.found, p) => Told(o.found, p)
<1>1. a.found \subseteq together({a, b}).found /\ b.found \subseteq together({a, b}).found
  BY DEF together
<1>2. \A p : Told(a.found, p) \/ Told(b.found, p) => Told(together({a, b}).found, p)
  BY <1>1, ToldGrows
<1> QED
  BY <1>2 DEF together

\* The fixed paths of the first phase.
LEMMA PresenceKeeps ==
  ASSUME AgendaInv, EvidenceInv, NEW p \in Paths, CheckArtifact(p) \/ CheckStaging(p)
  PROVE  EvidenceInv'
<1>1. ASSUME NEW check \in {"artifact", "staging"}, NEW o, Tells(o), o.read = {}, Perform(check, p, o)
      PROVE  EvidenceInv'
  <2>1. Keeps(<<check, p>>, o) /\ check \notin {"list", "modules"}
    BY <1>1 DEF Keeps
  <2> QED
    BY <1>1, <2>1, PerformKeeps
<1>2. Tells(Nothing) /\ Nothing.read = {}
  BY NothingTells DEF Nothing
<1>3. CASE CheckArtifact(p)
  <2> DEFINE check == "artifact"
             name == "known-artifact"
             said == present(p, name)
             o == IF pathInScope(p) THEN said ELSE Nothing
  <2>1. Perform(check, p, o)
    BY <1>3 DEF CheckArtifact
  <2>2. Tells(said) /\ said.read = {}
    BY PresentTells
  <2>3. check \in {"artifact", "staging"}
    OBVIOUS
  <2> HIDE DEF check, said
  <2>4. Tells(o) /\ o.read = {}
    BY <1>2, <2>2
  <2> HIDE DEF o
  <2> QED
    BY <1>1, <2>1, <2>3, <2>4
<1>4. CASE CheckStaging(p)
  <2>1. PICK refused \in refusals(p) :
          Perform("staging", p,
            IF ~pathInScope(p) THEN Nothing
            ELSE IF refused THEN finds(p, {"scan-incomplete"})
            ELSE present(p, "runtime-staging-artifact"))
    BY <1>4 DEF CheckStaging
  <2> DEFINE check == "staging"
             name == "runtime-staging-artifact"
             words == {"scan-incomplete"}
             said == present(p, name)
             told == finds(p, words)
             o == IF ~pathInScope(p) THEN Nothing ELSE IF refused THEN told ELSE said
  <2>2. Perform(check, p, o)
    BY <2>1
  <2>3. Tells(said) /\ said.read = {}
    BY PresentTells
  <2> HIDE DEF words
  <2>4. Tells(told) /\ told.read = {}
    BY FindsTells, FindsShape DEF outcome
  <2>5. check \in {"artifact", "staging"}
    OBVIOUS
  <2> HIDE DEF check, said, told
  <2>6. Tells(o) /\ o.read = {}
    BY <1>2, <2>3, <2>4
  <2> HIDE DEF o
  <2> QED
    BY <1>1, <2>2, <2>5, <2>6
<1> QED
  BY <1>3, <1>4

LEMMA NpmKeeps ==
  ASSUME WorldInv, AgendaInv, EvidenceInv, NEW p \in Paths, CheckNpmCLI(p)
  PROVE  EvidenceInv'
<1> DEFINE d == DirOf[p]
           siblings == checkPersistenceSiblings(d)
           file == checkNpmFile(p)
           o == IF pathInScope(d) THEN together({siblings, file}) ELSE Nothing
           check == "npm"
<1>1. Perform(check, p, o)
  BY DEF CheckNpmCLI
<1>2. p \in ToSet(NpmCLIs) /\ \A r \in inspected : r[1] # "startup"
  BY <1>1, HeadLemma DEF Perform
<1>3. d \in Dirs /\ EarnedInv
  BY FilesAssumption DEF EvidenceInv
<1>4. Tells(siblings) /\ Tells(file) /\ (stays(p) => p \in persistenceChecked \cup file.persisted)
  BY <1>2, <1>3, SiblingsTell, NpmFileTells
<1>5. siblings.read = {} /\ \A r \in file.read : r[1] # "startup"
  BY NoStartupRead
<1> HIDE DEF siblings, file
<1>6. Tells(o)
  BY <1>4, PairTells, NothingTells
<1>7. \A r \in o.read : r[1] # "startup"
  BY <1>5, PairLemma DEF Nothing
<1>8. pathInScope(d) /\ stays(p) => p \in persistenceChecked \cup o.persisted
  <2>1. together({siblings, file}).persisted = siblings.persisted \cup file.persisted
    BY PairLemma
  <2> QED
    BY <1>4, <2>1
<1> HIDE DEF o
<1>9. Attends(o, p) /\ Persists(o, p)
  BY <1>2, <1>3, <1>6, <1>7, <1>8, MarkedPersists
<1>10. Keeps(<<check, p>>, o) /\ check \notin {"list", "modules"}
  BY <1>7, <1>9 DEF Keeps
<1> HIDE DEF check
<1> QED
  BY <1>1, <1>6, <1>10, PerformKeeps

LEMMA ApplicationKeeps ==
  ASSUME WorldInv, AgendaInv, EvidenceInv, NEW p \in Paths, CheckApplication(p)
  PROVE  EvidenceInv'
<1> DEFINE d == DirOf[p]
           siblings == checkPersistenceSiblings(d)
           file == checkApplicationFile(p)
           o == IF pathInScope(d) THEN together({siblings, file}) ELSE Nothing
           check == "application"
<1>1. Perform(check, p, o)
  BY DEF CheckApplication
<1>2. p \in fixed /\ \A r \in inspected : r[1] # "startup"
  BY <1>1, HeadLemma DEF Perform
<1>3. d \in Dirs /\ EarnedInv
  BY FilesAssumption DEF EvidenceInv
<1>4. Tells(siblings) /\ Tells(file) /\ p \in persistenceChecked \cup file.persisted
  BY <1>2, <1>3, SiblingsTell, ApplicationFileTells
<1>5. siblings.read = {} /\ \A r \in file.read : r[1] # "startup"
  BY NoStartupRead
<1> HIDE DEF siblings, file
<1>6. Tells(o)
  BY <1>4, PairTells, NothingTells
<1>7. \A r \in o.read : r[1] # "startup"
  BY <1>5, PairLemma DEF Nothing
<1>8. pathInScope(d) => p \in persistenceChecked \cup o.persisted
  BY <1>4, PairLemma
<1> HIDE DEF o
<1>9. Attends(o, p) /\ Persists(o, p)
  BY <1>2, <1>3, <1>6, <1>7, <1>8, MarkedPersists
<1>10. Keeps(<<check, p>>, o) /\ check \notin {"list", "modules"}
  BY <1>7, <1>9 DEF Keeps
<1> HIDE DEF check
<1> QED
  BY <1>1, <1>6, <1>10, PerformKeeps

\* A gap of its directory tells of a file.
LEMMA DirectoryTold ==
  ASSUME NEW p \in Paths
  PROVE  /\ Told(finds(DirOf[p], {"scan-incomplete"}).found, p)
         /\ finds(DirOf[p], {"scan-incomplete"}).read = {}
<1> DEFINE words == {"scan-incomplete"}
           d == DirOf[p]
<1>1. "scan-incomplete" \in words
  OBVIOUS
<1> HIDE DEF words
<1>2. PICK F : finds(d, words) = outcome(F, {}) /\ \A k \in words : <<k, d>> \in F
  BY FindsShape
<1>3. d \in Dirs
  BY FilesAssumption
<1>4. Len(Up[d]) > 0 /\ Up[d][1] = d
  BY <1>3, ScopeAssumption
<1>5. gap(Up[DirOf[p]][1]) \in F
  BY <1>1, <1>2, <1>4 DEF gap
<1>6. 1 \in DOMAIN Up[DirOf[p]]
  BY <1>3, ScopeAssumption
<1> QED
  BY <1>2, <1>5, <1>6 DEF Told, outcome, words

LEMMA ToolchainKeeps ==
  ASSUME WorldInv, AgendaInv, EvidenceInv, NEW p \in Paths, CheckToolchain(p)
  PROVE  EvidenceInv'
<1> DEFINE d == DirOf[p]
           file == checkApplicationFile(p)
           words == {"scan-incomplete"}
           o == IF ~pathInScope(d) THEN Nothing ELSE IF d \in unlisted THEN finds(d, words) ELSE file
           check == "toolchain"
<1>1. Perform(check, p, o)
  BY DEF CheckToolchain
<1>2. p \in fixed /\ \A r \in inspected : r[1] # "startup"
  BY <1>1, HeadLemma DEF Perform
<1>3. EarnedInv
  BY DEF EvidenceInv
<1>4. Tells(file) /\ p \in persistenceChecked \cup file.persisted
  BY <1>2, ApplicationFileTells
<1>5. \A r \in file.read : r[1] # "startup"
  BY NoStartupRead
<1>6. Told(finds(d, words).found, p) /\ finds(d, words).read = {} /\ Tells(finds(d, words))
  BY DirectoryTold, FindsTells
<1> HIDE DEF file, words
<1>7. Tells(o)
  BY <1>4, <1>6, NothingTells
<1>8. \A r \in o.read : r[1] # "startup"
  BY <1>5, <1>6 DEF Nothing
<1>9. pathInScope(d) => Told(o.found, p) \/ p \in persistenceChecked \cup o.persisted
  BY <1>4, <1>6
<1> HIDE DEF o
<1>10. Attends(o, p) /\ Persists(o, p)
  BY <1>2, <1>3, <1>7, <1>8, <1>9, MarkedPersists
<1>11. Keeps(<<check, p>>, o) /\ check \notin {"list", "modules"}
  BY <1>8, <1>10 DEF Keeps
<1> HIDE DEF check
<1> QED
  BY <1>1, <1>7, <1>11, PerformKeeps

LEMMA SystemKeeps ==
  ASSUME WorldInv, AgendaInv, EvidenceInv, NEW p \in Paths, VisitSystem(p)
  PROVE  EvidenceInv'
<1> DEFINE check == "system"
<1>1. PICK lost \in {0} \cup failedListings(p) : Perform(check, p, systemOutcome(p, lost))
  BY DEF VisitSystem, systemOutcome, lostGaps
<1> DEFINE o == systemOutcome(p, lost)
           gaps == lostGaps(p, lost)
           rest == IF lost = 0 THEN visitPersistencePath(p) ELSE Nothing
<1>2. Tells(gaps) /\ gaps.read = {}
  <2>1. PICK F : gaps = outcome(F, {})
    BY LostShape
  <2> HIDE DEF gaps
  <2> QED
    BY <2>1, UnmarkedTells DEF outcome
<1>3. \A r \in rest.read : r[1] # "startup"
  <2>1. checkRepoArtifactName(p).read = {}
    <3> DEFINE checks == report("malicious-repo-artifact", is("sidecar", p) \/ is("artifact", p))
    <3>1. checkRepoArtifactName(p) = finds(p, checks)
      BY DEF checkRepoArtifactName
    <3> HIDE DEF checks
    <3>2. PICK F : finds(p, checks) = outcome(F, {})
      BY FindsShape
    <3> QED
      BY <3>1, <3>2 DEF outcome
  <2> DEFINE clue == checkRepoArtifactName(p)
  <2>2. [clue EXCEPT !.persisted = {p}].read = {}
    <3>1. \E F : clue = outcome(F, {})
      BY FindsShape DEF checkRepoArtifactName
    <3> HIDE DEF clue
    <3> QED
      BY <3>1 DEF outcome
  <2>3. \A r \in checkApplicationFile(p).read : r[1] # "startup"
    BY NoStartupRead
  <2> QED
    BY <2>2, <2>3 DEF visitPersistencePath, Nothing
<1>4. Tells(rest)
  BY PersistencePathTells, NothingTells
<1>5. o = Nothing \/ o = together({gaps, rest})
  BY DEF systemOutcome
<1> HIDE DEF gaps, rest, o
<1>6. Tells(o)
  BY <1>2, <1>4, <1>5, NothingTells, PairTells
<1>7. \A r \in o.read : r[1] # "startup"
  BY <1>2, <1>3, <1>5, PairLemma DEF Nothing
<1>8. Keeps(<<check, p>>, o) /\ check \notin {"list", "modules"}
  BY <1>7 DEF Keeps
<1> HIDE DEF check
<1>9. Perform(check, p, o)
  BY <1>1 DEF o
<1> QED
  BY <1>6, <1>8, <1>9, PerformKeeps

LEMMA LoginKeeps ==
  ASSUME WorldInv, AgendaInv, EvidenceInv, NEW p \in Paths, CheckLoginFile(p)
  PROVE  EvidenceInv'
<1> DEFINE optional == TRUE
           file == checkStartupFile(p, optional)
           o == IF pathInScope(p) THEN file ELSE Nothing
           check == "login"
<1>1. Perform(check, p, o)
  BY DEF CheckLoginFile
<1>2. p \in fixed
  BY <1>1, HeadLemma DEF Perform
<1> HIDE DEF optional
<1>3. Tells(file) /\ (stays(p) => p \in persistenceChecked \cup file.persisted)
  BY <1>2, StartupFileTells
<1>4. pathInScope(DirOf[p]) => pathInScope(p)
  BY FilesAssumption DEF pathInScope
<1> HIDE DEF file
<1>5. Tells(o)
  BY <1>3, NothingTells
<1>6. Attends(o, p)
  BY <1>3, <1>4 DEF Attends
<1> HIDE DEF o
<1>7. Keeps(<<check, p>>, o) /\ check \notin {"list", "modules"}
  BY <1>6 DEF Keeps, Early
<1> HIDE DEF check
<1> QED
  BY <1>1, <1>5, <1>7, PerformKeeps

LEMMA ServiceKeeps ==
  ASSUME WorldInv, AgendaInv, EvidenceInv, NEW p \in Paths, CheckServiceFile(p)
  PROVE  EvidenceInv'
<1>1. PICK here \in seen(p) :
        Perform("service", p,
          IF ~pathInScope(DirOf[p]) THEN Nothing
          ELSE IF DirOf[p] \in unlisted THEN finds(DirOf[p], {"scan-incomplete"})
          ELSE IF here THEN checkStartupFile(p, FALSE) ELSE Nothing)
  BY DEF CheckServiceFile
<1> DEFINE optional == FALSE
           d == DirOf[p]
           words == {"scan-incomplete"}
           file == checkStartupFile(p, optional)
           o == IF ~pathInScope(d) THEN Nothing ELSE IF d \in unlisted THEN finds(d, words)
                ELSE IF here THEN file ELSE Nothing
           check == "service"
<1>2. Perform(check, p, o)
  BY <1>1
<1>3. p \in fixed
  BY <1>2, HeadLemma DEF Perform
<1> HIDE DEF optional
<1>4. Tells(file) /\ (stays(p) => p \in persistenceChecked \cup file.persisted)
  BY <1>3, StartupFileTells
<1>5. Told(finds(d, words).found, p) /\ Tells(finds(d, words))
  BY DirectoryTold, FindsTells
<1>6. stays(p) => here
  BY DEF seen, stays, steady
<1> HIDE DEF file, words
<1>7. Tells(o)
  BY <1>4, <1>5, NothingTells
<1>8. Attends(o, p)
  BY <1>4, <1>5, <1>6 DEF Attends
<1> HIDE DEF o
<1>9. Keeps(<<check, p>>, o) /\ check \notin {"list", "modules"}
  BY <1>8 DEF Keeps, Early
<1> HIDE DEF check
<1> QED
  BY <1>2, <1>7, <1>9, PerformKeeps

LEMMA PackageKeeps ==
  ASSUME WorldInv, AgendaInv, EvidenceInv, NEW m \in Paths, CheckPackage(m)
  PROVE  EvidenceInv'
<1>1. PICK broken \in linkErrors(m) :
        Perform("package", m,
          IF scopeFails(m) THEN finds(parent(DirOf[m]), {"scan-incomplete"})
          ELSE IF broken THEN finds(DirOf[m], {"scan-incomplete"})
          ELSE together({checkPackageManifest(m, TRUE, TRUE),
                         presentAny(PayloadFiles[m], "npm-payload-file")}))
  BY DEF CheckPackage
<1> DEFINE known == TRUE
           name == "npm-payload-file"
           words == {"scan-incomplete"}
           check == "package"
           manifest == checkPackageManifest(m, known, known)
           payloads == presentAny(PayloadFiles[m], name)
           both == together({manifest, payloads})
           o == IF scopeFails(m) THEN finds(parent(DirOf[m]), words)
                ELSE IF broken THEN finds(DirOf[m], words) ELSE both
<1>2. Perform(check, m, o)
  BY <1>1
<1> HIDE DEF known, name, words
<1>3. Tells(manifest) /\ m \in packageChecked \cup manifest.packaged
  BY PackageManifestTells
<1>4. Tells(payloads)
  BY PresentTells
<1> HIDE DEF manifest, payloads
<1>5. Tells(both) /\ m \in packageChecked \cup both.packaged
  <2>1. both.packaged = manifest.packaged \cup payloads.packaged
    BY PairLemma
  <2> QED
    BY <1>3, <1>4, <2>1, PairTells
<1>6. broken => ~parsed(m)
  BY DEF linkErrors, parsed, readable
<1> HIDE DEF both
<1>7. Tells(o)
  BY <1>5, FindsTells
<1>8. parsed(m) /\ ~scopeFails(m) => m \in packageChecked \cup o.packaged
  BY <1>5, <1>6
<1> HIDE DEF o
<1>9. Keeps(<<check, m>>, o) /\ check \notin {"list", "modules"}
  BY <1>8 DEF Keeps, Early
<1> HIDE DEF check
<1> QED
  BY <1>2, <1>7, <1>9, PerformKeeps

LEMMA ComposerKeeps ==
  ASSUME WorldInv, AgendaInv, EvidenceInv, NEW m \in Paths, CheckComposerVendor(m)
  PROVE  EvidenceInv'
<1> DEFINE absent == ~visited(parent(DirOf[m])) \/ content[m].there = "missing"
           checks == IF content[m].head # "text" THEN {"scan-incomplete"}
                     ELSE report("compromised-composer-version", content[m].declares)
           optional == FALSE
           how == "composer"
           marked == {}
           read == processFile(how, m, checks, optional)
           D == IF deep /\ readable(m) /\ content[m].head = "text" THEN declared(m, marked) ELSE {}
           O == {read} \cup {inspectDependencyTarget(t) : t \in D}
           o == IF absent THEN Nothing ELSE together(O)
           check == "vendor"
<1>1. Perform(check, m, o)
  BY DEF CheckComposerVendor
<1> HIDE DEF absent, checks, optional, marked, how
<1>2. Tells(read) /\ \A t \in D : Tells(inspectDependencyTarget(t))
  BY ReadTells, DependencyTargetTells
<1> HIDE DEF read, D
<1>3. \A x \in O : Tells(x)
  BY <1>2
<1> HIDE DEF O
<1>4. Tells(o)
  BY <1>3, NothingTells, TogetherTells
<1> HIDE DEF o
<1>5. Keeps(<<check, m>>, o) /\ check \notin {"list", "modules"}
  BY DEF Keeps, Early
<1> HIDE DEF check
<1> QED
  BY <1>1, <1>4, <1>5, PerformKeeps

LEMMA DistInfoKeeps ==
  ASSUME WorldInv, AgendaInv, EvidenceInv, NEW m \in Paths, CheckDistInfo(m)
  PROVE  EvidenceInv'
<1> DEFINE checks == report("compromised-python-version", is("baddist", m))
           O == {finds(m, checks)} \cup IF deep THEN {inspectPythonEntrypoints(m)} ELSE {}
           o == together(O)
           check == "dist"
<1>1. Perform(check, m, o)
  BY DEF CheckDistInfo
<1> HIDE DEF checks
<1>2. \A x \in O : Tells(x)
  BY FindsTells, EntrypointsTell
<1> HIDE DEF O
<1>3. Tells(o)
  BY <1>2, TogetherTells
<1> HIDE DEF o
<1>4. Keeps(<<check, m>>, o) /\ check \notin {"list", "modules"}
  BY DEF Keeps, Early
<1> HIDE DEF check
<1> QED
  BY <1>1, <1>3, <1>4, PerformKeeps

LEMMA PthKeeps ==
  ASSUME AgendaInv, EvidenceInv, NEW p \in Paths, CheckPthFile(p)
  PROVE  EvidenceInv'
<1>1. PICK here \in seen(p) :
        Perform("pth", p,
          IF ~here THEN Nothing
          ELSE IF is("badpth", p) THEN finds(p, {"malicious-pth-file"})
          ELSE processFile("pth", p, inspectPth(deep, fileBytes(p)), FALSE))
  BY DEF CheckPthFile
<1> DEFINE words == {"malicious-pth-file"}
           checks == inspectPth(deep, fileBytes(p))
           optional == FALSE
           how == "pth"
           o == IF ~here THEN Nothing
                ELSE IF is("badpth", p) THEN finds(p, words)
                ELSE processFile(how, p, checks, optional)
<1>2. Perform(how, p, o)
  BY <1>1
<1>3. Keeps(<<how, p>>, o) /\ how \notin {"list", "modules"}
  BY DEF Keeps, Early
<1> HIDE DEF words, checks, optional, how
<1>4. Tells(o)
  BY NothingTells, FindsTells, ReadTells
<1> HIDE DEF o
<1> QED
  BY <1>2, <1>3, <1>4, PerformKeeps

\* What the walk was to select in a directory that was listed whole it selects.
LEMMA SelectedIsRoutine ==
  ASSUME DependencyInv, NEW p \in Paths, listedWhole(DirOf[p])
  PROVE  /\ selected(p) /\ stays(p) => routineContentFile(p)
         /\ metInWalk(p) => routineContentFile(p)
<1>1. DirOf[p] \in Dirs
  BY FilesAssumption
<1>2. metInWalk(p) => routineContentFile(p)
  BY DEF metInWalk, routineContentFile, targetedContentFile, is
<1>3. ASSUME selected(p), stays(p)
      PROVE  routineContentFile(p)
  <2>1. CASE targetedContentFile(p)
    BY <2>1 DEF routineContentFile
  <2>2. CASE is("config", p)
    <3>1. is("carrier", p) /\ Ext[p] # "font"
      BY <2>2, ScopeAssumption
    <3> QED
      BY <2>2, <3>1 DEF routineContentFile, injectionContentFile
  <2>3. CASE /\ ownSource(DirOf[p])
             /\ is("carrier", p) /\ Ext[p] = "font" => inProject(DirOf[p])
             /\ is("carrier", p) \/ hashSizeCandidate(p)
    <3>1. DirOf[p] \notin dependencyDirs
      BY <1>1, <2>3 DEF DependencyInv
    <3>2. ~pruned(DirOf[p])
      BY <1>3 DEF selected
    <3>3. is("carrier", p) /\ Ext[p] = "font" => DirOf[p] \in contentDirs
      BY <2>3, <3>2 DEF listedWhole
    <3> QED
      BY <2>3, <3>1, <3>3 DEF routineContentFile, injectionContentFile
  <2> QED
    BY <1>3, <2>1, <2>2, <2>3 DEF selected
<1> QED
  BY <1>2, <1>3

\* A file of the walk is read as its name asks, if its directory was shown whole.
LEMMA VisitTells ==
  ASSUME WorldInv, EarnedInv, DependencyInv, NEW p \in Paths, sorted(DirOf[p]), NEW o,
         o = IF p \in entries THEN visitProject(p) ELSE Nothing
  PROVE  /\ Tells(o) /\ Visits(o, p)
         /\ metInWalk(p) /\ parsed(p) => p \in packageChecked \cup o.packaged
<1> DEFINE source == checkSourceFile(p)
           A == IF ~pruned(DirOf[p]) \/ scanDirFiles(DirOf[p])
                  THEN {IF routineContentFile(p) THEN source ELSE Nothing} ELSE {}
           B == IF pruned(DirOf[p]) THEN {visitPersistencePath(p)} ELSE {}
           all == together(A \cup B)
<1>1. visitProject(p) = all
  BY DEF visitProject
<1>2. /\ Tells(source)
      /\ signed(p) => Told(source.found, p)
      /\ stays(p) /\ AsSource(p, {"script"}) /\ content[p].published
         /\ ~validAsset(Ext[p], content[p]) => Told(source.found, p)
      /\ stays(p) /\ AsSource(p, {"script", "dependency"}) /\ Ext[p] = "font"
         /\ content[p].head = "text" => Told(source.found, p)
      /\ is("manifest", p) /\ ~is("startup", p) /\ ~is("toolchain", p) =>
           p \in packageChecked \cup source.packaged
  BY SourceFileTells
<1> HIDE DEF source
<1>3. \A x \in A \cup B : Tells(x)
  BY <1>2, NothingTells, PersistencePathTells
<1>4. routineContentFile(p) /\ ~pruned(DirOf[p]) =>
        /\ \A q : Told(source.found, q) => Told(all.found, q)
        /\ source.packaged \subseteq all.packaged
  <2> SUFFICES ASSUME routineContentFile(p), ~pruned(DirOf[p])
               PROVE  /\ \A q : Told(source.found, q) => Told(all.found, q)
                      /\ source.packaged \subseteq all.packaged
    OBVIOUS
  <2> DEFINE O == A \cup B
  <2>1. source \in O
    OBVIOUS
  <2>2. all = together(O)
    OBVIOUS
  <2> HIDE DEF A, B, O, all
  <2>3. source.packaged \subseteq together(O).packaged
    BY <2>1 DEF together
  <2> QED
    BY <2>1, <2>2, <2>3, TogetherTold
<1>5. Tells(all)
  <2> DEFINE O == A \cup B
  <2>1. all = together(O) /\ \A x \in O : Tells(x)
    BY <1>3
  <2> HIDE DEF A, B, O, all
  <2> QED
    BY <2>1, TogetherTells
<1> HIDE DEF A, B, all
<1>6. Tells(o)
  BY <1>1, <1>5, NothingTells
<1>7. CASE excused(DirOf[p])
  <2>1. reported(p)
    BY <1>7 DEF excused, reported
  <2>2. Told(o.found, p)
    BY <2>1 DEF Told
  <2>3. ~metInWalk(p)
    BY <1>7 DEF excused, metInWalk, open
  <2> QED
    BY <1>6, <2>2, <2>3 DEF Visits
<1>8. CASE listedWhole(DirOf[p])
  <2>1. steady(p) /\ content[p].there # "missing" => p \in entries
    BY <1>8 DEF listedWhole
  <2>2. /\ selected(p) /\ stays(p) => routineContentFile(p)
        /\ metInWalk(p) => routineContentFile(p)
    BY <1>8, SelectedIsRoutine
  <2>3. Visits(o, p)
    <3> SUFFICES ASSUME stays(p)
                 PROVE  /\ selected(p) /\ carriesSignature(p, content[p]) => Told(o.found, p)
                        /\ asSource(p, {"script"}) /\ content[p].published
                           /\ ~validAsset(Ext[p], content[p]) => Told(o.found, p)
                        /\ asSource(p, {"script", "dependency"}) /\ Ext[p] = "font"
                           /\ content[p].head = "text" => Told(o.found, p)
      BY DEF Visits
    <3>1. o = all
      BY <1>1, <2>1 DEF stays
    <3>2. selected(p) => \A q : Told(source.found, q) => Told(o.found, q)
      BY <1>4, <2>2, <3>1 DEF selected
    <3>3. carriesSignature(p, content[p]) => signed(p)
      BY DEF signed
    <3>4. \A reads : asSource(p, reads) => selected(p) /\ AsSource(p, reads)
      BY DEF asSource, AsSource
    <3> QED
      BY <1>2, <3>2, <3>3, <3>4
  <2>4. ASSUME metInWalk(p), parsed(p)
        PROVE  p \in packageChecked \cup o.packaged
    <3>1. o = all
      BY <1>1, <2>1, <2>4 DEF parsed, readable
    <3>2. /\ ~pruned(DirOf[p]) /\ is("manifest", p) /\ ~is("startup", p) /\ ~is("toolchain", p)
      BY <2>4 DEF metInWalk
    <3> QED
      BY <1>2, <1>4, <2>2, <2>4, <3>1, <3>2
  <2> QED
    BY <1>6, <2>3, <2>4
<1> QED
  BY <1>7, <1>8 DEF sorted

LEMMA VisitKeeps ==
  ASSUME WorldInv, AgendaInv, EvidenceInv, NEW p \in Paths, VisitFile(p)
  PROVE  EvidenceInv'
<1> DEFINE o == IF p \in entries THEN visitProject(p) ELSE Nothing
           check == "file"
<1>1. Perform(check, p, o)
  BY DEF VisitFile
<1>2. sorted(DirOf[p]) /\ EarnedInv /\ DependencyInv
  BY <1>1, HeadLemma DEF Perform, EvidenceInv
<1> HIDE DEF o
<1>3. /\ Tells(o) /\ Visits(o, p)
      /\ metInWalk(p) /\ parsed(p) => p \in packageChecked \cup o.packaged
  BY <1>2, VisitTells DEF o
<1>4. Keeps(<<check, p>>, o) /\ check \notin {"list", "modules"}
  BY <1>3 DEF Keeps, Early
<1> HIDE DEF check
<1> QED
  BY <1>1, <1>3, <1>4, PerformKeeps

-----------------------------------------------------------------------------
(* Directories.                                                             *)

\* What lies above a directory's parent lies above it.
LEMMA ParentLemma ==
  ASSUME NEW d \in Dirs, ~top(d)
  PROVE  /\ parent(d) \in Dirs /\ 2 \in DOMAIN Up[d]
         /\ \A k \in DOMAIN Up[parent(d)] : k + 1 \in DOMAIN Up[d] /\ Up[parent(d)][k] = Up[d][k + 1]
         /\ \A k \in DOMAIN Up[d] : k # 1 => /\ k - 1 \in DOMAIN Up[parent(d)]
                                             /\ Up[parent(d)][k - 1] = Up[d][k]
         /\ DOMAIN Up[d] = 1..Len(Up[d]) /\ Len(Up[d]) \in Nat
<1>1. Up[d] \in Seq(Dirs) /\ Len(Up[d]) > 0
  BY ScopeAssumption
<1>2. Len(Up[d]) \in Nat /\ Len(Up[d]) > 1
  <2> DEFINE n == Len(Up[d])
  <2>1. n \in Nat
    BY <1>1
  <2>2. n > 0 /\ n # 1
    BY <1>1 DEF top
  <2> HIDE DEF n
  <2>3. n > 1
    BY <2>1, <2>2
  <2> QED
    BY <2>1, <2>3 DEF n
<1>3. Up[d][2] \in Dirs /\ Up[Up[d][2]] = Tail(Up[d])
  BY <1>1, <1>2, ScopeAssumption
<1> DEFINE u == Up[d]
<1>4. u \in Seq(Dirs) /\ Len(u) > 1
  BY <1>1, <1>2
<1> HIDE DEF u
<1>5. /\ \A k \in DOMAIN Tail(u) : k + 1 \in DOMAIN u /\ Tail(u)[k] = u[k + 1]
      /\ \A k \in DOMAIN u : k # 1 => k - 1 \in DOMAIN Tail(u) /\ Tail(u)[k - 1] = u[k]
      /\ 2 \in DOMAIN u /\ DOMAIN u = 1..Len(u) /\ Len(u) \in Nat
  BY <1>4
<1> QED
  BY <1>3, <1>5 DEF parent, u

\* A directory in a project is below one of it, or has itself what makes it so.
LEMMA ProjectLemma ==
  ASSUME NEW d \in Dirs, inProject(d)
  PROVE  \/ d \in Explicit
         \/ \E p \in Paths : DirOf[p] = d /\ isMarker(p) /\ steady(p) /\ content[p].there # "missing"
         \/ ~top(d) /\ inProject(parent(d)) /\ (parent(d) = Home => Home \in Explicit)
<1>1. PICK k \in DOMAIN Up[d] :
        /\ \/ Up[d][k] \in Explicit
           \/ \E p \in Paths : DirOf[p] = Up[d][k] /\ isMarker(p)
                             /\ steady(p) /\ content[p].there # "missing"
        /\ \A i \in 2..k : Up[d][i] = Home => Home \in Explicit
  BY DEF inProject
<1>2. Up[d] \in Seq(Dirs) /\ Up[d][1] = d
  BY ScopeAssumption
<1>3. CASE k = 1
  BY <1>1, <1>2, <1>3
<1>4. CASE k # 1
  <2>1. k \in 1..Len(Up[d]) /\ Len(Up[d]) \in Nat
    BY <1>1, <1>2
  <2>2. ~top(d)
    BY <1>4, <2>1 DEF top
  <2> DEFINE n == k - 1
             e == parent(d)
  <2>3. /\ n \in DOMAIN Up[e] /\ Up[e][n] = Up[d][k]
        /\ \A i \in DOMAIN Up[e] : i + 1 \in DOMAIN Up[d] /\ Up[e][i] = Up[d][i + 1]
        /\ e \in Dirs
    BY <1>1, <1>4, <2>2, ParentLemma
  <2>4. DOMAIN Up[e] = 1..Len(Up[e]) /\ Len(Up[e]) \in Nat
    BY <2>3, ScopeAssumption
  <2>5. \A i \in 2..n : Up[e][i] = Home => Home \in Explicit
    <3> SUFFICES ASSUME NEW i \in 2..n, Up[e][i] = Home
                 PROVE  Home \in Explicit
      OBVIOUS
    <3> DEFINE j == i + 1
    <3>1. i \in DOMAIN Up[e] /\ j \in 2..k
      BY <2>1, <2>3, <2>4
    <3>2. Up[d][j] = Home
      BY <2>3, <3>1
    <3> QED
      BY <1>1, <3>1, <3>2
  <2>6. inProject(e)
    BY <1>1, <2>3, <2>5 DEF inProject
  <2>7. 2 \in 2..k
    BY <1>4, <2>1
  <2>8. parent(d) = Home => Home \in Explicit
    BY <1>1, <2>7 DEF parent
  <2> QED
    BY <2>2, <2>6, <2>8
<1> QED
  BY <1>3, <1>4

\* What is true of a directory by what it lies in is true of those below it.
LEMMA BelowLemma ==
  ASSUME NEW d \in Dirs, ~top(d)
  PROVE  /\ \A kinds : inside(parent(d), kinds) => inside(d, kinds)
         /\ pruned(parent(d)) => pruned(d)
         /\ excused(parent(d)) => excused(d)
         /\ open(d) => ~excused(parent(d))
<1>1. \A k \in DOMAIN Up[parent(d)] : k + 1 \in DOMAIN Up[d] /\ Up[parent(d)][k] = Up[d][k + 1]
  BY ParentLemma
<1>2. \A kinds : inside(parent(d), kinds) => inside(d, kinds)
  BY <1>1 DEF inside
<1>3. pruned(parent(d)) => pruned(d)
  BY <1>2 DEF pruned
<1>4. excused(parent(d)) => excused(d)
  BY <1>1 DEF excused
<1>5. open(d) => ~excused(parent(d))
  BY <1>1 DEF open, excused
<1> QED
  BY <1>2, <1>3, <1>4, <1>5

\* A listing that fails is a gap; one that does not shows what is there, and
\* tells what the directory is.
LEMMA ListLemma ==
  ASSUME DependencyInv, NEW d \in Dirs, top(d) \/ sorted(parent(d)), List(d), NEW o, Conclude(o),
         o = finds(d, report("scan-incomplete", found(d) /\ d \in unlisted))
  PROVE  /\ sorted(d)' /\ DependencyInv'
         /\ entries \subseteq entries' /\ contentDirs \subseteq contentDirs'
<1>1. /\ findings' = findings \cup o.found /\ content' = content /\ changed' = changed
      /\ unlisted' = unlisted /\ deep' = deep
  BY DEF Conclude, world
<1>2. Up[d] \in Seq(Dirs) /\ Up[d][1] = d /\ 1 \in DOMAIN Up[d]
  BY ScopeAssumption
<1>3. entries \subseteq entries' /\ contentDirs \subseteq contentDirs'
  BY DEF List, classifyContentDir, scopeVars
<1>4. ASSUME NEW e \in Dirs \cap dependencyDirs'
      PROVE  ~ownSource(e)
  <2>1. CASE e \in dependencyDirs
    BY <2>1 DEF DependencyInv
  <2>2. CASE e \notin dependencyDirs
    <3>1. PICK got \in listings(d) : classifyContentDir(d, got)
      BY <1>4, <2>2 DEF List, scopeVars
    <3>2. e = d /\ isDependencyDir(d, got)
      BY <1>4, <2>2, <3>1 DEF classifyContentDir
    <3>3. CASE ~top(d) /\ parent(d) \in dependencyDirs
      <4>1. parent(d) \in Dirs
        BY <3>3, ParentLemma
      <4>2. ~ownSource(parent(d))
        BY <3>3, <4>1 DEF DependencyInv
      <4> QED
        BY <3>2, <3>3, <4>2, BelowLemma DEF ownSource
    <3>4. CASE DirKind[d] \cap {"packages", "bundle"} # {} \/ "vendor" \in DirKind[d]
      BY <1>2, <3>2, <3>4 DEF ownSource, inside
    <3> QED
      BY <3>2, <3>3, <3>4 DEF isDependencyDir
  <2> QED
    BY <2>1, <2>2
<1>5. DependencyInv'
  BY <1>4 DEF DependencyInv, ownSource
<1>6. \A e : excused(e) => excused(e)'
  BY ReportsGrow
<1>7. CASE ~found(d)
  <2>1. ~top(d) /\ d \notin entries
    BY <1>7 DEF found
  <2>2. excused(parent(d))
    BY <2>1 DEF sorted, listedWhole
  <2> QED
    BY <1>3, <1>5, <1>6, <2>1, <2>2, BelowLemma DEF sorted
<1>8. CASE found(d) /\ d \in unlisted
  <2> DEFINE words == report("scan-incomplete", found(d) /\ d \in unlisted)
  <2>1. "scan-incomplete" \in words
    BY <1>8 DEF report
  <2> HIDE DEF words
  <2>2. PICK F : finds(d, words) = outcome(F, {}) /\ \A k \in words : <<k, d>> \in F
    BY FindsShape
  <2>3. gap(d) \in o.found
    BY <2>1, <2>2 DEF words, outcome, gap
  <2>4. hasGap(d)'
    BY <1>1, <2>3 DEF hasGap
  <2>5. excused(d)'
    BY <1>1, <1>2, <1>8, <2>4 DEF excused
  <2> QED
    BY <1>3, <1>5, <2>5 DEF sorted
<1>9. CASE found(d) /\ d \notin unlisted
  <2> DEFINE got == children(d)
  <2>1. /\ entries' = entries \cup got
        /\ ~pruned(d) => contentDirs' = contentDirs \cup (IF isContentDir(d, got) THEN {d} ELSE {})
    BY <1>9 DEF List, listings, classifyContentDir
  <2>2. \A p \in Paths : DirOf[p] = d /\ content[p].there # "missing" => p \in got
    BY DEF children
  <2>3. \A e \in Dirs : ~top(e) /\ parent(e) = d => e \in got
    BY DEF children
  <2> HIDE DEF got
  <2>4. found(d)'
    BY <1>3, <1>9 DEF found
  <2>5. ASSUME ~excused(d), ~pruned(d), inProject(d)
        PROVE  d \in contentDirs'
    <3>1. \/ d \in Explicit
          \/ \E p \in Paths : DirOf[p] = d /\ isMarker(p) /\ steady(p) /\ content[p].there # "missing"
          \/ ~top(d) /\ inProject(parent(d)) /\ (parent(d) = Home => Home \in Explicit)
      BY <2>5, ProjectLemma
    <3>2. ASSUME ~top(d), inProject(parent(d))
          PROVE  parent(d) \in contentDirs
      <4>1. ~excused(parent(d)) /\ ~pruned(parent(d))
        BY <2>5, <3>2, BelowLemma
      <4> QED
        BY <3>2, <4>1 DEF sorted, listedWhole
    <3>3. isContentDir(d, got)
      BY <2>2, <3>1, <3>2 DEF isContentDir
    <3> QED
      BY <2>1, <2>5, <3>3
  <2>6. ASSUME ~excused(d)
        PROVE  listedWhole(d)'
    <3>1. \A p \in Paths : DirOf[p] = d /\ steady(p)' /\ content'[p].there # "missing" => p \in entries'
      BY <1>1, <2>1, <2>2
    <3>2. \A e \in Dirs : ~top(e) /\ parent(e) = d => e \in entries'
      BY <2>1, <2>3
    <3>3. (pruned(d) <=> pruned(d)') /\ (inProject(d) <=> inProject(d)')
      BY FilesKeep
    <3> QED
      BY <1>1, <1>9, <2>4, <2>5, <2>6, <3>1, <3>2, <3>3 DEF listedWhole
  <2>7. sorted(d)'
    BY <1>6, <2>6 DEF sorted
  <2> QED
    BY <1>3, <1>5, <2>7
<1> QED
  BY <1>7, <1>8, <1>9

LEMMA ListKeeps ==
  ASSUME AgendaInv, EvidenceInv, NEW d \in Dirs, ListDirectory(d)
  PROVE  EvidenceInv'
<1> DEFINE checks == report("scan-incomplete", found(d) /\ d \in unlisted)
           o == finds(d, checks)
           t == <<"list", d>>
           s == <<>>
<1>1. /\ agenda # <<>> /\ Head(agenda) = t /\ agenda' = Tail(agenda)
      /\ Conclude(o) /\ List(d)
  BY DEF ListDirectory
<1>2. (top(d) \/ sorted(parent(d))) /\ DependencyInv
  <2>1. "list" \in {"list", "modules"} /\ Head(agenda) = <<"list", d>>
    BY <1>1
  <2> QED
    BY <1>1, <2>1, HeadLemma DEF EvidenceInv
<1>3. Tells(o)
  BY FindsTells
<1> HIDE DEF o
<1>4. /\ sorted(d)' /\ DependencyInv'
      /\ entries \subseteq entries' /\ contentDirs \subseteq contentDirs'
  BY <1>1, <1>2, ListLemma DEF o
<1>5. \A e : sorted(e) => sorted(e)'
  BY <1>1, <1>4, SortedStays
<1>6. Keeps(t, o)
  BY DEF Keeps, Early
<1>7. /\ s \in Seq({"package", "dist", "pth"} \X Paths) /\ s = <<>>
      /\ \A u \in Seq(Tasks) : s \o u = u
  OBVIOUS
<1>8. Tail(agenda) \in Seq(Tasks)
  BY <1>1 DEF AgendaInv, Orderly
<1>9. agenda' = s \o Tail(agenda)
  BY <1>1, <1>7, <1>8
<1>10. t[1] # "modules" /\ (t[1] = "list" => sorted(t[2])')
  <2>1. t[1] = "list" /\ t[2] = d
    OBVIOUS
  <2> QED
    BY <1>4, <2>1
<1> HIDE DEF s, t
<1> QED
  BY <1>1, <1>3, <1>4, <1>5, <1>6, <1>7, <1>9, <1>10, StepLemma

LEMMA ConfigKeeps ==
  ASSUME AgendaInv, EvidenceInv, NEW d \in Dirs, CheckConfigDir(d)
  PROVE  EvidenceInv'
<1> DEFINE name == "project-artifact"
           o == IF visited(d) THEN presentAny(Phantoms[d], name) ELSE Nothing
           check == "config"
<1>1. Perform(check, d, o)
  BY DEF CheckConfigDir, Perform
<1> HIDE DEF name
<1>2. Tells(o)
  BY PresentTells, NothingTells
<1> HIDE DEF o
<1>3. Keeps(<<check, d>>, o) /\ check \notin {"list", "modules"}
  BY DEF Keeps, Early
<1> HIDE DEF check
<1> QED
  BY <1>1, <1>2, <1>3, PerformKeeps

\* A directory of packages that was found puts them all on the agenda.
LEMMA EnterKeeps ==
  ASSUME AgendaInv, EvidenceInv, NEW check \in {"modules", "site"}, NEW d \in Dirs, NEW met, NEW o,
         Enter(check, d, met, o), Tells(o), check = "modules" /\ entered(d) => met /\ d \notin unlisted
  PROVE  EvidenceInv'
<1> DEFINE s == IF met /\ d \notin unlisted THEN Packages[d] ELSE <<>>
           all == IF ~met THEN Nothing
                  ELSE together({o, finds(d, report("scan-incomplete", d \in unlisted))})
           t == <<check, d>>
<1>1. /\ agenda # <<>> /\ Head(agenda) = t /\ agenda' = s \o Tail(agenda) /\ Conclude(all)
      /\ entries' = entries /\ contentDirs' = contentDirs /\ dependencyDirs' = dependencyDirs
  BY DEF Enter, scopeVars
<1>2. Tells(all)
  <2> DEFINE checks == report("scan-incomplete", d \in unlisted)
  <2> HIDE DEF checks
  <2>1. Tells(together({o, finds(d, checks)}))
    BY FindsTells, PairTells
  <2> QED
    BY <2>1, NothingTells DEF checks
<1> HIDE DEF all
<1>3. s \in Seq({"package", "dist", "pth"} \X Paths)
  <2> DEFINE S == ({"package"} \X Parsed) \cup ({"dist", "pth"} \X Paths)
  <2>1. Packages[d] \in Seq(S)
    BY TargetsAssumption DEF Parsed
  <2>2. S \subseteq {"package", "dist", "pth"} \X Paths
    BY DEF Parsed
  <2>3. Packages[d] \in Seq({"package", "dist", "pth"} \X Paths)
    BY <2>1, <2>2
  <2>4. <<>> \in Seq({"package", "dist", "pth"} \X Paths)
    OBVIOUS
  <2> QED
    BY <2>3, <2>4
<1>4. \A e : sorted(e) => sorted(e)'
  BY <1>1, SortedStays
<1>5. DependencyInv'
  BY <1>1 DEF EvidenceInv, DependencyInv, ownSource
<1>6. Keeps(t, all) /\ t[1] \notin Early /\ t[1] # "list"
  BY DEF Keeps, Early
<1>7. t[1] = "modules" /\ entered(t[2]) => s = Packages[t[2]]
  <2>1. t[1] = check /\ t[2] = d
    OBVIOUS
  <2> QED
    BY <2>1
<1> HIDE DEF s, t
<1> QED
  BY <1>1, <1>2, <1>3, <1>4, <1>5, <1>6, <1>7, StepLemma

LEMMA PackageDirectoriesKeep ==
  ASSUME AgendaInv, EvidenceInv, NEW d \in Dirs, CheckNodeModulesDir(d) \/ CheckSitePackagesDir(d)
  PROVE  EvidenceInv'
<1>1. CASE CheckNodeModulesDir(d)
  <2> DEFINE name == "phantom-dependency"
             o == presentAny(Phantoms[d], name)
             check == "modules"
             met == visited(d)
  <2>1. Enter(check, d, met, o)
    BY <1>1 DEF CheckNodeModulesDir
  <2> HIDE DEF name
  <2>2. Tells(o)
    BY PresentTells
  <2>3. top(d) \/ sorted(parent(d))
    BY <2>1, HeadLemma DEF Enter
  <2>4. entered(d) => met /\ d \notin unlisted
    <3> SUFFICES ASSUME entered(d)
                 PROVE  met /\ d \notin unlisted
      OBVIOUS
    <3>1. open(d) /\ (top(d) \/ ~pruned(parent(d)))
      BY DEF entered
    <3>2. d \notin unlisted
      <4>1. Up[d] \in Seq(Dirs) /\ Up[d][1] = d /\ 1 \in DOMAIN Up[d]
        BY ScopeAssumption
      <4> QED
        BY <3>1, <4>1 DEF open
    <3>3. found(d)
      <4>1. CASE top(d)
        BY <4>1 DEF found
      <4>2. CASE ~top(d)
        <5>1. listedWhole(parent(d))
          BY <2>3, <3>1, <4>2, BelowLemma DEF sorted
        <5> QED
          BY <4>2, <5>1 DEF listedWhole, found
      <4> QED
        BY <4>1, <4>2
    <3> QED
      BY <3>1, <3>2, <3>3 DEF visited
  <2>5. check \in {"modules", "site"}
    OBVIOUS
  <2> HIDE DEF o, check, met
  <2> QED
    BY <2>1, <2>2, <2>4, <2>5, EnterKeeps
<1>2. CASE CheckSitePackagesDir(d)
  <2> DEFINE o == Nothing
             check == "site"
             met == pathInScope(d) /\ found(d)
  <2>1. Enter(check, d, met, o)
    BY <1>2 DEF CheckSitePackagesDir
  <2>2. Tells(o)
    BY NothingTells
  <2>3. check \in {"modules", "site"} /\ check # "modules"
    OBVIOUS
  <2> HIDE DEF o, check, met
  <2> QED
    BY <2>1, <2>2, <2>3, EnterKeeps
<1> QED
  BY <1>1, <1>2

LEMMA TargetedKeeps ==
  ASSUME WorldInv, AgendaInv, EvidenceInv, TargetedNext
  PROVE  EvidenceInv'
<1>1. PICK p : (p \in Paths /\ Check(p)) \/ (p \in Dirs /\ CheckDir(p))
  BY DEF TargetedNext
<1>2. CASE p \in Paths /\ Check(p)
  BY <1>2, PresenceKeeps, NpmKeeps, ApplicationKeeps, SystemKeeps, ToolchainKeeps, LoginKeeps,
     ServiceKeeps, VisitKeeps, PackageKeeps, ComposerKeeps, PthKeeps, DistInfoKeeps DEF Check
<1>3. CASE p \in Dirs /\ CheckDir(p)
  BY <1>3, ListKeeps, ConfigKeeps, PackageDirectoriesKeep DEF CheckDir
<1> QED
  BY <1>1, <1>2, <1>3

-----------------------------------------------------------------------------
(* Processes, other people's files, and the beginning.                      *)

\* What is said of the machine when all checks of files are done.
LEMMA SpeechKeeps ==
  ASSUME EvidenceInv, agenda = <<>>, agenda' = agenda, UNCHANGED scopeVars, NEW o, Conclude(o),
         o.persisted = {}, o.scripted = {}, o.packaged = {}
  PROVE  EvidenceInv'
<1>1. Tells(o)
  BY UnmarkedTells
<1>2. EarnedInv' /\ NamedInv'
  BY <1>1, EarnedStays DEF EvidenceInv
<1>3. DependencyInv'
  BY DEF EvidenceInv, DependencyInv, ownSource, scopeVars
<1>4. DOMAIN agenda' = {} /\ (\A t : ~due(t)) /\ \A t : ~(due(t)')
  BY DEF due, ToSet
<1>5. OrderInv' /\ EarlyInv'
  BY <1>4 DEF OrderInv, EarlyInv
<1>6. FixedInv'
  BY <1>4, PromisesStay DEF EvidenceInv, FixedInv
<1>7. VisitInv'
  BY <1>4, PromisesStay DEF EvidenceInv, VisitInv, walkedFiles, walked
<1>8. ManifestInv'
  <2>1. packageChecked \subseteq packageChecked'
    BY DEF Conclude
  <2>2. \A m : (parsed(m) <=> parsed(m)') /\ (metInWalk(m) <=> metInWalk(m)')
    BY FilesKeep
  <2>3. \A d, m : metIn(d, m) <=> metIn(d, m)'
    BY FilesKeep DEF metIn
  <2> QED
    BY <1>4, <2>1, <2>2, <2>3 DEF EvidenceInv, ManifestInv
<1> QED
  BY <1>2, <1>3, <1>5, <1>6, <1>7, <1>8 DEF EvidenceInv

LEMMA ProcessesKeep ==
  ASSUME EvidenceInv, RunProcesses
  PROVE  EvidenceInv'
<1>1. agenda = <<>> /\ agenda' = agenda /\ UNCHANGED scopeVars /\ ProcessNext
  BY DEF RunProcesses
<1> DEFINE Unmarked(o) == o.persisted = {} /\ o.scripted = {} /\ o.packaged = {}
<1>2. ASSUME NEW p, NEW checks
      PROVE  Unmarked(finds(p, checks))
  BY FindsShape DEF outcome
<1>3. ASSUME NEW a, NEW b, Unmarked(a), Unmarked(b)
      PROVE  Unmarked(together({a, b})) /\ Unmarked(together({a}))
  BY <1>3 DEF together
<1>4. \E o : Conclude(o) /\ Unmarked(o)
  <2>1. CASE CollectionFails \/ CollectProcesses
    <3>1. PICK F : Conclude([Nothing EXCEPT !.found = F])
      BY <2>1 DEF CollectionFails, CollectProcesses
    <3>2. Unmarked([Nothing EXCEPT !.found = F])
      BY DEF Nothing
    <3> QED
      BY <3>1, <3>2
  <2>2. ASSUME NEW q \in Procs, InspectProcess(q)
        PROVE  \E o : Conclude(o) /\ Unmarked(o)
    <3> DEFINE words == report("running-payload-process", reasons(q))
               script == Command[q].script
               checks == {}
               optional == TRUE
               how == "process"
               said == finds(q, words)
               read == processFile(how, script, checks, optional)
               O == {said} \cup IF nodeScript(q) /\ Command[q].located THEN {read} ELSE {}
    <3>1. Conclude(together(O))
      BY <2>2 DEF InspectProcess
    <3> HIDE DEF words, script, checks, optional, how
    <3>2. PICK f, r : read = outcome(f, r)
      BY ProcessFileShape
    <3>3. Unmarked(read) /\ Unmarked(said)
      BY <1>2, <3>2 DEF outcome
    <3> HIDE DEF said, read
    <3>4. O = {said} \/ O = {said, read}
      OBVIOUS
    <3> HIDE DEF O, Unmarked
    <3>5. Unmarked(together(O))
      BY <1>3, <3>3, <3>4
    <3> QED
      BY <3>1, <3>5
  <2>3. CASE FinishProcesses
    <3> DEFINE restrictions == report("scan-limited", restricted # {})
               scripts == report("scan-limited", unresolved # {})
               p == "restricted"
               u == "unresolved"
               a == finds(p, restrictions)
               b == finds(u, scripts)
    <3>1. Conclude(together({a, b}))
      BY <2>3 DEF FinishProcesses
    <3> HIDE DEF restrictions, scripts, p, u
    <3>2. Unmarked(a) /\ Unmarked(b)
      BY <1>2
    <3> HIDE DEF a, b, Unmarked
    <3>3. Unmarked(together({a, b}))
      BY <1>3, <3>2
    <3> QED
      BY <3>1, <3>3
  <2> QED
    BY <1>1, <2>1, <2>2, <2>3 DEF ProcessNext
<1>5. PICK o : Conclude(o) /\ Unmarked(o)
  BY <1>4
<1> QED
  BY <1>1, <1>5, SpeechKeeps

\* A file that changes is promised nothing any more, and what is not steady
\* any more makes a project of nothing.
LEMMA FrameLemma ==
  ASSUME EvidenceInv,
         UNCHANGED <<only, deep, unlisted, findings, inspected, marks, scopeVars, agenda>>,
         \A q \in Paths : q \notin changed' => q \notin changed /\ content'[q] = content[q]
  PROVE  EvidenceInv'
<1>1. /\ only' = only /\ deep' = deep /\ unlisted' = unlisted /\ findings' = findings
      /\ inspected' = inspected /\ agenda' = agenda
      /\ persistenceChecked' = persistenceChecked /\ scriptChecked' = scriptChecked
      /\ packageChecked' = packageChecked
      /\ entries' = entries /\ contentDirs' = contentDirs /\ dependencyDirs' = dependencyDirs
  BY DEF marks, scopeVars
<1>2. \A q \in Paths : steady(q)' => steady(q) /\ content'[q] = content[q]
  BY DEF steady
<1>3. \A q \in Paths : stays(q)' => stays(q) /\ content'[q] = content[q]
  BY <1>2 DEF stays
<1>4. /\ \A q \in Paths : signed(q)' => signed(q)
      /\ \A q \in Paths : parsed(q)' => parsed(q)
      /\ \A q \in Paths : stays(q)' => (headOnly(q) <=> headOnly(q)')
  BY <1>2, <1>3 DEF signed, carriesSignature, parsed, readable, headOnly, nativeExecutable, payloadCandidate
<1>5. /\ \A p : reported(p)' <=> reported(p)
      /\ \A d : /\ (pathInScope(d) <=> pathInScope(d)') /\ (pruned(d) <=> pruned(d)')
                /\ (excused(d) <=> excused(d)') /\ (open(d) <=> open(d)') /\ (found(d) <=> found(d)')
      /\ \A m : names(m)' = names(m)
  BY <1>1 DEF reported, hasGap, pathInScope, pruned, excused, open, found, names
<1>6. \A d : inProject(d)' => inProject(d)
  BY <1>2 DEF inProject
<1>7. \A d : sorted(d) => sorted(d)'
  <2>1. \A d : listedWhole(d) => listedWhole(d)'
    BY <1>1, <1>2, <1>5, <1>6 DEF listedWhole
  <2> QED
    BY <1>5, <2>1 DEF sorted
<1>8. \A q \in Paths : stays(q)' /\ selected(q)' => selected(q)
  BY <1>1, <1>3, <1>5, <1>6 DEF selected, hashSizeCandidate
<1>9. \A q \in Paths : \A reads : stays(q)' /\ asSource(q, reads)' => asSource(q, reads)
  BY <1>1, <1>8 DEF asSource
<1>10. /\ \A m : metInWalk(m) <=> metInWalk(m)'
       /\ \A d, m : metIn(d, m) <=> metIn(d, m)'
       /\ \A t : due(t) <=> due(t)'
  BY <1>1, <1>5 DEF metInWalk, metIn, entered, due, scopeFails
<1>11. /\ \A p \in Paths : attended(p) => attended(p)'
       /\ \A p \in Paths : persisted(p) => persisted(p)'
  BY <1>1, <1>3, <1>4, <1>5 DEF attended, persisted
<1>12. ASSUME NEW p \in Paths, visitedWell(p), stays(p)'
       PROVE  /\ selected(p)' /\ carriesSignature(p, content[p])' => reported(p)'
              /\ asSource(p, {"script"})' /\ content'[p].published
                 /\ ~validAsset(Ext[p], content'[p]) => reported(p)'
              /\ asSource(p, {"script", "dependency"})' /\ Ext[p] = "font" /\ content'[p].head = "text"
                 => reported(p)'
  <2>1. stays(p) /\ content'[p] = content[p] /\ (headOnly(p) <=> headOnly(p)')
    BY <1>3, <1>4, <1>12
  <2>2. carriesSignature(p, content[p])' => carriesSignature(p, content[p])
    BY <2>1 DEF carriesSignature
  <2> QED
    BY <1>5, <1>8, <1>9, <1>12, <2>1, <2>2 DEF visitedWell
<1>13. \A p \in Paths : visitedWell(p) => visitedWell(p)'
  BY <1>12 DEF visitedWell
<1>14. EarnedInv' /\ NamedInv' /\ DependencyInv'
  <2>1. EarnedInv'
    BY <1>1, <1>3, <1>4, <1>5 DEF EvidenceInv, EarnedInv
  <2>2. NamedInv'
    BY <1>1, <1>4, <1>5 DEF EvidenceInv, NamedInv
  <2> QED
    BY <1>1, <2>1, <2>2 DEF EvidenceInv, DependencyInv, ownSource
<1>15. OrderInv' /\ EarlyInv'
  <2>1. OrderInv'
    <3> DEFINE Before(k, d) == sorted(d) \/ \E j \in 1..(k - 1) : agenda[j] = <<"list", d>>
               After(k, d) == sorted(d)' \/ \E j \in 1..(k - 1) : agenda[j] = <<"list", d>>
    <3>1. agenda' = agenda
      BY <1>1
    <3> SUFFICES ASSUME NEW k \in DOMAIN agenda, NEW x \in {agenda[k]}
                 PROVE  /\ x[1] = "file" => x[2] \in Paths /\ After(k, DirOf[x[2]])
                        /\ x[1] \in {"list", "modules"} =>
                             x[2] \in Dirs /\ (top(x[2]) \/ After(k, parent(x[2])))
      BY <3>1 DEF OrderInv
    <3>2. /\ x[1] = "file" => x[2] \in Paths /\ Before(k, DirOf[x[2]])
          /\ x[1] \in {"list", "modules"} =>
               x[2] \in Dirs /\ (top(x[2]) \/ Before(k, parent(x[2])))
      BY DEF EvidenceInv, OrderInv
    <3>3. \A d : Before(k, d) => After(k, d)
      BY <1>7
    <3> HIDE DEF Before, After
    <3> QED
      BY <3>2, <3>3
  <2>2. EarlyInv'
    BY <1>1 DEF EvidenceInv, EarlyInv
  <2> QED
    BY <2>1, <2>2
<1>16. FixedInv'
  <2>1. fixed \subseteq Paths
    <3>1. /\ {NpmCLIs, Applications, Toolchains} \subseteq Seq(Paths)
          /\ LoginFiles \in Seq(Parsed) /\ ServiceFiles \in Seq(Parsed)
      BY TargetsAssumption DEF Parsed
    <3>2. Parsed \subseteq Paths
      BY DEF Parsed
    <3>3. LoginFiles \in Seq(Paths) /\ ServiceFiles \in Seq(Paths)
      BY <3>1, <3>2
    <3>4. \A q \in Seq(Paths) : ToSet(q) \subseteq Paths
      BY DEF ToSet
    <3> QED
      BY <3>1, <3>3, <3>4 DEF fixed, persistent
  <2>2. /\ ToSet(NpmCLIs) \subseteq Paths /\ ToSet(Applications) \subseteq Paths
        /\ ToSet(Toolchains) \subseteq Paths /\ ToSet(LoginFiles) \subseteq Paths
        /\ ToSet(ServiceFiles) \subseteq Paths
    BY <2>1 DEF fixed, persistent
  <2> QED
    BY <1>10, <1>11, <2>2 DEF EvidenceInv, FixedInv
<1>17. VisitInv'
  BY <1>10, <1>13 DEF EvidenceInv, VisitInv, walkedFiles, walked
<1>18. ManifestInv'
  BY <1>1, <1>4, <1>10 DEF EvidenceInv, ManifestInv
<1> QED
  BY <1>14, <1>15, <1>16, <1>17, <1>18 DEF EvidenceInv

LEMMA WorldKeeps ==
  ASSUME WorldInv, EvidenceInv, World
  PROVE  EvidenceInv'
<1>1. PICK p \in Changing : Change(p)
  BY DEF World
<1>2. /\ p \in Paths /\ changed' = changed \cup {p}
      /\ UNCHANGED <<only, deep, unlisted, findings, inspected, marks, scopeVars, agenda>>
  BY <1>1, FilesAssumption DEF World, Change, reports
<1>3. \A q \in Paths \ {p} : content'[q] = content[q]
  BY <1>1 DEF Change, WorldInv
<1>4. \A q \in Paths : q \notin changed' => q \notin changed /\ content'[q] = content[q]
  BY <1>2, <1>3
<1> QED
  BY <1>2, <1>4, FrameLemma

\* The elements of a concatenation, and where they are.
LEMMA JoinLemma ==
  ASSUME NEW S, NEW s \in Seq(S), NEW t \in Seq(S)
  PROVE  LET u == s \o t IN
         /\ u \in Seq(S) /\ Len(s) \in Nat
         /\ DOMAIN s = 1..Len(s) /\ DOMAIN t = 1..Len(t) /\ DOMAIN u = 1..Len(u)
         /\ \A k \in DOMAIN s : k \in DOMAIN u /\ u[k] = s[k]
         /\ \A i \in DOMAIN t : Len(s) + i \in DOMAIN u /\ u[Len(s) + i] = t[i]
         /\ \A k \in DOMAIN u : \/ k \in DOMAIN s /\ u[k] = s[k]
                                \/ \E i \in DOMAIN t : k = Len(s) + i /\ u[k] = t[i]
         /\ ToSet(u) = ToSet(s) \cup ToSet(t)
<1> DEFINE u == s \o t
<1>1. s \in Seq(S) /\ t \in Seq(S)
  OBVIOUS
<1>2. /\ s \o t \in Seq(S) /\ Len(s) \in Nat /\ Len(t) \in Nat
      /\ Len(s \o t) = Len(s) + Len(t)
      /\ \A k \in 1..Len(s \o t) :
           \/ k \in 1..Len(s) /\ (s \o t)[k] = s[k]
           \/ \E i \in 1..Len(t) : k = Len(s) + i /\ (s \o t)[k] = t[i]
  BY <1>1, ConcatLemma
<1>8. u = s \o t
  OBVIOUS
<1> HIDE DEF u
<1>3. DOMAIN s = 1..Len(s) /\ DOMAIN t = 1..Len(t) /\ DOMAIN u = 1..Len(u)
  BY <1>1, <1>2, <1>8
<1>4. \A k \in DOMAIN s : k \in DOMAIN u /\ u[k] = s[k]
  BY <1>1, <1>2, <1>3, <1>8
<1>5. \A i \in DOMAIN t : Len(s) + i \in DOMAIN u /\ u[Len(s) + i] = t[i]
  BY <1>1, <1>2, <1>3, <1>8
<1>6. \A k \in DOMAIN u : \/ k \in DOMAIN s /\ u[k] = s[k]
                          \/ \E i \in DOMAIN t : k = Len(s) + i /\ u[k] = t[i]
  BY <1>2, <1>3, <1>8
<1>7. ToSet(u) = ToSet(s) \cup ToSet(t)
  <2>1. \A x \in ToSet(u) : x \in ToSet(s) \cup ToSet(t)
    BY <1>6 DEF ToSet
  <2>2. \A x \in ToSet(s) \cup ToSet(t) : x \in ToSet(u)
    BY <1>4, <1>5 DEF ToSet
  <2> QED
    BY <2>1, <2>2
<1> QED
  BY <1>2, <1>3, <1>4, <1>5, <1>6, <1>7 DEF u

\* The tasks of one check are those of its paths.
LEMMA TaskSet ==
  ASSUME NEW check, NEW paths \in Seq(Paths)
  PROVE  /\ tasks(check, paths) \in Seq({check} \X Paths)
         /\ ToSet(tasks(check, paths)) = {<<check, p>> : p \in ToSet(paths)}
<1> DEFINE t == tasks(check, paths)
<1>1. /\ t \in Seq({check} \X Paths) /\ Len(t) = Len(paths)
      /\ \A k \in 1..Len(paths) : t[k] = <<check, paths[k]>>
  BY TasksLemma
<1> HIDE DEF t
<1>2. DOMAIN t = 1..Len(paths) /\ DOMAIN paths = 1..Len(paths)
  BY <1>1
<1>3. ToSet(t) = {<<check, p>> : p \in ToSet(paths)}
  BY <1>1, <1>2 DEF ToSet
<1> QED
  BY <1>1, <1>3 DEF t

\* At the beginning every promise is on the agenda, in the right order.
LEMMA OpeningKeeps ==
  ASSUME agenda \in Agendas, inspected = {}
  PROVE  OrderInv /\ EarlyInv /\ FixedInv /\ VisitInv /\ ManifestInv
<1>1. PICK walk \in Walks :
        agenda = tasks("artifact", Artifacts) \o tasks("npm", NpmCLIs)
                   \o tasks("application", Applications) \o tasks("system", System)
                   \o tasks("staging", Staging) \o tasks("toolchain", Toolchains)
                   \o tasks("login", LoginFiles) \o tasks("service", ServiceFiles)
                   \o walk \o SitePackages
  BY DEF Agendas
<1> DEFINE T == {"artifact", "npm", "application", "system", "staging", "toolchain", "login",
                 "service", "list", "config", "modules", "file", "vendor", "site"}
                \X (Paths \cup Dirs)
           a == tasks("artifact", Artifacts)
           n == tasks("npm", NpmCLIs)
           t1 == tasks("application", Applications)
           t2 == tasks("system", System)
           t3 == tasks("staging", Staging)
           t4 == tasks("toolchain", Toolchains)
           t5 == tasks("login", LoginFiles)
           t6 == tasks("service", ServiceFiles)
<1>2. /\ Artifacts \in Seq(Paths) /\ NpmCLIs \in Seq(Paths) /\ Applications \in Seq(Paths)
      /\ System \in Seq(Paths) /\ Staging \in Seq(Paths) /\ Toolchains \in Seq(Paths)
      /\ LoginFiles \in Seq(Paths) /\ ServiceFiles \in Seq(Paths)
  <2>1. /\ {NpmCLIs, Applications, System, Toolchains} \subseteq Seq(Paths)
        /\ {Artifacts, Staging} \subseteq Seq(Absent)
        /\ {LoginFiles, ServiceFiles} \subseteq Seq(Parsed)
    BY TargetsAssumption DEF Absent, Parsed
  <2>2. Absent \subseteq Paths /\ Parsed \subseteq Paths
    BY DEF Absent, Parsed
  <2> QED
    BY <2>1, <2>2
<1>3. ASSUME NEW check \in {"artifact", "npm", "application", "system", "staging", "toolchain",
                            "login", "service"}, NEW paths \in Seq(Paths)
      PROVE  /\ tasks(check, paths) \in Seq(T)
             /\ ToSet(tasks(check, paths)) = {<<check, p>> : p \in ToSet(paths)}
  <2>1. {check} \X Paths \subseteq T
    OBVIOUS
  <2> HIDE DEF T
  <2>2. /\ tasks(check, paths) \in Seq({check} \X Paths)
        /\ ToSet(tasks(check, paths)) = {<<check, p>> : p \in ToSet(paths)}
    BY TaskSet
  <2> QED
    BY <2>1, <2>2
<1>4. walk \in Seq(T) /\ SitePackages \in Seq(T)
  <2> DEFINE M == ({"list", "config", "modules", "file"} \X Scope)
                  \cup ({"vendor"} \X (Parsed \cap Scope))
  <2>1. walk \in Seq(M) /\ SitePackages \in Seq({"site"} \X Dirs)
    BY TargetsAssumption DEF Parsed
  <2>2. M \subseteq T /\ {"site"} \X Dirs \subseteq T
    BY FilesAssumption DEF Parsed
  <2> QED
    BY <2>1, <2>2
<1>5. /\ a \in Seq(T) /\ n \in Seq(T) /\ t1 \in Seq(T) /\ t2 \in Seq(T) /\ t3 \in Seq(T)
      /\ t4 \in Seq(T) /\ t5 \in Seq(T) /\ t6 \in Seq(T)
      /\ ToSet(a) = {<<"artifact", p>> : p \in ToSet(Artifacts)}
      /\ ToSet(n) = {<<"npm", p>> : p \in ToSet(NpmCLIs)}
      /\ ToSet(t1) = {<<"application", p>> : p \in ToSet(Applications)}
      /\ ToSet(t2) = {<<"system", p>> : p \in ToSet(System)}
      /\ ToSet(t3) = {<<"staging", p>> : p \in ToSet(Staging)}
      /\ ToSet(t4) = {<<"toolchain", p>> : p \in ToSet(Toolchains)}
      /\ ToSet(t5) = {<<"login", p>> : p \in ToSet(LoginFiles)}
      /\ ToSet(t6) = {<<"service", p>> : p \in ToSet(ServiceFiles)}
  <2> HIDE DEF T
  <2> QED
    BY <1>2, <1>3
<1>6. agenda = a \o n \o t1 \o t2 \o t3 \o t4 \o t5 \o t6 \o walk \o SitePackages
  BY <1>1
<1>7. ToSet(SitePackages) \subseteq {"site"} \X Dirs
  BY TargetsAssumption DEF ToSet
<1>8. \A x \in ToSet(walk) : x[1] \in {"list", "config", "modules", "file", "vendor"}
  <2> DEFINE M == ({"list", "config", "modules", "file"} \X Scope)
                  \cup ({"vendor"} \X (Parsed \cap Scope))
  <2>1. walk \in Seq(M)
    BY TargetsAssumption DEF Parsed
  <2>2. \A x \in M : x[1] \in {"list", "config", "modules", "file", "vendor"}
    OBVIOUS
  <2> HIDE DEF M
  <2>3. \A i \in DOMAIN walk : walk[i] \in M
    BY <2>1
  <2> QED
    BY <2>2, <2>3 DEF ToSet
<1> HIDE DEF a, n, t1, t2, t3, t4, t5, t6, T
<1> DEFINE e1 == a \o n
           e2 == e1 \o t1
           e3 == e2 \o t2
           e4 == e3 \o t3
           e == e4 \o t4
           h == e \o t5
           f == h \o t6
           g == f \o walk
<1>9. /\ e1 = a \o n /\ e2 = e1 \o t1 /\ e3 = e2 \o t2 /\ e4 = e3 \o t3 /\ e = e4 \o t4
      /\ h = e \o t5 /\ f = h \o t6 /\ g = f \o walk
  OBVIOUS
<1>10. agenda = g \o SitePackages
  BY <1>6
<1> HIDE DEF e1, e2, e3, e4, e, h, f, g
<1>11. /\ e \in Seq(T)
       /\ ToSet(e) = ToSet(a) \cup ToSet(n) \cup ToSet(t1) \cup ToSet(t2) \cup ToSet(t3) \cup ToSet(t4)
  <2>0. /\ a \in Seq(T) /\ n \in Seq(T) /\ t1 \in Seq(T) /\ t2 \in Seq(T) /\ t3 \in Seq(T)
        /\ t4 \in Seq(T)
    BY <1>5
  <2>1. e1 \in Seq(T) /\ ToSet(e1) = ToSet(a) \cup ToSet(n)
    <3>1. a \in Seq(T) /\ n \in Seq(T) /\ e1 = a \o n
      BY <1>9, <2>0
    <3> QED
      BY <3>1, JoinLemma
  <2>2. e2 \in Seq(T) /\ ToSet(e2) = ToSet(e1) \cup ToSet(t1)
    <3>1. e1 \in Seq(T) /\ t1 \in Seq(T) /\ e2 = e1 \o t1
      BY <1>9, <2>0, <2>1
    <3> QED
      BY <3>1, JoinLemma
  <2>3. e3 \in Seq(T) /\ ToSet(e3) = ToSet(e2) \cup ToSet(t2)
    <3>1. e2 \in Seq(T) /\ t2 \in Seq(T) /\ e3 = e2 \o t2
      BY <1>9, <2>0, <2>2
    <3> QED
      BY <3>1, JoinLemma
  <2>4. e4 \in Seq(T) /\ ToSet(e4) = ToSet(e3) \cup ToSet(t3)
    <3>1. e3 \in Seq(T) /\ t3 \in Seq(T) /\ e4 = e3 \o t3
      BY <1>9, <2>0, <2>3
    <3> QED
      BY <3>1, JoinLemma
  <2>5. e \in Seq(T) /\ ToSet(e) = ToSet(e4) \cup ToSet(t4)
    <3>1. e4 \in Seq(T) /\ t4 \in Seq(T) /\ e = e4 \o t4
      BY <1>9, <2>0, <2>4
    <3> QED
      BY <3>1, JoinLemma
  <2> QED
    BY <2>1, <2>2, <2>3, <2>4, <2>5
<1>12. /\ h \in Seq(T) /\ ToSet(h) = ToSet(e) \cup ToSet(t5)
       /\ Len(e) \in Nat /\ DOMAIN e = 1..Len(e)
       /\ \A k \in DOMAIN h : \/ k \in DOMAIN e /\ h[k] = e[k]
                              \/ \E i \in DOMAIN t5 : h[k] = t5[i]
       /\ \A k \in DOMAIN e : k \in DOMAIN h /\ h[k] = e[k]
  <2>1. e \in Seq(T) /\ t5 \in Seq(T) /\ h = e \o t5
    BY <1>9, <1>5, <1>11
  <2> QED
    BY <2>1, JoinLemma
<1>13. /\ f \in Seq(T) /\ ToSet(f) = ToSet(h) \cup ToSet(t6)
       /\ \A k \in DOMAIN f : \/ k \in DOMAIN h /\ f[k] = h[k]
                              \/ \E i \in DOMAIN t6 : f[k] = t6[i]
       /\ \A k \in DOMAIN h : k \in DOMAIN f /\ f[k] = h[k]
  <2>1. h \in Seq(T) /\ t6 \in Seq(T) /\ f = h \o t6
    BY <1>9, <1>5, <1>12
  <2> QED
    BY <2>1, JoinLemma
<1>14. /\ g \in Seq(T) /\ ToSet(g) = ToSet(f) \cup ToSet(walk) /\ Len(f) \in Nat
       /\ \A k \in DOMAIN g : \/ k \in DOMAIN f /\ g[k] = f[k]
                              \/ \E i \in DOMAIN walk : k = Len(f) + i /\ g[k] = walk[i]
       /\ \A k \in DOMAIN f : k \in DOMAIN g /\ g[k] = f[k]
       /\ \A i \in DOMAIN walk : Len(f) + i \in DOMAIN g /\ g[Len(f) + i] = walk[i]
       /\ DOMAIN walk = 1..Len(walk)
  <2>1. f \in Seq(T) /\ walk \in Seq(T) /\ g = f \o walk
    BY <1>9, <1>4, <1>13
  <2> QED
    BY <2>1, JoinLemma
<1>15. /\ ToSet(agenda) = ToSet(g) \cup ToSet(SitePackages) /\ DOMAIN g = 1..Len(g) /\ Len(g) \in Nat
       /\ \A k \in DOMAIN agenda : \/ k \in DOMAIN g /\ agenda[k] = g[k]
                                   \/ \E i \in DOMAIN SitePackages : agenda[k] = SitePackages[i]
       /\ \A k \in DOMAIN g : k \in DOMAIN agenda /\ agenda[k] = g[k]
  <2>1. g \in Seq(T) /\ SitePackages \in Seq(T) /\ agenda = g \o SitePackages
    BY <1>10, <1>4, <1>14
  <2> QED
    BY <2>1, JoinLemma
<1>16. /\ \A x \in ToSet(e) : x[1] \in Early
       /\ \A x \in ToSet(e) : /\ x[1] \in {"npm", "application", "toolchain"} => x[2] \in fixed
                              /\ x[1] = "npm" => x[2] \in ToSet(NpmCLIs)
       /\ \A x \in ToSet(t5) : x[1] = "login" /\ x[2] \in fixed
       /\ \A x \in ToSet(t6) : x[1] = "service" /\ x[2] \in fixed
  BY <1>5, <1>11 DEF Early, fixed, persistent
<1>17. \A k \in DOMAIN agenda :
         \/ k \in DOMAIN e /\ agenda[k] = e[k]
         \/ agenda[k] \in ToSet(t5) \cup ToSet(t6)
         \/ \E i \in DOMAIN walk : k = Len(f) + i /\ agenda[k] = walk[i]
         \/ agenda[k] \in ToSet(SitePackages)
  <2>1. /\ \A i \in DOMAIN t5 : t5[i] \in ToSet(t5)
        /\ \A i \in DOMAIN t6 : t6[i] \in ToSet(t6)
        /\ \A i \in DOMAIN SitePackages : SitePackages[i] \in ToSet(SitePackages)
    BY DEF ToSet
  <2> SUFFICES ASSUME NEW k \in DOMAIN agenda,
                      agenda[k] \notin ToSet(SitePackages),
                      agenda[k] \notin ToSet(t5) \cup ToSet(t6)
               PROVE  \/ k \in DOMAIN e /\ agenda[k] = e[k]
                      \/ \E i \in DOMAIN walk : k = Len(f) + i /\ agenda[k] = walk[i]
    OBVIOUS
  <2>2. k \in DOMAIN g /\ agenda[k] = g[k]
    BY <1>15, <2>1
  <2>3. CASE k \in DOMAIN f /\ g[k] = f[k]
    <3>1. k \in DOMAIN h /\ f[k] = h[k]
      BY <1>13, <2>1, <2>2, <2>3
    <3> QED
      BY <1>12, <2>1, <2>2, <2>3, <3>1
  <2> QED
    BY <1>14, <2>2, <2>3
<1>18. \A j \in DOMAIN e : agenda[j] = e[j]
  BY <1>12, <1>13, <1>14, <1>15
<1>19. \A i \in DOMAIN walk : Len(f) + i \in DOMAIN agenda /\ agenda[Len(f) + i] = walk[i]
  BY <1>14, <1>15
<1>20. EarlyInv
  <2> SUFFICES ASSUME NEW k \in DOMAIN agenda
               PROVE  /\ agenda[k][1] \in {"npm", "application", "toolchain"} =>
                           \A j \in 1..k : agenda[j][1] \in Early
                      /\ agenda[k][1] \in {"npm", "application", "toolchain", "login", "service"} =>
                           agenda[k][2] \in fixed
                      /\ agenda[k][1] = "npm" => agenda[k][2] \in ToSet(NpmCLIs)
    BY DEF EarlyInv
  <2>1. CASE k \in DOMAIN e /\ agenda[k] = e[k]
    <3>1. e[k] \in ToSet(e)
      BY <2>1 DEF ToSet
    <3>2. e[k][1] \in Early
      BY <1>16, <3>1
    <3>3. e[k][1] \notin {"login", "service"}
      BY <3>2 DEF Early
    <3>4. \A j \in 1..k : j \in DOMAIN e
      BY <1>12, <2>1
    <3>5. \A j \in 1..k : agenda[j][1] \in Early
      <4>1. \A j \in DOMAIN e : e[j] \in ToSet(e)
        BY DEF ToSet
      <4> QED
        BY <1>16, <1>18, <3>4, <4>1
    <3> QED
      BY <1>16, <2>1, <3>1, <3>3, <3>5
  <2>2. CASE agenda[k] \in ToSet(t5) \cup ToSet(t6)
    BY <1>16, <2>2
  <2>3. CASE \E i \in DOMAIN walk : k = Len(f) + i /\ agenda[k] = walk[i]
    <3>1. agenda[k] \in ToSet(walk)
      BY <2>3 DEF ToSet
    <3> QED
      BY <1>8, <3>1
  <2>4. CASE agenda[k] \in ToSet(SitePackages)
    BY <1>7, <2>4
  <2> QED
    BY <1>17, <2>1, <2>2, <2>3, <2>4
<1>21. OrderInv
  <2> DEFINE Before(k, d) == sorted(d) \/ \E j \in 1..(k - 1) : agenda[j] = <<"list", d>>
  <2> SUFFICES ASSUME NEW k \in DOMAIN agenda, NEW x \in {agenda[k]}
               PROVE  /\ x[1] = "file" => x[2] \in Paths /\ Before(k, DirOf[x[2]])
                      /\ x[1] \in {"list", "modules"} =>
                           x[2] \in Dirs /\ (top(x[2]) \/ Before(k, parent(x[2])))
    BY DEF OrderInv
  <2>1. CASE x[1] \notin {"file", "list", "modules"}
    BY <2>1
  <2>2. CASE \E i \in DOMAIN walk : k = Len(f) + i /\ agenda[k] = walk[i]
    <3>1. PICK i \in DOMAIN walk : k = Len(f) + i /\ agenda[k] = walk[i]
      BY <2>2
    <3>2. ASSUME NEW d, \E j \in 1..(i - 1) : walk[j] = <<"list", d>>
          PROVE  Before(k, d)
      <4>1. PICK j \in 1..(i - 1) : walk[j] = <<"list", d>>
        BY <3>2
      <4> DEFINE m == Len(f) + j
      <4>2. j \in DOMAIN walk /\ m \in 1..(k - 1)
        BY <1>14, <3>1, <4>1
      <4>3. agenda[m] = <<"list", d>>
        BY <1>19, <4>1, <4>2
      <4> HIDE DEF m
      <4> QED
        BY <4>2, <4>3
    <3> HIDE DEF Before
    <3>3. /\ walk[i][1] = "file" =>
               /\ walk[i][2] \in Paths
               /\ \E j \in 1..(i - 1) : walk[j] = <<"list", DirOf[walk[i][2]]>>
          /\ walk[i][1] \in {"list", "modules"} =>
               /\ walk[i][2] \in Dirs
               /\ \/ top(walk[i][2])
                  \/ \E j \in 1..(i - 1) : walk[j] = <<"list", parent(walk[i][2])>>
      BY <3>1, WalksAssumption
    <3> QED
      BY <3>1, <3>2, <3>3
  <2>3. CASE k \in DOMAIN e /\ agenda[k] = e[k]
    <3>1. x \in ToSet(e)
      BY <2>3 DEF ToSet
    <3> QED
      BY <1>16, <2>1, <3>1 DEF Early
  <2>4. CASE agenda[k] \in ToSet(t5) \cup ToSet(t6) \cup ToSet(SitePackages)
    BY <1>7, <1>16, <2>1, <2>4
  <2> QED
    BY <1>17, <2>2, <2>3, <2>4
<1>22. /\ ToSet(n) \cup ToSet(t1) \cup ToSet(t4) \cup ToSet(t5) \cup ToSet(t6) \subseteq ToSet(agenda)
       /\ ToSet(walk) \subseteq ToSet(agenda)
  BY <1>11, <1>12, <1>13, <1>14, <1>15
<1>23. FixedInv
  BY <1>5, <1>22 DEF FixedInv, due
<1>24. walked \subseteq ToSet(agenda)
  <2>1. \A v \in Walks : ToSet(v) = ToSet(walk)
    BY WalksAssumption
  <2> QED
    BY <1>22, <2>1 DEF walked
<1>25. VisitInv
  BY <1>24 DEF VisitInv, walkedFiles, due
<1>26. ManifestInv
  BY <1>24 DEF ManifestInv, metInWalk, metIn, entered, walkedFiles, due
<1> QED
  BY <1>20, <1>21, <1>23, <1>25, <1>26

-----------------------------------------------------------------------------
(* The evidence is reported.                                                *)

LEMMA EvidenceInit == Init => EvidenceInv
<1> SUFFICES ASSUME Init
             PROVE  EvidenceInv
  OBVIOUS
<1>1. /\ agenda \in Agendas /\ inspected = {} /\ dependencyDirs = {}
      /\ persistenceChecked = {} /\ scriptChecked = {} /\ packageChecked = {}
  BY DEF Init, TargetedInit, FilesInit, ScopeInit
<1>2. EarnedInv /\ NamedInv /\ DependencyInv
  BY <1>1 DEF EarnedInv, NamedInv, DependencyInv
<1> QED
  BY <1>1, <1>2, OpeningKeeps DEF EvidenceInv

LEMMA EvidenceNext == LocalInv /\ EvidenceInv /\ [Next]_vars => EvidenceInv'
<1> SUFFICES ASSUME LocalInv, EvidenceInv, [Next]_vars
             PROVE  EvidenceInv'
  OBVIOUS
<1>1. WorldInv /\ AgendaInv
  BY DEF LocalInv, CheckInv
<1>2. CASE RunTargeted
  BY <1>1, <1>2, TargetedKeeps DEF RunTargeted
<1>3. CASE RunProcesses
  BY <1>3, ProcessesKeep
<1>4. CASE World
  BY <1>1, <1>4, WorldKeeps
<1>5. CASE UNCHANGED vars
  <2>1. /\ UNCHANGED <<only, deep, unlisted, findings, inspected, marks, scopeVars, agenda>>
        /\ changed' = changed /\ content' = content
    BY <1>5 DEF vars, targetedVars, fileVars, world, reports
  <2> QED
    BY <2>1, FrameLemma
<1> QED
  BY <1>2, <1>3, <1>4, <1>5 DEF Next

\* When all that was on the agenda is done every promise is kept.
LEMMA EvidenceLemma == EvidenceInv => EvidenceIsReported
<1> SUFFICES ASSUME EvidenceInv, ended, NEW p \in Paths, stays(p)
             PROVE  /\ carriesSignature(p, content[p]) /\ promised(p) => reported(p)
                    /\ content[p].sidecar /\ ~headOnly(p) /\ p \in persistent
                       /\ pathInScope(DirOf[p]) => reported(p)
                    /\ content[p].published /\ ~validAsset(Ext[p], content[p])
                       /\ asSource(p, {"script"}) => reported(p)
                    /\ Ext[p] = "font" /\ content[p].head = "text"
                       /\ asSource(p, {"script", "dependency"}) => reported(p)
  BY DEF EvidenceIsReported, stays
<1>1. EarnedInv /\ NamedInv /\ FixedInv /\ VisitInv /\ ManifestInv
  BY DEF EvidenceInv
<1>2. \A t : ~due(t)
  BY DEF ended, due, ToSet
<1>3. p \in fixed => attended(p)
  BY <1>1, <1>2 DEF FixedInv, fixed, persistent
<1>4. p \in persistent => persisted(p)
  BY <1>1, <1>2 DEF FixedInv, persistent
<1>5. selected(p) => visitedWell(p)
  BY <1>1, <1>2 DEF VisitInv, selected
<1>6. ASSUME promised(p), carriesSignature(p, content[p])
      PROVE  reported(p)
  <2>1. signed(p)
    BY <1>6 DEF signed
  <2>2. CASE p \in fixed /\ pathInScope(DirOf[p])
    <3>1. reported(p) \/ p \in persistenceChecked
      BY <1>3, <2>2 DEF attended
    <3> QED
      BY <1>1, <2>1, <3>1 DEF EarnedInv
  <2>3. CASE selected(p)
    BY <1>5, <1>6, <2>3 DEF visitedWell
  <2>4. CASE named(p) /\ pathInScope(p)
    <3>1. PICK m \in Paths : /\ p \in names(m) /\ parsed(m)
                             /\ metInWalk(m) \/ \E d \in Dirs : metIn(d, m)
      BY <2>4 DEF named
    <3>2. m \in packageChecked
      BY <1>1, <1>2, <3>1 DEF ManifestInv
    <3> QED
      BY <1>1, <2>1, <2>4, <3>1, <3>2 DEF NamedInv
  <2> QED
    BY <1>6, <2>2, <2>3, <2>4 DEF promised
<1>7. \A reads : asSource(p, reads) => selected(p)
  BY DEF asSource
<1> QED
  BY <1>4, <1>5, <1>6, <1>7 DEF persisted, visitedWell

-----------------------------------------------------------------------------
(* The theorems.                                                           *)

LEMMA InitLemma == Init => LocalInv
<1> SUFFICES ASSUME Init
             PROVE  LocalInv
  OBVIOUS
<1>1. content \in [Paths -> Content]
  <2>1. PICK odd \in Oddities :
          /\ content \in {[p \in Paths |-> IF p \in odd THEN there[p] ELSE Usual[p]] :
                            there \in [odd \cap Paths -> UNION {Variants[p] : p \in odd \cap Paths}]}
          /\ \A p \in odd \cap Paths : content[p] \in Variants[p]
    BY DEF Init, TargetedInit, FilesInit
  <2>2. PICK there \in [odd \cap Paths -> UNION {Variants[p] : p \in odd \cap Paths}] :
          content = [p \in Paths |-> IF p \in odd THEN there[p] ELSE Usual[p]]
    BY <2>1
  <2>3. \A p \in Paths : content[p] \in Content
    BY <2>1, <2>2, FilesAssumption
  <2> QED
    BY <2>2, <2>3
<1>2. persistenceChecked = {} /\ agenda \in Agendas
  BY DEF Init, TargetedInit, FilesInit
<1>3. AgendaInv
  BY <1>2, OpeningLemma
<1>4. CheckInv
  BY <1>1, <1>3 DEF Init, TargetedInit, FilesInit, CheckInv, WorldInv, ReadsAreMarked,
     NothingIsReadTwice, OnlyReadsInside, MarksAreEarned
<1>5. ProcessInv
  BY DEF Init, ProcessInit, ProcessInv
<1>6. EntriesInv /\ QuietFilesStayQuiet
  BY DEF Init, TargetedInit, FilesInit, ScopeInit, EntriesInv, QuietFilesStayQuiet
<1> QED
  BY <1>4, <1>5, <1>6 DEF LocalInv

\* A check of a file leaves the processes as they were.
LEMMA TargetedKeepsLemma ==
  ASSUME ProcessInv, TargetedNext, UNCHANGED processVars
  PROVE  ProcessInv'
<1>1. PICK p : (p \in Paths /\ Check(p)) \/ (p \in Dirs /\ CheckDir(p))
  BY DEF TargetedNext
<1>2. \E o : Conclude(o)
  BY <1>1 DEF Check, CheckDir, CheckArtifact, CheckNpmCLI, CheckApplication, VisitSystem,
     CheckStaging, CheckToolchain, CheckLoginFile, CheckServiceFile, VisitFile, CheckPackage,
     CheckComposerVendor, CheckPthFile, CheckDistInfo, ListDirectory, CheckNodeModulesDir,
     CheckSitePackagesDir, CheckConfigDir, Perform, Enter
<1>3. PICK o : Conclude(o)
  BY <1>2
<1>4. findings \subseteq findings'
  BY <1>3 DEF Conclude
<1>5. \A q : Settled(q) => Settled(q)'
  BY <1>3, SettledLemma DEF processVars
<1> QED
  BY <1>4, <1>5 DEF ProcessInv, processVars

LEMMA NextLemma == LocalInv /\ [Next]_vars => LocalInv'
<1> SUFFICES ASSUME LocalInv, [Next]_vars
             PROVE  LocalInv'
  OBVIOUS
<1>1. CASE RunTargeted
  <2>1. AgendaInv
    BY DEF LocalInv, CheckInv
  <2> QED
    BY <1>1, <2>1, TargetedLemma, QuietTargetedLemma, TargetedKeepsLemma DEF RunTargeted, LocalInv
<1>2. CASE RunProcesses
  BY <1>2, ProcessesLemma, QuietProcessesLemma, AccountLemma DEF RunProcesses, LocalInv
<1>3. CASE World
  BY <1>3, WorldLemma
<1>4. CASE UNCHANGED vars
  <2>1. UNCHANGED <<targetedVars, processVars>>
    BY <1>4 DEF vars
  <2>2. CheckInv'
    BY <2>1 DEF LocalInv, CheckInv, WorldInv, AgendaInv, Orderly, Fits, ReadsAreMarked,
       NothingIsReadTwice, OnlyReadsInside, MarksAreEarned, steady, hasGap, targetedVars,
       fileVars, world, marks, reports
  <2>3. \A q : Settled(q) => Settled(q)'
    <3>1. content' = content
      BY <2>1 DEF targetedVars, fileVars, world
    <3>2. \A p : headOnly(p) <=> headOnly(p)'
      BY <3>1, HeadOnlyStays
    <3> QED
      BY <2>1, <3>2 DEF Settled, nodeScript, steady, hasGap, targetedVars, fileVars, world, reports,
         processVars
  <2>4. ProcessInv'
    BY <2>1, <2>3 DEF LocalInv, ProcessInv, targetedVars, fileVars, reports, processVars
  <2>5. (EntriesInv /\ QuietFilesStayQuiet)'
    BY <2>1 DEF LocalInv, EntriesInv, QuietFilesStayQuiet, steady, targetedVars, scopeVars,
       fileVars, world, reports
  <2> QED
    BY <2>2, <2>4, <2>5 DEF LocalInv
<1> QED
  BY <1>1, <1>2, <1>3, <1>4 DEF Next

\* The invariant of the checks and of the processes holds in every behavior.
THEOREM Invariance == Spec => []LocalInv
  BY InitLemma, NextLemma, PTL DEF Spec

\* Whatever is marked as checked, so that no later check reads it, was read by
\* the check that marked it, is a named gap, or was reported
\* (markPersistenceChecked and scriptChecked are set before the read).
THEOREM MarksAreAlwaysEarned == Spec => []MarksAreEarned
<1>1. LocalInv => MarksAreEarned
  BY DEF LocalInv, CheckInv
<1> QED
  BY <1>1, Invariance, PTL

\* The fixed-path checks, the system roots and the walk share files, and no
\* file is read by two of the persistence checks.
THEOREM NothingIsEverReadTwice == Spec => []NothingIsReadTwice
<1>1. LocalInv => NothingIsReadTwice
  BY DEF LocalInv, CheckInv
<1> QED
  BY <1>1, Invariance, PTL

\* Under -only nothing outside the roots is read or reported, whatever a
\* manifest inside names (checkScriptTarget, inspectDependencyTarget).
THEOREM OnlyAlwaysReadsInside == Spec => []OnlyReadsInside
<1>1. LocalInv => OnlyReadsInside
  BY DEF LocalInv, CheckInv
<1> QED
  BY <1>1, Invariance, PTL

\* A file that is as usual, or not there, while the scan goes on is no finding
\* and no gap, whichever checks come to it: an absent entrypoint, manifest or
\* staging path is passed over, and what is there is read and found clean.
THEOREM QuietFilesAlwaysStayQuiet == Spec => []QuietFilesStayQuiet
<1>1. LocalInv => QuietFilesStayQuiet
  BY DEF LocalInv
<1> QED
  BY <1>1, Invariance, PTL

\* When the processes are done each one of the snapshot was reported if it
\* gives itself away or counted if its script could not be located, and a
\* snapshot that is partial, or lacks the scanner, says so.
THEOREM ProcessesAreAlwaysAccounted == Spec => []ProcessesAreAccounted
<1>1. LocalInv => ProcessesAreAccounted
  <2> SUFFICES ASSUME LocalInv, stage = "done"
               PROVE  /\ Self \notin listed => collection \in findings
                      /\ restricted # {} => <<"scan-limited", "restricted">> \in findings
                      /\ \A q \in listed \ {Self} : Command[q].args =>
                           /\ Command[q].sidecar => <<"running-payload-process", q>> \in findings
                           /\ nodeScript(q) /\ ~Command[q].located =>
                                <<"scan-limited", "unresolved">> \in findings
                           /\ nodeScript(q) /\ Command[q].located /\ steady(Command[q].script)
                              /\ ~headOnly(Command[q].script)
                              /\ runningScriptMatch(content[Command[q].script])
                              /\ content[Command[q].script].there \in {"file", "unreadable"}
                                => \/ <<"running-payload-process", q>> \in findings
                                   \/ hasGap(Command[q].script)
    BY DEF ProcessesAreAccounted
  <2>1. \A q \in listed \ {Self} : Command[q].args => Settled(q)
    BY DEF LocalInv, ProcessInv
  <2>2. \A q : q \in unresolved => <<"scan-limited", "unresolved">> \in findings
    BY DEF LocalInv, ProcessInv
  <2> QED
    BY <2>1, <2>2 DEF LocalInv, ProcessInv, Settled
<1> QED
  BY <1>1, Invariance, PTL

\* The promises to read, and what a mark is to come with, hold in every behavior.
THEOREM Promises == Spec => []EvidenceInv
<1>1. LocalInv /\ EvidenceInv /\ [Next]_vars => EvidenceInv'
  BY EvidenceNext
<1> QED
  BY <1>1, EvidenceInit, Invariance, PTL DEF Spec

\* A file that carries a published signature, an entrypoint that refers to a
\* sidecar, a renamed payload or a font that is none is reported, or a gap tells
\* of it, whichever checks come to it and whatever else changes meanwhile
\* (the marks of markPersistenceChecked, scriptChecked and packageChecked, the
\* selection of routineContentFile).
THEOREM EvidenceIsAlwaysReported == Spec => []EvidenceIsReported
  BY Promises, EvidenceLemma, PTL

=============================================================================
