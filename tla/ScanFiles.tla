------------------------------ MODULE ScanFiles ------------------------------
(* The files that the checks of internal/scan look at, one after the other,  *)
(* and what a check leaves behind: findings, and marks on the paths that no  *)
(* later check has to read again.  The machine is in use: a file may appear, *)
(* vanish, change or become unreadable between any two checks.               *)
(*                                                                           *)
(* What a path is called, and where it is, is constant.  Kind names the      *)
(* questions the checks ask of a name:                                       *)
(*   "sidecar"     *.inz.cjs and *.inz.orig    "artifact"  KnownRepoArtifacts*)
(*   "entrypoint"  discoveredPersistenceEntrypoint                           *)
(*   "toolchain"   extraToolchainPath          "startup"   startupPath       *)
(*   "manifest"    package.json                "gitignore" .gitignore        *)
(*   "carrier"     injectionContentFile        "payload"   a published name  *)
(*   "scoped"      a package of an npm scope   "badpth"    a published .pth  *)
(*   "marker"      .git, go.mod and such: what makes a directory a project   *)
(*   "config"      settings.json or a carrier, in .vscode or .claude         *)
EXTENDS Naturals, FiniteSets, Sequences, ContentChecks

CONSTANTS
  Paths,       \* the files the checks may come to
  Dirs,        \* the directories they list
  DirOf,       \* the directory of a path
  Kind,        \* what a path is by its name: a set of the above
  Ext,         \* its extension, see ContentChecks
  Scope,       \* the paths and directories below a scan root
  Usual,       \* what is at a path on a clean machine
  Variants,    \* what else may be there
  Oddities,    \* bound: sets of files that are not as usual and listings that fail
  MaxOdd,      \* bound: how many of these there are when another file changes
  Changing,    \* bound: the files that may change during the scan
  MaxChanges   \* bound: how many of them do

ASSUME FilesAssumption ==
  /\ DirOf \in [Paths -> Dirs] /\ Paths \cap Dirs = {}
  /\ Scope \subseteq Paths \cup Dirs
  /\ \A p \in Paths : DirOf[p] \in Scope => p \in Scope
  /\ \A p \in Paths : Usual[p] \in Content /\ Variants[p] \subseteq Content
  /\ Oddities \subseteq SUBSET (Paths \cup Dirs)
  /\ MaxOdd \in Nat /\ MaxChanges \in Nat /\ Changing \subseteq Paths

VARIABLES
  only, deep,           \* the flags of the scan
  content,              \* what is at each path
  unlisted,             \* the directories whose listing fails
  changed,              \* history: the paths that changed since the scan began
  findings,             \* <<check, path>>; a gap is a "scan-incomplete"
  inspected,            \* history: <<how, path>>, what was read and shown to which check
  again,                \* history: paths that persistence checks read twice
  persistenceChecked,   \* paths and directories
  scriptChecked,        \* lifecycle targets and entrypoints
  packageChecked        \* package manifests

world == <<only, deep, content, unlisted, changed>>
marks == <<persistenceChecked, scriptChecked, packageChecked>>
reports == <<findings, inspected, again>>
fileVars == <<world, marks, reports>>

FilesInit ==
  /\ only \in BOOLEAN /\ deep \in BOOLEAN
  /\ \E odd \in Oddities :
       /\ unlisted = odd \cap Dirs
       /\ content \in {[p \in Paths |-> IF p \in odd THEN there[p] ELSE Usual[p]] :
                         there \in [odd \cap Paths -> UNION {Variants[p] : p \in odd \cap Paths}]}
       /\ \A p \in odd \cap Paths : content[p] \in Variants[p]
  /\ changed = {} /\ findings = {} /\ inspected = {} /\ again = {}
  /\ persistenceChecked = {} /\ scriptChecked = {} /\ packageChecked = {}

is(kind, p) == kind \in Kind[p]
pathInScope(p) == ~only \/ p \in Scope
gap(p) == <<"scan-incomplete", p>>

(* What others do to the files while the scan goes on.                       *)
Change(p) ==
  /\ Cardinality(changed) < MaxChanges
  /\ Cardinality({q \in Paths : content[q] # Usual[q]} \cup unlisted) < MaxOdd
  /\ \E c \in (Variants[p] \cup {Usual[p]}) \ {content[p]} :
       content' = [content EXCEPT ![p] = c]
  /\ changed' = changed \cup {p}
  /\ UNCHANGED <<only, deep, unlisted, marks, reports>>

-----------------------------------------------------------------------------
(* What a check amounts to: what it found, read and marked.                  *)
Nothing == [found |-> {}, read |-> {}, persisted |-> {}, scripted |-> {}, packaged |-> {}]

together(O) == [found |-> UNION {o.found : o \in O}, read |-> UNION {o.read : o \in O},
                persisted |-> UNION {o.persisted : o \in O},
                scripted |-> UNION {o.scripted : o \in O},
                packaged |-> UNION {o.packaged : o \in O}]

finds(p, checks) == [Nothing EXCEPT !.found = {<<k, p>> : k \in checks}]

persistenceReads(R) == {r[2] : r \in {x \in R : x[1] \in {"application", "npm", "startup"}}}
Conclude(o) ==
  /\ findings' = findings \cup o.found
  /\ inspected' = inspected \cup o.read
  /\ again' = again \cup (persistenceReads(o.read) \cap persistenceReads(inspected))
  /\ persistenceChecked' = persistenceChecked \cup o.persisted
  /\ scriptChecked' = scriptChecked \cup o.scripted
  /\ packageChecked' = packageChecked \cup o.packaged
  /\ UNCHANGED world

(* readScanContent: of an asset with its header, and of an executable, a read *)
(* returns the first bytes only, however long the file is, and of another    *)
(* binary file a source read does.  What may be a published payload, by its  *)
(* name or by its length, is read whole unless it has the header of an asset.*)
payloadCandidate(p) == is("payload", p) \/ content[p].published
nativeExecutable(p) == content[p].head = "native" /\ ~payloadCandidate(p)
binarySource(p) == content[p].head = "binary" /\ ~payloadCandidate(p)
headOnly(p) == nativeExecutable(p) \/ validAsset(Ext[p], content[p])

prefix(c) == [ordinary EXCEPT !.head = c.head]
fileBytes(p) == IF headOnly(p) THEN prefix(content[p]) ELSE content[p]
sourceBytes(p) == IF binarySource(p) THEN prefix(content[p]) ELSE fileBytes(p)

readable(p) == content[p].there = "file" /\ (content[p].size = "huge" => headOnly(p))

(* A read, as FileReads models it, seen from the check that asked for it: an  *)
(* executable comes with a notice.                                           *)
processFile(how, p, checks, optional) ==
  IF content[p].there = "irregular" \/ (optional /\ content[p].there = "missing") THEN Nothing
  ELSE IF ~readable(p) THEN finds(p, {"scan-incomplete"})
  ELSE [finds(p, checks \cup report("scan-limited", nativeExecutable(p)))
        EXCEPT !.read = {<<how, p>>}]

processSourceFile(how, p, checks) ==
  processFile(how, p, checks \cup report("scan-limited", binarySource(p)), FALSE)

checkRepoArtifactName(p) ==
  finds(p, report("malicious-repo-artifact", is("sidecar", p) \/ is("artifact", p)))

=============================================================================
