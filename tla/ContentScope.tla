---------------------------- MODULE ContentScope -----------------------------
(* Which files the project walk reads (internal/scan/content_scope.go).  The *)
(* walk lists a directory before it visits what is in it, and the listing    *)
(* tells what the directory is: part of a project, where fonts are read, or  *)
(* of a dependency, where only what a check asks for is.  What it was called *)
(* is inherited by the directories below, so a listing that fails part of    *)
(* the way may change what is read in all of them.                           *)
EXTENDS ScanFiles

CONSTANTS
  Up,        \* of a directory: itself, its parent and so on, to the root of its walk
  DirKind,   \* what it is by its name: "packages" (node_modules, site-packages),
             \* "bundle" (*.app, uv's archive), "vendor", "composer", "config"
             \* (.vscode, .claude)
  Home,      \* the home directory
  Explicit,  \* the directories given with -root
  MaxLost    \* bound: what a listing that fails loses, unless it loses all

ASSUME ScopeAssumption ==
  /\ DirKind \in [Dirs -> SUBSET {"packages", "bundle", "vendor", "composer", "config"}]
  /\ \A d \in Dirs : Up[d] \in Seq(Dirs) /\ Len(Up[d]) > 0 /\ Up[d][1] = d
  /\ \A d \in Dirs : Len(Up[d]) > 1 => Up[Up[d][2]] = Tail(Up[d])
  /\ \A d \in Dirs : \A j, k \in DOMAIN Up[d] :
       j <= k /\ Up[d][k] \in Scope => Up[d][j] \in Scope
  /\ Home \in Dirs /\ Explicit \subseteq Dirs /\ MaxLost \in Nat
  /\ \A p \in Paths : is("config", p) => is("carrier", p) /\ Ext[p] # "font"

VARIABLES
  entries,         \* the files and directories that listings of the walk returned
  contentDirs,     \* the directories that belong to a project
  dependencyDirs   \* and those that belong to a dependency
scopeVars == <<entries, contentDirs, dependencyDirs>>

ScopeInit == entries = {} /\ contentDirs = {} /\ dependencyDirs = {}

top(d) == Len(Up[d]) = 1
parent(d) == Up[d][2]
inside(d, kinds) == \E k \in DOMAIN Up[d] : DirKind[Up[d][k]] \cap kinds # {}
found(d) == top(d) \/ d \in entries

(* Without deep reads the project walk ends at the directories it has checks *)
(* for: what is below them is looked through for persistence only.           *)
pruned(d) == ~deep /\ inside(d, {"packages", "vendor", "config"})
visited(d) == found(d) /\ (top(d) \/ ~pruned(parent(d)))

isMarker(p) == is("manifest", p) \/ is("marker", p)

isDependencyDir(d, got) ==
  \/ ~top(d) /\ parent(d) \in dependencyDirs
  \/ DirKind[d] \cap {"packages", "bundle"} # {}
  \/ "vendor" \in DirKind[d] /\ \E e \in got \cap Dirs : "composer" \in DirKind[e]

(* Mutant: a font is read only beside the marker of its project.             *)
isContentDir_NotBelow(d, got) ==
  \/ "packages" \in DirKind[d] \/ d \in Explicit
  \/ \E p \in got \cap Paths : isMarker(p)

(* A marker in home does not make a project of everything in it.             *)
isContentDir(d, got) ==
  \/ ~top(d) /\ parent(d) \in contentDirs /\ (parent(d) = Home => Home \in Explicit)
  \/ "packages" \in DirKind[d] \/ d \in Explicit
  \/ \E p \in got \cap Paths : isMarker(p)

classifyContentDir(d, got) ==
  /\ dependencyDirs' = dependencyDirs \cup (IF isDependencyDir(d, got) THEN {d} ELSE {})
  /\ contentDirs' = contentDirs \cup (IF isContentDir(d, got) THEN {d} ELSE {})

children(d) == {p \in Paths : DirOf[p] = d /\ content[p].there # "missing"}
               \cup {e \in Dirs : ~top(e) /\ parent(e) = d}

(* walkClassified goes on with what a failed listing did return.             *)
listings(d) ==
  IF d \notin unlisted THEN {children(d)}
  ELSE {got \in SUBSET children(d) : got = {} \/ Cardinality(children(d) \ got) <= MaxLost}

List(d) ==
  IF ~found(d) THEN UNCHANGED scopeVars
  ELSE \E got \in listings(d) :
         /\ entries' = entries \cup got
         /\ IF pruned(d) THEN UNCHANGED <<contentDirs, dependencyDirs>>
            ELSE classifyContentDir(d, got)

-----------------------------------------------------------------------------
targetedContentFile(p) ==
  Kind[p] \cap {"manifest", "gitignore", "startup", "toolchain", "entrypoint", "artifact",
                "payload", "sidecar"} # {}

injectionContentFile(p) == is("carrier", p) /\ (Ext[p] = "font" => DirOf[p] \in contentDirs)

(* A file of a published length is taken for one of the published bytes: one *)
(* that only has the length is read and nothing comes of it.                 *)
hashSizeCandidate(p) == content[p].published /\ content[p].there # "irregular"

routineContentFile(p) ==
  \/ targetedContentFile(p)
  \/ DirOf[p] \in dependencyDirs /\ is("config", p)
  \/ DirOf[p] \notin dependencyDirs /\ (injectionContentFile(p) \/ hashSizeCandidate(p))
=============================================================================
