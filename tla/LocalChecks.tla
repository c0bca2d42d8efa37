---------------------------- MODULE LocalChecks ------------------------------
(* The checks of one machine's files and processes in the order of           *)
(* Scanner.Run: targeted checks, project walk, Python packages, and, unless  *)
(* -only confines the scan, processes.  What the earlier marked or reported  *)
(* is what the later start from, and the files change all the while.         *)
EXTENDS TargetedChecks, ProcessSnapshot

(* On a clean machine the files are ordinary, an asset has its header, and   *)
(* nothing has the name of a threat.  A process is no file.                  *)
ASSUME CleanAssumption ==
  /\ \A p \in Paths :
       \/ Usual[p].there = "missing"
       \/ ~assetExtension(Ext[p]) /\ Usual[p] = ordinary
       \/ assetExtension(Ext[p]) /\ Usual[p] = [ordinary EXCEPT !.head = "magic"]
  /\ \A p \in Paths : Kind[p] \cap {"startup", "manifest"} # {} => ~assetExtension(Ext[p])
  /\ \A p \in Paths : Kind[p] \cap {"sidecar", "artifact", "badpth"} # {} =>
                         Usual[p].there = "missing"
  /\ Paths \cap (Procs \cup {"processes", "restricted", "unresolved"}) = {}

vars == <<targetedVars, processVars>>

Init == TargetedInit /\ ProcessInit

RunTargeted == TargetedNext /\ UNCHANGED processVars
RunProcesses == agenda = <<>> /\ ~only /\ ProcessNext /\ UNCHANGED <<scopeVars, agenda>>
ended == agenda = <<>> /\ (only \/ stage = "done")
World == ~ended /\ (\E p \in Changing : Change(p)) /\ UNCHANGED <<scopeVars, agenda, processVars>>

Next == RunTargeted \/ RunProcesses \/ World

Spec == Init /\ [][Next]_vars

-----------------------------------------------------------------------------
steady(p) == p \notin changed
hasGap(p) == gap(p) \in findings

(* Every variable holds a value of its kind.                                 *)
TypeOK ==
  /\ content \in [Paths -> Content]
  /\ unlisted \subseteq Dirs /\ changed \subseteq Paths
  /\ \A f \in findings : f[2] \in Paths \cup Dirs \cup Procs \cup
                                  {"processes", "restricted", "unresolved"}
  /\ \A r \in inspected : r[2] \in Paths
  /\ again \cup scriptChecked \cup packageChecked \subseteq Paths
  /\ persistenceChecked \subseteq Paths \cup Dirs
  /\ entries \subseteq Paths \cup Dirs /\ contentDirs \cup dependencyDirs \subseteq Dirs
  /\ left \subseteq listed /\ listed \cup restricted \cup unresolved \subseteq Procs

(* What a directory is, read off where it lies and what marks it: nothing of *)
(* a dependency, and below a marker or a root that was asked for.            *)
ownSource(d) == ~inside(d, {"packages", "bundle", "vendor"})
inProject(d) ==
  \E k \in DOMAIN Up[d] :
    /\ \/ Up[d][k] \in Explicit
       \/ \E p \in Paths : DirOf[p] = Up[d][k] /\ isMarker(p)
                         /\ steady(p) /\ content[p].there # "missing"
    /\ \A i \in 2..k : Up[d][i] = Home => Home \in Explicit

(* The files that some check has promised to read, by their place, name or   *)
(* length (docs/CHECKS.md): entrypoints, toolchains and startup files, what  *)
(* the walk selects, and what is named by a manifest that can be read.  Only *)
(* a manifest below listings that fail may be missed, with what it names: of *)
(* that the gaps tell.                                                       *)
persistent == ToSet(NpmCLIs) \cup ToSet(Applications) \cup ToSet(Toolchains)
fixed == persistent \cup ToSet(LoginFiles) \cup ToSet(ServiceFiles)
walked == UNION {ToSet(w) : w \in Walks}
walkedFiles == {p \in Paths : <<"file", p>> \in walked}
selected(p) ==
  /\ p \in walkedFiles /\ ~pruned(DirOf[p])
  /\ \/ targetedContentFile(p) \/ is("config", p)
     \/ /\ ownSource(DirOf[p])
        /\ is("carrier", p) /\ Ext[p] = "font" => inProject(DirOf[p])
        /\ is("carrier", p) \/ hashSizeCandidate(p)
open(d) == \A k \in DOMAIN Up[d] : Up[d][k] \notin unlisted
entered(d) == <<"modules", d>> \in walked /\ (top(d) \/ ~pruned(parent(d))) /\ open(d)
metInWalk(m) ==
  /\ m \in walkedFiles /\ ~pruned(DirOf[m]) /\ open(DirOf[m])
  /\ is("manifest", m) /\ ~is("startup", m) /\ ~is("toolchain", m)
metIn(d, m) == entered(d) /\ <<"package", m>> \in ToSet(Packages[d]) /\ ~scopeFails(m)
parsed(m) == steady(m) /\ readable(m) /\ content[m].head = "text"
names(m) == Hooks[m] \cup IF deep THEN Entries[m] ELSE {}
named(p) == \E m \in Paths : p \in names(m) /\ parsed(m) /\ (metInWalk(m) \/ \E d \in Dirs : metIn(d, m))
promised(p) ==
  \/ p \in fixed /\ pathInScope(DirOf[p])
  \/ selected(p)
  \/ pathInScope(p) /\ named(p)

(* Ignore files and hosts are read for entries of their own only, and npm's  *)
(* cli.js is the one file whose escapes are not read first.                  *)
carriesSignature(p, c) ==
  /\ ~is("gitignore", p) /\ Ext[p] # "hosts"
  /\ c.marker = "plain" \/ (c.marker = "escaped" /\ p \notin ToSet(NpmCLIs))
  /\ ~c.commented /\ c.head = "text"
criticals == {"payload-signature", "patched-application", "patched-npm-cli",
              "malicious-repo-artifact", "fake-font-payload"}
reported(p) ==
  \/ hasGap(p) \/ \E k \in DOMAIN Up[DirOf[p]] : hasGap(Up[DirOf[p]][k])
  \/ \E k \in criticals : <<k, p>> \in findings

(* What the walk selects is looked at as a source, for published bytes and   *)
(* the header of a font, but not what has a check of its own, nor what was   *)
(* read before because a manifest names it.                                  *)
asSource(p, reads) ==
  /\ selected(p) /\ p \notin fixed
  /\ Kind[p] \cap {"startup", "toolchain", "manifest", "gitignore", "entrypoint"} = {}
  /\ \A how \in reads : <<how, p>> \notin inspected

(* A file that carries a published signature, an entrypoint that refers to a *)
(* sidecar, a renamed payload or a font that is none is reported, or it or a *)
(* directory it lies in is named as a gap, whichever checks come to it, in   *)
(* whatever order, and whatever else changes meanwhile: neither a mark left  *)
(* by one check nor what a directory was taken for hides evidence that a     *)
(* check was to find.                                                        *)
EvidenceIsReported ==
  ended => \A p \in Paths :
    steady(p) /\ content[p].there \in {"file", "unreadable"} =>
      /\ carriesSignature(p, content[p]) /\ promised(p) => reported(p)
      /\ content[p].sidecar /\ ~headOnly(p) /\ p \in persistent /\ pathInScope(DirOf[p])
         => reported(p)
      /\ content[p].published /\ ~validAsset(Ext[p], content[p]) /\ asSource(p, {"script"})
         => reported(p)
      /\ Ext[p] = "font" /\ content[p].head = "text" /\ asSource(p, {"script", "dependency"})
         => reported(p)

(* "Name-based checks run first and short-circuit: a file that is malicious  *)
(* by name alone never needs reading" (content.go, checkSourceFile): a file  *)
(* the walk comes to is reported for its name.                               *)
NamesAreReported ==
  ended => \A p \in walkedFiles :
    steady(p) /\ content[p].there = "file" /\ ~pruned(DirOf[p])
    /\ (is("sidecar", p) \/ is("artifact", p)) => <<"malicious-repo-artifact", p>> \in findings

(* Whatever is marked as checked, so that no later check reads it, was read  *)
(* by the check that marked it, is a named gap, or is reported for its name; *)
(* marks taken inside the read of a manifest come with what was found there. *)
MarksAreEarned ==
  \A p \in Paths \cap (persistenceChecked \cup scriptChecked) :
    steady(p) /\ content[p].there \in {"file", "unreadable"} =>
      hasGap(p) \/ (\E r \in inspected : r[2] = p) \/ \E k \in criticals : <<k, p>> \in findings

(* The fixed-path checks, the system roots and the walk come to the same     *)
(* files; none of the files they share is read and reported by them twice.   *)
NothingIsReadTwice == again = {}

(* Under -only nothing outside the roots is read, listed or reported, though *)
(* a manifest inside may name it (checkScriptTarget).                        *)
OnlyReadsInside ==
  only => /\ \A r \in inspected : r[2] \in Scope
          /\ \A f \in findings : f[2] \in Scope

(* A file that is as usual, or not there, from beginning to end leaves no    *)
(* word above a notice: an application that is not installed, a package      *)
(* without a manifest or a script that was pruned is not a gap.  A Python    *)
(* package, which goes by its entry_points.txt, is bad by its own name.      *)
QuietFilesStayQuiet ==
  \A f \in findings :
    f[2] \in Paths /\ steady(f[2]) =>
      \/ content[f[2]].there # "missing" /\ content[f[2]] # Usual[f[2]]
      \/ f[1] \in {"missing-script-target", "compromised-python-version"}

(* Of the processes in the snapshot each is reported if its command line or  *)
(* its script gives it away, or counted if its script could not be located;  *)
(* a snapshot that failed, lacks the scanner or is partial says so.          *)
ProcessesAreAccounted ==
  stage = "done" =>
    /\ Self \notin listed => collection \in findings
    /\ restricted # {} => <<"scan-limited", "restricted">> \in findings
    /\ \A q \in listed \ {Self} : Command[q].args =>
         /\ Command[q].sidecar => <<"running-payload-process", q>> \in findings
         /\ nodeScript(q) /\ ~Command[q].located => <<"scan-limited", "unresolved">> \in findings
         /\ nodeScript(q) /\ Command[q].located /\ steady(Command[q].script)
            /\ ~headOnly(Command[q].script) /\ runningScriptMatch(content[Command[q].script])
            /\ content[Command[q].script].there \in {"file", "unreadable"}
              => <<"running-payload-process", q>> \in findings \/ hasGap(Command[q].script)
=============================================================================
