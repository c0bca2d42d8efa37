-------------------------- MODULE ProcessSnapshot ----------------------------
(* The running processes (internal/scan/process.go): one snapshot of the     *)
(* process table, then each command line in it, and the script that a Node   *)
(* process runs, which is read by path some time after the snapshot.         *)
EXTENDS ScanFiles

CONSTANTS
  Procs,     \* the processes that run when the snapshot is taken
  Self,      \* the scanner
  Command    \* of each: its arguments, as far as the checks tell them apart
             (*   args     there are any                                      *)
             (*   sidecar  one of them names a sidecar                        *)
             (*   node     it is Node                                         *)
             (*   script   the script that Node runs, or "none"               *)
             (*   located  the script is absolute, or its directory is known  *)

ASSUME ProcessAssumption ==
  /\ Self \in Procs
  /\ \A q \in Procs : Command[q].script \in Paths \cup {"none"}

VARIABLES
  stage,        \* "waiting", "inspecting" or "done"
  listed,       \* the processes the collector returned
  left,         \* those still to be inspected
  restricted,   \* those it was not allowed to read
  unresolved    \* those whose script could not be located
processVars == <<stage, listed, left, restricted, unresolved>>

ProcessInit ==
  /\ stage = "waiting" /\ listed = {} /\ left = {}
  /\ restricted = {} /\ unresolved = {}

collection == <<"scan-incomplete", "processes">>

CollectionFails ==
  /\ stage = "waiting"
  /\ Conclude([Nothing EXCEPT !.found = {collection}])
  /\ stage' = "done"
  /\ UNCHANGED <<listed, left, restricted, unresolved>>

(* Mutant: an account that may read nothing gets an empty list and no word.  *)
CollectProcesses_Trusting ==
  /\ stage = "waiting"
  /\ listed' \in SUBSET Procs
  /\ restricted' \in SUBSET (Procs \ listed')
  /\ left' = {q \in listed' \ {Self} : Command[q].args}
  /\ Conclude(Nothing)
  /\ stage' = "inspecting"
  /\ UNCHANGED unresolved

(* listProcesses asks for one process after the other: some it may not read, *)
(* others are gone by then.  The scanner itself must be in what it returns.  *)
CollectProcesses ==
  /\ stage = "waiting"
  /\ listed' \in SUBSET Procs
  /\ restricted' \in SUBSET (Procs \ listed')
  /\ left' = {q \in listed' \ {Self} : Command[q].args}
  /\ Conclude([Nothing EXCEPT !.found = IF Self \in listed' THEN {} ELSE {collection}])
  /\ stage' = "inspecting"
  /\ UNCHANGED unresolved

nodeScript(q) == Command[q].node /\ Command[q].script # "none"
located(q) == nodeScript(q) => Command[q].located

(* The name of the script, what it reads as now, or a sidecar argument.      *)
reasons(q) ==
  LET s == Command[q].script IN
    \/ Command[q].sidecar
    \/ nodeScript(q) /\ Ext[s] = "font"
    \/ nodeScript(q) /\ Command[q].located /\ readable(s) /\ runningScriptMatch(fileBytes(s))

(* A script that is gone by now is no failure.                               *)
InspectProcess(q) ==
  /\ stage = "inspecting" /\ q \in left
  /\ left' = left \ {q}
  /\ unresolved' = unresolved \cup (IF located(q) THEN {} ELSE {q})
  /\ Conclude(together(
       {finds(q, report("running-payload-process", reasons(q)))} \cup
       IF nodeScript(q) /\ Command[q].located
         THEN {processFile("process", Command[q].script, {}, TRUE)} ELSE {}))
  /\ UNCHANGED <<stage, listed, restricted>>

FinishProcesses ==
  /\ stage = "inspecting" /\ left = {}
  /\ stage' = "done"
  /\ Conclude(together({finds("restricted", report("scan-limited", restricted # {})),
                        finds("unresolved", report("scan-limited", unresolved # {}))}))
  /\ UNCHANGED <<listed, left, restricted, unresolved>>

ProcessNext ==
  CollectionFails \/ CollectProcesses \/ (\E q \in Procs : InspectProcess(q)) \/ FinishProcesses
=============================================================================
