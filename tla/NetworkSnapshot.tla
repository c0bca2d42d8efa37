-------------------------- MODULE NetworkSnapshot --------------------------
(***************************************************************************)
(* The network check of internal/scan/network.go: inspectNetwork starts a  *)
(* goroutine for netstat and, with -resolve, one for every known C2        *)
(* domain, takes their results from one channel until all are in or the    *)
(* deadline passes, reads netstat's rows one by one and compares what it   *)
(* has.  A collector may answer, fail, find nothing, or never return;      *)
(* after the deadline the results nobody takes stay in the channel.        *)
(***************************************************************************)
EXTENDS Naturals, FiniteSets, SequencesExt

CONSTANTS Domains,   \* KnownC2Domains
          Netstat,   \* the collector of connections
          IPs,       \* canonical addresses
          Routable,  \* those that are global and not private
          C2IPs,     \* KnownC2IPs
          NoIP,      \* an endpoint that does not parse
          Resolve,   \* the -resolve flag
          Collecting, Sent,  \* a collector that has no answer yet, or sent it
          MaxRows    \* bound: the rows netstat prints

ASSUME NamesAssumption == Netstat \notin Domains /\ IsFiniteSet(Domains)
ASSUME AddressAssumption == C2IPs \subseteq IPs /\ NoIP \notin IPs
ASSUME ResolveAssumption == Resolve \in BOOLEAN
ASSUME CollectorAssumption == Collecting # Sent

domains == IF Resolve THEN Domains ELSE {}
Names == domains \cup {Netstat}

\* A row of netstat: not TCP, with too few fields, or the remote endpoint of a
\* TCP connection that is not established or is.
Row == [kind : {"other", "short"}, ip : {NoIP}]
    \cup [kind : {"idle", "established"}, ip : IPs \cup {NoIP}]

\* The established peers among some rows, and the rows remoteEndpoints cannot
\* read (endpointIP returns "").
peersOf(rows) == {r.ip : r \in {q \in ToSet(rows) : q.kind = "established"}} \ {NoIP}
unreadable(r) == r.kind = "short" \/ (r.kind = "established" /\ r.ip = NoIP)

\* What a collector sends: an error, "no such host", netstat's rows or the
\* addresses of a domain.
Result == [name : Names, err : {"none", "failed", "notfound"},
           ips : SUBSET IPs, rows : Seq(Row)]

failed(n) == [name |-> n, err |-> "failed", ips |-> {}, rows |-> <<>>]
notFound(n) == [failed(n) EXCEPT !.err = "notfound"]
listing(rows) == [name |-> Netstat, err |-> "none", ips |-> {}, rows |-> rows]
addresses(d, ips) == [name |-> d, err |-> "none", ips |-> ips, rows |-> <<>>]

Answers(n) ==
    {failed(n)} \cup
    IF n = Netstat
    THEN {listing(rows) : rows \in BoundedSeq(Row, MaxRows)}
    ELSE {notFound(n)} \cup {addresses(n, ips) : ips \in SUBSET IPs}

Finding == [check : {"incomplete", "limited"}, path : Names]
    \cup [check : {"match"}, indicator : Domains \cup C2IPs, ip : IPs]

incomplete(n) == [check |-> "incomplete", path |-> n]
limited(n) == [check |-> "limited", path |-> n]
match(indicator, ip) == [check |-> "match", indicator |-> indicator, ip |-> ip]

VARIABLES
    collector,  \* each goroutine: collecting, or what it sends, or gone
    results,    \* the channel
    expired,    \* ctx.Done is closed
    pc,         \* inspectNetwork: collecting, parsing, matching, done
    pending,    \* names without a result yet
    resolved,   \* domain -> addresses, for those answered
    output,     \* netstat's rows
    row,        \* remoteEndpoints: the row it is at
    endpoints,  \* the peers it has taken
    parseErr,   \* whether it met a row it cannot read
    findings

parseVars == <<row, endpoints, parseErr>>
vars == <<collector, results, expired, pc, pending, resolved, output,
          parseVars, findings>>

Init ==
    /\ collector = [n \in Names |-> Collecting]
    /\ results = <<>>
    /\ expired = FALSE
    /\ pc = "collecting"
    /\ pending = Names
    /\ resolved = [d \in {} |-> {}]
    /\ output = <<>>
    /\ row = 1
    /\ endpoints = {}
    /\ parseErr = FALSE
    /\ findings = IF Resolve THEN {} ELSE {limited(Netstat)}

-----------------------------------------------------------------------------
(* The collector goroutines and the deadline.                              *)

Collect(n) ==
    /\ collector[n] = Collecting
    /\ \E r \in Answers(n) : collector' = [collector EXCEPT ![n] = r]
    /\ UNCHANGED <<results, expired, pc, pending, resolved, output,
                   parseVars, findings>>

capacity == Cardinality(domains) + 1

Send(n) ==
    /\ collector[n] \notin {Collecting, Sent}
    /\ Len(results) < capacity
    /\ results' = Append(results, collector[n])
    /\ collector' = [collector EXCEPT ![n] = Sent]
    /\ UNCHANGED <<expired, pc, pending, resolved, output, parseVars,
                   findings>>

\* Mutant: the deadline starts with netstat's answer.
Expire_AfterNetstat ==
    /\ ~expired /\ collector[Netstat] # Collecting
    /\ expired' = TRUE
    /\ UNCHANGED <<collector, results, pc, pending, resolved, output, parseVars,
                   findings>>

Expire ==
    /\ ~expired
    /\ expired' = TRUE
    /\ UNCHANGED <<collector, results, pc, pending, resolved, output, parseVars,
                   findings>>

-----------------------------------------------------------------------------
(* inspectNetwork.                                                         *)

\* The finding for a result that is an error.
failure(r) == IF r.err = "notfound" THEN {limited(r.name)} ELSE {incomplete(r.name)}

TakeError(r) ==
    /\ r.err # "none"
    /\ findings' = findings \cup failure(r)
    /\ UNCHANGED <<resolved, output>>

TakeRows(r) ==
    /\ r.err = "none" /\ r.name = Netstat
    /\ output' = r.rows
    /\ UNCHANGED <<resolved, findings>>

TakeAddresses(r) ==
    LET routable == r.ips \cap Routable IN
    /\ r.err = "none" /\ r.name # Netstat
    /\ resolved' = [d \in DOMAIN resolved \cup {r.name} |->
                       IF d = r.name THEN routable ELSE resolved[d]]
    /\ findings' = IF routable = {} THEN findings \cup {limited(r.name)} ELSE findings
    /\ UNCHANGED output

TakeResult ==
    /\ pc = "collecting" /\ pending # {}
    /\ results # <<>>
    /\ LET r == Head(results) IN
          /\ TakeError(r) \/ TakeRows(r) \/ TakeAddresses(r)
          /\ pending' = pending \ {r.name}
    /\ results' = Tail(results)
    /\ UNCHANGED <<collector, expired, pc, parseVars>>

\* Mutant: the deadline drops what is pending without a word.
TakeDeadline_Silent ==
    /\ pc = "collecting" /\ pending # {}
    /\ expired
    /\ pending' = {}
    /\ UNCHANGED <<collector, results, expired, pc, resolved, output, parseVars,
                   findings>>

\* select picks either of two ready cases: a result that is in the channel at
\* the deadline may be lost.
TakeDeadline ==
    /\ pc = "collecting" /\ pending # {}
    /\ expired
    /\ findings' = findings \cup {incomplete(n) : n \in pending}
    /\ pending' = {}
    /\ UNCHANGED <<collector, results, expired, pc, resolved, output, parseVars>>

AllCollected == pending = {}

EndCollection ==
    /\ pc = "collecting"
    /\ AllCollected
    /\ pc' = "parsing"
    /\ UNCHANGED <<collector, results, expired, pending, resolved, output, parseVars,
                   findings>>

\* remoteEndpoints takes the rows in turn.
AtRow == pc = "parsing" /\ row <= Len(output)

SkipRow ==
    /\ AtRow
    /\ output[row].kind \in {"other", "idle"}
    /\ row' = row + 1
    /\ UNCHANGED <<collector, results, expired, pc, pending, resolved, output,
                   endpoints, parseErr, findings>>

TakePeer ==
    /\ AtRow
    /\ output[row].kind = "established" /\ output[row].ip # NoIP
    /\ endpoints' = endpoints \cup {output[row].ip}
    /\ row' = row + 1
    /\ UNCHANGED <<collector, results, expired, pc, pending, resolved, output,
                   parseErr, findings>>

\* Mutant: the first row that cannot be read ends the loop.
PassUnreadable_Break ==
    /\ AtRow
    /\ unreadable(output[row])
    /\ parseErr' = TRUE
    /\ row' = Len(output) + 1
    /\ UNCHANGED <<collector, results, expired, pc, pending, resolved, output,
                   endpoints, findings>>

PassUnreadable ==
    /\ AtRow
    /\ unreadable(output[row])
    /\ parseErr' = TRUE
    /\ row' = row + 1
    /\ UNCHANGED <<collector, results, expired, pc, pending, resolved, output,
                   endpoints, findings>>

EndRows ==
    /\ pc = "parsing" /\ row > Len(output)
    /\ pc' = "matching"
    /\ findings' = findings \cup (IF parseErr THEN {incomplete(Netstat)} ELSE {})
    /\ UNCHANGED <<collector, results, expired, pending, resolved, output, parseVars>>

listedPeers == {match(ip, ip) : ip \in C2IPs \cap endpoints}

\* The first matching address of each domain is reported.
domainMatches(picked) == {match(d, picked[d]) : d \in DOMAIN picked}

matching == {d \in DOMAIN resolved : resolved[d] \cap endpoints # {}}

matchNetworkEndpoints ==
    \E picked \in [matching -> IPs] :
        /\ \A d \in matching : picked[d] \in resolved[d] \cap endpoints
        /\ findings' = findings \cup listedPeers \cup domainMatches(picked)

MatchEndpoints ==
    /\ pc = "matching"
    /\ matchNetworkEndpoints
    /\ pc' = "done"
    /\ UNCHANGED <<collector, results, expired, pending, resolved, output, parseVars>>

remoteEndpoints == SkipRow \/ TakePeer \/ PassUnreadable \/ EndRows

inspectNetwork ==
    \/ TakeResult \/ TakeDeadline \/ EndCollection
    \/ remoteEndpoints
    \/ MatchEndpoints

Next ==
    \/ \E n \in Names : Collect(n) \/ Send(n)
    \/ Expire
    \/ inspectNetwork

Spec == Init /\ [][Next]_vars

\* The timer of the context fires and the scan goroutine runs; nothing is
\* assumed of netstat or of a name server.
FairSpec == Spec /\ WF_vars(Expire) /\ WF_vars(inspectNetwork)

-----------------------------------------------------------------------------
(* Properties.                                                             *)

Missing(n) == incomplete(n) \in findings \/ limited(n) \in findings

\* Whatever fails, answers late or never, the check ends having either said
\* that a source is missing or compared all that source answered; for no
\* domain both (inspectNetwork, remoteEndpoints).
EverySourceIsAccounted ==
    pc = "done" =>
        /\ \A d \in domains : Missing(d) <=> ~(d \in DOMAIN resolved /\ resolved[d] # {})
        /\ incomplete(Netstat) \notin findings =>
              /\ collector[Netstat] = Sent
              /\ \A r \in ToSet(output) : ~unreadable(r)

\* A failing name server never costs a match that needs no name server, and a
\* row that cannot be read or is passed over costs no match of the rows before
\* and after it: every established peer netstat printed is reported if it is
\* listed or a domain resolved to it in time; and only such peers are.
PeersAreCompared ==
    LET peers == peersOf(output) IN
    pc = "done" =>
        /\ \A ip \in C2IPs \cap peers : match(ip, ip) \in findings
        /\ \A d \in DOMAIN resolved : resolved[d] \cap peers # {} =>
              \E ip \in resolved[d] \cap peers : match(d, ip) \in findings
        /\ \A f \in findings : f.check = "match" =>
              /\ f.ip \in peers
              /\ \/ f.indicator = f.ip /\ f.ip \in C2IPs
                 \/ f.indicator \in DOMAIN resolved /\ f.ip \in resolved[f.indicator]

\* Collectors that never return do not keep the check from ending.
CheckEnds == <>(pc = "done")
=============================================================================
