----------------------- MODULE NetworkSnapshot_proofs -----------------------
(* What the network check accounts for, whatever the collectors do and        *)
(* whenever the deadline passes, for any domains and addresses.               *)
EXTENDS NetworkSnapshot, SequenceTheorems, FiniteSetTheorems, TLAPS

(* A result is in one place: with its goroutine, in the channel, or taken.    *)
ChannelInv ==
  /\ collector \in [Names -> Result \cup {Collecting, Sent}]
  /\ \A n \in Names : collector[n] \in Answers(n) \cup {Collecting, Sent}
  /\ results \in Seq(Result)
  /\ \A i \in 1..Len(results) :
       /\ results[i] \in Answers(results[i].name)
       /\ collector[results[i].name] = Sent
  /\ \A i, j \in 1..Len(results) : results[i].name = results[j].name => i = j

(* While inspectNetwork waits, whatever is in the channel is awaited, and     *)
(* whatever is awaited no more was sent.                                      *)
PendingInv ==
  /\ pc \in {"collecting", "parsing", "matching", "done"}
  /\ pending \subseteq Names
  /\ pc # "collecting" => pending = {}
  /\ pending # {} =>
       /\ \A i \in 1..Len(results) : results[i].name \in pending
       /\ \A n \in Names \ pending : collector[n] = Sent

(* What is known of a source agrees with what was said of it.                 *)
Resolved(d) == d \in DOMAIN resolved /\ resolved[d] # {}

KnownInv ==
  /\ DOMAIN resolved \subseteq domains \ pending
  /\ resolved \in [DOMAIN resolved -> SUBSET IPs]
  /\ \A d \in domains \cap pending : ~Missing(d)
  /\ \A d \in domains \ pending : Missing(d) <=> ~Resolved(d)
  /\ Netstat \notin pending /\ incomplete(Netstat) \notin findings => collector[Netstat] = Sent

(* The loop over the rows has taken the peers of the rows before the one it   *)
(* is at, all of them, and knows whether one of these could not be read.      *)
PeerAt(i) == output[i].kind = "established" /\ output[i].ip # NoIP

RowsInv ==
  /\ output \in Seq(Row)
  /\ row \in 1..(Len(output) + 1)
  /\ endpoints = {output[i].ip : i \in {j \in 1..(row - 1) : PeerAt(j)}}
  /\ parseErr <=> \E i \in 1..(row - 1) : unreadable(output[i])
  /\ pc = "collecting" => row = 1
  /\ pc \in {"matching", "done"} => row = Len(output) + 1
  /\ pc \in {"matching", "done"} /\ parseErr => incomplete(Netstat) \in findings
  /\ pc # "done" => \A f \in findings : f.check # "match"

NetworkInv == ChannelInv /\ PendingInv /\ KnownInv /\ RowsInv /\ PeersAreCompared

-----------------------------------------------------------------------------
(* What a collector can answer bears its name.                                *)
LEMMA AnswerLemma ==
  ASSUME NEW n \in Names, NEW r \in Answers(n)
  PROVE  r \in Result /\ r.name = n
<1>1. failed(n) \in Result /\ failed(n).name = n
  BY EmptySeq DEF failed, Result
<1>2. notFound(n) \in Result /\ notFound(n).name = n
  BY EmptySeq DEF notFound, failed, Result
<1>3. ASSUME NEW ips \in SUBSET IPs PROVE addresses(n, ips) \in Result /\ addresses(n, ips).name = n
  BY EmptySeq DEF addresses, Result
<1>4. ASSUME n = Netstat, NEW rows \in BoundedSeq(Row, MaxRows)
      PROVE  listing(rows) \in Result /\ listing(rows).name = n
  <2>1. PICK k \in 0..MaxRows : rows \in [1..k -> Row]
    BY DEF BoundedSeq, SeqOf
  <2>2. k \in Nat
    OBVIOUS
  <2>3. rows \in Seq(Row)
    BY <2>1, <2>2 DEF Seq
  <2> QED
    BY <1>4, <2>3 DEF listing, Result
<1> QED
  BY <1>1, <1>2, <1>3, <1>4 DEF Answers

(* Once every row has been passed, the peers taken are all there are, and a   *)
(* row that could not be read is known of.                                    *)
LEMMA AllRowsLemma ==
  ASSUME RowsInv, row = Len(output) + 1
  PROVE  /\ endpoints = peersOf(output)
         /\ parseErr <=> \E r \in ToSet(output) : unreadable(r)
<1>1. output \in Seq(Row) /\ Len(output) \in Nat /\ DOMAIN output = 1..Len(output)
  BY DEF RowsInv
<1>2. row - 1 = Len(output)
  BY <1>1
<1>3. ToSet(output) = {output[i] : i \in 1..Len(output)}
  BY <1>1 DEF ToSet
<1>4. endpoints = {output[i].ip : i \in {j \in 1..Len(output) : PeerAt(j)}}
  BY <1>2 DEF RowsInv
<1>5. peersOf(output) \subseteq endpoints
  <2>1. SUFFICES ASSUME NEW r \in ToSet(output), r.kind = "established", r.ip # NoIP
                 PROVE  r.ip \in endpoints
    BY DEF peersOf
  <2>2. PICK i \in 1..Len(output) : output[i] = r
    BY <1>3
  <2> QED
    BY <1>4, <2>1, <2>2 DEF PeerAt
<1>6. endpoints \subseteq peersOf(output)
  <2>1. SUFFICES ASSUME NEW i \in 1..Len(output), PeerAt(i)
                 PROVE  output[i].ip \in peersOf(output)
    BY <1>4
  <2>2. output[i] \in ToSet(output)
    BY <1>3
  <2> QED
    BY <2>1, <2>2 DEF peersOf, PeerAt
<1>7. parseErr <=> \E i \in 1..Len(output) : unreadable(output[i])
  BY <1>2 DEF RowsInv
<1> QED
  BY <1>3, <1>5, <1>6, <1>7

(* A goroutine collects: nothing that was said changes.                       *)
LEMMA CollectStep == ASSUME NetworkInv, NEW n \in Names, Collect(n) PROVE NetworkInv'
<1>1. PICK r \in Answers(n) : collector' = [collector EXCEPT ![n] = r]
  BY DEF Collect
<1>2. /\ collector[n] = Collecting /\ Collecting # Sent /\ r \in Result
      /\ UNCHANGED <<results, expired, pc, pending, resolved, output, parseVars, findings>>
  BY CollectorAssumption, AnswerLemma DEF Collect
<1>3. ChannelInv'
  BY <1>1, <1>2 DEF NetworkInv, ChannelInv
<1>4. PendingInv'
  BY <1>1, <1>2 DEF NetworkInv, PendingInv, ChannelInv
<1>5. KnownInv'
  BY <1>1, <1>2 DEF NetworkInv, KnownInv, ChannelInv, Missing, Resolved, Names
<1>6. RowsInv' /\ PeersAreCompared'
  BY <1>2 DEF NetworkInv, RowsInv, PeerAt, PeersAreCompared, parseVars
<1> QED
  BY <1>3, <1>4, <1>5, <1>6 DEF NetworkInv

(* Its result goes to the end of the channel, where no other has its name.    *)
LEMMA SendStep == ASSUME NetworkInv, NEW n \in Names, Send(n) PROVE NetworkInv'
<1> DEFINE r == collector[n]
<1>1. /\ r \in Answers(n) /\ r \in Result /\ r.name = n /\ collector[n] # Sent
      /\ results' = Append(results, r) /\ collector' = [collector EXCEPT ![n] = Sent]
      /\ UNCHANGED <<expired, pc, pending, resolved, output, parseVars, findings>>
  BY AnswerLemma DEF Send, NetworkInv, ChannelInv
<1> HIDE DEF r
<1>2. /\ results \in Seq(Result)
      /\ \A i \in 1..Len(results) : /\ results[i] \in Answers(results[i].name)
                                    /\ collector[results[i].name] = Sent
      /\ \A i, j \in 1..Len(results) : results[i].name = results[j].name => i = j
      /\ collector \in [Names -> Result \cup {Collecting, Sent}]
      /\ \A m \in Names : collector[m] \in Answers(m) \cup {Collecting, Sent}
  BY DEF NetworkInv, ChannelInv
<1>3. /\ results' \in Seq(Result) /\ Len(results') = Len(results) + 1 /\ Len(results) \in Nat
      /\ \A i \in 1..Len(results) : results'[i] = results[i]
      /\ results'[Len(results) + 1] = r
  BY <1>1, <1>2, AppendProperties
<1>4. \A i \in 1..Len(results) : results[i].name # n /\ results[i] \in Result /\ results[i].name \in Names
  <2>1. ASSUME NEW i \in 1..Len(results)
        PROVE  results[i].name # n /\ results[i] \in Result
    BY <1>1, <1>2
  <2> QED
    BY <2>1 DEF Result
<1>5. ChannelInv'
  <2>1. /\ collector' \in [Names -> Result \cup {Collecting, Sent}]
        /\ \A m \in Names : collector'[m] \in Answers(m) \cup {Collecting, Sent}
    BY <1>1, <1>2
  <2>2. ASSUME NEW i \in 1..Len(results')
        PROVE  results'[i] \in Answers(results'[i].name) /\ collector'[results'[i].name] = Sent
    BY <1>1, <1>2, <1>3, <1>4
  <2>3. ASSUME NEW i \in 1..Len(results'), NEW j \in 1..Len(results'),
               results'[i].name = results'[j].name
        PROVE  i = j
    BY <1>1, <1>2, <1>3, <1>4, <2>3
  <2> QED
    BY <1>3, <2>1, <2>2, <2>3 DEF ChannelInv
<1>6. PendingInv'
  <2>1. ASSUME pending # {} PROVE n \in pending /\ \A i \in 1..Len(results') : results'[i].name \in pending
    BY <1>1, <1>3, <2>1 DEF NetworkInv, PendingInv
  <2> QED
    BY <1>1, <1>2, <2>1 DEF NetworkInv, PendingInv
<1>7. KnownInv'
  BY <1>1, <1>2 DEF NetworkInv, KnownInv, Missing, Resolved, Names
<1>8. RowsInv' /\ PeersAreCompared'
  BY <1>1 DEF NetworkInv, RowsInv, PeerAt, PeersAreCompared, parseVars
<1> QED
  BY <1>5, <1>6, <1>7, <1>8 DEF NetworkInv

-----------------------------------------------------------------------------
(* What a result that is taken leaves in the channel.                         *)
LEMMA TakeLemma ==
  ASSUME NetworkInv, TakeResult
  PROVE  LET r == Head(results) IN
           /\ r \in Answers(r.name) /\ r \in Result /\ r.name \in pending
           /\ collector[r.name] = Sent
           /\ ChannelInv' /\ PendingInv'
           /\ pending' = pending \ {r.name} /\ pc' = pc /\ pc = "collecting"
<1> DEFINE r == Head(results)
<1>1. /\ pending' = pending \ {r.name} /\ results' = Tail(results) /\ results # <<>>
      /\ pc = "collecting" /\ pending # {} /\ UNCHANGED <<collector, expired, pc>>
  BY DEF TakeResult
<1>2. /\ results \in Seq(Result)
      /\ \A i \in 1..Len(results) : /\ results[i] \in Answers(results[i].name)
                                    /\ collector[results[i].name] = Sent
                                    /\ results[i].name \in pending
      /\ \A i, j \in 1..Len(results) : results[i].name = results[j].name => i = j
      /\ pending \subseteq Names
      /\ \A n \in Names \ pending : collector[n] = Sent
  BY <1>1 DEF NetworkInv, ChannelInv, PendingInv
<1>3. /\ r \in Result /\ results' \in Seq(Result) /\ Len(results') = Len(results) - 1
      /\ \A i \in 1..Len(results') : results'[i] = results[i + 1]
      /\ r = results[1] /\ Len(results) \in Nat /\ Len(results) > 0
  BY <1>1, <1>2, HeadTailProperties, LenProperties, EmptySeq
<1> HIDE DEF r
<1>4. r \in Answers(r.name) /\ r.name \in pending /\ collector[r.name] = Sent
  BY <1>2, <1>3
<1>5. \A i \in 1..Len(results') : i + 1 \in 1..Len(results)
  BY <1>3
<1>6. ChannelInv'
  <2>1. \A i \in 1..Len(results') :
          results'[i] \in Answers(results'[i].name) /\ collector'[results'[i].name] = Sent
    BY <1>1, <1>2, <1>3, <1>5
  <2>2. ASSUME NEW i \in 1..Len(results'), NEW j \in 1..Len(results'),
               results'[i].name = results'[j].name
        PROVE  i = j
    <3>1. i + 1 = j + 1
      <4>1. i + 1 \in 1..Len(results) /\ j + 1 \in 1..Len(results)
        BY <1>5
      <4>2. results[i + 1].name = results[j + 1].name
        BY <1>3, <2>2
      <4> QED
        BY <1>2, <4>1, <4>2
    <3> QED
      BY <1>3, <3>1
  <2> QED
    BY <1>1, <1>3, <2>1, <2>2 DEF NetworkInv, ChannelInv
<1>7. PendingInv'
  <2>1. \A i \in 1..Len(results') : results'[i].name \in pending'
    <3>1. ASSUME NEW i \in 1..Len(results') PROVE results[i + 1].name # r.name
      <4>1. i + 1 # 1 /\ 1 \in 1..Len(results)
        BY <1>3
      <4> QED
        BY <1>2, <1>3, <1>5, <4>1
    <3> QED
      BY <1>1, <1>2, <1>3, <1>5, <3>1
  <2> QED
    BY <1>1, <1>2, <1>4, <2>1 DEF NetworkInv, PendingInv
<1> QED
  BY <1>1, <1>3, <1>4, <1>6, <1>7 DEF r

(* Whatever a source answers, it is known or said to be missing.              *)
LEMMA TakeStep == ASSUME NetworkInv, TakeResult PROVE NetworkInv'
<1> DEFINE r == Head(results)
<1>1. /\ r \in Answers(r.name) /\ r \in Result /\ r.name \in pending /\ collector[r.name] = Sent
      /\ ChannelInv' /\ PendingInv' /\ pending' = pending \ {r.name}
      /\ pc' = pc /\ pc = "collecting"
  BY TakeLemma
<1>2. /\ TakeError(r) \/ TakeRows(r) \/ TakeAddresses(r)
      /\ collector' = collector /\ UNCHANGED <<row, endpoints, parseErr>>
  BY DEF TakeResult, parseVars
<1> HIDE DEF r
<1>3. r.name \in Names /\ (r.name # Netstat => r.name \in domains)
  BY <1>1 DEF Result, Names
<1>4. /\ DOMAIN resolved \subseteq domains \ pending
      /\ resolved \in [DOMAIN resolved -> SUBSET IPs]
      /\ \A d \in domains \cap pending : ~Missing(d)
      /\ \A d \in domains \ pending : Missing(d) <=> ~Resolved(d)
      /\ Netstat \notin pending /\ incomplete(Netstat) \notin findings => collector[Netstat] = Sent
  BY DEF NetworkInv, KnownInv
<1>5. Netstat \notin domains
  BY NamesAssumption DEF domains
<1>6. \A m, n \in Names : /\ incomplete(m) # limited(n)
                          /\ incomplete(m) = incomplete(n) => m = n
                          /\ limited(m) = limited(n) => m = n
  BY DEF incomplete, limited
<1>7. \A d \in domains : d \in Names
  BY DEF Names
<1>8. Netstat \notin pending' => collector'[Netstat] = Sent \/ incomplete(Netstat) \in findings
  BY <1>1, <1>2, <1>4
<1>9. /\ row = 1 /\ endpoints = {} /\ parseErr = FALSE
      /\ \A f \in findings : f.check # "match"
      /\ output \in Seq(Row)
  BY <1>1 DEF NetworkInv, RowsInv
<1>10. ASSUME output' \in Seq(Row), \A f \in findings' : f.check # "match"
       PROVE  RowsInv' /\ PeersAreCompared'
  <2>1. Len(output') \in Nat
    BY <1>10
  <2>2. row' = 1 /\ endpoints' = {} /\ parseErr' = FALSE /\ pc' = "collecting"
    BY <1>1, <1>2, <1>9
  <2>3. row' \in 1..(Len(output') + 1) /\ 1..(row' - 1) = {}
    BY <2>1, <2>2
  <2>4. RowsInv'
    BY <1>10, <2>2, <2>3 DEF RowsInv
  <2> QED
    BY <2>2, <2>4 DEF PeersAreCompared
<1>11. \A n : incomplete(n).check # "match" /\ limited(n).check # "match"
  BY DEF incomplete, limited
<1>12. CASE TakeError(r)
  <2>1. /\ UNCHANGED <<resolved, output>>
        /\ findings' = findings \cup {incomplete(r.name)} \/ findings' = findings \cup {limited(r.name)}
    BY <1>12 DEF TakeError, failure
  <2>2. \A d \in domains : Missing(d)' <=> Missing(d) \/ d = r.name
    BY <1>3, <1>6, <1>7, <2>1 DEF Missing
  <2>3. KnownInv'
    BY <1>1, <1>4, <1>8, <2>1, <2>2 DEF KnownInv, Resolved
  <2>4. RowsInv' /\ PeersAreCompared'
    BY <1>9, <1>10, <1>11, <2>1
  <2> QED
    BY <1>1, <2>3, <2>4 DEF NetworkInv
<1>13. CASE TakeRows(r)
  <2>1. UNCHANGED <<resolved, findings>> /\ r.name = Netstat /\ output' \in Seq(Row)
    BY <1>1, <1>13 DEF TakeRows, Result
  <2>2. KnownInv'
    BY <1>1, <1>4, <1>5, <1>8, <2>1 DEF KnownInv, Resolved, Missing
  <2>3. RowsInv' /\ PeersAreCompared'
    BY <1>9, <1>10, <2>1
  <2> QED
    BY <1>1, <2>2, <2>3 DEF NetworkInv
<1>14. CASE TakeAddresses(r)
  <2> DEFINE routable == r.ips \cap Routable
  <2>1. /\ output' = output /\ r.name # Netstat /\ routable \in SUBSET IPs
        /\ resolved' = [d \in DOMAIN resolved \cup {r.name} |->
                          IF d = r.name THEN routable ELSE resolved[d]]
        /\ findings' = IF routable = {} THEN findings \cup {limited(r.name)} ELSE findings
    BY <1>1, <1>14 DEF TakeAddresses, Result
  <2> HIDE DEF routable
  <2>2. \A d \in domains : Missing(d)' <=> Missing(d) \/ (d = r.name /\ routable = {})
    BY <1>3, <1>6, <1>7, <2>1 DEF Missing
  <2>3. \A d \in domains : Resolved(d)' <=> IF d = r.name THEN routable # {} ELSE Resolved(d)
    BY <2>1 DEF Resolved
  <2>4. /\ DOMAIN resolved' \subseteq domains \ pending'
        /\ resolved' \in [DOMAIN resolved' -> SUBSET IPs]
    BY <1>1, <1>3, <1>4, <2>1
  <2>5. /\ \A d \in domains \cap pending' : ~Missing(d)'
        /\ \A d \in domains \ pending' : Missing(d)' <=> ~Resolved(d)'
    BY <1>1, <1>3, <1>4, <2>1, <2>2, <2>3
  <2>6. KnownInv'
    BY <1>1, <1>4, <1>8, <2>1, <2>4, <2>5 DEF KnownInv
  <2>7. RowsInv' /\ PeersAreCompared'
    BY <1>9, <1>10, <1>11, <2>1
  <2> QED
    BY <1>1, <2>6, <2>7 DEF NetworkInv
<1> QED
  BY <1>2, <1>12, <1>13, <1>14

(* The deadline speaks for every source that has not answered.                *)
LEMMA DeadlineStep == ASSUME NetworkInv, TakeDeadline PROVE NetworkInv'
<1>1. /\ findings' = findings \cup {incomplete(n) : n \in pending}
      /\ pending' = {} /\ pc = "collecting"
      /\ UNCHANGED <<collector, results, expired, pc, resolved, output, row, endpoints, parseErr>>
  BY DEF TakeDeadline, parseVars
<1>2. ChannelInv' /\ PendingInv'
  BY <1>1 DEF NetworkInv, ChannelInv, PendingInv
<1>3. \A d \in domains : Missing(d)' <=> Missing(d) \/ d \in pending
  BY <1>1 DEF Missing, incomplete, limited
<1>4. KnownInv'
  BY <1>1, <1>3 DEF NetworkInv, KnownInv, Resolved
<1>5. \A n : incomplete(n).check # "match"
  BY DEF incomplete
<1>6. RowsInv' /\ PeersAreCompared'
  BY <1>1, <1>5 DEF NetworkInv, RowsInv, PeerAt, PeersAreCompared
<1> QED
  BY <1>2, <1>4, <1>6 DEF NetworkInv

-----------------------------------------------------------------------------
(* The rows.                                                                  *)

(* A step of the loop takes what its row says and passes on.                  *)
LEMMA RowStep ==
  ASSUME NetworkInv, SkipRow \/ TakePeer \/ PassUnreadable
  PROVE  NetworkInv'
<1>1. /\ pc = "parsing" /\ row <= Len(output) /\ row' = row + 1
      /\ UNCHANGED <<collector, results, expired, pc, pending, resolved, output, findings>>
  BY DEF SkipRow, TakePeer, PassUnreadable, AtRow
<1>2. /\ output \in Seq(Row) /\ Len(output) \in Nat /\ row \in 1..Len(output)
      /\ endpoints = {output[i].ip : i \in {j \in 1..(row - 1) : PeerAt(j)}}
      /\ parseErr <=> \E i \in 1..(row - 1) : unreadable(output[i])
      /\ \A f \in findings : f.check # "match"
  BY <1>1 DEF NetworkInv, RowsInv
<1>3. output[row] \in Row
  BY <1>2
<1>4. endpoints' = endpoints \cup {output[i].ip : i \in {j \in {row} : PeerAt(j)}}
  <2>1. CASE SkipRow
    BY <2>1 DEF SkipRow, PeerAt
  <2>2. CASE TakePeer
    BY <2>2 DEF TakePeer, PeerAt
  <2>3. CASE PassUnreadable
    BY <2>3 DEF PassUnreadable, PeerAt, unreadable
  <2> QED
    BY <2>1, <2>2, <2>3
<1>5. parseErr' <=> parseErr \/ unreadable(output[row])
  BY DEF SkipRow, TakePeer, PassUnreadable, unreadable
<1>6. 1..(row' - 1) = 1..(row - 1) \cup {row}
  BY <1>1, <1>2
<1>7. endpoints' = {output[i].ip : i \in {j \in 1..(row' - 1) : PeerAt(j)}}
  BY <1>2, <1>4, <1>6
<1>8. parseErr' <=> \E i \in 1..(row' - 1) : unreadable(output[i])
  BY <1>2, <1>5, <1>6
<1>9. row' \in 1..(Len(output) + 1)
  BY <1>1, <1>2
<1>10. RowsInv'
  BY <1>1, <1>2, <1>7, <1>8, <1>9 DEF RowsInv, PeerAt
<1>11. ChannelInv' /\ PendingInv' /\ KnownInv' /\ PeersAreCompared'
  BY <1>1 DEF NetworkInv, ChannelInv, PendingInv, KnownInv, Resolved, Missing, PeersAreCompared
<1> QED
  BY <1>10, <1>11 DEF NetworkInv

(* At the end of the rows the check says so if one of them could not be read. *)
LEMMA EndRowsStep == ASSUME NetworkInv, EndRows PROVE NetworkInv'
<1>1. /\ pc = "parsing" /\ row > Len(output) /\ pc' = "matching"
      /\ findings' = findings \cup (IF parseErr THEN {incomplete(Netstat)} ELSE {})
      /\ UNCHANGED <<collector, results, expired, pending, resolved, output, row, endpoints, parseErr>>
  BY DEF EndRows, parseVars
<1>2. row = Len(output) + 1
  <2>1. Len(output) \in Nat /\ row \in 1..(Len(output) + 1)
    BY DEF NetworkInv, RowsInv
  <2> QED
    BY <1>1, <2>1
<1>3. incomplete(Netstat).check # "match"
  BY DEF incomplete
<1>4. RowsInv'
  BY <1>1, <1>2, <1>3 DEF NetworkInv, RowsInv, PeerAt
<1>5. \A d \in domains : Missing(d)' <=> Missing(d)
  BY <1>1, NamesAssumption DEF Missing, incomplete, limited, domains
<1>6. ChannelInv' /\ PendingInv' /\ PeersAreCompared'
  BY <1>1 DEF NetworkInv, ChannelInv, PendingInv, PeersAreCompared
<1>7. KnownInv'
  BY <1>1, <1>5 DEF NetworkInv, KnownInv, Resolved
<1> QED
  BY <1>4, <1>6, <1>7 DEF NetworkInv

(* The comparison takes every peer and every domain that is known.            *)
LEMMA MatchStep == ASSUME NetworkInv, MatchEndpoints PROVE NetworkInv'
<1>1. PICK picked \in [matching -> IPs] :
        /\ \A d \in matching : picked[d] \in resolved[d] \cap endpoints
        /\ findings' = findings \cup listedPeers \cup domainMatches(picked)
  BY DEF MatchEndpoints, matchNetworkEndpoints
<1>2. /\ pc = "matching" /\ pc' = "done"
      /\ UNCHANGED <<collector, results, expired, pending, resolved, output, row, endpoints, parseErr>>
  BY DEF MatchEndpoints, parseVars
<1>3. ChannelInv' /\ PendingInv'
  BY <1>2 DEF NetworkInv, ChannelInv, PendingInv
<1>4. \A d \in domains : Missing(d)' <=> Missing(d)
  <2>1. \A f \in listedPeers \cup domainMatches(picked) : f.check = "match"
    BY DEF listedPeers, domainMatches, match
  <2>2. \A d : incomplete(d).check # "match" /\ limited(d).check # "match"
    BY DEF incomplete, limited
  <2> QED
    BY <1>1, <2>1, <2>2 DEF Missing
<1>5. KnownInv'
  BY <1>1, <1>2, <1>4 DEF NetworkInv, KnownInv, Resolved
<1>6. RowsInv /\ row = Len(output) + 1 /\ \A f \in findings : f.check # "match"
  BY <1>2 DEF NetworkInv, RowsInv
<1>7. RowsInv'
  BY <1>1, <1>2, <1>6 DEF RowsInv, PeerAt
<1>8. endpoints = peersOf(output)
  BY <1>6, AllRowsLemma
<1>9. PeersAreCompared'
  <2>1. ASSUME NEW ip \in C2IPs \cap endpoints PROVE match(ip, ip) \in findings'
    BY <1>1 DEF listedPeers
  <2>2. ASSUME NEW d \in DOMAIN resolved, resolved[d] \cap endpoints # {}
        PROVE  \E ip \in resolved[d] \cap endpoints : match(d, ip) \in findings'
    <3>1. d \in matching
      BY <2>2 DEF matching
    <3>2. match(d, picked[d]) \in domainMatches(picked)
      BY <3>1 DEF domainMatches
    <3> QED
      BY <1>1, <3>1, <3>2
  <2>3. ASSUME NEW f \in findings', f.check = "match"
        PROVE  /\ f.ip \in endpoints
               /\ \/ f.indicator = f.ip /\ f.ip \in C2IPs
                  \/ f.indicator \in DOMAIN resolved /\ f.ip \in resolved[f.indicator]
    <3>1. f \in listedPeers \/ f \in domainMatches(picked)
      BY <1>1, <1>6, <2>3
    <3>2. CASE f \in listedPeers
      BY <3>2 DEF listedPeers, match
    <3>3. CASE f \in domainMatches(picked)
      <4>1. PICK d \in matching : f = match(d, picked[d])
        BY <3>3 DEF domainMatches
      <4>2. f.indicator = d /\ f.ip = picked[d]
        BY <4>1 DEF match
      <4> QED
        BY <1>1, <4>1, <4>2 DEF matching
    <3> QED
      BY <3>1, <3>2, <3>3
  <2> QED
    BY <1>2, <1>8, <2>1, <2>2, <2>3 DEF PeersAreCompared
<1> QED
  BY <1>3, <1>5, <1>7, <1>9 DEF NetworkInv

(* Every step of a goroutine, of the clock and of the scanner.                *)
LEMMA NetworkStep == ASSUME NetworkInv, [Next]_vars PROVE NetworkInv'
<1>1. ASSUME UNCHANGED <<collector, results, pending, resolved, output, row, endpoints, parseErr, findings>>,
             pc' = pc \/ (pc = "collecting" /\ pc' = "parsing" /\ pending = {})
      PROVE  NetworkInv'
  <2>1. ChannelInv' /\ PendingInv' /\ KnownInv'
    BY <1>1 DEF NetworkInv, ChannelInv, PendingInv, KnownInv, Resolved, Missing
  <2>2. RowsInv'
    BY <1>1 DEF NetworkInv, RowsInv, PeerAt
  <2>3. PeersAreCompared'
    BY <1>1 DEF NetworkInv, PeersAreCompared
  <2> QED
    BY <2>1, <2>2, <2>3 DEF NetworkInv
<1>2. CASE Expire
  BY <1>1, <1>2 DEF Expire, parseVars
<1>3. CASE EndCollection
  BY <1>1, <1>3 DEF EndCollection, AllCollected, parseVars
<1>4. CASE UNCHANGED vars
  BY <1>1, <1>4 DEF vars, parseVars
<1> QED
  BY <1>2, <1>3, <1>4, CollectStep, SendStep, TakeStep, DeadlineStep, RowStep, EndRowsStep, MatchStep
  DEF Next, inspectNetwork, remoteEndpoints

(* The invariant holds of every network check (inspectNetwork).               *)
THEOREM Invariance == Spec => []NetworkInv
<1>1. Init => NetworkInv
  <2>1. SUFFICES ASSUME Init PROVE NetworkInv
    OBVIOUS
  <2>2. results = <<>> /\ results \in Seq(Result) /\ Len(results) = 0
    BY <2>1, EmptySeq DEF Init
  <2>3. ChannelInv /\ PendingInv
    BY <2>1, <2>2 DEF Init, ChannelInv, PendingInv
  <2>4. KnownInv
    BY <2>1, NamesAssumption, ResolveAssumption
    DEF Init, KnownInv, Missing, Resolved, domains, Names, incomplete, limited
  <2>5. RowsInv
    BY <2>1, EmptySeq DEF Init, RowsInv, limited
  <2> QED
    BY <2>1, <2>3, <2>4, <2>5 DEF Init, NetworkInv, PeersAreCompared
<1> QED
  BY <1>1, NetworkStep, PTL DEF Spec

(* Whatever fails, answers late or never, each source is compared or said to  *)
(* be missing, and so is a row that cannot be read (inspectNetwork,           *)
(* remoteEndpoints).                                                          *)
THEOREM EverySourceIsAlwaysAccounted == Spec => []EverySourceIsAccounted
<1>1. NetworkInv => EverySourceIsAccounted
  <2>1. SUFFICES ASSUME NetworkInv, pc = "done" PROVE EverySourceIsAccounted
    BY DEF EverySourceIsAccounted
  <2>2. /\ \A d \in domains : Missing(d) <=> ~Resolved(d)
        /\ incomplete(Netstat) \notin findings => collector[Netstat] = Sent
    BY <2>1 DEF NetworkInv, PendingInv, KnownInv
  <2>3. RowsInv /\ row = Len(output) + 1 /\ (parseErr => incomplete(Netstat) \in findings)
    BY <2>1 DEF NetworkInv, RowsInv
  <2>4. parseErr <=> \E r \in ToSet(output) : unreadable(r)
    BY <2>3, AllRowsLemma
  <2> QED
    BY <2>2, <2>3, <2>4 DEF EverySourceIsAccounted, Resolved
<1> QED
  BY <1>1, Invariance, PTL

(* Whatever the rows around it and whatever the other sources, no peer that   *)
(* netstat printed escapes the comparison, and nothing else matches, for any  *)
(* number of rows (remoteEndpoints, matchNetworkEndpoints).                   *)
THEOREM PeersAreAlwaysCompared == Spec => []PeersAreCompared
  BY Invariance, PTL DEF NetworkInv

-----------------------------------------------------------------------------
(* The channel has a place for every collector (results in inspectNetwork): a *)
(* goroutine that has its answer can send it and end, before the deadline and *)
(* after it, whether or not the scanner still listens.                        *)
NobodyWaits == \A n \in Names : collector[n] \notin {Collecting, Sent} => Len(results) < capacity

THEOREM NobodyEverWaits == Spec => []NobodyWaits
<1>1. NetworkInv => NobodyWaits
  <2>1. SUFFICES ASSUME NetworkInv, NEW n \in Names, collector[n] \notin {Collecting, Sent}
                 PROVE  Len(results) < capacity
    BY DEF NobodyWaits
  <2> DEFINE others == Names \ {n}
             senders == [i \in 1..Len(results) |-> results[i].name]
  <2>2. /\ results \in Seq(Result) /\ Len(results) \in Nat
        /\ \A i \in 1..Len(results) : results[i].name \in others
        /\ \A i, j \in 1..Len(results) : results[i].name = results[j].name => i = j
    <3>1. /\ results \in Seq(Result) /\ Len(results) \in Nat
          /\ \A i, j \in 1..Len(results) : results[i].name = results[j].name => i = j
          /\ \A i \in 1..Len(results) : collector[results[i].name] = Sent
      BY <2>1, LenProperties DEF NetworkInv, ChannelInv
    <3>2. ASSUME NEW i \in 1..Len(results) PROVE results[i] \in Result /\ results[i].name # n
      BY <2>1, <3>1
    <3> QED
      BY <3>1, <3>2 DEF Result
  <2>3. senders \in Injection(1..Len(results), others)
    BY <2>2 DEF Injection, IsInjective
  <2>4. /\ IsFiniteSet(domains) /\ Netstat \notin domains
    BY NamesAssumption, FS_EmptySet DEF domains
  <2>5. IsFiniteSet(Names) /\ Cardinality(Names) = Cardinality(domains) + 1
    BY <2>4, FS_AddElement DEF Names
  <2>6. IsFiniteSet(others) /\ Cardinality(others) = Cardinality(Names) - 1
    BY <2>1, <2>5, FS_RemoveElement
  <2>7. Cardinality(1..Len(results)) = Len(results)
    BY <2>2, FS_Interval
  <2> HIDE DEF senders, others
  <2>8. Len(results) <= Cardinality(others)
    BY <2>3, <2>6, <2>7, FS_Injection
  <2>9. Cardinality(domains) \in Nat
    BY <2>4, FS_CardinalityType
  <2> QED
    BY <2>2, <2>5, <2>6, <2>8, <2>9 DEF capacity
<1> QED
  BY <1>1, Invariance, PTL
=============================================================================
