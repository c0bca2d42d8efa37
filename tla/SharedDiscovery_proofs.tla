------------------------ MODULE SharedDiscovery_proofs ------------------------
(* That no consumer is shown an entry twice, that each is shown what it would *)
(* come to alone, that every staging name is reported and nothing is missed   *)
(* in silence, for any tree, any links and any roots: inside each other,      *)
(* around each other, linked, or given twice.                                 *)
EXTENDS SharedDiscovery, FiniteSetTheorems, SequenceTheorems, TLAPS

Paths == Seq(STRING)

(* Some root walked already contains the path.                                *)
Done(p) == \E w \in walked : IsPrefix(w.resolved, p)

(* A root is a directory, and is only entered where no earlier one contains it. *)
RootInv ==
  /\ \A w \in walked : w.resolved \in Directories
  /\ pc = "walk" => root.resolved \in Directories /\ ~Done(root.resolved)
  /\ pc # "walk" => stack = <<>> /\ reading = NoPath

(* What is still to be visited: entries below the root, none of them in       *)
(* another, and none inside a root that was walked before.                    *)
StackInv ==
  /\ stack \in Seq(Tree)
  /\ \A k \in DOMAIN stack :
       /\ IsPrefix(root.resolved, stack[k])
       /\ \A j \in DOMAIN stack : IsPrefix(stack[j], stack[k]) => j = k
       /\ \A w \in walked : ~IsStrictPrefix(w.resolved, stack[k])

(* The directory about to be listed is apart from all that, and in no root    *)
(* that was walked before.                                                    *)
ReadingInv ==
  reading # NoPath =>
    /\ reading \in Directories /\ IsPrefix(root.resolved, reading) /\ ~Done(reading)
    /\ \A k \in DOMAIN stack : ~IsPrefix(stack[k], reading) /\ ~IsPrefix(reading, stack[k])

(* What the walk of the present root has passed: not what is still to be      *)
(* visited, and not what is in the directory about to be listed.              *)
Passed(p) ==
  /\ pc = "walk" /\ IsPrefix(root.resolved, p)
  /\ \A k \in DOMAIN stack : ~IsPrefix(stack[k], p)
  /\ reading # NoPath => ~IsStrictPrefix(reading, p)

(* Only what has been passed was shown, and once.                             *)
VisitedInv ==
  /\ visited \in [AllVisitors -> [Tree -> {0, 1}]]
  /\ \A v \in AllVisitors, p \in Tree : visited[v][p] = 1 => Done(p) \/ Passed(p)

DiscoveryInv == RootInv /\ StackInv /\ ReadingInv /\ VisitedInv

-----------------------------------------------------------------------------
(* Prefixes of paths, name by name.                                           *)
LEMMA PrefixLemma ==
  ASSUME NEW s \in Paths, NEW t \in Paths
  PROVE  IsPrefix(s, t) <=> Len(s) <= Len(t) /\ \A i \in 1..Len(s) : s[i] = t[i]
<1>1. CASE Len(s) <= Len(t)
  <2>1. /\ Len(SubSeq(s, 1, Len(s))) = Len(s) /\ Len(SubSeq(t, 1, Len(s))) = Len(s)
        /\ \A i \in 1..Len(s) : SubSeq(s, 1, Len(s))[i] = s[i] /\ SubSeq(t, 1, Len(s))[i] = t[i]
        /\ SubSeq(s, 1, Len(s)) \in Paths /\ SubSeq(t, 1, Len(s)) \in Paths
    BY <1>1 DEF Paths
  <2>2. ASSUME \A i \in 1..Len(s) : s[i] = t[i]
        PROVE  SubSeq(s, 1, Len(s)) = SubSeq(t, 1, Len(s))
    BY <2>1, <2>2 DEF Paths
  <2>3. QED
    BY <1>1, <2>1, <2>2 DEF IsPrefix
<1>2. QED
  BY <1>1 DEF IsPrefix

LEMMA ReflexiveLemma ==
  ASSUME NEW s \in Paths
  PROVE  IsPrefix(s, s)
  BY PrefixLemma DEF Paths

LEMMA TransitiveLemma ==
  ASSUME NEW s \in Paths, NEW t \in Paths, NEW u \in Paths, IsPrefix(s, t), IsPrefix(t, u)
  PROVE  IsPrefix(s, u)
  BY PrefixLemma DEF Paths

LEMMA AntisymmetricLemma ==
  ASSUME NEW s \in Paths, NEW t \in Paths, IsPrefix(s, t), IsPrefix(t, s)
  PROVE  s = t
<1>1. Len(s) = Len(t) /\ \A i \in 1..Len(s) : s[i] = t[i]
  BY PrefixLemma DEF Paths
<1>2. QED
  BY <1>1 DEF Paths

(* Two prefixes of one path lie on one line.                                  *)
LEMMA ComparableLemma ==
  ASSUME NEW s \in Paths, NEW t \in Paths, NEW u \in Paths, IsPrefix(s, u), IsPrefix(t, u)
  PROVE  IsPrefix(s, t) \/ IsPrefix(t, s)
  BY PrefixLemma DEF Paths

(* Between a directory and its entry there is nothing.                        *)
LEMMA ChildLemma ==
  ASSUME NEW s \in Paths, NEW p \in Paths, NEW c \in Paths,
         IsPrefix(p, c), Len(c) = Len(p) + 1, IsPrefix(s, c), s # c
  PROVE  IsPrefix(s, p)
<1>1. Len(s) # Len(c)
  <2>1. SUFFICES ASSUME Len(s) = Len(c) PROVE FALSE
    OBVIOUS
  <2>2. \A i \in 1..Len(s) : s[i] = c[i]
    BY PrefixLemma
  <2>3. QED
    BY <2>1, <2>2 DEF Paths
<1>2. Len(s) <= Len(p) /\ \A i \in 1..Len(s) : s[i] = p[i]
  BY <1>1, PrefixLemma DEF Paths
<1>3. QED
  BY <1>2, PrefixLemma

(* The entries of one directory lie side by side.                             *)
LEMMA SiblingLemma ==
  ASSUME NEW p \in Paths, NEW b \in Paths, NEW c \in Paths,
         Len(b) = Len(p) + 1, Len(c) = Len(p) + 1, IsPrefix(b, c)
  PROVE  b = c
<1>1. Len(b) = Len(c) /\ \A i \in 1..Len(b) : b[i] = c[i]
  BY PrefixLemma
<1>2. QED
  BY <1>1 DEF Paths

LEMMA TreeLemma ==
  /\ Tree \subseteq Paths /\ Directories \subseteq Tree /\ Directories \subseteq Paths
  /\ \A r : resolvable(r) => resolve(r) \in Directories
  BY TreeAssumption DEF Paths, resolvable, resolve

(* An order of some entries: a list of them that names none twice.            *)
LEMMA OrderLemma ==
  ASSUME NEW got \in SUBSET Tree, NEW order \in SetToSeqs(got)
  PROVE  /\ order \in Seq(Tree)
         /\ \A k \in DOMAIN order : order[k] \in got
         /\ \A j, k \in DOMAIN order : order[j] = order[k] => j = k
<1>1. Cardinality(got) \in Nat
  BY TreeAssumption, FS_Subset, FS_CardinalityType
<1>2. order \in [1..Cardinality(got) -> got] /\
      \A i, j \in 1..Cardinality(got) : i # j => order[i] # order[j]
  BY DEF SetToSeqs
<1>3. QED
  BY <1>1, <1>2

(* A list put before another.                                                 *)
LEMMA ConcatLemma ==
  ASSUME NEW s \in Seq(Tree), NEW t \in Seq(Tree)
  PROVE  /\ s \o t \in Seq(Tree)
         /\ \A k \in DOMAIN (s \o t) :
              \/ k \in DOMAIN s /\ (s \o t)[k] = s[k]
              \/ \E i \in DOMAIN t : k = Len(s) + i /\ (s \o t)[k] = t[i]
<1>1. ASSUME NEW k \in DOMAIN (s \o t), k \notin DOMAIN s
      PROVE  \E i \in DOMAIN t : k = Len(s) + i /\ (s \o t)[k] = t[i]
  <2>1. k - Len(s) \in DOMAIN t /\ k = Len(s) + (k - Len(s)) /\ (s \o t)[k] = t[k - Len(s)]
    BY <1>1
  <2>2. QED
    BY <2>1
<1>2. QED
  BY <1>1

(* The head of what is to be visited is in it once, and the rest after it.    *)
LEMMA TailLemma ==
  ASSUME NEW s \in Seq(Tree), s # <<>>
  PROVE  /\ Head(s) \in Tree /\ 1 \in DOMAIN s /\ Head(s) = s[1]
         /\ Tail(s) \in Seq(Tree)
         /\ \A k \in DOMAIN Tail(s) : k + 1 \in DOMAIN s /\ k + 1 # 1 /\ Tail(s)[k] = s[k + 1]
  OBVIOUS

-----------------------------------------------------------------------------
(* Nothing was walked, nothing is to be visited, nothing was shown.           *)
LEMMA InitLemma == Init => DiscoveryInv
<1>1. SUFFICES ASSUME Init PROVE DiscoveryInv
  OBVIOUS
<1>2. /\ pc = "tops" /\ walked = {} /\ stack = <<>> /\ reading = NoPath
      /\ visited = [v \in AllVisitors |-> [p \in Tree |-> 0]]
  BY <1>1 DEF Init
<1>3. RootInv /\ ReadingInv
  BY <1>2 DEF RootInv, ReadingInv
<1>4. StackInv
  <2>1. stack \in Seq(Tree) /\ DOMAIN stack = {}
    BY <1>2
  <2>2. QED
    BY <2>1 DEF StackInv
<1>5. VisitedInv
  BY <1>2 DEF VisitedInv
<1>6. QED
  BY <1>3, <1>4, <1>5 DEF DiscoveryInv

(* A step that neither moves the walk nor shows anything.                     *)
LEMMA IdleLemma ==
  ASSUME DiscoveryInv, UNCHANGED <<root, walked, stack, reading, visited>>,
         pc' = pc \/ (pc # "walk" /\ pc' # "walk")
  PROVE  DiscoveryInv'
<1>1. \A p : (Done(p) <=> Done(p)') /\ (Passed(p) => Passed(p)')
  BY DEF DiscoveryInv, RootInv, Done, Passed
<1>2. RootInv' /\ StackInv' /\ ReadingInv'
  BY DEF DiscoveryInv, RootInv, StackInv, ReadingInv, Done
<1>3. VisitedInv'
  BY <1>1 DEF DiscoveryInv, VisitedInv
<1>4. QED
  BY <1>2, <1>3 DEF DiscoveryInv

(* walkScanRoots takes the next root: of what earlier walks showed nothing is *)
(* forgotten, and the new one is inside none of them.                         *)
LEMMA NextRootLemma == DiscoveryInv /\ NextRoot => DiscoveryInv'
<1>1. SUFFICES ASSUME DiscoveryInv, NextRoot PROVE DiscoveryInv'
  OBVIOUS
<1> DEFINE r == Head(left)
<1>2. CASE ~resolvable(r) \/ rootCovered(resolve(r))
  <2>1. UNCHANGED <<pc, root, walked, stack, reading, visited>>
    BY <1>1, <1>2 DEF NextRoot
  <2>2. QED
    BY <1>1, <2>1, IdleLemma
<1>3. CASE resolvable(r) /\ ~rootCovered(resolve(r))
  <2>1. /\ pc = "root" /\ pc' = "walk" /\ reading = NoPath
        /\ UNCHANGED <<walked, reading, visited>>
        /\ root' = [absolute |-> r, resolved |-> resolve(r)] /\ stack' = <<resolve(r)>>
    BY <1>1, <1>3 DEF NextRoot, DiscoveryInv, RootInv
  <2> DEFINE top == resolve(r)
  <2>2. top \in Directories /\ top \in Tree /\ top \in Paths /\ root'.resolved = top
    BY <1>3, <2>1, TreeLemma
  <2>3. ~Done(top) /\ \A p : Done(p) <=> Done(p)'
    BY <1>3, <2>1 DEF Done, rootCovered, pathWithin
  <2>4. stack' \in Seq(Tree) /\ DOMAIN stack' = {1} /\ stack'[1] = top
    BY <2>1, <2>2
  <2> HIDE DEF top, r
  <2>5. RootInv'
    BY <1>1, <2>1, <2>2, <2>3 DEF DiscoveryInv, RootInv, Done
  <2>6. StackInv'
    BY <2>1, <2>2, <2>3, <2>4, ReflexiveLemma DEF StackInv, Done, IsStrictPrefix
  <2>7. ReadingInv'
    BY <2>1 DEF ReadingInv
  <2>8. VisitedInv'
    BY <1>1, <2>1, <2>3 DEF DiscoveryInv, VisitedInv, Passed
  <2>9. QED
    BY <2>5, <2>6, <2>7, <2>8 DEF DiscoveryInv
<1>4. QED
  BY <1>2, <1>3

(* The root is done: what was shown of it lies in a root that was walked.     *)
LEMMA FinishRootLemma == DiscoveryInv /\ FinishRoot => DiscoveryInv'
<1>1. SUFFICES ASSUME DiscoveryInv, FinishRoot PROVE DiscoveryInv'
  OBVIOUS
<1>2. /\ pc = "walk" /\ pc' = "root" /\ reading = NoPath /\ stack = <<>>
      /\ UNCHANGED <<stack, reading, visited>> /\ walked' = walked \cup {root}
  BY <1>1 DEF FinishRoot
<1>3. \A p : Done(p) \/ Passed(p) => Done(p)'
  BY <1>2 DEF Done, Passed
<1>4. RootInv' /\ ReadingInv'
  BY <1>1, <1>2 DEF DiscoveryInv, RootInv, ReadingInv
<1>5. StackInv'
  <2>1. stack' \in Seq(Tree) /\ DOMAIN stack' = {}
    BY <1>2
  <2>2. QED
    BY <2>1 DEF StackInv
<1>6. VisitedInv'
  BY <1>1, <1>2, <1>3 DEF DiscoveryInv, VisitedInv
<1>7. QED
  BY <1>4, <1>5, <1>6 DEF DiscoveryInv

(* A directory is listed: its entries lie side by side, apart from what was   *)
(* to be visited, and nothing in it has been shown.                           *)
LEMMA ReadLemma == DiscoveryInv /\ ReadDirectory => DiscoveryInv'
<1>1. SUFFICES ASSUME DiscoveryInv, ReadDirectory PROVE DiscoveryInv'
  OBVIOUS
<1>2. /\ pc = "walk" /\ reading # NoPath /\ reading' = NoPath
      /\ UNCHANGED <<pc, root, walked, visited>>
  BY <1>1 DEF ReadDirectory
<1>3. PICK got \in SUBSET (Children(reading) \cap there) :
        \E order \in SetToSeqs(got) : stack' = order \o stack
  BY <1>1 DEF ReadDirectory
<1>4. PICK order \in SetToSeqs(got) : stack' = order \o stack
  BY <1>3
<1>5. /\ reading \in Paths /\ reading \in Directories /\ IsPrefix(root.resolved, reading)
      /\ ~Done(reading) /\ root.resolved \in Paths
      /\ \A k \in DOMAIN stack : ~IsPrefix(stack[k], reading) /\ ~IsPrefix(reading, stack[k])
      /\ \A w \in walked : w.resolved \in Paths
  BY <1>1, <1>2, TreeLemma DEF DiscoveryInv, RootInv, ReadingInv
<1>6. \A c \in got : c \in Paths /\ c \in Tree /\ IsPrefix(reading, c) /\ Len(c) = Len(reading) + 1
  BY TreeLemma DEF Children
<1>7. /\ order \in Seq(Tree)
      /\ \A k \in DOMAIN order : order[k] \in got
      /\ \A j, k \in DOMAIN order : order[j] = order[k] => j = k
  BY <1>6, OrderLemma
<1>8. /\ stack' \in Seq(Tree) /\ stack \in Seq(Tree)
      /\ \A k \in DOMAIN stack' :
           \/ k \in DOMAIN order /\ stack'[k] = order[k]
           \/ \E i \in DOMAIN stack : k = Len(order) + i /\ stack'[k] = stack[i]
  BY <1>1, <1>4, <1>7, ConcatLemma DEF DiscoveryInv, StackInv
<1>9. \A k \in DOMAIN stack : stack[k] \in Paths
  BY <1>8, TreeLemma
<1>10. RootInv' /\ ReadingInv'
  BY <1>1, <1>2 DEF DiscoveryInv, RootInv, ReadingInv, Done
<1>11. ASSUME NEW c \in got
       PROVE  /\ IsPrefix(root.resolved, c)
              /\ \A w \in walked : ~IsStrictPrefix(w.resolved, c)
              /\ \A i \in DOMAIN stack : ~IsPrefix(stack[i], c) /\ ~IsPrefix(c, stack[i])
  <2>1. IsPrefix(root.resolved, c)
    BY <1>5, <1>6, TransitiveLemma
  <2>2. ASSUME NEW w \in walked, IsStrictPrefix(w.resolved, c) PROVE FALSE
    <3>1. IsPrefix(w.resolved, reading)
      BY <1>5, <1>6, <2>2, ChildLemma DEF IsStrictPrefix
    <3>2. QED
      BY <1>5, <3>1 DEF Done
  <2>3. ASSUME NEW i \in DOMAIN stack, IsPrefix(stack[i], c) PROVE FALSE
    <3>1. stack[i] # c
      BY <1>5, <1>6
    <3>2. IsPrefix(stack[i], reading)
      BY <1>5, <1>6, <1>9, <2>3, <3>1, ChildLemma
    <3>3. QED
      BY <1>5, <3>2
  <2>4. ASSUME NEW i \in DOMAIN stack, IsPrefix(c, stack[i]) PROVE FALSE
    <3>1. IsPrefix(reading, stack[i])
      BY <1>5, <1>6, <1>9, <2>4, TransitiveLemma
    <3>2. QED
      BY <1>5, <3>1
  <2>5. QED
    BY <2>1, <2>2, <2>3, <2>4
<1>12. StackInv'
  <2>1. ASSUME NEW k \in DOMAIN stack'
        PROVE  /\ IsPrefix(root.resolved, stack'[k])
               /\ \A w \in walked : ~IsStrictPrefix(w.resolved, stack'[k])
    <3>1. CASE k \in DOMAIN order /\ stack'[k] = order[k]
      BY <1>7, <1>11, <3>1
    <3>2. CASE \E i \in DOMAIN stack : k = Len(order) + i /\ stack'[k] = stack[i]
      BY <1>1, <3>2 DEF DiscoveryInv, StackInv
    <3>3. QED
      BY <1>8, <3>1, <3>2
  <2>2. ASSUME NEW j \in DOMAIN stack', NEW k \in DOMAIN stack', IsPrefix(stack'[j], stack'[k])
        PROVE  j = k
    <3>1. CASE j \in DOMAIN order /\ stack'[j] = order[j] /\ k \in DOMAIN order /\ stack'[k] = order[k]
      <4>1. order[j] \in got /\ order[k] \in got /\ IsPrefix(order[j], order[k])
        BY <1>7, <2>2, <3>1
      <4>2. order[j] = order[k]
        BY <1>5, <1>6, <4>1, SiblingLemma
      <4>3. QED
        BY <1>7, <3>1, <4>2
    <3>2. CASE /\ j \in DOMAIN order /\ stack'[j] = order[j]
               /\ \E i \in DOMAIN stack : k = Len(order) + i /\ stack'[k] = stack[i]
      BY <1>7, <1>11, <2>2, <3>2
    <3>3. CASE /\ k \in DOMAIN order /\ stack'[k] = order[k]
               /\ \E i \in DOMAIN stack : j = Len(order) + i /\ stack'[j] = stack[i]
      BY <1>7, <1>11, <2>2, <3>3
    <3>4. CASE /\ \E i \in DOMAIN stack : j = Len(order) + i /\ stack'[j] = stack[i]
               /\ \E i \in DOMAIN stack : k = Len(order) + i /\ stack'[k] = stack[i]
      BY <1>1, <2>2, <3>4 DEF DiscoveryInv, StackInv
    <3>5. QED
      BY <1>8, <3>1, <3>2, <3>3, <3>4
  <2>3. QED
    BY <1>2, <1>8, <2>1, <2>2 DEF StackInv
<1>13. VisitedInv'
  <2>1. ASSUME NEW p \in Tree, Passed(p) PROVE Passed(p)'
    <3>1. p \in Paths /\ ~IsStrictPrefix(reading, p)
      BY <1>2, <2>1, TreeLemma DEF Passed
    <3>2. ASSUME NEW c \in got, IsPrefix(c, p) PROVE FALSE
      <4>1. IsPrefix(reading, p)
        BY <1>5, <1>6, <3>1, <3>2, TransitiveLemma
      <4>2. reading # p
        BY <1>5, <1>6, <3>1, <3>2, PrefixLemma DEF Paths
      <4>3. QED
        BY <3>1, <4>1, <4>2 DEF IsStrictPrefix
    <3>3. ASSUME NEW k \in DOMAIN stack' PROVE ~IsPrefix(stack'[k], p)
      BY <1>7, <1>8, <2>1, <3>2 DEF Passed
    <3>4. QED
      BY <1>2, <2>1, <3>3 DEF Passed
  <2>2. \A p : Done(p) => Done(p)'
    BY <1>2 DEF Done
  <2>3. QED
    BY <1>1, <1>2, <2>1, <2>2 DEF DiscoveryInv, VisitedInv
<1>14. QED
  BY <1>10, <1>12, <1>13 DEF DiscoveryInv

(* An entry is visited: it was never shown before, and what it was taken from *)
(* holds nothing that contains it or lies in it.                              *)
LEMMA VisitLemma == DiscoveryInv /\ VisitEntry => DiscoveryInv'
<1>1. SUFFICES ASSUME DiscoveryInv, VisitEntry PROVE DiscoveryInv'
  OBVIOUS
<1>0. PICK e : e = Head(stack)
  OBVIOUS
<1>2. /\ pc = "walk" /\ reading = NoPath /\ stack # <<>> /\ stack' = Tail(stack)
      /\ UNCHANGED <<pc, root, walked>>
  BY <1>1 DEF VisitEntry
<1>3. stack \in Seq(Tree)
  BY <1>1 DEF DiscoveryInv, StackInv
<1>4. /\ e \in Tree /\ e \in Paths /\ 1 \in DOMAIN stack /\ e = stack[1]
      /\ stack' \in Seq(Tree)
      /\ \A k \in DOMAIN stack' : k + 1 \in DOMAIN stack /\ k + 1 # 1 /\ stack'[k] = stack[k + 1]
  BY <1>0, <1>2, <1>3, TailLemma, TreeLemma
<1>5. (stopsAt(e) /\ UNCHANGED <<reading, visited>>) \/ (~stopsAt(e) /\ Offer(e))
  BY <1>0, <1>1 DEF VisitEntry
<1>6. /\ IsPrefix(root.resolved, e) /\ \A w \in walked : ~IsStrictPrefix(w.resolved, e)
      /\ \A k \in DOMAIN stack' : ~IsPrefix(e, stack'[k]) /\ ~IsPrefix(stack'[k], e)
  BY <1>1, <1>4 DEF DiscoveryInv, StackInv
<1>7. StackInv'
  BY <1>1, <1>2, <1>4 DEF DiscoveryInv, StackInv
<1>8. RootInv'
  BY <1>1, <1>2 DEF DiscoveryInv, RootInv, Done
<1>9. \A p : (Done(p) <=> Done(p)')
  BY <1>2 DEF Done
<1>10. CASE stopsAt(e) /\ UNCHANGED <<reading, visited>>
  <2>1. \A p : Passed(p) => Passed(p)'
    BY <1>2, <1>4, <1>10 DEF Passed
  <2>2. ReadingInv' /\ VisitedInv'
    BY <1>1, <1>2, <1>9, <1>10, <2>1 DEF DiscoveryInv, VisitedInv, ReadingInv
  <2>3. QED
    BY <1>7, <1>8, <2>2 DEF DiscoveryInv
<1>11. CASE ~stopsAt(e) /\ Offer(e)
  <2>1. /\ (reading' = e /\ e \in Directories) \/ reading' = NoPath
        /\ visited' \in [AllVisitors -> [Tree -> {0, 1, 2}]]
        /\ \A v \in AllVisitors, p \in Tree :
             IF p = e THEN visited'[v][p] \in {visited[v][p], visited[v][p] + 1}
             ELSE visited'[v][p] = visited[v][p]
    BY <1>1, <1>4, <1>11 DEF Offer, DiscoveryInv, VisitedInv
  <2>2. e \in Directories => ~Done(e)
    <3>1. ASSUME e \in Directories, NEW w \in walked, IsPrefix(w.resolved, e) PROVE FALSE
      BY <1>6, <1>11, <3>1 DEF IsStrictPrefix, stopsAt, walkedBefore
    <3>2. QED
      BY <3>1 DEF Done
  <2>3. ~Done(e)
    <3>1. ASSUME NEW w \in walked, IsPrefix(w.resolved, e) PROVE FALSE
      <4>1. w.resolved = e
        BY <1>6, <3>1 DEF IsStrictPrefix
      <4>2. e \in Directories
        BY <1>1, <4>1 DEF DiscoveryInv, RootInv
      <4>3. QED
        BY <2>2, <3>1, <4>2 DEF Done
    <3>2. QED
      BY <3>1 DEF Done
  <2>4. ~Passed(e) /\ \A v \in AllVisitors : visited[v][e] = 0
    <3>1. ~Passed(e)
      BY <1>4, ReflexiveLemma DEF Passed
    <3>2. QED
      BY <1>1, <1>4, <2>3, <3>1 DEF DiscoveryInv, VisitedInv
  <2>5. Passed(e)'
    BY <1>2, <1>6, <2>1 DEF Passed, IsStrictPrefix
  <2>6. ASSUME NEW p \in Tree, Passed(p) PROVE Passed(p)'
    BY <1>2, <1>4, <2>1, <2>6 DEF Passed, IsStrictPrefix
  <2>7. ReadingInv'
    BY <1>2, <1>6, <1>9, <2>1, <2>2 DEF ReadingInv
  <2>8. VisitedInv'
    <3>1. ASSUME NEW v \in AllVisitors, NEW p \in Tree
          PROVE  visited'[v][p] \in {0, 1} /\ (visited'[v][p] = 1 => Done(p)' \/ Passed(p)')
      <4>1. CASE p = e
        BY <1>4, <2>1, <2>4, <2>5, <4>1
      <4>2. CASE p # e
        BY <1>1, <1>9, <2>1, <2>6, <4>2 DEF DiscoveryInv, VisitedInv
      <4>3. QED
        BY <4>1, <4>2
    <3>2. visited' \in [AllVisitors -> [Tree -> {0, 1}]]
      BY <2>1, <3>1
    <3>3. QED
      BY <3>1, <3>2 DEF VisitedInv
  <2>9. QED
    BY <1>7, <1>8, <2>7, <2>8 DEF DiscoveryInv
<1>12. QED
  BY <1>5, <1>10, <1>11

-----------------------------------------------------------------------------
LEMMA StepLemma == DiscoveryInv /\ [Next]_vars => DiscoveryInv'
<1>1. SUFFICES ASSUME DiscoveryInv, [Next]_vars PROVE DiscoveryInv'
  OBVIOUS
<1>2. CASE UNCHANGED vars \/ (\E p \in Fleeting : ComeOrGo(p)) \/ CheckTops \/ AllWalked
  BY <1>1, <1>2, IdleLemma DEF vars, ComeOrGo, CheckTops, AllWalked
<1>3. QED
  BY <1>1, <1>2, NextRootLemma, VisitLemma, ReadLemma, FinishRootLemma DEF Next

(* What is still to be visited stays apart from what was shown, whatever      *)
(* order the listings come in and whatever comes or goes meanwhile            *)
(* (walkScanRoots and walkClassified).                                        *)
THEOREM Invariance == Spec => []DiscoveryInv
<1>1. QED
  BY InitLemma, StepLemma, PTL DEF Spec

(* However the roots overlap, are linked or are repeated, no consumer of the  *)
(* shared walk is shown an entry twice (rootCovered and the walked roots that *)
(* a later walk steps over).                                                  *)
THEOREM EachIsShownOnce == Spec => []AtMostOnce
<1>1. DiscoveryInv => AtMostOnce
  BY DEF DiscoveryInv, VisitedInv, AtMostOnce
<1>2. QED
  BY <1>1, Invariance, PTL

-----------------------------------------------------------------------------
(* What each consumer is shown.  The consumers that prune by name alone:      *)
Searchers == {"project", "python", "git"}

(* No root is a link that lies in something a consumer prunes.  The walk of   *)
(* such a root begins with what that consumer skipped last, which is never    *)
(* reset between two roots.                                                   *)
RootsLieOpen ==
  \A l \in requested \cap DOMAIN Links, a \in Directories, v \in Searchers :
    IsStrictPrefix(a, l) => ~prunes(v, a, a)

(* A root is walked under its own name or that of a link, and none twice.     *)
Given(w) ==
  w.resolved \in Directories /\ (w.absolute = w.resolved \/ w.absolute \in DOMAIN Links)

GivenInv ==
  /\ resolvable(home) /\ extra \in Seq(Paths) /\ left \in Seq(Paths)
  /\ \A k \in DOMAIN left : left[k] \in DOMAIN Links => left[k] \in requested
  /\ \A w \in walked : Given(w)
  /\ \A w, x \in walked : w.resolved = x.resolved => w = x
  /\ pc = "walk" => Given(root)

(* Something the consumer prunes lies above a path in the walk it belongs to. *)
PrunedIn(w, v, p) ==
  \E a \in Directories : IsPrefix(w.resolved, a) /\ IsStrictPrefix(a, p) /\ prunes(v, a, a)

(* What contains an entry still to be visited contains those before it.       *)
ChainInv ==
  \A k \in DOMAIN stack, a \in Directories :
    IsStrictPrefix(a, stack[k]) =>
      /\ \A j \in DOMAIN stack : j < k => IsStrictPrefix(a, stack[j])
      /\ reading # NoPath => IsPrefix(a, reading)

(* A consumer skips something it pruned; and what is to be visited is below   *)
(* that exactly if it is below anything it pruned.                            *)
Walks == walked \cup {w \in {root} : pc = "walk"}

SkipInv ==
  /\ skip \in [AllVisitors -> Paths]
  /\ \A v \in Searchers : skip[v] # NoPath =>
       \E w \in Walks, a \in Directories :
         IsPrefix(w.resolved, a) /\ skip[v] = Spelled(w, a) /\ prunes(v, a, a)
  /\ \A v \in Searchers :
       /\ \A k \in DOMAIN stack :
            PrunedIn(root, v, stack[k]) <=>
              skip[v] # NoPath /\ IsStrictPrefix(skip[v], display(stack[k]))
       /\ reading # NoPath =>
            (PrunedIn(root, v, reading) \/ prunes(v, reading, reading) <=>
               skip[v] # NoPath /\ IsPrefix(skip[v], display(reading)))

(* Nothing above what is to be visited is excluded, and it was returned by    *)
(* the listings that led to it.                                               *)
OpenInv ==
  /\ \A k \in DOMAIN stack, a \in Tree : IsPrefix(root.resolved, a) /\ IsPrefix(a, stack[k]) =>
       /\ a # stack[k] => ~excluded(a, display(a))
       /\ a # root.resolved => a \notin hidden
  /\ reading # NoPath =>
       \A a \in Tree : IsPrefix(root.resolved, a) /\ IsPrefix(a, reading) =>
         /\ ~excluded(a, display(a))
         /\ a # root.resolved => a \notin hidden

(* What a listing did not return is in a directory that the walk has listed.  *)
Listed(q) ==
  \/ Done(q)
  \/ /\ pc = "walk" /\ IsPrefix(root.resolved, q)
     /\ \A k \in DOMAIN stack : ~IsPrefix(stack[k], q)
     /\ reading # NoPath => ~IsPrefix(reading, q)

HiddenInv == \A c \in hidden : \E q \in Directories : c \in Children(q) /\ Listed(q)

(* A consumer was shown a path exactly if a walk of its own would reach it.   *)
Fair(w, p) ==
  \A v \in Searchers : visited[v][p] = 1 <=> Reachable(p, w) /\ ~PrunedIn(w, v, p)

FairInv ==
  \A p \in Tree :
    /\ Done(p) => \E w \in walked : Innermost(p, w) /\ Fair(w, p)
    /\ ~Done(p) /\ Passed(p) => Fair(root, p)

PruningInv ==
  DiscoveryInv /\ GivenInv /\ ChainInv /\ SkipInv /\ OpenInv /\ HiddenInv /\ FairInv

-----------------------------------------------------------------------------
Respelled(s, t, p) == s \o SubSeq(p, Len(t) + 1, Len(p))
Shifted(x, s, t, p) ==
  \A i \in 1..Len(p), k \in 1..Len(x) : i > Len(t) /\ Len(t) + k = Len(s) + i => x[k] = p[i]

(* The spelling of a path below a root, name by name.                         *)
LEMMA SpelledLemma ==
  ASSUME NEW s \in Paths, NEW t \in Paths,
         NEW p \in Paths, IsPrefix(t, p)
  PROVE  /\ Respelled(s, t, p) \in Paths
         /\ Len(t) + Len(Respelled(s, t, p)) = Len(s) + Len(p)
         /\ \A i \in 1..Len(s) : Respelled(s, t, p)[i] = s[i]
         /\ Shifted(Respelled(s, t, p), s, t, p)
<1> DEFINE rest == SubSeq(p, Len(t) + 1, Len(p))
<1>1. Len(t) <= Len(p)
  BY PrefixLemma
<1>2. /\ rest \in Paths /\ Len(p) = Len(t) + Len(rest)
      /\ \A i \in 1..Len(rest) : rest[i] = p[i + Len(t)]
  <2> DEFINE m == Len(t) + 1
             n == Len(p)
  <2>1. /\ m \in Int /\ n \in Int /\ n = m - 1 + (n - m + 1) /\ m = Len(t) + 1
        /\ \A i \in m..n : p[i] \in STRING
        /\ m <= n + 1
    BY <1>1 DEF Paths
  <2> HIDE DEF m, n
  <2>2. /\ SubSeq(p, m, n) \in Paths
        /\ Len(SubSeq(p, m, n)) = IF m <= n THEN n - m + 1 ELSE 0
        /\ \A i \in 1..n - m + 1 : SubSeq(p, m, n)[i] = p[m + i - 1]
    BY <2>1, SubSeqProperties DEF Paths
  <2>3. Len(SubSeq(p, m, n)) = n - m + 1
    BY <2>1, <2>2
  <2>4. n = Len(t) + Len(SubSeq(p, m, n))
    BY <2>1, <2>3 DEF Paths
  <2>5. ASSUME NEW i \in 1..Len(SubSeq(p, m, n)) PROVE SubSeq(p, m, n)[i] = p[i + Len(t)]
    <3>1. m + i - 1 = i + Len(t)
      BY <2>1, <2>3 DEF Paths
    <3>2. QED
      BY <2>2, <2>3, <3>1
  <2>6. QED
    BY <2>2, <2>4, <2>5 DEF m, n
<1>3. Respelled(s, t, p) = s \o rest
  BY DEF Respelled
<1> HIDE DEF rest
<1>4. /\ Respelled(s, t, p) \in Paths /\ Len(Respelled(s, t, p)) = Len(s) + Len(rest)
      /\ \A i \in 1..Len(s) : Respelled(s, t, p)[i] = s[i]
      /\ \A i \in 1..Len(rest) : Respelled(s, t, p)[Len(s) + i] = rest[i]
  BY <1>2, <1>3 DEF Paths
<1>5. ASSUME NEW i \in 1..Len(p), NEW k \in 1..Len(Respelled(s, t, p)),
             i > Len(t), Len(t) + k = Len(s) + i
      PROVE  Respelled(s, t, p)[k] = p[i]
  <2> DEFINE j == i - Len(t)
  <2>1. j \in 1..Len(rest) /\ i = j + Len(t) /\ k = Len(s) + j
    BY <1>2, <1>5 DEF Paths
  <2> HIDE DEF j
  <2>2. Respelled(s, t, p)[Len(s) + j] = rest[j]
    BY <1>4, <2>1
  <2>3. rest[j] = p[i]
    BY <1>2, <2>1
  <2>4. QED
    BY <2>1, <2>2, <2>3
<1>6. Len(t) + Len(Respelled(s, t, p)) = Len(s) + Len(p)
  <2>1. Len(rest) \in Nat /\ Len(s) \in Nat /\ Len(t) \in Nat /\ Len(p) \in Nat
    BY <1>2 DEF Paths
  <2>2. QED
    BY <1>2, <1>4, <2>1
<1>7. QED
  BY <1>4, <1>5, <1>6 DEF Shifted

(* Under one root, spellings contain each other as the paths do.              *)
LEMMA SpellingLemma ==
  ASSUME NEW s \in Paths, NEW t \in Paths,
         NEW p \in Paths, NEW q \in Paths, IsPrefix(t, p), IsPrefix(t, q)
  PROVE  /\ IsPrefix(Respelled(s, t, p), Respelled(s, t, q)) <=> IsPrefix(p, q)
         /\ Respelled(s, t, p) = Respelled(s, t, q) <=> p = q
<1> DEFINE x == Respelled(s, t, p)
           y == Respelled(s, t, q)
           a == Len(s)
           r == Len(t)
<1>1. /\ a \in Nat /\ r \in Nat /\ Len(p) \in Nat /\ Len(q) \in Nat /\ r <= Len(p) /\ r <= Len(q)
      /\ \A i \in 1..r : p[i] = t[i] /\ q[i] = t[i]
  BY PrefixLemma DEF Paths
<1>2. /\ x \in Paths /\ Len(x) \in Nat /\ r + Len(x) = a + Len(p)
      /\ \A i \in 1..a : x[i] = s[i]
      /\ \A i \in 1..Len(p), k \in 1..Len(x) : i > r /\ r + k = a + i => x[k] = p[i]
  <2>1. /\ x \in Paths /\ r + Len(x) = a + Len(p)
        /\ \A i \in 1..a : x[i] = s[i]
        /\ Shifted(x, s, t, p)
    BY SpelledLemma
  <2>2. QED
    BY <2>1 DEF Paths, Shifted
<1>3. /\ y \in Paths /\ Len(y) \in Nat /\ r + Len(y) = a + Len(q)
      /\ \A i \in 1..a : y[i] = s[i]
      /\ \A i \in 1..Len(q), k \in 1..Len(y) : i > r /\ r + k = a + i => y[k] = q[i]
  <2>1. /\ y \in Paths /\ r + Len(y) = a + Len(q)
        /\ \A i \in 1..a : y[i] = s[i]
        /\ Shifted(y, s, t, q)
    BY SpelledLemma
  <2>2. QED
    BY <2>1 DEF Paths, Shifted
<1> HIDE DEF x, y, a, r
<1>4. Len(x) <= Len(y) <=> Len(p) <= Len(q)
  BY <1>1, <1>2, <1>3
<1>5. ASSUME Len(p) <= Len(q), \A i \in 1..Len(p) : p[i] = q[i], NEW k \in 1..Len(x)
      PROVE  x[k] = y[k]
  <2>1. CASE k <= a
    BY <1>1, <1>2, <1>3, <1>4, <1>5, <2>1
  <2>2. CASE k > a
    <3>1. PICK i \in 1..Len(p) : i > r /\ r + k = a + i
      <4>1. k + r - a \in 1..Len(p) /\ k + r - a > r
        BY <1>1, <1>2, <1>5, <2>2
      <4>2. QED
        BY <1>1, <1>5, <4>1
    <3>2. x[k] = p[i]
      BY <1>2, <1>5, <3>1
    <3>3. i \in 1..Len(q) /\ k \in 1..Len(y)
      BY <1>1, <1>2, <1>3, <1>4, <1>5, <3>1
    <3>4. y[k] = q[i]
      BY <1>3, <3>1, <3>3
    <3>5. QED
      BY <1>5, <3>1, <3>2, <3>4
  <2>3. QED
    BY <1>1, <1>5, <2>1, <2>2
<1>6. ASSUME Len(x) <= Len(y), \A k \in 1..Len(x) : x[k] = y[k], NEW i \in 1..Len(p)
      PROVE  p[i] = q[i]
  <2>1. CASE i <= r
    BY <1>1, <2>1
  <2>2. CASE i > r
    <3>1. i \in 1..Len(q)
      BY <1>1, <1>4, <1>6
    <3>2. PICK k \in 1..Len(x) : r + k = a + i
      <4>1. a + i - r \in 1..Len(x) /\ r + (a + i - r) = a + i
        BY <1>1, <1>2, <2>2
      <4>2. QED
        BY <4>1
    <3>3. x[k] = p[i]
      BY <1>2, <2>2, <3>2
    <3>4. k \in 1..Len(y)
      BY <1>2, <1>3, <1>6
    <3>5. y[k] = q[i]
      BY <1>3, <2>2, <3>1, <3>2, <3>4
    <3>6. QED
      BY <1>6, <3>2, <3>3, <3>5
  <2>3. QED
    BY <1>1, <2>1, <2>2
<1>7. IsPrefix(x, y) <=> IsPrefix(p, q)
  BY <1>2, <1>3, <1>4, <1>5, <1>6, PrefixLemma
<1>8. ASSUME x = y PROVE p = q
  <2>1. Len(p) = Len(q) /\ \A i \in 1..Len(p) : p[i] = q[i]
    BY <1>1, <1>2, <1>3, <1>6, <1>8
  <2>2. QED
    BY <2>1 DEF Paths
<1>9. (p = q) => (x = y)
  BY DEF x, y
<1>10. QED
  BY <1>7, <1>8, <1>9 DEF x, y

(* The root itself has the name it was given; nothing below it has less.      *)
LEMMA RootSpelling ==
  ASSUME NEW s \in Paths, NEW t \in Paths
  PROVE  /\ Respelled(s, t, t) = s
         /\ \A p \in Paths : IsPrefix(t, p) => IsPrefix(s, Respelled(s, t, p))
         /\ s = t =>
              \A p \in Paths : IsPrefix(t, p) => Respelled(s, t, p) = p
<1>1. SubSeq(t, Len(t) + 1, Len(t)) = <<>>
  BY SubSeqEmpty DEF Paths
<1>2. Respelled(s, t, t) = s
  BY <1>1, ConcatEmptySeq DEF Respelled, Paths
<1>3. ASSUME NEW p \in Paths, IsPrefix(t, p)
      PROVE  IsPrefix(s, Respelled(s, t, p))
  <2>1. /\ Respelled(s, t, p) \in Paths /\ Len(t) + Len(Respelled(s, t, p)) = Len(s) + Len(p)
        /\ \A i \in 1..Len(s) : Respelled(s, t, p)[i] = s[i]
    BY <1>3, SpelledLemma
  <2>2. Len(t) <= Len(p)
    BY <1>3, PrefixLemma
  <2>3. Len(s) <= Len(Respelled(s, t, p))
    BY <2>1, <2>2 DEF Paths
  <2>4. QED
    BY <2>1, <2>3, PrefixLemma
<1>4. ASSUME s = t, NEW p \in Paths, IsPrefix(t, p)
      PROVE  Respelled(s, t, p) = p
  <2>1. /\ Respelled(s, t, p) \in Paths
        /\ Len(t) + Len(Respelled(s, t, p)) = Len(s) + Len(p)
        /\ \A i \in 1..Len(s) : Respelled(s, t, p)[i] = s[i]
        /\ Shifted(Respelled(s, t, p), s, t, p)
    BY <1>4, SpelledLemma
  <2> DEFINE x == Respelled(s, t, p)
  <2> HIDE DEF x
  <2>2. x \in Paths /\ Len(x) = Len(p) /\ \A i \in 1..Len(t) : x[i] = t[i] /\ p[i] = t[i]
    BY <1>4, <2>1, PrefixLemma DEF Paths, x
  <2>3. \A i \in 1..Len(p) : i > Len(t) => x[i] = p[i]
    BY <1>4, <2>1, <2>2 DEF Paths, Shifted, x
  <2>4. \A i \in 1..Len(p) : x[i] = p[i]
    BY <2>2, <2>3 DEF Paths
  <2>5. x = p
    <3>1. x \in Paths /\ p \in Paths /\ Len(x) = Len(p) /\ \A i \in 1..Len(x) : x[i] = p[i]
      BY <2>2, <2>4
    <3>2. QED
      BY <3>1 DEF Paths
  <2>6. QED
    BY <2>5 DEF x
<1>5. QED
  BY <1>2, <1>3, <1>4

(* Everything above a path of the tree is one of its directories.             *)
LEMMA AboveLemma ==
  ASSUME NEW p \in Tree, NEW s \in Paths, IsStrictPrefix(s, p), s # NoPath
  PROVE  s \in Directories
<1>1. p \in Paths /\ Len(s) <= Len(p) /\ s = SubSeq(p, 1, Len(s))
  <2>1. p \in Paths
    BY TreeLemma
  <2>2. SubSeq(s, 1, Len(s)) = s
    BY DEF Paths
  <2>3. QED
    BY <2>1, <2>2 DEF IsStrictPrefix, IsPrefix
<1>2. Len(s) # Len(p)
  <2>1. SubSeq(p, 1, Len(p)) = p
    BY <1>1 DEF Paths
  <2>2. QED
    BY <1>1, <2>1 DEF IsStrictPrefix
<1>3. Len(s) \in 1..Len(p) /\ Len(s) < Len(p)
  BY <1>1, <1>2 DEF Paths, NoPath
<1>4. QED
  BY <1>1, <1>3, TreeAssumption

-----------------------------------------------------------------------------
LEMMA GivenLemma ==
  ASSUME NEW w, Given(w)
  PROVE  /\ w.absolute \in Tree /\ w.absolute \in Paths /\ w.absolute # NoPath
         /\ w.resolved \in Tree /\ w.resolved \in Paths
         /\ \A p : Spelled(w, p) = Respelled(w.absolute, w.resolved, p)
  BY TreeAssumption, TreeLemma DEF Given, Spelled, Respelled, NoPath

(* Whatever the root is called, spellings below it order as the paths do.     *)
LEMMA DisplayLemma ==
  ASSUME PruningInv, pc = "walk",
         NEW p \in Paths, NEW q \in Paths, IsPrefix(root.resolved, p), IsPrefix(root.resolved, q)
  PROVE  /\ display(p) \in Paths /\ display(p) # NoPath
         /\ IsPrefix(display(p), display(q)) <=> IsPrefix(p, q)
         /\ IsStrictPrefix(display(p), display(q)) <=> IsStrictPrefix(p, q)
<1>1. /\ root.absolute \in Paths /\ root.resolved \in Paths /\ root.absolute # NoPath
      /\ display(p) = Respelled(root.absolute, root.resolved, p)
      /\ display(q) = Respelled(root.absolute, root.resolved, q)
  BY GivenLemma DEF PruningInv, GivenInv, display, Respelled
<1>2. display(p) \in Paths
  <2>1. Respelled(root.absolute, root.resolved, p) \in Paths
    BY <1>1, SpelledLemma
  <2>2. QED
    BY <1>1, <2>1
<1>3. display(p) # NoPath
  <2>1. Len(root.absolute) > 0
    BY <1>1 DEF Paths, NoPath
  <2>2. Len(root.absolute) <= Len(display(p))
    BY <1>1, <1>2, RootSpelling, PrefixLemma
  <2>3. QED
    BY <1>1, <2>1, <2>2 DEF NoPath, Paths
<1>4. /\ IsPrefix(display(p), display(q)) <=> IsPrefix(p, q)
      /\ display(p) = display(q) <=> p = q
  BY <1>1, SpellingLemma
<1>5. QED
  BY <1>2, <1>3, <1>4 DEF IsStrictPrefix

(* What a consumer prunes does not change during a scan.                      *)
LEMMA SettingsLemma ==
  ASSUME UNCHANGED settings, NEW v \in Searchers
  PROVE  /\ \A a : prunes(v, a, a)' <=> prunes(v, a, a)
         /\ \A w, p : PrunedIn(w, v, p)' <=> PrunedIn(w, v, p)
  BY DEF settings, Searchers, prunes, PrunedIn

LEMMA SearchersLemma ==
  /\ Searchers \subseteq AllVisitors /\ Searchers \subseteq Visitors
  /\ Visitors \ {"temp"} = Searchers
  /\ \A v \in Searchers : \A p, d : prunes(v, p, d) <=> prunes(v, p, p)
  BY DEF Searchers, AllVisitors, Visitors, prunes

(* Nothing lies between a root and itself.                                    *)
LEMMA NothingAbove ==
  ASSUME NEW w, w.resolved \in Paths, NEW v \in Searchers
  PROVE  ~PrunedIn(w, v, w.resolved)
<1>1. SUFFICES ASSUME NEW a \in Directories, IsPrefix(w.resolved, a), IsStrictPrefix(a, w.resolved)
               PROVE  FALSE
  BY DEF PrunedIn
<1>2. QED
  BY <1>1, TreeLemma, AntisymmetricLemma DEF IsStrictPrefix

LEMMA StrictLemma ==
  ASSUME NEW s \in Paths, NEW t \in Paths, NEW u \in Paths,
         \/ IsStrictPrefix(s, t) /\ IsPrefix(t, u)
         \/ IsPrefix(s, t) /\ IsStrictPrefix(t, u)
  PROVE  IsStrictPrefix(s, u)
<1>1. IsPrefix(s, u)
  BY TransitiveLemma DEF IsStrictPrefix
<1>2. s # u
  BY AntisymmetricLemma DEF IsStrictPrefix
<1>3. QED
  BY <1>1, <1>2 DEF IsStrictPrefix

-----------------------------------------------------------------------------
LEMMA PruningInit == Init => PruningInv
<1>1. SUFFICES ASSUME Init PROVE PruningInv
  OBVIOUS
<1>2. /\ pc = "tops" /\ walked = {} /\ stack = <<>> /\ reading = NoPath /\ hidden = {}
      /\ left = <<>> /\ skip = [v \in AllVisitors |-> NoPath]
      /\ visited = [v \in AllVisitors |-> [p \in Tree |-> 0]]
  BY <1>1 DEF Init
<1>3. DOMAIN stack = {} /\ DOMAIN left = {} /\ left \in Seq(Paths)
  BY <1>2
<1>4. GivenInv
  <2>1. PICK given \in RootChoices :
          /\ only => given # <<>> /\ resolvable(Head(given))
          /\ home = IF only THEN Head(given) ELSE Home
          /\ extra = IF only THEN Tail(given) ELSE given
    BY <1>1 DEF Init
  <2>2. given \in Seq(Paths)
    BY TreeAssumption DEF Paths
  <2>3. extra \in Seq(Paths)
    BY <2>1, <2>2
  <2>4. resolvable(home)
    BY <2>1, TreeAssumption DEF resolvable
  <2>5. QED
    BY <1>2, <1>3, <2>3, <2>4 DEF GivenInv
<1>5. ChainInv /\ OpenInv /\ HiddenInv
  BY <1>2, <1>3 DEF ChainInv, OpenInv, HiddenInv
<1>6. SkipInv
  <2>1. NoPath \in Paths
    BY DEF NoPath, Paths
  <2>2. \A v \in Searchers : skip[v] = NoPath
    BY <1>2, SearchersLemma
  <2>3. QED
    BY <1>2, <1>3, <2>1, <2>2 DEF SkipInv
<1>7. FairInv
  BY <1>2 DEF FairInv, Done, Passed
<1>8. QED
  BY <1>1, <1>4, <1>5, <1>6, <1>7, InitLemma DEF PruningInv

(* A step that neither moves the walk nor shows anything.                     *)
LEMMA PruningIdle ==
  ASSUME PruningInv, UNCHANGED <<settings, root, walked, stack, reading, skip, visited, hidden>>,
         pc' = pc \/ (pc # "walk" /\ pc' # "walk")
  PROVE  ChainInv' /\ SkipInv' /\ OpenInv' /\ HiddenInv' /\ FairInv'
<1>1. ChainInv' /\ OpenInv'
  BY DEF PruningInv, ChainInv, OpenInv, display
<1>2. SkipInv'
  <2>1. Walks' = Walks
    BY DEF Walks
  <2>2. \A p : display(p)' = display(p)
    BY DEF display
  <2>3. \A w, p : Spelled(w, p)' = Spelled(w, p)
    BY DEF Spelled
  <2>4. \A v \in Searchers : \A p : PrunedIn(root, v, p)' <=> PrunedIn(root, v, p)
    BY DEF settings, Searchers, prunes, PrunedIn
  <2>5. \A v \in Searchers : \A a : prunes(v, a, a)' <=> prunes(v, a, a)
    BY SettingsLemma
  <2>6. QED
    BY <2>1, <2>2, <2>3, <2>4, <2>5 DEF PruningInv, SkipInv
<1>3. \A q : Done(q)' <=> Done(q)
  BY DEF Done
<1>4. \A q : Listed(q) => Listed(q)'
  BY <1>3 DEF Listed
<1>5. HiddenInv'
  BY <1>4 DEF PruningInv, HiddenInv
<1>6. \A p : Passed(p)' => Passed(p)
  BY DEF Passed, PruningInv, DiscoveryInv, RootInv
<1>7. \A w, p : Fair(w, p) => Fair(w, p)'
  <2>1. \A w, p : Reachable(p, w)' <=> Reachable(p, w)
    BY DEF Reachable
  <2>2. QED
    BY <2>1, SettingsLemma DEF Fair
<1>8. FairInv'
  <2>1. ASSUME NEW p \in Tree, Done(p)'
        PROVE  (\E w \in walked : Innermost(p, w) /\ Fair(w, p))'
    BY <1>3, <1>7, <2>1 DEF PruningInv, FairInv, Innermost, Holding
  <2>2. ASSUME NEW p \in Tree, ~Done(p)', Passed(p)' PROVE Fair(root, p)'
    <3>1. Fair(root, p)
      BY <1>3, <1>6, <2>2 DEF PruningInv, FairInv
    <3>2. PICK w : w = root
      OBVIOUS
    <3>3. Fair(w, p)'
      BY <1>7, <3>1, <3>2
    <3>4. QED
      BY <3>2, <3>3
  <2>3. QED
    BY <2>1, <2>2 DEF FairInv
<1>9. QED
  BY <1>1, <1>2, <1>5, <1>8

(* A set of temp directories in some order: a list of those directories.      *)
LEMMA ListLemma ==
  ASSUME NEW S \in SUBSET Directories
  PROVE  SetToSeq(S) \in Seq(S)
<1>1. IsFiniteSet(S) /\ Cardinality(S) \in Nat /\ ExistsBijection(1..Cardinality(S), S)
  BY TreeAssumption, TreeLemma, FS_Subset, FS_CardinalityType
<1>2. \E f \in [1..Cardinality(S) -> S] : IsInjective(f)
  BY <1>1 DEF ExistsBijection, Bijection, Injection, IsInjective
<1>3. SetToSeq(S) \in [1..Cardinality(S) -> S]
  BY <1>2 DEF SetToSeq
<1>4. QED
  BY <1>1, <1>3

(* The roots to walk: the temp directories come by their own names, so only   *)
(* those that were asked for can be links.                                    *)
LEMMA ScanRootsLemma ==
  ASSUME resolvable(home), extra \in Seq(Paths)
  PROVE  /\ ScanRoots \in Seq(Paths)
         /\ \A k \in DOMAIN ScanRoots : ScanRoots[k] \in DOMAIN Links => ScanRoots[k] \in requested
<1> DEFINE temps == SetToSeq(tempWalkRoots)
<1>1. tempWalkRoots \in SUBSET Directories
  BY TreeLemma DEF tempWalkRoots, tempScanRoots, walksTemp
<1>2. temps \in Seq(Directories)
  <2>1. temps \in Seq(tempWalkRoots)
    BY <1>1, ListLemma
  <2>2. QED
    BY <1>1, <2>1
<1>3. ScanRoots = <<home>> \o extra \o temps
  BY DEF ScanRoots
<1> HIDE DEF temps
<1>0. home \in Paths
  BY TreeLemma, TreeAssumption DEF resolvable
<1>4. /\ <<home>> \in Seq(Paths) /\ Len(<<home>>) = 1 /\ <<home>>[1] = home
      /\ temps \in Seq(Paths)
  BY <1>0, <1>2, TreeLemma
<1>5. ScanRoots \in Seq(Paths)
  BY <1>3, <1>4
<1>6. ASSUME NEW k \in DOMAIN ScanRoots, ScanRoots[k] \in DOMAIN Links
      PROVE  ScanRoots[k] \in requested
  <2>1. \/ k = 1 /\ ScanRoots[k] = home
        \/ \E i \in DOMAIN extra : ScanRoots[k] = extra[i]
        \/ \E i \in DOMAIN temps : ScanRoots[k] = temps[i]
    <3> DEFINE first == <<home>> \o extra
    <3>1. /\ first \in Seq(Paths) /\ Len(first) = 1 + Len(extra)
          /\ first[1] = home
          /\ \A j \in 1..Len(first) : j # 1 => j - 1 \in DOMAIN extra /\ first[j] = extra[j - 1]
      BY <1>4
    <3> HIDE DEF first
    <3>2. ScanRoots = first \o temps
      BY <1>3 DEF first
    <3>3. k \in 1..Len(first) + Len(temps)
      BY <1>4, <3>1, <3>2
    <3>4. CASE k \in 1..Len(first)
      <4>1. ScanRoots[k] = first[k]
        BY <1>4, <3>1, <3>2, <3>4
      <4>2. QED
        BY <3>1, <3>4, <4>1
    <3>5. CASE k \notin 1..Len(first)
      <4>1. k - Len(first) \in DOMAIN temps /\ ScanRoots[k] = temps[k - Len(first)]
        BY <1>4, <3>1, <3>2, <3>3, <3>5
      <4>2. QED
        BY <4>1
    <3>6. QED
      BY <3>4, <3>5
  <2>2. \A i \in DOMAIN temps : temps[i] \in Directories
    BY <1>2
  <2>3. ScanRoots[k] = home \/ \E i \in DOMAIN extra : ScanRoots[k] = extra[i]
    BY <1>6, <2>1, <2>2, TreeAssumption
  <2>4. QED
    BY <2>3 DEF requested, ToSet
<1>7. QED
  BY <1>5, <1>6

LEMMA PruningCheckTops == PruningInv /\ CheckTops => PruningInv'
<1>1. SUFFICES ASSUME PruningInv, CheckTops PROVE PruningInv'
  OBVIOUS
<1>2. /\ pc = "tops" /\ pc' = "root" /\ left' = ScanRoots
      /\ UNCHANGED <<settings, root, walked, stack, reading, skip, visited, hidden>>
  BY <1>1 DEF CheckTops
<1>3. /\ home' = home /\ extra' = extra /\ requested' = requested
      /\ resolvable(home) /\ extra \in Seq(Paths)
  BY <1>1, <1>2 DEF settings, requested, PruningInv, GivenInv
<1>4. GivenInv'
  <2>1. /\ left' \in Seq(Paths)
        /\ \A k \in DOMAIN left' : left'[k] \in DOMAIN Links => left'[k] \in requested
    BY <1>2, <1>3, ScanRootsLemma
  <2>2. QED
    BY <1>1, <1>2, <1>3, <2>1 DEF PruningInv, GivenInv, Given
<1>5. DiscoveryInv'
  BY <1>1, <1>2, IdleLemma DEF PruningInv
<1>6. QED
  BY <1>1, <1>2, <1>4, <1>5, PruningIdle DEF PruningInv

(* The root is done: it is the innermost one that was walked of all it holds  *)
(* and earlier ones did not.                                                  *)
LEMMA PruningFinishRoot == PruningInv /\ FinishRoot => PruningInv'
<1>1. SUFFICES ASSUME PruningInv, FinishRoot PROVE PruningInv'
  OBVIOUS
<1>2. /\ pc = "walk" /\ pc' = "root" /\ reading = NoPath /\ stack = <<>>
      /\ UNCHANGED <<settings, left, stack, reading, skip, visited, hidden>>
      /\ walked' = walked \cup {root}
  BY <1>1 DEF FinishRoot, reports
<1>3. DiscoveryInv'
  BY <1>1, FinishRootLemma DEF PruningInv
<1>4. /\ Given(root) /\ ~Done(root.resolved) /\ root.resolved \in Paths
      /\ \A w \in walked : Given(w) /\ w.resolved \in Paths
  BY <1>1, <1>2, GivenLemma DEF PruningInv, GivenInv, DiscoveryInv, RootInv
<1>5. DOMAIN stack = {} /\ DOMAIN stack' = {} /\ reading' = NoPath
  BY <1>2
<1>6. GivenInv'
  <2>1. \A w \in walked : w.resolved # root.resolved
    BY <1>4, ReflexiveLemma DEF Done
  <2>2. QED
    BY <1>1, <1>2, <1>4, <2>1 DEF PruningInv, GivenInv, settings, requested, Given
<1>7. ChainInv' /\ OpenInv'
  BY <1>5 DEF ChainInv, OpenInv
<1>8. SkipInv'
  <2>1. Walks' = Walks
    BY <1>2 DEF Walks
  <2>2. \A w, p : Spelled(w, p)' = Spelled(w, p)
    BY DEF Spelled
  <2>3. \A v \in Searchers : \A a : prunes(v, a, a)' <=> prunes(v, a, a)
    BY <1>2, SettingsLemma
  <2>4. QED
    BY <1>1, <1>2, <1>5, <2>1, <2>2, <2>3 DEF PruningInv, SkipInv
<1>9. \A q : Done(q)' <=> Done(q) \/ IsPrefix(root.resolved, q)
  BY <1>2 DEF Done
<1>10. HiddenInv'
  <2>1. \A q : Listed(q) => Listed(q)'
    BY <1>9 DEF Listed
  <2>2. QED
    BY <1>1, <1>2, <2>1 DEF PruningInv, HiddenInv
<1>11. \A w, p : Fair(w, p) => Fair(w, p)'
  <2>1. \A w, p : Reachable(p, w)' <=> Reachable(p, w)
    BY <1>2 DEF Reachable
  <2>2. QED
    BY <1>2, <2>1, SettingsLemma DEF Fair
<1>12. FairInv'
  <2>1. ASSUME NEW p \in Tree, Done(p)
        PROVE  (\E w \in walked : Innermost(p, w) /\ Fair(w, p))'
    <3>1. PICK w \in walked : Innermost(p, w) /\ Fair(w, p)
      BY <1>1, <2>1 DEF PruningInv, FairInv
    <3>2. IsPrefix(root.resolved, p) => IsPrefix(root.resolved, w.resolved)
      <4>1. p \in Paths /\ IsPrefix(w.resolved, p) /\ ~IsPrefix(w.resolved, root.resolved)
        BY <1>4, <3>1, TreeLemma DEF Innermost, Holding, pathWithin, Done
      <4>2. QED
        BY <1>4, <4>1, ComparableLemma
    <3>3. Innermost(p, w)'
      BY <1>2, <3>1, <3>2 DEF Innermost, Holding, pathWithin
    <3>4. QED
      BY <1>2, <1>11, <3>1, <3>3
  <2>2. ASSUME NEW p \in Tree, ~Done(p), IsPrefix(root.resolved, p)
        PROVE  (\E w \in walked : Innermost(p, w) /\ Fair(w, p))'
    <3>1. Passed(p)
      BY <1>2, <1>5, <2>2 DEF Passed
    <3>2. PICK w : w = root
      OBVIOUS
    <3>3. Fair(w, p)
      BY <1>1, <2>2, <3>1, <3>2 DEF PruningInv, FairInv
    <3>4. Holding(p)' = {w}
      BY <1>2, <2>2, <3>2 DEF Holding, pathWithin, Done
    <3>5. Innermost(p, w)'
      BY <1>4, <3>2, <3>4, ReflexiveLemma DEF Innermost, pathWithin
    <3>6. QED
      BY <1>2, <1>11, <3>2, <3>3, <3>5
  <2>3. \A p : ~Passed(p)'
    BY <1>2 DEF Passed
  <2>4. QED
    BY <1>9, <2>1, <2>2, <2>3 DEF FairInv
<1>13. QED
  BY <1>3, <1>6, <1>7, <1>8, <1>10, <1>12 DEF PruningInv

(* What a consumer skipped last lies above no root that is taken next: it is  *)
(* in a root walked before, which would contain the new one too, unless that  *)
(* is a link; and no root that is a link lies in what a consumer prunes.      *)
LEMMA FreshRootLemma ==
  ASSUME PruningInv, RootsLieOpen, pc = "root", NEW r, resolvable(r), ~rootCovered(resolve(r)),
         r \in DOMAIN Links => r \in requested,
         NEW v \in Searchers, skip[v] # NoPath
  PROVE  ~IsStrictPrefix(skip[v], r)
<1>1. SUFFICES ASSUME IsStrictPrefix(skip[v], r) PROVE FALSE
  OBVIOUS
<1>2. r \in Tree /\ r \in Paths
  BY TreeAssumption, TreeLemma DEF resolvable
<1>3. PICK w \in walked, a \in Directories :
        IsPrefix(w.resolved, a) /\ skip[v] = Spelled(w, a) /\ prunes(v, a, a)
  BY DEF PruningInv, SkipInv, Walks
<1>4. skip[v] \in Paths
  BY SearchersLemma DEF PruningInv, SkipInv
<1>5. skip[v] \in Directories
  BY <1>1, <1>2, <1>4, AboveLemma
<1>6. Given(w) /\ w.absolute \in Paths /\ w.resolved \in Paths /\ w.absolute # NoPath /\ a \in Paths
  BY <1>3, GivenLemma, TreeLemma DEF PruningInv, GivenInv
<1>7. IsPrefix(w.absolute, skip[v])
  <2>1. Spelled(w, a) = Respelled(w.absolute, w.resolved, a)
    BY <1>6, GivenLemma
  <2>2. IsPrefix(w.absolute, Respelled(w.absolute, w.resolved, a))
    BY <1>3, <1>6, RootSpelling
  <2>3. QED
    BY <1>3, <2>1, <2>2
<1>8. w.absolute \notin DOMAIN Links
  <2>1. IsStrictPrefix(w.absolute, r)
    BY <1>1, <1>2, <1>4, <1>6, <1>7, StrictLemma
  <2>2. w.absolute \in Directories
    BY <1>2, <1>6, <2>1, AboveLemma
  <2>3. QED
    BY <2>2, TreeAssumption
<1>9. w.absolute = w.resolved
  BY <1>6, <1>8 DEF Given
<1>10. skip[v] = a
  <2>1. Respelled(w.absolute, w.resolved, a) = a
    BY <1>3, <1>6, <1>9, RootSpelling
  <2>2. QED
    BY <1>3, <1>6, <2>1, GivenLemma
<1>11. CASE r \in DOMAIN Links
  BY <1>1, <1>3, <1>10, <1>11 DEF RootsLieOpen
<1>12. CASE r \notin DOMAIN Links
  <2>1. resolve(r) = r /\ IsPrefix(a, r)
    BY <1>1, <1>10, <1>12 DEF resolve, IsStrictPrefix
  <2>2. IsPrefix(w.resolved, r)
    BY <1>2, <1>3, <1>6, <2>1, TransitiveLemma
  <2>3. QED
    BY <2>1, <2>2 DEF rootCovered, pathWithin
<1>13. QED
  BY <1>11, <1>12

LEMMA PruningNextRoot == PruningInv /\ RootsLieOpen /\ NextRoot => PruningInv'
<1>1. SUFFICES ASSUME PruningInv, RootsLieOpen, NextRoot PROVE PruningInv'
  OBVIOUS
<1>0. PICK r : r = Head(left)
  OBVIOUS
<1>2. /\ pc = "root" /\ left # <<>> /\ left' = Tail(left)
      /\ UNCHANGED <<settings, walked, reading, skip, visited, hidden>>
  BY <1>1 DEF NextRoot
<1>3. DiscoveryInv'
  BY <1>1, NextRootLemma DEF PruningInv
<1>4. home' = home /\ extra' = extra /\ requested' = requested
  BY <1>2 DEF settings, requested
<1>5. /\ left' \in Seq(Paths)
      /\ \A k \in DOMAIN left' : left'[k] \in DOMAIN Links => left'[k] \in requested
      /\ r \in DOMAIN Links => r \in requested
  <2>1. left \in Seq(Paths) /\ \A k \in DOMAIN left : left[k] \in DOMAIN Links => left[k] \in requested
    BY <1>1 DEF PruningInv, GivenInv
  <2>2. /\ Tail(left) \in Seq(Paths) /\ r = left[1] /\ 1 \in DOMAIN left
        /\ \A k \in DOMAIN Tail(left) : k + 1 \in DOMAIN left /\ Tail(left)[k] = left[k + 1]
    BY <1>0, <1>2, <2>1
  <2>3. QED
    BY <1>2, <2>1, <2>2
<1>6. CASE ~resolvable(r) \/ rootCovered(resolve(r))
  <2>1. UNCHANGED <<pc, root, stack>>
    BY <1>0, <1>1, <1>6 DEF NextRoot
  <2>2. GivenInv'
    BY <1>1, <1>2, <1>4, <1>5, <2>1 DEF PruningInv, GivenInv, Given
  <2>3. QED
    BY <1>1, <1>2, <1>3, <2>1, <2>2, PruningIdle DEF PruningInv
<1>7. CASE resolvable(r) /\ ~rootCovered(resolve(r))
  <2>1. PICK top : top = resolve(r)
    OBVIOUS
  <2>2. /\ pc' = "walk" /\ root' = [absolute |-> r, resolved |-> top] /\ stack' = <<top>>
        /\ reading' = NoPath
    BY <1>0, <1>1, <1>2, <1>7, <2>1 DEF NextRoot, PruningInv, DiscoveryInv, RootInv
  <2>3. /\ top \in Directories /\ top \in Paths /\ r \in Paths
        /\ root'.resolved = top /\ root'.absolute = r
    BY <1>7, <2>1, <2>2, TreeLemma, TreeAssumption DEF resolvable
  <2>4. stack' \in Seq(Tree) /\ DOMAIN stack' = {1} /\ stack'[1] = top
    BY <2>2, <2>3, TreeLemma
  <2>5. GivenInv'
    <3>1. Given(root)'
      BY <1>7, <2>1, <2>3 DEF Given, resolve, resolvable
    <3>2. QED
      BY <1>1, <1>2, <1>4, <1>5, <3>1 DEF PruningInv, GivenInv, Given
  <2>6. ChainInv'
    BY <2>2, <2>4 DEF ChainInv
  <2>7. OpenInv'
    <3>1. ASSUME NEW a \in Tree, IsPrefix(top, a), IsPrefix(a, top) PROVE a = top
      BY <2>3, <3>1, TreeLemma, AntisymmetricLemma
    <3>2. QED
      BY <2>2, <2>3, <2>4, <3>1 DEF OpenInv
  <2>8. SkipInv'
    <3>1. \A w \in Walks : w \in Walks'
      BY <1>2 DEF Walks
    <3>2. \A w, p : Spelled(w, p)' = Spelled(w, p)
      BY DEF Spelled
    <3>3. \A v \in Searchers : \A a : prunes(v, a, a)' <=> prunes(v, a, a)
      BY <1>2, SettingsLemma
    <3>4. skip' = skip /\ skip \in [AllVisitors -> Paths]
      BY <1>1, <1>2 DEF PruningInv, SkipInv
    <3>5. ASSUME NEW v \in Searchers, skip'[v] # NoPath
          PROVE  \E w \in Walks', a \in Directories :
                   IsPrefix(w.resolved, a) /\ skip'[v] = Spelled(w, a)' /\ prunes(v, a, a)'
      <4>1. PICK w \in Walks, a \in Directories :
              IsPrefix(w.resolved, a) /\ skip[v] = Spelled(w, a) /\ prunes(v, a, a)
        BY <1>1, <3>4, <3>5 DEF PruningInv, SkipInv
      <4>2. QED
        BY <3>1, <3>2, <3>3, <3>4, <4>1
    <3>6. ASSUME NEW v \in Searchers
          PROVE  ~PrunedIn(root, v, top)' /\ ~(skip'[v] # NoPath /\ IsStrictPrefix(skip'[v], display(top)'))
      <4>1. ~PrunedIn(root, v, top)'
        <5>1. PICK w : w = root'
          OBVIOUS
        <5>2. ~PrunedIn(w, v, top)
          BY <2>3, <5>1, NothingAbove
        <5>3. ~PrunedIn(w, v, top)'
          BY <1>2, <5>2, SettingsLemma
        <5>4. QED
          BY <5>1, <5>3
      <4>2. display(top)' = r
        <5>1. display(top)' = Respelled(r, top, top)
          BY <2>3 DEF display, Respelled
        <5>2. Respelled(r, top, top) = r
          BY <2>3, RootSpelling
        <5>3. QED
          BY <5>1, <5>2
      <4>3. skip[v] # NoPath => ~IsStrictPrefix(skip[v], r)
        BY <1>1, <1>2, <1>5, <1>7, FreshRootLemma
      <4>4. QED
        BY <3>4, <4>1, <4>2, <4>3
    <3>7. ASSUME NEW v \in Searchers, NEW k \in DOMAIN stack'
          PROVE  PrunedIn(root, v, stack[k])' <=>
                   skip'[v] # NoPath /\ IsStrictPrefix(skip'[v], display(stack[k])')
      <4>1. stack'[k] = top
        BY <2>4
      <4>2. PrunedIn(root, v, stack[k])' <=> PrunedIn(root, v, top)'
        BY <4>1 DEF PrunedIn
      <4>3. display(stack[k])' = display(top)'
        BY <4>1 DEF display
      <4>4. QED
        BY <3>6, <4>2, <4>3
    <3>8. QED
      BY <2>2, <3>4, <3>5, <3>7 DEF SkipInv
  <2>9. \A q : Done(q)' <=> Done(q)
    BY <1>2 DEF Done
  <2>10. HiddenInv'
    <3>1. \A q : Listed(q) => Listed(q)'
      BY <1>2, <2>9 DEF Listed
    <3>2. QED
      BY <1>1, <1>2, <3>1 DEF PruningInv, HiddenInv
  <2>11. FairInv'
    <3>1. \A w, p : Fair(w, p) => Fair(w, p)'
      <4>1. \A w, p : Reachable(p, w)' <=> Reachable(p, w)
        BY <1>2 DEF Reachable
      <4>2. QED
        BY <1>2, <4>1, SettingsLemma DEF Fair
    <3>2. ASSUME NEW p \in Tree, Done(p)
          PROVE  (\E w \in walked : Innermost(p, w) /\ Fair(w, p))'
      BY <1>1, <1>2, <3>1, <3>2 DEF PruningInv, FairInv, Innermost, Holding
    <3>3. \A p : ~Passed(p)'
      BY <2>3, <2>4 DEF Passed
    <3>4. QED
      BY <2>9, <3>2, <3>3 DEF FairInv
  <2>12. QED
    BY <1>3, <2>5, <2>6, <2>7, <2>8, <2>10, <2>11 DEF PruningInv
<1>8. QED
  BY <1>6, <1>7

(* Below a directory, on the way to anything in it, lies one of its entries.  *)
LEMMA EntryLemma ==
  ASSUME NEW q \in Directories, NEW p \in Tree, IsStrictPrefix(q, p)
  PROVE  \E c \in Children(q) : IsPrefix(c, p)
<1>1. q \in Paths /\ p \in Paths
  BY TreeLemma
<1>2. Len(q) < Len(p)
  <2>1. Len(q) <= Len(p) /\ \A i \in 1..Len(q) : q[i] = p[i]
    BY <1>1, PrefixLemma DEF IsStrictPrefix
  <2>2. Len(q) # Len(p)
    <3>1. SUFFICES ASSUME Len(q) = Len(p) PROVE FALSE
      OBVIOUS
    <3>2. \A i \in 1..Len(p) : q[i] = p[i]
      BY <2>1, <3>1
    <3>3. q = p
      BY <1>1, <3>1, <3>2 DEF Paths
    <3>4. QED
      BY <3>3 DEF IsStrictPrefix
  <2>3. QED
    BY <1>1, <2>1, <2>2 DEF Paths
<1> DEFINE n == Len(q) + 1
<1>3. n \in 1..Len(p) /\ n \in Nat /\ n = Len(q) + 1
  BY <1>1, <1>2 DEF Paths
<1> HIDE DEF n
<1>4. /\ SubSeq(p, 1, n) \in Paths /\ Len(SubSeq(p, 1, n)) = n
      /\ \A i \in 1..n : SubSeq(p, 1, n)[i] = p[i]
  BY <1>1, <1>3 DEF Paths
<1> DEFINE c == SubSeq(p, 1, n)
<1>5. c \in Tree
  <2>1. CASE n = Len(p)
    <3>1. SubSeq(p, 1, Len(p)) = p
      BY <1>1 DEF Paths
    <3>2. QED
      BY <2>1, <3>1
  <2>2. CASE n < Len(p)
    BY <1>3, <2>2, TreeAssumption
  <2>3. QED
    BY <1>1, <1>3, <2>1, <2>2 DEF Paths
<1>6. c \in Paths /\ Len(c) = n /\ \A i \in 1..n : c[i] = p[i]
  BY <1>4
<1> HIDE DEF c
<1>7. IsPrefix(c, p)
  BY <1>1, <1>3, <1>6, PrefixLemma DEF Paths
<1>8. IsPrefix(q, c)
  <2>1. \A i \in 1..Len(q) : q[i] = p[i] /\ i \in 1..n
    BY <1>1, <1>3, PrefixLemma DEF IsStrictPrefix, Paths
  <2>2. Len(q) <= Len(c)
    BY <1>1, <1>3, <1>6 DEF Paths
  <2>3. QED
    BY <1>1, <1>6, <2>1, <2>2, PrefixLemma
<1>9. c \in Children(q)
  BY <1>3, <1>5, <1>6, <1>8 DEF Children
<1>10. QED
  BY <1>7, <1>9

(* An order of some entries leaves none of them out.                          *)
LEMMA AllInOrder ==
  ASSUME NEW got \in SUBSET Tree, NEW order \in SetToSeqs(got), NEW c \in got
  PROVE  \E k \in DOMAIN order : order[k] = c
<1> DEFINE n == Cardinality(got)
<1>1. IsFiniteSet(got) /\ n \in Nat /\ IsFiniteSet(1..n) /\ Cardinality(1..n) = n
  <2>1. IsFiniteSet(got) /\ n \in Nat
    BY TreeAssumption, FS_Subset, FS_CardinalityType
  <2> HIDE DEF n
  <2>2. IsFiniteSet(1..n) /\ Cardinality(1..n) = IF 1 > n THEN 0 ELSE n - 1 + 1
    BY <2>1, FS_Interval
  <2>3. QED
    BY <2>1, <2>2
<1>2. order \in [1..n -> got] /\ \A i, j \in 1..n : i # j => order[i] # order[j]
  BY DEF SetToSeqs
<1> HIDE DEF n
<1>3. order \in Injection(1..n, got)
  BY <1>2 DEF Injection, IsInjective
<1>4. order \in Surjection(1..n, got)
  BY <1>1, <1>3, FS_Injection DEF n
<1>5. QED
  BY <1>2, <1>4 DEF Surjection

(* What a listing puts on the list of what is to be visited.                  *)
Lists(got, order) ==
  /\ order \in Seq(Tree)
  /\ \A k \in DOMAIN order : order[k] \in got
  /\ \A c \in got : \E k \in DOMAIN order : order[k] = c
  /\ \A k \in DOMAIN stack' :
       \/ k \in DOMAIN order /\ stack'[k] = order[k]
       \/ \E i \in DOMAIN stack : k = Len(order) + i /\ stack'[k] = stack[i]
  /\ \A k \in DOMAIN order : k \in DOMAIN stack' /\ stack'[k] = order[k]
  /\ \A i \in DOMAIN stack : Len(order) + i \in DOMAIN stack' /\ stack'[Len(order) + i] = stack[i]

LEMMA ListingLemma ==
  ASSUME DiscoveryInv, ReadDirectory
  PROVE  \E got \in SUBSET Children(reading) :
           /\ \E order : Lists(got, order)
           /\ hidden' = hidden \cup (Children(reading) \ got)
           /\ \A c \in Children(reading) \cap there : c \notin got => display(reading) \in errors'
<1>1. PICK got \in SUBSET (Children(reading) \cap there) :
        /\ \E order \in SetToSeqs(got) : stack' = order \o stack
        /\ hidden' = hidden \cup (Children(reading) \ got)
        /\ \A c \in Children(reading) \cap there : c \notin got => display(reading) \in errors'
  BY DEF ReadDirectory
<1>2. PICK order \in SetToSeqs(got) : stack' = order \o stack
  BY <1>1
<1>3. got \in SUBSET Tree
  BY DEF Children
<1>4. /\ order \in Seq(Tree)
      /\ \A k \in DOMAIN order : order[k] \in got
      /\ \A c \in got : \E k \in DOMAIN order : order[k] = c
  BY <1>3, OrderLemma, AllInOrder
<1>5. stack \in Seq(Tree)
  BY DEF DiscoveryInv, StackInv
<1>6. \A k \in DOMAIN stack' :
        \/ k \in DOMAIN order /\ stack'[k] = order[k]
        \/ \E i \in DOMAIN stack : k = Len(order) + i /\ stack'[k] = stack[i]
  BY <1>2, <1>4, <1>5, ConcatLemma
<1>7. /\ \A k \in DOMAIN order : k \in DOMAIN stack' /\ stack'[k] = order[k]
      /\ \A i \in DOMAIN stack :
           Len(order) + i \in DOMAIN stack' /\ stack'[Len(order) + i] = stack[i]
  BY <1>2, <1>4, <1>5
<1>8. Lists(got, order)
  BY <1>4, <1>6, <1>7 DEF Lists
<1>9. QED
  BY <1>1, <1>8

(* A consumer skips an entry of a directory exactly if it skips all in it.    *)
LEMMA ChildSkipped ==
  ASSUME PruningInv, pc = "walk", reading # NoPath, NEW c \in Children(reading),
         NEW s \in Paths
  PROVE  IsStrictPrefix(s, display(c)) <=> IsPrefix(s, display(reading))
<1>1. /\ reading \in Paths /\ c \in Paths /\ IsPrefix(root.resolved, reading)
      /\ IsPrefix(reading, c) /\ Len(c) = Len(reading) + 1
      /\ root.resolved \in Paths /\ root.absolute \in Paths
  BY TreeLemma, GivenLemma DEF PruningInv, GivenInv, DiscoveryInv, ReadingInv, Children
<1>2. IsPrefix(root.resolved, c)
  BY <1>1, TransitiveLemma
<1> DEFINE x == display(reading)
           y == display(c)
<1>3. x \in Paths /\ y \in Paths /\ IsPrefix(x, y)
  BY <1>1, <1>2, DisplayLemma
<1>4. Len(root.resolved) + Len(x) = Len(root.absolute) + Len(reading)
  <2>1. x = Respelled(root.absolute, root.resolved, reading)
    BY DEF display, Respelled
  <2>2. Len(root.resolved) + Len(Respelled(root.absolute, root.resolved, reading))
          = Len(root.absolute) + Len(reading)
    BY <1>1, SpelledLemma
  <2> HIDE DEF x
  <2>3. QED
    BY <2>1, <2>2
<1>5. Len(root.resolved) + Len(y) = Len(root.absolute) + Len(c)
  <2>1. y = Respelled(root.absolute, root.resolved, c)
    BY DEF display, Respelled
  <2>2. Len(root.resolved) + Len(Respelled(root.absolute, root.resolved, c))
          = Len(root.absolute) + Len(c)
    BY <1>1, <1>2, SpelledLemma
  <2> HIDE DEF y
  <2>3. QED
    BY <2>1, <2>2
<1> HIDE DEF x, y
<1>6. Len(y) = Len(x) + 1
  <2>1. Len(root.resolved) \in Nat /\ Len(root.absolute) \in Nat /\ Len(x) \in Nat /\ Len(y) \in Nat
        /\ Len(reading) \in Nat
    BY <1>1, <1>3 DEF Paths
  <2>2. PICK a \in Nat, b \in Nat, r \in Nat, m \in Nat, n \in Nat :
          /\ a = Len(root.resolved) /\ b = Len(root.absolute) /\ r = Len(reading)
          /\ m = Len(x) /\ n = Len(y)
    BY <2>1
  <2>3. a + m = b + r
    BY <1>4, <2>2
  <2>4. a + n = b + (r + 1)
    BY <1>1, <1>5, <2>2
  <2>5. n = m + 1
    BY <2>3, <2>4
  <2>6. QED
    BY <2>2, <2>5
<1>7. x # y
  BY <1>3, <1>6 DEF Paths
<1>8. IsStrictPrefix(s, y) => IsPrefix(s, x)
  BY <1>3, <1>6, ChildLemma DEF IsStrictPrefix
<1>9. IsPrefix(s, x) => IsStrictPrefix(s, y)
  BY <1>3, <1>7, StrictLemma DEF IsStrictPrefix
<1>10. QED
  BY <1>8, <1>9 DEF x, y

(* A directory is listed: its entries take its place, and what the listing    *)
(* did not return belongs to this walk alone.                                 *)
LEMMA PruningRead == PruningInv /\ ReadDirectory => PruningInv'
<1>1. SUFFICES ASSUME PruningInv, ReadDirectory PROVE PruningInv'
  OBVIOUS
<1>2. /\ pc = "walk" /\ pc' = "walk" /\ reading # NoPath /\ reading' = NoPath
      /\ UNCHANGED <<settings, left, root, walked, skip, visited>>
  BY <1>1 DEF ReadDirectory
<1>3. DiscoveryInv /\ DiscoveryInv'
  BY <1>1, ReadLemma DEF PruningInv
<1>4. PICK got \in SUBSET Children(reading) :
        /\ \E order : Lists(got, order)
        /\ hidden' = hidden \cup (Children(reading) \ got)
  BY <1>1, <1>3, ListingLemma
<1>5. PICK order : Lists(got, order)
  BY <1>4
<1>6. /\ reading \in Directories /\ reading \in Paths /\ IsPrefix(root.resolved, reading)
      /\ ~Done(reading) /\ Given(root) /\ root.resolved \in Paths
      /\ \A k \in DOMAIN stack : ~IsPrefix(stack[k], reading) /\ ~IsPrefix(reading, stack[k])
      /\ \A w \in walked : w.resolved \in Paths
      /\ \A k \in DOMAIN stack : stack[k] \in Paths /\ IsPrefix(root.resolved, stack[k])
  BY <1>1, <1>2, <1>3, TreeLemma, GivenLemma
  DEF PruningInv, GivenInv, DiscoveryInv, RootInv, ReadingInv, StackInv
<1>7. \A c \in Children(reading) :
        /\ c \in Paths /\ c \in Tree /\ IsPrefix(reading, c) /\ Len(c) = Len(reading) + 1
        /\ IsPrefix(root.resolved, c) /\ IsStrictPrefix(reading, c)
  <2>1. ASSUME NEW c \in Children(reading)
        PROVE  /\ c \in Paths /\ c \in Tree /\ IsPrefix(reading, c) /\ Len(c) = Len(reading) + 1
               /\ IsPrefix(root.resolved, c) /\ IsStrictPrefix(reading, c)
    <3>1. c \in Paths /\ c \in Tree /\ IsPrefix(reading, c) /\ Len(c) = Len(reading) + 1
      BY TreeLemma DEF Children
    <3>2. reading # c
      BY <1>6, <3>1 DEF Paths
    <3>3. QED
      BY <1>6, <3>1, <3>2, TransitiveLemma DEF IsStrictPrefix
  <2>2. QED
    BY <2>1
<1>8. ASSUME NEW a \in Paths, NEW c \in Children(reading)
      PROVE  /\ IsStrictPrefix(a, c) => IsPrefix(a, reading)
             /\ IsPrefix(a, reading) => IsStrictPrefix(a, c)
  <2>1. IsStrictPrefix(a, c) => IsPrefix(a, reading)
    BY <1>6, <1>7, ChildLemma DEF IsStrictPrefix
  <2>2. IsPrefix(a, reading) => IsStrictPrefix(a, c)
    BY <1>6, <1>7, StrictLemma
  <2>3. QED
    BY <2>1, <2>2
<1>9. ASSUME NEW c \in Children(reading), IsPrefix(c, reading) PROVE FALSE
  BY <1>6, <1>7, <1>9, AntisymmetricLemma DEF IsStrictPrefix
<1>10. GivenInv'
  BY <1>1, <1>2 DEF PruningInv, GivenInv, settings, requested, Given
<1>11. ChainInv'
  <2>1. ASSUME NEW k \in DOMAIN stack', NEW a \in Directories, IsStrictPrefix(a, stack'[k]),
               NEW j \in DOMAIN stack', j < k
        PROVE  IsStrictPrefix(a, stack'[j])
    <3>1. a \in Paths
      BY TreeLemma
    <3>2. IsPrefix(a, reading)
      <4>1. CASE k \in DOMAIN order /\ stack'[k] = order[k]
        BY <1>5, <1>8, <2>1, <3>1, <4>1 DEF Lists
      <4>2. CASE \E i \in DOMAIN stack : k = Len(order) + i /\ stack'[k] = stack[i]
        BY <1>1, <1>2, <2>1, <4>2 DEF PruningInv, ChainInv
      <4>3. QED
        BY <1>5, <4>1, <4>2 DEF Lists
    <3>3. CASE j \in DOMAIN order /\ stack'[j] = order[j]
      BY <1>5, <1>8, <3>1, <3>2, <3>3 DEF Lists
    <3>4. CASE \E i \in DOMAIN stack : j = Len(order) + i /\ stack'[j] = stack[i]
      <4>1. PICK i \in DOMAIN stack : j = Len(order) + i /\ stack'[j] = stack[i]
        BY <3>4
      <4>2. order \in Seq(Tree) /\ stack \in Seq(Tree) /\ Len(order) \in Nat
        BY <1>3, <1>5 DEF Lists, DiscoveryInv, StackInv
      <4>3. PICK n \in DOMAIN stack : k = Len(order) + n /\ stack'[k] = stack[n]
        <5>1. k \notin DOMAIN order
          BY <2>1, <4>1, <4>2, <1>3 DEF DiscoveryInv, StackInv
        <5>2. QED
          BY <1>5, <5>1 DEF Lists
      <4>4. i < n
        BY <2>1, <4>1, <4>2, <4>3
      <4>5. QED
        BY <1>1, <2>1, <4>1, <4>3, <4>4 DEF PruningInv, ChainInv
    <3>5. QED
      BY <1>5, <3>3, <3>4 DEF Lists
  <2>2. QED
    BY <1>2, <2>1 DEF ChainInv
<1>12. SkipInv'
  <2>1. Walks' = Walks
    BY <1>2 DEF Walks
  <2>2. \A w, p : Spelled(w, p)' = Spelled(w, p)
    BY DEF Spelled
  <2>3. \A v \in Searchers : \A a : prunes(v, a, a)' <=> prunes(v, a, a)
    BY <1>2, SettingsLemma
  <2>4. skip' = skip /\ skip \in [AllVisitors -> Paths]
    BY <1>1, <1>2 DEF PruningInv, SkipInv
  <2>5. \A v \in Searchers : skip'[v] # NoPath =>
          \E w \in Walks', a \in Directories :
            IsPrefix(w.resolved, a) /\ skip'[v] = Spelled(w, a)' /\ prunes(v, a, a)'
    BY <1>1, <2>1, <2>2, <2>3, <2>4 DEF PruningInv, SkipInv
  <2>6. ASSUME NEW v \in Searchers, NEW k \in DOMAIN stack'
        PROVE  PrunedIn(root, v, stack[k])' <=>
                 skip'[v] # NoPath /\ IsStrictPrefix(skip'[v], display(stack[k])')
    <3>1. PICK e : e = stack'[k]
      OBVIOUS
    <3>2. /\ PrunedIn(root, v, stack[k])' <=> PrunedIn(root, v, e)
          /\ display(stack[k])' = display(e)
      <4>1. \A p : PrunedIn(root, v, p)' <=> PrunedIn(root, v, p)
        BY <1>2 DEF PrunedIn, settings, Searchers, prunes
      <4>2. PrunedIn(root, v, stack[k])' <=> PrunedIn(root, v, e)'
        BY <3>1 DEF PrunedIn
      <4>3. QED
        BY <1>2, <3>1, <4>1, <4>2 DEF display
    <3>3. PrunedIn(root, v, e) <=> skip[v] # NoPath /\ IsStrictPrefix(skip[v], display(e))
      <4>1. CASE k \in DOMAIN order /\ stack'[k] = order[k]
        <5>1. e \in Children(reading)
          BY <1>5, <3>1, <4>1 DEF Lists
        <5>2. PrunedIn(root, v, e) <=> PrunedIn(root, v, reading) \/ prunes(v, reading, reading)
          <6>1. \A a \in Directories : IsStrictPrefix(a, e) <=> a = reading \/ IsStrictPrefix(a, reading)
            BY <1>6, <1>8, <5>1, TreeLemma, ReflexiveLemma DEF IsStrictPrefix
          <6>2. QED
            BY <1>6, <6>1 DEF PrunedIn
        <5>3. PrunedIn(root, v, reading) \/ prunes(v, reading, reading) <=>
                skip[v] # NoPath /\ IsPrefix(skip[v], display(reading))
          BY <1>1, <1>2 DEF PruningInv, SkipInv
        <5>4. skip[v] \in Paths
          BY <2>4, SearchersLemma
        <5>5. IsStrictPrefix(skip[v], display(e)) <=> IsPrefix(skip[v], display(reading))
          BY <1>1, <1>2, <5>1, <5>4, ChildSkipped
        <5>6. QED
          BY <5>2, <5>3, <5>5
      <4>2. CASE \E i \in DOMAIN stack : k = Len(order) + i /\ stack'[k] = stack[i]
        BY <1>1, <3>1, <4>2 DEF PruningInv, SkipInv
      <4>3. QED
        BY <1>5, <4>1, <4>2 DEF Lists
    <3>4. QED
      BY <2>4, <3>2, <3>3
  <2>7. QED
    BY <1>2, <2>4, <2>5, <2>6 DEF SkipInv
<1>13. ASSUME NEW c \in got PROVE c \notin hidden
  <2>1. SUFFICES ASSUME c \in hidden PROVE FALSE
    OBVIOUS
  <2>2. PICK q \in Directories : c \in Children(q) /\ Listed(q)
    BY <1>1, <2>1 DEF PruningInv, HiddenInv
  <2>3. q \in Paths /\ c \in Children(reading)
    BY TreeLemma
  <2>4. q = reading
    <3>1. Len(q) = Len(reading)
      BY <1>6, <1>7, <2>2, <2>3 DEF Children, Paths
    <3>2. IsPrefix(q, c) /\ IsPrefix(reading, c) /\ c \in Paths
      BY <1>7, <2>2, <2>3 DEF Children
    <3>3. IsPrefix(q, reading) \/ IsPrefix(reading, q)
      BY <1>6, <2>3, <3>2, ComparableLemma
    <3>4. \A i \in 1..Len(q) : q[i] = reading[i]
      BY <1>6, <2>3, <3>1, <3>3, PrefixLemma
    <3>5. QED
      BY <1>6, <2>3, <3>1, <3>4 DEF Paths
  <2>5. QED
    BY <1>2, <1>6, <2>2, <2>4, ReflexiveLemma DEF Listed
<1>14. \A p : display(p)' = display(p)
  BY <1>2 DEF display
<1>15. OpenInv'
  <2>1. ASSUME NEW k \in DOMAIN stack', NEW a \in Tree,
               IsPrefix(root.resolved, a), IsPrefix(a, stack'[k])
        PROVE  /\ a # stack'[k] => ~excluded(a, display(a))
               /\ a # root.resolved => a \notin hidden'
    <3>1. a \in Paths
      BY TreeLemma
    <3>2. CASE k \in DOMAIN order /\ stack'[k] = order[k]
      <4>1. PICK c \in got : c = stack'[k]
        BY <1>5, <3>2 DEF Lists
      <4>2. CASE a = c
        BY <1>4, <1>13, <4>1, <4>2
      <4>3. CASE a # c
        <5>1. IsPrefix(a, reading)
          BY <1>8, <2>1, <3>1, <4>1, <4>3 DEF IsStrictPrefix
        <5>2. ~excluded(a, display(a)) /\ (a # root.resolved => a \notin hidden)
          BY <1>1, <1>2, <2>1, <5>1 DEF PruningInv, OpenInv
        <5>3. a \notin Children(reading)
          BY <1>9, <5>1
        <5>4. QED
          BY <1>4, <5>2, <5>3
      <4>4. QED
        BY <4>2, <4>3
    <3>3. CASE \E i \in DOMAIN stack : k = Len(order) + i /\ stack'[k] = stack[i]
      <4>1. PICK i \in DOMAIN stack : stack'[k] = stack[i]
        BY <3>3
      <4>2. /\ a # stack'[k] => ~excluded(a, display(a))
            /\ a # root.resolved => a \notin hidden
        BY <1>1, <2>1, <4>1 DEF PruningInv, OpenInv
      <4>3. a \notin Children(reading)
        <5>1. SUFFICES ASSUME a \in Children(reading) PROVE FALSE
          OBVIOUS
        <5>2. IsPrefix(reading, stack[i])
          BY <1>6, <1>7, <2>1, <3>1, <4>1, <5>1, TransitiveLemma
        <5>3. QED
          BY <1>6, <5>2
      <4>4. QED
        BY <1>4, <4>2, <4>3
    <3>4. QED
      BY <1>5, <3>2, <3>3 DEF Lists
  <2>2. QED
    BY <1>2, <1>14, <2>1 DEF OpenInv
<1>16. \A q : Done(q)' <=> Done(q)
  BY <1>2 DEF Done
<1>17. HiddenInv'
  <2>1. ASSUME NEW q \in Paths, IsPrefix(root.resolved, q), q = reading \/ ~IsPrefix(reading, q),
               \A k \in DOMAIN stack : ~IsPrefix(stack[k], q)
        PROVE  Listed(q)'
    <3>1. ASSUME NEW k \in DOMAIN stack', IsPrefix(stack'[k], q) PROVE FALSE
      <4>1. CASE k \in DOMAIN order /\ stack'[k] = order[k]
        <5>1. PICK c \in Children(reading) : c = stack'[k]
          BY <1>5, <4>1 DEF Lists
        <5>2. CASE q = reading
          BY <1>9, <3>1, <5>1, <5>2
        <5>3. CASE ~IsPrefix(reading, q)
          BY <1>6, <1>7, <2>1, <3>1, <5>1, <5>3, TransitiveLemma
        <5>4. QED
          BY <2>1, <5>2, <5>3
      <4>2. CASE \E i \in DOMAIN stack : k = Len(order) + i /\ stack'[k] = stack[i]
        BY <2>1, <3>1, <4>2
      <4>3. QED
        BY <1>5, <4>1, <4>2 DEF Lists
    <3>2. QED
      BY <1>2, <2>1, <3>1 DEF Listed
  <2>2. ASSUME NEW q \in Directories, Listed(q) PROVE Listed(q)'
    <3>1. CASE Done(q)
      BY <1>16, <3>1 DEF Listed
    <3>2. CASE ~Done(q)
      BY <1>2, <2>1, <2>2, <3>2, TreeLemma DEF Listed
    <3>3. QED
      BY <3>1, <3>2
  <2>3. PICK q : q = reading
    OBVIOUS
  <2>4. Listed(q)' /\ q \in Directories
    BY <1>6, <2>1, <2>3
  <2>5. QED
    BY <1>1, <1>4, <2>2, <2>3, <2>4 DEF PruningInv, HiddenInv
<1>18. \A w, p : (\A a \in Children(reading) : IsPrefix(w.resolved, a) /\ IsPrefix(a, p) => a = w.resolved)
                   /\ Fair(w, p) => Fair(w, p)'
  <2>1. ASSUME NEW w, NEW p,
               \A a \in Children(reading) : IsPrefix(w.resolved, a) /\ IsPrefix(a, p) => a = w.resolved
        PROVE  Reachable(p, w)' <=> Reachable(p, w)
    BY <1>4, <2>1 DEF Reachable, pathWithin, Spelled
  <2>2. QED
    BY <1>2, <2>1, SettingsLemma DEF Fair
<1>19. FairInv'
  <2>1. ASSUME NEW p \in Tree, Done(p)
        PROVE  (\E w \in walked : Innermost(p, w) /\ Fair(w, p))'
    <3>1. PICK w \in walked : Innermost(p, w) /\ Fair(w, p)
      BY <1>1, <2>1 DEF PruningInv, FairInv
    <3>2. ASSUME NEW a \in Children(reading), IsPrefix(w.resolved, a), a # w.resolved PROVE FALSE
      <4>1. IsPrefix(w.resolved, reading)
        BY <1>6, <1>8, <3>2 DEF IsStrictPrefix
      <4>2. QED
        BY <1>6, <4>1 DEF Done
    <3>3. Fair(w, p)'
      BY <1>18, <3>1, <3>2
    <3>4. Innermost(p, w)'
      BY <1>2, <3>1 DEF Innermost, Holding
    <3>5. QED
      BY <1>2, <3>3, <3>4
  <2>2. ASSUME NEW p \in Tree, ~Done(p), Passed(p)' PROVE Fair(root, p)'
    <3>1. p \in Paths /\ IsPrefix(root.resolved, p)
      BY <1>2, <2>2, TreeLemma DEF Passed
    <3>2. PICK w : w = root
      OBVIOUS
    <3>3. CASE Passed(p)
      <4>1. Fair(w, p)
        BY <1>1, <2>2, <3>2, <3>3 DEF PruningInv, FairInv
      <4>2. ASSUME NEW a \in Children(reading), IsPrefix(a, p) PROVE FALSE
        BY <1>2, <1>6, <1>7, <3>1, <3>3, <4>2, StrictLemma DEF Passed
      <4>3. Fair(w, p)'
        BY <1>18, <4>1, <4>2
      <4>4. QED
        BY <1>2, <3>2, <4>3
    <3>4. CASE ~Passed(p)
      <4>1. \A i \in DOMAIN stack : ~IsPrefix(stack[i], p)
        BY <1>5, <2>2 DEF Passed, Lists
      <4>2. IsStrictPrefix(reading, p)
        BY <1>2, <3>1, <3>4, <4>1 DEF Passed
      <4>3. PICK c \in Children(reading) : IsPrefix(c, p)
        BY <1>6, <4>2, EntryLemma
      <4>4. c \notin got
        BY <1>5, <2>2, <4>3 DEF Passed, Lists
      <4>5. c \in hidden' /\ c # root.resolved /\ c \in Tree /\ IsPrefix(root.resolved, c)
        BY <1>4, <1>6, <1>7, <1>9, <4>4
      <4>6. ~Reachable(p, w)'
        BY <3>2, <4>3, <4>5 DEF Reachable, pathWithin
      <4>7. \A v \in Searchers : visited[v][p] # 1
        BY <1>3, <2>2, <3>4, SearchersLemma DEF DiscoveryInv, VisitedInv
      <4>8. Fair(w, p)'
        BY <1>2, <4>6, <4>7 DEF Fair
      <4>9. QED
        BY <1>2, <3>2, <4>8
    <3>5. QED
      BY <3>3, <3>4
  <2>3. QED
    BY <1>16, <2>1, <2>2 DEF FairInv
<1>20. QED
  BY <1>3, <1>10, <1>11, <1>12, <1>15, <1>17, <1>19 DEF PruningInv

(* What an entry does to a consumer that prunes by name: one that has pruned  *)
(* something above it is passed over, the others see it and skip it if they   *)
(* prune it.                                                                  *)
Shows(v, e) ==
  IF PrunedIn(root, v, e)
    THEN /\ skip'[v] = skip[v] /\ skip[v] # NoPath /\ IsStrictPrefix(skip[v], display(e))
         /\ \A p \in Tree : visited'[v][p] = visited[v][p]
    ELSE /\ skip'[v] = IF e \in Directories /\ prunes(v, e, e) THEN display(e) ELSE NoPath
         /\ \A p \in Tree : visited'[v][p] = IF p = e THEN visited[v][p] + 1 ELSE visited[v][p]

LEMMA OfferLemma ==
  ASSUME PruningInv, VisitEntry, NEW e \in Tree, e = Head(stack), ~stopsAt(e)
  PROVE  /\ skip' \in [AllVisitors -> Paths]
         /\ \A v \in Searchers : Shows(v, e)
         /\ e \in Directories =>
              reading' = IF \A v \in Visitors : skip'[v] # NoPath /\ IsPrefix(skip'[v], display(e))
                           THEN NoPath ELSE e
         /\ e \notin Directories => reading' = NoPath
<1>1. Offer(e) /\ pc = "walk" /\ stack # <<>>
  BY DEF VisitEntry
<1>2. /\ stack \in Seq(Tree) /\ 1 \in DOMAIN stack /\ e = stack[1]
      /\ skip \in [AllVisitors -> Paths] /\ visited \in [AllVisitors -> [Tree -> {0, 1}]]
  BY <1>1, TailLemma DEF PruningInv, DiscoveryInv, StackInv, SkipInv, VisitedInv
<1>3. e \in Paths /\ IsPrefix(root.resolved, e)
  BY <1>2, TreeLemma DEF PruningInv, DiscoveryInv, StackInv
<1>4. display(e) \in Paths /\ NoPath \in Paths
  <2>1. display(e) \in Paths
    BY <1>1, <1>3, DisplayLemma
  <2>2. QED
    BY <2>1 DEF NoPath, Paths
<1> DEFINE d == display(e)
           shown == {v \in Visitors : applies(v, d)}
<1>5. /\ skip' = [v \in AllVisitors |->
                    IF v \notin shown THEN skip[v]
                    ELSE IF e \in Directories /\ prunes(v, e, d) THEN d ELSE NoPath]
      /\ visited' = [v \in AllVisitors |->
                       IF v \in shown THEN [visited[v] EXCEPT ![e] = @ + 1] ELSE visited[v]]
      /\ reading' = IF e \in Directories /\ descend(skip', d) THEN e ELSE NoPath
  BY <1>1 DEF Offer
<1>6. \A v \in Searchers : v \in shown <=> ~PrunedIn(root, v, e)
  BY <1>2, SearchersLemma DEF PruningInv, SkipInv, applies
<1>7. ASSUME NEW v \in Searchers PROVE Shows(v, e)
  <2>1. v \in AllVisitors /\ (prunes(v, e, d) <=> prunes(v, e, e))
    BY SearchersLemma
  <2>2. CASE PrunedIn(root, v, e)
    <3>1. v \notin shown
      BY <1>6, <2>2
    <3>2. skip'[v] = skip[v] /\ visited'[v] = visited[v]
      <4> HIDE DEF shown
      <4>1. QED
        BY <1>5, <2>1, <3>1
    <3>3. skip[v] # NoPath /\ IsStrictPrefix(skip[v], display(e))
      BY <1>2, <2>2 DEF PruningInv, SkipInv
    <3>4. QED
      BY <2>2, <3>2, <3>3 DEF Shows
  <2>3. CASE ~PrunedIn(root, v, e)
    <3>1. v \in shown
      BY <1>6, <2>3
    <3>2. /\ skip'[v] = IF e \in Directories /\ prunes(v, e, e) THEN d ELSE NoPath
          /\ visited'[v] = [visited[v] EXCEPT ![e] = @ + 1]
      <4> HIDE DEF shown, d
      <4>1. QED
        BY <1>5, <2>1, <3>1
    <3>3. visited[v] \in [Tree -> {0, 1}]
      BY <1>2, <2>1
    <3>4. QED
      BY <2>3, <3>2, <3>3 DEF Shows
  <2>4. QED
    BY <2>2, <2>3
<1>8. skip' \in [AllVisitors -> Paths]
  <2> HIDE DEF d, shown
  <2>1. d \in Paths
    BY <1>4 DEF d
  <2>2. QED
    BY <1>2, <1>4, <1>5, <2>1
<1>9. QED
  BY <1>5, <1>7, <1>8 DEF descend, pathWithin

(* An entry is visited: every consumer that would come to it alone sees it,   *)
(* and what is left out below it is left out by all of them.                  *)
LEMMA PruningVisit == PruningInv /\ VisitEntry => PruningInv'
<1>1. SUFFICES ASSUME PruningInv, VisitEntry PROVE PruningInv'
  OBVIOUS
<1>0. PICK e : e = Head(stack)
  OBVIOUS
<1>2. /\ pc = "walk" /\ reading = NoPath /\ stack # <<>> /\ stack' = Tail(stack)
      /\ UNCHANGED <<pc, settings, left, root, walked, hidden>>
  BY <1>1 DEF VisitEntry
<1>3. DiscoveryInv /\ DiscoveryInv'
  BY <1>1, VisitLemma DEF PruningInv
<1>4. /\ e \in Tree /\ 1 \in DOMAIN stack /\ e = stack[1]
      /\ \A k \in DOMAIN stack' : k + 1 \in DOMAIN stack /\ 1 < k + 1 /\ stack'[k] = stack[k + 1]
      /\ \A k \in DOMAIN stack : k = 1 \/ (k - 1 \in DOMAIN stack' /\ stack'[k - 1] = stack[k])
  BY <1>0, <1>2, <1>3 DEF DiscoveryInv, StackInv
<1>5. /\ e \in Paths /\ e # NoPath /\ IsPrefix(root.resolved, e) /\ Given(root)
      /\ root.resolved \in Paths
      /\ \A k \in DOMAIN stack' :
           /\ ~IsPrefix(e, stack'[k]) /\ ~IsPrefix(stack'[k], e)
           /\ stack'[k] \in Paths /\ IsPrefix(root.resolved, stack'[k])
      /\ \A w \in walked : ~IsStrictPrefix(w.resolved, e)
  BY <1>1, <1>2, <1>3, <1>4, TreeLemma, GivenLemma, TreeAssumption
  DEF PruningInv, GivenInv, DiscoveryInv, StackInv, NoPath
<1>6. (stopsAt(e) /\ UNCHANGED <<skip, visited, reading>>) \/ ~stopsAt(e)
  BY <1>0, <1>1 DEF VisitEntry
<1>7. ASSUME ~stopsAt(e)
      PROVE  /\ skip' \in [AllVisitors -> Paths]
             /\ \A v \in Searchers : Shows(v, e)
             /\ e \in Directories =>
                  reading' = IF \A v \in Visitors : skip'[v] # NoPath /\ IsPrefix(skip'[v], display(e))
                               THEN NoPath ELSE e
             /\ e \notin Directories => reading' = NoPath
  BY <1>0, <1>1, <1>4, <1>7, OfferLemma
<1>8. reading' = NoPath \/ (reading' = e /\ e \in Directories /\ ~stopsAt(e))
  BY <1>2, <1>6, <1>7
<1>9. /\ \A p : display(p)' = display(p)
      /\ \A w, p : Spelled(w, p)' = Spelled(w, p)
      /\ \A q : Done(q)' <=> Done(q)
      /\ \A w, p : Reachable(p, w)' <=> Reachable(p, w)
      /\ Walks' = Walks
  BY <1>2 DEF display, Spelled, Done, Reachable, Walks
<1>10. GivenInv'
  BY <1>1, <1>2 DEF PruningInv, GivenInv, settings, requested, Given
<1>11. ChainInv'
  <2>1. ASSUME NEW k \in DOMAIN stack', NEW a \in Directories, IsStrictPrefix(a, stack'[k])
        PROVE  /\ \A j \in DOMAIN stack' : j < k => IsStrictPrefix(a, stack'[j])
               /\ IsStrictPrefix(a, e)
    <3>1. /\ \A j \in DOMAIN stack : j < k + 1 => IsStrictPrefix(a, stack[j])
      BY <1>1, <1>4, <2>1 DEF PruningInv, ChainInv
    <3>2. k \in Nat /\ \A j \in DOMAIN stack' : j \in Nat
      BY <1>2, <1>3, <2>1 DEF DiscoveryInv, StackInv
    <3>3. \A j \in DOMAIN stack' : j < k => j + 1 < k + 1
      BY <3>2
    <3>4. QED
      BY <1>4, <3>1, <3>2, <3>3
  <2>2. QED
    BY <1>8, <2>1 DEF ChainInv, IsStrictPrefix
<1>12. \A v \in Searchers, k \in DOMAIN stack' :
         PrunedIn(root, v, stack'[k]) => PrunedIn(root, v, e)
  BY <1>1, <1>4 DEF PruningInv, ChainInv, PrunedIn
<1>13. \A v \in Searchers : /\ \A a : prunes(v, a, a)' <=> prunes(v, a, a)
                            /\ \A w, p : PrunedIn(w, v, p)' <=> PrunedIn(w, v, p)
  BY <1>2, SettingsLemma
<1>14. SkipInv'
  <2>1. skip' \in [AllVisitors -> Paths]
    BY <1>1, <1>6, <1>7 DEF PruningInv, SkipInv
  <2>2. ASSUME NEW v \in Searchers, skip'[v] # NoPath
        PROVE  \E w \in Walks', a \in Directories :
                 IsPrefix(w.resolved, a) /\ skip'[v] = Spelled(w, a)' /\ prunes(v, a, a)'
    <3>1. CASE skip'[v] = skip[v]
      BY <1>1, <1>9, <1>13, <2>2, <3>1 DEF PruningInv, SkipInv
    <3>2. CASE skip'[v] = display(e) /\ e \in Directories /\ prunes(v, e, e)
      <4>1. root \in Walks' /\ skip'[v] = Spelled(root, e)
        BY <1>2, <1>9, <3>2 DEF Walks, display, Spelled
      <4>2. PICK w : w = root
        OBVIOUS
      <4>3. w \in Walks' /\ IsPrefix(w.resolved, e) /\ skip'[v] = Spelled(w, e)' /\ prunes(v, e, e)'
        BY <1>5, <1>9, <1>13, <3>2, <4>1, <4>2
      <4>4. QED
        BY <3>2, <4>3
    <3>3. QED
      BY <1>6, <1>7, <2>2, <3>1, <3>2 DEF Shows
  <2>3. ASSUME NEW v \in Searchers, NEW k \in DOMAIN stack'
        PROVE  PrunedIn(root, v, stack[k])' <=>
                 skip'[v] # NoPath /\ IsStrictPrefix(skip'[v], display(stack[k])')
    <3>1. PICK f : f = stack'[k]
      OBVIOUS
    <3>2. /\ PrunedIn(root, v, stack[k])' <=> PrunedIn(root, v, f)
          /\ display(stack[k])' = display(f)
      <4>1. PrunedIn(root, v, stack[k])' <=> PrunedIn(root, v, f)'
        BY <3>1 DEF PrunedIn
      <4>2. PICK w : w = root
        OBVIOUS
      <4>3. PrunedIn(w, v, f)' <=> PrunedIn(w, v, f)
        BY <1>13
      <4>4. QED
        BY <1>2, <3>1, <4>1, <4>2, <4>3 DEF display, PrunedIn
    <3>3. PrunedIn(root, v, f) <=> skip[v] # NoPath /\ IsStrictPrefix(skip[v], display(f))
      BY <1>1, <1>4, <3>1 DEF PruningInv, SkipInv
    <3>4. CASE skip'[v] = skip[v]
      BY <3>2, <3>3, <3>4
    <3>5. CASE ~PrunedIn(root, v, e) /\ (skip'[v] = NoPath \/ skip'[v] = display(e))
      <4>1. ~PrunedIn(root, v, f)
        BY <1>12, <3>1, <3>5
      <4>2. f \in Paths /\ IsPrefix(root.resolved, f) /\ ~IsPrefix(e, f)
        BY <1>5, <3>1
      <4>3. ~IsStrictPrefix(display(e), display(f))
        <5>1. IsStrictPrefix(display(e), display(f)) <=> IsStrictPrefix(e, f)
          BY <1>1, <1>2, <1>5, <4>2, DisplayLemma
        <5>2. QED
          BY <4>2, <5>1 DEF IsStrictPrefix
      <4>4. QED
        BY <3>2, <3>5, <4>1, <4>3
    <3>6. QED
      BY <1>6, <1>7, <3>4, <3>5 DEF Shows
  <2>4. ASSUME NEW v \in Searchers, reading' = e, e \in Directories, ~stopsAt(e)
        PROVE  PrunedIn(root, v, e) \/ prunes(v, e, e) <=>
                 skip'[v] # NoPath /\ IsPrefix(skip'[v], display(e))
    <3>1. display(e) \in Paths /\ display(e) # NoPath /\ IsPrefix(display(e), display(e))
      <4>1. display(e) \in Paths /\ display(e) # NoPath
        BY <1>1, <1>2, <1>5, DisplayLemma
      <4>2. QED
        BY <4>1, ReflexiveLemma
    <3>2. Shows(v, e)
      BY <1>7, <2>4
    <3>3. CASE PrunedIn(root, v, e)
      BY <3>2, <3>3 DEF Shows, IsStrictPrefix
    <3>4. CASE ~PrunedIn(root, v, e)
      BY <2>4, <3>1, <3>2, <3>4 DEF Shows
    <3>5. QED
      BY <3>3, <3>4
  <2>5. ASSUME NEW v \in Searchers, reading' # NoPath
        PROVE  (PrunedIn(root, v, reading) \/ prunes(v, reading, reading))' <=>
                 skip'[v] # NoPath /\ IsPrefix(skip'[v], display(reading)')
    <3>1. reading' = e /\ e \in Directories /\ ~stopsAt(e)
      BY <1>8, <2>5
    <3>2. PICK w : w = root
      OBVIOUS
    <3>3. (PrunedIn(w, v, e)' <=> PrunedIn(w, v, e)) /\ (prunes(v, e, e)' <=> prunes(v, e, e))
      BY <1>13
    <3>4. PrunedIn(root, v, reading)' <=> PrunedIn(w, v, e)
      <4>1. PrunedIn(root, v, reading)' <=> PrunedIn(w, v, e)'
        BY <1>2, <3>1, <3>2 DEF PrunedIn
      <4>2. QED
        BY <3>3, <4>1
    <3>5. prunes(v, reading, reading)' <=> prunes(v, e, e)
      <4>1. prunes(v, reading, reading)' <=> prunes(v, e, e)'
        BY <3>1 DEF prunes
      <4>2. QED
        BY <3>3, <4>1
    <3>6. display(reading)' = display(e)
      BY <1>2, <3>1 DEF display
    <3>7. QED
      BY <2>4, <3>1, <3>2, <3>4, <3>5, <3>6
  <2>6. QED
    BY <2>1, <2>2, <2>3, <2>5 DEF SkipInv
<1>15. OpenInv'
  <2>1. \A k \in DOMAIN stack', a \in Tree :
          IsPrefix(root.resolved, a) /\ IsPrefix(a, stack'[k]) =>
            /\ a # stack'[k] => ~excluded(a, display(a))
            /\ a # root.resolved => a \notin hidden
    BY <1>1, <1>4 DEF PruningInv, OpenInv
  <2>2. ~stopsAt(e) =>
          \A a \in Tree : IsPrefix(root.resolved, a) /\ IsPrefix(a, e) =>
            /\ ~excluded(a, display(a))
            /\ a # root.resolved => a \notin hidden
    BY <1>1, <1>4 DEF PruningInv, OpenInv, stopsAt
  <2>3. QED
    BY <1>2, <1>8, <1>9, <2>1, <2>2 DEF OpenInv, excluded
<1>16. HiddenInv'
  <2>1. ASSUME NEW q \in Directories, Listed(q) PROVE Listed(q)'
    <3>1. CASE Done(q)
      BY <1>9, <3>1 DEF Listed
    <3>2. CASE ~Done(q)
      <4>1. IsPrefix(root.resolved, q) /\ \A k \in DOMAIN stack : ~IsPrefix(stack[k], q)
        BY <2>1, <3>2 DEF Listed
      <4>2. ~IsPrefix(e, q) /\ \A k \in DOMAIN stack' : ~IsPrefix(stack'[k], q)
        BY <1>4, <4>1
      <4>3. QED
        BY <1>2, <1>8, <4>1, <4>2 DEF Listed
    <3>3. QED
      BY <3>1, <3>2
  <2>2. QED
    BY <1>1, <1>2, <2>1 DEF PruningInv, HiddenInv
<1>17. ASSUME NEW p \in Tree, Done(p) \/ Passed(p), NEW v \in Searchers
       PROVE  visited'[v][p] = visited[v][p]
  <2>1. CASE stopsAt(e)
    BY <1>6, <2>1
  <2>2. CASE ~stopsAt(e)
    <3>1. p # e
      <4>1. ~Passed(e)
        BY <1>4, <1>5, ReflexiveLemma DEF Passed
      <4>2. ASSUME NEW w \in walked, IsPrefix(w.resolved, e) PROVE FALSE
        <5>1. w.resolved = e /\ e \in Directories
          BY <1>3, <1>5, <4>2 DEF IsStrictPrefix, DiscoveryInv, RootInv
        <5>2. QED
          BY <2>2, <5>1 DEF stopsAt, walkedBefore
      <4>3. QED
        BY <1>17, <4>1, <4>2 DEF Done
    <3>2. QED
      BY <1>7, <2>2, <3>1 DEF Shows
  <2>3. QED
    BY <2>1, <2>2
<1>18. \A w, p : Fair(w, p) /\ (\A v \in Searchers : visited'[v][p] = visited[v][p]) => Fair(w, p)'
  BY <1>9, <1>13 DEF Fair
<1>19. FairInv'
  <2>1. ASSUME NEW p \in Tree, Done(p)
        PROVE  (\E w \in walked : Innermost(p, w) /\ Fair(w, p))'
    <3>1. PICK w \in walked : Innermost(p, w) /\ Fair(w, p)
      BY <1>1, <2>1 DEF PruningInv, FairInv
    <3>2. Fair(w, p)'
      BY <1>17, <1>18, <2>1, <3>1
    <3>3. QED
      BY <1>2, <3>1, <3>2 DEF Innermost, Holding
  <2>2. ASSUME NEW p \in Tree, ~Done(p), Passed(p)' PROVE Fair(root, p)'
    <3>1. p \in Paths /\ IsPrefix(root.resolved, p)
      BY <1>2, <2>2, TreeLemma DEF Passed
    <3>2. PICK w : w = root
      OBVIOUS
    <3>3. CASE Passed(p)
      <4>1. Fair(w, p)
        BY <1>1, <2>2, <3>2, <3>3 DEF PruningInv, FairInv
      <4>2. Fair(w, p)'
        BY <1>17, <1>18, <3>3, <4>1
      <4>3. QED
        BY <1>2, <3>2, <4>2
    <3>4. CASE ~Passed(p)
      <4>1. IsPrefix(e, p)
        BY <1>2, <1>4, <2>2, <3>1, <3>4 DEF Passed
      <4>2. \A v \in Searchers : visited[v][p] = 0
        BY <1>3, <2>2, <3>4, SearchersLemma DEF DiscoveryInv, VisitedInv
      <4>3. \A v \in Searchers : visited'[v][p] = 1 <=> Reachable(p, w) /\ ~PrunedIn(w, v, p)
        <5>1. CASE stopsAt(e)
          <6>1. ~walkedBefore(e)
            BY <2>2, <4>1 DEF walkedBefore, Done
          <6>2. excluded(e, Spelled(w, e))
            BY <3>2, <5>1, <6>1 DEF stopsAt, display, Spelled
          <6>3. ~Reachable(p, w)
            BY <1>4, <1>5, <3>2, <4>1, <6>2 DEF Reachable, pathWithin
          <6>4. QED
            BY <1>6, <4>2, <5>1, <6>3
        <5>2. CASE ~stopsAt(e) /\ p = e
          <6>1. Reachable(p, w)
            <7>1. \A a \in Tree : IsPrefix(root.resolved, a) /\ IsPrefix(a, e) =>
                    /\ ~excluded(a, display(a))
                    /\ a # root.resolved => a \notin hidden
              BY <1>1, <1>4, <5>2 DEF PruningInv, OpenInv, stopsAt
            <7>2. QED
              BY <3>2, <5>2, <7>1 DEF Reachable, pathWithin, display, Spelled
          <6>2. QED
            BY <1>4, <1>7, <3>2, <4>2, <5>2, <6>1 DEF Shows
        <5>3. CASE ~stopsAt(e) /\ p # e
          <6>1. IsStrictPrefix(e, p) /\ e \in Directories
            BY <1>5, <4>1, <5>3, AboveLemma DEF IsStrictPrefix
          <6>2. reading' = NoPath
            <7>1. reading' # e
              BY <1>5, <2>2, <6>1 DEF Passed
            <7>2. QED
              BY <1>8, <7>1
          <6>3. ASSUME NEW v \in Searchers PROVE PrunedIn(w, v, p)
            <7>1. skip'[v] # NoPath
              BY <1>5, <1>7, <5>3, <6>1, <6>2, SearchersLemma
            <7>2. Shows(v, e)
              BY <1>7, <5>3
            <7>3. CASE PrunedIn(root, v, e)
              <8>1. PICK a \in Directories :
                      IsPrefix(root.resolved, a) /\ IsStrictPrefix(a, e) /\ prunes(v, a, a)
                BY <7>3 DEF PrunedIn
              <8>2. IsStrictPrefix(a, p)
                BY <1>5, <3>1, <4>1, <8>1, TreeLemma, StrictLemma
              <8>3. QED
                BY <3>2, <8>1, <8>2 DEF PrunedIn
            <7>4. CASE ~PrunedIn(root, v, e)
              <8>1. prunes(v, e, e)
                BY <7>1, <7>2, <7>4 DEF Shows
              <8>2. QED
                BY <1>5, <3>2, <6>1, <8>1 DEF PrunedIn
            <7>5. QED
              BY <7>3, <7>4
          <6>4. \A v \in Searchers : visited'[v][p] = visited[v][p]
            BY <1>7, <5>3 DEF Shows
          <6>5. QED
            BY <4>2, <6>3, <6>4
        <5>4. QED
          BY <5>1, <5>2, <5>3
      <4>4. Fair(w, p)'
        BY <1>9, <1>13, <4>3 DEF Fair
      <4>5. QED
        BY <1>2, <3>2, <4>4
    <3>5. QED
      BY <3>3, <3>4
  <2>3. QED
    BY <1>9, <2>1, <2>2 DEF FairInv
<1>20. QED
  BY <1>3, <1>10, <1>11, <1>14, <1>15, <1>16, <1>19 DEF PruningInv

LEMMA PruningStep == PruningInv /\ RootsLieOpen /\ [Next]_vars => PruningInv'
<1>1. SUFFICES ASSUME PruningInv, RootsLieOpen, [Next]_vars PROVE PruningInv'
  OBVIOUS
<1>2. CASE UNCHANGED vars \/ (\E p \in Fleeting : ComeOrGo(p)) \/ AllWalked
  <2>1. /\ UNCHANGED <<settings, left, root, walked, stack, reading, skip, visited, hidden>>
        /\ pc' = pc \/ (pc # "walk" /\ pc' # "walk")
    BY <1>2 DEF vars, ComeOrGo, AllWalked
  <2>2. GivenInv'
    BY <1>1, <2>1 DEF PruningInv, GivenInv, settings, requested, Given
  <2>3. DiscoveryInv'
    BY <1>1, StepLemma DEF PruningInv
  <2>4. QED
    BY <1>1, <2>1, <2>2, <2>3, PruningIdle DEF PruningInv
<1>3. QED
  BY <1>1, <1>2, PruningCheckTops, PruningNextRoot, PruningVisit, PruningRead, PruningFinishRoot
  DEF Next

(* What one skips says what it would have missed alone, in every state of     *)
(* every walk whose roots lie open.                                           *)
THEOREM PruningInvariance == Spec /\ []RootsLieOpen => []PruningInv
<1>1. QED
  BY PruningInit, PruningStep, PTL DEF Spec

(* "Each consumer keeps its original pruning rules" (discovery.go:10): the    *)
(* project checks, Python discovery and Git discovery are each shown what     *)
(* they would come to alone, whatever the other two prune, if no root is      *)
(* given as a link inside what one of them prunes.                            *)
THEOREM EachKeepsItsPruning == Spec /\ []RootsLieOpen => []KeepsItsPruning
<1>1. ASSUME PruningInv, pc = "done", NEW v \in Visitors \ {"temp"}, NEW p \in Tree
      PROVE  visited[v][p] > 0 <=>
               \E w \in walked :
                 /\ Innermost(p, w) /\ Reachable(p, w)
                 /\ ~\E a \in Directories : /\ pathWithin(w.resolved, a) /\ IsStrictPrefix(a, p)
                                            /\ prunes(v, a, Spelled(w, a))
  <2>1. v \in Searchers /\ v \in AllVisitors
    BY <1>1, SearchersLemma
  <2>2. visited[v][p] \in {0, 1} /\ (visited[v][p] = 1 => Done(p))
    BY <1>1, <2>1 DEF PruningInv, DiscoveryInv, VisitedInv, Passed
  <2>3. visited[v][p] > 0 <=> visited[v][p] = 1
    BY <2>2
  <2>4. \A w : PrunedIn(w, v, p) <=>
          \E a \in Directories : /\ pathWithin(w.resolved, a) /\ IsStrictPrefix(a, p)
                                 /\ prunes(v, a, Spelled(w, a))
    BY <2>1, SearchersLemma DEF PrunedIn, pathWithin
  <2>5. ASSUME NEW w \in walked, NEW x \in walked, Innermost(p, w), Innermost(p, x)
        PROVE  w = x
    <3>1. w.resolved \in Paths /\ x.resolved \in Paths
      BY <1>1, GivenLemma DEF PruningInv, GivenInv
    <3>2. IsPrefix(w.resolved, x.resolved) /\ IsPrefix(x.resolved, w.resolved)
      BY <2>5 DEF Innermost, Holding, pathWithin
    <3>3. w.resolved = x.resolved
      BY <3>1, <3>2, AntisymmetricLemma
    <3>4. QED
      BY <1>1, <3>3 DEF PruningInv, GivenInv
  <2>6. CASE Done(p)
    <3>1. PICK w \in walked : Innermost(p, w) /\ Fair(w, p)
      BY <1>1, <2>6 DEF PruningInv, FairInv
    <3>2. visited[v][p] = 1 <=> Reachable(p, w) /\ ~PrunedIn(w, v, p)
      BY <2>1, <3>1 DEF Fair
    <3>3. QED
      BY <2>3, <2>4, <2>5, <3>1, <3>2
  <2>7. CASE ~Done(p)
    BY <2>2, <2>3, <2>7 DEF Innermost, Holding, Done, pathWithin
  <2>8. QED
    BY <2>6, <2>7
<1>2. PruningInv => KeepsItsPruning
  BY <1>1 DEF KeepsItsPruning
<1>3. QED
  BY <1>2, PruningInvariance, PTL

-----------------------------------------------------------------------------
(* What temp staging is shown goes by the spelling of a path, and its names   *)
(* are judged as they are shown.                                              *)
Untouched(p) == ~\E f \in changed : IsPrefix(f, p)

(* No requested root contains a temp directory that is walked, and none that  *)
(* is a link leads into one.                                                  *)
TempsLieApart ==
  \A t \in tempScanRoots, r \in {x \in requested : resolvable(x)} :
    /\ ~IsStrictPrefix(resolve(r), t)
    /\ r \in DOMAIN Links => ~IsPrefix(t, resolve(r))

InTemp(p) == \E t \in tempScanRoots : IsPrefix(t, p)

(* A root is one that was asked for, or a temp directory by its own name.     *)
KnownInv ==
  /\ resolvable(home) /\ extra \in Seq(Paths) /\ left \in Seq(Paths)
  /\ \A k \in DOMAIN left : left[k] \in requested \cup tempScanRoots
  /\ pc = "tops" => walked = {}
  /\ \A w \in walked : Given(w)
  /\ \A w, x \in walked : w.resolved = x.resolved => w = x
  /\ pc = "walk" =>
       /\ Given(root)
       /\ root.absolute \in requested \cup tempScanRoots
       /\ root.resolved = resolve(root.absolute)

(* What temp staging skips lies in some walk; in that of a temp directory it  *)
(* skips nothing that is still to be visited.                                 *)
TempSkipInv ==
  /\ skip["temp"] \in Paths /\ DOMAIN skip = AllVisitors
  /\ skip["temp"] # NoPath =>
       \E w \in Walks, a \in Directories :
         IsPrefix(w.resolved, a) /\ skip["temp"] = Spelled(w, a)
  /\ pc = "walk" /\ root.absolute = root.resolved /\ InTemp(root.resolved) =>
       /\ \A k \in DOMAIN stack :
            skip["temp"] = NoPath \/ ~IsStrictPrefix(skip["temp"], stack[k])
       /\ reading # NoPath => skip["temp"] = NoPath

(* A staging name at the top of a temp directory that is not walked is        *)
(* reported, if it was there and stayed.                                      *)
TopsInv ==
  pc # "tops" /\ skipTemps =>
    \A p \in Staging :
      p \in there /\ Untouched(p) /\ Front(p) \in skippedTops => p \in staged

(* So is one that the walk of a temp directory has passed and could reach.    *)
MatchedInv ==
  \A p \in Staging : InTemp(p) =>
    /\ Done(p) => \E w \in walked : Innermost(p, w) /\ (Reachable(p, w) => p \in staged)
    /\ ~Done(p) /\ Passed(p) /\ Reachable(p, root) => p \in staged

StagingInv == DiscoveryInv /\ KnownInv /\ TempSkipInv /\ TopsInv /\ MatchedInv

(* What a root skipped lies above no other root unless both are spelled as    *)
(* they are: nothing in the tree lies below a link.                           *)
LEMMA SkippedLemma ==
  ASSUME NEW w, Given(w), NEW a \in Directories, IsPrefix(w.resolved, a),
         NEW r \in Tree, IsStrictPrefix(Spelled(w, a), r)
  PROVE  w.absolute = w.resolved /\ Spelled(w, a) = a
<1>1. /\ w.absolute \in Paths /\ w.resolved \in Paths /\ w.absolute # NoPath
      /\ a \in Paths /\ r \in Paths
      /\ Spelled(w, a) = Respelled(w.absolute, w.resolved, a)
  BY GivenLemma, TreeLemma
<1>2. Spelled(w, a) \in Paths /\ IsPrefix(w.absolute, Spelled(w, a))
  <2>1. Respelled(w.absolute, w.resolved, a) \in Paths
    BY <1>1, SpelledLemma
  <2>2. IsPrefix(w.absolute, Respelled(w.absolute, w.resolved, a))
    BY <1>1, RootSpelling
  <2>3. QED
    BY <1>1, <2>1, <2>2
<1>3. w.absolute \notin DOMAIN Links
  <2>1. IsStrictPrefix(w.absolute, r)
    BY <1>1, <1>2, StrictLemma
  <2>2. w.absolute \in Directories
    BY <1>1, <2>1, AboveLemma
  <2>3. QED
    BY <2>2, TreeAssumption
<1>4. w.absolute = w.resolved
  BY <1>3 DEF Given
<1>5. Respelled(w.absolute, w.resolved, a) = a
  BY <1>1, <1>4, RootSpelling
<1>6. QED
  BY <1>1, <1>4, <1>5

(* The temp directories and what is asked for stay the same during a scan.    *)
LEMMA TempSettings ==
  ASSUME UNCHANGED settings
  PROVE  /\ tempScanRoots' = tempScanRoots /\ requested' = requested
         /\ skippedTops' = skippedTops /\ ScanRoots' = ScanRoots
         /\ \A p : InTemp(p)' <=> InTemp(p)
<1>1. /\ tempScanRoots' = tempScanRoots /\ requested' = requested
      /\ \A t : pathInScope(t)' <=> pathInScope(t)
  BY DEF settings, tempScanRoots, walksTemp, pathInScope, rootRequested, requested
<1>2. skippedTops' = skippedTops
  BY <1>1 DEF skippedTops
<1>3. ScanRoots' = ScanRoots
  BY <1>1 DEF ScanRoots, tempWalkRoots, settings
<1>4. QED
  BY <1>1, <1>2, <1>3 DEF InTemp

LEMMA TempLemma ==
  /\ tempScanRoots \subseteq Directories /\ tempScanRoots \subseteq Paths
  /\ tempScanRoots \subseteq tempSpellings
  BY TreeLemma DEF tempScanRoots, walksTemp, tempSpellings

(* A root to walk is home, one of the others that were given, or a temp       *)
(* directory.                                                                 *)
LEMMA KnownRoots ==
  ASSUME resolvable(home), extra \in Seq(Paths), NEW k \in DOMAIN ScanRoots
  PROVE  ScanRoots[k] \in requested \cup tempScanRoots
<1> DEFINE temps == SetToSeq(tempWalkRoots)
           first == <<home>> \o extra
<1>1. tempWalkRoots \in SUBSET Directories /\ tempWalkRoots \subseteq tempScanRoots
  BY TreeLemma DEF tempWalkRoots, tempScanRoots, walksTemp
<1>2. temps \in Seq(tempWalkRoots) /\ temps \in Seq(Paths)
  <2>1. temps \in Seq(tempWalkRoots)
    BY <1>1, ListLemma
  <2>2. tempWalkRoots \subseteq Paths
    BY <1>1, TreeLemma
  <2>3. QED
    BY <2>1, <2>2
<1>3. ScanRoots = first \o temps
  BY DEF ScanRoots
<1> HIDE DEF temps
<1>4. <<home>> \in Seq(Paths) /\ Len(<<home>>) = 1 /\ <<home>>[1] = home
  BY TreeLemma, TreeAssumption DEF resolvable
<1>5. /\ first \in Seq(Paths) /\ Len(first) = 1 + Len(extra)
      /\ first[1] = home
      /\ \A j \in 1..Len(first) : j # 1 => j - 1 \in DOMAIN extra /\ first[j] = extra[j - 1]
  BY <1>4
<1> HIDE DEF first
<1>6. k \in 1..Len(first) + Len(temps)
  BY <1>2, <1>3, <1>5
<1>7. CASE k \in 1..Len(first)
  <2>1. ScanRoots[k] = first[k]
    BY <1>2, <1>3, <1>5, <1>7
  <2>2. first[k] = home \/ \E i \in DOMAIN extra : first[k] = extra[i]
    BY <1>5, <1>7
  <2>3. QED
    BY <2>1, <2>2 DEF requested, ToSet
<1>8. CASE k \notin 1..Len(first)
  <2>1. k - Len(first) \in DOMAIN temps /\ ScanRoots[k] = temps[k - Len(first)]
    BY <1>2, <1>3, <1>5, <1>6, <1>8
  <2>2. QED
    BY <1>1, <1>2, <2>1
<1>9. QED
  BY <1>7, <1>8

-----------------------------------------------------------------------------
LEMMA StagingInit == Init => StagingInv
<1>1. SUFFICES ASSUME Init PROVE StagingInv
  OBVIOUS
<1>2. /\ pc = "tops" /\ walked = {} /\ stack = <<>> /\ reading = NoPath
      /\ left = <<>> /\ skip = [v \in AllVisitors |-> NoPath]
  BY <1>1 DEF Init
<1>3. KnownInv
  <2>1. GivenInv
    BY <1>1, PruningInit DEF PruningInv
  <2>2. QED
    BY <1>2, <2>1 DEF GivenInv, KnownInv
<1>4. TempSkipInv
  BY <1>2 DEF TempSkipInv, NoPath, Paths, AllVisitors
<1>5. TopsInv /\ MatchedInv
  BY <1>2 DEF TopsInv, MatchedInv, Done, Passed
<1>6. QED
  BY <1>1, <1>3, <1>4, <1>5, InitLemma DEF StagingInv

(* Whatever the step: a finding stays, and what was not touched is there      *)
(* exactly if it was there before.                                            *)
LEMMA StaysLemma ==
  ASSUME [Next]_vars
  PROVE  /\ staged \subseteq staged' \/ CheckTops
         /\ \A p \in Tree : Untouched(p)' => Untouched(p) /\ (p \in there' <=> p \in there)
         /\ UNCHANGED settings
<1>1. CASE \E f \in Fleeting : ComeOrGo(f)
  <2>1. PICK f \in Fleeting : ComeOrGo(f)
    BY <1>1
  <2>2. /\ staged' = staged /\ changed' = changed \cup {f} /\ UNCHANGED settings
        /\ there' = there \ below(f) \/ there' = there \cup below(f)
    BY <2>1 DEF ComeOrGo, reports
  <2>3. \A p \in Tree : Untouched(p)' => p \notin below(f) /\ Untouched(p)
    BY <2>2 DEF Untouched, below
  <2>4. QED
    BY <2>2, <2>3
<1>2. CASE UNCHANGED disk
  <2>1. \A p : Untouched(p)' => Untouched(p) /\ there' = there
    BY <1>2 DEF disk, Untouched
  <2>2. (staged \subseteq staged' \/ CheckTops) /\ UNCHANGED settings
    BY DEF vars, reports, Next, ComeOrGo, NextRoot, AllWalked, VisitEntry, Offer, ReadDirectory,
           FinishRoot, CheckTops
  <2>3. QED
    BY <2>1, <2>2
<1>3. QED
  BY <1>1, <1>2 DEF vars, disk, Next, CheckTops, NextRoot, AllWalked, VisitEntry, ReadDirectory,
                    FinishRoot

(* checkSkippedTempTops: all that is there at the time.                       *)
LEMMA TopsStep == TopsInv /\ [Next]_vars => TopsInv'
<1>1. SUFFICES ASSUME TopsInv, [Next]_vars PROVE TopsInv'
  OBVIOUS
<1>2. /\ staged \subseteq staged' \/ CheckTops
      /\ \A p \in Tree : Untouched(p)' => Untouched(p) /\ (p \in there' <=> p \in there)
      /\ UNCHANGED settings
  BY <1>1, StaysLemma
<1>3. skippedTops' = skippedTops /\ skipTemps' = skipTemps /\ Staging \subseteq Tree
  BY <1>2, TempSettings, TreeAssumption DEF settings
<1>4. CASE CheckTops
  BY <1>3, <1>4 DEF CheckTops, TopsInv, disk
<1>5. CASE ~CheckTops
  <2>1. pc # "tops" \/ pc' = "tops"
    BY <1>1, <1>5 DEF vars, Next, ComeOrGo, NextRoot, AllWalked, VisitEntry, ReadDirectory, FinishRoot
  <2>2. QED
    BY <1>1, <1>2, <1>3, <1>5, <2>1 DEF TopsInv
<1>6. QED
  BY <1>4, <1>5

(* Where the roots come from.                                                 *)
LEMMA KnownStep == DiscoveryInv /\ KnownInv /\ [Next]_vars => KnownInv'
<1>1. SUFFICES ASSUME DiscoveryInv, KnownInv, [Next]_vars PROVE KnownInv'
  OBVIOUS
<1>2. UNCHANGED settings
  BY <1>1, StaysLemma
<1>3. /\ requested' = requested /\ tempScanRoots' = tempScanRoots
      /\ home' = home /\ extra' = extra
  BY <1>2, TempSettings DEF settings
<1>4. CASE CheckTops
  <2>1. left' = ScanRoots /\ pc' = "root" /\ UNCHANGED walked
    BY <1>4 DEF CheckTops
  <2>2. /\ ScanRoots \in Seq(Paths)
        /\ \A k \in DOMAIN ScanRoots : ScanRoots[k] \in requested \cup tempScanRoots
    BY <1>1, ScanRootsLemma, KnownRoots DEF KnownInv
  <2>3. QED
    BY <1>1, <1>3, <2>1, <2>2 DEF KnownInv, Given
<1>5. CASE NextRoot
  <2>0. PICK r : r = Head(left)
    OBVIOUS
  <2>1. left # <<>> /\ left' = Tail(left) /\ UNCHANGED walked /\ pc' # "tops"
    BY <1>5 DEF NextRoot
  <2>2. /\ r \in requested \cup tempScanRoots
        /\ left' \in Seq(Paths)
        /\ \A k \in DOMAIN left' : left'[k] \in requested \cup tempScanRoots
    <3>1. left \in Seq(Paths) /\ \A k \in DOMAIN left : left[k] \in requested \cup tempScanRoots
      BY <1>1 DEF KnownInv
    <3>2. /\ Tail(left) \in Seq(Paths) /\ r = left[1] /\ 1 \in DOMAIN left
          /\ \A k \in DOMAIN Tail(left) : k + 1 \in DOMAIN left /\ Tail(left)[k] = left[k + 1]
      BY <2>0, <2>1, <3>1
    <3>3. QED
      BY <2>1, <3>1, <3>2
  <2>3. CASE pc' = "walk"
    <3>1. resolvable(r) /\ root' = [absolute |-> r, resolved |-> resolve(r)]
      BY <1>5, <2>0, <2>3 DEF NextRoot
    <3>2. Given(root)'
      BY <3>1, TreeLemma DEF Given, resolve, resolvable
    <3>3. QED
      BY <1>1, <1>3, <2>1, <2>2, <3>1, <3>2 DEF KnownInv, Given
  <2>4. CASE pc' # "walk"
    BY <1>1, <1>3, <2>1, <2>2, <2>4 DEF KnownInv, Given
  <2>5. QED
    BY <2>3, <2>4
<1>6. CASE FinishRoot
  <2>1. pc = "walk" /\ pc' = "root" /\ left' = left /\ walked' = walked \cup {root}
    BY <1>6 DEF FinishRoot
  <2>2. Given(root) /\ \A w \in walked : w.resolved # root.resolved
    <3>1. Given(root) /\ ~Done(root.resolved) /\ root.resolved \in Paths
      BY <1>1, <2>1, GivenLemma DEF KnownInv, DiscoveryInv, RootInv
    <3>2. QED
      BY <3>1, ReflexiveLemma DEF Done
  <2>3. QED
    BY <1>1, <1>3, <2>1, <2>2 DEF KnownInv, Given
<1>7. CASE UNCHANGED <<left, root, walked>> /\ pc' \in {pc, "done"}
  BY <1>1, <1>3, <1>7 DEF KnownInv, Given
<1>8. QED
  BY <1>1, <1>4, <1>5, <1>6, <1>7
  DEF vars, Next, ComeOrGo, AllWalked, VisitEntry, ReadDirectory

(* The walk a path in a temp directory belongs to is that of a temp directory *)
(* under its own name.                                                        *)
LEMMA TempWalkLemma ==
  ASSUME KnownInv, TempsLieApart, pc = "walk", NEW p \in Tree, InTemp(p),
         IsPrefix(root.resolved, p)
  PROVE  root.absolute = root.resolved /\ InTemp(root.resolved)
<1>1. PICK t \in tempScanRoots : IsPrefix(t, p)
  BY DEF InTemp
<1>2. /\ t \in Paths /\ p \in Paths /\ root.resolved \in Paths
      /\ root.resolved = resolve(root.absolute)
  BY TempLemma, TreeLemma, GivenLemma DEF KnownInv
<1>3. CASE root.absolute \in tempScanRoots
  <2>1. root.absolute \in Directories
    BY <1>3, TempLemma
  <2>2. root.absolute = root.resolved
    BY <1>2, <2>1, TreeAssumption DEF resolve
  <2>3. QED
    BY <1>2, <1>3, <2>2, ReflexiveLemma DEF InTemp
<1>4. CASE root.absolute \in requested
  <2>1. resolvable(root.absolute)
    BY DEF KnownInv, Given, resolvable
  <2>2. ~IsStrictPrefix(root.resolved, t) /\ (root.absolute \in DOMAIN Links => ~IsPrefix(t, root.resolved))
    BY <1>2, <1>4, <2>1 DEF TempsLieApart
  <2>3. IsPrefix(t, root.resolved) \/ IsPrefix(root.resolved, t)
    BY <1>1, <1>2, ComparableLemma
  <2>4. IsPrefix(t, root.resolved)
    BY <1>2, <2>2, <2>3, ReflexiveLemma DEF IsStrictPrefix
  <2>5. QED
    BY <2>2, <2>4 DEF KnownInv, Given, InTemp
<1>5. QED
  BY <1>3, <1>4 DEF KnownInv

(* What an entry does to temp staging, which sees what lies below nothing it  *)
(* skips, keeps what it judges by its spelling, and keeps the walk going.     *)
LEMMA TempOffer ==
  ASSUME NEW e, Offer(e), DOMAIN skip = AllVisitors
  PROVE  /\ DOMAIN skip' = AllVisitors
         /\ "temp" \in Visitors /\ applies("temp", display(e)) =>
              /\ skip'["temp"] = IF e \in Directories /\ prunes("temp", e, display(e))
                                   THEN display(e) ELSE NoPath
              /\ e \in Staging /\ ~prunes("temp", e, display(e)) => e \in staged'
         /\ ~("temp" \in Visitors /\ applies("temp", display(e))) => skip'["temp"] = skip["temp"]
         /\ "temp" \in Visitors /\ skip'["temp"] = NoPath /\ e \in Directories => reading' = e
<1> DEFINE d == display(e)
           shown == {v \in Visitors : applies(v, d)}
<1>1. /\ skip' = [v \in AllVisitors |->
                    IF v \notin shown THEN skip[v]
                    ELSE IF e \in Directories /\ prunes(v, e, d) THEN d ELSE NoPath]
      /\ staged' = IF "temp" \in shown /\ e \in Staging /\ ~prunes("temp", e, d)
                     THEN staged \cup {e} ELSE staged
      /\ reading' = IF e \in Directories /\ descend(skip', d) THEN e ELSE NoPath
  BY DEF Offer
<1>2. "temp" \in AllVisitors
  BY DEF AllVisitors
<1>3. "temp" \in shown <=> "temp" \in Visitors /\ applies("temp", d)
  OBVIOUS
<1> HIDE DEF d, shown
<1>4. /\ DOMAIN skip' = AllVisitors
      /\ skip'["temp"] = IF "temp" \notin shown THEN skip["temp"]
                         ELSE IF e \in Directories /\ prunes("temp", e, d) THEN d ELSE NoPath
  BY <1>1, <1>2
<1>5. "temp" \in Visitors /\ skip'["temp"] = NoPath /\ e \in Directories => reading' = e
  BY <1>1 DEF descend
<1>6. e \in Staging /\ "temp" \in shown /\ ~prunes("temp", e, d) => e \in staged'
  BY <1>1
<1>7. QED
  BY <1>3, <1>4, <1>5, <1>6 DEF d

(* In the walk of a temp directory under its own name nothing is pruned, and  *)
(* every entry is shown.                                                      *)
LEMMA TempEntry ==
  ASSUME DiscoveryInv, KnownInv, TempSkipInv, pc = "walk", root.absolute = root.resolved,
         InTemp(root.resolved), NEW k \in DOMAIN stack
  PROVE  /\ "temp" \in Visitors /\ applies("temp", display(stack[k]))
         /\ ~prunes("temp", stack[k], display(stack[k]))
<1>1. PICK e : e = stack[k]
  OBVIOUS
<1>2. e \in Paths /\ IsPrefix(root.resolved, e) /\ root.resolved \in Paths /\ Given(root)
  BY <1>1, TreeLemma, GivenLemma DEF DiscoveryInv, StackInv, KnownInv
<1>3. display(e) = e
  <2>1. Respelled(root.absolute, root.resolved, e) = e
    BY <1>2, RootSpelling
  <2>2. QED
    BY <2>1 DEF display, Respelled
<1>4. PICK t \in tempScanRoots : IsPrefix(t, root.resolved)
  BY DEF InTemp
<1>5. t \in tempSpellings /\ IsPrefix(t, e)
  BY <1>2, <1>4, TempLemma, TransitiveLemma
<1>6. ~prunes("temp", e, e)
  BY <1>5 DEF prunes, pathWithin
<1>7. applies("temp", e)
  BY <1>1 DEF TempSkipInv, applies
<1>8. "temp" \in Visitors
  BY <1>4 DEF Visitors, AllVisitors
<1>9. QED
  BY <1>1, <1>3, <1>6, <1>7, <1>8

(* A root that none walked before contains, and that is no link, lies below   *)
(* nothing that temp staging skips.                                           *)
LEMMA TempFresh ==
  ASSUME DiscoveryInv, KnownInv, TempSkipInv, pc = "root", NEW r \in Directories,
         ~rootCovered(r), skip["temp"] # NoPath
  PROVE  ~IsStrictPrefix(skip["temp"], r)
<1>1. SUFFICES ASSUME IsStrictPrefix(skip["temp"], r) PROVE FALSE
  OBVIOUS
<1>2. PICK w \in walked, a \in Directories :
        IsPrefix(w.resolved, a) /\ skip["temp"] = Spelled(w, a)
  BY DEF TempSkipInv, Walks
<1>3. Given(w) /\ w.resolved \in Paths /\ a \in Paths /\ r \in Paths /\ r \in Tree
  BY <1>2, GivenLemma, TreeLemma DEF KnownInv
<1>4. Spelled(w, a) = a
  BY <1>1, <1>2, <1>3, SkippedLemma
<1>5. IsPrefix(w.resolved, r)
  BY <1>1, <1>2, <1>3, <1>4, TransitiveLemma DEF IsStrictPrefix
<1>6. QED
  BY <1>5 DEF rootCovered, pathWithin

LEMMA TempSkipIdle ==
  ASSUME TempSkipInv, UNCHANGED <<settings, root, walked, stack, reading, skip>>,
         pc' = pc \/ (pc # "walk" /\ pc' # "walk")
  PROVE  TempSkipInv'
<1>1. Walks' = Walks
  BY DEF Walks
<1>2. \A p : InTemp(p)' <=> InTemp(p)
  BY TempSettings
<1>3. InTemp(root.resolved)' <=> InTemp(root.resolved)
  BY <1>2 DEF InTemp
<1>4. QED
  BY <1>1, <1>3 DEF TempSkipInv, Spelled

LEMMA TempSkipNextRoot ==
  DiscoveryInv /\ KnownInv /\ TempSkipInv /\ NextRoot => TempSkipInv'
<1>1. SUFFICES ASSUME DiscoveryInv, KnownInv, TempSkipInv, NextRoot PROVE TempSkipInv'
  OBVIOUS
<1>0. PICK r : r = Head(left)
  OBVIOUS
<1>2. /\ pc = "root" /\ left # <<>> /\ UNCHANGED <<settings, walked, reading, skip>>
  BY <1>1 DEF NextRoot
<1>3. CASE ~resolvable(r) \/ rootCovered(resolve(r))
  <2>1. UNCHANGED <<pc, root, stack>>
    BY <1>0, <1>1, <1>3 DEF NextRoot
  <2>2. QED
    BY <1>1, <1>2, <2>1, TempSkipIdle
<1>4. CASE resolvable(r) /\ ~rootCovered(resolve(r))
  <2>1. PICK top : top = resolve(r)
    OBVIOUS
  <2>2. /\ pc' = "walk" /\ root' = [absolute |-> r, resolved |-> top] /\ stack' = <<top>>
        /\ reading' = NoPath
    BY <1>0, <1>1, <1>2, <1>4, <2>1 DEF NextRoot, DiscoveryInv, RootInv
  <2>3. top \in Directories /\ DOMAIN stack' = {1} /\ stack'[1] = top
    BY <1>4, <2>1, <2>2, TreeLemma
  <2>4. \A w \in Walks : w \in Walks'
    BY <1>2 DEF Walks
  <2>5. skip["temp"] # NoPath => ~IsStrictPrefix(skip["temp"], top)
    BY <1>1, <1>2, <1>4, <2>1, <2>3, TempFresh
  <2>6. skip'["temp"] # NoPath =>
          \E w \in Walks', a \in Directories :
            IsPrefix(w.resolved, a) /\ skip'["temp"] = Spelled(w, a)
    BY <1>1, <1>2, <2>4 DEF TempSkipInv
  <2>7. QED
    BY <1>1, <1>2, <2>2, <2>3, <2>5, <2>6 DEF TempSkipInv, Spelled
<1>5. QED
  BY <1>3, <1>4

LEMMA TempSkipVisit ==
  DiscoveryInv /\ KnownInv /\ TempSkipInv /\ VisitEntry => TempSkipInv'
<1>1. SUFFICES ASSUME DiscoveryInv, KnownInv, TempSkipInv, VisitEntry PROVE TempSkipInv'
  OBVIOUS
<1>0. PICK e : e = Head(stack)
  OBVIOUS
<1>2. /\ pc = "walk" /\ reading = NoPath /\ stack # <<>> /\ stack' = Tail(stack)
      /\ UNCHANGED <<pc, settings, root, walked>>
  BY <1>1 DEF VisitEntry
<1>3. /\ e \in Tree /\ 1 \in DOMAIN stack /\ e = stack[1]
      /\ \A k \in DOMAIN stack' : k + 1 \in DOMAIN stack /\ stack'[k] = stack[k + 1]
  BY <1>0, <1>1, <1>2, TailLemma DEF DiscoveryInv, StackInv
<1>4. Walks' = Walks /\ root \in Walks
  BY <1>2 DEF Walks
<1>5. InTemp(root.resolved)' <=> InTemp(root.resolved)
  <2>1. \A p : InTemp(p)' <=> InTemp(p)
    BY <1>2, TempSettings
  <2>2. QED
    BY <1>2, <2>1 DEF InTemp
<1>6. CASE stopsAt(e)
  <2>1. UNCHANGED <<skip, reading>>
    BY <1>0, <1>1, <1>6 DEF VisitEntry
  <2>2. QED
    BY <1>1, <1>2, <1>3, <1>4, <1>5, <2>1 DEF TempSkipInv, Spelled
<1>7. CASE ~stopsAt(e)
  <2>1. Offer(e) /\ DOMAIN skip = AllVisitors
    BY <1>0, <1>1, <1>7 DEF VisitEntry, TempSkipInv
  <2>2. /\ DOMAIN skip' = AllVisitors
        /\ \/ skip'["temp"] = skip["temp"] \/ skip'["temp"] = NoPath
           \/ e \in Directories /\ skip'["temp"] = display(e)
    BY <2>1, TempOffer
  <2>3. display(e) \in Paths /\ NoPath \in Paths /\ IsPrefix(root.resolved, e) /\ display(e) = Spelled(root, e)
    <3>1. /\ IsPrefix(root.resolved, e) /\ root.resolved \in Paths /\ root.absolute \in Paths
          /\ e \in Paths
      BY <1>1, <1>2, <1>3, TreeLemma, GivenLemma DEF DiscoveryInv, StackInv, KnownInv
    <3>2. Respelled(root.absolute, root.resolved, e) \in Paths
      BY <3>1, SpelledLemma
    <3>3. QED
      BY <3>1, <3>2 DEF Respelled, Spelled, display, NoPath, Paths
  <2>4. skip'["temp"] \in Paths
    BY <1>1, <2>2, <2>3 DEF TempSkipInv
  <2>5. skip'["temp"] # NoPath =>
          \E w \in Walks', a \in Directories :
            IsPrefix(w.resolved, a) /\ skip'["temp"] = Spelled(w, a)
    BY <1>1, <1>4, <2>2, <2>3 DEF TempSkipInv
  <2>6. ASSUME root.absolute = root.resolved, InTemp(root.resolved)
        PROVE  skip'["temp"] = NoPath
    <3>1. "temp" \in Visitors /\ applies("temp", display(e)) /\ ~prunes("temp", e, display(e))
      BY <1>1, <1>2, <1>3, <2>6, TempEntry
    <3>2. QED
      BY <2>1, <3>1, TempOffer
  <2>7. QED
    BY <1>2, <1>5, <2>2, <2>4, <2>5, <2>6 DEF TempSkipInv, Spelled
<1>8. QED
  BY <1>6, <1>7

LEMMA TempSkipStep == DiscoveryInv /\ KnownInv /\ TempSkipInv /\ [Next]_vars => TempSkipInv'
<1>1. SUFFICES ASSUME DiscoveryInv, KnownInv, TempSkipInv, [Next]_vars PROVE TempSkipInv'
  OBVIOUS
<1>2. CASE UNCHANGED vars \/ (\E p \in Fleeting : ComeOrGo(p)) \/ CheckTops \/ AllWalked
  BY <1>1, <1>2, TempSkipIdle DEF vars, ComeOrGo, CheckTops, AllWalked
<1>3. CASE ReadDirectory
  <2>1. /\ pc = "walk" /\ reading # NoPath /\ reading' = NoPath
        /\ UNCHANGED <<pc, settings, root, walked, skip>>
    BY <1>3 DEF ReadDirectory
  <2>2. Walks' = Walks
    BY <2>1 DEF Walks
  <2>3. InTemp(root.resolved)' <=> InTemp(root.resolved)
    <3>1. \A p : InTemp(p)' <=> InTemp(p)
      BY <2>1, TempSettings
    <3>2. QED
      BY <2>1, <3>1 DEF InTemp
  <2>4. QED
    BY <1>1, <2>1, <2>2, <2>3 DEF TempSkipInv, Spelled
<1>4. CASE FinishRoot
  <2>1. /\ pc = "walk" /\ pc' = "root" /\ UNCHANGED skip /\ walked' = walked \cup {root}
    BY <1>4 DEF FinishRoot
  <2>2. Walks' = Walks
    BY <2>1 DEF Walks
  <2>3. QED
    BY <1>1, <2>1, <2>2 DEF TempSkipInv, Spelled
<1>5. QED
  BY <1>1, <1>2, <1>3, <1>4, TempSkipNextRoot, TempSkipVisit DEF Next

-----------------------------------------------------------------------------
(* Nothing becomes reachable that was not: a listing that came once comes to  *)
(* no more.                                                                   *)
LEMMA ReachableLemma ==
  ASSUME [Next]_vars
  PROVE  hidden \subseteq hidden' /\ \A w, p : Reachable(p, w)' => Reachable(p, w)
<1>1. hidden \subseteq hidden'
  BY DEF vars, reports, Next, ComeOrGo, NextRoot, AllWalked, VisitEntry, ReadDirectory,
         FinishRoot, CheckTops
<1>2. QED
  BY <1>1 DEF Reachable, Spelled

(* A path below the entry that is visited was not shown before.               *)
LEMMA NewlyPassed ==
  ASSUME DiscoveryInv, VisitEntry, NEW e, e = Head(stack), NEW p \in Tree, ~Done(p), Passed(p)',
         ~Passed(p)
  PROVE  /\ e \in Tree /\ IsPrefix(root.resolved, e) /\ IsPrefix(e, p) /\ IsPrefix(root.resolved, p)
         /\ \E k \in DOMAIN stack : e = stack[k]
         /\ ~walkedBefore(e)
         /\ p # e => e \in Directories /\ reading' # e
<1>1. /\ pc = "walk" /\ reading = NoPath /\ stack # <<>> /\ stack' = Tail(stack)
      /\ UNCHANGED <<pc, root, walked>>
  BY DEF VisitEntry
<1>2. /\ e \in Tree /\ 1 \in DOMAIN stack /\ e = stack[1]
      /\ \A k \in DOMAIN stack : k = 1 \/ (k - 1 \in DOMAIN stack' /\ stack'[k - 1] = stack[k])
  BY <1>1 DEF DiscoveryInv, StackInv
<1>3. IsPrefix(e, p) /\ IsPrefix(root.resolved, p) /\ IsPrefix(root.resolved, e)
  BY <1>1, <1>2 DEF Passed, DiscoveryInv, StackInv
<1>4. ~walkedBefore(e)
  BY <1>3 DEF walkedBefore, Done
<1>5. ASSUME p # e PROVE e \in Directories /\ reading' # e
  <2>1. e \in Paths /\ e # NoPath /\ IsStrictPrefix(e, p)
    BY <1>2, <1>3, <1>5, TreeLemma, TreeAssumption DEF IsStrictPrefix, NoPath
  <2>2. e \in Directories
    BY <2>1, AboveLemma
  <2>3. reading' # e
    BY <2>1 DEF Passed
  <2>4. QED
    BY <2>2, <2>3
<1>6. QED
  BY <1>2, <1>3, <1>4, <1>5

(* What lies below an excluded entry cannot be reached.                       *)
LEMMA ExcludedAbove ==
  ASSUME NEW w, NEW e \in Tree, NEW p \in Tree, IsPrefix(w.resolved, e), IsPrefix(e, p),
         excluded(e, Spelled(w, e))
  PROVE  ~Reachable(p, w)
  BY DEF Reachable, pathWithin

LEMMA MatchedVisit ==
  ASSUME DiscoveryInv, KnownInv, TempSkipInv, TempsLieApart, VisitEntry,
         NEW p \in Staging, InTemp(p), ~Done(p), Passed(p)', ~Passed(p), Reachable(p, root)
  PROVE  p \in staged'
<1>0. PICK e : e = Head(stack)
  OBVIOUS
<1>1. p \in Tree /\ pc = "walk"
  BY TreeAssumption DEF VisitEntry
<1>2. /\ e \in Tree /\ IsPrefix(root.resolved, e) /\ IsPrefix(e, p) /\ IsPrefix(root.resolved, p)
      /\ \E k \in DOMAIN stack : e = stack[k]
      /\ ~walkedBefore(e)
      /\ p # e => e \in Directories /\ reading' # e
  BY <1>0, <1>1, NewlyPassed
<1>3. ~stopsAt(e)
  BY <1>1, <1>2, ExcludedAbove DEF stopsAt, display, Spelled
<1>4. Offer(e) /\ DOMAIN skip = AllVisitors
  BY <1>0, <1>3 DEF VisitEntry, TempSkipInv
<1>5. root.absolute = root.resolved /\ InTemp(root.resolved)
  BY <1>1, <1>2, TempWalkLemma
<1>6. "temp" \in Visitors /\ applies("temp", display(e)) /\ ~prunes("temp", e, display(e))
  BY <1>1, <1>2, <1>5, TempEntry
<1>7. CASE p = e
  BY <1>4, <1>6, <1>7, TempOffer
<1>8. CASE p # e
  BY <1>2, <1>4, <1>6, <1>8, TempOffer
<1>9. QED
  BY <1>7, <1>8

(* What a listing newly passes is below an entry that it did not return.      *)
LEMMA NewlyHidden ==
  ASSUME DiscoveryInv, ReadDirectory, NEW p \in Tree, ~Done(p), Passed(p)', ~Passed(p)
  PROVE  \E c \in Children(reading) :
           /\ c \in hidden' /\ IsPrefix(c, p)
           /\ IsPrefix(root.resolved, c) /\ c # root.resolved
           /\ c \in there => display(reading) \in errors'
<1>1. /\ pc = "walk" /\ reading # NoPath /\ UNCHANGED <<root, walked>>
  BY DEF ReadDirectory
<1>2. PICK got \in SUBSET Children(reading) :
        /\ \E order : Lists(got, order)
        /\ hidden' = hidden \cup (Children(reading) \ got)
        /\ \A c \in Children(reading) \cap there : c \notin got => display(reading) \in errors'
  BY ListingLemma
<1>3. PICK order : Lists(got, order)
  BY <1>2
<1>4. /\ reading \in Directories /\ reading \in Paths /\ IsPrefix(root.resolved, reading)
      /\ root.resolved \in Paths
  BY <1>1, TreeLemma DEF DiscoveryInv, RootInv, ReadingInv
<1>5. \A i \in DOMAIN stack : ~IsPrefix(stack[i], p)
  BY <1>3 DEF Passed, Lists
<1>6. IsStrictPrefix(reading, p)
  BY <1>1, <1>5 DEF Passed
<1>7. PICK c \in Children(reading) : IsPrefix(c, p)
  BY <1>4, <1>6, EntryLemma
<1>8. c \notin got
  BY <1>3, <1>7 DEF Passed, Lists
<1>9. c \in Paths /\ IsPrefix(reading, c) /\ Len(c) = Len(reading) + 1
  BY TreeLemma DEF Children
<1>10. IsStrictPrefix(reading, c)
  BY <1>4, <1>9 DEF IsStrictPrefix, Paths
<1>11. IsPrefix(root.resolved, c) /\ c # root.resolved
  BY <1>4, <1>9, <1>10, StrictLemma, AntisymmetricLemma DEF IsStrictPrefix
<1>12. QED
  BY <1>2, <1>7, <1>8, <1>11

LEMMA MatchedStep ==
  DiscoveryInv /\ KnownInv /\ TempSkipInv /\ MatchedInv /\ TempsLieApart /\ [Next]_vars => MatchedInv'
<1>1. SUFFICES ASSUME DiscoveryInv, KnownInv, TempSkipInv, MatchedInv, TempsLieApart, [Next]_vars
               PROVE  MatchedInv'
  OBVIOUS
<1>2. CASE CheckTops
  <2>1. walked' = {} /\ pc' # "walk"
    BY <1>1, <1>2 DEF CheckTops, KnownInv
  <2>2. QED
    BY <2>1 DEF MatchedInv, Done, Passed
<1>3. CASE ~CheckTops
  <2>1. staged \subseteq staged' /\ UNCHANGED settings /\ Staging \subseteq Tree
    BY <1>1, <1>3, StaysLemma, TreeAssumption
  <2>2. \A p : InTemp(p)' <=> InTemp(p)
    BY <2>1, TempSettings
  <2>3. \A w, p : (Reachable(p, w) => p \in staged) => (Reachable(p, w)' => p \in staged')
    BY <1>1, <2>1, ReachableLemma
  <2>4. CASE FinishRoot
    <3>1. /\ pc = "walk" /\ pc' = "root" /\ reading = NoPath /\ stack = <<>>
          /\ walked' = walked \cup {root}
      BY <2>4 DEF FinishRoot
    <3>2. /\ Given(root) /\ ~Done(root.resolved) /\ root.resolved \in Paths
          /\ \A w \in walked : w.resolved \in Paths
      BY <1>1, <3>1, GivenLemma DEF KnownInv, DiscoveryInv, RootInv
    <3>3. \A q : Done(q)' <=> Done(q) \/ IsPrefix(root.resolved, q)
      BY <3>1 DEF Done
    <3>4. ASSUME NEW p \in Staging, InTemp(p), Done(p)
          PROVE  (\E w \in walked : Innermost(p, w) /\ (Reachable(p, w) => p \in staged))'
      <4>1. PICK w \in walked : Innermost(p, w) /\ (Reachable(p, w) => p \in staged)
        BY <1>1, <3>4 DEF MatchedInv
      <4>2. Innermost(p, w)'
        <5>1. p \in Paths /\ IsPrefix(w.resolved, p) /\ ~IsPrefix(w.resolved, root.resolved)
          BY <2>1, <3>2, <4>1, TreeLemma DEF Innermost, Holding, pathWithin, Done
        <5>2. IsPrefix(root.resolved, p) => IsPrefix(root.resolved, w.resolved)
          BY <3>2, <5>1, ComparableLemma
        <5>3. QED
          BY <3>1, <4>1, <5>2 DEF Innermost, Holding, pathWithin
      <4>3. QED
        BY <2>3, <3>1, <4>1, <4>2
    <3>5. ASSUME NEW p \in Staging, InTemp(p), ~Done(p), IsPrefix(root.resolved, p)
          PROVE  (\E w \in walked : Innermost(p, w) /\ (Reachable(p, w) => p \in staged))'
      <4>1. Passed(p)
        BY <3>1, <3>5 DEF Passed
      <4>2. PICK w : w = root
        OBVIOUS
      <4>3. Reachable(p, w) => p \in staged
        BY <1>1, <3>5, <4>1, <4>2 DEF MatchedInv
      <4>4. Holding(p)' = {w}
        BY <3>1, <3>5, <4>2 DEF Holding, pathWithin, Done
      <4>5. Innermost(p, w)'
        BY <3>2, <4>2, <4>4, ReflexiveLemma DEF Innermost, pathWithin
      <4>6. QED
        BY <2>3, <3>1, <4>2, <4>3, <4>5
    <3>6. \A p : ~Passed(p)'
      BY <3>1 DEF Passed
    <3>7. QED
      BY <2>2, <3>3, <3>4, <3>5, <3>6 DEF MatchedInv
  <2>5. CASE UNCHANGED walked
    <3>1. \A p : Done(p)' <=> Done(p)
      BY <2>5 DEF Done
    <3>2. ASSUME NEW p \in Staging, InTemp(p), Done(p)
          PROVE  (\E w \in walked : Innermost(p, w) /\ (Reachable(p, w) => p \in staged))'
      <4>1. PICK w \in walked : Innermost(p, w) /\ (Reachable(p, w) => p \in staged)
        BY <1>1, <3>2 DEF MatchedInv
      <4>2. Innermost(p, w)'
        BY <2>5, <4>1 DEF Innermost, Holding
      <4>3. QED
        BY <2>3, <2>5, <4>1, <4>2
    <3>3. ASSUME NEW p \in Staging, InTemp(p), ~Done(p), Passed(p)', Reachable(p, root)'
          PROVE  p \in staged'
      <4>1. CASE Passed(p) /\ root' = root
        <5>1. PICK w : w = root
          OBVIOUS
        <5>2. Reachable(p, w) => p \in staged
          BY <1>1, <3>3, <4>1, <5>1 DEF MatchedInv
        <5>3. Reachable(p, w)'
          BY <3>3, <4>1, <5>1
        <5>4. QED
          BY <2>3, <5>2, <5>3
      <4>2. CASE ~Passed(p) /\ VisitEntry
        <5>1. PICK w : w = root
          OBVIOUS
        <5>2. Reachable(p, w)'
          BY <3>3, <4>2, <5>1 DEF VisitEntry
        <5>3. Reachable(p, root)
          BY <1>1, <5>1, <5>2, ReachableLemma
        <5>4. QED
          BY <1>1, <3>3, <4>2, <5>3, MatchedVisit
      <4>3. CASE ~Passed(p) /\ ReadDirectory
        <5>1. PICK c \in Children(reading) :
                /\ c \in hidden' /\ IsPrefix(c, p)
                /\ IsPrefix(root.resolved, c) /\ c # root.resolved
          BY <1>1, <2>1, <3>3, <4>3, NewlyHidden
        <5>2. PICK w : w = root
          OBVIOUS
        <5>3. Reachable(p, w)'
          BY <3>3, <4>3, <5>2 DEF ReadDirectory
        <5>4. ~Reachable(p, w)'
          BY <5>1, <5>2 DEF Reachable, pathWithin, Children
        <5>5. QED
          BY <5>3, <5>4
      <4>4. CASE ~VisitEntry /\ ~ReadDirectory
        <5>1. CASE NextRoot /\ pc' = "walk"
          <6>1. stack' = <<root'.resolved>>
            BY <5>1 DEF NextRoot
          <6>2. QED
            BY <3>3, <6>1 DEF Passed
        <5>2. CASE ~(NextRoot /\ pc' = "walk")
          <6>1. pc' = "walk" => UNCHANGED <<pc, root, stack, reading>>
            BY <1>1, <1>3, <2>5, <4>4, <5>2
            DEF vars, Next, ComeOrGo, NextRoot, AllWalked, FinishRoot
          <6>2. Passed(p) /\ root' = root
            BY <3>3, <6>1 DEF Passed
          <6>3. QED
            BY <4>1, <6>2
        <5>3. QED
          BY <5>1, <5>2
      <4>5. QED
        BY <4>1, <4>2, <4>3, <4>4 DEF VisitEntry, ReadDirectory
    <3>4. QED
      BY <2>2, <3>1, <3>2, <3>3 DEF MatchedInv
  <2>6. QED
    BY <1>1, <1>3, <2>4, <2>5
    DEF vars, Next, ComeOrGo, NextRoot, AllWalked, VisitEntry, ReadDirectory
<1>4. QED
  BY <1>2, <1>3

LEMMA StagingStep == StagingInv /\ TempsLieApart /\ [Next]_vars => StagingInv'
<1>1. QED
  BY StepLemma, KnownStep, TempSkipStep, TopsStep, MatchedStep DEF StagingInv

(* What temp staging has been shown of a temp directory, in every state of    *)
(* every walk whose temp directories lie apart from the requested roots.      *)
THEOREM StagingInvariance == Spec /\ []TempsLieApart => []StagingInv
<1>1. QED
  BY StagingInit, StagingStep, PTL DEF Spec

(* A temp directory that is to be walked is.                                  *)
LEMMA WantedLemma ==
  ASSUME NEW t \in ToSet(TempRoots), wanted(t)
  PROVE  resolve(t) \in tempScanRoots
<1>1. pathInScope(t)
  BY DEF wanted, pathInScope
<1>2. ASSUME skipTemps PROVE rootRequested(t)
  <2>1. PICK x \in ToSet(extra) \cup (IF only THEN {home} ELSE {}) :
          resolvable(x) /\ pathWithin(resolve(x), resolve(t))
    BY <1>2 DEF wanted
  <2>2. resolve(x) \in resolvedScanRoots(ToSet(extra) \cup IF only THEN {home} ELSE {})
    BY <2>1 DEF resolvedScanRoots
  <2>3. QED
    BY <2>1, <2>2 DEF rootRequested
<1>3. walksTemp(t)
  BY <1>1, <1>2 DEF walksTemp, wanted
<1>4. QED
  BY <1>3 DEF tempScanRoots

(* docs/CHECKS.md, suspicious-temp-file: a staging name is reported at every  *)
(* depth of a temp directory that is to be walked, and at the top of one that *)
(* -skip-tmproots keeps out of the walk, if no temp directory lies inside a   *)
(* requested root and no requested link leads into one.                       *)
THEOREM EveryStagingNameIsReported == Spec /\ []TempsLieApart => []StagingIsMatched
<1>1. ASSUME StagingInv, pc = "done", NEW p \in Staging,
             NEW t \in ToSet(TempRoots), wanted(t), NEW w \in walked,
             pathWithin(resolve(t), p), Innermost(p, w), Reachable(p, w)
      PROVE  p \in staged
  <2>1. InTemp(p)
    BY <1>1, WantedLemma DEF InTemp, pathWithin
  <2>2. Done(p)
    BY <1>1 DEF Innermost, Holding, Done, pathWithin
  <2>3. PICK x \in walked : Innermost(p, x) /\ (Reachable(p, x) => p \in staged)
    BY <1>1, <2>1, <2>2 DEF StagingInv, MatchedInv
  <2>4. w.resolved \in Paths /\ x.resolved \in Paths
    BY <1>1, <2>3, GivenLemma DEF StagingInv, KnownInv
  <2>5. IsPrefix(w.resolved, x.resolved) /\ IsPrefix(x.resolved, w.resolved)
    BY <1>1, <2>3 DEF Innermost, Holding, pathWithin
  <2>6. w = x
    BY <1>1, <2>4, <2>5, AntisymmetricLemma DEF StagingInv, KnownInv
  <2>7. QED
    BY <1>1, <2>3, <2>6
<1>2. ASSUME StagingInv, pc = "done", NEW p \in Staging,
             steady(p), Front(p) \in skippedTops, skipTemps
      PROVE  p \in staged
  BY <1>2 DEF StagingInv, TopsInv, steady, Untouched
<1>3. StagingInv => StagingIsMatched
  BY <1>1, <1>2 DEF StagingIsMatched
<1>4. QED
  BY <1>3, StagingInvariance, PTL

-----------------------------------------------------------------------------
(* No root is a link that is spelled inside a temp directory: what temp       *)
(* staging skipped last, which is never reset, could lie above it.            *)
TempsLieOpen ==
  \A l \in requested \cap DOMAIN Links, t \in tempSpellings : ~IsPrefix(t, l)

(* Temp staging prunes something above a path in its walk, or the root.       *)
TempPruned(w, p) ==
  \/ \E a \in Directories :
       IsPrefix(w.resolved, a) /\ IsStrictPrefix(a, p) /\ prunes("temp", a, Spelled(w, a))
  \/ prunes("temp", w.resolved, w.absolute)

TempSkippedInv ==
  /\ \A k \in DOMAIN stack :
       skip["temp"] # NoPath /\ IsStrictPrefix(skip["temp"], display(stack[k]))
         => TempPruned(root, stack[k])
  /\ reading # NoPath /\ skip["temp"] # NoPath /\ IsPrefix(skip["temp"], display(reading))
       => TempPruned(root, reading) \/ prunes("temp", reading, display(reading))

(* What lies above a path that is there and stayed is there.                  *)
ThereInv ==
  /\ changed \subseteq Fleeting
  /\ \A p, a \in Tree : IsPrefix(a, p) /\ p \in there /\ Untouched(p) => a \in there

(* Each root is still to come, is an error, or is walked.                     *)
RootsInv ==
  /\ pc = "done" => left = <<>>
  /\ pc # "tops" => \A k \in DOMAIN ScanRoots :
       \/ \E j \in DOMAIN left : left[j] = ScanRoots[k]
       \/ ~resolvable(ScanRoots[k]) /\ ScanRoots[k] \in errors
       \/ /\ resolvable(ScanRoots[k])
          /\ \/ Done(resolve(ScanRoots[k]))
             \/ pc = "walk" /\ IsPrefix(root.resolved, resolve(ScanRoots[k]))

(* Why a path was shown, or what says or excuses that it was not.             *)
Explained(w, p) ==
  \/ \E v \in Visitors : visited[v][p] > 0 /\ (leadsOut(p) => p \in notices)
  \/ \E a \in notices \cap Directories : IsPrefix(a, p)
  \/ \E a \in hidden : /\ IsPrefix(a, p) /\ IsStrictPrefix(w.resolved, a)
                       /\ Spelled(w, Front(a)) \in errors
  \/ \A v \in Visitors :
       \E a \in Directories : /\ IsPrefix(w.resolved, a) /\ IsStrictPrefix(a, p)
                              /\ prunes(v, a, Spelled(w, a))

ExplainedInv ==
  \A p \in Tree : p \in there /\ Untouched(p) =>
    /\ Done(p) => \E w \in walked : Innermost(p, w) /\ Explained(w, p)
    /\ ~Done(p) /\ Passed(p) => Explained(root, p)

SilenceInv == TempSkippedInv /\ ThereInv /\ RootsInv /\ ExplainedInv

-----------------------------------------------------------------------------
(* Without a temp directory to walk, temp staging would prune everything.     *)
LEMMA NoTemps ==
  ASSUME "temp" \notin Visitors
  PROVE  \A p, d : prunes("temp", p, d)
<1>1. tempScanRoots = {}
  BY DEF Visitors, AllVisitors
<1>2. tempSpellings = {}
  BY <1>1 DEF tempSpellings, tempScanRoots, ToSet
<1>3. QED
  BY <1>2 DEF prunes

LEMMA PrunesLemma ==
  ASSUME UNCHANGED settings
  PROVE  /\ \A v, p, d : prunes(v, p, d)' <=> prunes(v, p, d)
         /\ Visitors' = Visitors
         /\ \A w, p : TempPruned(w, p)' <=> TempPruned(w, p)
<1>1. tempScanRoots' = tempScanRoots /\ tempSpellings' = tempSpellings /\ deep' = deep
  BY DEF settings, tempSpellings, isFirst, tempScanRoots, walksTemp, pathInScope, rootRequested, requested
<1>2. \A v, p, d : prunes(v, p, d)' <=> prunes(v, p, d)
  BY <1>1 DEF prunes
<1>3. Visitors' = Visitors
  BY <1>1 DEF Visitors
<1>4. QED
  BY <1>2, <1>3 DEF TempPruned, Spelled

(* What is pruned above an entry is above all that is in it.                  *)
LEMMA PrunedBelow ==
  ASSUME NEW w, Given(w), NEW e \in Tree, NEW p \in Tree,
         IsPrefix(w.resolved, e), IsStrictPrefix(e, p),
         TempPruned(w, e) \/ (e \in Directories /\ prunes("temp", e, Spelled(w, e)))
  PROVE  \E a \in Directories :
           IsPrefix(w.resolved, a) /\ IsStrictPrefix(a, p) /\ prunes("temp", a, Spelled(w, a))
<1>1. /\ w.resolved \in Paths /\ w.absolute \in Paths /\ w.resolved \in Directories
      /\ e \in Paths /\ p \in Paths /\ Directories \subseteq Paths
  BY TreeLemma, GivenLemma DEF Given
<1>2. CASE e \in Directories /\ prunes("temp", e, Spelled(w, e))
  BY <1>2
<1>3. CASE \E a \in Directories :
             IsPrefix(w.resolved, a) /\ IsStrictPrefix(a, e) /\ prunes("temp", a, Spelled(w, a))
  <2>1. PICK a \in Directories :
          IsPrefix(w.resolved, a) /\ IsStrictPrefix(a, e) /\ prunes("temp", a, Spelled(w, a))
    BY <1>3
  <2>2. IsStrictPrefix(a, p)
    BY <1>1, <2>1, StrictLemma DEF IsStrictPrefix
  <2>3. QED
    BY <2>1, <2>2
<1>4. CASE prunes("temp", w.resolved, w.absolute)
  <2>1. IsStrictPrefix(w.resolved, p) /\ IsPrefix(w.resolved, w.resolved)
    BY <1>1, StrictLemma, ReflexiveLemma
  <2>2. prunes("temp", w.resolved, Spelled(w, w.resolved))
    <3>1. Spelled(w, w.resolved) = w.absolute
      BY <1>1, RootSpelling, GivenLemma
    <3>2. QED
      BY <1>4, <3>1
  <2>3. QED
    BY <1>1, <2>1, <2>2
<1>5. QED
  BY <1>2, <1>3, <1>4 DEF TempPruned

LEMMA SilenceInit == Init => SilenceInv
<1>1. SUFFICES ASSUME Init PROVE SilenceInv
  OBVIOUS
<1>2. /\ pc = "tops" /\ walked = {} /\ stack = <<>> /\ reading = NoPath /\ changed = {}
      /\ there \in {Tree} \cup {Tree \ below(f) : f \in Fleeting}
  BY <1>1 DEF Init
<1>3. TempSkippedInv /\ RootsInv /\ ExplainedInv
  BY <1>2 DEF TempSkippedInv, RootsInv, ExplainedInv, Done, Passed
<1>4. ThereInv
  <2>1. SUFFICES ASSUME NEW p \in Tree, NEW a \in Tree, IsPrefix(a, p), p \in there
                 PROVE  a \in there
    BY <1>2 DEF ThereInv
  <2>2. CASE there = Tree
    BY <2>2
  <2>3. CASE there # Tree
    <3>1. PICK f \in Fleeting : there = Tree \ below(f)
      BY <1>2, <2>3
    <3>2. f \in Paths /\ a \in Paths /\ p \in Paths
      BY TreeLemma, TreeAssumption
    <3>3. ~IsPrefix(f, a)
      BY <2>1, <3>1, <3>2, TransitiveLemma DEF below
    <3>4. QED
      BY <3>1, <3>3 DEF below
  <2>4. QED
    BY <2>2, <2>3
<1>5. QED
  BY <1>3, <1>4 DEF SilenceInv

LEMMA ThereStep == ThereInv /\ [Next]_vars => ThereInv'
<1>1. SUFFICES ASSUME ThereInv, [Next]_vars PROVE ThereInv'
  OBVIOUS
<1>2. changed' \subseteq Fleeting
  BY <1>1 DEF ThereInv, vars, disk, Next, ComeOrGo, NextRoot, AllWalked, VisitEntry, ReadDirectory,
              FinishRoot, CheckTops
<1>3. ASSUME NEW p \in Tree, NEW a \in Tree, IsPrefix(a, p), p \in there', Untouched(p)'
      PROVE  a \in there'
  <2>1. Untouched(p) /\ p \in there
    BY <1>1, <1>3, StaysLemma
  <2>2. a \in there
    BY <1>1, <1>3, <2>1 DEF ThereInv
  <2>3. Untouched(a)'
    <3>1. \A f \in changed' : f \in Paths /\ ~IsPrefix(f, p)
      BY <1>2, <1>3, TreeLemma, TreeAssumption DEF Untouched
    <3>2. a \in Paths /\ p \in Paths
      BY TreeLemma
    <3>3. \A f \in changed' : ~IsPrefix(f, a)
      BY <1>3, <3>1, <3>2, TransitiveLemma
    <3>4. QED
      BY <3>3 DEF Untouched
  <2>4. QED
    BY <1>1, <2>2, <2>3, StaysLemma
<1>4. QED
  BY <1>2, <1>3 DEF ThereInv

(* walkScanRoots: a root that is not there is an error, one that lies in      *)
(* another that was walked is done, and the others are walked.                *)
LEMMA RootsStep ==
  DiscoveryInv /\ KnownInv /\ RootsInv /\ [Next]_vars => RootsInv'
<1>1. SUFFICES ASSUME DiscoveryInv, KnownInv, RootsInv, [Next]_vars PROVE RootsInv'
  OBVIOUS
<1>2. ScanRoots' = ScanRoots
  BY <1>1, StaysLemma, TempSettings
<1>3. errors \subseteq errors'
  BY <1>1 DEF vars, reports, Next, ComeOrGo, NextRoot, AllWalked, VisitEntry, ReadDirectory,
              FinishRoot, CheckTops
<1>4. walked \subseteq walked' /\ \A q : Done(q) => Done(q)'
  <2>1. walked \subseteq walked'
    BY <1>1 DEF vars, Next, ComeOrGo, NextRoot, AllWalked, VisitEntry, ReadDirectory,
                FinishRoot, CheckTops
  <2>2. QED
    BY <2>1 DEF Done
<1>5. CASE CheckTops
  <2>1. left' = ScanRoots' /\ pc' = "root"
    BY <1>2, <1>5 DEF CheckTops
  <2>2. QED
    BY <2>1 DEF RootsInv
<1>6. CASE NextRoot
  <2>0. PICK r : r = Head(left)
    OBVIOUS
  <2>1. pc = "root" /\ left # <<>> /\ left' = Tail(left) /\ pc' \in {"root", "walk"}
    BY <1>6 DEF NextRoot
  <2>2. left \in Seq(Paths)
    BY <1>1 DEF KnownInv
  <2>3. /\ r = left[1]
        /\ \A j \in DOMAIN left : j = 1 \/ (j - 1 \in DOMAIN left' /\ left'[j - 1] = left[j])
    BY <2>0, <2>1, <2>2
  <2>4. \/ ~resolvable(r) /\ r \in errors'
        \/ resolvable(r) /\ (Done(resolve(r))' \/ (pc' = "walk" /\ root'.resolved = resolve(r)))
    <3>1. CASE ~resolvable(r)
      BY <1>6, <2>0, <3>1 DEF NextRoot
    <3>2. CASE resolvable(r) /\ rootCovered(resolve(r))
      BY <1>4, <3>2 DEF rootCovered, Done, pathWithin
    <3>3. CASE resolvable(r) /\ ~rootCovered(resolve(r))
      BY <1>6, <2>0, <3>3 DEF NextRoot
    <3>4. QED
      BY <3>1, <3>2, <3>3
  <2>5. resolvable(r) => IsPrefix(resolve(r), resolve(r))
    BY TreeLemma, ReflexiveLemma
  <2>6. ASSUME NEW k \in DOMAIN ScanRoots, NEW x, x = ScanRoots[k]
        PROVE  \/ \E j \in DOMAIN left' : left'[j] = x
               \/ ~resolvable(x) /\ x \in errors'
               \/ /\ resolvable(x)
                  /\ \/ Done(resolve(x))'
                     \/ pc' = "walk" /\ IsPrefix(root'.resolved, resolve(x))
    <3>1. CASE x = r
      BY <2>4, <2>5, <3>1
    <3>2. CASE \E j \in DOMAIN left : left[j] = x /\ x # r
      BY <2>3, <3>2
    <3>3. CASE ~\E j \in DOMAIN left : left[j] = x
      <4>1. \/ ~resolvable(x) /\ x \in errors
            \/ resolvable(x) /\ Done(resolve(x))
        BY <1>1, <2>1, <2>6, <3>3 DEF RootsInv
      <4>2. Done(resolve(x)) => Done(resolve(x))'
        BY <1>4
      <4>3. QED
        BY <1>3, <4>1, <4>2
    <3>4. QED
      BY <3>1, <3>2, <3>3
  <2>7. QED
    BY <1>2, <2>1, <2>6 DEF RootsInv, Done
<1>7. CASE FinishRoot
  <2>1. /\ pc = "walk" /\ pc' = "root" /\ left' = left
        /\ \A q : Done(q)' <=> Done(q) \/ IsPrefix(root.resolved, q)
    BY <1>7 DEF FinishRoot, Done
  <2>2. QED
    BY <1>1, <1>2, <1>3, <2>1 DEF RootsInv, Done
<1>8. CASE AllWalked \/ UNCHANGED <<pc, left, root>>
  <2>1. /\ left' = left /\ pc # "tops" <=> pc' # "tops"
        /\ pc' = "done" => left = <<>>
        /\ pc = "walk" => pc' = "walk" /\ root' = root
    BY <1>1, <1>8 DEF AllWalked, RootsInv
  <2>2. QED
    BY <1>1, <1>2, <1>3, <1>4, <2>1 DEF RootsInv, Done
<1>9. QED
  BY <1>1, <1>5, <1>6, <1>7, <1>8 DEF vars, Next, ComeOrGo, VisitEntry, ReadDirectory

-----------------------------------------------------------------------------
(* A root taken next begins below what temp staging skips only if that is     *)
(* pruned: by its own name it would lie in a root walked before, and no link  *)
(* is spelled inside a temp directory.                                        *)
LEMMA TempSkippedNextRoot ==
  ASSUME PruningInv, KnownInv, TempSkipInv, TempsLieOpen, NextRoot
  PROVE  TempSkippedInv'
<1>0. PICK r : r = Head(left)
  OBVIOUS
<1>1. /\ pc = "root" /\ left # <<>> /\ UNCHANGED <<settings, reading, skip>>
      /\ reading = NoPath /\ stack = <<>>
  BY DEF NextRoot, PruningInv, DiscoveryInv, RootInv
<1>2. CASE ~resolvable(r) \/ rootCovered(resolve(r))
  BY <1>0, <1>1, <1>2 DEF NextRoot, TempSkippedInv
<1>3. CASE resolvable(r) /\ ~rootCovered(resolve(r))
  <2>1. PICK top : top = resolve(r)
    OBVIOUS
  <2>2. root' = [absolute |-> r, resolved |-> top] /\ stack' = <<top>> /\ reading' = NoPath
    BY <1>0, <1>1, <1>3, <2>1 DEF NextRoot
  <2>3. /\ top \in Directories /\ top \in Paths /\ r \in Paths
        /\ root'.resolved = top /\ root'.absolute = r
        /\ DOMAIN stack' = {1} /\ stack'[1] = top
    BY <1>3, <2>1, <2>2, TreeLemma, TreeAssumption DEF resolvable
  <2>4. display(top)' = r
    <3>1. display(top)' = Respelled(r, top, top)
      BY <2>3 DEF display, Respelled
    <3>2. QED
      BY <2>3, <3>1, RootSpelling
  <2>5. ASSUME skip["temp"] # NoPath, IsStrictPrefix(skip["temp"], r)
        PROVE  prunes("temp", top, r)
    <3>1. r \in DOMAIN Links
      <4>1. SUFFICES ASSUME r \notin DOMAIN Links PROVE FALSE
        OBVIOUS
      <4>2. r = top /\ DiscoveryInv
        BY <2>1, <4>1 DEF resolve, PruningInv
      <4>3. QED
        BY <1>1, <1>3, <2>1, <2>3, <2>5, <4>2, TempFresh
    <3>2. r \in requested
      <4>1. left \in Seq(Paths) /\ \A k \in DOMAIN left : left[k] \in DOMAIN Links => left[k] \in requested
        BY DEF PruningInv, GivenInv
      <4>2. 1 \in DOMAIN left /\ r = left[1]
        BY <1>0, <1>1, <4>1
      <4>3. QED
        BY <3>1, <4>1, <4>2
    <3>3. QED
      BY <3>1, <3>2 DEF TempsLieOpen, prunes, pathWithin
  <2>6. PICK w : w = root'
    OBVIOUS
  <2>7. prunes("temp", top, r) => TempPruned(w, top)
    BY <2>3, <2>6 DEF TempPruned
  <2>8. ASSUME NEW k \in DOMAIN stack', skip'["temp"] # NoPath,
               IsStrictPrefix(skip'["temp"], display(stack[k])')
        PROVE  TempPruned(root, stack[k])'
    <3>1. stack'[k] = top
      BY <2>3
    <3>2. display(stack[k])' = display(top)'
      BY <3>1 DEF display
    <3>3. TempPruned(w, top)
      BY <1>1, <2>4, <2>5, <2>7, <2>8, <3>2
    <3>4. TempPruned(w, top)'
      BY <1>1, <3>3, PrunesLemma
    <3>5. QED
      BY <2>6, <3>1, <3>4 DEF TempPruned, Spelled
  <2>9. QED
    BY <2>2, <2>8 DEF TempSkippedInv
<1>4. QED
  BY <1>2, <1>3

(* An entry that temp staging sees is what it skips, or it skips nothing; one *)
(* that it does not see lies below what it pruned.                            *)
LEMMA TempSkippedVisit ==
  ASSUME PruningInv, TempSkipInv, TempSkippedInv, VisitEntry
  PROVE  TempSkippedInv'
<1>0. PICK e : e = Head(stack)
  OBVIOUS
<1>1. /\ pc = "walk" /\ reading = NoPath /\ stack # <<>> /\ stack' = Tail(stack)
      /\ UNCHANGED <<settings, root>>
  BY DEF VisitEntry
<1>2. /\ stack \in Seq(Tree) /\ e \in Tree /\ 1 \in DOMAIN stack /\ e = stack[1]
      /\ \A k \in DOMAIN stack' : k + 1 \in DOMAIN stack /\ k + 1 # 1 /\ stack'[k] = stack[k + 1]
  BY <1>0, <1>1, TailLemma DEF PruningInv, DiscoveryInv, StackInv
<1>3. /\ e \in Paths /\ IsPrefix(root.resolved, e)
      /\ \A k \in DOMAIN stack' :
           /\ ~IsPrefix(e, stack'[k]) /\ stack'[k] \in Paths /\ IsPrefix(root.resolved, stack'[k])
  BY <1>2, TreeLemma DEF PruningInv, DiscoveryInv, StackInv
<1>4. PICK w : w = root
  OBVIOUS
<1>5. /\ \A p : display(p)' = display(p)
      /\ \A p : TempPruned(w, p)' <=> TempPruned(w, p)
      /\ \A v, p, d : prunes(v, p, d)' <=> prunes(v, p, d)
  BY <1>1, PrunesLemma DEF display
<1>6. ASSUME skip'["temp"] = skip["temp"], NEW k \in DOMAIN stack', NEW f, f = stack'[k],
             skip["temp"] # NoPath, IsStrictPrefix(skip["temp"], display(f))
      PROVE  TempPruned(w, f)
  BY <1>2, <1>4, <1>6 DEF TempSkippedInv
<1>7. (UNCHANGED <<skip, reading>>) \/ (~stopsAt(e) /\ Offer(e))
  BY <1>0 DEF VisitEntry
<1>8. ASSUME ~(UNCHANGED <<skip, reading>>), ~stopsAt(e), Offer(e)
      PROVE  \/ skip'["temp"] = NoPath
             \/ skip'["temp"] = display(e) /\ prunes("temp", e, display(e))
             \/ /\ skip'["temp"] = skip["temp"]
                /\ TempPruned(w, e) \/ prunes("temp", e, display(e))
  <2>1. DOMAIN skip = AllVisitors
    BY DEF TempSkipInv
  <2>2. CASE "temp" \in Visitors /\ applies("temp", display(e))
    BY <1>8, <2>1, <2>2, TempOffer
  <2>3. CASE "temp" \in Visitors /\ ~applies("temp", display(e))
    <3>1. skip'["temp"] = skip["temp"]
      BY <1>8, <2>1, <2>3, TempOffer
    <3>2. TempPruned(w, e)
      BY <1>2, <1>4, <2>3 DEF TempSkippedInv, applies
    <3>3. QED
      BY <3>1, <3>2
  <2>4. CASE "temp" \notin Visitors
    BY <1>8, <2>1, <2>4, TempOffer, NoTemps
  <2>5. QED
    BY <2>2, <2>3, <2>4
<1>9. reading' = NoPath \/ reading' = e
  BY <1>1, <1>7 DEF Offer
<1>10. ASSUME NEW k \in DOMAIN stack', NEW f, f = stack'[k],
              skip'["temp"] # NoPath, IsStrictPrefix(skip'["temp"], display(f))
       PROVE  TempPruned(w, f)
  <2>1. CASE skip'["temp"] = skip["temp"]
    BY <1>6, <1>10, <2>1
  <2>2. CASE skip'["temp"] # skip["temp"]
    <3>1. skip'["temp"] = display(e)
      BY <1>7, <1>8, <1>10, <2>2
    <3>2. f \in Paths /\ IsPrefix(root.resolved, f) /\ ~IsPrefix(e, f)
      BY <1>3, <1>10
    <3>3. IsStrictPrefix(e, f)
      BY <1>1, <1>3, <1>10, <3>1, <3>2, DisplayLemma
    <3>4. QED
      BY <3>2, <3>3 DEF IsStrictPrefix
  <2>3. QED
    BY <2>1, <2>2
<1>11. ASSUME reading' = e, reading' # NoPath, skip'["temp"] # NoPath
       PROVE  TempPruned(w, e) \/ prunes("temp", e, display(e))
  BY <1>1, <1>7, <1>8, <1>11
<1>12. ASSUME NEW k \in DOMAIN stack', skip'["temp"] # NoPath,
              IsStrictPrefix(skip'["temp"], display(stack[k])')
       PROVE  TempPruned(root, stack[k])'
  <2>1. PICK f : f = stack'[k]
    OBVIOUS
  <2>2. display(stack[k])' = display(f)
    BY <1>1, <2>1 DEF display
  <2>3. TempPruned(w, f)
    BY <1>10, <1>12, <2>1, <2>2
  <2>4. TempPruned(w, f)'
    BY <1>5, <2>3
  <2>5. QED
    BY <1>1, <1>4, <2>1, <2>4 DEF TempPruned, Spelled
<1>13. ASSUME reading' # NoPath, skip'["temp"] # NoPath
       PROVE  (TempPruned(root, reading) \/ prunes("temp", reading, display(reading)))'
  <2>1. reading' = e
    BY <1>9, <1>13
  <2>2. display(reading)' = display(e)
    BY <1>1, <2>1 DEF display
  <2>3. TempPruned(w, e) \/ prunes("temp", e, display(e))
    BY <1>11, <1>13, <2>1
  <2>4. PICK d : d = display(e)
    OBVIOUS
  <2>5. TempPruned(w, e)' \/ prunes("temp", e, d)'
    BY <1>5, <2>3, <2>4
  <2>6. QED
    BY <1>1, <1>4, <2>1, <2>2, <2>4, <2>5 DEF TempPruned, prunes, Spelled
<1>14. QED
  BY <1>12, <1>13 DEF TempSkippedInv

LEMMA TempSkippedRead ==
  ASSUME PruningInv, TempSkipInv, TempSkippedInv, ReadDirectory
  PROVE  TempSkippedInv'
<1>1. /\ pc = "walk" /\ reading # NoPath /\ reading' = NoPath
      /\ UNCHANGED <<settings, root, skip>>
  BY DEF ReadDirectory
<1>2. PICK got \in SUBSET Children(reading) : \E order : Lists(got, order)
  BY ListingLemma DEF PruningInv
<1>3. PICK order : Lists(got, order)
  BY <1>2
<1>4. PICK w : w = root
  OBVIOUS
<1>5. /\ \A p : display(p)' = display(p)
      /\ \A p : TempPruned(w, p)' <=> TempPruned(w, p)
  BY <1>1, PrunesLemma DEF display
<1>6. ASSUME NEW c \in Children(reading), skip["temp"] # NoPath,
             IsStrictPrefix(skip["temp"], display(c))
      PROVE  TempPruned(w, c)
  <2>1. IsPrefix(skip["temp"], display(reading))
    BY <1>1, <1>6, ChildSkipped DEF TempSkipInv
  <2>2. TempPruned(w, reading) \/ prunes("temp", reading, Spelled(w, reading))
    BY <1>1, <1>4, <1>6, <2>1 DEF TempSkippedInv, Spelled, display
  <2>3. /\ reading \in Directories /\ reading \in Paths /\ IsPrefix(w.resolved, reading) /\ Given(w)
        /\ c \in Tree /\ c \in Paths /\ IsPrefix(reading, c) /\ Len(c) = Len(reading) + 1
    BY <1>1, <1>4, TreeLemma DEF PruningInv, GivenInv, DiscoveryInv, ReadingInv, Children
  <2>4. IsStrictPrefix(reading, c) /\ reading \in Tree
    BY <2>3, TreeLemma DEF IsStrictPrefix, Paths
  <2>5. QED
    BY <2>2, <2>3, <2>4, PrunedBelow DEF TempPruned
<1>7. ASSUME NEW k \in DOMAIN stack', skip'["temp"] # NoPath,
             IsStrictPrefix(skip'["temp"], display(stack[k])')
      PROVE  TempPruned(root, stack[k])'
  <2>1. PICK f : f = stack'[k]
    OBVIOUS
  <2>2. display(stack[k])' = display(f)
    BY <1>1, <2>1 DEF display
  <2>3. TempPruned(w, f)
    <3>1. CASE k \in DOMAIN order /\ stack'[k] = order[k]
      BY <1>1, <1>3, <1>6, <1>7, <2>1, <2>2, <3>1 DEF Lists
    <3>2. CASE \E i \in DOMAIN stack : k = Len(order) + i /\ stack'[k] = stack[i]
      BY <1>1, <1>4, <1>7, <2>1, <2>2, <3>2 DEF TempSkippedInv
    <3>3. QED
      BY <1>3, <3>1, <3>2 DEF Lists
  <2>4. TempPruned(w, f)'
    BY <1>5, <2>3
  <2>5. QED
    BY <1>1, <1>4, <2>1, <2>4 DEF TempPruned, Spelled
<1>8. QED
  BY <1>1, <1>7 DEF TempSkippedInv

LEMMA TempSkippedStep ==
  ASSUME PruningInv, KnownInv, TempSkipInv, TempSkippedInv, TempsLieOpen, [Next]_vars
  PROVE  TempSkippedInv'
<1>1. CASE UNCHANGED <<settings, root, stack, reading, skip>>
  <2>1. PICK w : w = root
    OBVIOUS
  <2>2. PICK q : q = reading
    OBVIOUS
  <2>3. PICK s : s = stack
    OBVIOUS
  <2>4. /\ \A p : display(p)' = display(p)
        /\ \A p : TempPruned(w, p)' <=> TempPruned(w, p)
        /\ \A v, p, d : prunes(v, p, d)' <=> prunes(v, p, d)
    BY <1>1, PrunesLemma DEF display
  <2>5. /\ \A k \in DOMAIN s :
             skip["temp"] # NoPath /\ IsStrictPrefix(skip["temp"], display(s[k]))
               => TempPruned(w, s[k])
        /\ q # NoPath /\ skip["temp"] # NoPath /\ IsPrefix(skip["temp"], display(q))
             => TempPruned(w, q) \/ prunes("temp", q, display(q))
    BY <2>1, <2>2, <2>3 DEF TempSkippedInv
  <2>6. /\ \A k \in DOMAIN s :
             skip'["temp"] # NoPath /\ IsStrictPrefix(skip'["temp"], display(s[k])')
               => TempPruned(w, s[k])'
        /\ q # NoPath /\ skip'["temp"] # NoPath /\ IsPrefix(skip'["temp"], display(q)')
             => TempPruned(w, q)' \/ prunes("temp", q, display(q))'
    <3>1. PICK d : d = display(q)
      OBVIOUS
    <3>2. prunes("temp", q, display(q))' <=> prunes("temp", q, d)'
      BY <2>4, <3>1 DEF prunes
    <3>3. QED
      BY <1>1, <2>4, <2>5, <3>1, <3>2
  <2>7. QED
    BY <1>1, <2>1, <2>2, <2>3, <2>6 DEF TempSkippedInv
<1>2. CASE FinishRoot
  <2>1. stack' = <<>> /\ reading' = NoPath
    BY <1>2 DEF FinishRoot
  <2>2. QED
    BY <2>1 DEF TempSkippedInv
<1>3. QED
  BY <1>1, <1>2, TempSkippedNextRoot, TempSkippedVisit, TempSkippedRead
  DEF vars, Next, ComeOrGo, CheckTops, AllWalked

-----------------------------------------------------------------------------
(* What explains a path goes on doing so: what was shown, noticed, hidden or  *)
(* reported stays.                                                            *)
LEMMA ExplainedStays ==
  ASSUME DiscoveryInv, [Next]_vars, NEW w, NEW p \in Tree, Explained(w, p)
  PROVE  Explained(w, p)'
<1>1. UNCHANGED settings
  BY StaysLemma
<1>2. /\ Visitors' = Visitors
      /\ \A v, a, d : prunes(v, a, d)' <=> prunes(v, a, d)
  BY <1>1, PrunesLemma
<1>3. leadsOut(p)' <=> leadsOut(p)
  <2>1. ScanRoots' = ScanRoots
    BY <1>1, TempSettings
  <2>2. QED
    BY <2>1 DEF leadsOut, targets
<1>4. hidden \subseteq hidden' /\ notices \subseteq notices' /\ errors \subseteq errors'
  BY DEF vars, reports, Next, ComeOrGo, NextRoot, AllWalked, VisitEntry, ReadDirectory,
         FinishRoot, CheckTops
<1>5. ASSUME NEW v \in Visitors, visited[v][p] > 0 PROVE visited'[v][p] > 0
  <2>1. v \in AllVisitors /\ visited \in [AllVisitors -> [Tree -> {0, 1}]]
    BY DEF Visitors, DiscoveryInv, VisitedInv
  <2>2. CASE visited' = visited
    BY <1>5, <2>2
  <2>3. CASE visited' # visited
    <3>1. PICK e : Offer(e)
      BY <2>3 DEF vars, Next, ComeOrGo, NextRoot, AllWalked, VisitEntry, ReadDirectory,
                  FinishRoot, CheckTops
    <3>2. visited'[v] \in {visited[v], [visited[v] EXCEPT ![e] = @ + 1]}
      BY <2>1, <3>1 DEF Offer
    <3>3. visited[v] \in [Tree -> {0, 1}]
      BY <2>1
    <3>4. QED
      BY <1>5, <3>2, <3>3
  <2>4. QED
    BY <2>2, <2>3
<1>6. CASE \E v \in Visitors : visited[v][p] > 0 /\ (leadsOut(p) => p \in notices)
  BY <1>2, <1>3, <1>4, <1>5, <1>6 DEF Explained
<1>7. CASE \E a \in notices \cap Directories : IsPrefix(a, p)
  BY <1>4, <1>7 DEF Explained
<1>8. CASE \E a \in hidden : /\ IsPrefix(a, p) /\ IsStrictPrefix(w.resolved, a)
                             /\ Spelled(w, Front(a)) \in errors
  BY <1>4, <1>8 DEF Explained, Spelled
<1>9. CASE \A v \in Visitors :
             \E a \in Directories : /\ IsPrefix(w.resolved, a) /\ IsStrictPrefix(a, p)
                                    /\ prunes(v, a, Spelled(w, a))
  <2>1. \A v \in Visitors' :
          \E a \in Directories : /\ IsPrefix(w.resolved, a) /\ IsStrictPrefix(a, p)
                                 /\ prunes(v, a, Spelled(w, a))'
    <3>1. \A v, a : prunes(v, a, Spelled(w, a))' <=> prunes(v, a, Spelled(w, a))
      BY <1>2 DEF Spelled
    <3>2. QED
      BY <1>2, <1>9, <3>1
  <2>2. QED
    BY <2>1 DEF Explained, Spelled
<1>10. QED
  BY <1>6, <1>7, <1>8, <1>9 DEF Explained

(* What a consumer skips above an entry is below something that it pruned.    *)
LEMMA SkippedAbove ==
  ASSUME PruningInv, TempSkippedInv, NEW k \in DOMAIN stack, NEW v \in Visitors,
         ~applies(v, display(stack[k]))
  PROVE  IF v = "temp" THEN TempPruned(root, stack[k]) ELSE PrunedIn(root, v, stack[k])
<1>1. skip[v] # NoPath /\ IsStrictPrefix(skip[v], display(stack[k]))
  BY DEF applies
<1>2. CASE v = "temp"
  BY <1>1, <1>2 DEF TempSkippedInv
<1>3. CASE v # "temp"
  <2>1. v \in Searchers
    BY <1>3, SearchersLemma
  <2>2. QED
    BY <1>1, <1>3, <2>1 DEF PruningInv, SkipInv
<1>4. QED
  BY <1>2, <1>3

LEMMA ExplainedVisit ==
  ASSUME PruningInv, TempSkipInv, TempSkippedInv, VisitEntry,
         NEW p \in Tree, ~Done(p), Passed(p)', ~Passed(p)
  PROVE  Explained(root, p)'
<1>0. PICK e : e = Head(stack)
  OBVIOUS
<1>1. /\ pc = "walk" /\ reading = NoPath /\ UNCHANGED <<settings, root, hidden>> /\ DiscoveryInv
  BY DEF VisitEntry, PruningInv
<1>2. /\ e \in Tree /\ IsPrefix(root.resolved, e) /\ IsPrefix(e, p) /\ IsPrefix(root.resolved, p)
      /\ \E k \in DOMAIN stack : e = stack[k]
      /\ ~walkedBefore(e)
      /\ p # e => e \in Directories /\ reading' # e
  BY <1>0, <1>1, NewlyPassed
<1>3. PICK w : w = root
  OBVIOUS
<1>4. /\ Given(w) /\ w.resolved \in Paths /\ w.resolved \in Directories /\ e \in Paths
      /\ p \in Paths
  BY <1>1, <1>2, <1>3, TreeLemma, GivenLemma DEF PruningInv, GivenInv, Given
<1>5. /\ Visitors' = Visitors
      /\ \A v, a, d : prunes(v, a, d)' <=> prunes(v, a, d)
      /\ leadsOut(p)' <=> leadsOut(p)
  <2>1. ScanRoots' = ScanRoots
    BY <1>1, TempSettings
  <2>2. leadsOut(p)' <=> leadsOut(p)
    BY <2>1 DEF leadsOut, targets
  <2>3. QED
    BY <1>1, <2>2, PrunesLemma
<1>6. ASSUME \A v \in Visitors :
               \E a \in Directories : /\ IsPrefix(w.resolved, a) /\ IsStrictPrefix(a, p)
                                      /\ prunes(v, a, Spelled(w, a))
      PROVE  Explained(w, p)'
  <2>1. \A v, a : prunes(v, a, Spelled(w, a))' <=> prunes(v, a, Spelled(w, a))
    BY <1>5 DEF Spelled
  <2>2. \A v \in Visitors' :
          \E a \in Directories : /\ IsPrefix(w.resolved, a) /\ IsStrictPrefix(a, p)
                                 /\ prunes(v, a, Spelled(w, a))'
    BY <1>5, <1>6, <2>1
  <2>3. QED
    BY <2>2 DEF Explained, Spelled
<1>7. \A v \in Searchers : \A q : PrunedIn(w, v, q) =>
        \E a \in Directories : /\ IsPrefix(w.resolved, a) /\ IsStrictPrefix(a, q)
                               /\ prunes(v, a, Spelled(w, a))
  BY SearchersLemma DEF PrunedIn
<1>8. CASE stopsAt(e)
  <2>1. excluded(e, display(e))
    BY <1>2, <1>8 DEF stopsAt
  <2>2. e \in notices' /\ e \in Directories
    BY <1>0, <1>2, <2>1 DEF VisitEntry, excluded
  <2>3. QED
    BY <1>2, <2>2 DEF Explained
<1>9. CASE ~stopsAt(e) /\ p = e
  <2>1. Offer(e) /\ (leadsOut(e) => e \in notices')
    BY <1>0, <1>9 DEF VisitEntry
  <2>2. CASE \E v \in Visitors : applies(v, display(e))
    <3>1. PICK v \in Visitors : applies(v, display(e))
      BY <2>2
    <3>2. v \in AllVisitors /\ visited \in [AllVisitors -> [Tree -> {0, 1}]]
      BY <1>1 DEF Visitors, DiscoveryInv, VisitedInv
    <3>3. visited'[v] = [visited[v] EXCEPT ![e] = @ + 1]
      BY <2>1, <3>1, <3>2 DEF Offer
    <3>4. visited[v] \in [Tree -> {0, 1}]
      BY <3>2
    <3>5. visited'[v][p] > 0
      BY <1>2, <1>9, <3>3, <3>4
    <3>6. QED
      BY <1>5, <1>9, <2>1, <3>1, <3>5 DEF Explained
  <2>3. CASE \A v \in Visitors : ~applies(v, display(e))
    <3>1. \A v \in Searchers : PrunedIn(w, v, e)
      <4>1. ASSUME NEW v \in Searchers PROVE v \in Visitors /\ v # "temp"
        BY SearchersLemma
      <4>2. QED
        BY <1>2, <1>3, <2>3, <4>1, SkippedAbove
    <3>2. "project" \in Searchers
      BY DEF Searchers
    <3>3. IsStrictPrefix(w.resolved, e)
      BY <1>2, <1>3, <1>4, <3>1, <3>2, NothingAbove DEF IsStrictPrefix
    <3>4. ASSUME "temp" \in Visitors
          PROVE  \E a \in Directories : /\ IsPrefix(w.resolved, a) /\ IsStrictPrefix(a, e)
                                        /\ prunes("temp", a, Spelled(w, a))
      <4>1. TempPruned(w, e)
        BY <1>2, <1>3, <2>3, <3>4, SkippedAbove
      <4>2. CASE prunes("temp", w.resolved, w.absolute)
        <5>1. Spelled(w, w.resolved) = w.absolute
          BY <1>4, RootSpelling, GivenLemma
        <5>2. IsPrefix(w.resolved, w.resolved)
          BY <1>4, ReflexiveLemma
        <5>3. QED
          BY <1>4, <3>3, <4>2, <5>1, <5>2
      <4>3. QED
        BY <4>1, <4>2 DEF TempPruned
    <3>5. ASSUME NEW v \in Visitors
          PROVE  \E a \in Directories : /\ IsPrefix(w.resolved, a) /\ IsStrictPrefix(a, p)
                                        /\ prunes(v, a, Spelled(w, a))
      <4>1. CASE v = "temp"
        BY <1>9, <3>4, <4>1
      <4>2. CASE v # "temp"
        <5>1. v \in Searchers
          BY <4>2, SearchersLemma
        <5>2. QED
          BY <1>7, <1>9, <3>1, <5>1
      <4>3. QED
        BY <4>1, <4>2
    <3>6. QED
      BY <1>1, <1>3, <1>6, <3>5
  <2>4. QED
    BY <2>2, <2>3
<1>10. CASE ~stopsAt(e) /\ p # e
  <2>1. Offer(e) /\ e \in Directories /\ IsStrictPrefix(e, p)
    BY <1>0, <1>2, <1>10 DEF VisitEntry, IsStrictPrefix
  <2>2. \A v \in Visitors : skip'[v] # NoPath /\ IsPrefix(skip'[v], display(e))
    <3>1. reading' = IF \A v \in Visitors : skip'[v] # NoPath /\ IsPrefix(skip'[v], display(e))
                       THEN NoPath ELSE e
      BY <1>0, <1>2, <1>10, <2>1, OfferLemma
    <3>2. QED
      BY <1>2, <1>10, <3>1
  <2>3. ASSUME NEW v \in Searchers
        PROVE  PrunedIn(w, v, p)
    <3>1. skip'[v] # NoPath
      BY <2>2, SearchersLemma
    <3>2. Shows(v, e)
      BY <1>0, <1>2, <1>10, OfferLemma
    <3>3. CASE PrunedIn(root, v, e)
      <4>1. PICK a \in Directories :
              IsPrefix(root.resolved, a) /\ IsStrictPrefix(a, e) /\ prunes(v, a, a)
        BY <3>3 DEF PrunedIn
      <4>2. IsStrictPrefix(a, p)
        BY <1>2, <1>4, <4>1, TreeLemma, StrictLemma
      <4>3. QED
        BY <1>3, <4>1, <4>2 DEF PrunedIn
    <3>4. CASE ~PrunedIn(root, v, e)
      <4>1. prunes(v, e, e)
        BY <3>1, <3>2, <3>4 DEF Shows
      <4>2. QED
        BY <1>2, <1>3, <2>1, <4>1 DEF PrunedIn
    <3>5. QED
      BY <3>3, <3>4
  <2>4. ASSUME "temp" \in Visitors
        PROVE  \E a \in Directories : /\ IsPrefix(w.resolved, a) /\ IsStrictPrefix(a, p)
                                      /\ prunes("temp", a, Spelled(w, a))
    <3>1. TempPruned(w, e) \/ prunes("temp", e, Spelled(w, e))
      <4>1. CASE applies("temp", display(e))
        <5>1. DOMAIN skip = AllVisitors
          BY DEF TempSkipInv
        <5>2. skip'["temp"] = IF e \in Directories /\ prunes("temp", e, display(e))
                                THEN display(e) ELSE NoPath
          BY <2>1, <2>4, <4>1, <5>1, TempOffer
        <5>3. skip'["temp"] # NoPath
          BY <2>2, <2>4
        <5>4. QED
          BY <1>3, <5>2, <5>3 DEF display, Spelled
      <4>2. CASE ~applies("temp", display(e))
        BY <1>2, <1>3, <2>4, <4>2, SkippedAbove
      <4>3. QED
        BY <4>1, <4>2
    <3>2. IsPrefix(w.resolved, e)
      BY <1>2, <1>3
    <3>3. QED
      BY <1>2, <1>4, <2>1, <3>1, <3>2, PrunedBelow
  <2>5. ASSUME NEW v \in Visitors
        PROVE  \E a \in Directories : /\ IsPrefix(w.resolved, a) /\ IsStrictPrefix(a, p)
                                      /\ prunes(v, a, Spelled(w, a))
    <3>1. CASE v = "temp"
      BY <2>4, <3>1
    <3>2. CASE v # "temp"
      <4>1. v \in Searchers
        BY <3>2, SearchersLemma
      <4>2. QED
        BY <1>7, <2>3, <4>1
    <3>3. QED
      BY <3>1, <3>2
  <2>6. QED
    BY <1>1, <1>3, <1>6, <2>5
<1>11. QED
  BY <1>8, <1>9, <1>10

(* A directory and its entry: what is left when the last name is taken off.   *)
LEMMA FrontLemma ==
  ASSUME NEW q \in Directories, NEW c \in Children(q)
  PROVE  Front(c) = q
<1>1. q \in Paths /\ c \in Paths /\ Len(c) = Len(q) + 1 /\ IsPrefix(q, c)
  BY TreeLemma DEF Children
<1>2. SubSeq(q, 1, Len(q)) = q
  BY <1>1 DEF Paths
<1>3. Len(c) - 1 = Len(q)
  BY <1>1 DEF Paths
<1>4. QED
  BY <1>1, <1>2, <1>3 DEF Front, IsPrefix

LEMMA ExplainedRead ==
  ASSUME PruningInv, ThereInv, ReadDirectory,
         NEW p \in Tree, p \in there, Untouched(p), ~Done(p), Passed(p)', ~Passed(p)
  PROVE  Explained(root, p)'
<1>1. /\ pc = "walk" /\ reading # NoPath /\ UNCHANGED root /\ DiscoveryInv
  BY DEF ReadDirectory, PruningInv
<1>2. PICK c \in Children(reading) :
        /\ c \in hidden' /\ IsPrefix(c, p)
        /\ IsPrefix(root.resolved, c) /\ c # root.resolved
        /\ c \in there => display(reading) \in errors'
  BY <1>1, NewlyHidden
<1>3. PICK w : w = root
  OBVIOUS
<1>4. c \in there
  <2>1. c \in Tree
    BY DEF Children
  <2>2. QED
    BY <1>2, <2>1 DEF ThereInv
<1>5. Front(c) = reading
  BY <1>1, FrontLemma DEF DiscoveryInv, ReadingInv
<1>6. Spelled(w, Front(c)) \in errors'
  BY <1>2, <1>3, <1>4, <1>5 DEF Spelled, display
<1>7. QED
  BY <1>1, <1>2, <1>3, <1>6 DEF Explained, Spelled, IsStrictPrefix

LEMMA ExplainedStep ==
  ASSUME PruningInv, TempSkipInv, TempSkippedInv, ThereInv, ExplainedInv,
         pc = "tops" => walked = {}, [Next]_vars
  PROVE  ExplainedInv'
<1>0. DiscoveryInv
  BY DEF PruningInv
<1>1. \A p \in Tree : Untouched(p)' => Untouched(p) /\ (p \in there' <=> p \in there)
  BY StaysLemma
<1>2. \A w, p : p \in Tree /\ Explained(w, p) => Explained(w, p)'
  BY <1>0, ExplainedStays
<1>3. CASE FinishRoot
  <2>1. /\ pc = "walk" /\ pc' = "root" /\ reading = NoPath /\ stack = <<>>
        /\ walked' = walked \cup {root}
    BY <1>3 DEF FinishRoot
  <2>2. /\ Given(root) /\ ~Done(root.resolved) /\ root.resolved \in Paths
        /\ \A w \in walked : w.resolved \in Paths
    BY <1>0, <2>1, GivenLemma DEF PruningInv, GivenInv, DiscoveryInv, RootInv
  <2>3. \A q : Done(q)' <=> Done(q) \/ IsPrefix(root.resolved, q)
    BY <2>1 DEF Done
  <2>4. ASSUME NEW p \in Tree, p \in there, Untouched(p), Done(p)
        PROVE  (\E w \in walked : Innermost(p, w) /\ Explained(w, p))'
    <3>1. PICK w \in walked : Innermost(p, w) /\ Explained(w, p)
      BY <2>4 DEF ExplainedInv
    <3>2. Innermost(p, w)'
      <4>1. p \in Paths /\ IsPrefix(w.resolved, p) /\ ~IsPrefix(w.resolved, root.resolved)
        BY <2>2, <3>1, TreeLemma DEF Innermost, Holding, pathWithin, Done
      <4>2. IsPrefix(root.resolved, p) => IsPrefix(root.resolved, w.resolved)
        BY <2>2, <4>1, ComparableLemma
      <4>3. QED
        BY <2>1, <3>1, <4>2 DEF Innermost, Holding, pathWithin
    <3>3. QED
      BY <1>2, <2>1, <3>1, <3>2
  <2>5. ASSUME NEW p \in Tree, p \in there, Untouched(p), ~Done(p), IsPrefix(root.resolved, p)
        PROVE  (\E w \in walked : Innermost(p, w) /\ Explained(w, p))'
    <3>1. Passed(p)
      BY <2>1, <2>5 DEF Passed
    <3>2. PICK w : w = root
      OBVIOUS
    <3>3. Explained(w, p)
      BY <2>5, <3>1, <3>2 DEF ExplainedInv
    <3>4. Holding(p)' = {w}
      BY <2>1, <2>5, <3>2 DEF Holding, pathWithin, Done
    <3>5. Innermost(p, w)'
      BY <2>2, <3>2, <3>4, ReflexiveLemma DEF Innermost, pathWithin
    <3>6. QED
      BY <1>2, <2>1, <3>2, <3>3, <3>5
  <2>6. \A p : ~Passed(p)'
    BY <2>1 DEF Passed
  <2>7. QED
    BY <1>1, <2>3, <2>4, <2>5, <2>6 DEF ExplainedInv
<1>4. CASE UNCHANGED walked
  <2>1. \A p : Done(p)' <=> Done(p)
    BY <1>4 DEF Done
  <2>2. ASSUME NEW p \in Tree, p \in there, Untouched(p), Done(p)
        PROVE  (\E w \in walked : Innermost(p, w) /\ Explained(w, p))'
    <3>1. PICK w \in walked : Innermost(p, w) /\ Explained(w, p)
      BY <2>2 DEF ExplainedInv
    <3>2. Innermost(p, w)'
      BY <1>4, <3>1 DEF Innermost, Holding
    <3>3. QED
      BY <1>2, <1>4, <3>1, <3>2
  <2>3. ASSUME NEW p \in Tree, p \in there, Untouched(p), ~Done(p), Passed(p)'
        PROVE  Explained(root, p)'
    <3>0. PICK w : w = root
      OBVIOUS
    <3>1. CASE Passed(p) /\ root' = root
      <4>1. Explained(w, p)
        BY <2>3, <3>0, <3>1 DEF ExplainedInv
      <4>2. Explained(w, p)'
        BY <1>2, <4>1
      <4>3. QED
        BY <3>0, <3>1, <4>2 DEF Explained, Spelled
    <3>2. CASE ~Passed(p) /\ VisitEntry
      BY <2>3, <3>2, ExplainedVisit
    <3>3. CASE ~Passed(p) /\ ReadDirectory
      BY <2>3, <3>3, ExplainedRead
    <3>4. CASE NextRoot /\ pc' = "walk"
      <4>1. stack' = <<root'.resolved>>
        BY <3>4 DEF NextRoot
      <4>2. QED
        BY <2>3, <4>1 DEF Passed
    <3>5. CASE CheckTops
      BY <2>3, <3>5 DEF CheckTops, Passed
    <3>6. CASE ~VisitEntry /\ ~ReadDirectory /\ ~CheckTops /\ ~(NextRoot /\ pc' = "walk")
      <4>1. pc' = "walk" => UNCHANGED <<pc, root, stack, reading>>
        BY <1>4, <3>6 DEF vars, Next, ComeOrGo, NextRoot, AllWalked, FinishRoot
      <4>2. Passed(p) /\ root' = root
        BY <2>3, <4>1 DEF Passed
      <4>3. QED
        BY <3>1, <4>2
    <3>7. QED
      BY <3>1, <3>2, <3>3, <3>4, <3>5, <3>6 DEF VisitEntry, ReadDirectory
  <2>4. QED
    BY <1>1, <2>1, <2>2, <2>3 DEF ExplainedInv
<1>5. QED
  BY <1>3, <1>4
  DEF vars, Next, ComeOrGo, CheckTops, NextRoot, AllWalked, VisitEntry, ReadDirectory

LEMMA SilenceStep ==
  PruningInv /\ KnownInv /\ TempSkipInv /\ SilenceInv /\ TempsLieOpen /\ [Next]_vars
    => KnownInv' /\ TempSkipInv' /\ SilenceInv'
<1>1. SUFFICES ASSUME PruningInv, KnownInv, TempSkipInv, SilenceInv, TempsLieOpen, [Next]_vars
               PROVE  KnownInv' /\ TempSkipInv' /\ SilenceInv'
  OBVIOUS
<1>2. DiscoveryInv
  BY <1>1 DEF PruningInv
<1>3. KnownInv' /\ TempSkipInv'
  BY <1>1, <1>2, KnownStep, TempSkipStep
<1>4. TempSkippedInv'
  BY <1>1, TempSkippedStep DEF SilenceInv
<1>5. ThereInv' /\ RootsInv'
  BY <1>1, <1>2, ThereStep, RootsStep DEF SilenceInv
<1>6. ExplainedInv'
  BY <1>1, ExplainedStep DEF SilenceInv, KnownInv
<1>7. QED
  BY <1>3, <1>4, <1>5, <1>6 DEF SilenceInv

(* Why each path was shown or missed, in every state of every walk in which   *)
(* no root is a link spelled inside a temp directory or below a pruned one.   *)
THEOREM SilenceInvariance ==
  Spec /\ []RootsLieOpen /\ []TempsLieOpen => [](PruningInv /\ SilenceInv)
<1>1. Init => KnownInv /\ TempSkipInv /\ SilenceInv
  BY StagingInit, SilenceInit DEF StagingInv
<1>2. QED
  BY <1>1, SilenceStep, PruningInvariance, PTL DEF Spec

(* Nothing below a root that stood throughout is missed in silence            *)
(* (walkScanRoots, walkClassified, noteUnfollowedDirLink): what no consumer   *)
(* was shown is excluded with a notice, in a directory whose listing failed   *)
(* with an error, or below what all of them prune, if no root is given as a   *)
(* link inside a temp directory or inside what a consumer prunes.             *)
THEOREM NothingIsMissed ==
  Spec /\ []RootsLieOpen /\ []TempsLieOpen => []NothingIsMissedSilently
<1>1. ASSUME PruningInv, SilenceInv, pc = "done", NEW k \in DOMAIN ScanRoots,
             ~resolvable(ScanRoots[k])
      PROVE  ScanRoots[k] \in errors
  BY <1>1 DEF SilenceInv, RootsInv
<1>2. ASSUME PruningInv, SilenceInv, pc = "done", NEW p \in Tree, steady(p),
             NEW r \in targets, pathWithin(r, p)
      PROVE  \/ \E v \in Visitors : visited[v][p] > 0 /\ (leadsOut(p) => p \in notices)
             \/ \E a \in notices \cap Directories : pathWithin(a, p)
             \/ \E a \in hidden, w \in walked :
                  pathWithin(a, p) /\ Innermost(Front(a), w) /\ Spelled(w, Front(a)) \in errors
             \/ \E w \in walked : Innermost(p, w) /\ \A v \in Visitors :
                  \E a \in Directories : pathWithin(w.resolved, a) /\ IsStrictPrefix(a, p)
                                         /\ prunes(v, a, Spelled(w, a))
  <2>1. p \in there /\ Untouched(p)
    BY <1>2 DEF steady, Untouched
  <2>2. PICK k \in DOMAIN ScanRoots : resolvable(ScanRoots[k]) /\ r = resolve(ScanRoots[k])
    BY <1>2 DEF targets, resolvedScanRoots, ToSet
  <2>3. Done(r)
    BY <1>2, <2>2 DEF SilenceInv, RootsInv
  <2>4. /\ p \in Paths /\ r \in Paths
        /\ \A w \in walked : w.resolved \in Paths
    BY <1>2, <2>2, TreeLemma, GivenLemma DEF PruningInv, GivenInv
  <2>5. Done(p)
    BY <1>2, <2>3, <2>4, TransitiveLemma DEF Done, pathWithin
  <2>6. PICK w \in walked : Innermost(p, w) /\ Explained(w, p)
    BY <1>2, <2>1, <2>5 DEF SilenceInv, ExplainedInv
  <2>7. ASSUME NEW a \in hidden, IsPrefix(a, p), IsStrictPrefix(w.resolved, a),
               Spelled(w, Front(a)) \in errors
        PROVE  Innermost(Front(a), w)
    <3>1. PICK q \in Directories : a \in Children(q)
      BY <1>2, <2>7 DEF PruningInv, HiddenInv
    <3>2. /\ Front(a) = q /\ q \in Paths /\ a \in Paths /\ IsPrefix(q, a) /\ Len(a) = Len(q) + 1
      BY <3>1, FrontLemma, TreeLemma DEF Children
    <3>3. IsPrefix(w.resolved, q)
      BY <2>4, <2>7, <3>2, ChildLemma DEF IsStrictPrefix
    <3>4. ASSUME NEW x \in walked, IsPrefix(x.resolved, q)
          PROVE  IsPrefix(x.resolved, w.resolved)
      <4>1. IsPrefix(x.resolved, a)
        BY <2>4, <3>2, <3>4, TransitiveLemma
      <4>2. IsPrefix(x.resolved, p)
        BY <2>4, <2>7, <3>2, <4>1, TransitiveLemma
      <4>3. QED
        BY <2>6, <4>2 DEF Innermost, Holding, pathWithin
    <3>5. QED
      BY <3>2, <3>3, <3>4 DEF Innermost, Holding, pathWithin
  <2>8. CASE \E a \in hidden : /\ IsPrefix(a, p) /\ IsStrictPrefix(w.resolved, a)
                               /\ Spelled(w, Front(a)) \in errors
    BY <2>7, <2>8 DEF pathWithin
  <2>9. QED
    BY <2>6, <2>8 DEF Explained, pathWithin
<1>3. PruningInv /\ SilenceInv => NothingIsMissedSilently
  BY <1>1, <1>2 DEF NothingIsMissedSilently
<1>4. QED
  BY <1>3, SilenceInvariance, PTL

=============================================================================
