------------------------ MODULE GraphHistory_proofs ------------------------
(***************************************************************************)
(* Proofs about GraphHistory, for any files, contents and configurations,  *)
(* over any number of generations.                                         *)
(***************************************************************************)
EXTENDS GraphHistory, FiniteSetTheorems, WellFoundedInduction, TLAPS

(* Merging never leaves an edge without its ends, nor a reachable node     *)
(* that is not there, whatever the last graph was.                         *)
LEMMA MergeIsWhole ==
  ASSUME NEW fresh, NEW last, Importable(fresh)
  PROVE  /\ NoDangling(PreservingParseErrorsFrom(fresh, last))
         /\ ReachableKnown(PreservingParseErrorsFrom(fresh, last))
<1> DEFINE merged == PreservingParseErrorsFrom(fresh, last)
<1>1. CASE fresh.broken = {}
  BY <1>1 DEF PreservingParseErrorsFrom, Importable
<1>2. CASE fresh.broken # {}
  <2>1. /\ NodesOf(merged) = DOMAIN MergedNodes(fresh, last)
        /\ EdgesOf(merged) = SurvivingEdges(fresh) \cup RestoredEdges(fresh, last)
        /\ merged.reachable \subseteq DOMAIN MergedNodes(fresh, last)
    BY <1>2 DEF PreservingParseErrorsFrom, NodesOf, EdgesOf, MergedEdges
  <2>2. DOMAIN MergedNodes(fresh, last)
          = (NodesOf(fresh) \ ReplacedNodes(fresh)) \cup StaleNodes(fresh, last)
    BY DEF MergedNodes
  <2>3. ASSUME NEW e \in SurvivingEdges(fresh)
        PROVE  {e.source, e.target} \subseteq DOMAIN MergedNodes(fresh, last)
    <3>1. e \in EdgesOf(fresh) /\ e.source \notin ReplacedNodes(fresh)
                               /\ e.target \notin ReplacedNodes(fresh)
      BY <2>3 DEF SurvivingEdges
    <3>2. {e.source, e.target} \subseteq NodesOf(fresh)
      BY <3>1 DEF Importable, NoDangling
    <3> QED
      BY <3>1, <3>2, <2>2
  <2>4. ASSUME NEW e \in RestoredEdges(fresh, last)
        PROVE  {e.source, e.target} \subseteq DOMAIN MergedNodes(fresh, last)
    BY <2>4 DEF RestoredEdges
  <2> QED
    BY <2>1, <2>3, <2>4 DEF NoDangling, ReachableKnown
<1> QED
  BY <1>1, <1>2

(* In every reachable state, a run whose output is a graph is published,   *)
(* however many files do not parse.                                        *)
THEOREM MergingNeverFails == HistorySpec => []MergeSucceeds
<1>1. MergeSucceeds
  BY MergeIsWhole DEF MergeSucceeds, Imported, Importable
<1> QED
  BY <1>1, PTL

-----------------------------------------------------------------------------
(* What the analyzer's graph is made of.                                   *)

LEMMA AnalyzedShape ==
  ASSUME NEW d \in [Files -> Bodies \cup {Broken, Absent}], NEW c
  PROVE  LET fresh == Analyzed(d, c)
         IN  /\ DOMAIN fresh = {"nodes", "edges", "entry", "reachable", "broken"}
             /\ fresh.broken \subseteq Files
             /\ \A p \in fresh.broken : d[p] = Broken
             /\ \A n \in NodesOf(fresh) :
                    fresh.nodes[n] = [body |-> BodyAt(d, n.path), stale |-> FALSE]
BY DEF Analyzed, NodesOf, Present, Parsed

(* An edge found in a file leaves a node of that file.                     *)
EdgesLeaveTheirFile(g) == \A e \in EdgesOf(g) : e.path \in Files => e.source.path = e.path

LEMMA AnalyzedEdgesLeaveTheirFile ==
  ASSUME NEW d, NEW c
  PROVE  EdgesLeaveTheirFile(Analyzed(d, c))
<1> SUFFICES ASSUME NEW e \in AnalyzedEdges(d), e.path \in Files
             PROVE  e.source.path = e.path
  BY DEF EdgesLeaveTheirFile, Analyzed, EdgesOf
<1>1. CASE e \in {Link("contains", Repository, FileNode(p), NoPath) : p \in Present(d)}
  BY <1>1, HistoryAssumption DEF Link
<1>2. CASE e \in {Link("contains", FileNode(p), ModuleNode(p), NoPath) : p \in Present(d)}
  BY <1>2, HistoryAssumption DEF Link
<1>3. ASSUME NEW p \in Files, NEW s \in Defines(d, p),
             e = Link("contains", ModuleNode(p), SymbolNode(p, s), p)
      PROVE  e.source.path = e.path
  BY <1>3 DEF Link, ModuleNode, Node
<1>4. ASSUME NEW p \in Files, NEW i \in Imports(d, p),
             e = Link("imports", ModuleNode(p), Target(d, p, i[1], i[2]), p)
      PROVE  e.source.path = e.path
  BY <1>4 DEF Link, ModuleNode, Node
<1> QED
  BY <1>1, <1>2, <1>3, <1>4 DEF AnalyzedEdges

-----------------------------------------------------------------------------
(* What merging does to the nodes of one file, and to edges.               *)

WellShaped(g) ==
    /\ DOMAIN g = {"nodes", "edges", "entry", "reachable", "broken"}
    /\ g.broken \subseteq Files
    /\ \A n \in NodesOf(g) : DOMAIN g.nodes[n] = {"body", "stale"}

LEMMA MergedShape ==
  ASSUME NEW fresh, NEW last, WellShaped(fresh), WellShaped(last)
  PROVE  WellShaped(PreservingParseErrorsFrom(fresh, last))
<1>1. CASE fresh.broken = {}
  BY <1>1 DEF PreservingParseErrorsFrom
<1>2. CASE fresh.broken # {}
  <2> DEFINE merged == PreservingParseErrorsFrom(fresh, last)
  <2>1. /\ DOMAIN merged = {"nodes", "edges", "entry", "reachable", "broken"}
        /\ merged.broken = fresh.broken
        /\ merged.nodes = MergedNodes(fresh, last)
    BY <1>2 DEF PreservingParseErrorsFrom
  <2>2. ASSUME NEW n \in DOMAIN MergedNodes(fresh, last)
        PROVE  DOMAIN MergedNodes(fresh, last)[n] = {"body", "stale"}
    <3>1. CASE n \in StaleNodes(fresh, last)
      <4>1. DOMAIN last.nodes[n] = {"body", "stale"}
        BY <3>1 DEF StaleNodes, WellShaped
      <4>2. MergedNodes(fresh, last)[n] = Stale(last.nodes[n])
        BY <3>1 DEF MergedNodes
      <4> QED
        BY <4>1, <4>2 DEF Stale
    <3>2. CASE n \notin StaleNodes(fresh, last)
      <4>1. n \in NodesOf(fresh)
        BY <2>2, <3>2 DEF MergedNodes
      <4>2. MergedNodes(fresh, last)[n] = fresh.nodes[n]
        BY <2>2, <3>2 DEF MergedNodes
      <4> QED
        BY <4>1, <4>2 DEF WellShaped
    <3> QED
      BY <3>1, <3>2
  <2> QED
    BY <2>1, <2>2 DEF WellShaped, NodesOf
<1> QED
  BY <1>1, <1>2

(* A broken file keeps its last facts, all marked stale; any other path    *)
(* keeps the facts just read.                                              *)
LEMMA MergedFacts ==
  ASSUME NEW fresh, NEW last, WellShaped(last), fresh.broken # {}, NEW p
  PROVE  LET merged == PreservingParseErrorsFrom(fresh, last)
         IN  /\ p \in fresh.broken =>
                  /\ FactsOf(merged, p) = FactsOf(last, p)
                  /\ \A n \in NodesOf(merged) : n.path = p => merged.nodes[n].stale
             /\ p \notin fresh.broken =>
                  /\ FactsOf(merged, p) = FactsOf(fresh, p)
                  /\ \A n \in NodesOf(merged) : n.path = p =>
                        n \in NodesOf(fresh) /\ merged.nodes[n] = fresh.nodes[n]
<1> DEFINE merged == PreservingParseErrorsFrom(fresh, last)
<1>1. merged.nodes = MergedNodes(fresh, last)
  BY DEF PreservingParseErrorsFrom
<1>2. NodesOf(merged) = (NodesOf(fresh) \ ReplacedNodes(fresh)) \cup StaleNodes(fresh, last)
  BY <1>1 DEF NodesOf, MergedNodes
<1>3. CASE p \in fresh.broken
  <2>1. {n \in NodesOf(merged) : n.path = p} = {n \in NodesOf(last) : n.path = p}
    BY <1>2, <1>3 DEF ReplacedNodes, StaleNodes
  <2>2. ASSUME NEW n \in NodesOf(last), n.path = p
        PROVE  merged.nodes[n].body = last.nodes[n].body /\ merged.nodes[n].stale = TRUE
    <3>1. n \in StaleNodes(fresh, last)
      BY <1>3, <2>2 DEF StaleNodes
    <3>2. merged.nodes[n] = Stale(last.nodes[n])
      BY <3>1, <1>1 DEF MergedNodes
    <3>3. DOMAIN last.nodes[n] = {"body", "stale"}
      BY <2>2 DEF WellShaped
    <3> QED
      BY <3>2, <3>3 DEF Stale
  <2>3. FactsOf(merged, p) = FactsOf(last, p)
    BY <2>1, <2>2 DEF FactsOf
  <2> QED
    BY <1>3, <2>1, <2>2, <2>3
<1>4. CASE p \notin fresh.broken
  <2>1. {n \in NodesOf(merged) : n.path = p} = {n \in NodesOf(fresh) : n.path = p}
    BY <1>2, <1>4 DEF ReplacedNodes, StaleNodes
  <2>2. ASSUME NEW n \in NodesOf(fresh), n.path = p
        PROVE  merged.nodes[n] = fresh.nodes[n]
    BY <1>1, <1>4, <2>2 DEF MergedNodes, ReplacedNodes, StaleNodes
  <2>3. FactsOf(merged, p) = FactsOf(fresh, p)
    BY <2>1, <2>2 DEF FactsOf
  <2> QED
    BY <1>4, <2>1, <2>2, <2>3
<1> QED
  BY <1>3, <1>4

(* Edges between nodes of files that parse are the ones just found.        *)
CurrentEdges(g) ==
    {e \in EdgesOf(g) : e.source.path \notin g.broken /\ e.target.path \notin g.broken}

LEMMA MergedEdgesAreCurrent ==
  ASSUME NEW fresh, NEW last, fresh.broken \subseteq Files,
         EdgesLeaveTheirFile(fresh), EdgesLeaveTheirFile(last)
  PROVE  LET merged == PreservingParseErrorsFrom(fresh, last)
         IN  /\ EdgesLeaveTheirFile(merged)
             /\ CurrentEdges(merged) = CurrentEdges(fresh)
             /\ \A e \in CurrentEdges(merged) : merged.edges[e] = fresh.edges[e]
<1> DEFINE merged == PreservingParseErrorsFrom(fresh, last)
<1>1. CASE fresh.broken = {}
  BY <1>1 DEF PreservingParseErrorsFrom
<1>2. CASE fresh.broken # {}
  <2>1. merged.broken = fresh.broken /\ merged.edges = MergedEdges(fresh, last)
    BY <1>2 DEF PreservingParseErrorsFrom
  <2>2. EdgesOf(merged) = SurvivingEdges(fresh) \cup RestoredEdges(fresh, last)
    BY <2>1 DEF EdgesOf, MergedEdges
  <2>3. SurvivingEdges(fresh) \subseteq EdgesOf(fresh)
            /\ RestoredEdges(fresh, last) \subseteq EdgesOf(last)
    BY DEF SurvivingEdges, RestoredEdges
  <2>4. EdgesLeaveTheirFile(merged)
    BY <2>2, <2>3 DEF EdgesLeaveTheirFile
  <2>5. ASSUME NEW e \in RestoredEdges(fresh, last)
        PROVE  e.source.path \in fresh.broken \/ e.target.path \in fresh.broken
    <3>1. CASE e.path \in fresh.broken
      BY <2>3, <3>1 DEF EdgesLeaveTheirFile
    <3>2. CASE e.path \notin fresh.broken
      BY <3>2, <2>5 DEF RestoredEdges, StaleNodes
    <3> QED
      BY <3>1, <3>2
  <2>6. ASSUME NEW e \in CurrentEdges(fresh)
        PROVE  e \in SurvivingEdges(fresh)
    BY <2>6 DEF CurrentEdges, SurvivingEdges, ReplacedNodes, EdgesLeaveTheirFile
  <2>7. CurrentEdges(merged) = CurrentEdges(fresh)
    BY <2>1, <2>2, <2>3, <2>5, <2>6 DEF CurrentEdges
  <2>8. ASSUME NEW e \in CurrentEdges(merged)
        PROVE  merged.edges[e] = fresh.edges[e]
    <3>1. e \notin RestoredEdges(fresh, last)
      BY <2>1, <2>5, <2>8 DEF CurrentEdges
    <3>2. e \in SurvivingEdges(fresh)
      BY <2>6, <2>7, <2>8
    <3> QED
      BY <2>1, <3>1, <3>2 DEF MergedEdges
  <2> QED
    BY <2>4, <2>7, <2>8
<1> QED
  BY <1>1, <1>2

-----------------------------------------------------------------------------
(* The inductive invariant.                                                *)

HistoryInv == HistoryTypeOK /\ FactsAreLastGood /\ EdgesLeaveTheirFile(graph)

LEMMA GraphWellShaped == HistoryTypeOK => WellShaped(graph)
BY DEF HistoryTypeOK, WellShaped

LEMMA HistoryInitInv == HistoryInit => HistoryInv
<1> SUFFICES ASSUME HistoryInit PROVE HistoryInv
  OBVIOUS
<1>1. NodesOf(graph) = {} /\ EdgesOf(graph) = {} /\ graph.broken = {}
  BY DEF HistoryInit, EmptyGraph, NodesOf, EdgesOf
<1>2. HistoryTypeOK
  BY <1>1 DEF HistoryInit, HistoryTypeOK, EmptyGraph
<1>3. FactsAreLastGood
  BY <1>1 DEF HistoryInit, FactsAreLastGood, FactsOf
<1> QED
  BY <1>1, <1>2, <1>3 DEF HistoryInv, EdgesLeaveTheirFile

LEMMA PublishKeeps ==
  ASSUME HistoryInv, Publish
  PROVE  HistoryInv'
<1> DEFINE fresh == Analyzed(disk, entry)
<1>1. /\ disk \in [Files -> Bodies \cup {Broken, Absent}] /\ entry \in Entries
      /\ WellShaped(graph) /\ EdgesLeaveTheirFile(graph) /\ FactsAreLastGood
  BY GraphWellShaped DEF HistoryInv, HistoryTypeOK
<1>2. /\ graph' = Imported(fresh) /\ indexed' = TRUE /\ UNCHANGED <<disk, entry>>
      /\ lastGood' = [p \in Files |-> FactsToShow(fresh, p)]
  BY DEF Publish
<1>3. /\ WellShaped(fresh) /\ \A p \in fresh.broken : disk[p] = Broken
      /\ \A n \in NodesOf(fresh) :
            /\ DOMAIN fresh.nodes[n] = {"body", "stale"}
            /\ fresh.nodes[n].body = BodyAt(disk, n.path)
            /\ fresh.nodes[n].stale = FALSE
  <2>1. /\ DOMAIN fresh = {"nodes", "edges", "entry", "reachable", "broken"}
        /\ fresh.broken \subseteq Files
        /\ \A p \in fresh.broken : disk[p] = Broken
        /\ \A n \in NodesOf(fresh) :
              fresh.nodes[n] = [body |-> BodyAt(disk, n.path), stale |-> FALSE]
    BY <1>1, AnalyzedShape
  <2> HIDE DEF fresh
  <2>2. ASSUME NEW n \in NodesOf(fresh)
        PROVE  /\ DOMAIN fresh.nodes[n] = {"body", "stale"}
               /\ fresh.nodes[n].body = BodyAt(disk, n.path)
               /\ fresh.nodes[n].stale = FALSE
    <3>1. fresh.nodes[n] = [body |-> BodyAt(disk, n.path), stale |-> FALSE]
      BY <2>1, <2>2
    <3> DEFINE data == fresh.nodes[n]
               body == BodyAt(disk, n.path)
    <3>2. data = [body |-> body, stale |-> FALSE]
      BY <3>1
    <3> HIDE DEF data, body
    <3>3. DOMAIN data = {"body", "stale"} /\ data.body = body /\ data.stale = FALSE
      BY <3>2
    <3> QED
      BY <3>3 DEF data, body
  <2> QED
    BY <2>1, <2>2 DEF WellShaped
<1>4. EdgesLeaveTheirFile(fresh)
  BY AnalyzedEdgesLeaveTheirFile
<1> HIDE DEF fresh
<1>5. WellShaped(graph') /\ EdgesLeaveTheirFile(graph')
  <2>1. CASE indexed
    BY <2>1, <1>1, <1>2, <1>3, <1>4, MergedShape, MergedEdgesAreCurrent DEF Imported, WellShaped
  <2>2. CASE ~indexed
    BY <2>2, <1>2, <1>3, <1>4 DEF Imported
  <2> QED
    BY <2>1, <2>2
<1>6. HistoryTypeOK'
  BY <1>1, <1>2, <1>5 DEF HistoryTypeOK, WellShaped
<1>7. ASSUME NEW p \in Files
      PROVE  /\ FactsOf(graph', p) = FactsToShow(fresh, p)
             /\ \A n \in NodesOf(graph') : n.path = p =>
                  /\ graph'.nodes[n].stale => p \in graph'.broken
                  /\ p \in graph'.broken /\ graph'.nodes[n].body # Broken
                        => graph'.nodes[n].stale
  <2>1. CASE indexed /\ fresh.broken # {}
    <3>1. graph' = PreservingParseErrorsFrom(fresh, graph) /\ graph'.broken = fresh.broken
      BY <2>1, <1>2 DEF Imported, PreservingParseErrorsFrom
    <3>2. FactsOf(graph, p) = lastGood[p]
      BY <1>1 DEF FactsAreLastGood
    <3>3. CASE p \in fresh.broken
      BY <2>1, <1>1, <3>1, <3>2, <3>3, MergedFacts DEF FactsToShow
    <3>4. CASE p \notin fresh.broken
      <4>1. /\ FactsOf(graph', p) = FactsOf(fresh, p)
            /\ \A n \in NodesOf(graph') : n.path = p =>
                  n \in NodesOf(fresh) /\ graph'.nodes[n] = fresh.nodes[n]
        BY <2>1, <1>1, <3>1, <3>4, MergedFacts
      <4>2. FactsToShow(fresh, p) = FactsOf(fresh, p)
        BY <3>4 DEF FactsToShow
      <4>3. ASSUME NEW n \in NodesOf(graph'), n.path = p
            PROVE  graph'.nodes[n].stale = FALSE
        BY <1>3, <4>1, <4>3
      <4> QED
        BY <3>1, <3>4, <4>1, <4>2, <4>3
    <3> QED
      BY <3>3, <3>4
  <2>2. CASE ~indexed \/ fresh.broken = {}
    <3>1. graph' = fresh
      BY <2>2, <1>2 DEF Imported, PreservingParseErrorsFrom
    <3>2. FactsToShow(fresh, p) = FactsOf(fresh, p)
      BY <2>2 DEF FactsToShow
    <3>3. ASSUME NEW n \in NodesOf(fresh), n.path = p
          PROVE  fresh.nodes[n].stale = FALSE /\ fresh.nodes[n].body = disk[p]
      BY <1>3, <3>3 DEF BodyAt
    <3>4. FactsOf(graph', p) = FactsToShow(fresh, p)
      BY <3>1, <3>2
    <3>5. ASSUME NEW n \in NodesOf(graph'), n.path = p
          PROVE  /\ graph'.nodes[n].stale = FALSE
                 /\ p \in graph'.broken => graph'.nodes[n].body = Broken
      BY <1>3, <3>1, <3>3, <3>5
    <3> QED
      BY <3>4, <3>5
  <2> QED
    BY <2>1, <2>2
<1>8. FactsAreLastGood'
  BY <1>2, <1>7 DEF FactsAreLastGood
<1> QED
  BY <1>5, <1>6, <1>8 DEF HistoryInv

LEMMA HistoryStepInv ==
  ASSUME HistoryInv, [HistoryNext]_vars
  PROVE  HistoryInv'
<1>1. CASE Publish
  BY <1>1, PublishKeeps
<1>2. CASE Configure
  BY <1>2 DEF Configure, HistoryInv, HistoryTypeOK, FactsAreLastGood
<1>3. ASSUME NEW p \in Files, Edit(p)
      PROVE  HistoryInv'
  BY <1>3 DEF Edit, HistoryInv, HistoryTypeOK, FactsAreLastGood
<1>4. CASE UNCHANGED vars
  BY <1>4 DEF vars, HistoryInv, HistoryTypeOK, FactsAreLastGood
<1> QED
  BY <1>1, <1>2, <1>3, <1>4 DEF HistoryNext

LEMMA HistoryInvariant == HistorySpec => []HistoryInv
<1> QED
  BY HistoryInitInv, HistoryStepInv, PTL DEF HistorySpec

(* The variables keep their shapes: what a graph holds of each node        *)
(* survives any number of merges (Graph.cpp:575-581).                      *)
THEOREM HistoryTypeCorrect == HistorySpec => []HistoryTypeOK
<1>1. HistoryInv => HistoryTypeOK
  BY DEF HistoryInv
<1> QED
  BY <1>1, HistoryInvariant, PTL

(* A file that does not parse shows the facts of the generation that last  *)
(* could read it, marked stale; every other file shows its own             *)
(* (Graph.cpp:544-588).                                                    *)
THEOREM StaleFactsAreTheLastGoodOnes == HistorySpec => []FactsAreLastGood
<1>1. HistoryInv => FactsAreLastGood
  BY DEF HistoryInv
<1> QED
  BY <1>1, HistoryInvariant, PTL

(* Keeping old facts neither adds nor removes an edge between files that   *)
(* parse (Graph.cpp:562-568, 584-588).                                     *)
THEOREM FreshEdgesArePublished == HistorySpec => FreshEdgesPublished
<1> DEFINE fresh == Analyzed(disk, entry)
           Faithful(g) ==
             /\ CurrentEdges(g) = CurrentEdges(fresh)
             /\ \A e \in CurrentEdges(g) : g.edges[e] = fresh.edges[e]
<1>1. ASSUME HistoryInv, [HistoryNext]_vars, graph' # graph
      PROVE  Faithful(graph')
  <2>1. Publish
    BY <1>1 DEF HistoryNext, Configure, Edit, vars
  <2>2. graph' = Imported(fresh)
    BY <2>1 DEF Publish
  <2>3. EdgesLeaveTheirFile(fresh) /\ EdgesLeaveTheirFile(graph)
    BY <1>1, AnalyzedEdgesLeaveTheirFile DEF HistoryInv
  <2>4. fresh.broken \subseteq Files
    BY <1>1, AnalyzedShape DEF HistoryInv, HistoryTypeOK
  <2> HIDE DEF fresh
  <2>5. CASE indexed
    BY <2>2, <2>3, <2>4, <2>5, MergedEdgesAreCurrent DEF Imported
  <2>6. CASE ~indexed
    BY <2>2, <2>6 DEF Imported
  <2> QED
    BY <2>5, <2>6
<1>2. ASSUME HistoryInv, [HistoryNext]_vars
      PROVE  [graph' # graph =>
                LET run == Analyzed(disk, entry)
                    Current(g, e) == e.source.path \notin g.broken /\ e.target.path \notin g.broken
                IN  /\ {e \in EdgesOf(graph') : Current(graph', e)}
                            = {e \in EdgesOf(run) : Current(run, e)}
                    /\ \A e \in EdgesOf(graph') : Current(graph', e) => graph'.edges[e] = run.edges[e]
             ]_vars
  BY <1>1, <1>2 DEF CurrentEdges
<1> QED
  BY <1>2, HistoryInvariant, PTL DEF HistorySpec, FreshEdgesPublished
-----------------------------------------------------------------------------
(* LeadsTo is a closure: it has the seed, is closed under the pairs, and   *)
(* is in every set that has the seed and is closed.  It counts its steps,  *)
(* so that this is an induction over them.                                 *)

LEMMA SetInduction ==
  ASSUME NEW S, 0 \in S, \A n \in Nat : n \in S => n + 1 \in S
  PROVE  Nat \subseteq S
<1> DEFINE T == Nat \ S
<1>1. SUFFICES ASSUME T # {} PROVE FALSE
  OBVIOUS
<1>2. IsWellFoundedOn(OpToRel(<, Nat), Nat) /\ T \in SUBSET Nat
  BY NatLessThanWellFounded
<1>3. PICK m \in T : \A y \in T : ~ (<<y, m>> \in OpToRel(<, Nat))
  <2> HIDE DEF T
  <2> QED
    BY <1>1, <1>2, WFMin
<1>4. m \in Nat /\ m \notin S /\ m # 0
  OBVIOUS
<1>5. m - 1 \in Nat /\ (m - 1) + 1 = m /\ m - 1 < m
  BY <1>4
<1>6. <<m - 1, m>> \in OpToRel(<, Nat)
  BY <1>4, <1>5 DEF OpToRel
<1>7. m - 1 \in T
  BY <1>4, <1>5
<1> QED
  BY <1>3, <1>6, <1>7, Zenon

Grown(set, rel) == set \cup {r[2] : r \in {s \in rel : s[1] \in set}}

(* The function LeadsTo is defined by, up to any number of steps.          *)
Within(seed, rel, n, f) ==
  f = [k \in 0 .. n |-> IF k = 0 THEN seed ELSE Grown(f[k - 1], rel)]

LEMMA WithinExists ==
  ASSUME NEW seed, NEW rel, NEW n \in Nat
  PROVE  \E f : Within(seed, rel, n, f)
<1> DEFINE S == {m \in Nat : \E f : Within(seed, rel, m, f)}
<1>1. 0 \in S
  <2>1. Within(seed, rel, 0, [k \in 0 .. 0 |-> seed])
    BY DEF Within
  <2> QED
    BY <2>1
<1>2. ASSUME NEW m \in Nat, m \in S PROVE m + 1 \in S
  <2>1. PICK f : Within(seed, rel, m, f)
    BY <1>2
  <2> DEFINE g == [k \in 0 .. (m + 1) |-> IF k = 0 THEN seed ELSE Grown(f[k - 1], rel)]
  <2>2. ASSUME NEW k \in 0 .. m PROVE g[k] = f[k]
    BY <2>1, k \in 0 .. (m + 1) DEF Within
  <2>3. ASSUME NEW k \in 0 .. (m + 1), k # 0 PROVE g[k - 1] = f[k - 1]
    BY <2>2, <2>3, k - 1 \in 0 .. m
  <2>4. Within(seed, rel, m + 1, g)
    <3>1. \A k \in 0 .. (m + 1) : (IF k = 0 THEN seed ELSE Grown(f[k - 1], rel))
                                    = (IF k = 0 THEN seed ELSE Grown(g[k - 1], rel))
      <4> HIDE DEF g
      <4> QED
        BY <2>3
    <3> DEFINE h == [k \in 0 .. (m + 1) |-> IF k = 0 THEN seed ELSE Grown(g[k - 1], rel)]
    <3>2. g = h
      BY <3>1
    <3> HIDE DEF g
    <3> QED
      BY <3>2 DEF Within
  <2> QED
    BY <2>4
<1> HIDE DEF S
<1>3. Nat \subseteq S
  BY <1>1, <1>2, SetInduction
<1> QED
  BY <1>3 DEF S

LEMMA LeadsToWithin ==
  ASSUME NEW seed, NEW rel, IsFiniteSet(rel)
  PROVE  \E f : /\ Within(seed, rel, Cardinality(rel), f)
                /\ LeadsTo(seed, rel) = f[Cardinality(rel)]
<1> DEFINE n == Cardinality(rel)
           within == CHOOSE f : Within(seed, rel, n, f)
<1>1. n \in Nat
  BY FS_CardinalityType
<1>2. Within(seed, rel, n, within)
  BY <1>1, WithinExists, Zenon
<1>3. LeadsTo(seed, rel) = within[n]
  BY DEF LeadsTo, Within, Grown
<1> QED
  BY <1>2, <1>3

LEMMA WithinSteps ==
  ASSUME NEW seed, NEW rel, NEW n \in Nat, NEW f, Within(seed, rel, n, f)
  PROVE  /\ f[0] = seed
         /\ \A k \in Nat : k < n => f[k + 1] = Grown(f[k], rel)
<1>1. f[0] = seed
  BY 0 \in 0 .. n DEF Within
<1>2. ASSUME NEW k \in Nat, k < n PROVE f[k + 1] = Grown(f[k], rel)
  <2>1. k + 1 \in 0 .. n /\ k + 1 # 0 /\ (k + 1) - 1 = k
    BY <1>2
  <2>2. f[k + 1] = Grown(f[(k + 1) - 1], rel)
    BY <2>1 DEF Within
  <2> QED
    BY <2>1, <2>2
<1> QED
  BY <1>1, <1>2

LEMMA LeadsToLeast ==
  ASSUME NEW seed, NEW rel, IsFiniteSet(rel), NEW T, seed \subseteq T,
         \A r \in rel : r[1] \in T => r[2] \in T
  PROVE  LeadsTo(seed, rel) \subseteq T
<1> DEFINE n == Cardinality(rel)
<1>1. n \in Nat
  BY FS_CardinalityType
<1>2. PICK f : Within(seed, rel, n, f) /\ LeadsTo(seed, rel) = f[n]
  BY LeadsToWithin
<1> HIDE DEF n
<1>3. f[0] = seed /\ \A k \in Nat : k < n => f[k + 1] = Grown(f[k], rel)
  BY <1>1, <1>2, WithinSteps
<1> DEFINE S == {k \in Nat : k <= n => f[k] \subseteq T}
<1>4. 0 \in S
  BY <1>3
<1>5. ASSUME NEW k \in Nat, k \in S PROVE k + 1 \in S
  <2>1. SUFFICES ASSUME k + 1 <= n PROVE f[k + 1] \subseteq T
    BY <1>5
  <2>2. f[k] \subseteq T /\ k < n
    BY <1>1, <1>5, <2>1
  <2> QED
    BY <1>3, <2>2 DEF Grown
<1> HIDE DEF S
<1>6. Nat \subseteq S
  BY <1>4, <1>5, SetInduction
<1> QED
  BY <1>1, <1>2, <1>6 DEF S

(* As long as a step adds something, it uses a pair no step before it has  *)
(* used: after as many steps as there are pairs nothing is added.          *)
LEMMA LeadsToClosed ==
  ASSUME NEW seed, NEW rel, IsFiniteSet(rel)
  PROVE  /\ seed \subseteq LeadsTo(seed, rel)
         /\ \A r \in rel : r[1] \in LeadsTo(seed, rel) => r[2] \in LeadsTo(seed, rel)
<1> DEFINE n == Cardinality(rel)
<1>1. n \in Nat
  BY FS_CardinalityType
<1>2. PICK f : Within(seed, rel, n, f) /\ LeadsTo(seed, rel) = f[n]
  BY LeadsToWithin
<1>3. \A k \in Nat : k < n => f[k + 1] = Grown(f[k], rel)
  <2> HIDE DEF n
  <2> QED
    BY <1>1, <1>2, WithinSteps
<1>4. f[0] = seed
  <2> HIDE DEF n
  <2> QED
    BY <1>1, <1>2, WithinSteps
<1> DEFINE Used(k) == {r \in rel : r[1] \in f[k]}
           Closed(k) == \A r \in Used(k) : r[2] \in f[k]
           S == {k \in Nat : k <= n => /\ seed \subseteq f[k]
                                       /\ Closed(k) \/ Cardinality(Used(k)) >= k + 1}
<1>5. ASSUME NEW k PROVE /\ IsFiniteSet(Used(k)) /\ Cardinality(Used(k)) \in Nat
                         /\ Cardinality(Used(k)) <= n
  <2>1. Used(k) \in SUBSET rel
    OBVIOUS
  <2> HIDE DEF Used
  <2> QED
    BY <2>1, FS_Subset, FS_CardinalityType
<1>6. 0 \in S
  <2>1. CASE Used(0) = {}
    BY <2>1, <1>4
  <2>2. CASE Used(0) # {}
    <3>1. Cardinality(Used(0)) >= 0 + 1
      <4> HIDE DEF Used
      <4>1. Cardinality(Used(0)) # 0 /\ Cardinality(Used(0)) \in Nat
        BY <1>5, <2>2, FS_EmptySet
      <4> QED
        BY <4>1
    <3> QED
      BY <3>1, <1>4
  <2> QED
    BY <2>1, <2>2
<1>7. ASSUME NEW k \in Nat, k \in S PROVE k + 1 \in S
  <2>1. SUFFICES ASSUME k + 1 <= n
                 PROVE  /\ seed \subseteq f[k + 1]
                        /\ Closed(k + 1) \/ Cardinality(Used(k + 1)) >= (k + 1) + 1
    BY <1>7
  <2>2. /\ f[k + 1] = Grown(f[k], rel) /\ seed \subseteq f[k]
        /\ Closed(k) \/ Cardinality(Used(k)) >= k + 1
    <3> HIDE DEF n, Used, Closed
    <3> QED
      BY <1>1, <1>3, <1>7, <2>1
  <2>3. f[k] \subseteq f[k + 1] /\ Used(k) \subseteq Used(k + 1)
        /\ \A r \in Used(k) : r[2] \in f[k + 1]
    BY <2>2 DEF Grown
  <2>4. CASE Closed(k)
    <3>1. f[k + 1] = f[k]
      BY <2>2, <2>4 DEF Grown
    <3> QED
      BY <2>2, <2>4, <3>1
  <2>5. CASE Closed(k + 1)
    BY <2>2, <2>3, <2>5
  <2>6. CASE ~Closed(k) /\ ~Closed(k + 1)
    <3>1. PICK r \in Used(k + 1) : r[2] \notin f[k + 1]
      BY <2>6
    <3>2. r \notin Used(k)
      BY <2>3, <3>1
    <3> HIDE DEF n, Used, Closed
    <3>3. Cardinality(Used(k) \cup {r}) = Cardinality(Used(k)) + 1
      BY <1>5, <3>2, FS_AddElement
    <3>4. Used(k) \cup {r} \in SUBSET Used(k + 1)
      BY <2>3, <3>1
    <3>5. Cardinality(Used(k) \cup {r}) <= Cardinality(Used(k + 1))
      BY <1>5, <3>4, FS_Subset
    <3> QED
      BY <1>5, <2>2, <2>3, <2>6, <3>3, <3>5
  <2> QED
    BY <2>4, <2>5, <2>6
<1>8. Nat \subseteq S
  <2> HIDE DEF S
  <2> QED
    BY <1>6, <1>7, SetInduction
<1>9. seed \subseteq f[n] /\ (Closed(n) \/ Cardinality(Used(n)) >= n + 1)
  <2> HIDE DEF n, Used, Closed
  <2> QED
    BY <1>1, <1>8
<1>10. Closed(n)
  <2> HIDE DEF n, Used, Closed
  <2> QED
    BY <1>1, <1>5, <1>9
<1> QED
  BY <1>2, <1>9, <1>10

-----------------------------------------------------------------------------
(* The tree.  Every file hangs on the repository, every module on its file *)
(* and every symbol on its module, by an edge that is never taken away     *)
(* from a node that stays.                                                 *)

InTree(n) == n.kind \in {"file", "module", "symbol"}

ParentLink(n) ==
  Link("contains",
       IF n.kind = "file" THEN Repository
       ELSE IF n.kind = "module" THEN FileNode(n.path) ELSE ModuleNode(n.path),
       n,
       IF n.kind = "symbol" THEN n.path ELSE NoPath)

Tree(g) == \A n \in NodesOf(g) : InTree(n) => n.path \in Files /\ ParentLink(n) \in EdgesOf(g)

LEMMA AnalyzedTree ==
  ASSUME NEW d \in [Files -> Bodies \cup {Broken, Absent}], NEW c
  PROVE  Tree(Analyzed(d, c)) /\ Repository \in NodesOf(Analyzed(d, c))
<1>1. /\ NodesOf(Analyzed(d, c)) = AnalyzedNodes(d)
      /\ EdgesOf(Analyzed(d, c)) = AnalyzedEdges(d)
  BY DEF NodesOf, EdgesOf, Analyzed
<1>2. ASSUME NEW p \in Present(d)
      PROVE  /\ p \in Files
             /\ ParentLink(FileNode(p)) \in AnalyzedEdges(d)
             /\ ParentLink(ModuleNode(p)) \in AnalyzedEdges(d)
             /\ FileNode(p).path = p /\ ModuleNode(p).path = p
  <2>1. ParentLink(FileNode(p)) = Link("contains", Repository, FileNode(p), NoPath)
    BY DEF ParentLink, FileNode, Node
  <2>2. ParentLink(ModuleNode(p)) = Link("contains", FileNode(p), ModuleNode(p), NoPath)
    BY DEF ParentLink, ModuleNode, Node
  <2> QED
    BY <2>1, <2>2 DEF AnalyzedEdges, Present, FileNode, ModuleNode, Node
<1>3. ASSUME NEW p \in Files, NEW s \in Defines(d, p)
      PROVE  ParentLink(SymbolNode(p, s)) \in AnalyzedEdges(d) /\ SymbolNode(p, s).path = p
  <2>1. ParentLink(SymbolNode(p, s)) = Link("contains", ModuleNode(p), SymbolNode(p, s), p)
    BY DEF ParentLink, SymbolNode, Node
  <2> QED
    BY <2>1 DEF AnalyzedEdges, SymbolNode, Node
<1>4. ASSUME NEW n \in AnalyzedNodes(d), InTree(n)
      PROVE  \/ \E p \in Present(d) : n = FileNode(p) \/ n = ModuleNode(p)
             \/ \E p \in Files : \E s \in Defines(d, p) : n = SymbolNode(p, s)
  <2>1. CASE n = Repository
    BY <2>1, <1>4 DEF InTree, Repository, Node
  <2>2. ASSUME NEW p \in Files, NEW i \in Imports(d, p), n = Target(d, p, i[1], i[2])
        PROVE  \/ \E q \in Present(d) : n = ModuleNode(q)
               \/ \E q \in Files : \E s \in Defines(d, q) : n = SymbolNode(q, s)
    <3> DEFINE m == i[1]
               s == i[2]
    <3>1. CASE m \notin Present(d)
      <4>1. n = Node("external", NoPath, <<m, s>>)
        BY <2>2, <3>1 DEF Target
      <4> QED
        BY <4>1, <1>4 DEF InTree, Node
    <3>2. CASE m \in Present(d) /\ s = NoName
      <4>1. s \notin Defines(d, m)
        BY <3>2, HistoryAssumption DEF HistoryAssumption, Defines, Parsed, Present
      <4>2. n = ModuleNode(m)
        BY <2>2, <3>2, <4>1 DEF Target
      <4> QED
        BY <3>2, <4>2
    <3>3. CASE m \in Present(d) /\ s # NoName /\ s \in Defines(d, m)
      <4>1. n = SymbolNode(m, s)
        BY <2>2, <3>3 DEF Target
      <4> QED
        BY <3>3, <4>1 DEF Present
    <3>4. CASE m \in Present(d) /\ s # NoName /\ s \notin Defines(d, m)
      <4>1. n = Node("unresolved", p, <<m, s>>)
        BY <2>2, <3>4 DEF Target
      <4> QED
        BY <4>1, <1>4 DEF InTree, Node
    <3> QED
      BY <3>1, <3>2, <3>3, <3>4
  <2> QED
    BY <2>1, <2>2, <1>4 DEF AnalyzedNodes
<1>5. ASSUME NEW n \in AnalyzedNodes(d), InTree(n)
      PROVE  n.path \in Files /\ ParentLink(n) \in AnalyzedEdges(d)
  BY <1>2, <1>3, <1>4, <1>5
<1> QED
  BY <1>1, <1>5 DEF Tree, AnalyzedNodes

LEMMA MergedTree ==
  ASSUME NEW fresh, NEW last, fresh.broken \subseteq Files,
         Repository \in NodesOf(fresh), Tree(fresh), Tree(last), NoDangling(last)
  PROVE  Tree(PreservingParseErrorsFrom(fresh, last))
<1> DEFINE merged == PreservingParseErrorsFrom(fresh, last)
<1>1. CASE fresh.broken = {}
  BY <1>1 DEF PreservingParseErrorsFrom
<1>2. CASE fresh.broken # {}
  <2>1. /\ NodesOf(merged) = (NodesOf(fresh) \ ReplacedNodes(fresh)) \cup StaleNodes(fresh, last)
        /\ EdgesOf(merged) = SurvivingEdges(fresh) \cup RestoredEdges(fresh, last)
        /\ DOMAIN MergedNodes(fresh, last) = NodesOf(merged)
    BY <1>2 DEF PreservingParseErrorsFrom, NodesOf, EdgesOf, MergedNodes, MergedEdges
  <2>2. NoPath \notin fresh.broken
    BY HistoryAssumption DEF HistoryAssumption
  <2>3. Repository \in NodesOf(merged) /\ Repository.path = NoPath
    BY <2>1, <2>2 DEF Repository, Node, ReplacedNodes
  <2> HIDE DEF merged
  <2>4. SUFFICES ASSUME NEW n \in NodesOf(merged), InTree(n)
                 PROVE  n.path \in Files /\ ParentLink(n) \in EdgesOf(merged)
    BY DEF Tree, merged
  <2> DEFINE link == ParentLink(n)
  <2>5. /\ link.target = n /\ link.path \in {NoPath, n.path}
        /\ link.source = Repository \/ link.source.path = n.path
    BY DEF ParentLink, Link, FileNode, ModuleNode, Node
  <2>6. CASE n \in StaleNodes(fresh, last)
    <3>1. n \in NodesOf(last) /\ n.path \in fresh.broken
      BY <2>6 DEF StaleNodes
    <3>2. n.path \in Files /\ link \in EdgesOf(last)
      BY <2>4, <3>1 DEF Tree
    <3>3. link.source \in NodesOf(last)
      BY <3>2 DEF NoDangling
    <3>4. link.source \in NodesOf(merged)
      BY <2>1, <2>3, <2>5, <3>1, <3>3 DEF StaleNodes
    <3>5. link \in RestoredEdges(fresh, last)
      BY <2>1, <2>4, <2>5, <2>6, <3>2, <3>4 DEF RestoredEdges
    <3> QED
      BY <2>1, <3>2, <3>5
  <2>7. CASE n \notin StaleNodes(fresh, last)
    <3>1. n \in NodesOf(fresh) /\ n.path \notin fresh.broken
      BY <2>1, <2>4, <2>7 DEF ReplacedNodes
    <3>2. n.path \in Files /\ link \in EdgesOf(fresh)
      BY <2>4, <3>1 DEF Tree
    <3>3. link \in SurvivingEdges(fresh)
      BY <2>2, <2>3, <2>5, <3>1, <3>2 DEF SurvivingEdges, ReplacedNodes
    <3> QED
      BY <2>1, <3>2, <3>3
  <2> QED
    BY <2>6, <2>7
<1> QED
  BY <1>1, <1>2

-----------------------------------------------------------------------------
(* A graph has finitely many edges of the tree: an analysis finds finitely *)
(* many, and a merge adds none that neither of its graphs has.             *)

LEMMA ImageFinite ==
  ASSUME NEW S, IsFiniteSet(S), NEW f, DOMAIN f = S
  PROVE  IsFiniteSet({f[x] : x \in S})
<1> DEFINE T == {f[x] : x \in S}
           g == [x \in S |-> f[x]]
<1>1. g \in Surjection(S, T)
  BY DEF Surjection
<1> QED
  BY <1>1, FS_Surjection

LEMMA AnalyzedFinite ==
  ASSUME NEW d \in [Files -> Bodies \cup {Broken, Absent}], NEW c
  PROVE  IsFiniteSet(ParentOf(Analyzed(d, c)))
<1> DEFINE files == [p \in Files |-> <<FileNode(p), Repository>>]
           modules == [p \in Files |-> <<ModuleNode(p), FileNode(p)>>]
           symbols == [p \in Files |-> {<<SymbolNode(p, s), ModuleNode(p)>> : s \in Defines(d, p)}]
           Pairs == {files[p] : p \in Files} \cup {modules[p] : p \in Files}
                        \cup UNION {symbols[p] : p \in Files}
<1>1. IsFiniteSet(Files)
  BY HistoryAssumption DEF HistoryAssumption
<1>2. ASSUME NEW p \in Files PROVE IsFiniteSet(symbols[p])
  <2>1. IsFiniteSet(Defines(d, p))
    <3>1. CASE p \in Parsed(d)
      <4>1. d[p] \in Bodies /\ Defines(d, p) = d[p].defines
        BY <3>1 DEF Parsed, Present, Defines
      <4> QED
        BY <4>1, HistoryAssumption DEF HistoryAssumption
    <3>2. CASE p \notin Parsed(d)
      BY <3>2, FS_EmptySet DEF Defines
    <3> QED
      BY <3>1, <3>2
  <2> DEFINE f == [s \in Defines(d, p) |-> <<SymbolNode(p, s), ModuleNode(p)>>]
  <2>2. DOMAIN f = Defines(d, p)
    OBVIOUS
  <2>3. symbols[p] = {f[s] : s \in Defines(d, p)}
    OBVIOUS
  <2> HIDE DEF f, symbols
  <2> QED
    BY <2>1, <2>2, <2>3, ImageFinite
<1>3. IsFiniteSet(Pairs)
  <2>1. DOMAIN files = Files /\ DOMAIN modules = Files /\ DOMAIN symbols = Files
    OBVIOUS
  <2> HIDE DEF files, modules, symbols
  <2>2. /\ IsFiniteSet({files[p] : p \in Files}) /\ IsFiniteSet({modules[p] : p \in Files})
        /\ IsFiniteSet({symbols[p] : p \in Files})
    BY <1>1, <2>1, ImageFinite
  <2>3. IsFiniteSet(UNION {symbols[p] : p \in Files})
    BY <1>2, <2>2, FS_UNION
  <2> QED
    BY <2>2, <2>3, FS_Union
<1>4. ParentOf(Analyzed(d, c)) \subseteq Pairs
  <2>1. ParentOf(Analyzed(d, c)) =
           {<<e.target, e.source>> : e \in {l \in AnalyzedEdges(d) : l.kind = "contains"}}
    BY DEF ParentOf, EdgesOf, Analyzed
  <2>2. ASSUME NEW e \in AnalyzedEdges(d), e.kind = "contains"
        PROVE  <<e.target, e.source>> \in Pairs
    <3>1. ASSUME NEW p \in Present(d), e = Link("contains", Repository, FileNode(p), NoPath)
          PROVE  <<e.target, e.source>> \in Pairs
      <4>1. p \in Files /\ <<e.target, e.source>> = files[p]
        BY <3>1 DEF Link, Present
      <4> QED
        BY <4>1
    <3>2. ASSUME NEW p \in Present(d), e = Link("contains", FileNode(p), ModuleNode(p), NoPath)
          PROVE  <<e.target, e.source>> \in Pairs
      <4>1. p \in Files /\ <<e.target, e.source>> = modules[p]
        BY <3>2 DEF Link, Present
      <4> QED
        BY <4>1
    <3>3. ASSUME NEW p \in Files, NEW s \in Defines(d, p),
                 e = Link("contains", ModuleNode(p), SymbolNode(p, s), p)
          PROVE  <<e.target, e.source>> \in Pairs
      <4>1. <<e.target, e.source>> = <<SymbolNode(p, s), ModuleNode(p)>>
        BY <3>3 DEF Link
      <4>2. <<e.target, e.source>> \in symbols[p]
        BY <4>1
      <4> QED
        BY <4>2
    <3>4. ASSUME NEW p \in Files, NEW i \in Imports(d, p),
                 e = Link("imports", ModuleNode(p), Target(d, p, i[1], i[2]), p)
          PROVE  FALSE
      BY <2>2, <3>4 DEF Link
    <3> HIDE DEF Pairs
    <3> QED
      BY <2>2, <3>1, <3>2, <3>3, <3>4 DEF AnalyzedEdges
  <2> QED
    BY <2>1, <2>2
<1> HIDE DEF Pairs
<1> QED
  BY <1>3, <1>4, FS_Subset

LEMMA MergedFinite ==
  ASSUME NEW fresh, NEW last, IsFiniteSet(ParentOf(fresh)), IsFiniteSet(ParentOf(last))
  PROVE  IsFiniteSet(ParentOf(PreservingParseErrorsFrom(fresh, last)))
<1> DEFINE merged == PreservingParseErrorsFrom(fresh, last)
<1>1. EdgesOf(merged) \subseteq EdgesOf(fresh) \cup EdgesOf(last)
  BY DEF PreservingParseErrorsFrom, EdgesOf, MergedEdges, SurvivingEdges, RestoredEdges
<1>2. ParentOf(merged) \in SUBSET (ParentOf(fresh) \cup ParentOf(last))
  <2> HIDE DEF merged
  <2> QED
    BY <1>1 DEF ParentOf
<1>3. IsFiniteSet(ParentOf(fresh) \cup ParentOf(last))
  BY FS_Union
<1> QED
  BY <1>2, <1>3, FS_Subset

-----------------------------------------------------------------------------
TreeInv ==
  /\ NoDangling(graph) /\ ReachableKnown(graph)
  /\ Tree(graph) /\ IsFiniteSet(ParentOf(graph))

LEMMA TreeInit == HistoryInit => TreeInv
<1> SUFFICES ASSUME HistoryInit PROVE TreeInv
  OBVIOUS
<1>1. NodesOf(graph) = {} /\ EdgesOf(graph) = {} /\ graph.reachable = {}
  BY DEF HistoryInit, EmptyGraph, NodesOf, EdgesOf
<1>2. ParentOf(graph) = {}
  BY <1>1 DEF ParentOf
<1> QED
  BY <1>1, <1>2, FS_EmptySet DEF TreeInv, NoDangling, ReachableKnown, Tree

LEMMA TreeStep ==
  ASSUME HistoryInv, TreeInv, [HistoryNext]_vars
  PROVE  TreeInv'
<1> DEFINE fresh == Analyzed(disk, entry)
<1>1. CASE Publish
  <2>1. /\ graph' = Imported(fresh) /\ NoDangling(Imported(fresh)) /\ Importable(fresh)
    BY <1>1 DEF Publish
  <2>2. disk \in [Files -> Bodies \cup {Broken, Absent}]
    BY DEF HistoryInv, HistoryTypeOK
  <2>3. /\ fresh.broken \subseteq Files /\ Tree(fresh) /\ Repository \in NodesOf(fresh)
        /\ IsFiniteSet(ParentOf(fresh))
    BY <2>2, AnalyzedShape, AnalyzedTree, AnalyzedFinite
  <2> HIDE DEF fresh
  <2>4. /\ ReachableKnown(Imported(fresh)) /\ Tree(Imported(fresh))
        /\ IsFiniteSet(ParentOf(Imported(fresh)))
    <3>1. CASE indexed
      BY <3>1, <2>1, <2>3, MergeIsWhole, MergedTree, MergedFinite DEF Imported, TreeInv
    <3>2. CASE ~indexed
      BY <3>2, <2>1, <2>3 DEF Imported, Importable
    <3> QED
      BY <3>1, <3>2
  <2> QED
    BY <2>1, <2>4 DEF TreeInv
<1>2. CASE graph' = graph
  BY <1>2 DEF TreeInv
<1> QED
  BY <1>1, <1>2 DEF HistoryNext, Configure, Edit, vars

(* Whatever files break, vanish and come back, and however old their facts *)
(* are, the browser's tree reaches the repository from every file, module  *)
(* and symbol of a published graph, and the entry view selects no node     *)
(* that is not there (Graph.cpp:347-364, 584-588).                         *)
THEOREM EverythingHangsTogether == HistorySpec => []EverythingContained
<1>1. HistorySpec => []TreeInv
  BY TreeInit, TreeStep, HistoryInvariant, PTL DEF HistorySpec
<1>2. ASSUME TreeInv PROVE EverythingContained
  <2> DEFINE rel == ParentOf(graph)
  <2>1. IsFiniteSet(rel) /\ Tree(graph) /\ NoDangling(graph) /\ ReachableKnown(graph)
    BY <1>2 DEF TreeInv
  <2>2. \A n \in NodesOf(graph) : InTree(n) =>
            /\ ParentLink(n).source \in NodesOf(graph)
            /\ <<n, ParentLink(n).source>> \in rel
    <3>1. SUFFICES ASSUME NEW n \in NodesOf(graph), InTree(n)
                   PROVE  /\ ParentLink(n).source \in NodesOf(graph)
                          /\ <<n, ParentLink(n).source>> \in rel
      OBVIOUS
    <3>2. ParentLink(n) \in EdgesOf(graph)
      BY <2>1, <3>1 DEF Tree
    <3>3. ParentLink(n).kind = "contains" /\ ParentLink(n).target = n
      BY DEF ParentLink, Link
    <3> QED
      BY <2>1, <3>2, <3>3 DEF ParentOf, NoDangling
  <2>3. ASSUME NEW n \in NodesOf(graph), InTree(n)
        PROVE  Repository \in LeadsTo({n}, rel)
    <3> DEFINE up == LeadsTo({n}, rel)
    <3>1. n \in up /\ \A r \in rel : r[1] \in up => r[2] \in up
      BY <2>1, LeadsToClosed
    <3> SUFFICES Repository \in up
      OBVIOUS
    <3> HIDE DEF up, rel
    <3>2. \A m \in NodesOf(graph) \cap up : InTree(m) => ParentLink(m).source \in NodesOf(graph) \cap up
      BY <2>2, <3>1
    <3>3. \A m \in NodesOf(graph) \cap up : m.kind = "file" => Repository \in up
      BY <3>2 DEF InTree, ParentLink, Link
    <3>4. \A m \in NodesOf(graph) \cap up : m.kind = "module" => Repository \in up
      <4>1. SUFFICES ASSUME NEW m \in NodesOf(graph) \cap up, m.kind = "module"
                     PROVE  Repository \in up
        OBVIOUS
      <4>2. ParentLink(m).source = FileNode(m.path) /\ FileNode(m.path).kind = "file"
        BY <4>1 DEF ParentLink, Link, FileNode, Node
      <4> QED
        BY <3>2, <3>3, <4>1, <4>2 DEF InTree
    <3>5. CASE n.kind = "symbol"
      <4>1. ParentLink(n).source = ModuleNode(n.path) /\ ModuleNode(n.path).kind = "module"
        BY <3>5 DEF ParentLink, Link, ModuleNode, Node
      <4> QED
        BY <2>3, <3>1, <3>2, <3>4, <4>1
    <3> QED
      BY <2>3, <3>1, <3>3, <3>4, <3>5 DEF InTree
  <2>4. LeadsTo(graph.reachable, rel) \subseteq NodesOf(graph)
    <3>1. \A r \in rel : r[2] \in NodesOf(graph)
      BY <2>1 DEF ParentOf, NoDangling
    <3> HIDE DEF rel
    <3> QED
      BY <2>1, <3>1, LeadsToLeast DEF ReachableKnown
  <2> QED
    BY <2>3, <2>4 DEF EverythingContained, EntryView, InTree
<1> QED
  BY <1>1, <1>2, PTL
=============================================================================
