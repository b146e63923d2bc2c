--------------------------- MODULE GraphSnapshot ---------------------------
(***************************************************************************)
(* The graph a generation holds (services/local-server/src/Graph.cpp), as  *)
(* the operations on it that change or select facts see it: importing the  *)
(* analyzer's output, keeping the last good facts of files that do not     *)
(* parse, and the views.                                                   *)
(*                                                                         *)
(* A graph is a record.  nodes maps the identity of every node (the source *)
(* hashes kind, qualified name and path) to its data: the body its facts   *)
(* were read from, and whether it is marked stale.  edges maps the         *)
(* identity of every edge to the body its evidence was read from.  broken  *)
(* is the set of paths with a PY_SYNTAX_ERROR diagnostic.                  *)
(***************************************************************************)
EXTENDS Naturals, FiniteSets

CONSTANTS
    Files,      \* the paths of Python files
    NoPath,     \* the path of a node or an edge that has none
    NoName,     \* the name of a node its kind and path identify
    NoNode      \* the entry node of a project that has none

Node(kind, path, name) == [kind |-> kind, path |-> path, name |-> name]
Link(kind, source, target, path) ==
    [kind |-> kind, source |-> source, target |-> target, path |-> path]

Repository == Node("repository", NoPath, NoName)

EmptyGraph ==
    [nodes |-> << >>, edges |-> << >>, entry |-> NoNode,
     reachable |-> {}, broken |-> {}]

NodesOf(g) == DOMAIN g.nodes
EdgesOf(g) == DOMAIN g.edges

-----------------------------------------------------------------------------
(* What is accepted as a graph.                                            *)

(* rebuildIndexes: it throws when an edge lacks one of its ends.           *)
NoDangling(g) == \A e \in EdgesOf(g) : {e.source, e.target} \subseteq NodesOf(g)

ReachableKnown(g) == g.reachable \subseteq NodesOf(g)

EntryKnown(g) == g.entry # NoNode => g.entry \in NodesOf(g) \cap g.reachable

(* fromNdjson, on output whose records have the right shape and order.     *)
Importable(g) == NoDangling(g) /\ ReachableKnown(g) /\ EntryKnown(g)

-----------------------------------------------------------------------------
(* preservingParseErrorsFrom, piece by piece.  The operands are the graph  *)
(* just imported and the one published last.                               *)

Stale(data) == [data EXCEPT !.stale = TRUE]

ReplacedNodes(fresh) == {n \in NodesOf(fresh) : n.path \in fresh.broken}

(* Mutant of SurvivingEdges: the ends of an edge are not looked at.        *)
MutantSurvivingEdges(fresh) ==
    {e \in EdgesOf(fresh) : e.path \notin fresh.broken}

SurvivingEdges(fresh) ==
    {e \in EdgesOf(fresh) :
        /\ e.path \notin fresh.broken
        /\ e.source \notin ReplacedNodes(fresh)
        /\ e.target \notin ReplacedNodes(fresh)}

(* Mutant of StaleNodes: a file that was broken already is not kept again. *)
MutantStaleNodes(fresh, last) ==
    {n \in NodesOf(last) : n.path \in fresh.broken \ last.broken}

StaleNodes(fresh, last) == {n \in NodesOf(last) : n.path \in fresh.broken}

MergedNodes(fresh, last) ==
    [n \in (NodesOf(fresh) \ ReplacedNodes(fresh)) \cup StaleNodes(fresh, last) |->
        IF n \in StaleNodes(fresh, last) THEN Stale(last.nodes[n]) ELSE fresh.nodes[n]]

(* Mutant of RestoredEdges: only edges found in the broken file itself.    *)
MutantOwnEdges(fresh, last) ==
    {e \in EdgesOf(last) :
        /\ e.path \in fresh.broken
        /\ {e.source, e.target} \subseteq DOMAIN MergedNodes(fresh, last)}

(* Mutant of RestoredEdges: every edge whose ends are still there.         *)
MutantAllEdges(fresh, last) ==
    {e \in EdgesOf(last) : {e.source, e.target} \subseteq DOMAIN MergedNodes(fresh, last)}

RestoredEdges(fresh, last) ==
    {e \in EdgesOf(last) :
        /\ \/ e.path \in fresh.broken
           \/ e.source \in StaleNodes(fresh, last)
           \/ e.target \in StaleNodes(fresh, last)
        /\ {e.source, e.target} \subseteq DOMAIN MergedNodes(fresh, last)}

MergedEdges(fresh, last) ==
    [e \in SurvivingEdges(fresh) \cup RestoredEdges(fresh, last) |->
        IF e \in RestoredEdges(fresh, last) THEN last.edges[e] ELSE fresh.edges[e]]

(* The entry node of the last graph takes the place of one that is gone,   *)
(* whether or not it is itself in the merged graph.                        *)
MergedEntry(fresh, last) ==
    IF fresh.entry = NoNode \/ fresh.entry \in DOMAIN MergedNodes(fresh, last)
    THEN fresh.entry
    ELSE last.entry

PreservingParseErrorsFrom(fresh, last) ==
    IF fresh.broken = {}
    THEN fresh
    ELSE [nodes |-> MergedNodes(fresh, last),
          edges |-> MergedEdges(fresh, last),
          entry |-> MergedEntry(fresh, last),
          reachable |-> (fresh.reachable \cup last.reachable)
                            \cap DOMAIN MergedNodes(fresh, last),
          broken |-> fresh.broken]

-----------------------------------------------------------------------------
(* Closures and views.                                                     *)

(* What the pairs of rel lead to from seed, in any number of steps.        *)
LeadsTo(seed, rel) ==
    LET within[k \in 0 .. Cardinality(rel)] ==
            IF k = 0 THEN seed
            ELSE LET nearer == within[k - 1]
                 IN  nearer \cup {r[2] : r \in {s \in rel : s[1] \in nearer}}
    IN  within[Cardinality(rel)]

ParentOf(g) == {<<e.target, e.source>> : e \in {d \in EdgesOf(g) : d.kind = "contains"}}

(* view("entry"): the reachable nodes and everything that contains them.   *)
EntryView(g) == LeadsTo(g.reachable, ParentOf(g))
=============================================================================
