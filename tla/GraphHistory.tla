---------------------------- MODULE GraphHistory ----------------------------
(***************************************************************************)
(* Generation after generation of a repository whose files come to parse,  *)
(* cease to parse, appear and disappear: what each published graph shows,  *)
(* and where its facts come from.                                          *)
(*                                                                         *)
(* The analyzer is reduced to definitions and imports, at module level and *)
(* in one directory; a run reads the whole repository at once (what        *)
(* happens when it does not is in AnalyzerRunner).                         *)
(***************************************************************************)
EXTENDS GraphSnapshot

CONSTANTS
    MainFile,    \* main.py in the root of the repository
    Outside,     \* modules that no file of the repository defines
    Symbols,     \* what a module may define
    Bodies,      \* what a file that parses may hold
    Broken,      \* the content of a file that does not parse
    Absent,      \* the content of a path with no file
    NoEntry,     \* the configuration that names no entry
    Entries      \* the configured entries: a file, and a symbol of it or NoName

ASSUME HistoryAssumption ==
    /\ MainFile \in Files
    /\ NoPath \notin Files /\ NoName \notin Symbols /\ IsFiniteSet(Files)
    /\ \A b \in Bodies :
        /\ b.defines \subseteq Symbols /\ IsFiniteSet(b.defines)
        /\ b.imports \subseteq ((Files \cup Outside) \X (Symbols \cup {NoName}))
        /\ b.guarded \in BOOLEAN
    /\ Broken \notin Bodies /\ Absent \notin Bodies /\ Broken # Absent
    /\ \A e \in Entries : e = NoEntry \/ e \in [file : Files, symbol : Symbols \cup {NoName}]

VARIABLES
    disk,     \* what every path holds
    entry,    \* the entry the configuration names
    indexed,  \* whether a generation has been published
    graph,    \* the graph of the last generation
    lastGood  \* ghost: the facts of every file when it was last read

vars == <<disk, entry, indexed, graph, lastGood>>

-----------------------------------------------------------------------------
(* The analyzer.                                                           *)

Present(d) == {p \in Files : d[p] # Absent}
Parsed(d) == {p \in Present(d) : d[p] # Broken}
Defines(d, p) == IF p \in Parsed(d) THEN d[p].defines ELSE {}
Imports(d, p) == IF p \in Parsed(d) THEN d[p].imports ELSE {}

FileNode(p) == Node("file", p, NoName)
ModuleNode(p) == Node("module", p, NoName)
SymbolNode(p, s) == Node("symbol", p, s)

(* resolve_absolute, for "import m" (no name) and "from m import s".       *)
Target(d, p, m, s) ==
    CASE m \notin Present(d) -> Node("external", NoPath, <<m, s>>)
      [] m \in Present(d) /\ s = NoName -> ModuleNode(m)
      [] m \in Present(d) /\ s \in Defines(d, m) -> SymbolNode(m, s)
      [] OTHER -> Node("unresolved", p, <<m, s>>)

AnalyzedNodes(d) ==
    {Repository}
        \cup {FileNode(p) : p \in Present(d)}
        \cup {ModuleNode(p) : p \in Present(d)}
        \cup (UNION {{SymbolNode(p, s) : s \in Defines(d, p)} : p \in Files})
        \cup (UNION {{Target(d, p, i[1], i[2]) : i \in Imports(d, p)} : p \in Files})

AnalyzedEdges(d) ==
    {Link("contains", Repository, FileNode(p), NoPath) : p \in Present(d)}
        \cup {Link("contains", FileNode(p), ModuleNode(p), NoPath) : p \in Present(d)}
        \cup (UNION {{Link("contains", ModuleNode(p), SymbolNode(p, s), p)
                        : s \in Defines(d, p)} : p \in Files})
        \cup (UNION {{Link("imports", ModuleNode(p), Target(d, p, i[1], i[2]), p)
                        : i \in Imports(d, p)} : p \in Files})

(* resolve_entry: the configured file, else main.py, else the only file    *)
(* with a main guard.  (A single __main__.py, tried between the two, is    *)
(* left out.)                                                              *)
GuardedFiles(d) == {p \in Parsed(d) : d[p].guarded}

EntryFile(d, c) ==
    CASE c # NoEntry -> c.file
      [] c = NoEntry /\ MainFile \in Present(d) -> MainFile
      [] c = NoEntry /\ MainFile \notin Present(d) /\ Cardinality(GuardedFiles(d)) = 1
            -> CHOOSE p \in Files : GuardedFiles(d) = {p}
      [] OTHER -> NoPath

EntryNode(d, c) ==
    CASE EntryFile(d, c) = NoPath -> NoNode
      [] c # NoEntry /\ c.symbol # NoName -> SymbolNode(c.file, c.symbol)
      [] OTHER -> ModuleNode(EntryFile(d, c))

(* An entry file that is not there, or an entry symbol it does not define, *)
(* ends the analyzer with an error.                                        *)
AnalysisFails(d, c) ==
    /\ c # NoEntry
    /\ \/ c.file \notin Present(d)
       \/ c.symbol # NoName /\ c.symbol \notin Defines(d, c.file)

(* _reachable_nodes: along every edge but containment, to the module of    *)
(* each node's path and to every module imported from; then upwards.       *)
Executes(d) ==
    {<<e.source, e.target>> : e \in {l \in AnalyzedEdges(d) : l.kind # "contains"}}
        \cup {<<n, ModuleNode(n.path)>> : n \in {m \in AnalyzedNodes(d) : m.path \in Files}}
        \cup (UNION {{<<ModuleNode(p), ModuleNode(i[1])>>
                        : i \in {j \in Imports(d, p) : j[1] \in Present(d)}} : p \in Files})

Contained(d) ==
    {<<e.target, e.source>> : e \in {l \in AnalyzedEdges(d) : l.kind = "contains"}}

EntryReachable(d, c) ==
    IF EntryNode(d, c) = NoNode
    THEN {}
    ELSE LeadsTo(LeadsTo({EntryNode(d, c)}, Executes(d)), Contained(d))

BodyAt(d, path) == IF path \in Files THEN d[path] ELSE NoPath

Analyzed(d, c) ==
    [nodes |-> [n \in AnalyzedNodes(d) |-> [body |-> BodyAt(d, n.path), stale |-> FALSE]],
     edges |-> [e \in AnalyzedEdges(d) |-> BodyAt(d, e.path)],
     entry |-> EntryNode(d, c),
     reachable |-> EntryReachable(d, c),
     broken |-> Present(d) \ Parsed(d)]

-----------------------------------------------------------------------------
(* Edits and generations.                                                  *)

Edit(p) ==
    /\ \E body \in Bodies \cup {Broken, Absent} : disk' = [disk EXCEPT ![p] = body]
    /\ UNCHANGED <<entry, indexed, graph, lastGood>>

Configure ==
    /\ entry' \in Entries
    /\ UNCHANGED <<disk, indexed, graph, lastGood>>

(* acceptResult merges only when there is a generation to merge with.      *)
Imported(fresh) == IF indexed THEN PreservingParseErrorsFrom(fresh, graph) ELSE fresh

FactsOf(g, p) == {<<n, g.nodes[n].body>> : n \in {m \in NodesOf(g) : m.path = p}}

(* The ghost: the facts of a file that does not parse are those it had.    *)
FactsToShow(fresh, p) ==
    IF indexed /\ p \in fresh.broken THEN lastGood[p] ELSE FactsOf(fresh, p)

(* A run that is accepted: its output is a graph, and merging does not     *)
(* throw.                                                                  *)
Publish ==
    LET fresh == Analyzed(disk, entry)
    IN  /\ ~AnalysisFails(disk, entry)
        /\ Importable(fresh)
        /\ NoDangling(Imported(fresh))
        /\ graph' = Imported(fresh)
        /\ indexed' = TRUE
        /\ lastGood' = [p \in Files |-> FactsToShow(fresh, p)]
        /\ UNCHANGED <<disk, entry>>

HistoryInit ==
    /\ disk \in [Files -> Bodies \cup {Broken, Absent}]
    /\ entry \in Entries
    /\ indexed = FALSE
    /\ graph = EmptyGraph
    /\ lastGood = [p \in Files |-> {}]

HistoryNext == Publish \/ Configure \/ \E p \in Files : Edit(p)

HistorySpec == HistoryInit /\ [][HistoryNext]_vars

-----------------------------------------------------------------------------
(* Properties.                                                             *)

(* Type invariant: the shapes of the variables.                            *)
HistoryTypeOK ==
    /\ disk \in [Files -> Bodies \cup {Broken, Absent}]
    /\ entry \in Entries
    /\ indexed \in BOOLEAN
    /\ DOMAIN graph = {"nodes", "edges", "entry", "reachable", "broken"}
    /\ \A n \in NodesOf(graph) : DOMAIN graph.nodes[n] = {"body", "stale"}
    /\ graph.broken \subseteq Files
    /\ DOMAIN lastGood = Files

(* One broken file never blocks the others: whatever the last graph holds, *)
(* keeping its facts gives a graph whose edges all have their ends and     *)
(* whose reachable nodes all exist, so that rebuildIndexes does not throw  *)
(* (Graph.cpp:327) and the generation is published.                        *)
MergeSucceeds ==
    LET fresh == Analyzed(disk, entry)
    IN  Importable(fresh) => /\ NoDangling(Imported(fresh))
                             /\ ReachableKnown(Imported(fresh))

(* Over any number of generations a file that does not parse shows the     *)
(* facts of the generation that last could read it, and every other file   *)
(* shows its own; a file that was deleted in between starts afresh.  Old   *)
(* facts are marked stale and nothing else is (Graph.cpp:570-582).         *)
FactsAreLastGood ==
    \A p \in Files :
        /\ FactsOf(graph, p) = lastGood[p]
        /\ \A n \in NodesOf(graph) : n.path = p =>
            /\ graph.nodes[n].stale => p \in graph.broken
            /\ p \in graph.broken /\ graph.nodes[n].body # Broken => graph.nodes[n].stale

(* What the analyzer found between two nodes that are not stale is         *)
(* published exactly: keeping old facts adds and removes no edge between   *)
(* files that parse (Graph.cpp:562-568, 584-588).                          *)
FreshEdgesPublished ==
    [][ graph' # graph =>
        LET fresh == Analyzed(disk, entry)
            Current(g, e) == e.source.path \notin g.broken /\ e.target.path \notin g.broken
        IN  /\ {e \in EdgesOf(graph') : Current(graph', e)}
                    = {e \in EdgesOf(fresh) : Current(fresh, e)}
            /\ \A e \in EdgesOf(graph') : Current(graph', e) => graph'.edges[e] = fresh.edges[e]
      ]_vars

(* Every file, module and symbol of a published graph, stale or not, hangs *)
(* below the repository by contains edges: the browser's tree and the      *)
(* entry view, which adds the containers of what it selects, reach the     *)
(* root, and it selects no node that is not there (Graph.cpp:347-364,      *)
(* 584-588).                                                               *)
EverythingContained ==
    /\ \A n \in NodesOf(graph) :
        n.kind \in {"file", "module", "symbol"} => Repository \in LeadsTo({n}, ParentOf(graph))
    /\ EntryView(graph) \subseteq NodesOf(graph)

(* What docs/TECHNICAL.md:296 says of every published graph and fromNdjson *)
(* demands of imported ones: the entry node exists and is reachable.       *)
EntryIsKnown == EntryKnown(graph)

(* What services/local-server/README.md:252-253 says of a file that does   *)
(* not parse: its nodes keep their edges.  An edge to another file may go  *)
(* with that file; here the other end is in the broken file too, or in no  *)
(* file at all.                                                            *)
IncidentEdgesKept ==
    [][ \A p \in graph'.broken, e \in EdgesOf(graph) :
            /\ graph' # graph
            /\ p \in {e.source.path, e.target.path}
            /\ {e.source.path, e.target.path} \subseteq {p, NoPath}
            => e \in EdgesOf(graph')
      ]_vars
=============================================================================
