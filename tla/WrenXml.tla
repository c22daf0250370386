------------------------------- MODULE WrenXml --------------------------------
(***************************************************************************)
(* XML documents in the hands of Wren scripts (tweaker/wrenxml.cpp).  A    *)
(* WXMLDocument owns a tree of mxml nodes and a map from those of its      *)
(* nodes that scripts have got hold of to their WXMLNodes.  Every object   *)
(* of the script class XML points to a WXMLNode, which counts them; a      *)
(* node's last object, when it is collected, takes it out of its           *)
(* document, and the last node of a document takes the document with it.   *)
(* Scripts move subtrees to documents of their own and graft documents     *)
(* into others, and close documents under the nodes they still hold.       *)
(*                                                                         *)
(* WXML_ERR raises an error in the script and lets the C++ function go on. *)
(* All of this runs under the lock of the virtual machine.                 *)
(***************************************************************************)
EXTENDS Naturals, FiniteSets

CONSTANTS Nodes, NoNode,   \* addresses of mxml nodes
          Docs, NoDoc,     \* addresses of WXMLDocuments
          Wraps, NoWrap,   \* addresses of WXMLNodes
          MaxUsages        \* bound: objects of one WXMLNode

ASSUME WrenXmlAssumption == /\ NoNode \notin Nodes
                            /\ NoDoc \notin Docs
                            /\ NoWrap \notin Wraps
                            /\ MaxUsages \in Nat \ {0}

VARIABLES
  tree, parent,      \* mxml nodes that exist, and their parents
  docs, root_node,   \* documents that exist, and their trees
  nodes,             \* their maps
  wraps,             \* WXMLNodes that exist
  root, handle, usages,
  game,              \* "running" or "crashed"
  misuse,            \* history: what scripts did that they should not
  abandoned          \* history: documents that lost their last node to another

treeVars == <<tree, parent>>
docVars  == <<docs, root_node, nodes>>
wrapVars == <<wraps, root, handle, usages>>
history  == <<misuse, abandoned>>
vars == <<treeVars, docVars, wrapVars, game, history>>

EmptyMap == [n \in Nodes |-> NoWrap]

Init == /\ tree = {}
        /\ parent = [n \in Nodes |-> NoNode]
        /\ docs = {}
        /\ root_node = [d \in Docs |-> NoNode]
        /\ nodes = [d \in Docs |-> EmptyMap]
        /\ wraps = {}
        /\ root = [w \in Wraps |-> NoDoc]
        /\ handle = [w \in Wraps |-> NoNode]
        /\ usages = [w \in Wraps |-> 0]
        /\ game = "running"
        /\ misuse = {}
        /\ abandoned = {}

Running == game = "running"

\* Whether mxmlGetParent leads from m up to n: every set that contains m and
\* the parents of its members contains n.
Below(m, n) == \A S \in SUBSET tree :
                 m \in S /\ (\A x \in S : parent[x] \in S \union {NoNode}) => n \in S

Subtree(n) == {m \in tree : Below(m, n)}

Siblings(n) == IF parent[n] = NoNode THEN {}
               ELSE {m \in tree \ {n} : parent[m] = parent[n]}

Children(n) == {m \in tree : parent[m] = n}

Mapped(d) == {n \in Nodes : nodes[d][n] # NoWrap}

\* w belongs to a document that is there, and that knows it.
Open(w) == /\ w \in wraps
           /\ root[w] \in docs
           /\ handle[w] \in tree
           /\ nodes[root[w]][handle[w]] = w

-----------------------------------------------------------------------------
(* WXMLDocument::GetNode and WXMLNode::Use, for a node of a document: its   *)
(* WXMLNode if there is one, and a new one if not.  theNodes is the map as  *)
(* the operation has left it so far.                                        *)

Wrapper(map, n) == IF map[n] = NoWrap THEN Wraps \ wraps ELSE {map[n]}

GetAndUse(d, n, map) ==
  \E w \in Wrapper(map, n) :
    /\ usages[w] < MaxUsages
    /\ wraps' = wraps \union {w}
    /\ root' = [root EXCEPT ![w] = d]
    /\ handle' = [handle EXCEPT ![w] = n]
    /\ usages' = [usages EXCEPT ![w] = @ + 1]
    /\ nodes' = [nodes EXCEPT ![d] = [map EXCEPT ![n] = w]]

\* A document for the tree below n, with an object for n.
NewDocument(d, n) ==
  /\ d \in Docs \ docs
  /\ docs' = docs \union {d}
  /\ root_node' = [root_node EXCEPT ![d] = n]
  /\ GetAndUse(d, n, EmptyMap)

\* XML.new and a try_parse that succeeds, of an element with or without a child.
Parse(d, n, child) ==
  /\ Running
  /\ n \notin tree /\ child \notin tree /\ child # n
  /\ tree' = tree \union ({n, child} \ {NoNode})
  /\ parent' = [m \in Nodes |-> IF m = child THEN n ELSE IF m = n THEN NoNode ELSE parent[m]]
  /\ NewDocument(d, n)
  /\ UNCHANGED <<game, history>>

\* A WXMLNode of no mxml node, with one object.
BareNode(w, d) ==
  /\ w \in Wraps \ wraps
  /\ wraps' = wraps \union {w}
  /\ root' = [root EXCEPT ![w] = d]
  /\ handle' = [handle EXCEPT ![w] = NoNode]
  /\ usages' = [usages EXCEPT ![w] = 1]
  /\ misuse' = misuse \union {"bad_xml"}
  /\ UNCHANGED <<treeVars, docVars, game, abandoned>>

\* try_parse of a text that is no XML: the document, taken for a WXMLNode with
\* the size of its map for its usages, is deleted; its WXMLNode still points to
\* it, and so does the object that is left to the collector.
TryParseFails(d, w) == Running /\ d \in Docs \ docs /\ BareNode(w, d)

\* XML.new and try_parse of an empty text, for which mxml has no tree and no
\* error.  The object stays, also when XML.new goes on to report one; nothing
\* but it knows its document without a tree, which ends with it, so that it is
\* as good as closed.
ParseEmpty(w) == Running /\ BareNode(w, NoDoc)

\* recursive_clone: copy is where each node below w's goes.
Clone(w, d, copy) ==
  LET old == Subtree(handle[w])
      new == {copy[m] : m \in old}
      original(m) == CHOOSE o \in old : copy[o] = m
  IN /\ Running
     /\ Open(w)
     /\ new \intersect tree = {}
     /\ tree' = tree \union new
     /\ parent' = [m \in Nodes |->
                     IF m \notin new THEN parent[m]
                     ELSE IF original(m) = handle[w] THEN NoNode
                     ELSE copy[parent[original(m)]]]
     /\ NewDocument(d, copy[handle[w]])
     /\ UNCHANGED <<game, history>>

CreateElement(w, n) ==
  /\ Running
  /\ Open(w)
  /\ n \notin tree
  /\ tree' = tree \union {n}
  /\ parent' = [parent EXCEPT ![n] = handle[w]]
  /\ GetAndUse(root[w], n, nodes[root[w]])
  /\ UNCHANGED <<docs, root_node, game, history>>

\* next, prev, parent, first_child, last_child.
Navigate(w) ==
  /\ Running
  /\ Open(w)
  /\ \E n \in Siblings(handle[w]) \union Children(handle[w]) \union ({parent[handle[w]]} \ {NoNode}) :
       GetAndUse(root[w], n, nodes[root[w]])
  /\ UNCHANGED <<treeVars, docs, root_node, game, history>>

-----------------------------------------------------------------------------
(* Moving subtrees. *)

\* Mutant of Moved: only the node itself, not what is below it.
MovedAlone(w) == {handle[w]}

\* Those of the nodes of w's document that go with w.
Moved(w) == Mapped(root[w]) \intersect Subtree(handle[w])

\* detach: MoveToNewDocument, of a node that has a parent.  The old document
\* stays, also when no node is left in its map.
Detach(w, d) ==
  LET old == root[w]
      gone == Moved(w)
  IN /\ Running
     /\ Open(w)
     /\ parent[handle[w]] # NoNode
     /\ d \in Docs \ docs
     /\ docs' = docs \union {d}
     /\ root_node' = [root_node EXCEPT ![d] = handle[w]]
     /\ nodes' = [nodes EXCEPT
                    ![old] = [n \in Nodes |-> IF n \in gone THEN NoWrap ELSE @[n]],
                    ![d] = [n \in Nodes |-> IF n \in gone THEN nodes[old][n] ELSE NoWrap]]
     /\ root' = [x \in Wraps |-> IF x \in {nodes[old][n] : n \in gone} THEN d ELSE root[x]]
     /\ parent' = [parent EXCEPT ![handle[w]] = NoNode]
     /\ abandoned' = IF Mapped(old) = gone THEN abandoned \union {old} ELSE abandoned
     /\ UNCHANGED <<tree, wraps, handle, usages, game, misuse>>

\* Mutant of Rehomed: the nodes keep their document.
RehomedNot(x, old, new) == root[x]

\* MergeInto, seen by a WXMLNode.
Rehomed(x, old, new) == IF x \in {nodes[old][n] : n \in Mapped(old)} THEN new ELSE root[x]

\* attach: MergeInto and the deletion of the document that was merged, which
\* by then owns no tree.  A document is merged into itself as well.
Attach(w, c) ==
  LET old == root[c]
      new == root[w]
  IN /\ Running
     /\ Open(w) /\ Open(c)
     /\ misuse' = misuse \union (IF parent[handle[c]] # NoNode THEN {"child_attached"} ELSE {})
                         \union (IF old = new THEN {"own_tree_attached"} ELSE {})
     /\ parent' = [parent EXCEPT ![handle[c]] = handle[w]]
     /\ nodes' = [nodes EXCEPT
                    ![new] = [n \in Nodes |-> IF nodes[old][n] # NoWrap THEN nodes[old][n] ELSE @[n]],
                    ![old] = EmptyMap]
     /\ root' = [x \in Wraps |-> Rehomed(x, old, new)]
     /\ docs' = docs \ {old}
     /\ root_node' = [root_node EXCEPT ![old] = NoNode]
     /\ UNCHANGED <<tree, wraps, handle, usages, game, abandoned>>

-----------------------------------------------------------------------------
(* The end of documents and nodes. *)

\* The WXMLNodes that ~WXMLDocument closes: those in its map.
Closed(d) == {nodes[d][n] : n \in Mapped(d)}

\* ~WXMLDocument, which also frees the tree.  ws are the WXMLNodes that lose
\* their document and node.
Destroy(d, ws) ==
  /\ docs' = docs \ {d}
  /\ root_node' = [root_node EXCEPT ![d] = NoNode]
  /\ nodes' = [nodes EXCEPT ![d] = EmptyMap]
  /\ tree' = tree \ Subtree(root_node[d])
  /\ parent' = [n \in Nodes |-> IF n \in tree' THEN parent[n] ELSE NoNode]
  /\ root' = [x \in Wraps |-> IF x \in ws THEN NoDoc ELSE root[x]]
  /\ handle' = [x \in Wraps |-> IF x \in ws THEN NoNode ELSE handle[x]]

\* XML.delete().  A second call finds nothing to do.
Delete(w) ==
  /\ Running
  /\ Open(w)
  /\ Destroy(root[w], Closed(root[w]))
  /\ UNCHANGED <<wraps, usages, game, history>>

\* Mutant of LastOf: the document goes with its root node's object.
LastOrRoot(w) == handle[w] = root_node[root[w]]

\* Mutant of LastOf: only XML.delete() ends a document.
LastNever(w) == FALSE

\* Nothing but w is left in the map of w's document.
LastOf(w) == Mapped(root[w]) = {handle[w]}

Forget(w) == /\ root' = [root EXCEPT ![w] = NoDoc]
             /\ handle' = [handle EXCEPT ![w] = NoNode]

\* Mutant of Released: the WXMLNode stays.
ReleasedAndKept(w) == /\ wraps' = wraps
                      /\ usages' = [usages EXCEPT ![w] = @ - 1]

\* The usages and existence of a WXMLNode with one object less.
Released(w) == /\ wraps' = IF usages[w] = 1 THEN wraps \ {w} ELSE wraps
               /\ usages' = [usages EXCEPT ![w] = @ - 1]

\* WXMLNode::Release, where no document has to be told.
ReleaseQuietly(w) ==
  /\ Released(w)
  /\ IF usages[w] = 1 THEN Forget(w) ELSE UNCHANGED <<root, handle>>

\* finalizeXML, by the collector, of one of w's objects.
Finalize(w) ==
  /\ Running
  /\ \/ /\ root[w] = NoDoc \/ (Open(w) /\ usages[w] > 1)
        /\ ReleaseQuietly(w)
        /\ UNCHANGED <<treeVars, docVars>>
     \/ /\ Open(w) /\ usages[w] = 1 /\ ~LastOf(w)
        /\ nodes' = [nodes EXCEPT ![root[w]][handle[w]] = NoWrap]
        /\ ReleaseQuietly(w)
        /\ UNCHANGED <<treeVars, docs, root_node>>
     \/ /\ Open(w) /\ usages[w] = 1 /\ LastOf(w)
        /\ Destroy(root[w], {w} \union Closed(root[w]))
        /\ Released(w)
  /\ UNCHANGED <<game, history>>

\* A WXMLNode whose document is no longer there is finalized or used.
UseDangling(w) ==
  /\ Running
  /\ root[w] # NoDoc /\ ~Open(w)
  /\ \/ game' = "crashed" /\ UNCHANGED wrapVars
     \/ ReleaseQuietly(w) /\ UNCHANGED game
  /\ UNCHANGED <<treeVars, docVars, history>>

\* A getter goes on with the null handle of a closed node, or of an empty one.
UseClosed(w) ==
  /\ Running
  /\ root[w] = NoDoc
  /\ misuse' = misuse \union {"closed_used"}
  /\ game' \in {"running", "crashed"}
  /\ UNCHANGED <<treeVars, docVars, wrapVars, abandoned>>

\* text.  No node is a text (remove_whitespace_callback), which is reported,
\* and the function goes on to take the null that mxmlGetText has for an
\* element for a string.
GetText(w) ==
  /\ Running
  /\ Open(w)
  /\ misuse' = misuse \union {"text_read"}
  /\ game' = "crashed"
  /\ UNCHANGED <<treeVars, docVars, wrapVars, abandoned>>

Next ==
  \/ \E d \in Docs, n \in Nodes : \E child \in Nodes \union {NoNode} : Parse(d, n, child)
  \/ \E d \in Docs, w \in Wraps : TryParseFails(d, w)
  \/ \E w \in Wraps : ParseEmpty(w)
  \/ \E w \in wraps, d \in Docs :
       \E copy \in [Subtree(handle[w]) -> Nodes \ tree] :
         /\ \A m, n \in DOMAIN copy : copy[m] = copy[n] => m = n
         /\ Clone(w, d, copy)
  \/ \E w \in wraps, n \in Nodes : CreateElement(w, n)
  \/ \E w \in wraps : Navigate(w)
  \/ \E w \in wraps, d \in Docs : Detach(w, d)
  \/ \E w, c \in wraps : Attach(w, c)
  \/ \E w \in wraps : Delete(w)
  \/ \E w \in wraps : Finalize(w)
  \/ \E w \in wraps : UseDangling(w)
  \/ \E w \in wraps : UseClosed(w)
  \/ \E w \in wraps : GetText(w)

Spec == Init /\ [][Next]_vars

-----------------------------------------------------------------------------
(* Properties. *)

\* The variables hold values of their kinds; a node in use has a count of its
\* objects between one and the bound.
TypeOK ==
  /\ tree \subseteq Nodes
  /\ parent \in [Nodes -> Nodes \union {NoNode}]
  /\ docs \subseteq Docs
  /\ root_node \in [Docs -> Nodes \union {NoNode}]
  /\ nodes \in [Docs -> [Nodes -> Wraps \union {NoWrap}]]
  /\ wraps \subseteq Wraps
  /\ root \in [Wraps -> Docs \union {NoDoc}]
  /\ handle \in [Wraps -> Nodes \union {NoNode}]
  /\ usages \in [Wraps -> 0..MaxUsages]
  /\ \A w \in Wraps : w \in wraps <=> usages[w] > 0
  /\ game \in {"running", "crashed"}
  /\ misuse \subseteq {"bad_xml", "child_attached", "own_tree_attached", "closed_used",
                     "text_read"}
  /\ abandoned \subseteq Docs

\* No script has attached what cannot be attached.
WellUsed == misuse \intersect {"child_attached", "own_tree_attached"} = {}

\* Whatever is parsed, cloned, moved, merged, closed and collected: a
\* document's map and the WXMLNodes that say they belong to it agree, and the
\* handle of each is in the document's own tree, so that it is neither freed
\* under the script nor freed twice.
MapsExact ==
  WellUsed =>
    /\ \A w \in wraps : handle[w] # NoNode => /\ root[w] \in docs
                                               /\ nodes[root[w]][handle[w]] = w
    /\ \A d \in Docs : \A n \in Mapped(d) :
         LET w == nodes[d][n]
         IN d \in docs /\ w \in wraps /\ root[w] = d /\ handle[w] = n
                        /\ n \in Subtree(root_node[d])

\* Every mxml node is in the tree of exactly one document, which frees it; and
\* a document that no script can reach any more is gone, except for those that
\* a detach has left without a node.
OnlyDetachLeaks ==
  WellUsed =>
    /\ \A n \in tree : Cardinality({d \in docs : n \in Subtree(root_node[d])}) = 1
    /\ {d \in docs : Mapped(d) = {}} = abandoned

\* Scripts that parse only XML, never read the text of a node, and keep to open
\* nodes and to attaching whole trees of other documents cannot crash the game,
\* in whatever order they use their nodes and the collector takes them.  The
\* getters that do not crash on an element are not actions of their own: they
\* change nothing here.
CrashNeedsMisuse == game = "crashed" => misuse # {}

\* The collector, when it takes the last object of a node, closes no node that
\* a script still has an object of (WXMLNode::Release deletes a document only
\* when its map is empty).
CollectorClosesNobody ==
  [][~(wraps \subseteq wraps') => \A w \in wraps \intersect wraps' : root'[w] = root[w]]_vars
=============================================================================
