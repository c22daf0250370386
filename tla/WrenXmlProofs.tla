--------------------------- MODULE WrenXmlProofs ---------------------------
(***************************************************************************)
(* Proofs about XML documents in the hands of Wren scripts, for any number *)
(* of mxml nodes, documents, WXMLNodes and objects: the maps of the        *)
(* documents stay exact and no node is freed under a script or lost.       *)
(***************************************************************************)
EXTENDS WrenXml, FiniteSetTheorems, TLAPS

(* Trees, for any set T of nodes and any parents p.                        *)

\* S contains the parents of its members.
UpClosed(p, S) == \A x \in S : p[x] \in S \union {NoNode}

\* The way up from m leads to r.
Reaches(T, p, m, r) == \A S \in SUBSET T : m \in S /\ UpClosed(p, S) => r \in S

Under(T, p, r) == {m \in T : Reaches(T, p, m, r)}

LEMMA SubtreeIsUnder ==
  ASSUME NEW r
  PROVE  Subtree(r) = Under(tree, parent, r)
  BY DEF Subtree, Below, Under, Reaches, UpClosed

LEMMA ReachItself ==
  ASSUME NEW T, NEW p, NEW m \in T
  PROVE  Reaches(T, p, m, m)
  BY DEF Reaches

LEMMA ReachOn ==
  ASSUME NEW T, NEW p, NEW m, NEW h, NEW r, Reaches(T, p, m, h), Reaches(T, p, h, r)
  PROVE  Reaches(T, p, m, r)
  BY DEF Reaches

LEMMA ReachInside ==
  ASSUME NEW T, NEW p, UpClosed(p, T), NEW m \in T, NEW r, Reaches(T, p, m, r)
  PROVE  r \in T
  BY DEF Reaches

\* What holds of a parent holds of its child ...
LEMMA ReachFromChild ==
  ASSUME NEW T, NEW p, NEW m \in T, p[m] \in T, NoNode \notin T, NEW r, Reaches(T, p, p[m], r)
  PROVE  Reaches(T, p, m, r)
<1>1. SUFFICES ASSUME NEW S \in SUBSET T, m \in S, UpClosed(p, S)
               PROVE  r \in S
  BY DEF Reaches
<1>2. p[m] \in S
  BY <1>1 DEF UpClosed
<1>3. QED
  BY <1>1, <1>2 DEF Reaches

\* ... and of a node's parent, unless it is the node itself.
LEMMA ReachFromParent ==
  ASSUME NEW T, NEW p, UpClosed(p, T), NEW m \in T, NEW r, Reaches(T, p, m, r), m # r
  PROVE  p[m] \in T /\ Reaches(T, p, p[m], r)
<1>1. p[m] # NoNode
  <2>1. SUFFICES ASSUME p[m] = NoNode PROVE FALSE
    OBVIOUS
  <2>2. UpClosed(p, {m}) /\ {m} \in SUBSET T
    BY <2>1 DEF UpClosed
  <2>3. QED
    BY <2>2 DEF Reaches
<1>2. p[m] \in T
  BY <1>1 DEF UpClosed
<1>3. ASSUME NEW S \in SUBSET T, p[m] \in S, UpClosed(p, S)
      PROVE  r \in S
  <2>1. UpClosed(p, S \union {m}) /\ S \union {m} \in SUBSET T
    BY <1>3 DEF UpClosed
  <2>2. r \in S \union {m}
    BY <2>1 DEF Reaches
  <2>3. QED
    BY <2>2
<1>4. QED
  BY <1>2, <1>3 DEF Reaches

\* A node without a parent is below itself only ...
LEMMA RootReachesItself ==
  ASSUME NEW T, NEW p, NEW m \in T, p[m] = NoNode, NEW r, Reaches(T, p, m, r)
  PROVE  m = r
<1>1. UpClosed(p, {m}) /\ {m} \in SUBSET T
  BY DEF UpClosed
<1>2. QED
  BY <1>1 DEF Reaches

\* ... and no node is below two of them.
LEMMA OneRoot ==
  ASSUME NEW T, NEW p, UpClosed(p, T), NoNode \notin T, NEW m \in T, NEW r, NEW s,
         p[r] = NoNode, p[s] = NoNode, Reaches(T, p, m, r), Reaches(T, p, m, s)
  PROVE  r = s
<1> DEFINE A == {x \in T : Reaches(T, p, x, r)}
<1>1. m \in A /\ A \in SUBSET T
  OBVIOUS
<1>2. UpClosed(p, A)
  <2>1. SUFFICES ASSUME NEW x \in A PROVE p[x] \in A \union {NoNode}
    BY DEF UpClosed
  <2>2. CASE x = r
    BY <2>2
  <2>3. CASE x # r
    BY <2>3, ReachFromParent
  <2>4. QED
    BY <2>2, <2>3
<1>3. s \in A
  BY <1>1, <1>2 DEF Reaches
<1>4. QED
  BY <1>3, RootReachesItself

-----------------------------------------------------------------------------
(* What adding, cutting off and moving a tree does to the trees there are.  *)

\* Outside T, where T is closed, nothing matters to a node of T ...
LEMMA ReachUnchanged ==
  ASSUME NEW T, NEW p, UpClosed(p, T), NEW T2, NEW q, T \subseteq T2,
         \A x \in T : q[x] = p[x], NEW m \in T, NEW r
  PROVE  Reaches(T, p, m, r) <=> Reaches(T2, q, m, r)
<1>1. ASSUME Reaches(T, p, m, r), NEW S \in SUBSET T2, m \in S, UpClosed(q, S)
      PROVE  r \in S
  <2>1. UpClosed(p, S \intersect T) /\ S \intersect T \in SUBSET T
    BY <1>1 DEF UpClosed
  <2>2. QED
    BY <1>1, <2>1 DEF Reaches
<1>2. ASSUME Reaches(T2, q, m, r), NEW S \in SUBSET T, m \in S, UpClosed(p, S)
      PROVE  r \in S
  <2>1. UpClosed(q, S) /\ S \in SUBSET T2
    BY <1>2 DEF UpClosed
  <2>2. QED
    BY <1>2, <2>1 DEF Reaches
<1>3. QED
  BY <1>1, <1>2 DEF Reaches

\* ... and if the rest is closed as well, it is in none of the trees of T.
LEMMA UnderApart ==
  ASSUME NEW T, NEW p, UpClosed(p, T), NEW T2, NEW q, T \subseteq T2,
         \A x \in T : q[x] = p[x], UpClosed(q, T2 \ T), NEW r \in T
  PROVE  Under(T2, q, r) = Under(T, p, r)
<1>1. ASSUME NEW m \in T2 \ T PROVE ~Reaches(T2, q, m, r)
  <2>1. T2 \ T \in SUBSET T2
    OBVIOUS
  <2>2. QED
    BY <2>1 DEF Reaches
<1>2. ASSUME NEW m \in T PROVE Reaches(T, p, m, r) <=> Reaches(T2, q, m, r)
  BY ReachUnchanged
<1>3. QED
  BY <1>1, <1>2 DEF Under

\* The tree of a root is closed, and so is what it leaves.
LEMMA WholeTreeCloses ==
  ASSUME NEW T, NEW p, UpClosed(p, T), NoNode \notin T, NEW r \in T, p[r] = NoNode
  PROVE  UpClosed(p, Under(T, p, r))
<1>1. SUFFICES ASSUME NEW x \in Under(T, p, r), p[x] # NoNode
               PROVE  p[x] \in Under(T, p, r)
  BY DEF UpClosed
<1>2. x \in T /\ Reaches(T, p, x, r) /\ x # r
  BY <1>1 DEF Under
<1>3. p[x] \in T /\ Reaches(T, p, p[x], r)
  BY <1>2, ReachFromParent
<1>4. QED
  BY <1>3 DEF Under

LEMMA RestCloses ==
  ASSUME NEW T, NEW p, UpClosed(p, T), NoNode \notin T, NEW r
  PROVE  UpClosed(p, T \ Under(T, p, r))
<1>1. SUFFICES ASSUME NEW x \in T \ Under(T, p, r), p[x] # NoNode, p[x] \in Under(T, p, r)
               PROVE  FALSE
  BY DEF UpClosed
<1>2. p[x] \in T /\ Reaches(T, p, p[x], r)
  BY <1>1 DEF Under
<1>3. Reaches(T, p, x, r)
  BY <1>2, ReachFromChild
<1>4. QED
  BY <1>1, <1>3 DEF Under

\* A root c that gets a parent keeps every way up there was.
LEMMA ReachAfterGraft ==
  ASSUME NEW T, NEW p, NEW q, NEW c \in T, p[c] = NoNode, \A x \in T \ {c} : q[x] = p[x],
         NEW m, NEW r, Reaches(T, p, m, r)
  PROVE  Reaches(T, q, m, r)
<1>1. ASSUME NEW S \in SUBSET T, UpClosed(q, S) PROVE UpClosed(p, S)
  BY <1>1 DEF UpClosed
<1>2. QED
  BY <1>1 DEF Reaches

\* A node c that loses its parent keeps what is below it ...
LEMMA ReachCutOff ==
  ASSUME NEW T, NEW p, NEW q, NEW c, \A x \in T \ {c} : q[x] = p[x],
         NEW m, Reaches(T, p, m, c)
  PROVE  Reaches(T, q, m, c)
<1>1. ASSUME NEW S \in SUBSET T, UpClosed(q, S), c \notin S PROVE UpClosed(p, S)
  BY <1>1 DEF UpClosed
<1>2. QED
  BY <1>1 DEF Reaches

\* ... and all others keep their way up.
LEMMA ReachPastCut ==
  ASSUME NEW T, NEW p, UpClosed(p, T), NoNode \notin T, NEW q, NEW c \in T,
         \A x \in T \ {c} : q[x] = p[x],
         NEW m \in T, NEW r, Reaches(T, p, m, r), ~Reaches(T, p, m, c)
  PROVE  Reaches(T, q, m, r)
<1> DEFINE D == T \ Under(T, p, c)
<1>1. UpClosed(p, D)
  BY RestCloses
<1>2. m \in D /\ c \notin D /\ D \subseteq T
  BY ReachItself DEF Under
<1> HIDE DEF D
<1>3. SUFFICES ASSUME NEW S \in SUBSET T, m \in S, UpClosed(q, S) PROVE r \in S
  BY DEF Reaches
<1>4. UpClosed(p, S \intersect D) /\ S \intersect D \in SUBSET T
  BY <1>1, <1>2, <1>3 DEF UpClosed
<1>5. QED
  BY <1>2, <1>3, <1>4 DEF Reaches

-----------------------------------------------------------------------------
(* The inductive invariant. *)

\* Every document has a tree of its own, and every mxml node is in one.
Forest ==
  /\ \A d \in docs : root_node[d] \in tree /\ parent[root_node[d]] = NoNode
  /\ \A d, e \in docs : root_node[d] = root_node[e] => d = e
  /\ \A n \in tree : \E d \in docs : n \in Under(tree, parent, root_node[d])

\* A WXMLNode with a handle is known to its document.
WrapsKnown ==
  \A w \in wraps : handle[w] # NoNode => /\ root[w] \in docs
                                        /\ nodes[root[w]][handle[w]] = w

\* A document knows only WXMLNodes of its own, and nodes of its own tree.
MapsKnown ==
  \A d \in Docs, n \in Nodes :
    nodes[d][n] # NoWrap => /\ d \in docs
                            /\ nodes[d][n] \in wraps
                            /\ root[nodes[d][n]] = d
                            /\ handle[nodes[d][n]] = n
                            /\ n \in Under(tree, parent, root_node[d])

\* The documents with an empty map are those that a detach has emptied.
LostDocs ==
  \A d \in Docs : (d \in abandoned) <=> (d \in docs /\ \A n \in Nodes : nodes[d][n] = NoWrap)

\* Only a text that is no XML leaves a WXMLNode with a document and no node.
NoDangling == misuse = {} => \A w \in wraps : root[w] # NoDoc => handle[w] # NoNode

Exact == Forest /\ WrapsKnown /\ MapsKnown /\ LostDocs /\ NoDangling

XmlInv == /\ TypeOK
          /\ UpClosed(parent, tree)
          /\ CrashNeedsMisuse
          /\ WellUsed => Exact

\* What is open and well used is in its document's tree.
LEMMA OpenInTree ==
  ASSUME TypeOK, WrenXmlAssumption, MapsKnown, LostDocs, NEW w, Open(w)
  PROVE  /\ root[w] \in docs /\ root[w] \in Docs /\ root[w] \notin abandoned
         /\ handle[w] \in tree /\ handle[w] \in Nodes /\ w \in Wraps /\ w # NoWrap
         /\ Reaches(tree, parent, handle[w], root_node[root[w]])
<1>1. /\ root[w] \in docs /\ root[w] \in Docs /\ handle[w] \in tree /\ handle[w] \in Nodes
      /\ w \in Wraps /\ w # NoWrap /\ nodes[root[w]][handle[w]] = w
  BY DEF Open, TypeOK, WrenXmlAssumption
<1>2. handle[w] \in Under(tree, parent, root_node[root[w]])
  BY <1>1 DEF MapsKnown
<1>3. root[w] \notin abandoned
  BY <1>1 DEF LostDocs
<1>4. QED
  BY <1>1, <1>2, <1>3 DEF Under

\* An object for node n of document d, whose map so far is map.
LEMMA GetAndUseKeeps ==
  ASSUME WrenXmlAssumption, TypeOK, WrapsKnown, MapsKnown, LostDocs, NoDangling,
         NEW d \in Docs, NEW n \in Nodes, NEW map, GetAndUse(d, n, map),
         map \in [Nodes -> Wraps \union {NoWrap}],
         \A m \in Nodes : map[m] = nodes[d][m],
         d \notin abandoned, docs' = docs \union {d}, UNCHANGED <<misuse, abandoned>>,
         \A e \in docs : Under(tree, parent, root_node[e])
                         \subseteq Under(tree', parent', root_node'[e]),
         n \in Under(tree', parent', root_node'[d])
  PROVE  WrapsKnown' /\ MapsKnown' /\ LostDocs' /\ NoDangling'
<1>1. PICK w \in Wrapper(map, n) :
         /\ wraps' = wraps \union {w}
         /\ root' = [root EXCEPT ![w] = d]
         /\ handle' = [handle EXCEPT ![w] = n]
         /\ nodes' = [nodes EXCEPT ![d] = [map EXCEPT ![n] = w]]
  BY DEF GetAndUse
<1>2. w \in Wraps /\ w # NoWrap
  BY <1>1 DEF Wrapper, TypeOK, WrenXmlAssumption
<1>3. w \in wraps => nodes[d][n] = w /\ d \in docs /\ root[w] = d /\ handle[w] = n
  <2>1. SUFFICES ASSUME w \in wraps
                 PROVE  nodes[d][n] = w /\ d \in docs /\ root[w] = d /\ handle[w] = n
    OBVIOUS
  <2>2. nodes[d][n] = w
    BY <1>1, <2>1 DEF Wrapper
  <2>3. QED
    BY <1>2, <2>2 DEF MapsKnown
<1>4. nodes[d][n] = NoWrap \/ nodes[d][n] = w
  BY <1>1 DEF Wrapper
<1>5. ASSUME NEW x \in wraps, x # w PROVE root'[x] = root[x] /\ handle'[x] = handle[x]
  BY <1>1, <1>5 DEF TypeOK
<1>6. root'[w] = d /\ handle'[w] = n
  BY <1>1, <1>2 DEF TypeOK
<1>7. /\ nodes'[d][n] = w
      /\ \A m \in Nodes : m # n => nodes'[d][m] = nodes[d][m]
  BY <1>1 DEF TypeOK
<1>8. \A e \in Docs : e # d => nodes'[e] = nodes[e]
  BY <1>1 DEF TypeOK
<1>9. \A e \in Docs, m \in Nodes : e # d \/ m # n => nodes'[e][m] = nodes[e][m]
  BY <1>7, <1>8
<1>10. WrapsKnown'
  <2>1. SUFFICES ASSUME NEW x \in wraps', handle'[x] # NoNode
                 PROVE  root'[x] \in docs' /\ nodes'[root'[x]][handle'[x]] = x
    BY DEF WrapsKnown
  <2>2. CASE x = w
    BY <2>2, <1>6, <1>7
  <2>3. CASE x # w
    <3>1. x \in wraps /\ root'[x] = root[x] /\ handle'[x] = handle[x]
      BY <2>1, <2>3, <1>1, <1>5
    <3>2. root[x] \in docs /\ nodes[root[x]][handle[x]] = x
      BY <3>1, <2>1 DEF WrapsKnown
    <3>3. root[x] \in Docs /\ handle[x] \in Nodes
      BY <3>1, <3>2, <2>1 DEF TypeOK
    <3>4. x # NoWrap
      BY <3>1 DEF TypeOK, WrenXmlAssumption
    <3>5. root[x] # d \/ handle[x] # n
      BY <3>2, <3>4, <2>3, <1>4
    <3>6. nodes'[root[x]][handle[x]] = x
      BY <3>2, <3>3, <3>5, <1>9
    <3>7. QED
      BY <3>1, <3>2, <3>6
  <2>4. QED
    BY <2>2, <2>3
<1>11. MapsKnown'
  <2>1. SUFFICES ASSUME NEW e \in Docs, NEW m \in Nodes, nodes'[e][m] # NoWrap
                 PROVE  /\ e \in docs' /\ nodes'[e][m] \in wraps'
                        /\ root'[nodes'[e][m]] = e /\ handle'[nodes'[e][m]] = m
                        /\ m \in Under(tree', parent', root_node'[e])
    BY DEF MapsKnown
  <2>2. CASE e = d /\ m = n
    BY <2>2, <1>1, <1>6, <1>7
  <2>3. CASE e # d \/ m # n
    <3>1. nodes'[e][m] = nodes[e][m]
      BY <2>3, <1>9
    <3>2. /\ e \in docs /\ nodes[e][m] \in wraps
          /\ root[nodes[e][m]] = e /\ handle[nodes[e][m]] = m
          /\ m \in Under(tree, parent, root_node[e])
      BY <2>1, <3>1 DEF MapsKnown
    <3>3. nodes[e][m] # w
      BY <3>2, <1>3, <2>3
    <3>4. root'[nodes[e][m]] = e /\ handle'[nodes[e][m]] = m
      BY <3>2, <3>3, <1>5
    <3>5. QED
      BY <3>1, <3>2, <3>4, <1>1
  <2>4. QED
    BY <2>2, <2>3
<1>12. LostDocs'
  <2>1. SUFFICES ASSUME NEW e \in Docs
                 PROVE  (e \in abandoned) <=> (e \in docs' /\ \A m \in Nodes : nodes'[e][m] = NoWrap)
    BY DEF LostDocs
  <2>2. CASE e = d
    BY <2>2, <1>2, <1>7
  <2>3. CASE e # d
    BY <2>3, <1>8 DEF LostDocs
  <2>4. QED
    BY <2>2, <2>3
<1>13. NoDangling'
  <2>1. SUFFICES ASSUME misuse = {}, NEW x \in wraps', root'[x] # NoDoc
                 PROVE  handle'[x] # NoNode
    BY DEF NoDangling
  <2>2. CASE x = w
    BY <2>2, <1>6 DEF WrenXmlAssumption
  <2>3. CASE x # w
    BY <2>1, <2>3, <1>1, <1>5 DEF NoDangling
  <2>4. QED
    BY <2>2, <2>3
<1>14. QED
  BY <1>10, <1>11, <1>12, <1>13

-----------------------------------------------------------------------------
(* Types. *)

WrapTypes == /\ wraps \subseteq Wraps
             /\ root \in [Wraps -> Docs \union {NoDoc}]
             /\ handle \in [Wraps -> Nodes \union {NoNode}]
             /\ usages \in [Wraps -> 0..MaxUsages]
             /\ \A w \in Wraps : (w \in wraps) <=> (usages[w] > 0)

DocTypes == /\ tree \subseteq Nodes
            /\ parent \in [Nodes -> Nodes \union {NoNode}]
            /\ docs \subseteq Docs
            /\ root_node \in [Docs -> Nodes \union {NoNode}]
            /\ nodes \in [Docs -> [Nodes -> Wraps \union {NoWrap}]]

HistoryTypes ==
  /\ game \in {"running", "crashed"}
  /\ misuse \subseteq {"bad_xml", "child_attached", "own_tree_attached", "closed_used",
                     "text_read"}
  /\ abandoned \subseteq Docs

LEMMA Types == TypeOK <=> WrapTypes /\ DocTypes /\ HistoryTypes
  BY DEF TypeOK, WrapTypes, DocTypes, HistoryTypes

LEMMA GetAndUseTypes ==
  ASSUME WrenXmlAssumption, TypeOK, NEW d \in Docs, NEW n \in Nodes, NEW map,
         GetAndUse(d, n, map), map \in [Nodes -> Wraps \union {NoWrap}]
  PROVE  WrapTypes' /\ nodes' \in [Docs -> [Nodes -> Wraps \union {NoWrap}]]
<1>1. PICK w \in Wrapper(map, n) :
         /\ usages[w] < MaxUsages
         /\ wraps' = wraps \union {w}
         /\ root' = [root EXCEPT ![w] = d]
         /\ handle' = [handle EXCEPT ![w] = n]
         /\ usages' = [usages EXCEPT ![w] = @ + 1]
         /\ nodes' = [nodes EXCEPT ![d] = [map EXCEPT ![n] = w]]
  BY DEF GetAndUse
<1>2. w \in Wraps
  BY <1>1 DEF Wrapper, TypeOK
<1>3. usages[w] \in 0..MaxUsages /\ MaxUsages \in Nat
  BY <1>2 DEF TypeOK, WrenXmlAssumption
<1>4. usages[w] + 1 \in 0..MaxUsages /\ usages[w] + 1 > 0
  BY <1>1, <1>3
<1>5. usages' \in [Wraps -> 0..MaxUsages]
  BY <1>1, <1>4 DEF TypeOK
<1>6. ASSUME NEW x \in Wraps PROVE (x \in wraps') <=> (usages'[x] > 0)
  <2>1. CASE x = w
    BY <2>1, <1>1, <1>4 DEF TypeOK
  <2>2. CASE x # w
    BY <2>2, <1>1 DEF TypeOK
  <2>3. QED
    BY <2>1, <2>2
<1>7. wraps' \subseteq Wraps
  BY <1>1, <1>2 DEF TypeOK
<1>8. root' \in [Wraps -> Docs \union {NoDoc}] /\ handle' \in [Wraps -> Nodes \union {NoNode}]
  BY <1>1 DEF TypeOK
<1>9. [map EXCEPT ![n] = w] \in [Nodes -> Wraps \union {NoWrap}]
  BY <1>2
<1>10. nodes' \in [Docs -> [Nodes -> Wraps \union {NoWrap}]]
  BY <1>1, <1>9 DEF TypeOK
<1>11. QED
  BY <1>5, <1>6, <1>7, <1>8, <1>10 DEF WrapTypes

LEMMA EmptyMapType == EmptyMap \in [Nodes -> Wraps \union {NoWrap}]
  BY DEF EmptyMap

LEMMA NewDocumentTypes ==
  ASSUME WrenXmlAssumption, TypeOK, NEW d, NEW n \in Nodes, NewDocument(d, n)
  PROVE  /\ WrapTypes' /\ nodes' \in [Docs -> [Nodes -> Wraps \union {NoWrap}]]
         /\ docs' \subseteq Docs /\ root_node' \in [Docs -> Nodes \union {NoNode}]
<1>1. /\ d \in Docs /\ GetAndUse(d, n, EmptyMap)
      /\ docs' = docs \union {d} /\ root_node' = [root_node EXCEPT ![d] = n]
  BY DEF NewDocument
<1>2. WrapTypes' /\ nodes' \in [Docs -> [Nodes -> Wraps \union {NoWrap}]]
  BY <1>1, EmptyMapType, GetAndUseTypes
<1>3. QED
  BY <1>1, <1>2 DEF TypeOK

LEMMA ReleaseQuietlyTypes ==
  ASSUME WrenXmlAssumption, TypeOK, NEW w \in wraps, Released(w),
         root' \in [Wraps -> Docs \union {NoDoc}], handle' \in [Wraps -> Nodes \union {NoNode}]
  PROVE  WrapTypes'
<1>1. /\ w \in Wraps /\ usages[w] \in 0..MaxUsages /\ usages[w] > 0 /\ MaxUsages \in Nat
  BY DEF TypeOK, WrenXmlAssumption
<1>2. usages[w] - 1 \in 0..MaxUsages /\ (usages[w] - 1 > 0 <=> usages[w] # 1)
  BY <1>1
<1>3. usages' \in [Wraps -> 0..MaxUsages]
  BY <1>2 DEF TypeOK, Released
<1>4. usages'[w] = usages[w] - 1 /\ \A x \in Wraps \ {w} : usages'[x] = usages[x]
  BY <1>1 DEF TypeOK, Released
<1>5. ASSUME NEW x \in Wraps PROVE (x \in wraps') <=> (usages'[x] > 0)
  <2>1. CASE x = w
    BY <2>1, <1>2, <1>4 DEF Released
  <2>2. CASE x # w
    <3>1. (x \in wraps') <=> (x \in wraps)
      BY <2>2 DEF Released
    <3>2. QED
      BY <2>2, <3>1, <1>4 DEF TypeOK
  <2>3. QED
    BY <2>1, <2>2
<1>6. wraps' \subseteq Wraps
  BY DEF Released, TypeOK
<1>7. QED
  BY <1>3, <1>5, <1>6 DEF WrapTypes

LEMMA QuietTypes ==
  ASSUME WrenXmlAssumption, TypeOK, NEW w \in wraps, ReleaseQuietly(w)
  PROVE  WrapTypes'
<1>1. root' \in [Wraps -> Docs \union {NoDoc}] /\ handle' \in [Wraps -> Nodes \union {NoNode}]
  BY DEF ReleaseQuietly, Forget, TypeOK
<1>2. QED
  BY <1>1, ReleaseQuietlyTypes DEF ReleaseQuietly

LEMMA DestroyTypes ==
  ASSUME WrenXmlAssumption, TypeOK, NEW d, NEW ws, Destroy(d, ws)
  PROVE  /\ DocTypes'
         /\ root' \in [Wraps -> Docs \union {NoDoc}]
         /\ handle' \in [Wraps -> Nodes \union {NoNode}]
<1>1. tree' \subseteq Nodes /\ docs' \subseteq Docs
  BY DEF Destroy, TypeOK
<1>2. parent' \in [Nodes -> Nodes \union {NoNode}]
  BY DEF Destroy, TypeOK
<1>3. root_node' \in [Docs -> Nodes \union {NoNode}]
  BY DEF Destroy, TypeOK
<1>4. nodes' \in [Docs -> [Nodes -> Wraps \union {NoWrap}]]
  BY EmptyMapType DEF Destroy, TypeOK
<1>5. root' \in [Wraps -> Docs \union {NoDoc}]
  BY DEF Destroy, TypeOK
<1>6. handle' \in [Wraps -> Nodes \union {NoNode}]
  BY DEF Destroy, TypeOK
<1>7. QED
  BY <1>1, <1>2, <1>3, <1>4, <1>5, <1>6 DEF DocTypes

\* A copy, from the nodes old to the nodes new.
Cloning(w, d, copy, old, new) ==
  /\ old = Under(tree, parent, handle[w])
  /\ copy \in [old -> Nodes \ tree]
  /\ \A m, n \in old : copy[m] = copy[n] => m = n
  /\ new = {copy[m] : m \in old}
  /\ Clone(w, d, copy)

\* What a copy of a tree looks like.
LEMMA CloneShape ==
  ASSUME WrenXmlAssumption, TypeOK, UpClosed(parent, tree),
         NEW w, NEW d, NEW copy, NEW old, NEW new, Cloning(w, d, copy, old, new)
  PROVE  /\ Open(w) /\ handle[w] \in old /\ old \subseteq tree
         /\ new \subseteq Nodes /\ new \intersect tree = {} /\ tree' = tree \union new
         /\ \A m \in tree : parent'[m] = parent[m]
         /\ \A o \in old : o # handle[w] => parent[o] \in old
         /\ \A o \in old : parent'[copy[o]] = IF o = handle[w] THEN NoNode ELSE copy[parent[o]]
         /\ parent' \in [Nodes -> Nodes \union {NoNode}]
         /\ NewDocument(d, copy[handle[w]])
<1> DEFINE original(m) == CHOOSE o \in old : copy[o] = m
<1> USE DEF Cloning
<1>1. old = Subtree(handle[w])
  BY SubtreeIsUnder
<1>2. /\ Open(w) /\ tree' = tree \union new
      /\ parent' = [m \in Nodes |->
                      IF m \notin new THEN parent[m]
                      ELSE IF original(m) = handle[w] THEN NoNode
                      ELSE copy[parent[original(m)]]]
      /\ NewDocument(d, copy[handle[w]])
  BY <1>1 DEF Clone
<1>3. new \subseteq Nodes /\ new \intersect tree = {} /\ tree \subseteq Nodes /\ old \subseteq tree
  BY DEF TypeOK, Under
<1>4. handle[w] \in old
  BY <1>2, ReachItself DEF Open, Under
<1>5. ASSUME NEW o \in old, o # handle[w] PROVE parent[o] \in old
  BY <1>5, ReachFromParent DEF Under
<1>6. \A o \in old : original(copy[o]) = o
  OBVIOUS
<1>7. \A m \in tree : parent'[m] = parent[m]
  BY <1>2, <1>3
<1>8. \A o \in old : copy[o] \in Nodes /\ copy[o] \in new
  OBVIOUS
<1>9. \A m \in new : original(m) \in old
  OBVIOUS
<1> HIDE DEF original
<1>10. ASSUME NEW o \in old
       PROVE  parent'[copy[o]] = IF o = handle[w] THEN NoNode ELSE copy[parent[o]]
  BY <1>2, <1>6, <1>8
<1>11. parent' \in [Nodes -> Nodes \union {NoNode}]
  <2>1. ASSUME NEW m \in new, original(m) # handle[w]
        PROVE  copy[parent[original(m)]] \in Nodes
    BY <1>5, <1>8, <1>9, <2>1
  <2>2. \A m \in Nodes : parent[m] \in Nodes \union {NoNode}
    BY DEF TypeOK
  <2>3. QED
    BY <1>2, <2>1, <2>2
<1>12. QED
  BY <1>2, <1>3, <1>4, <1>5, <1>7, <1>10, <1>11

\* The copy is a tree of its own.
LEMMA CloneCloses ==
  ASSUME WrenXmlAssumption, TypeOK, UpClosed(parent, tree),
         NEW w, NEW d, NEW copy, NEW old, NEW new, Cloning(w, d, copy, old, new)
  PROVE  UpClosed(parent', new)
<1>1. /\ handle[w] \in old
      /\ \A o \in old : o # handle[w] => parent[o] \in old
      /\ \A o \in old : parent'[copy[o]] = IF o = handle[w] THEN NoNode ELSE copy[parent[o]]
  BY CloneShape
<1>2. ASSUME NEW o \in old PROVE parent'[copy[o]] \in new \union {NoNode}
  BY <1>1 DEF Cloning
<1>3. new = {copy[o] : o \in old}
  BY DEF Cloning
<1>4. QED
  BY <1>2, <1>3 DEF UpClosed

LEMMA ClosedGrows ==
  ASSUME NEW T, NEW p, UpClosed(p, T), NEW N, NEW q, \A x \in T : q[x] = p[x], UpClosed(q, N)
  PROVE  UpClosed(q, T \union N)
  BY DEF UpClosed

\* What is left when a document's tree is freed.
LEMMA DestroyShape ==
  ASSUME WrenXmlAssumption, TypeOK, UpClosed(parent, tree), NEW d, NEW ws, Destroy(d, ws)
  PROVE  /\ tree' = tree \ Under(tree, parent, root_node[d])
         /\ \A n \in tree' : parent'[n] = parent[n]
         /\ UpClosed(parent', tree')
<1>1. tree' = tree \ Under(tree, parent, root_node[d]) /\ tree \subseteq Nodes
  BY SubtreeIsUnder DEF Destroy, TypeOK
<1>2. \A n \in tree' : parent'[n] = parent[n]
  BY <1>1 DEF Destroy
<1>3. NoNode \notin tree
  BY DEF TypeOK, WrenXmlAssumption
<1>4. UpClosed(parent, tree \ Under(tree, parent, root_node[d]))
  BY <1>3, RestCloses
<1>5. QED
  BY <1>1, <1>2, <1>4 DEF UpClosed

\* The values stay of their kinds, and a parent is a node that exists.
Shape == TypeOK /\ UpClosed(parent, tree)

LEMMA ParseShape ==
  ASSUME WrenXmlAssumption, Shape, NEW d, NEW n \in Nodes, NEW child \in Nodes \union {NoNode},
         Parse(d, n, child)
  PROVE  Shape'
<1>1. NewDocument(d, n) /\ TypeOK
  BY DEF Parse, Shape
<1>2. tree' \subseteq Nodes /\ parent' \in [Nodes -> Nodes \union {NoNode}]
  BY DEF Parse, Shape, TypeOK
<1>3. HistoryTypes'
  BY DEF Parse, Shape, TypeOK, HistoryTypes, history
<1>4. TypeOK'
  BY <1>1, <1>2, <1>3, NewDocumentTypes DEF TypeOK, WrapTypes, HistoryTypes
<1>5. UpClosed(parent', tree')
  BY DEF Parse, Shape, TypeOK, UpClosed
<1>6. QED
  BY <1>4, <1>5 DEF Shape

LEMMA CloneKeepsShape ==
  ASSUME WrenXmlAssumption, Shape, NEW w, NEW d, NEW copy, NEW old, NEW new,
         Cloning(w, d, copy, old, new)
  PROVE  Shape'
<1>1. TypeOK /\ UpClosed(parent, tree) /\ Clone(w, d, copy)
  BY DEF Shape, Cloning
<1>2. /\ handle[w] \in old /\ new \subseteq Nodes /\ tree' = tree \union new
      /\ \A m \in tree : parent'[m] = parent[m]
      /\ parent' \in [Nodes -> Nodes \union {NoNode}]
      /\ NewDocument(d, copy[handle[w]])
  BY <1>1, CloneShape
<1>3. copy[handle[w]] \in Nodes
  BY <1>2 DEF Cloning
<1>4. HistoryTypes'
  BY <1>1 DEF Clone, TypeOK, HistoryTypes, history
<1>5. TypeOK'
  <2>1. /\ WrapTypes' /\ nodes' \in [Docs -> [Nodes -> Wraps \union {NoWrap}]]
        /\ docs' \subseteq Docs /\ root_node' \in [Docs -> Nodes \union {NoNode}]
    BY <1>1, <1>2, <1>3, NewDocumentTypes
  <2>2. tree' \subseteq Nodes
    BY <1>1, <1>2 DEF TypeOK
  <2>3. QED
    BY <1>2, <1>4, <2>1, <2>2 DEF TypeOK, WrapTypes, HistoryTypes
<1>6. UpClosed(parent', tree')
  BY <1>1, <1>2, CloneCloses, ClosedGrows
<1>7. QED
  BY <1>5, <1>6 DEF Shape

LEMMA CreateShape ==
  ASSUME WrenXmlAssumption, Shape, NEW w, NEW n \in Nodes, CreateElement(w, n)
  PROVE  Shape'
<1>1. /\ TypeOK /\ UpClosed(parent, tree) /\ Open(w) /\ GetAndUse(root[w], n, nodes[root[w]])
      /\ n \notin tree /\ tree' = tree \union {n} /\ parent' = [parent EXCEPT ![n] = handle[w]]
      /\ UNCHANGED <<docs, root_node, game, history>>
  BY DEF Shape, CreateElement
<1>2. root[w] \in Docs /\ nodes[root[w]] \in [Nodes -> Wraps \union {NoWrap}]
      /\ handle[w] \in Nodes /\ handle[w] \in tree
  BY <1>1 DEF Open, TypeOK
<1>3. WrapTypes' /\ nodes' \in [Docs -> [Nodes -> Wraps \union {NoWrap}]]
  BY <1>1, <1>2, GetAndUseTypes
<1>4. tree' \subseteq Nodes /\ parent' \in [Nodes -> Nodes \union {NoNode}]
  BY <1>1, <1>2 DEF TypeOK
<1>5. TypeOK'
  BY <1>1, <1>3, <1>4 DEF TypeOK, WrapTypes, history
<1>6. UpClosed(parent', tree')
  BY <1>1, <1>2 DEF TypeOK, UpClosed
<1>7. QED
  BY <1>5, <1>6 DEF Shape

LEMMA NavigateShape ==
  ASSUME WrenXmlAssumption, Shape, NEW w, Navigate(w)
  PROVE  Shape'
<1>1. /\ TypeOK /\ UpClosed(parent, tree) /\ Open(w)
      /\ UNCHANGED <<treeVars, docs, root_node, game, history>>
  BY DEF Shape, Navigate
<1>2. PICK n \in Siblings(handle[w]) \union Children(handle[w]) \union ({parent[handle[w]]} \ {NoNode}) :
        GetAndUse(root[w], n, nodes[root[w]])
  BY DEF Navigate
<1>3. root[w] \in Docs /\ nodes[root[w]] \in [Nodes -> Wraps \union {NoWrap}] /\ handle[w] \in Nodes
  BY <1>1 DEF Open, TypeOK
<1>4. n \in Nodes
  BY <1>1, <1>2, <1>3 DEF Siblings, Children, TypeOK
<1>5. WrapTypes' /\ nodes' \in [Docs -> [Nodes -> Wraps \union {NoWrap}]]
  BY <1>1, <1>2, <1>3, <1>4, GetAndUseTypes
<1>6. TypeOK'
  BY <1>1, <1>5 DEF TypeOK, WrapTypes, history, treeVars
<1>7. QED
  BY <1>1, <1>6 DEF Shape, UpClosed, treeVars

LEMMA DetachShape ==
  ASSUME WrenXmlAssumption, Shape, NEW w, NEW d, Detach(w, d)
  PROVE  Shape'
<1> USE DEF Shape
<1>1. root[w] \in Docs /\ handle[w] \in Nodes
  BY DEF Detach, Open, TypeOK
<1>2. WrapTypes'
  <2>1. root' \in [Wraps -> Docs \union {NoDoc}]
    BY DEF Detach, TypeOK
  <2>2. QED
    BY <2>1 DEF Detach, TypeOK, WrapTypes
<1>3. nodes' \in [Docs -> [Nodes -> Wraps \union {NoWrap}]]
  <2> DEFINE left == [n \in Nodes |-> IF n \in Moved(w) THEN NoWrap ELSE nodes[root[w]][n]]
             taken == [n \in Nodes |-> IF n \in Moved(w) THEN nodes[root[w]][n] ELSE NoWrap]
  <2>1. left \in [Nodes -> Wraps \union {NoWrap}] /\ taken \in [Nodes -> Wraps \union {NoWrap}]
    BY <1>1 DEF TypeOK
  <2>2. nodes' = [nodes EXCEPT ![root[w]] = left, ![d] = taken]
    BY <1>1 DEF Detach, TypeOK
  <2> HIDE DEF left, taken
  <2>3. QED
    BY <2>1, <2>2 DEF TypeOK
<1>4. docs' \subseteq Docs /\ root_node' \in [Docs -> Nodes \union {NoNode}] /\ tree' \subseteq Nodes
  BY <1>1 DEF Detach, TypeOK
<1>5. parent' \in [Nodes -> Nodes \union {NoNode}]
  BY DEF Detach, TypeOK
<1>6. HistoryTypes'
  BY <1>1 DEF Detach, TypeOK, HistoryTypes
<1>7. TypeOK'
  BY <1>2, <1>3, <1>4, <1>5, <1>6, Types DEF TypeOK, WrapTypes, HistoryTypes
<1>8. UpClosed(parent', tree')
  BY DEF Detach, TypeOK, UpClosed
<1>9. QED
  BY <1>7, <1>8

LEMMA AttachShape ==
  ASSUME WrenXmlAssumption, Shape, NEW w, NEW c, Attach(w, c)
  PROVE  Shape'
<1> USE DEF Shape
<1>1. /\ root[w] \in Docs /\ handle[w] \in tree /\ handle[w] \in Nodes
      /\ root[c] \in Docs /\ handle[c] \in tree
  BY DEF Attach, Open, TypeOK
<1>2. WrapTypes'
  <2>1. root' \in [Wraps -> Docs \union {NoDoc}]
    BY <1>1 DEF Attach, Rehomed, TypeOK
  <2>2. QED
    BY <2>1 DEF Attach, TypeOK, WrapTypes
<1>3. nodes' \in [Docs -> [Nodes -> Wraps \union {NoWrap}]]
  <2> DEFINE both == [n \in Nodes |-> IF nodes[root[c]][n] # NoWrap THEN nodes[root[c]][n]
                                      ELSE nodes[root[w]][n]]
  <2>1. both \in [Nodes -> Wraps \union {NoWrap}]
    BY <1>1 DEF TypeOK
  <2>2. nodes' = [nodes EXCEPT ![root[w]] = both, ![root[c]] = EmptyMap]
    BY <1>1 DEF Attach, TypeOK
  <2> HIDE DEF both
  <2>3. QED
    BY <2>1, <2>2, EmptyMapType DEF TypeOK
<1>4. docs' \subseteq Docs /\ root_node' \in [Docs -> Nodes \union {NoNode}] /\ tree' \subseteq Nodes
  BY DEF Attach, TypeOK
<1>5. parent' \in [Nodes -> Nodes \union {NoNode}]
  BY <1>1 DEF Attach, TypeOK
<1>6. HistoryTypes'
  BY DEF Attach, TypeOK, HistoryTypes
<1>7. TypeOK'
  BY <1>2, <1>3, <1>4, <1>5, <1>6 DEF TypeOK, WrapTypes, HistoryTypes
<1>8. UpClosed(parent', tree')
  BY <1>1 DEF Attach, TypeOK, UpClosed
<1>9. QED
  BY <1>7, <1>8

LEMMA BareNodeShape ==
  ASSUME WrenXmlAssumption, Shape, NEW d \in Docs \union {NoDoc}, NEW w, BareNode(w, d)
  PROVE  Shape'
<1> USE DEF Shape
<1>1. WrapTypes'
  <2>1. usages' \in [Wraps -> 0..MaxUsages]
    BY DEF BareNode, TypeOK, WrenXmlAssumption
  <2>2. \A x \in Wraps : (x \in wraps') <=> (usages'[x] > 0)
    BY DEF BareNode, TypeOK
  <2>3. QED
    BY <2>1, <2>2 DEF BareNode, TypeOK, WrapTypes
<1>2. DocTypes' /\ HistoryTypes'
  BY DEF BareNode, TypeOK, DocTypes, HistoryTypes, treeVars, docVars
<1>3. TypeOK'
  BY <1>1, <1>2 DEF TypeOK, WrapTypes, DocTypes, HistoryTypes
<1>4. QED
  BY <1>3 DEF BareNode, UpClosed, treeVars

LEMMA DeleteShape ==
  ASSUME WrenXmlAssumption, Shape, NEW w, Delete(w)
  PROVE  Shape'
<1>1. /\ TypeOK /\ UpClosed(parent, tree) /\ Destroy(root[w], Closed(root[w]))
      /\ UNCHANGED <<wraps, usages, game, history>>
  BY DEF Shape, Delete
<1>2. /\ DocTypes'
      /\ root' \in [Wraps -> Docs \union {NoDoc}]
      /\ handle' \in [Wraps -> Nodes \union {NoNode}]
  BY <1>1, DestroyTypes
<1>3. TypeOK'
  BY <1>1, <1>2 DEF TypeOK, DocTypes, history
<1>4. UpClosed(parent', tree')
  BY <1>1, DestroyShape
<1>5. QED
  BY <1>3, <1>4 DEF Shape

\* The three ways of finalizeXML.
OfNoDocument(w) ==
  /\ root[w] = NoDoc \/ (Open(w) /\ usages[w] > 1)
  /\ ReleaseQuietly(w)
  /\ UNCHANGED <<treeVars, docVars>>

OfOthersToo(w) ==
  /\ Open(w) /\ usages[w] = 1 /\ ~LastOf(w)
  /\ nodes' = [nodes EXCEPT ![root[w]][handle[w]] = NoWrap]
  /\ ReleaseQuietly(w)
  /\ UNCHANGED <<treeVars, docs, root_node>>

OfLast(w) ==
  /\ Open(w) /\ usages[w] = 1 /\ LastOf(w)
  /\ Destroy(root[w], {w} \union Closed(root[w]))
  /\ Released(w)

LEMMA FinalizeWays ==
  ASSUME NEW w, Finalize(w)
  PROVE  /\ OfNoDocument(w) \/ OfOthersToo(w) \/ OfLast(w)
         /\ UNCHANGED <<game, misuse, abandoned>>
  BY DEF Finalize, OfNoDocument, OfOthersToo, OfLast, history

LEMMA FinalizeShape ==
  ASSUME WrenXmlAssumption, Shape, NEW w \in wraps, Finalize(w)
  PROVE  Shape'
<1>1. TypeOK /\ UpClosed(parent, tree) /\ UNCHANGED <<game, misuse, abandoned>>
  BY FinalizeWays DEF Shape
<1>2. HistoryTypes'
  BY <1>1 DEF TypeOK, HistoryTypes
<1>3. CASE OfNoDocument(w)
  <2>1. WrapTypes'
    BY <1>1, <1>3, QuietTypes DEF OfNoDocument
  <2>2. QED
    BY <1>1, <1>2, <1>3, <2>1
       DEF Shape, TypeOK, WrapTypes, HistoryTypes, OfNoDocument, UpClosed, treeVars, docVars
<1>4. CASE OfOthersToo(w)
  <2>1. WrapTypes'
    BY <1>1, <1>4, QuietTypes DEF OfOthersToo
  <2>2. nodes' \in [Docs -> [Nodes -> Wraps \union {NoWrap}]]
    <3>1. root[w] \in Docs /\ nodes[root[w]] \in [Nodes -> Wraps \union {NoWrap}]
      BY <1>1, <1>4 DEF OfOthersToo, Open, TypeOK
    <3>2. [nodes[root[w]] EXCEPT ![handle[w]] = NoWrap] \in [Nodes -> Wraps \union {NoWrap}]
      BY <3>1
    <3>3. QED
      BY <1>1, <1>4, <3>1, <3>2 DEF OfOthersToo, TypeOK
  <2>3. QED
    BY <1>1, <1>2, <1>4, <2>1, <2>2
       DEF Shape, TypeOK, WrapTypes, HistoryTypes, OfOthersToo, UpClosed, treeVars
<1>5. CASE OfLast(w)
  <2>1. /\ DocTypes'
        /\ root' \in [Wraps -> Docs \union {NoDoc}]
        /\ handle' \in [Wraps -> Nodes \union {NoNode}]
    BY <1>1, <1>5, DestroyTypes DEF OfLast
  <2>2. WrapTypes'
    BY <1>1, <1>5, <2>1, ReleaseQuietlyTypes DEF OfLast
  <2>3. UpClosed(parent', tree')
    BY <1>1, <1>5, DestroyShape DEF OfLast
  <2>4. QED
    BY <1>2, <2>1, <2>2, <2>3 DEF Shape, TypeOK, WrapTypes, DocTypes, HistoryTypes
<1>6. QED
  BY <1>3, <1>4, <1>5, FinalizeWays

LEMMA UseDanglingShape ==
  ASSUME WrenXmlAssumption, Shape, NEW w \in wraps, UseDangling(w)
  PROVE  Shape'
<1>1. TypeOK /\ UpClosed(parent, tree) /\ UNCHANGED <<treeVars, docVars, history>>
  BY DEF Shape, UseDangling
<1>2. WrapTypes'
  <2>1. CASE UNCHANGED wrapVars
    BY <1>1, <2>1 DEF TypeOK, WrapTypes, wrapVars
  <2>2. CASE ReleaseQuietly(w)
    BY <1>1, <2>2, QuietTypes
  <2>3. QED
    BY <2>1, <2>2 DEF UseDangling
<1>3. HistoryTypes'
  BY <1>1 DEF UseDangling, TypeOK, HistoryTypes, history
<1>4. QED
  BY <1>1, <1>2, <1>3 DEF Shape, TypeOK, WrapTypes, HistoryTypes, UpClosed, treeVars, docVars

LEMMA UseClosedShape ==
  ASSUME Shape, NEW w, UseClosed(w)
  PROVE  Shape'
<1>1. TypeOK'
  BY DEF UseClosed, Shape, TypeOK, treeVars, docVars, wrapVars
<1>2. QED
  BY <1>1 DEF UseClosed, Shape, UpClosed, treeVars

LEMMA GetTextShape ==
  ASSUME Shape, NEW w, GetText(w)
  PROVE  Shape'
<1>1. TypeOK'
  BY DEF GetText, Shape, TypeOK, treeVars, docVars, wrapVars
<1>2. QED
  BY <1>1 DEF GetText, Shape, UpClosed, treeVars

LEMMA ShapeStep ==
  ASSUME WrenXmlAssumption, Shape, [Next]_vars
  PROVE  Shape'
<1>1. CASE UNCHANGED vars
  BY <1>1 DEF Shape, TypeOK, UpClosed, vars, treeVars, docVars, wrapVars, history
<1>2. ASSUME NEW d \in Docs, NEW n \in Nodes, NEW child \in Nodes \union {NoNode}, Parse(d, n, child)
      PROVE  Shape'
  BY <1>2, ParseShape
<1>3. ASSUME NEW d \in Docs, NEW w \in Wraps, TryParseFails(d, w) PROVE Shape'
  BY <1>3, BareNodeShape DEF TryParseFails
<1>14. ASSUME NEW w \in Wraps, ParseEmpty(w) PROVE Shape'
  BY <1>14, BareNodeShape DEF ParseEmpty
<1>4. ASSUME NEW w \in wraps, NEW d \in Docs,
             NEW copy \in [Subtree(handle[w]) -> Nodes \ tree],
             \A m, n \in DOMAIN copy : copy[m] = copy[n] => m = n, Clone(w, d, copy)
      PROVE  Shape'
  <2> DEFINE old == Under(tree, parent, handle[w])
             new == {copy[m] : m \in old}
  <2>1. old = Subtree(handle[w])
    BY SubtreeIsUnder
  <2>2. Cloning(w, d, copy, old, new)
    BY <1>4, <2>1 DEF Cloning
  <2> HIDE DEF old, new
  <2>3. QED
    BY <2>2, CloneKeepsShape
<1>5. ASSUME NEW w \in wraps, NEW n \in Nodes, CreateElement(w, n) PROVE Shape'
  BY <1>5, CreateShape
<1>6. ASSUME NEW w \in wraps, Navigate(w) PROVE Shape'
  BY <1>6, NavigateShape
<1>7. ASSUME NEW w \in wraps, NEW d \in Docs, Detach(w, d) PROVE Shape'
  BY <1>7, DetachShape
<1>8. ASSUME NEW w \in wraps, NEW c \in wraps, Attach(w, c) PROVE Shape'
  BY <1>8, AttachShape
<1>9. ASSUME NEW w \in wraps, Delete(w) PROVE Shape'
  BY <1>9, DeleteShape
<1>10. ASSUME NEW w \in wraps, Finalize(w) PROVE Shape'
  BY <1>10, FinalizeShape
<1>11. ASSUME NEW w \in wraps, UseDangling(w) PROVE Shape'
  BY <1>11, UseDanglingShape
<1>12. ASSUME NEW w \in wraps, UseClosed(w) PROVE Shape'
  BY <1>12, UseClosedShape
<1>15. ASSUME NEW w \in wraps, GetText(w) PROVE Shape'
  BY <1>15, GetTextShape
<1>13. QED
  BY <1>1, <1>2, <1>3, <1>4, <1>5, <1>6, <1>7, <1>8, <1>9, <1>10, <1>11, <1>12, <1>14, <1>15
  DEF Next

-----------------------------------------------------------------------------
(* Every action keeps the documents exact. *)

\* A document d with a new tree of nodes N, whose root is n.
LEMMA NewTreeKeeps ==
  ASSUME WrenXmlAssumption, Shape, Exact, NEW d, NEW n, NEW N \in SUBSET Nodes,
         N \intersect tree = {}, tree' = tree \union N, \A x \in tree : parent'[x] = parent[x],
         UpClosed(parent', N), n \in N, parent'[n] = NoNode,
         \A x \in N : Reaches(tree', parent', x, n),
         NewDocument(d, n), UNCHANGED <<misuse, abandoned>>
  PROVE  Exact'
<1>1. /\ TypeOK /\ UpClosed(parent, tree)
      /\ Forest /\ WrapsKnown /\ MapsKnown /\ LostDocs /\ NoDangling
  BY DEF Shape, Exact
<1>2. /\ d \in Docs /\ d \notin docs /\ n \in Nodes /\ n \notin tree
      /\ docs' = docs \union {d} /\ GetAndUse(d, n, EmptyMap)
  BY DEF NewDocument
<1>3. root_node'[d] = n /\ \A e \in docs : root_node'[e] = root_node[e]
  BY <1>1, <1>2 DEF NewDocument, TypeOK
<1>4. ASSUME NEW e \in docs
      PROVE  Under(tree', parent', root_node'[e]) = Under(tree, parent, root_node[e])
  <2>1. root_node[e] \in tree /\ root_node'[e] = root_node[e]
    BY <1>1, <1>3 DEF Forest
  <2>2. tree' \ tree = N /\ tree \subseteq tree'
    OBVIOUS
  <2>3. UpClosed(parent', tree' \ tree)
    BY <2>2
  <2>4. QED
    BY <1>1, <2>1, <2>2, <2>3, UnderApart
<1>5. \A x \in N : x \in Under(tree', parent', root_node'[d])
  BY <1>3 DEF Under
<1>6. Forest'
  <2>1. ASSUME NEW e \in docs' PROVE root_node'[e] \in tree' /\ parent'[root_node'[e]] = NoNode
    BY <1>1, <1>2, <1>3 DEF Forest
  <2>2. \A e \in docs : root_node'[e] # root_node'[d]
    BY <1>1, <1>2, <1>3 DEF Forest
  <2>3. ASSUME NEW e \in docs', NEW f \in docs', root_node'[e] = root_node'[f] PROVE e = f
    <3>1. CASE e \in docs /\ f \in docs
      BY <1>1, <1>3, <2>3, <3>1 DEF Forest
    <3>2. QED
      BY <1>2, <2>2, <2>3, <3>1
  <2>4. ASSUME NEW x \in tree' PROVE \E e \in docs' : x \in Under(tree', parent', root_node'[e])
    <3>1. CASE x \in N
      BY <1>2, <1>5, <3>1
    <3>2. CASE x \in tree
      <4>1. PICK e \in docs : x \in Under(tree, parent, root_node[e])
        BY <1>1, <3>2 DEF Forest
      <4>2. QED
        BY <1>2, <1>4, <4>1
    <3>3. QED
      BY <3>1, <3>2
  <2>5. QED
    BY <2>1, <2>3, <2>4 DEF Forest
<1>7. WrapsKnown' /\ MapsKnown' /\ LostDocs' /\ NoDangling'
  <2>1. \A m \in Nodes : EmptyMap[m] = nodes[d][m]
    BY <1>1, <1>2 DEF MapsKnown, EmptyMap
  <2>2. d \notin abandoned
    BY <1>1, <1>2 DEF LostDocs
  <2>3. \A e \in docs : Under(tree, parent, root_node[e]) \subseteq Under(tree', parent', root_node'[e])
    BY <1>4
  <2>4. n \in Under(tree', parent', root_node'[d])
    BY <1>5
  <2>5. QED
    BY <1>1, <1>2, <2>1, <2>2, <2>3, <2>4, EmptyMapType, GetAndUseKeeps
<1>8. QED
  BY <1>6, <1>7 DEF Exact

LEMMA ParseKeeps ==
  ASSUME WrenXmlAssumption, Shape, Exact, NEW d, NEW n \in Nodes,
         NEW child \in Nodes \union {NoNode}, Parse(d, n, child)
  PROVE  Exact'
<1> DEFINE N == {n, child} \ {NoNode}
<1>1. /\ N \in SUBSET Nodes /\ N \intersect tree = {} /\ tree' = tree \union N
      /\ n \in N /\ n # NoNode /\ tree \subseteq Nodes /\ NoNode \notin tree'
  BY DEF Parse, WrenXmlAssumption, Shape, TypeOK
<1>2. \A x \in tree : parent'[x] = parent[x]
  BY <1>1 DEF Parse
<1>3. parent'[n] = NoNode /\ (child \in N => parent'[child] = n)
  BY DEF Parse, WrenXmlAssumption
<1>4. UpClosed(parent', N)
  BY <1>1, <1>3 DEF UpClosed
<1>5. Reaches(tree', parent', n, n)
  BY <1>1, ReachItself
<1>6. child \in N => Reaches(tree', parent', child, n)
  <2>1. child \in N => child \in tree' /\ parent'[child] \in tree' /\ parent'[child] = n
    BY <1>1, <1>3
  <2>2. QED
    BY <1>1, <1>5, <2>1, ReachFromChild
<1>7. \A x \in N : Reaches(tree', parent', x, n)
  BY <1>5, <1>6
<1>8. NewDocument(d, n) /\ UNCHANGED <<misuse, abandoned>>
  BY DEF Parse, history
<1> HIDE DEF N
<1>9. QED
  BY <1>1, <1>2, <1>3, <1>4, <1>7, <1>8, NewTreeKeeps

LEMMA CloneKeeps ==
  ASSUME WrenXmlAssumption, Shape, Exact, NEW w, NEW d, NEW copy, NEW old, NEW new,
         Cloning(w, d, copy, old, new)
  PROVE  Exact'
<1>1. TypeOK /\ UpClosed(parent, tree) /\ Clone(w, d, copy)
  BY DEF Shape, Cloning
<1>2. /\ handle[w] \in old /\ old \subseteq tree
      /\ new \subseteq Nodes /\ new \intersect tree = {} /\ tree' = tree \union new
      /\ \A m \in tree : parent'[m] = parent[m]
      /\ \A o \in old : o # handle[w] => parent[o] \in old
      /\ \A o \in old : parent'[copy[o]] = IF o = handle[w] THEN NoNode ELSE copy[parent[o]]
      /\ NewDocument(d, copy[handle[w]])
  BY <1>1, CloneShape
<1>3. UpClosed(parent', new)
  BY <1>1, CloneCloses
<1>4. new = {copy[o] : o \in old} /\ old = Under(tree, parent, handle[w])
  BY DEF Cloning
<1>5. copy[handle[w]] \in new /\ parent'[copy[handle[w]]] = NoNode
  BY <1>2, <1>4
<1>6. ASSUME NEW o \in old PROVE Reaches(tree', parent', copy[o], copy[handle[w]])
  <2>1. SUFFICES ASSUME NEW S \in SUBSET tree', copy[o] \in S, UpClosed(parent', S),
                        copy[handle[w]] \notin S
                 PROVE  FALSE
    BY DEF Reaches
  <2> DEFINE Z == {x \in old : copy[x] \in S}
  <2>2. Z \in SUBSET tree /\ o \in Z /\ handle[w] \notin Z
    BY <1>2, <2>1
  <2>3. ASSUME NEW x \in Z PROVE parent[x] \in Z
    <3>1. x \in old /\ x # handle[w] /\ copy[x] \in S
      BY <2>2, <2>3
    <3>2. parent[x] \in old /\ parent'[copy[x]] = copy[parent[x]]
      BY <1>2, <3>1
    <3>3. copy[parent[x]] \in new
      BY <1>4, <3>2
    <3>4. copy[parent[x]] # NoNode
      BY <1>2, <3>3 DEF WrenXmlAssumption
    <3>5. copy[parent[x]] \in S
      BY <2>1, <3>1, <3>2, <3>4 DEF UpClosed
    <3>6. QED
      BY <3>2, <3>5
  <2> HIDE DEF Z
  <2>4. Reaches(tree, parent, o, handle[w])
    BY <1>4 DEF Under
  <2>5. QED
    BY <2>2, <2>3, <2>4 DEF Reaches, UpClosed
<1>7. \A x \in new : Reaches(tree', parent', x, copy[handle[w]])
  BY <1>4, <1>6
<1>8. UNCHANGED <<misuse, abandoned>>
  BY <1>1 DEF Clone, history
<1>9. QED
  BY <1>2, <1>3, <1>5, <1>7, <1>8, NewTreeKeeps

LEMMA CreateKeeps ==
  ASSUME WrenXmlAssumption, Shape, Exact, NEW w, NEW n \in Nodes, CreateElement(w, n)
  PROVE  Exact'
<1>1. /\ TypeOK /\ UpClosed(parent, tree) /\ NoNode \notin tree
      /\ Forest /\ WrapsKnown /\ MapsKnown /\ LostDocs /\ NoDangling
  BY DEF Shape, Exact, TypeOK, WrenXmlAssumption
<1>2. /\ Open(w) /\ GetAndUse(root[w], n, nodes[root[w]])
      /\ n \notin tree /\ tree' = tree \union {n} /\ parent' = [parent EXCEPT ![n] = handle[w]]
      /\ docs' = docs /\ root_node' = root_node /\ UNCHANGED <<misuse, abandoned>>
  BY DEF CreateElement, history
<1>3. /\ root[w] \in docs /\ root[w] \in Docs /\ root[w] \notin abandoned /\ handle[w] \in tree
      /\ Reaches(tree, parent, handle[w], root_node[root[w]])
  BY <1>1, <1>2, OpenInTree
<1>4. \A x \in tree : parent'[x] = parent[x]
  BY <1>1, <1>2 DEF TypeOK
<1>5. parent'[n] = handle[w] /\ NoNode \notin tree'
  BY <1>1, <1>2 DEF TypeOK, WrenXmlAssumption
<1>6. ASSUME NEW m \in tree, NEW r
      PROVE  Reaches(tree, parent, m, r) <=> Reaches(tree', parent', m, r)
  <2>1. tree \subseteq tree'
    BY <1>2
  <2>2. QED
    BY <1>1, <1>4, <2>1, ReachUnchanged
<1>7. \A e \in docs : Under(tree, parent, root_node[e]) \subseteq Under(tree', parent', root_node'[e])
  BY <1>2, <1>6 DEF Under
<1>8. n \in Under(tree', parent', root_node'[root[w]])
  <2>1. Reaches(tree', parent', handle[w], root_node[root[w]])
    BY <1>3, <1>6
  <2>2. Reaches(tree', parent', n, root_node[root[w]])
    <3>1. n \in tree' /\ parent'[n] \in tree'
      BY <1>2, <1>3, <1>5
    <3>2. QED
      BY <1>5, <2>1, <3>1, ReachFromChild
  <2>3. QED
    BY <1>2, <2>2 DEF Under
<1>9. Forest'
  <2>1. ASSUME NEW e \in docs' PROVE root_node'[e] \in tree' /\ parent'[root_node'[e]] = NoNode
    BY <1>1, <1>2, <1>4 DEF Forest
  <2>2. ASSUME NEW x \in tree' PROVE \E e \in docs' : x \in Under(tree', parent', root_node'[e])
    <3>1. CASE x = n
      BY <1>2, <1>3, <1>8, <3>1
    <3>2. CASE x \in tree
      BY <1>1, <1>2, <1>7, <3>2 DEF Forest
    <3>3. QED
      BY <1>2, <3>1, <3>2
  <2>3. \A e, f \in docs' : root_node'[e] = root_node'[f] => e = f
    BY <1>1, <1>2 DEF Forest
  <2>4. QED
    BY <2>1, <2>2, <2>3 DEF Forest
<1>10. WrapsKnown' /\ MapsKnown' /\ LostDocs' /\ NoDangling'
  <2>1. nodes[root[w]] \in [Nodes -> Wraps \union {NoWrap}] /\ docs' = docs \union {root[w]}
    BY <1>1, <1>2, <1>3 DEF TypeOK
  <2>2. QED
    BY <1>1, <1>2, <1>3, <1>7, <1>8, <2>1, GetAndUseKeeps
<1>11. QED
  BY <1>9, <1>10 DEF Exact

LEMMA NavigateKeeps ==
  ASSUME WrenXmlAssumption, Shape, Exact, NEW w, Navigate(w)
  PROVE  Exact'
<1>1. /\ TypeOK /\ UpClosed(parent, tree) /\ NoNode \notin tree
      /\ Forest /\ WrapsKnown /\ MapsKnown /\ LostDocs /\ NoDangling
  BY DEF Shape, Exact, TypeOK, WrenXmlAssumption
<1>2. /\ Open(w) /\ tree' = tree /\ parent' = parent /\ docs' = docs /\ root_node' = root_node
      /\ UNCHANGED <<misuse, abandoned>>
  BY DEF Navigate, history, treeVars
<1>3. PICK n \in Siblings(handle[w]) \union Children(handle[w]) \union ({parent[handle[w]]} \ {NoNode}) :
        GetAndUse(root[w], n, nodes[root[w]])
  BY DEF Navigate
<1>4. /\ root[w] \in docs /\ root[w] \in Docs /\ root[w] \notin abandoned /\ handle[w] \in tree
      /\ Reaches(tree, parent, handle[w], root_node[root[w]])
  BY <1>1, <1>2, OpenInTree
<1>5. parent[root_node[root[w]]] = NoNode
  BY <1>1, <1>4 DEF Forest
<1>6. parent[handle[w]] # NoNode =>
        /\ parent[handle[w]] \in tree
        /\ Reaches(tree, parent, parent[handle[w]], root_node[root[w]])
  <2>1. SUFFICES ASSUME parent[handle[w]] # NoNode
                 PROVE  /\ parent[handle[w]] \in tree
                        /\ Reaches(tree, parent, parent[handle[w]], root_node[root[w]])
    OBVIOUS
  <2>2. handle[w] # root_node[root[w]]
    BY <1>5, <2>1
  <2>3. QED
    BY <1>1, <1>4, <2>2, ReachFromParent
<1>7. n \in tree /\ Reaches(tree, parent, n, root_node[root[w]])
  <2>1. CASE n \in Siblings(handle[w])
    <3>1. n \in tree /\ parent[n] = parent[handle[w]] /\ parent[handle[w]] # NoNode
      BY <2>1 DEF Siblings
    <3>2. QED
      BY <1>1, <1>6, <3>1, ReachFromChild
  <2>2. CASE n \in Children(handle[w])
    <3>1. n \in tree /\ parent[n] = handle[w]
      BY <2>2 DEF Children
    <3>2. QED
      BY <1>1, <1>4, <3>1, ReachFromChild
  <2>3. CASE n \in {parent[handle[w]]} \ {NoNode}
    BY <1>6, <2>3
  <2>4. QED
    BY <1>3, <2>1, <2>2, <2>3
<1>8. n \in Under(tree', parent', root_node'[root[w]]) /\ n \in Nodes
  BY <1>1, <1>2, <1>7 DEF Under, TypeOK
<1>9. \A e \in docs : Under(tree, parent, root_node[e]) \subseteq Under(tree', parent', root_node'[e])
  BY <1>2
<1>10. Forest'
  BY <1>1, <1>2 DEF Forest
<1>11. WrapsKnown' /\ MapsKnown' /\ LostDocs' /\ NoDangling'
  <2>1. nodes[root[w]] \in [Nodes -> Wraps \union {NoWrap}] /\ docs' = docs \union {root[w]}
    BY <1>1, <1>2, <1>4 DEF TypeOK
  <2>2. QED
    BY <1>1, <1>2, <1>3, <1>4, <1>8, <1>9, <2>1, GetAndUseKeeps
<1>12. QED
  BY <1>10, <1>11 DEF Exact

LEMMA BareNodeKeeps ==
  ASSUME WrenXmlAssumption, Shape, Exact, NEW d, NEW w, BareNode(w, d)
  PROVE  Exact'
<1>1. /\ TypeOK /\ Forest /\ WrapsKnown /\ MapsKnown /\ LostDocs
  BY DEF Shape, Exact
<1>2. /\ w \in Wraps /\ w \notin wraps /\ wraps' = wraps \union {w} /\ misuse' # {}
      /\ tree' = tree /\ parent' = parent /\ docs' = docs /\ root_node' = root_node
      /\ nodes' = nodes /\ abandoned' = abandoned
  BY DEF BareNode, treeVars, docVars
<1>3. \A x \in Wraps : x # w => root'[x] = root[x] /\ handle'[x] = handle[x]
  BY <1>1 DEF BareNode, TypeOK
<1>4. handle'[w] = NoNode
  BY <1>1, <1>2 DEF BareNode, TypeOK
<1>5. WrapsKnown'
  BY <1>1, <1>2, <1>3, <1>4 DEF WrapsKnown, TypeOK
<1>6. MapsKnown'
  <2>1. SUFFICES ASSUME NEW e \in Docs, NEW m \in Nodes, nodes[e][m] # NoWrap
                 PROVE  /\ e \in docs /\ nodes[e][m] \in wraps'
                        /\ root'[nodes[e][m]] = e /\ handle'[nodes[e][m]] = m
                        /\ m \in Under(tree, parent, root_node[e])
    BY <1>2 DEF MapsKnown
  <2>2. /\ e \in docs /\ nodes[e][m] \in wraps
        /\ root[nodes[e][m]] = e /\ handle[nodes[e][m]] = m
        /\ m \in Under(tree, parent, root_node[e])
    BY <1>1, <2>1 DEF MapsKnown
  <2>3. nodes[e][m] # w /\ nodes[e][m] \in Wraps
    BY <1>1, <1>2, <2>2 DEF TypeOK
  <2>4. QED
    BY <1>2, <1>3, <2>2, <2>3
<1>7. Forest' /\ LostDocs'
  BY <1>1, <1>2 DEF Forest, LostDocs
<1>8. NoDangling'
  BY <1>2 DEF NoDangling
<1>9. QED
  BY <1>5, <1>6, <1>7, <1>8 DEF Exact

\* attach, of a whole tree to one of another document.
LEMMA AttachKeeps ==
  ASSUME WrenXmlAssumption, Shape, Exact, NEW w, NEW c, Attach(w, c), WellUsed'
  PROVE  Exact'
<1> DEFINE old == root[c]
           new == root[w]
<1>1. /\ TypeOK /\ UpClosed(parent, tree) /\ NoNode \notin tree
      /\ Forest /\ WrapsKnown /\ MapsKnown /\ LostDocs /\ NoDangling
  BY DEF Shape, Exact, TypeOK, WrenXmlAssumption
<1>2. /\ Open(w) /\ Open(c) /\ tree' = tree /\ wraps' = wraps /\ handle' = handle
      /\ abandoned' = abandoned /\ docs' = docs \ {old}
  BY DEF Attach
<1>3. parent[handle[c]] = NoNode /\ old # new
  BY DEF Attach, WellUsed
<1>4. /\ new \in docs /\ new \in Docs /\ new \notin abandoned /\ handle[w] \in tree
      /\ Reaches(tree, parent, handle[w], root_node[new])
  BY <1>1, <1>2, OpenInTree
<1>5. /\ old \in docs /\ old \in Docs /\ old \notin abandoned /\ handle[c] \in tree
      /\ Reaches(tree, parent, handle[c], root_node[old])
  BY <1>1, <1>2, OpenInTree
<1>6. handle[c] = root_node[old]
  BY <1>3, <1>5, RootReachesItself
<1>7. parent'[handle[c]] = handle[w] /\ \A x \in tree \ {handle[c]} : parent'[x] = parent[x]
  BY <1>1, <1>5 DEF Attach, TypeOK
<1>8. \A e \in Docs : e # old => root_node'[e] = root_node[e]
  BY <1>1 DEF Attach, TypeOK
<1>9. /\ \A n \in Nodes : nodes'[new][n] = IF nodes[old][n] # NoWrap THEN nodes[old][n] ELSE nodes[new][n]
      /\ \A n \in Nodes : nodes'[old][n] = NoWrap
      /\ \A e \in Docs : e # old /\ e # new => nodes'[e] = nodes[e]
  <2>1. nodes' = [nodes EXCEPT
                    ![new] = [n \in Nodes |-> IF nodes[old][n] # NoWrap THEN nodes[old][n] ELSE @[n]],
                    ![old] = EmptyMap]
    BY DEF Attach
  <2>2. nodes'[new] = [n \in Nodes |-> IF nodes[old][n] # NoWrap THEN nodes[old][n] ELSE nodes[new][n]]
    BY <1>1, <1>3, <1>4, <1>5, <2>1 DEF TypeOK
  <2>3. nodes'[old] = EmptyMap /\ \A e \in Docs : e # old /\ e # new => nodes'[e] = nodes[e]
    BY <1>1, <1>3, <1>4, <1>5, <2>1 DEF TypeOK
  <2>4. QED
    BY <2>2, <2>3 DEF EmptyMap
<1>10. \A x \in Wraps : root'[x] = IF \E n \in Nodes : nodes[old][n] # NoWrap /\ nodes[old][n] = x
                                   THEN new ELSE root[x]
  BY DEF Attach, Rehomed, Mapped
<1> HIDE DEF old, new
<1>11. ASSUME NEW m, NEW r, Reaches(tree, parent, m, r) PROVE Reaches(tree, parent', m, r)
  BY <1>3, <1>5, <1>7, <1>11, ReachAfterGraft
<1>12. ASSUME NEW m, Reaches(tree, parent, m, root_node[old])
       PROVE  Reaches(tree, parent', m, root_node[new])
  <2>1. Reaches(tree, parent', m, handle[c])
    BY <1>6, <1>11, <1>12
  <2>2. Reaches(tree, parent', handle[w], root_node[new])
    BY <1>4, <1>11
  <2>3. Reaches(tree, parent', handle[c], root_node[new])
    <3>1. parent'[handle[c]] \in tree /\ parent'[handle[c]] = handle[w]
      BY <1>4, <1>7
    <3>2. QED
      BY <1>1, <1>5, <2>2, <3>1, ReachFromChild
  <2>4. QED
    BY <2>1, <2>3, ReachOn
<1>13. \A e \in docs : e # old =>
         Under(tree, parent, root_node[e]) \subseteq Under(tree', parent', root_node'[e])
  <2>1. docs \subseteq Docs
    BY <1>1 DEF TypeOK
  <2>2. QED
    BY <1>2, <1>8, <1>11, <2>1 DEF Under
<1>14. Under(tree, parent, root_node[old]) \subseteq Under(tree', parent', root_node'[new])
  BY <1>2, <1>3, <1>4, <1>8, <1>12 DEF Under
<1>15. Forest'
  <2>1. ASSUME NEW e \in docs' PROVE root_node'[e] \in tree' /\ parent'[root_node'[e]] = NoNode
    <3>1. e \in docs /\ e # old /\ e \in Docs
      BY <1>1, <1>2 DEF TypeOK
    <3>2. root_node[e] \in tree /\ root_node[e] # handle[c] /\ parent[root_node[e]] = NoNode
      BY <1>1, <1>5, <1>6, <3>1 DEF Forest
    <3>3. QED
      BY <1>2, <1>7, <1>8, <3>1, <3>2
  <2>2. ASSUME NEW x \in tree' PROVE \E e \in docs' : x \in Under(tree', parent', root_node'[e])
    <3>1. PICK e \in docs : x \in Under(tree, parent, root_node[e])
      BY <1>1, <1>2 DEF Forest
    <3>2. CASE e = old
      BY <1>2, <1>3, <1>4, <1>14, <3>1, <3>2
    <3>3. CASE e # old
      BY <1>2, <1>13, <3>1, <3>3
    <3>4. QED
      BY <3>2, <3>3
  <2>3. \A e, f \in docs' : root_node'[e] = root_node'[f] => e = f
    BY <1>1, <1>2, <1>8 DEF Forest, TypeOK
  <2>4. QED
    BY <2>1, <2>2, <2>3 DEF Forest
<1>16. ASSUME NEW e \in Docs, NEW n \in Nodes, nodes[e][n] # NoWrap, e # old
       PROVE  root'[nodes[e][n]] = e
  <2>1. nodes[e][n] \in Wraps /\ root[nodes[e][n]] = e
    BY <1>1, <1>16 DEF MapsKnown, TypeOK
  <2>2. \A m \in Nodes : nodes[old][m] # NoWrap => nodes[old][m] # nodes[e][n]
    BY <1>1, <1>5, <1>16, <2>1 DEF MapsKnown
  <2>3. QED
    BY <1>10, <2>1, <2>2
<1>17. ASSUME NEW n \in Nodes, nodes[old][n] # NoWrap PROVE root'[nodes[old][n]] = new
  <2>1. nodes[old][n] \in Wraps
    BY <1>1, <1>5, <1>17 DEF TypeOK
  <2>2. QED
    BY <1>10, <1>17, <2>1
<1>18. MapsKnown'
  <2>1. SUFFICES ASSUME NEW e \in Docs, NEW n \in Nodes, nodes'[e][n] # NoWrap
                 PROVE  /\ e \in docs' /\ nodes'[e][n] \in wraps'
                        /\ root'[nodes'[e][n]] = e /\ handle'[nodes'[e][n]] = n
                        /\ n \in Under(tree', parent', root_node'[e])
    BY DEF MapsKnown
  <2>2. e # old
    BY <1>9, <2>1
  <2>3. CASE e = new /\ nodes[old][n] # NoWrap
    <3>1. nodes'[e][n] = nodes[old][n]
      BY <1>9, <2>3
    <3>2. /\ nodes[old][n] \in wraps /\ handle[nodes[old][n]] = n
          /\ n \in Under(tree, parent, root_node[old])
      BY <1>1, <1>5, <2>3 DEF MapsKnown
    <3>3. root'[nodes[old][n]] = new
      BY <1>17, <2>3
    <3>4. QED
      BY <1>2, <1>3, <1>4, <1>14, <2>3, <3>1, <3>2, <3>3
  <2>4. CASE ~(e = new /\ nodes[old][n] # NoWrap)
    <3>1. nodes'[e][n] = nodes[e][n]
      BY <1>9, <2>2, <2>4
    <3>2. /\ e \in docs /\ nodes[e][n] \in wraps /\ handle[nodes[e][n]] = n
          /\ n \in Under(tree, parent, root_node[e])
      BY <1>1, <2>1, <3>1 DEF MapsKnown
    <3>3. root'[nodes[e][n]] = e
      BY <1>16, <2>1, <2>2, <3>1
    <3>4. QED
      BY <1>2, <1>13, <2>2, <3>1, <3>2, <3>3
  <2>5. QED
    BY <2>3, <2>4
<1>19. WrapsKnown'
  <2>1. SUFFICES ASSUME NEW x \in wraps, handle[x] # NoNode
                 PROVE  root'[x] \in docs' /\ nodes'[root'[x]][handle[x]] = x
    BY <1>2 DEF WrapsKnown
  <2>2. /\ root[x] \in docs /\ root[x] \in Docs /\ handle[x] \in Nodes
        /\ nodes[root[x]][handle[x]] = x /\ x # NoWrap
    BY <1>1, <2>1 DEF WrapsKnown, TypeOK, WrenXmlAssumption
  <2>3. CASE root[x] = old
    <3>1. root'[x] = new
      BY <1>17, <2>2, <2>3
    <3>2. QED
      BY <1>2, <1>3, <1>4, <1>9, <2>2, <2>3, <3>1
  <2>4. CASE root[x] # old
    <3>1. root'[x] = root[x]
      BY <1>16, <2>2, <2>4
    <3>2. nodes[old][handle[x]] = NoWrap
      <4>1. SUFFICES ASSUME nodes[old][handle[x]] # NoWrap PROVE FALSE
        OBVIOUS
      <4>2. /\ handle[x] \in tree /\ Reaches(tree, parent, handle[x], root_node[old])
            /\ Reaches(tree, parent, handle[x], root_node[root[x]])
        BY <1>1, <1>5, <2>2, <4>1 DEF MapsKnown, Under
      <4>3. parent[root_node[old]] = NoNode /\ parent[root_node[root[x]]] = NoNode
        BY <1>1, <1>5, <2>2 DEF Forest
      <4>4. root_node[old] = root_node[root[x]]
        BY <1>1, <4>2, <4>3, OneRoot
      <4>5. QED
        BY <1>1, <1>5, <2>2, <2>4, <4>4 DEF Forest
    <3>3. QED
      BY <1>2, <1>9, <2>2, <2>4, <3>1, <3>2
  <2>5. QED
    BY <2>3, <2>4
<1>20. LostDocs'
  <2>1. SUFFICES ASSUME NEW e \in Docs
                 PROVE  (e \in abandoned) <=> (e \in docs' /\ \A n \in Nodes : nodes'[e][n] = NoWrap)
    BY <1>2 DEF LostDocs
  <2>2. CASE e = old
    BY <1>2, <1>5, <2>2
  <2>3. CASE e = new
    <3>1. PICK n \in Nodes : nodes[new][n] # NoWrap
      BY <1>1, <1>4 DEF LostDocs
    <3>2. nodes'[new][n] # NoWrap
      BY <1>9, <3>1
    <3>3. QED
      BY <1>4, <2>3, <3>2
  <2>4. CASE e # old /\ e # new
    BY <1>1, <1>2, <1>9, <2>4 DEF LostDocs
  <2>5. QED
    BY <2>2, <2>3, <2>4
<1>21. NoDangling'
  <2>1. SUFFICES ASSUME misuse' = {}, NEW x \in wraps, root'[x] # NoDoc PROVE handle[x] # NoNode
    BY <1>2 DEF NoDangling
  <2>2. misuse = {}
    BY <2>1 DEF Attach
  <2>3. x \in Wraps
    BY <1>1 DEF TypeOK
  <2>4. CASE \E n \in Nodes : nodes[old][n] # NoWrap /\ nodes[old][n] = x
    BY <1>1, <1>5, <2>4 DEF MapsKnown, WrenXmlAssumption
  <2>5. CASE ~\E n \in Nodes : nodes[old][n] # NoWrap /\ nodes[old][n] = x
    <3>1. root'[x] = root[x]
      BY <1>10, <2>3, <2>5
    <3>2. QED
      BY <1>1, <2>1, <2>2, <3>1 DEF NoDangling
  <2>6. QED
    BY <2>4, <2>5
<1>22. QED
  BY <1>15, <1>18, <1>19, <1>20, <1>21 DEF Exact

\* detach, which cuts the tree of w's document in two.
LEMMA DetachKeeps ==
  ASSUME WrenXmlAssumption, Shape, Exact, NEW w, NEW d, Detach(w, d)
  PROVE  Exact'
<1> DEFINE old == root[w]
           h == handle[w]
           gone == Moved(w)
<1>1. /\ TypeOK /\ UpClosed(parent, tree) /\ NoNode \notin tree
      /\ Forest /\ WrapsKnown /\ MapsKnown /\ LostDocs /\ NoDangling
  BY DEF Shape, Exact, TypeOK, WrenXmlAssumption
<1>2. /\ Open(w) /\ parent[h] # NoNode /\ d \in Docs /\ d \notin docs
      /\ docs' = docs \union {d} /\ tree' = tree /\ wraps' = wraps /\ handle' = handle
      /\ misuse' = misuse
  BY DEF Detach
<1>3. /\ old \in docs /\ old \in Docs /\ old # d /\ h \in tree /\ h \in Nodes
      /\ Reaches(tree, parent, h, root_node[old])
  BY <1>1, <1>2, OpenInTree
<1>4. nodes[old][h] = w /\ w # NoWrap
  BY <1>1, <1>2, OpenInTree DEF Open
<1>5. parent'[h] = NoNode /\ \A x \in tree \ {h} : parent'[x] = parent[x]
  BY <1>1, <1>3 DEF Detach, TypeOK
<1>6. root_node'[d] = h /\ \A e \in docs : root_node'[e] = root_node[e]
  BY <1>1, <1>2 DEF Detach, TypeOK
<1>7. \A n \in Nodes : (n \in gone) <=> (nodes[old][n] # NoWrap /\ n \in tree /\ Reaches(tree, parent, n, h))
  BY SubtreeIsUnder DEF Moved, Mapped, Under
<1>8. /\ \A n \in Nodes : nodes'[old][n] = IF n \in gone THEN NoWrap ELSE nodes[old][n]
      /\ \A n \in Nodes : nodes'[d][n] = IF n \in gone THEN nodes[old][n] ELSE NoWrap
      /\ \A e \in Docs : e # old /\ e # d => nodes'[e] = nodes[e]
  <2>1. nodes' = [nodes EXCEPT
                    ![old] = [n \in Nodes |-> IF n \in gone THEN NoWrap ELSE @[n]],
                    ![d] = [n \in Nodes |-> IF n \in gone THEN nodes[old][n] ELSE NoWrap]]
    BY DEF Detach
  <2> HIDE DEF gone
  <2>2. nodes'[old] = [n \in Nodes |-> IF n \in gone THEN NoWrap ELSE nodes[old][n]]
    BY <1>1, <1>2, <1>3, <2>1 DEF TypeOK
  <2>3. nodes'[d] = [n \in Nodes |-> IF n \in gone THEN nodes[old][n] ELSE NoWrap]
    BY <1>1, <1>2, <1>3, <2>1 DEF TypeOK
  <2>4. \A e \in Docs : e # old /\ e # d => nodes'[e] = nodes[e]
    BY <1>1, <1>2, <1>3, <2>1 DEF TypeOK
  <2>5. QED
    BY <2>2, <2>3, <2>4
<1>9. \A x \in Wraps : root'[x] = IF \E n \in gone : nodes[old][n] = x THEN d ELSE root[x]
  BY DEF Detach
<1>10. abandoned' = IF Mapped(old) = gone THEN abandoned \union {old} ELSE abandoned
  BY DEF Detach
<1>11. gone \subseteq Nodes
  BY DEF Moved, Mapped
<1> HIDE DEF old, h, gone
<1>12. ASSUME NEW m, Reaches(tree, parent, m, h) PROVE Reaches(tree, parent', m, h)
  BY <1>5, <1>12, ReachCutOff
<1>13. ASSUME NEW m \in tree, NEW r, Reaches(tree, parent, m, r), ~Reaches(tree, parent, m, h)
       PROVE  Reaches(tree, parent', m, r)
  BY <1>1, <1>3, <1>5, <1>13, ReachPastCut
<1>14. ASSUME NEW e \in docs, NEW m \in tree, Reaches(tree, parent, m, root_node[e]), e # old
       PROVE  ~Reaches(tree, parent, m, h)
  <2>1. SUFFICES ASSUME Reaches(tree, parent, m, h) PROVE FALSE
    OBVIOUS
  <2>2. Reaches(tree, parent, m, root_node[old])
    BY <1>3, <2>1, ReachOn
  <2>3. parent[root_node[old]] = NoNode /\ parent[root_node[e]] = NoNode
    BY <1>1, <1>3 DEF Forest
  <2>4. root_node[old] = root_node[e]
    BY <1>1, <1>14, <2>2, <2>3, OneRoot
  <2>5. QED
    BY <1>1, <1>3, <1>14, <2>4 DEF Forest
<1>15. Forest'
  <2>1. ASSUME NEW e \in docs PROVE root_node[e] \in tree /\ root_node[e] # h /\ parent'[root_node[e]] = NoNode
    <3>1. root_node[e] \in tree /\ parent[root_node[e]] = NoNode
      BY <1>1 DEF Forest
    <3>2. root_node[e] # h
      BY <1>2, <3>1 DEF h
    <3>3. QED
      BY <1>5, <3>1, <3>2
  <2>2. ASSUME NEW e \in docs' PROVE root_node'[e] \in tree' /\ parent'[root_node'[e]] = NoNode
    BY <1>2, <1>3, <1>5, <1>6, <2>1
  <2>3. ASSUME NEW e \in docs', NEW f \in docs', root_node'[e] = root_node'[f] PROVE e = f
    <3>1. CASE e \in docs /\ f \in docs
      BY <1>1, <1>6, <2>3, <3>1 DEF Forest
    <3>2. QED
      BY <1>2, <1>6, <2>1, <2>3, <3>1
  <2>4. ASSUME NEW x \in tree' PROVE \E e \in docs' : x \in Under(tree', parent', root_node'[e])
    <3>1. CASE Reaches(tree, parent, x, h)
      BY <1>2, <1>6, <1>12, <3>1 DEF Under
    <3>2. CASE ~Reaches(tree, parent, x, h)
      <4>1. PICK e \in docs : x \in Under(tree, parent, root_node[e])
        BY <1>1, <1>2 DEF Forest
      <4>2. x \in tree /\ Reaches(tree, parent, x, root_node[e])
        BY <4>1 DEF Under
      <4>3. Reaches(tree, parent', x, root_node[e])
        BY <1>13, <3>2, <4>2
      <4>4. QED
        BY <1>2, <1>6, <4>2, <4>3 DEF Under
    <3>3. QED
      BY <3>1, <3>2
  <2>5. QED
    BY <2>2, <2>3, <2>4 DEF Forest
<1>16. ASSUME NEW e \in Docs, NEW n \in Nodes, nodes[e][n] # NoWrap, e # old \/ n \notin gone
       PROVE  root'[nodes[e][n]] = e
  <2>1. nodes[e][n] \in Wraps /\ root[nodes[e][n]] = e /\ handle[nodes[e][n]] = n
    BY <1>1, <1>16 DEF MapsKnown, TypeOK
  <2>2. ASSUME NEW m \in gone, nodes[old][m] = nodes[e][n] PROVE FALSE
    <3>1. m \in Nodes /\ nodes[old][m] # NoWrap
      BY <1>7, <1>11, <2>2
    <3>2. root[nodes[old][m]] = old /\ handle[nodes[old][m]] = m
      BY <1>1, <1>3, <3>1 DEF MapsKnown
    <3>3. QED
      BY <1>16, <2>1, <2>2, <3>2
  <2>3. QED
    BY <1>9, <2>1, <2>2
<1>17. ASSUME NEW n \in gone PROVE root'[nodes[old][n]] = d
  <2>1. n \in Nodes /\ nodes[old][n] # NoWrap
    BY <1>7, <1>11
  <2>2. nodes[old][n] \in Wraps
    BY <1>1, <1>3, <2>1 DEF TypeOK
  <2>3. QED
    BY <1>9, <2>2
<1>18. \A n \in Nodes : nodes[d][n] = NoWrap
  BY <1>1, <1>2 DEF MapsKnown
<1>19. MapsKnown'
  <2>1. SUFFICES ASSUME NEW e \in Docs, NEW n \in Nodes, nodes'[e][n] # NoWrap
                 PROVE  /\ e \in docs' /\ nodes'[e][n] \in wraps'
                        /\ root'[nodes'[e][n]] = e /\ handle'[nodes'[e][n]] = n
                        /\ n \in Under(tree', parent', root_node'[e])
    BY DEF MapsKnown
  <2>2. CASE e = d
    <3>1. n \in gone /\ nodes'[d][n] = nodes[old][n]
      BY <1>8, <2>1, <2>2
    <3>2. n \in tree /\ Reaches(tree, parent, n, h) /\ nodes[old][n] # NoWrap
      BY <1>7, <3>1
    <3>3. nodes[old][n] \in wraps /\ handle[nodes[old][n]] = n
      BY <1>1, <1>3, <3>2 DEF MapsKnown
    <3>4. n \in Under(tree', parent', root_node'[d])
      BY <1>2, <1>6, <1>12, <3>2 DEF Under
    <3>5. root'[nodes[old][n]] = d
      BY <1>17, <3>1
    <3>6. QED
      BY <1>2, <2>2, <3>1, <3>3, <3>4, <3>5
  <2>3. CASE e # d
    <3>1. nodes'[e][n] = nodes[e][n] /\ (e = old => n \notin gone)
      BY <1>8, <2>1, <2>3
    <3>2. /\ e \in docs /\ nodes[e][n] \in wraps /\ handle[nodes[e][n]] = n
          /\ n \in tree /\ Reaches(tree, parent, n, root_node[e])
      BY <1>1, <2>1, <3>1 DEF MapsKnown, Under
    <3>3. ~Reaches(tree, parent, n, h)
      <4>1. CASE e = old
        BY <1>7, <2>1, <3>1, <3>2, <4>1
      <4>2. CASE e # old
        BY <1>14, <3>2, <4>2
      <4>3. QED
        BY <4>1, <4>2
    <3>4. n \in Under(tree', parent', root_node'[e])
      BY <1>2, <1>6, <1>13, <3>2, <3>3 DEF Under
    <3>5. root'[nodes[e][n]] = e
      BY <1>16, <2>1, <3>1
    <3>6. QED
      BY <1>2, <3>1, <3>2, <3>4, <3>5
  <2>4. QED
    BY <2>2, <2>3
<1>20. WrapsKnown'
  <2>1. SUFFICES ASSUME NEW x \in wraps, handle[x] # NoNode
                 PROVE  root'[x] \in docs' /\ nodes'[root'[x]][handle[x]] = x
    BY <1>2 DEF WrapsKnown
  <2>2. /\ root[x] \in docs /\ root[x] \in Docs /\ handle[x] \in Nodes
        /\ nodes[root[x]][handle[x]] = x /\ x # NoWrap
    BY <1>1, <2>1 DEF WrapsKnown, TypeOK, WrenXmlAssumption
  <2>3. CASE root[x] = old /\ handle[x] \in gone
    <3>1. root'[x] = d
      BY <1>17, <2>2, <2>3
    <3>2. nodes'[d][handle[x]] = x
      BY <1>8, <2>2, <2>3
    <3>3. QED
      BY <1>2, <3>1, <3>2
  <2>4. CASE ~(root[x] = old /\ handle[x] \in gone)
    <3>1. root'[x] = root[x]
      BY <1>16, <2>2, <2>4
    <3>2. root[x] # d
      BY <1>2, <2>2
    <3>3. nodes'[root[x]][handle[x]] = x
      BY <1>8, <2>2, <2>4, <3>2
    <3>4. QED
      BY <1>2, <2>2, <3>1, <3>3
  <2>5. QED
    BY <2>3, <2>4
<1>21. LostDocs'
  <2>1. h \in gone
    BY <1>3, <1>4, <1>7, ReachItself
  <2>2. nodes'[d][h] # NoWrap
    BY <1>3, <1>4, <1>8, <2>1
  <2>3. (Mapped(old) = gone) <=> (\A n \in Nodes : nodes'[old][n] = NoWrap)
    <3>1. ASSUME Mapped(old) = gone, NEW n \in Nodes PROVE nodes'[old][n] = NoWrap
      BY <1>8, <3>1 DEF Mapped
    <3>2. ASSUME \A n \in Nodes : nodes'[old][n] = NoWrap PROVE Mapped(old) = gone
      <4>1. ASSUME NEW n \in Nodes PROVE (n \in gone) <=> (nodes[old][n] # NoWrap)
        BY <1>7, <1>8, <3>2
      <4>2. QED
        BY <1>11, <4>1 DEF Mapped
    <3>3. QED
      BY <3>1, <3>2
  <2>4. d \notin abandoned /\ old \notin abandoned
    <3>1. nodes[old][h] # NoWrap
      BY <1>4
    <3>2. QED
      BY <1>1, <1>2, <1>3, <3>1 DEF LostDocs
  <2>5. SUFFICES ASSUME NEW e \in Docs
                 PROVE  (e \in abandoned') <=> (e \in docs' /\ \A n \in Nodes : nodes'[e][n] = NoWrap)
    BY DEF LostDocs
  <2>6. CASE e = d
    BY <1>3, <1>10, <2>2, <2>4, <2>6
  <2>7. CASE e = old
    BY <1>2, <1>3, <1>10, <2>3, <2>4, <2>7
  <2>8. CASE e # d /\ e # old
    <3>1. (e \in abandoned') <=> (e \in abandoned)
      BY <1>10, <2>8
    <3>2. (e \in abandoned) <=> (e \in docs /\ \A n \in Nodes : nodes[e][n] = NoWrap)
      BY <1>1 DEF LostDocs
    <3>3. QED
      BY <1>2, <1>8, <2>8, <3>1, <3>2
  <2>9. QED
    BY <2>6, <2>7, <2>8
<1>22. NoDangling'
  <2>1. SUFFICES ASSUME misuse = {}, NEW x \in wraps, root'[x] # NoDoc PROVE handle[x] # NoNode
    BY <1>2 DEF NoDangling
  <2>2. x \in Wraps
    BY <1>1 DEF TypeOK
  <2>3. CASE \E n \in gone : nodes[old][n] = x
    <3>1. PICK n \in gone : nodes[old][n] = x
      BY <2>3
    <3>2. n \in Nodes /\ nodes[old][n] # NoWrap
      BY <1>7, <1>11
    <3>3. handle[x] = n
      BY <1>1, <1>3, <3>1, <3>2 DEF MapsKnown
    <3>4. QED
      BY <3>2, <3>3 DEF WrenXmlAssumption
  <2>4. CASE ~\E n \in gone : nodes[old][n] = x
    <3>1. root'[x] = root[x]
      BY <1>9, <2>2, <2>4
    <3>2. QED
      BY <1>1, <2>1, <3>1 DEF NoDangling
  <2>5. QED
    BY <2>3, <2>4
<1>23. QED
  BY <1>15, <1>19, <1>20, <1>21, <1>22 DEF Exact

\* The end of w's document, which closes its WXMLNodes.
LEMMA DestroyKeeps ==
  ASSUME WrenXmlAssumption, Shape, Exact, NEW w, Open(w), NEW ws, Destroy(root[w], ws),
         Closed(root[w]) \subseteq ws, \A x \in ws : root[x] = root[w],
         wraps \ ws \subseteq wraps', wraps' \subseteq wraps, UNCHANGED <<misuse, abandoned>>
  PROVE  Exact'
<1> DEFINE d == root[w]
<1>1. /\ TypeOK /\ UpClosed(parent, tree) /\ NoNode \notin tree
      /\ Forest /\ WrapsKnown /\ MapsKnown /\ LostDocs /\ NoDangling
  BY DEF Shape, Exact, TypeOK, WrenXmlAssumption
<1>2. d \in docs /\ d \in Docs /\ d \notin abandoned
  BY <1>1, OpenInTree
<1>3. /\ tree' = tree \ Under(tree, parent, root_node[d])
      /\ \A n \in tree' : parent'[n] = parent[n]
      /\ UpClosed(parent', tree')
  BY <1>1, DestroyShape
<1>4. /\ docs' = docs \ {d}
      /\ \A e \in Docs : e # d => root_node'[e] = root_node[e] /\ nodes'[e] = nodes[e]
      /\ \A n \in Nodes : nodes'[d][n] = NoWrap
  BY <1>1, <1>2 DEF Destroy, TypeOK, EmptyMap
<1>5. \A x \in Wraps : /\ root'[x] = IF x \in ws THEN NoDoc ELSE root[x]
                       /\ handle'[x] = IF x \in ws THEN NoNode ELSE handle[x]
  BY DEF Destroy
<1>6. \A n \in Nodes : nodes[d][n] # NoWrap => nodes[d][n] \in ws
  BY DEF Closed, Mapped
<1> HIDE DEF d
<1>7. root_node[d] \in tree /\ parent[root_node[d]] = NoNode
  BY <1>1, <1>2 DEF Forest
<1>8. UpClosed(parent, Under(tree, parent, root_node[d]))
  BY <1>1, <1>7, WholeTreeCloses
<1>9. ASSUME NEW e \in docs, e # d
      PROVE  /\ root_node'[e] = root_node[e] /\ root_node[e] \in tree'
             /\ Under(tree', parent', root_node'[e]) = Under(tree, parent, root_node[e])
  <2>1. root_node'[e] = root_node[e]
    BY <1>1, <1>4, <1>9 DEF TypeOK
  <2>2. root_node[e] \in tree /\ parent[root_node[e]] = NoNode /\ root_node[e] # root_node[d]
    BY <1>1, <1>2, <1>9 DEF Forest
  <2>3. root_node[e] \in tree'
    <3>1. ~Reaches(tree, parent, root_node[e], root_node[d])
      BY <2>2, RootReachesItself
    <3>2. QED
      BY <1>3, <2>2, <3>1 DEF Under
  <2>4. tree' \subseteq tree /\ UpClosed(parent, tree \ tree')
    <3>1. tree \ tree' = Under(tree, parent, root_node[d])
      BY <1>3 DEF Under
    <3>2. QED
      BY <1>3, <1>8, <3>1
  <2>5. \A x \in tree' : parent[x] = parent'[x]
    BY <1>3
  <2>6. Under(tree, parent, root_node[e]) = Under(tree', parent', root_node[e])
    BY <1>3, <2>3, <2>4, <2>5, UnderApart
  <2>7. QED
    BY <2>1, <2>3, <2>6
<1>10. Forest'
  <2>1. ASSUME NEW e \in docs' PROVE root_node'[e] \in tree' /\ parent'[root_node'[e]] = NoNode
    <3>1. e \in docs /\ e # d
      BY <1>4
    <3>2. root_node'[e] = root_node[e] /\ root_node[e] \in tree'
      BY <1>9, <3>1
    <3>3. parent[root_node[e]] = NoNode
      BY <1>1, <3>1 DEF Forest
    <3>4. QED
      BY <1>3, <3>2, <3>3
  <2>2. ASSUME NEW e \in docs', NEW f \in docs', root_node'[e] = root_node'[f] PROVE e = f
    <3>1. e \in docs /\ e # d /\ f \in docs /\ f # d
      BY <1>4
    <3>2. QED
      BY <1>1, <1>9, <2>2, <3>1 DEF Forest
  <2>3. ASSUME NEW x \in tree' PROVE \E e \in docs' : x \in Under(tree', parent', root_node'[e])
    <3>1. x \in tree /\ x \notin Under(tree, parent, root_node[d])
      BY <1>3
    <3>2. PICK e \in docs : x \in Under(tree, parent, root_node[e])
      BY <1>1, <3>1 DEF Forest
    <3>3. e # d
      BY <3>1, <3>2
    <3>4. QED
      BY <1>4, <1>9, <3>2, <3>3
  <2>4. QED
    BY <2>1, <2>2, <2>3 DEF Forest
<1>11. MapsKnown'
  <2>1. SUFFICES ASSUME NEW e \in Docs, NEW n \in Nodes, nodes'[e][n] # NoWrap
                 PROVE  /\ e \in docs' /\ nodes'[e][n] \in wraps'
                        /\ root'[nodes'[e][n]] = e /\ handle'[nodes'[e][n]] = n
                        /\ n \in Under(tree', parent', root_node'[e])
    BY DEF MapsKnown
  <2>2. e # d /\ nodes'[e][n] = nodes[e][n]
    BY <1>4, <2>1
  <2>3. /\ e \in docs /\ nodes[e][n] \in wraps /\ root[nodes[e][n]] = e
        /\ handle[nodes[e][n]] = n /\ n \in Under(tree, parent, root_node[e])
    BY <1>1, <2>1, <2>2 DEF MapsKnown
  <2>4. nodes[e][n] \notin ws /\ nodes[e][n] \in Wraps
    BY <1>1, <2>2, <2>3 DEF d, TypeOK
  <2>5. root'[nodes[e][n]] = e /\ handle'[nodes[e][n]] = n
    BY <1>5, <2>3, <2>4
  <2>6. e \in docs' /\ n \in Under(tree', parent', root_node'[e])
    BY <1>4, <1>9, <2>2, <2>3
  <2>7. QED
    BY <2>2, <2>3, <2>4, <2>5, <2>6
<1>12. WrapsKnown'
  <2>1. SUFFICES ASSUME NEW x \in wraps', handle'[x] # NoNode
                 PROVE  root'[x] \in docs' /\ nodes'[root'[x]][handle'[x]] = x
    BY DEF WrapsKnown
  <2>2. x \in wraps /\ x \in Wraps
    BY <1>1, <2>1 DEF TypeOK
  <2>3. x \notin ws /\ root'[x] = root[x] /\ handle'[x] = handle[x]
    BY <1>5, <2>1, <2>2
  <2>4. root[x] \in docs /\ nodes[root[x]][handle[x]] = x
    BY <1>1, <2>1, <2>2, <2>3 DEF WrapsKnown
  <2>5. root[x] \in Docs /\ handle[x] \in Nodes /\ x # NoWrap
    BY <1>1, <2>1, <2>2, <2>3, <2>4 DEF TypeOK, WrenXmlAssumption
  <2>6. root[x] # d
    BY <1>6, <2>3, <2>4, <2>5
  <2>7. QED
    BY <1>4, <2>3, <2>4, <2>5, <2>6
<1>13. LostDocs'
  <2>1. SUFFICES ASSUME NEW e \in Docs
                 PROVE  (e \in abandoned) <=> (e \in docs' /\ \A n \in Nodes : nodes'[e][n] = NoWrap)
    BY DEF LostDocs
  <2>2. CASE e = d
    BY <1>2, <1>4, <2>2
  <2>3. CASE e # d
    BY <1>1, <1>4, <2>3 DEF LostDocs
  <2>4. QED
    BY <2>2, <2>3
<1>14. NoDangling'
  <2>1. SUFFICES ASSUME misuse = {}, NEW x \in wraps', root'[x] # NoDoc PROVE handle'[x] # NoNode
    BY DEF NoDangling
  <2>2. x \in wraps /\ x \in Wraps
    BY <1>1, <2>1 DEF TypeOK
  <2>3. root'[x] = root[x] /\ handle'[x] = handle[x]
    BY <1>5, <2>1, <2>2
  <2>4. QED
    BY <1>1, <2>1, <2>2, <2>3 DEF NoDangling
<1>15. QED
  BY <1>10, <1>11, <1>12, <1>13, <1>14 DEF Exact

\* What a document closes is its own.
LEMMA ClosedAreOwn ==
  ASSUME MapsKnown, NEW d \in Docs
  PROVE  \A x \in Closed(d) : root[x] = d
  BY DEF MapsKnown, Closed, Mapped

LEMMA DeleteKeeps ==
  ASSUME WrenXmlAssumption, Shape, Exact, NEW w, Delete(w)
  PROVE  Exact'
<1>1. /\ Open(w) /\ Destroy(root[w], Closed(root[w])) /\ wraps' = wraps
      /\ UNCHANGED <<misuse, abandoned>>
  BY DEF Delete, history
<1>2. root[w] \in Docs /\ MapsKnown
  BY <1>1 DEF Open, Shape, TypeOK, Exact
<1>3. \A x \in Closed(root[w]) : root[x] = root[w]
  BY <1>2, ClosedAreOwn
<1>4. QED
  BY <1>1, <1>3, DestroyKeeps

\* The end of a WXMLNode that is in no map, or of one of several objects of one.
LEMMA QuietKeeps ==
  ASSUME WrenXmlAssumption, Shape, Exact, NEW w \in wraps, ReleaseQuietly(w),
         usages[w] = 1 => \A e \in Docs, n \in Nodes : nodes[e][n] # w,
         UNCHANGED <<treeVars, docVars, misuse, abandoned>>
  PROVE  Exact'
<1>1. /\ TypeOK /\ Forest /\ WrapsKnown /\ MapsKnown /\ LostDocs /\ NoDangling
  BY DEF Shape, Exact
<1>2. /\ tree' = tree /\ parent' = parent /\ docs' = docs /\ root_node' = root_node
      /\ nodes' = nodes /\ abandoned' = abandoned /\ misuse' = misuse
  BY DEF treeVars, docVars
<1>3. \A x \in wraps' : x \in wraps /\ root'[x] = root[x] /\ handle'[x] = handle[x]
  <2>1. CASE usages[w] = 1
    BY <1>1, <2>1 DEF ReleaseQuietly, Released, Forget, TypeOK
  <2>2. CASE usages[w] # 1
    BY <1>1, <2>2 DEF ReleaseQuietly, Released
  <2>3. QED
    BY <2>1, <2>2
<1>4. \A x \in wraps : (x = w /\ usages[w] = 1) \/ x \in wraps'
  BY DEF ReleaseQuietly, Released
<1>5. MapsKnown'
  <2>1. SUFFICES ASSUME NEW e \in Docs, NEW n \in Nodes, nodes[e][n] # NoWrap
                 PROVE  /\ e \in docs /\ nodes[e][n] \in wraps'
                        /\ root'[nodes[e][n]] = e /\ handle'[nodes[e][n]] = n
                        /\ n \in Under(tree, parent, root_node[e])
    BY <1>2 DEF MapsKnown
  <2>2. /\ e \in docs /\ nodes[e][n] \in wraps /\ root[nodes[e][n]] = e
        /\ handle[nodes[e][n]] = n /\ n \in Under(tree, parent, root_node[e])
    BY <1>1, <2>1 DEF MapsKnown
  <2>3. nodes[e][n] \in wraps'
    BY <1>4, <2>2
  <2>4. QED
    BY <1>3, <2>2, <2>3
<1>6. WrapsKnown'
  BY <1>1, <1>2, <1>3 DEF WrapsKnown
<1>7. NoDangling'
  BY <1>1, <1>2, <1>3 DEF NoDangling
<1>8. Forest' /\ LostDocs'
  BY <1>1, <1>2 DEF Forest, LostDocs
<1>9. QED
  BY <1>5, <1>6, <1>7, <1>8 DEF Exact

LEMMA FinalizeKeeps ==
  ASSUME WrenXmlAssumption, Shape, Exact, NEW w \in wraps, Finalize(w)
  PROVE  Exact'
<1>1. /\ TypeOK /\ Forest /\ WrapsKnown /\ MapsKnown /\ LostDocs /\ NoDangling
      /\ UNCHANGED <<misuse, abandoned>>
  BY FinalizeWays DEF Shape, Exact
<1>2. CASE OfNoDocument(w)
  <2>1. ReleaseQuietly(w) /\ UNCHANGED <<treeVars, docVars, misuse, abandoned>>
    BY <1>1, <1>2 DEF OfNoDocument
  <2>2. usages[w] = 1 => root[w] = NoDoc
    BY <1>2 DEF OfNoDocument
  <2>3. usages[w] = 1 => \A e \in Docs, n \in Nodes : nodes[e][n] # w
    <3>1. w # NoWrap
      BY <1>1 DEF TypeOK, WrenXmlAssumption
    <3>2. QED
      BY <1>1, <2>2, <3>1 DEF MapsKnown, WrenXmlAssumption
  <2>4. QED
    BY <2>1, <2>3, QuietKeeps
<1>3. CASE OfOthersToo(w)
  <2> DEFINE d == root[w]
             h == handle[w]
  <2>1. /\ Open(w) /\ usages[w] = 1 /\ ~LastOf(w) /\ ReleaseQuietly(w)
        /\ nodes' = [nodes EXCEPT ![d][h] = NoWrap]
        /\ tree' = tree /\ parent' = parent /\ docs' = docs /\ root_node' = root_node
    BY <1>3 DEF OfOthersToo, treeVars
  <2>2. /\ d \in docs /\ d \in Docs /\ d \notin abandoned /\ h \in Nodes /\ h \in tree
        /\ w \in Wraps /\ w # NoWrap /\ nodes[d][h] = w
    BY <1>1, <2>1, OpenInTree DEF Open
  <2>3. wraps' = wraps \ {w} /\ \A x \in wraps' : root'[x] = root[x] /\ handle'[x] = handle[x]
    BY <1>1, <2>1 DEF ReleaseQuietly, Released, Forget, TypeOK
  <2>4. PICK m \in Nodes : m # h /\ nodes[d][m] # NoWrap
    BY <2>1, <2>2 DEF LastOf, Mapped
  <2> HIDE DEF d, h
  <2>5. nodes'[d][h] = NoWrap /\ \A e \in Docs, n \in Nodes : e # d \/ n # h => nodes'[e][n] = nodes[e][n]
    BY <1>1, <2>1, <2>2 DEF TypeOK
  <2>6. MapsKnown'
    <3>1. SUFFICES ASSUME NEW e \in Docs, NEW n \in Nodes, nodes'[e][n] # NoWrap
                   PROVE  /\ e \in docs' /\ nodes'[e][n] \in wraps'
                          /\ root'[nodes'[e][n]] = e /\ handle'[nodes'[e][n]] = n
                          /\ n \in Under(tree', parent', root_node'[e])
      BY DEF MapsKnown
    <3>2. (e # d \/ n # h) /\ nodes'[e][n] = nodes[e][n]
      BY <2>5, <3>1
    <3>3. /\ e \in docs /\ nodes[e][n] \in wraps /\ root[nodes[e][n]] = e
          /\ handle[nodes[e][n]] = n /\ n \in Under(tree, parent, root_node[e])
      BY <1>1, <3>1, <3>2 DEF MapsKnown
    <3>4. nodes[e][n] # w
      BY <3>2, <3>3 DEF d, h
    <3>5. QED
      BY <2>1, <2>3, <3>2, <3>3, <3>4
  <2>7. WrapsKnown'
    <3>1. SUFFICES ASSUME NEW x \in wraps', handle'[x] # NoNode
                   PROVE  root'[x] \in docs' /\ nodes'[root'[x]][handle'[x]] = x
      BY DEF WrapsKnown
    <3>2. x \in wraps /\ x # w /\ root'[x] = root[x] /\ handle'[x] = handle[x]
      BY <2>3
    <3>3. root[x] \in docs /\ nodes[root[x]][handle[x]] = x
      BY <1>1, <3>1, <3>2 DEF WrapsKnown
    <3>4. root[x] \in Docs /\ handle[x] \in Nodes
      BY <1>1, <3>1, <3>2, <3>3 DEF TypeOK
    <3>5. root[x] # d \/ handle[x] # h
      BY <2>2, <3>2, <3>3
    <3>6. QED
      BY <2>1, <2>5, <3>2, <3>3, <3>4, <3>5
  <2>8. LostDocs'
    <3>1. SUFFICES ASSUME NEW e \in Docs
                   PROVE  (e \in abandoned) <=> (e \in docs /\ \A n \in Nodes : nodes'[e][n] = NoWrap)
      BY <1>1, <2>1 DEF LostDocs
    <3>2. CASE e = d
      BY <2>2, <2>4, <2>5, <3>2
    <3>3. CASE e # d
      BY <1>1, <2>5, <3>3 DEF LostDocs
    <3>4. QED
      BY <3>2, <3>3
  <2>9. NoDangling'
    BY <1>1, <2>3 DEF NoDangling
  <2>10. Forest'
    BY <1>1, <2>1 DEF Forest
  <2>11. QED
    BY <2>6, <2>7, <2>8, <2>9, <2>10 DEF Exact
<1>4. CASE OfLast(w)
  <2>1. /\ Open(w) /\ Destroy(root[w], {w} \union Closed(root[w])) /\ wraps' = wraps \ {w}
    BY <1>4 DEF OfLast, Released
  <2>2. root[w] \in Docs
    BY <1>1, <2>1 DEF Open, TypeOK
  <2>3. \A x \in {w} \union Closed(root[w]) : root[x] = root[w]
    BY <1>1, <2>2, ClosedAreOwn
  <2>4. QED
    BY <1>1, <2>1, <2>3, DestroyKeeps
<1>5. QED
  BY <1>2, <1>3, <1>4, FinalizeWays

\* Where scripts have kept to the rules, what dangles has no node.
LEMMA DanglingIsBare ==
  ASSUME WrenXmlAssumption, Shape, Exact, NEW w \in wraps, ~Open(w)
  PROVE  handle[w] = NoNode
<1>1. /\ TypeOK /\ WrapsKnown /\ MapsKnown
  BY DEF Shape, Exact
<1>2. SUFFICES ASSUME handle[w] # NoNode PROVE FALSE
  OBVIOUS
<1>3. root[w] \in docs /\ nodes[root[w]][handle[w]] = w
  BY <1>1, <1>2 DEF WrapsKnown
<1>4. root[w] \in Docs /\ handle[w] \in Nodes /\ w # NoWrap
  BY <1>1, <1>2, <1>3 DEF TypeOK, WrenXmlAssumption
<1>5. handle[w] \in tree
  BY <1>1, <1>3, <1>4 DEF MapsKnown, Under
<1>6. QED
  BY <1>3, <1>5 DEF Open

LEMMA UseDanglingKeeps ==
  ASSUME WrenXmlAssumption, Shape, Exact, NEW w \in wraps, UseDangling(w)
  PROVE  Exact' /\ misuse # {}
<1>1. /\ ~Open(w) /\ root[w] # NoDoc /\ UNCHANGED <<treeVars, docVars, misuse, abandoned>>
  BY DEF UseDangling, history
<1>2. handle[w] = NoNode
  BY <1>1, DanglingIsBare
<1>3. misuse # {}
  BY <1>1, <1>2 DEF Exact, NoDangling
<1>4. CASE UNCHANGED wrapVars
  <2>1. UNCHANGED <<tree, parent, docs, root_node, nodes, wraps, root, handle, misuse, abandoned>>
    BY <1>1, <1>4 DEF treeVars, docVars, wrapVars
  <2>2. QED
    BY <1>3, <2>1 DEF Exact, Forest, WrapsKnown, MapsKnown, LostDocs, NoDangling
<1>5. CASE ReleaseQuietly(w)
  <2>1. w # NoWrap
    BY DEF Shape, TypeOK, WrenXmlAssumption
  <2>2. \A e \in Docs, n \in Nodes : nodes[e][n] # w
    BY <1>2, <2>1 DEF Exact, MapsKnown, WrenXmlAssumption
  <2>3. Exact'
    BY <1>1, <1>5, <2>2, QuietKeeps
  <2>4. QED
    BY <1>3, <2>3
<1>6. QED
  BY <1>4, <1>5 DEF UseDangling

LEMMA UseClosedKeeps ==
  ASSUME Exact, NEW w, UseClosed(w)
  PROVE  Exact' /\ misuse' # {}
<1>1. /\ UNCHANGED <<tree, parent, docs, root_node, nodes, wraps, root, handle, abandoned>>
      /\ misuse' # {}
  BY DEF UseClosed, treeVars, docVars, wrapVars
<1>2. QED
  BY <1>1 DEF Exact, Forest, WrapsKnown, MapsKnown, LostDocs, NoDangling

LEMMA GetTextKeeps ==
  ASSUME Exact, NEW w, GetText(w)
  PROVE  Exact' /\ misuse' # {}
<1>1. /\ UNCHANGED <<tree, parent, docs, root_node, nodes, wraps, root, handle, abandoned>>
      /\ misuse' # {}
  BY DEF GetText, treeVars, docVars, wrapVars
<1>2. QED
  BY <1>1 DEF Exact, Forest, WrapsKnown, MapsKnown, LostDocs, NoDangling

-----------------------------------------------------------------------------
(* The steps together. *)

\* Misuse is not forgotten.
LEMMA MisuseGrows ==
  ASSUME [Next]_vars
  PROVE  misuse \subseteq misuse'
<1>1. ASSUME NEW w \in wraps, Finalize(w) PROVE misuse' = misuse
  BY <1>1, FinalizeWays
<1>2. QED
  BY <1>1 DEF Next, vars, history, Parse, TryParseFails, Clone, CreateElement, Navigate, Detach,
              Attach, Delete, UseDangling, UseClosed, GetText, ParseEmpty, BareNode

\* Only what dangles, is closed or is read as a text crashes the game.
LEMMA CrashStep ==
  ASSUME [Next]_vars, game' = "crashed", game # "crashed"
  PROVE  \E w \in wraps : UseDangling(w) \/ UseClosed(w) \/ GetText(w)
<1>1. ASSUME NEW w \in wraps, Finalize(w) PROVE game' = game
  BY <1>1, FinalizeWays
<1>2. QED
  BY <1>1 DEF Next, vars, Parse, TryParseFails, ParseEmpty, BareNode, Clone, CreateElement,
              Navigate, Detach, Attach, Delete

LEMMA ExactStep ==
  ASSUME WrenXmlAssumption, Shape, Exact, [Next]_vars, WellUsed'
  PROVE  Exact'
<1>1. CASE UNCHANGED vars
  BY <1>1 DEF Exact, Forest, WrapsKnown, MapsKnown, LostDocs, NoDangling,
              vars, treeVars, docVars, wrapVars, history
<1>2. ASSUME NEW d \in Docs, NEW n \in Nodes, NEW child \in Nodes \union {NoNode}, Parse(d, n, child)
      PROVE  Exact'
  BY <1>2, ParseKeeps
<1>3. ASSUME NEW d \in Docs, NEW w \in Wraps, TryParseFails(d, w) PROVE Exact'
  BY <1>3, BareNodeKeeps DEF TryParseFails
<1>14. ASSUME NEW w \in Wraps, ParseEmpty(w) PROVE Exact'
  BY <1>14, BareNodeKeeps DEF ParseEmpty
<1>4. ASSUME NEW w \in wraps, NEW d \in Docs,
             NEW copy \in [Subtree(handle[w]) -> Nodes \ tree],
             \A m, n \in DOMAIN copy : copy[m] = copy[n] => m = n, Clone(w, d, copy)
      PROVE  Exact'
  <2> DEFINE old == Under(tree, parent, handle[w])
             new == {copy[m] : m \in old}
  <2>1. old = Subtree(handle[w])
    BY SubtreeIsUnder
  <2>2. Cloning(w, d, copy, old, new)
    BY <1>4, <2>1 DEF Cloning
  <2> HIDE DEF old, new
  <2>3. QED
    BY <2>2, CloneKeeps
<1>5. ASSUME NEW w \in wraps, NEW n \in Nodes, CreateElement(w, n) PROVE Exact'
  BY <1>5, CreateKeeps
<1>6. ASSUME NEW w \in wraps, Navigate(w) PROVE Exact'
  BY <1>6, NavigateKeeps
<1>7. ASSUME NEW w \in wraps, NEW d \in Docs, Detach(w, d) PROVE Exact'
  BY <1>7, DetachKeeps
<1>8. ASSUME NEW w \in wraps, NEW c \in wraps, Attach(w, c) PROVE Exact'
  BY <1>8, AttachKeeps
<1>9. ASSUME NEW w \in wraps, Delete(w) PROVE Exact'
  BY <1>9, DeleteKeeps
<1>10. ASSUME NEW w \in wraps, Finalize(w) PROVE Exact'
  BY <1>10, FinalizeKeeps
<1>11. ASSUME NEW w \in wraps, UseDangling(w) PROVE Exact'
  BY <1>11, UseDanglingKeeps
<1>12. ASSUME NEW w \in wraps, UseClosed(w) PROVE Exact'
  BY <1>12, UseClosedKeeps
<1>15. ASSUME NEW w \in wraps, GetText(w) PROVE Exact'
  BY <1>15, GetTextKeeps
<1>13. QED
  BY <1>1, <1>2, <1>3, <1>4, <1>5, <1>6, <1>7, <1>8, <1>9, <1>10, <1>11, <1>12, <1>14, <1>15
  DEF Next

LEMMA XmlInit ==
  ASSUME WrenXmlAssumption, Init
  PROVE  XmlInv
<1>1. TypeOK
  BY DEF Init, TypeOK, EmptyMap, WrenXmlAssumption
<1>2. UpClosed(parent, tree) /\ CrashNeedsMisuse
  BY DEF Init, UpClosed, CrashNeedsMisuse
<1>3. Forest /\ WrapsKnown /\ NoDangling /\ LostDocs
  BY DEF Init, Forest, WrapsKnown, NoDangling, LostDocs
<1>4. MapsKnown
  BY DEF Init, MapsKnown, EmptyMap
<1>5. QED
  BY <1>1, <1>2, <1>3, <1>4 DEF XmlInv, Exact

LEMMA XmlStep ==
  ASSUME WrenXmlAssumption, XmlInv, [Next]_vars
  PROVE  XmlInv'
<1>1. Shape /\ CrashNeedsMisuse /\ (WellUsed => Exact) /\ misuse \subseteq misuse'
  BY MisuseGrows DEF XmlInv, Shape
<1>2. Shape'
  BY <1>1, ShapeStep
<1>3. WellUsed' => WellUsed
  BY <1>1 DEF WellUsed
<1>4. WellUsed' => Exact'
  BY <1>1, <1>3, ExactStep
<1>5. CrashNeedsMisuse'
  <2>1. SUFFICES ASSUME game' = "crashed", misuse' = {} PROVE FALSE
    BY DEF CrashNeedsMisuse
  <2>2. misuse = {} /\ game # "crashed"
    BY <1>1, <2>1 DEF CrashNeedsMisuse
  <2>3. Exact
    BY <1>1, <2>2 DEF WellUsed
  <2>4. PICK w \in wraps : UseDangling(w) \/ UseClosed(w) \/ GetText(w)
    BY <2>1, <2>2, CrashStep
  <2>5. QED
    BY <1>1, <2>1, <2>2, <2>3, <2>4, UseDanglingKeeps, UseClosedKeeps, GetTextKeeps
<1>6. QED
  BY <1>2, <1>4, <1>5 DEF XmlInv, Shape

LEMMA Invariance == Spec => []XmlInv
<1>1. Init => XmlInv
  BY XmlInit, WrenXmlAssumption
<1>2. XmlInv /\ [Next]_vars => XmlInv'
  BY XmlStep, WrenXmlAssumption
<1>3. QED
  BY <1>1, <1>2, PTL DEF Spec

-----------------------------------------------------------------------------
(* Theorems. *)

\* The variables hold values of their kinds, and a WXMLNode exists exactly as
\* long as it counts an object, for any numbers of nodes, documents, WXMLNodes
\* and objects.
THEOREM TypeCorrect == Spec => []TypeOK
<1>1. XmlInv => TypeOK
  BY DEF XmlInv
<1>2. QED
  BY <1>1, Invariance, PTL

\* Whatever well-behaved scripts parse, clone, move, merge and close, and the
\* collector takes, the documents' maps and the WXMLNodes agree, and every
\* handle is in the tree its document owns.
THEOREM MapsStayExact == Spec => []MapsExact
<1>1. XmlInv => MapsExact
  <2>1. SUFFICES ASSUME TypeOK, WrapsKnown, MapsKnown PROVE MapsExact
    BY DEF XmlInv, Exact, MapsExact
  <2>2. \A w \in wraps : handle[w] # NoNode => root[w] \in docs /\ nodes[root[w]][handle[w]] = w
    BY <2>1 DEF WrapsKnown
  <2>3. ASSUME NEW d \in Docs, NEW n \in Mapped(d)
        PROVE  /\ d \in docs /\ nodes[d][n] \in wraps /\ root[nodes[d][n]] = d
               /\ handle[nodes[d][n]] = n /\ n \in Subtree(root_node[d])
    <3>1. n \in Nodes /\ nodes[d][n] # NoWrap
      BY DEF Mapped
    <3>2. n \in Under(tree, parent, root_node[d])
      BY <2>1, <3>1 DEF MapsKnown
    <3>3. QED
      BY <2>1, <3>1, <3>2, SubtreeIsUnder DEF MapsKnown
  <2>4. QED
    BY <2>2, <2>3 DEF MapsExact
<1>2. QED
  BY <1>1, Invariance, PTL

\* Every mxml node of well-behaved scripts is freed by exactly one document,
\* and only a document that a detach has emptied is never deleted.
THEOREM NoTreeLostOrShared == Spec => []OnlyDetachLeaks
<1>1. ASSUME WrenXmlAssumption, TypeOK, UpClosed(parent, tree), Forest, NEW n \in tree
      PROVE  Cardinality({d \in docs : n \in Subtree(root_node[d])}) = 1
  <2>1. PICK d \in docs : n \in Under(tree, parent, root_node[d])
    BY <1>1 DEF Forest
  <2>2. ASSUME NEW e \in docs, n \in Under(tree, parent, root_node[e]) PROVE e = d
    <3>1. /\ Reaches(tree, parent, n, root_node[d]) /\ Reaches(tree, parent, n, root_node[e])
          /\ parent[root_node[d]] = NoNode /\ parent[root_node[e]] = NoNode
      BY <1>1, <2>1, <2>2 DEF Forest, Under
    <3>2. NoNode \notin tree
      BY <1>1 DEF TypeOK, WrenXmlAssumption
    <3>3. root_node[d] = root_node[e]
      BY <1>1, <3>1, <3>2, OneRoot
    <3>4. QED
      BY <1>1, <3>3 DEF Forest
  <2>3. \A e \in docs : (n \in Subtree(root_node[e])) <=> (e = d)
    BY <2>1, <2>2, SubtreeIsUnder
  <2>4. {e \in docs : n \in Subtree(root_node[e])} = {d}
    BY <2>3
  <2>5. QED
    BY <2>4, FS_Singleton
<1>2. ASSUME TypeOK, LostDocs PROVE {d \in docs : Mapped(d) = {}} = abandoned
  <2>1. docs \subseteq Docs /\ abandoned \subseteq Docs
    BY <1>2 DEF TypeOK
  <2>2. \A d \in Docs : (Mapped(d) = {}) <=> (\A n \in Nodes : nodes[d][n] = NoWrap)
    BY DEF Mapped
  <2>3. QED
    BY <1>2, <2>1, <2>2 DEF LostDocs
<1>3. XmlInv => OnlyDetachLeaks
  BY <1>1, <1>2, WrenXmlAssumption DEF XmlInv, Exact, OnlyDetachLeaks
<1>4. QED
  BY <1>3, Invariance, PTL

\* No order of a script's operations and the collector's crashes the game, as
\* long as scripts parse only XML, read no texts, keep to open nodes and attach
\* whole trees of other documents.
THEOREM NoCrashWithoutMisuse == Spec => []CrashNeedsMisuse
<1>1. XmlInv => CrashNeedsMisuse
  BY DEF XmlInv
<1>2. QED
  BY <1>1, Invariance, PTL

\* A WXMLNode that is deleted takes no other's document or handle with it.
LEMMA SparingStep ==
  ASSUME WrenXmlAssumption, Shape, [Next]_vars, NEW x \in wraps, x \notin wraps',
         NEW y \in wraps, y \in wraps'
  PROVE  root'[y] = root[y]
<1>1. TypeOK
  BY DEF Shape
<1>2. ASSUME NEW w \in wraps, ReleaseQuietly(w) PROVE root'[y] = root[y]
  <2>1. CASE usages[w] = 1
    <3>1. y # w
      BY <1>2, <2>1 DEF ReleaseQuietly, Released
    <3>2. QED
      BY <1>1, <1>2, <2>1, <3>1 DEF ReleaseQuietly, Forget, TypeOK
  <2>2. CASE usages[w] # 1
    BY <1>2, <2>2 DEF ReleaseQuietly
  <2>3. QED
    BY <2>1, <2>2
<1>3. ASSUME NEW w \in wraps, OfLast(w) PROVE root'[y] = root[y]
  <2>1. /\ LastOf(w) /\ Open(w) /\ wraps' = wraps \ {w}
        /\ root' = [z \in Wraps |-> IF z \in {w} \union Closed(root[w]) THEN NoDoc ELSE root[z]]
    BY <1>3 DEF OfLast, Released, Destroy
  <2>2. Closed(root[w]) = {w}
    BY <2>1 DEF LastOf, Closed, Open
  <2>3. y # w /\ y \in Wraps
    BY <1>1, <2>1 DEF TypeOK
  <2>4. QED
    BY <2>1, <2>2, <2>3
<1>4. ASSUME NEW w \in wraps, Finalize(w) PROVE root'[y] = root[y]
  BY <1>2, <1>3, <1>4, FinalizeWays DEF OfNoDocument, OfOthersToo
<1>5. ASSUME NEW w \in wraps, UseDangling(w) PROVE root'[y] = root[y]
  BY <1>2, <1>5 DEF UseDangling, wrapVars
<1>6. ASSUME NEW d, NEW n, NEW map, GetAndUse(d, n, map) PROVE FALSE
  BY <1>6 DEF GetAndUse
<1>7. QED
  BY <1>4, <1>5, <1>6 DEF Next, vars, wrapVars, Parse, NewDocument, TryParseFails, ParseEmpty,
     BareNode, Clone, CreateElement, Navigate, Detach, Attach, Delete, UseClosed, GetText

\* The collector, when it takes the last object of a WXMLNode, closes no other
\* one (WXMLNode::Release).
THEOREM CollectorSparesOthers == Spec => CollectorClosesNobody
<1>1. XmlInv /\ [Next]_vars =>
        [~(wraps \subseteq wraps') => \A w \in wraps \intersect wraps' : root'[w] = root[w]]_vars
  <2>1. SUFFICES ASSUME XmlInv, [Next]_vars, NEW x \in wraps, x \notin wraps',
                        NEW y \in wraps, y \in wraps'
                 PROVE  root'[y] = root[y]
    OBVIOUS
  <2>2. QED
    BY <2>1, SparingStep, WrenXmlAssumption DEF XmlInv, Shape
<1>2. QED
  BY <1>1, Invariance, PTL DEF Spec, CollectorClosesNobody
=============================================================================
