----------------------------- MODULE Discovery -----------------------------
(***************************************************************************)
(* discover_address_space of components/opcua_client: the recursive browse *)
(* of a server's address space, page by page, into the tables of objects   *)
(* and variables.  The C call stack is the variable stack; the depth of a  *)
(* call is its place in it.                                                *)
(***************************************************************************)
EXTENDS Naturals, Sequences, FiniteSets, SequencesExt

CONSTANTS
    Folders,            \* objects of namespace 0, other than Server
    ObjectsFolder,      \* the folder the browse starts at
    Objects,            \* objects of the server's own namespaces
    Variables,          \* their variables, not referenced as properties
    Ignored,            \* Server, variables of namespace 0, properties, remote nodes
    Spaces,             \* address spaces: the references of every browsable node
    MaximumBrowseDepth, MaximumObjects, MaximumTags

Browsable == Folders \union Objects
Nodes == Browsable \union Variables \union Ignored

ASSUME KindsAssumption ==
    /\ IsFiniteSet(Browsable) /\ ObjectsFolder \in Folders
    /\ Folders \intersect (Objects \union Variables \union Ignored) = {}
    /\ Objects \intersect (Variables \union Ignored) = {}
    /\ Variables \intersect Ignored = {}

ASSUME SpacesAssumption == Spaces \subseteq [Browsable -> Seq(Nodes)]

ASSUME LimitsAssumption ==
    /\ MaximumBrowseDepth \in Nat
    /\ MaximumObjects \in Nat \ {0}
    /\ MaximumTags \in Nat \ {0}

VARIABLES
    space,          \* the server's references
    points,         \* how many continuation points the server keeps for the session
    phase,          \* "idle", "browse" or "done"
    stack,          \* the calls of browse_children under way
    result,         \* the status code they return: "GOOD" or "BAD"
    equipment,      \* the objects found: node and index of the parent, 0 for none
    tags,           \* the variables found: node and index of the object
    limited,        \* history: the depth limit cut a browse off
    lost            \* history: a continuation point was dropped unreleased

vars == <<space, points, phase, stack, result, equipment, tags, limited, lost>>

NoParent == 0

\* A call of browse_children: the object its children belong to, the
\* references of the response still to be processed, and what the server would
\* send for its continuation point, empty if there is none.
Frames == [parent : Nat, page : Seq(Nodes), next : Seq(Nodes)]

Holding == {i \in DOMAIN stack : stack[i].next # <<>>}

MappedObjects == {equipment[i].node : i \in DOMAIN equipment}
MappedVariables == {tags[i].node : i \in DOMAIN tags}

----------------------------------------------------------------------------
(* What the server sends *)

\* The server may split the references anywhere: the client asks for no limit,
\* but the server may have one.
Replies(parent, references) ==
    {[parent |-> parent,
      page   |-> SubSeq(references, 1, n),
      next   |-> SubSeq(references, n + 1, Len(references))]
        : n \in IF references = <<>> THEN {0} ELSE 1..Len(references)}

PointsOf(reply) == IF reply.next = <<>> THEN 0 ELSE 1

----------------------------------------------------------------------------
(* browse_children *)

\* The call on a node, from the frames below it: cut off by the depth limit,
\* failed, or answered with a first page.
Browse(node, parent, below) ==
    IF Len(below) > MaximumBrowseDepth
    THEN /\ stack' = below
         /\ limited' = TRUE
         /\ UNCHANGED <<points, result>>
    ELSE /\ UNCHANGED limited
         /\ \/ \E reply \in Replies(parent, space[node]) :
                   /\ stack' = Append(below, reply)
                   /\ points' = points + PointsOf(reply)
                   /\ UNCHANGED result
            \/ /\ stack' = below
               /\ result' = "BAD"
               /\ UNCHANGED points

Top == Last(stack)

\* process_child_references has returned to the call on top.
PageProcessed ==
    /\ stack # <<>>
    /\ Top.page = <<>> \/ result = "BAD"

WithoutPoint == [stack EXCEPT ![Len(stack)].next = <<>>]

\* Mutant: the continuation point of the new page is not copied.
NextPageIsLast ==
    /\ PageProcessed
    /\ result = "GOOD"
    /\ Top.next # <<>>
    /\ \E reply \in Replies(Top.parent, Top.next) :
           /\ stack' = [stack EXCEPT ![Len(stack)] = [reply EXCEPT !.next = <<>>]]
           /\ points' = points - 1
    /\ UNCHANGED <<space, phase, result, equipment, tags, limited, lost>>

\* Mutant: the same continuation point is used again.
NextPageAgain ==
    /\ PageProcessed
    /\ result = "GOOD"
    /\ Top.next # <<>>
    /\ stack' = [stack EXCEPT ![Len(stack)].page = Top.next]
    /\ UNCHANGED <<space, points, phase, result, equipment, tags, limited, lost>>

\* BrowseNext with the copied continuation point.
NextPage ==
    /\ PageProcessed
    /\ result = "GOOD"
    /\ Top.next # <<>>
    /\ \E reply \in Replies(Top.parent, Top.next) :
           /\ stack' = [stack EXCEPT ![Len(stack)] = reply]
           /\ points' = points - 1 + PointsOf(reply)
    /\ UNCHANGED <<space, phase, result, equipment, tags, limited, lost>>

\* BrowseNext fails; the client has cleared its copy of the point.
NextPageFails ==
    /\ PageProcessed
    /\ result = "GOOD"
    /\ Top.next # <<>>
    /\ stack' = WithoutPoint
    /\ result' = "BAD"
    /\ points' \in {points - 1, points}
    /\ lost' = TRUE
    /\ UNCHANGED <<space, phase, equipment, tags, limited>>

\* There is no memory for a copy of the continuation point.
CopyFails ==
    /\ PageProcessed
    /\ Top.next # <<>>
    /\ stack' = WithoutPoint
    /\ result' = "BAD"
    /\ lost' = TRUE
    /\ UNCHANGED <<space, points, phase, equipment, tags, limited>>

\* Mutant: the early return of a failed page.
ReleaseNothing ==
    /\ PageProcessed
    /\ result = "BAD"
    /\ Top.next # <<>>
    /\ stack' = WithoutPoint
    /\ UNCHANGED <<space, points, phase, result, equipment, tags, limited, lost>>

\* The answer to the release is not looked at.
ReleaseContinuationPoint ==
    /\ PageProcessed
    /\ result = "BAD"
    /\ Top.next # <<>>
    /\ stack' = WithoutPoint
    /\ \/ points' = points - 1 /\ UNCHANGED lost
       \/ lost' = TRUE /\ UNCHANGED points
    /\ UNCHANGED <<space, phase, result, equipment, tags, limited>>

Return ==
    /\ PageProcessed
    /\ Top.next = <<>>
    /\ stack' = Front(stack)
    /\ UNCHANGED <<space, points, phase, result, equipment, tags, limited, lost>>

----------------------------------------------------------------------------
(* process_child_references, one reference at a time *)

\* The next reference of the page on top.
Processing(node) ==
    /\ stack # <<>>
    /\ result = "GOOD"
    /\ Top.page # <<>>
    /\ node = Head(Top.page)

Advanced == [stack EXCEPT ![Len(stack)].page = Tail(Top.page)]

\* A variable belongs to an object; under bare folders there is none.
SkipReference ==
    /\ \E node \in Nodes :
           /\ Processing(node)
           /\ \/ node \in Ignored
              \/ node \in Objects \intersect MappedObjects
              \/ node \in Variables \intersect MappedVariables
              \/ node \in Variables /\ Top.parent = NoParent
    /\ stack' = Advanced
    /\ UNCHANGED <<space, points, phase, result, equipment, tags, limited, lost>>

\* Mutant: the children of a folder are left without a parent.
BrowseFolderAsRoot ==
    /\ \E node \in Folders :
           /\ Processing(node)
           /\ Browse(node, NoParent, Advanced)
    /\ UNCHANGED <<space, phase, equipment, tags, lost>>

\* A folder's children belong to the object the folder itself belongs to.
BrowseFolder ==
    /\ \E node \in Folders :
           /\ Processing(node)
           /\ Browse(node, Top.parent, Advanced)
    /\ UNCHANGED <<space, phase, equipment, tags, lost>>

\* An object not met before.  It is added before its own children.
AddObject ==
    /\ \E node \in Objects \ MappedObjects :
           /\ Processing(node)
           /\ Len(equipment) < MaximumObjects
           /\ equipment' = Append(equipment, [node |-> node, parent |-> Top.parent])
           /\ Browse(node, Len(equipment'), Advanced)
    /\ UNCHANGED <<space, phase, tags, lost>>

\* add_variable.  A failed read of the value leaves the tag without one.
AddVariable ==
    /\ \E node \in Variables \ MappedVariables :
           /\ Processing(node)
           /\ Top.parent # NoParent
           /\ Len(tags) < MaximumTags
           /\ tags' = Append(tags, [node |-> node, object |-> Top.parent])
    /\ stack' = Advanced
    /\ UNCHANGED <<space, points, phase, result, equipment, limited, lost>>

\* The table is full, or the attributes of a variable cannot be read.
AddFails ==
    /\ \/ \E node \in Objects \ MappedObjects :
              Processing(node) /\ Len(equipment) = MaximumObjects
       \/ \E node \in Variables \ MappedVariables :
              Processing(node) /\ Top.parent # NoParent
    /\ stack' = Advanced
    /\ result' = "BAD"
    /\ UNCHANGED <<space, points, phase, equipment, tags, limited, lost>>

----------------------------------------------------------------------------
(* discover_address_space *)

\* A new session: the server keeps no continuation point for it.
Discover ==
    /\ phase # "browse"
    /\ phase' = "browse"
    /\ equipment' = <<>>
    /\ tags' = <<>>
    /\ lost' = FALSE
    /\ limited' = FALSE
    /\ \/ \E reply \in Replies(NoParent, space[ObjectsFolder]) :
              /\ stack' = <<reply>>
              /\ points' = PointsOf(reply)
              /\ result' = "GOOD"
       \/ stack' = <<>> /\ points' = 0 /\ result' = "BAD"
    /\ UNCHANGED space

Finish ==
    /\ phase = "browse"
    /\ stack = <<>>
    /\ phase' = "done"
    /\ IF result = "BAD"
       THEN equipment' = <<>> /\ tags' = <<>>
       ELSE UNCHANGED <<equipment, tags>>
    /\ UNCHANGED <<space, points, stack, result, limited, lost>>

Init ==
    /\ space \in Spaces
    /\ points = 0
    /\ phase = "idle"
    /\ stack = <<>>
    /\ result = "GOOD"
    /\ equipment = <<>>
    /\ tags = <<>>
    /\ limited = FALSE
    /\ lost = FALSE

Next ==
    \/ Discover \/ Finish
    \/ NextPage \/ NextPageFails \/ CopyFails
    \/ ReleaseContinuationPoint \/ Return
    \/ SkipReference \/ BrowseFolder \/ AddObject \/ AddVariable \/ AddFails

Spec == Init /\ [][Next]_vars /\ WF_vars(Next)

----------------------------------------------------------------------------
(* Properties *)

\* Every variable of the traversal has its type, within the tables' bounds and
\* the depth limit (browse_children, line 543).
TypeOK ==
    /\ space \in Spaces
    /\ points \in Nat
    /\ phase \in {"idle", "browse", "done"}
    /\ stack \in Seq(Frames)
    /\ Len(stack) <= MaximumBrowseDepth + 1
    /\ result \in {"GOOD", "BAD"}
    /\ equipment \in Seq([node : Objects, parent : Nat])
    /\ Len(equipment) <= MaximumObjects
    /\ tags \in Seq([node : Variables, object : Nat \ {0}])
    /\ Len(tags) <= MaximumTags
    /\ limited \in BOOLEAN
    /\ lost \in BOOLEAN

\* A continuation point the server keeps belongs to a call that will use or
\* release it, on every path through the recursion, unless a call failed and
\* took it along.  When the traversal ends none is kept.
PointsAreUsedOrReleased == lost \/ points = Cardinality(Holding)

References(node) == Range(space[node])

\* What is reached from a set of nodes in at most k steps through folders.
Through(nodes) ==
    LET reached[k \in 0..MaximumBrowseDepth] ==
            IF k = 0 THEN nodes
            ELSE reached[k - 1] \union
                 UNION {References(f) : f \in reached[k - 1] \intersect Folders}
    IN  reached[MaximumBrowseDepth]

\* What belongs directly to entry p of the table of objects, or to none.
ChildrenOf(p) ==
    Through(IF p = NoParent
            THEN References(ObjectsFolder)
            ELSE References(equipment[p].node))

\* What the page tree is built on: no node is listed twice, an object's parent
\* stands before it in the table, and the server does show every object and
\* variable there below its parent, directly or through folders.
DiscoveredTreeIsServers ==
    /\ Cardinality(MappedObjects) = Len(equipment)
    /\ Cardinality(MappedVariables) = Len(tags)
    /\ \A i \in DOMAIN equipment :
           /\ equipment[i].parent < i
           /\ equipment[i].node \in ChildrenOf(equipment[i].parent)
    /\ \A i \in DOMAIN tags :
           /\ tags[i].object \in DOMAIN equipment
           /\ tags[i].node \in ChildrenOf(tags[i].object)

\* The nodes found by following at most k references, each with whether an
\* object is on the way to it: what the traversal has to list.
Reached(k) ==
    LET Step(S) ==
            S \union UNION {{<<m, s[2] \/ (s[1] \in Objects)>> : m \in References(s[1])}
                                : s \in {t \in S : t[1] \in Browsable}}
        reached[j \in 0..k] ==
            IF j = 0 THEN {<<ObjectsFolder, FALSE>>} ELSE Step(reached[j - 1])
    IN  reached[k]

Due(k) == {s[1] : s \in {t \in Reached(k) : t[1] \in Objects \/ (t[1] \in Variables /\ t[2])}}

Discovered == phase = "done" /\ result = "GOOD"

\* A discovery that was never cut off by the depth limit has listed exactly
\* what can be reached, however the server splits its pages and whatever
\* aliases and cycles there are.
CompleteUnlessCutOff ==
    Discovered /\ ~limited
        => Due(2 * Cardinality(Browsable) + 1) = MappedObjects \union MappedVariables

\* What docs/CROWPANEL_OPCUA_PROTOTYPE.md:11 says with main/Kconfig.projbuild:36:
\* the browse discovers the nodes up to its maximum depth.
NodesWithinDepthAreFound ==
    Discovered
        => Due(MaximumBrowseDepth + 1) \subseteq MappedObjects \union MappedVariables

\* The traversal ends, on a graph with cycles too.
DiscoveryEnds == phase = "browse" ~> phase = "done"
=============================================================================
