--------------------------- MODULE DiscoveryProofs ---------------------------
(***************************************************************************)
(* Proofs about the browse of an address space, for every graph of nodes,  *)
(* with aliases and cycles, every split into pages, every size of the      *)
(* tables and every depth limit.                                           *)
(***************************************************************************)
EXTENDS Discovery, SequenceTheorems, FiniteSetTheorems, WellFoundedInduction, TLAPS

\* The references of a response that a call has still to process or to ask for.
Pending(frame) == Range(frame.page) \union Range(frame.next)

\* Only a running browse has calls under way.
PhaseInv == phase # "browse" => stack = <<>>

\* The server keeps a point for every call that holds one; more, after a release
\* that did not reach it.
PointsInv ==
    /\ Cardinality(Holding) <= points
    /\ lost \/ points = Cardinality(Holding)

----------------------------------------------------------------------------
\* Sequences and frames.

LEMMA RangeOfTail ==
    ASSUME NEW S, NEW s \in Seq(S), s # <<>>
    PROVE  /\ Head(s) \in S /\ Tail(s) \in Seq(S)
           /\ Range(s) = {Head(s)} \union Range(Tail(s))
<1>1. Tail(s) \in Seq(S) /\ Len(s) \in Nat \ {0} /\ Len(Tail(s)) = Len(s) - 1
    BY HeadTailProperties, EmptySeq
<1>2. /\ Range(s) = {s[i] : i \in 1..Len(s)}
      /\ Range(Tail(s)) = {Tail(s)[i] : i \in 1..Len(Tail(s))}
    BY <1>1, RangeEquality
<1>3. Head(s) = s[1] /\ \A i \in 1..Len(Tail(s)) : Tail(s)[i] = s[i + 1]
    BY HeadTailProperties
<1>4. ASSUME NEW i \in 1..Len(s)
      PROVE  i = 1 \/ (i - 1 \in 1..Len(Tail(s)) /\ s[i] = Tail(s)[i - 1])
    <2>1. PICK m \in Nat \ {0} : m = Len(s)
        BY <1>1, Zenon
    <2>2. i \in 1..m
        BY <2>1, Zenon
    <2>3. i = 1 \/ (i - 1 \in 1..(m - 1) /\ (i - 1) + 1 = i)
        BY <2>2
    <2>4. Len(Tail(s)) = m - 1
        BY <1>1, <2>1, Zenon
    <2> QED BY <1>3, <2>3, <2>4, Zenon
<1>5. \A i \in 1..Len(Tail(s)) : i + 1 \in 1..Len(s)
    BY <1>1
<1>6. Range(s) \subseteq {Head(s)} \union Range(Tail(s))
    <2>1. ASSUME NEW i \in 1..Len(s)
          PROVE  s[i] \in {Head(s)} \union Range(Tail(s))
        <3>1. CASE i = 1
            BY <1>3, <3>1, Zenon
        <3>2. CASE i - 1 \in 1..Len(Tail(s)) /\ s[i] = Tail(s)[i - 1]
            BY <1>2, <3>2, Zenon
        <3> QED BY <1>4, <3>1, <3>2, Zenon
    <2> QED BY <1>2, <2>1, Zenon
<1>7. {Head(s)} \union Range(Tail(s)) \subseteq Range(s)
    BY <1>1, <1>2, <1>3, <1>5
<1> QED BY <1>1, <1>6, <1>7, HeadTailProperties

LEMMA RangeOfEmpty == Range(<<>>) = {}
<1>1. <<>> \in Seq({}) /\ Len(<<>>) = 0
    BY EmptySeq
<1>2. Range(<<>>) \in SUBSET {}
    BY <1>1, RangeOfSeq
<1> QED BY <1>2

\* A reply holds every reference, and what the server still has is asked for.
LEMMA ReplyFrame ==
    ASSUME NEW p \in Nat, NEW references \in Seq(Nodes), NEW reply \in Replies(p, references)
    PROVE  /\ reply \in Frames /\ reply.parent = p
           /\ Pending(reply) = Range(references)
<1>1. PICK n \in IF references = <<>> THEN {0} ELSE 1..Len(references) :
         reply = [parent |-> p, page |-> SubSeq(references, 1, n),
                  next |-> SubSeq(references, n + 1, Len(references))]
    BY DEF Replies
<1>2. Len(references) \in Nat /\ n \in Nat /\ n <= Len(references)
    BY EmptySeq, LenProperties
<1> DEFINE first == SubSeq(references, 1, n)
           second == SubSeq(references, n + 1, Len(references))
<1>3. \A i \in 1..Len(references) : references[i] \in Nodes
    BY ElementOfSeq
<1>4. /\ first \in Seq(Nodes) /\ Len(first) = n
      /\ \A i \in 1..n : first[i] = references[i]
    BY <1>2, <1>3, SubSeqProperties, Z3
<1>5. /\ second \in Seq(Nodes) /\ Len(second) = Len(references) - n
      /\ \A i \in 1..(Len(references) - n) : second[i] = references[i + n]
    <2>1. \A i \in (n + 1)..Len(references) : references[i] \in Nodes
        BY <1>2, <1>3
    <2>2. /\ second \in Seq(Nodes)
          /\ Len(second) = IF n + 1 <= Len(references) THEN Len(references) - (n + 1) + 1 ELSE 0
          /\ \A i \in 1..(Len(references) - (n + 1) + 1) : second[i] = references[n + 1 + i - 1]
        BY <1>2, <2>1, SubSeqProperties
    <2> QED BY <1>2, <2>2
<1>6. /\ Range(first) = {first[i] : i \in 1..n}
      /\ Range(second) = {second[i] : i \in 1..(Len(references) - n)}
      /\ Range(references) = {references[i] : i \in 1..Len(references)}
    BY <1>4, <1>5, RangeEquality
<1>7. Range(first) \union Range(second) \subseteq Range(references)
    <2>1. \A i \in 1..n : i \in 1..Len(references)
        BY <1>2
    <2>2. \A i \in 1..(Len(references) - n) : i + n \in 1..Len(references)
        BY <1>2
    <2> QED BY <1>4, <1>5, <1>6, <2>1, <2>2
<1>8. Range(references) \subseteq Range(first) \union Range(second)
    <2>1. \A i \in 1..Len(references) : i \in 1..n \/ (i - n \in 1..(Len(references) - n) /\ (i - n) + n = i)
        BY <1>2
    <2>2. ASSUME NEW i \in 1..Len(references)
          PROVE  references[i] \in Range(first) \union Range(second)
        <3>1. CASE i \in 1..n
            BY <3>1, <1>4, <1>6
        <3>2. CASE i \notin 1..n
            <4>1. i - n \in 1..(Len(references) - n) /\ (i - n) + n = i
                BY <2>1, <3>2
            <4>2. second[i - n] = references[i]
                BY <4>1, <1>5
            <4> QED BY <4>1, <4>2, <1>6
        <3> QED BY <3>1, <3>2
    <2> QED BY <1>6, <2>2
<1>9. reply \in Frames /\ reply.parent = p /\ reply.page = first /\ reply.next = second
    BY <1>1, <1>4, <1>5 DEF Frames
<1> QED BY <1>7, <1>8, <1>9 DEF Pending

LEMMA TopFrame ==
    ASSUME TypeOK, stack # <<>>
    PROVE  /\ Len(stack) \in 1..(MaximumBrowseDepth + 1)
           /\ DOMAIN stack = 1..Len(stack)
           /\ Top = stack[Len(stack)] /\ Top \in Frames
           /\ Top.parent \in Nat /\ Top.page \in Seq(Nodes) /\ Top.next \in Seq(Nodes)
<1>1. stack \in Seq(Frames) /\ Len(stack) <= MaximumBrowseDepth + 1
    BY DEF TypeOK
<1>2. Len(stack) \in Nat \ {0} /\ DOMAIN stack = 1..Len(stack)
    BY <1>1, EmptySeq, LenProperties
<1>3. Len(stack) \in 1..Len(stack) /\ Len(stack) \in 1..(MaximumBrowseDepth + 1)
    BY <1>1, <1>2, LimitsAssumption
<1>4. Top = stack[Len(stack)] /\ Top \in Frames
    BY <1>1, <1>3, ElementOfSeq DEF Top, Last
<1> QED BY <1>2, <1>3, <1>4 DEF Frames

\* The frames below the top stay as they are when the top is replaced.
LEMMA SetTop ==
    ASSUME TypeOK, stack # <<>>, NEW f \in Frames
    PROVE  LET t == [stack EXCEPT ![Len(stack)] = f] IN
           /\ t \in Seq(Frames) /\ Len(t) = Len(stack) /\ t # <<>>
           /\ DOMAIN t = 1..Len(stack) /\ t[Len(stack)] = f
           /\ \A i \in 1..(Len(stack) - 1) : t[i] = stack[i]
<1>1. stack \in Seq(Frames) /\ Len(stack) \in 1..Len(stack) /\ Len(stack) \in Nat
    BY TopFrame DEF TypeOK
<1> DEFINE t == [stack EXCEPT ![Len(stack)] = f]
<1>2. /\ t \in Seq(Frames) /\ Len(t) = Len(stack)
      /\ \A j \in 1..Len(stack) : t[j] = IF j = Len(stack) THEN f ELSE stack[j]
    BY <1>1, ExceptSeq
<1>3. t # <<>> /\ DOMAIN t = 1..Len(stack)
    BY <1>1, <1>2, EmptySeq, LenProperties
<1>4. t[Len(stack)] = f
    BY <1>1, <1>2
<1>5. \A i \in 1..(Len(stack) - 1) : i \in 1..Len(stack) /\ i # Len(stack)
    BY <1>1
<1> QED BY <1>2, <1>3, <1>4, <1>5

LEMMA AdvancedTop ==
    ASSUME TypeOK, NEW node \in Nodes, Processing(node)
    PROVE  /\ Advanced \in Seq(Frames) /\ Len(Advanced) = Len(stack) /\ stack # <<>>
           /\ \A i \in 1..(Len(stack) - 1) : Advanced[i] = stack[i]
           /\ Advanced[Len(stack)].parent = Top.parent
           /\ Advanced[Len(stack)].next = Top.next
           /\ Pending(Top) = {node} \union Pending(Advanced[Len(stack)])
<1>1. stack # <<>> /\ Top.page # <<>> /\ node = Head(Top.page)
    BY DEF Processing
<1>2. Top \in Frames /\ Top.page \in Seq(Nodes) /\ Top = stack[Len(stack)]
    BY <1>1, TopFrame
<1> DEFINE f == [Top EXCEPT !.page = Tail(Top.page)]
<1>3. Tail(Top.page) \in Seq(Nodes) /\ Range(Top.page) = {node} \union Range(Tail(Top.page))
    BY <1>1, <1>2, RangeOfTail
<1>4. /\ f \in Frames /\ f.parent = Top.parent /\ f.next = Top.next
      /\ f.page = Tail(Top.page)
    BY <1>2, <1>3 DEF Frames
<1>5. Advanced = [stack EXCEPT ![Len(stack)] = f]
    BY <1>2 DEF Advanced
<1>6. Pending(Top) = {node} \union Pending(f)
    BY <1>3, <1>4 DEF Pending
<1> QED BY <1>1, <1>4, <1>5, <1>6, SetTop

LEMMA TopWithoutPoint ==
    ASSUME TypeOK, stack # <<>>
    PROVE  /\ WithoutPoint \in Seq(Frames) /\ Len(WithoutPoint) = Len(stack)
           /\ \A i \in 1..(Len(stack) - 1) : WithoutPoint[i] = stack[i]
           /\ WithoutPoint[Len(stack)].parent = Top.parent
           /\ WithoutPoint[Len(stack)].next = <<>>
           /\ Pending(WithoutPoint[Len(stack)]) \subseteq Pending(Top)
<1>1. Top \in Frames /\ Top = stack[Len(stack)]
    BY TopFrame
<1> DEFINE f == [Top EXCEPT !.next = <<>>]
<1>2. /\ f \in Frames /\ f.parent = Top.parent /\ f.page = Top.page /\ f.next = <<>>
    BY <1>1, EmptySeq DEF Frames
<1>3. WithoutPoint = [stack EXCEPT ![Len(stack)] = f]
    BY <1>1 DEF WithoutPoint
<1>4. Pending(f) \subseteq Pending(Top)
    BY <1>2, RangeOfEmpty DEF Pending
<1> QED BY <1>2, <1>3, <1>4, SetTop

LEMMA FrontFrames ==
    ASSUME TypeOK, stack # <<>>
    PROVE  /\ Front(stack) \in Seq(Frames) /\ Len(Front(stack)) = Len(stack) - 1
           /\ \A i \in 1..(Len(stack) - 1) : Front(stack)[i] = stack[i]
<1>1. Len(stack) \in Nat \ {0} /\ stack \in Seq(Frames)
    BY TopFrame DEF TypeOK
<1>2. PICK n \in Nat : n = Len(stack) - 1
    BY <1>1
<1>3. \A i \in 1..n : stack[i] \in Frames
    BY <1>1, <1>2, ElementOfSeq
<1>4. /\ SubSeq(stack, 1, n) \in Seq(Frames)
      /\ Len(SubSeq(stack, 1, n)) = IF 1 <= n THEN n - 1 + 1 ELSE 0
      /\ \A i \in 1..(n - 1 + 1) : SubSeq(stack, 1, n)[i] = stack[1 + i - 1]
    BY <1>3, SubSeqProperties
<1>5. (IF 1 <= n THEN n - 1 + 1 ELSE 0) = n /\ n - 1 + 1 = n
    OBVIOUS
<1>6. \A i \in 1..n : SubSeq(stack, 1, n)[i] = stack[i]
    BY <1>4, <1>5
<1>7. Front(stack) = SubSeq(stack, 1, n)
    BY <1>2 DEF Front
<1>8. Len(SubSeq(stack, 1, n)) = n
    BY <1>4, <1>5, Zenon
<1> QED BY <1>2, <1>4, <1>6, <1>7, <1>8, Zenon

\* A stack that differs from the present one in its top at most.
OnlyTop(s) ==
    /\ stack # <<>> /\ s \in Seq(Frames) /\ Len(s) = Len(stack)
    /\ \A i \in 1..(Len(stack) - 1) : s[i] = stack[i]

----------------------------------------------------------------------------
\* Continuation points.

HoldingOf(s) == {i \in DOMAIN s : s[i].next # <<>>}

LEMMA HoldingFinite ==
    ASSUME NEW s \in Seq(Frames)
    PROVE  IsFiniteSet(HoldingOf(s)) /\ Cardinality(HoldingOf(s)) \in Nat
<1>1. Len(s) \in Nat /\ DOMAIN s = 1..Len(s)
    BY LenProperties
<1>2. IsFiniteSet(1..Len(s))
    BY <1>1, FS_Interval
<1>3. HoldingOf(s) \in SUBSET (1..Len(s))
    BY <1>1 DEF HoldingOf
<1> QED BY <1>2, <1>3, FS_Subset, FS_CardinalityType

LEMMA TopHolding ==
    ASSUME TypeOK, NEW s, OnlyTop(s)
    PROVE  /\ (s[Len(stack)].next # <<>> <=> Top.next # <<>>) => HoldingOf(s) = Holding
           /\ Top.next # <<>> /\ s[Len(stack)].next = <<>>
                  => Cardinality(HoldingOf(s)) = Cardinality(Holding) - 1
<1>1. /\ Len(stack) \in Nat \ {0} /\ DOMAIN stack = 1..Len(stack) /\ DOMAIN s = 1..Len(stack)
      /\ Top = stack[Len(stack)] /\ stack \in Seq(Frames)
    BY TopFrame, LenProperties DEF OnlyTop, TypeOK
<1>a. PICK n \in Nat \ {0} : n = Len(stack)
    BY <1>1
<1>b. \A i \in 1..n : i # n => i \in 1..(n - 1)
    OBVIOUS
<1>2. \A i \in 1..Len(stack) : i # Len(stack) => s[i] = stack[i]
    BY <1>a, <1>b, Zenon DEF OnlyTop
<1>3. \A i \in 1..Len(stack) : i # Len(stack) => (i \in HoldingOf(s) <=> i \in Holding)
    BY <1>1, <1>2, Zenon DEF HoldingOf, Holding
<1>4. HoldingOf(s) \subseteq 1..Len(stack) /\ Holding \subseteq 1..Len(stack)
    BY <1>1 DEF HoldingOf, Holding
<1>5. /\ Len(stack) \in HoldingOf(s) <=> s[Len(stack)].next # <<>>
      /\ Len(stack) \in Holding <=> Top.next # <<>>
    BY <1>1 DEF HoldingOf, Holding
<1>6. ASSUME Top.next # <<>>, s[Len(stack)].next = <<>>
      PROVE  Cardinality(HoldingOf(s)) = Cardinality(Holding) - 1
    <2>1. HoldingOf(s) = Holding \ {Len(stack)} /\ Len(stack) \in Holding
        BY <1>3, <1>4, <1>5, <1>6
    <2>2. IsFiniteSet(Holding)
        BY <1>1, HoldingFinite DEF Holding, HoldingOf
    <2> QED BY <2>1, <2>2, FS_RemoveElement
<1>7. ASSUME s[Len(stack)].next # <<>> <=> Top.next # <<>>
      PROVE  HoldingOf(s) = Holding
    <2>1. Len(stack) \in HoldingOf(s) <=> Len(stack) \in Holding
        BY <1>5, <1>7, Zenon
    <2>2. \A i \in 1..Len(stack) : i \in HoldingOf(s) <=> i \in Holding
        BY <1>3, <2>1, Zenon
    <2>3. HoldingOf(s) \subseteq Holding /\ Holding \subseteq HoldingOf(s)
        BY <1>4, <2>2, Zenon
    <2> QED BY <2>3, Zenon
<1> QED BY <1>6, <1>7

LEMMA PushedHolding ==
    ASSUME NEW s \in Seq(Frames), NEW f \in Frames
    PROVE  /\ Append(s, f) \in Seq(Frames) /\ Len(Append(s, f)) = Len(s) + 1
           /\ Cardinality(HoldingOf(Append(s, f))) = Cardinality(HoldingOf(s)) + PointsOf(f)
<1>1. /\ Append(s, f) \in Seq(Frames) /\ Len(Append(s, f)) = Len(s) + 1
      /\ \A i \in 1..Len(s) : Append(s, f)[i] = s[i]
      /\ Append(s, f)[Len(s) + 1] = f
    BY AppendProperties
<1>2. Len(s) \in Nat /\ DOMAIN s = 1..Len(s) /\ DOMAIN Append(s, f) = 1..(Len(s) + 1)
    BY <1>1, LenProperties
<1>3. \A i \in 1..(Len(s) + 1) : i \in 1..Len(s) \/ i = Len(s) + 1
    BY <1>2
<1>4. IsFiniteSet(HoldingOf(s)) /\ Cardinality(HoldingOf(s)) \in Nat /\ Len(s) + 1 \notin HoldingOf(s)
    BY <1>2, HoldingFinite DEF HoldingOf
<1>5. \A i \in 1..Len(s) : i \in 1..(Len(s) + 1) /\ i # Len(s) + 1
    BY <1>2
<1>6. CASE f.next = <<>>
    <2>1. HoldingOf(Append(s, f)) = HoldingOf(s)
        BY <1>1, <1>2, <1>3, <1>5, <1>6 DEF HoldingOf
    <2> QED BY <1>1, <1>4, <1>6, <2>1 DEF PointsOf
<1>7. CASE f.next # <<>>
    <2>1. HoldingOf(Append(s, f)) = HoldingOf(s) \union {Len(s) + 1}
        BY <1>1, <1>2, <1>3, <1>5, <1>7 DEF HoldingOf
    <2>2. Cardinality(HoldingOf(s) \union {Len(s) + 1}) = Cardinality(HoldingOf(s)) + 1
        BY <1>4, FS_AddElement
    <2> QED BY <1>1, <1>7, <2>1, <2>2 DEF PointsOf
<1> QED BY <1>6, <1>7

LEMMA FrontHolding ==
    ASSUME TypeOK, stack # <<>>, Top.next = <<>>
    PROVE  HoldingOf(Front(stack)) = Holding
<1>1. /\ Front(stack) \in Seq(Frames) /\ Len(Front(stack)) = Len(stack) - 1
      /\ \A i \in 1..(Len(stack) - 1) : Front(stack)[i] = stack[i]
    BY FrontFrames
<1>2. /\ DOMAIN Front(stack) = 1..(Len(stack) - 1) /\ DOMAIN stack = 1..Len(stack)
      /\ Len(stack) \in Nat \ {0} /\ stack[Len(stack)].next = <<>>
    BY <1>1, TopFrame, LenProperties
<1>3. \A i : i \in 1..(Len(stack) - 1) <=> i \in 1..Len(stack) /\ i # Len(stack)
    BY <1>2
<1> QED BY <1>1, <1>2, <1>3 DEF HoldingOf, Holding

----------------------------------------------------------------------------
\* The types and the count of the continuation points.

TypedStack == /\ stack' \in Seq(Frames) /\ Len(stack') <= MaximumBrowseDepth + 1
              /\ points' \in Nat

LEMMA PointsOfFrame ==
    ASSUME NEW f \in Frames
    PROVE  /\ PointsOf(f) \in {0, 1}
           /\ f.next = <<>> => PointsOf(f) = 0
           /\ f.next # <<>> => PointsOf(f) = 1
BY DEF PointsOf

LEMMA SpaceReferences ==
    ASSUME TypeOK, NEW node \in Browsable
    PROVE  space[node] \in Seq(Nodes)
BY SpacesAssumption DEF TypeOK

\* A call on a node keeps the count, whatever becomes of it.
LEMMA BrowseKeepsPoints ==
    ASSUME TypeOK, PointsInv, NEW node \in Browsable, NEW p \in Nat,
           NEW s, OnlyTop(s), s[Len(stack)].next = Top.next, Browse(node, p, s), lost' = lost
    PROVE  TypedStack /\ result' \in {"GOOD", "BAD"} /\ limited' \in BOOLEAN /\ PointsInv'
<1>1. /\ s \in Seq(Frames) /\ Len(s) \in Nat /\ Len(s) <= MaximumBrowseDepth + 1
      /\ points \in Nat /\ result \in {"GOOD", "BAD"} /\ limited \in BOOLEAN
    BY LenProperties DEF OnlyTop, TypeOK
<1>2. HoldingOf(s) = Holding
    BY TopHolding
<1>3. Holding' = HoldingOf(stack')
    BY DEF Holding, HoldingOf
<1>4. Cardinality(Holding) \in Nat
    BY <1>1, <1>2, HoldingFinite
<1>5. CASE stack' = s /\ points' = points
    <2>1. TypedStack
        BY <1>1, <1>5 DEF TypedStack
    <2>2. Holding' = Holding
        BY <1>2, <1>3, <1>5
    <2> QED BY <1>1, <1>5, <2>1, <2>2 DEF PointsInv, Browse
<1>6. CASE /\ Len(s) <= MaximumBrowseDepth
           /\ \E reply \in Replies(p, space[node]) :
                  stack' = Append(s, reply) /\ points' = points + PointsOf(reply)
           /\ UNCHANGED <<result, limited>>
    <2>1. PICK reply \in Replies(p, space[node]) :
             stack' = Append(s, reply) /\ points' = points + PointsOf(reply)
        BY <1>6
    <2>2. reply \in Frames
        BY SpaceReferences, ReplyFrame
    <2>3. PointsOf(reply) \in {0, 1}
        BY <2>2, PointsOfFrame
    <2>4. /\ stack' \in Seq(Frames) /\ Len(stack') = Len(s) + 1
          /\ Cardinality(Holding') = Cardinality(Holding) + PointsOf(reply)
        BY <1>1, <1>2, <1>3, <2>1, <2>2, PushedHolding
    <2>5. TypedStack
        BY <1>1, <1>6, <2>1, <2>3, <2>4, LimitsAssumption DEF TypedStack
    <2>6. PointsInv'
        BY <1>1, <1>4, <2>1, <2>3, <2>4 DEF PointsInv
    <2> QED BY <1>1, <1>6, <2>5, <2>6
<1>7. Len(s) <= MaximumBrowseDepth \/ Len(s) > MaximumBrowseDepth
    BY <1>1, LimitsAssumption
<1> QED BY <1>5, <1>6, <1>7 DEF Browse

LEMMA EmptyStack ==
    /\ <<>> \in Seq(Frames) /\ Len(<<>>) = 0
    /\ HoldingOf(<<>>) = {} /\ Cardinality({}) = 0
BY EmptySeq, FS_EmptySet DEF HoldingOf

LEMMA BasicInit == Init => TypeOK /\ PhaseInv /\ PointsInv
<1> SUFFICES ASSUME Init PROVE TypeOK /\ PhaseInv /\ PointsInv
    OBVIOUS
<1>1. TypeOK
    <2>1. \A S : <<>> \in Seq(S)
        BY EmptySeq
    <2>2. /\ Len(stack) <= MaximumBrowseDepth + 1
          /\ Len(equipment) <= MaximumObjects /\ Len(tags) <= MaximumTags
        BY EmptyStack, LimitsAssumption DEF Init
    <2> QED BY <2>1, <2>2 DEF Init, TypeOK
<1>2. Holding = {}
    BY EmptyStack DEF Init, Holding, HoldingOf
<1> QED BY <1>1, <1>2, EmptyStack DEF Init, PhaseInv, PointsInv

\* A step that replaces the frame on top, and keeps the tables.
LEMMA TopStep ==
    ASSUME TypeOK, OnlyTop(stack')
    PROVE  /\ stack' \in Seq(Frames) /\ Len(stack') <= MaximumBrowseDepth + 1
           /\ IF Top.next # <<>> /\ stack'[Len(stack)].next = <<>>
              THEN Cardinality(Holding') = Cardinality(Holding) - 1
              ELSE (stack'[Len(stack)].next # <<>> <=> Top.next # <<>>)
                      => Cardinality(Holding') = Cardinality(Holding)
<1>1. Holding' = HoldingOf(stack')
    BY DEF Holding, HoldingOf
<1>2. stack' \in Seq(Frames) /\ Len(stack') <= MaximumBrowseDepth + 1
    BY DEF TypeOK, OnlyTop
<1> QED BY <1>1, <1>2, TopHolding, Zenon

\* A step that replaces the frame on top by the next page.
LEMMA PageStep ==
    ASSUME TypeOK, OnlyTop(stack'), Top.next # <<>>
    PROVE  Cardinality(Holding') = Cardinality(Holding) - 1 + PointsOf(stack'[Len(stack)])
<1>1. Len(stack) \in 1..Len(stack) /\ stack' \in Seq(Frames) /\ Len(stack') = Len(stack)
    BY TopFrame DEF OnlyTop
<1>2. stack'[Len(stack)] \in Frames
    BY <1>1, ElementOfSeq
<1>3. Cardinality(Holding) \in Nat /\ stack \in Seq(Frames)
    BY HoldingFinite DEF Holding, HoldingOf, TypeOK
<1>4. CASE stack'[Len(stack)].next = <<>>
    BY <1>2, <1>3, <1>4, TopStep, PointsOfFrame
<1>5. CASE stack'[Len(stack)].next # <<>>
    BY <1>2, <1>3, <1>5, TopStep, PointsOfFrame
<1> QED BY <1>4, <1>5

LEMMA BasicStep ==
    ASSUME TypeOK, PhaseInv, PointsInv, [Next]_vars
    PROVE  TypeOK' /\ PhaseInv' /\ PointsInv'
<1> DEFINE Rest == /\ space' \in Spaces /\ phase' \in {"idle", "browse", "done"}
                   /\ equipment' \in Seq([node : Objects, parent : Nat])
                   /\ Len(equipment') <= MaximumObjects
                   /\ tags' \in Seq([node : Variables, object : Nat \ {0}])
                   /\ Len(tags') <= MaximumTags
           Status == result' \in {"GOOD", "BAD"} /\ limited' \in BOOLEAN /\ lost' \in BOOLEAN
<1>a. TypedStack /\ Rest /\ Status => TypeOK'
    BY DEF TypeOK, TypedStack
<1>b. UNCHANGED <<space, phase, equipment, tags>> => Rest
    BY DEF TypeOK
<1>c. /\ points \in Nat /\ Cardinality(Holding) \in Nat /\ IsFiniteSet(Holding)
      /\ stack \in Seq(Frames) /\ result \in {"GOOD", "BAD"} /\ limited \in BOOLEAN
      /\ lost \in BOOLEAN /\ phase \in {"idle", "browse", "done"}
    BY HoldingFinite DEF Holding, HoldingOf, TypeOK
<1>d. stack # <<>> => phase = "browse"
    BY DEF PhaseInv
<1>e. stack # <<>> /\ Top.next # <<>> => Cardinality(Holding) > 0 /\ points > 0
    <2> SUFFICES ASSUME stack # <<>>, Top.next # <<>> PROVE Cardinality(Holding) > 0 /\ points > 0
        OBVIOUS
    <2>1. Len(stack) \in Holding
        BY TopFrame DEF Holding
    <2>2. Cardinality(Holding) # 0
        BY <1>c, <2>1, FS_EmptySet
    <2> QED BY <1>c, <2>2 DEF PointsInv
<1>f. \A f \in Frames : f.page \in Seq(Nodes) /\ f.next \in Seq(Nodes) /\ f.parent \in Nat
    BY DEF Frames
<1>g. /\ <<>> \in Seq([node : Objects, parent : Nat]) /\ Len(<<>>) <= MaximumObjects
      /\ <<>> \in Seq([node : Variables, object : Nat \ {0}]) /\ Len(<<>>) <= MaximumTags
    <2>1. \A S : <<>> \in Seq(S)
        BY EmptySeq
    <2>2. 0 <= MaximumObjects /\ 0 <= MaximumTags
        BY LimitsAssumption
    <2> QED BY <2>1, <2>2, EmptyStack
<1>1. CASE Discover
    <2>1. Rest /\ limited' \in BOOLEAN /\ lost' \in BOOLEAN
        BY <1>g, <1>1 DEF Discover, TypeOK
    <2>2. CASE \E reply \in Replies(NoParent, space[ObjectsFolder]) :
                   stack' = <<reply>> /\ points' = PointsOf(reply) /\ result' = "GOOD"
        <3>1. PICK reply \in Replies(NoParent, space[ObjectsFolder]) :
                 stack' = <<reply>> /\ points' = PointsOf(reply) /\ result' = "GOOD"
            BY <2>2
        <3>2. reply \in Frames /\ PointsOf(reply) \in {0, 1}
            BY SpaceReferences, ReplyFrame, PointsOfFrame, KindsAssumption DEF Browsable, NoParent
        <3>3. stack' = Append(<<>>, reply)
            BY <3>1
        <3>4. /\ stack' \in Seq(Frames) /\ Len(stack') = 1
              /\ Cardinality(HoldingOf(stack')) = PointsOf(reply)
            <4>1. /\ stack' \in Seq(Frames) /\ Len(stack') = Len(<<>>) + 1
                  /\ Cardinality(HoldingOf(stack')) = Cardinality(HoldingOf(<<>>)) + PointsOf(reply)
                BY <3>2, <3>3, EmptyStack, PushedHolding, Zenon
            <4> QED BY <3>2, <4>1, EmptyStack
        <3>5. Holding' = HoldingOf(stack')
            BY DEF Holding, HoldingOf
        <3> QED BY <1>a, <1>1, <2>1, <3>1, <3>2, <3>4, <3>5, LimitsAssumption
                DEF TypedStack, PointsInv, PhaseInv, Discover
    <2>3. CASE stack' = <<>> /\ points' = 0 /\ result' = "BAD"
        <3>1. Cardinality(Holding') = 0
            BY <2>3, EmptyStack DEF Holding, HoldingOf
        <3>2. TypedStack
            BY <2>3, EmptyStack, LimitsAssumption DEF TypedStack
        <3> QED BY <1>a, <1>1, <2>1, <2>3, <3>1, <3>2 DEF PointsInv, PhaseInv, Discover
    <2> QED BY <1>1, <2>2, <2>3 DEF Discover
<1>2. CASE Finish
    <2>1. Rest
        BY <1>g, <1>2 DEF Finish, TypeOK
    <2>2. Status /\ TypedStack
        BY <1>2 DEF Finish, TypeOK, TypedStack
    <2> QED BY <1>a, <1>2, <2>1, <2>2 DEF Finish, PhaseInv, PointsInv, Holding
<1>3. CASE NextPage
    <2>1. PICK reply \in Replies(Top.parent, Top.next) :
             /\ stack' = [stack EXCEPT ![Len(stack)] = reply]
             /\ points' = points - 1 + PointsOf(reply)
        BY <1>3 DEF NextPage
    <2>2. stack # <<>> /\ Top.next # <<>> /\ Rest /\ Status
        BY <1>b, <1>c, <1>3 DEF NextPage, PageProcessed
    <2>3. reply \in Frames /\ PointsOf(reply) \in {0, 1}
        BY <2>2, TopFrame, ReplyFrame, PointsOfFrame
    <2>4. OnlyTop(stack') /\ stack'[Len(stack)] = reply /\ stack' # <<>>
        BY <2>1, <2>2, <2>3, SetTop DEF OnlyTop
    <2>5. Cardinality(Holding') = Cardinality(Holding) - 1 + PointsOf(reply)
        BY <2>2, <2>4, PageStep
    <2>6. TypedStack
        BY <1>c, <1>e, <2>1, <2>2, <2>3, <2>4, TopStep DEF TypedStack
    <2>7. PointsInv'
        BY <1>c, <1>3, <2>1, <2>3, <2>5 DEF PointsInv, NextPage
    <2> QED BY <1>a, <1>d, <1>3, <2>2, <2>6, <2>7 DEF PhaseInv, NextPage
<1>4. CASE NextPageFails
    <2>1. stack # <<>> /\ Top.next # <<>> /\ Rest /\ Status /\ stack' = WithoutPoint
        BY <1>b, <1>c, <1>4 DEF NextPageFails, PageProcessed
    <2>2. OnlyTop(stack') /\ stack'[Len(stack)].next = <<>>
        BY <2>1, TopWithoutPoint DEF OnlyTop
    <2>3. Cardinality(Holding') = Cardinality(Holding) - 1 /\ TypedStack
        BY <1>c, <1>e, <1>4, <2>1, <2>2, TopStep DEF TypedStack, NextPageFails
    <2>4. PointsInv'
        BY <1>c, <1>4, <2>3 DEF PointsInv, NextPageFails
    <2> QED BY <1>a, <1>d, <1>4, <2>1, <2>3, <2>4 DEF PhaseInv, NextPageFails
<1>5. CASE CopyFails
    <2>1. stack # <<>> /\ Top.next # <<>> /\ Rest /\ Status /\ stack' = WithoutPoint
        BY <1>b, <1>c, <1>5 DEF CopyFails, PageProcessed
    <2>2. OnlyTop(stack') /\ stack'[Len(stack)].next = <<>>
        BY <2>1, TopWithoutPoint DEF OnlyTop
    <2>3. Cardinality(Holding') = Cardinality(Holding) - 1 /\ TypedStack
        BY <1>c, <1>5, <2>1, <2>2, TopStep DEF TypedStack, CopyFails
    <2>4. PointsInv'
        BY <1>c, <1>5, <2>3 DEF PointsInv, CopyFails
    <2> QED BY <1>a, <1>d, <1>5, <2>1, <2>3, <2>4 DEF PhaseInv, CopyFails
<1>6. CASE ReleaseContinuationPoint
    <2>1. stack # <<>> /\ Top.next # <<>> /\ Rest /\ Status /\ stack' = WithoutPoint
        BY <1>b, <1>c, <1>6 DEF ReleaseContinuationPoint, PageProcessed
    <2>2. OnlyTop(stack') /\ stack'[Len(stack)].next = <<>>
        BY <2>1, TopWithoutPoint DEF OnlyTop
    <2>3. Cardinality(Holding') = Cardinality(Holding) - 1 /\ TypedStack
        BY <1>c, <1>e, <1>6, <2>1, <2>2, TopStep DEF TypedStack, ReleaseContinuationPoint
    <2>4. PointsInv'
        BY <1>c, <1>6, <2>3 DEF PointsInv, ReleaseContinuationPoint
    <2> QED BY <1>a, <1>d, <1>6, <2>1, <2>3, <2>4 DEF PhaseInv, ReleaseContinuationPoint
<1>7. CASE Return
    <2>1. stack # <<>> /\ Top.next = <<>> /\ Rest /\ Status /\ stack' = Front(stack)
        BY <1>b, <1>c, <1>7 DEF Return, PageProcessed
    <2>2. Holding' = Holding
        BY <2>1, FrontHolding DEF Holding, HoldingOf
    <2>3. TypedStack
        <3>1. Len(stack) \in 1..(MaximumBrowseDepth + 1)
            BY <2>1, TopFrame
        <3>2. Len(stack) - 1 <= MaximumBrowseDepth + 1
            BY <3>1, LimitsAssumption
        <3> QED BY <1>c, <1>7, <2>1, <3>2, FrontFrames DEF TypedStack, Return
    <2> QED BY <1>a, <1>d, <1>7, <2>1, <2>2, <2>3 DEF PhaseInv, PointsInv, Return
<1>8. CASE SkipReference
    <2>1. PICK node \in Nodes : Processing(node)
        BY <1>8 DEF SkipReference
    <2>2. Rest /\ Status /\ stack' = Advanced
        BY <1>b, <1>c, <1>8 DEF SkipReference
    <2>3. OnlyTop(stack') /\ stack'[Len(stack)].next = Top.next /\ stack # <<>>
        BY <2>1, <2>2, AdvancedTop DEF OnlyTop
    <2>4. Cardinality(Holding') = Cardinality(Holding) /\ TypedStack
        BY <1>c, <1>8, <2>3, TopStep DEF TypedStack, SkipReference
    <2> QED BY <1>a, <1>d, <1>8, <2>2, <2>3, <2>4 DEF PhaseInv, PointsInv, SkipReference
<1>9. CASE BrowseFolder
    <2>1. PICK node \in Folders : Processing(node) /\ Browse(node, Top.parent, Advanced)
        BY <1>9 DEF BrowseFolder
    <2>2. node \in Browsable /\ node \in Nodes
        BY DEF Browsable, Nodes
    <2>3. OnlyTop(Advanced) /\ Advanced[Len(stack)].next = Top.next /\ stack # <<>>
        BY <2>1, <2>2, AdvancedTop DEF OnlyTop
    <2>4. Rest /\ lost' = lost /\ phase' = phase
        BY <1>b, <1>9 DEF BrowseFolder
    <2>5. TypedStack /\ result' \in {"GOOD", "BAD"} /\ limited' \in BOOLEAN /\ PointsInv'
        BY <2>1, <2>2, <2>3, <2>4, TopFrame, BrowseKeepsPoints
    <2> QED BY <1>a, <1>c, <1>d, <2>3, <2>4, <2>5 DEF PhaseInv
<1>10. CASE AddObject
    <2>1. PICK node \in Objects \ MappedObjects :
             /\ Processing(node) /\ Len(equipment) < MaximumObjects
             /\ equipment' = Append(equipment, [node |-> node, parent |-> Top.parent])
             /\ Browse(node, Len(equipment'), Advanced)
        BY <1>10 DEF AddObject
    <2>2. node \in Browsable /\ node \in Nodes
        BY DEF Browsable, Nodes
    <2>3. OnlyTop(Advanced) /\ Advanced[Len(stack)].next = Top.next /\ stack # <<>>
        BY <2>1, <2>2, AdvancedTop DEF OnlyTop
    <2>4. /\ equipment' \in Seq([node : Objects, parent : Nat])
          /\ Len(equipment') = Len(equipment) + 1
        <3>1. [node |-> node, parent |-> Top.parent] \in [node : Objects, parent : Nat]
            BY <2>3, TopFrame
        <3> QED BY <2>1, <3>1, AppendProperties DEF TypeOK
    <2>5. Len(equipment') \in Nat /\ Len(equipment') <= MaximumObjects
        <3>1. Len(equipment) \in Nat
            BY LenProperties DEF TypeOK
        <3> QED BY <2>1, <2>4, <3>1, LimitsAssumption
    <2>6. Rest /\ lost' = lost /\ phase' = phase
        BY <1>10, <2>4, <2>5 DEF AddObject, TypeOK
    <2>7. TypedStack /\ result' \in {"GOOD", "BAD"} /\ limited' \in BOOLEAN /\ PointsInv'
        BY <2>1, <2>2, <2>3, <2>5, <2>6, BrowseKeepsPoints
    <2> QED BY <1>a, <1>c, <1>d, <2>3, <2>6, <2>7 DEF PhaseInv
<1>11. CASE AddVariable
    <2>1. PICK node \in Variables \ MappedVariables :
             /\ Processing(node) /\ Top.parent # NoParent /\ Len(tags) < MaximumTags
             /\ tags' = Append(tags, [node |-> node, object |-> Top.parent])
        BY <1>11 DEF AddVariable
    <2>2. node \in Nodes /\ stack' = Advanced
        BY <1>11 DEF Nodes, AddVariable
    <2>3. OnlyTop(stack') /\ stack'[Len(stack)].next = Top.next /\ stack # <<>>
        BY <2>1, <2>2, AdvancedTop DEF OnlyTop
    <2>4. tags' \in Seq([node : Variables, object : Nat \ {0}]) /\ Len(tags') = Len(tags) + 1
        <3>1. [node |-> node, object |-> Top.parent] \in [node : Variables, object : Nat \ {0}]
            BY <2>1, <2>3, TopFrame DEF NoParent
        <3> QED BY <2>1, <3>1, AppendProperties DEF TypeOK
    <2>5. Len(tags') <= MaximumTags
        <3>1. Len(tags) \in Nat
            BY LenProperties DEF TypeOK
        <3> QED BY <2>1, <2>4, <3>1, LimitsAssumption
    <2>6. Rest /\ Status
        BY <1>11, <2>4, <2>5 DEF AddVariable, TypeOK
    <2>7. Cardinality(Holding') = Cardinality(Holding) /\ TypedStack
        BY <1>c, <1>11, <2>3, TopStep DEF TypedStack, AddVariable
    <2> QED BY <1>a, <1>d, <1>11, <2>3, <2>6, <2>7 DEF PhaseInv, PointsInv, AddVariable
<1>12. CASE AddFails
    <2>1. PICK node \in Objects \union Variables : Processing(node)
        BY <1>12 DEF AddFails
    <2>2. node \in Nodes /\ stack' = Advanced /\ Rest /\ Status
        BY <1>b, <1>c, <1>12 DEF AddFails, Nodes, Browsable
    <2>3. OnlyTop(stack') /\ stack'[Len(stack)].next = Top.next /\ stack # <<>>
        BY <2>1, <2>2, AdvancedTop DEF OnlyTop
    <2>4. Cardinality(Holding') = Cardinality(Holding) /\ TypedStack
        BY <1>c, <1>12, <2>3, TopStep DEF TypedStack, AddFails
    <2> QED BY <1>a, <1>d, <1>12, <2>2, <2>3, <2>4 DEF PhaseInv, PointsInv, AddFails
<1>13. CASE UNCHANGED vars
    BY <1>13 DEF vars, TypeOK, PhaseInv, PointsInv, Holding
<1> QED BY <1>1, <1>2, <1>3, <1>4, <1>5, <1>6, <1>7, <1>8, <1>9, <1>10, <1>11, <1>12, <1>13 DEF Next

----------------------------------------------------------------------------
\* The graph of the server: constants of the space.

\* One step from a set of nodes through its folders, and the sets of all steps
\* the properties speak of: Through is the last of Layers, Reached the last of
\* ReachedLayers.
WiderIn(sp, nodes) == nodes \union UNION {Range(sp[f]) : f \in nodes \intersect Folders}

Layers(sp, nodes) ==
    LET layer[k \in 0..MaximumBrowseDepth] ==
            IF k = 0 THEN nodes ELSE WiderIn(sp, layer[k - 1])
    IN  layer

StepIn(sp, S) ==
    S \union UNION {{<<m, s[2] \/ (s[1] \in Objects)>> : m \in Range(sp[s[1]])}
                        : s \in {t \in S : t[1] \in Browsable}}

EnoughSteps == 2 * Cardinality(Browsable) + 1

ReachedLayers(sp) ==
    LET layer[j \in 0..EnoughSteps] ==
            IF j = 0 THEN {<<ObjectsFolder, FALSE>>} ELSE StepIn(sp, layer[j - 1])
    IN  layer

ReachedIn(sp) == ReachedLayers(sp)[EnoughSteps]

\* The nodes of such pairs, by whether an object is on the way to them.
Outside(S) == {m \in Nodes : <<m, FALSE>> \in S}
Inside(S) == {m \in Nodes : <<m, TRUE>> \in S}

\* The invariant that DiscoveredTreeIsServers and one half of
\* CompleteUnlessCutOff need: what a call has still to process is shown by the
\* server below the call's parent, through as many folders as calls lie below it
\* at most, and can be reached.
BelowIn(sp, table, p) ==
    Layers(sp, IF p = NoParent THEN Range(sp[ObjectsFolder]) ELSE Range(sp[table[p].node]))

Shown(sp, table, i, p) ==
    BelowIn(sp, table, p)[i - 1] \intersect
        (IF p = NoParent THEN Outside(ReachedIn(sp)) ELSE Inside(ReachedIn(sp)))

FramesOf(sp, table, s) ==
    \A i \in 1..Len(s) :
        /\ s[i].parent \in 0..Len(table)
        /\ Pending(s[i]) \subseteq Shown(sp, table, i, s[i].parent)

FramesInv == FramesOf(space, equipment, stack)

ObjectsInv ==
    /\ IsFiniteSet(MappedObjects) /\ Cardinality(MappedObjects) = Len(equipment)
    /\ \A i \in 1..Len(equipment) :
           /\ equipment[i].parent < i
           /\ equipment[i].node \in
                  Shown(space, equipment, MaximumBrowseDepth + 1, equipment[i].parent)

TagsInv ==
    /\ IsFiniteSet(MappedVariables) /\ Cardinality(MappedVariables) = Len(tags)
    /\ \A i \in 1..Len(tags) :
           /\ tags[i].object \in 1..Len(equipment)
           /\ tags[i].node \in Shown(space, equipment, MaximumBrowseDepth + 1, tags[i].object)

\* The invariant the other half needs: while nothing has failed or been cut off,
\* the references of every folder and object already browsed are settled or
\* pending.  Of the folders no table is kept: the sets of those browsed outside
\* and inside of objects are bound variables.
Side(p) == IF p = NoParent THEN 0 ELSE 1

PendingSide(s, b) ==
    UNION {Pending(s[i]) : i \in {j \in 1..Len(s) : Side(s[j].parent) = b}}

Settled(browsed, b) ==
    Ignored \union browsed[b] \union MappedObjects \union MappedVariables
            \union (IF b = 0 THEN Variables ELSE {})

Cover(browsed) ==
    /\ ObjectsFolder \in browsed[0]
    /\ \A b \in {0, 1} : \A f \in browsed[b] :
           References(f) \subseteq Settled(browsed, b) \union PendingSide(stack, b)
    /\ \A o \in MappedObjects :
           References(o) \subseteq Settled(browsed, 1) \union PendingSide(stack, 1)

CoverInv ==
    phase # "idle" /\ result = "GOOD" /\ ~limited
        => \E browsed \in [{0, 1} -> SUBSET Folders] : Cover(browsed)

\* Induction over the numbers, for a set of them.
LEMMA NatInductionSet ==
    ASSUME NEW S \in SUBSET Nat, 0 \in S, \A n \in Nat : n \in S => n + 1 \in S
    PROVE  S = Nat
<1> SUFFICES ASSUME Nat \ S # {} PROVE FALSE
    OBVIOUS
<1>1. PICK m \in Nat \ S : \A k \in Nat \ S : ~(<<k, m>> \in OpToRel(<, Nat))
    BY NatLessThanWellFounded, WFMin, Zenon
<1>2. \A k \in Nat \ S : ~(k < m)
    BY <1>1 DEF OpToRel
<1>3. m # 0
    OBVIOUS
<1>4. m - 1 \in S
    BY <1>2, <1>3
<1> QED BY <1>4

Grown(kind, sp, nodes) == IF kind = "layers" THEN WiderIn(sp, nodes) ELSE StepIn(sp, nodes)

Start(kind, sp, nodes, r, n) ==
    r = [k \in 0..n |-> IF k = 0 THEN nodes ELSE Grown(kind, sp, r[k - 1])]

LEMMA LayersExist ==
    ASSUME NEW kind, NEW sp, NEW nodes, NEW n \in Nat
    PROVE  \E r : Start(kind, sp, nodes, r, n)
<1> DEFINE S == {m \in Nat : \E r : Start(kind, sp, nodes, r, m)}
<1>1. 0 \in S
    <2> DEFINE r == [k \in 0..0 |-> nodes]
    <2>1. Start(kind, sp, nodes, r, 0)
        BY DEF Start
    <2> QED BY <2>1
<1>2. ASSUME NEW m \in Nat, m \in S
      PROVE  m + 1 \in S
    <2>1. PICK r : Start(kind, sp, nodes, r, m)
        BY <1>2
    <2> DEFINE s == [k \in 0..(m + 1) |-> IF k = 0 THEN nodes ELSE Grown(kind, sp, r[k - 1])]
    <2>2. ASSUME NEW k \in 0..m PROVE s[k] = r[k]
        <3>1. r[k] = IF k = 0 THEN nodes ELSE Grown(kind, sp, r[k - 1])
            BY <2>1 DEF Start
        <3>2. k \in 0..(m + 1)
            OBVIOUS
        <3> QED BY <3>1, <3>2, Zenon
    <2>3. ASSUME NEW k \in 0..(m + 1)
          PROVE  (IF k = 0 THEN nodes ELSE Grown(kind, sp, r[k - 1]))
                     = (IF k = 0 THEN nodes ELSE Grown(kind, sp, s[k - 1]))
        <3>1. CASE k = 0
            BY <3>1, Zenon
        <3>2. CASE k # 0
            <4>1. k - 1 \in 0..m
                BY <3>2
            <4>2. s[k - 1] = r[k - 1]
                BY <2>2, <4>1, Zenon
            <4> QED BY <4>2, Zenon
        <3> QED BY <3>1, <3>2, Zenon
    <2>4. Start(kind, sp, nodes, s, m + 1)
        BY <2>3, Zenon DEF Start
    <2> QED BY <2>4
<1>3. S = Nat
    <2> HIDE DEF S
    <2>1. S \in SUBSET Nat
        BY DEF S
    <2> QED BY <1>1, <1>2, <2>1, NatInductionSet
<1> QED BY <1>3

LEMMA LayersDef ==
    ASSUME NEW sp, NEW nodes
    PROVE  /\ Layers(sp, nodes)[0] = nodes
           /\ \A k \in 1..MaximumBrowseDepth :
                  Layers(sp, nodes)[k] = WiderIn(sp, Layers(sp, nodes)[k - 1])
<1>1. \E r : Start("layers", sp, nodes, r, MaximumBrowseDepth)
    BY LayersExist, LimitsAssumption
<1>2. Layers(sp, nodes) = [k \in 0..MaximumBrowseDepth |->
                              IF k = 0 THEN nodes ELSE WiderIn(sp, Layers(sp, nodes)[k - 1])]
    BY <1>1, Zenon DEF Layers, Start, Grown
<1>3. 0 \in 0..MaximumBrowseDepth /\ \A k \in 1..MaximumBrowseDepth : k \in 0..MaximumBrowseDepth /\ k # 0
    BY LimitsAssumption
<1> QED BY <1>2, <1>3, Zenon

LEMMA ThroughIsLast ==
    ASSUME NEW nodes
    PROVE  Through(nodes) = Layers(space, nodes)[MaximumBrowseDepth]
BY Zenon DEF Through, Layers, WiderIn, References

\* The layers grow.
LEMMA LayersGrow ==
    ASSUME NEW sp, NEW nodes, NEW k \in 0..MaximumBrowseDepth
    PROVE  /\ nodes \subseteq Layers(sp, nodes)[k]
           /\ Layers(sp, nodes)[k] \subseteq Layers(sp, nodes)[MaximumBrowseDepth]
           /\ k < MaximumBrowseDepth =>
                  \A f \in Layers(sp, nodes)[k] \intersect Folders :
                      Range(sp[f]) \subseteq Layers(sp, nodes)[k + 1]
<1> DEFINE L == Layers(sp, nodes)
           Up == {n \in Nat : n <= MaximumBrowseDepth => nodes \subseteq L[n]}
           Down == {n \in Nat : n <= MaximumBrowseDepth => L[MaximumBrowseDepth - n] \subseteq L[MaximumBrowseDepth]}
<1>1. \A n \in Nat : n < MaximumBrowseDepth => L[n + 1] = WiderIn(sp, L[n])
    <2> HIDE DEF L
    <2>1. \A m \in 1..MaximumBrowseDepth : L[m] = WiderIn(sp, L[m - 1])
        BY LayersDef DEF L
    <2> SUFFICES ASSUME NEW n \in Nat, n < MaximumBrowseDepth
                 PROVE  L[n + 1] = WiderIn(sp, L[n])
        OBVIOUS
    <2>2. n + 1 \in 1..MaximumBrowseDepth /\ (n + 1) - 1 = n
        BY LimitsAssumption
    <2> QED BY <2>1, <2>2
<1>2. L[0] = nodes
    BY LayersDef
<1> HIDE DEF L
<1>3. \A n \in Nat : n < MaximumBrowseDepth => L[n] \subseteq L[n + 1]
    BY <1>1 DEF WiderIn
<1>4. Up = Nat
    <2>1. 0 \in Up
        BY <1>2
    <2>2. \A n \in Nat : n \in Up => n + 1 \in Up
        BY <1>3, LimitsAssumption
    <2> HIDE DEF Up
    <2>3. Up \in SUBSET Nat
        BY DEF Up
    <2> QED BY <2>1, <2>2, <2>3, NatInductionSet
<1>5. Down = Nat
    <2>1. 0 \in Down
        BY LimitsAssumption
    <2>2. ASSUME NEW n \in Nat, n \in Down
          PROVE  n + 1 \in Down
        <3>1. CASE n + 1 <= MaximumBrowseDepth
            <4>1. PICK m \in Nat : m = MaximumBrowseDepth - (n + 1)
                BY <3>1, LimitsAssumption
            <4>2. m < MaximumBrowseDepth /\ m + 1 = MaximumBrowseDepth - n /\ n <= MaximumBrowseDepth
                BY <3>1, <4>1, LimitsAssumption
            <4>3. L[m] \subseteq L[m + 1] /\ L[m + 1] \subseteq L[MaximumBrowseDepth]
                BY <1>3, <2>2, <4>2
            <4> QED BY <4>1, <4>3
        <3>2. CASE ~(n + 1 <= MaximumBrowseDepth)
            BY <3>2
        <3> QED BY <3>1, <3>2
    <2> HIDE DEF Down
    <2>3. Down \in SUBSET Nat
        BY DEF Down
    <2> QED BY <2>1, <2>2, <2>3, NatInductionSet
<1>6. nodes \subseteq L[k]
    <2>1. k \in Nat /\ k <= MaximumBrowseDepth
        BY LimitsAssumption
    <2> QED BY <1>4, <2>1
<1>7. L[k] \subseteq L[MaximumBrowseDepth]
    <2>1. PICK n \in Nat : n = MaximumBrowseDepth - k
        BY LimitsAssumption
    <2>2. n <= MaximumBrowseDepth /\ MaximumBrowseDepth - n = k
        BY <2>1, LimitsAssumption
    <2> QED BY <1>5, <2>2
<1>8. k < MaximumBrowseDepth =>
         \A f \in L[k] \intersect Folders : Range(sp[f]) \subseteq L[k + 1]
    BY <1>1 DEF WiderIn
<1> QED BY <1>6, <1>7, <1>8 DEF L

----------------------------------------------------------------------------
\* What can be reached: the last of enough steps is closed, and the least such.

LEMMA ReachedDef ==
    ASSUME NEW sp
    PROVE  /\ EnoughSteps \in Nat \ {0} /\ Cardinality(Browsable) \in Nat
           /\ EnoughSteps = 2 * Cardinality(Browsable) + 1
           /\ ReachedLayers(sp)[0] = {<<ObjectsFolder, FALSE>>}
           /\ \A j \in 1..EnoughSteps :
                  ReachedLayers(sp)[j] = StepIn(sp, ReachedLayers(sp)[j - 1])
<1>1. Cardinality(Browsable) \in Nat /\ EnoughSteps \in Nat \ {0}
    BY KindsAssumption, FS_CardinalityType DEF EnoughSteps
<1>2. \E r : Start("reached", sp, {<<ObjectsFolder, FALSE>>}, r, EnoughSteps)
    BY <1>1, LayersExist
<1>3. ReachedLayers(sp) = [j \in 0..EnoughSteps |->
         IF j = 0 THEN {<<ObjectsFolder, FALSE>>} ELSE StepIn(sp, ReachedLayers(sp)[j - 1])]
    <2>1. "reached" # "layers"
        OBVIOUS
    <2> QED BY <1>2, <2>1, Zenon DEF ReachedLayers, Start, Grown
<1>4. 0 \in 0..EnoughSteps /\ \A j \in 1..EnoughSteps : j \in 0..EnoughSteps /\ j # 0
    BY <1>1
<1>5. ReachedLayers(sp)[0] = {<<ObjectsFolder, FALSE>>}
    BY <1>3, <1>4, Zenon
<1>6. \A j \in 1..EnoughSteps :
         ReachedLayers(sp)[j] = StepIn(sp, ReachedLayers(sp)[j - 1])
    BY <1>3, <1>4, Zenon
<1> QED BY <1>1, <1>5, <1>6 DEF EnoughSteps

LEMMA ReachedIsIn == Reached(EnoughSteps) = ReachedIn(space)
BY Zenon DEF Reached, ReachedIn, ReachedLayers, StepIn, References

LEMMA FoldersAndObjects ==
    /\ Folders \subseteq Browsable /\ Objects \subseteq Browsable /\ Browsable \subseteq Nodes
    /\ Browsable \ Objects = Folders /\ ObjectsFolder \in Folders
BY KindsAssumption DEF Browsable, Nodes

\* One step, in terms of the nodes outside and inside of objects.
LEMMA StepSides ==
    ASSUME NEW sp \in [Browsable -> Seq(Nodes)], NEW S \in SUBSET (Nodes \X BOOLEAN)
    PROVE  /\ StepIn(sp, S) \in SUBSET (Nodes \X BOOLEAN)
           /\ Outside(StepIn(sp, S)) =
                  Outside(S) \union UNION {Range(sp[f]) : f \in Outside(S) \intersect Folders}
           /\ Inside(StepIn(sp, S)) =
                  Inside(S) \union UNION {Range(sp[n]) :
                      n \in (Inside(S) \intersect Browsable) \union (Outside(S) \intersect Objects)}
<1>1. \A n \in Browsable : Range(sp[n]) \subseteq Nodes
    BY RangeOfSeq
<1>2. ASSUME NEW t \in StepIn(sp, S) \ S
      PROVE  \E s \in S : \E m \in Range(sp[s[1]]) :
                 s[1] \in Browsable /\ t = <<m, s[2] \/ (s[1] \in Objects)>>
    BY <1>2, Zenon DEF StepIn
<1>3. ASSUME NEW s \in S, NEW m \in Range(sp[s[1]]), s[1] \in Browsable
      PROVE  <<m, s[2] \/ (s[1] \in Objects)>> \in StepIn(sp, S)
    <2> DEFINE From(u) == {<<c, u[2] \/ (u[1] \in Objects)>> : c \in Range(sp[u[1]])}
    <2>1. s \in {t \in S : t[1] \in Browsable}
        BY <1>3
    <2>2. <<m, s[2] \/ (s[1] \in Objects)>> \in From(s)
        BY Zenon
    <2>3. StepIn(sp, S) = S \union UNION {From(u) : u \in {t \in S : t[1] \in Browsable}}
        BY Zenon DEF StepIn
    <2> HIDE DEF From
    <2> QED BY <2>1, <2>2, <2>3, Zenon
<1>4. StepIn(sp, S) \in SUBSET (Nodes \X BOOLEAN)
    <2>1. ASSUME NEW t \in StepIn(sp, S) PROVE t \in Nodes \X BOOLEAN
        <3>1. CASE t \in S
            BY <3>1
        <3>2. CASE t \notin S
            <4>1. \E s \in S : \E m \in Range(sp[s[1]]) :
                     s[1] \in Browsable /\ t = <<m, s[2] \/ (s[1] \in Objects)>>
                BY <1>2, <3>2
            <4>2. ASSUME NEW s \in S, NEW m \in Range(sp[s[1]]), s[1] \in Browsable,
                         t = <<m, s[2] \/ (s[1] \in Objects)>>
                  PROVE  t \in Nodes \X BOOLEAN
                <5>1. m \in Nodes
                    BY <1>1, <4>2
                <5>2. (s[2] \/ (s[1] \in Objects)) \in BOOLEAN
                    OBVIOUS
                <5> QED BY <4>2, <5>1, <5>2
            <4> QED BY <4>1, <4>2
        <3> QED BY <3>1, <3>2
    <2> QED BY <2>1
<1>a. \A t \in S : t[1] \in Nodes /\ t[2] \in BOOLEAN /\ t = <<t[1], t[2]>>
    OBVIOUS
<1>5. ASSUME NEW m \in Outside(StepIn(sp, S)), m \notin Outside(S)
      PROVE  \E f \in Outside(S) \intersect Folders : m \in Range(sp[f])
    <2>1. m \in Nodes /\ <<m, FALSE>> \in StepIn(sp, S) \ S
        BY <1>5, Zenon DEF Outside
    <2>2. \E s \in S : \E c \in Range(sp[s[1]]) :
             s[1] \in Browsable /\ <<m, FALSE>> = <<c, s[2] \/ (s[1] \in Objects)>>
        BY <1>2, <2>1, Zenon
    <2>3. ASSUME NEW s \in S, NEW c \in Range(sp[s[1]]), s[1] \in Browsable,
                 <<m, FALSE>> = <<c, s[2] \/ (s[1] \in Objects)>>
          PROVE  s[1] \in Outside(S) \intersect Folders /\ m \in Range(sp[s[1]])
        <3>1. m = c /\ FALSE = (s[2] \/ (s[1] \in Objects))
            BY <2>3, Zenon
        <3>2. s[2] = FALSE /\ s[1] \notin Objects
            BY <1>a, <3>1, Zenon
        <3>3. s[1] \in Folders
            BY <2>3, <3>2, FoldersAndObjects
        <3>4. s = <<s[1], FALSE>> /\ s[1] \in Nodes
            BY <1>a, <3>2, Zenon
        <3>5. s[1] \in Outside(S)
            BY <3>4, Zenon DEF Outside
        <3> QED BY <3>1, <3>3, <3>5, Zenon
    <2> QED BY <2>2, <2>3, Zenon
<1>6. ASSUME NEW f \in Outside(S) \intersect Folders, NEW m \in Range(sp[f])
      PROVE  m \in Outside(StepIn(sp, S))
    <2> DEFINE s == <<f, FALSE>>
    <2>1. s \in S /\ s[1] = f /\ s[2] = FALSE /\ f \in Browsable /\ f \notin Objects
        BY FoldersAndObjects DEF Outside
    <2> HIDE DEF s
    <2>2. <<m, s[2] \/ (s[1] \in Objects)>> \in StepIn(sp, S)
        BY <1>3, <2>1
    <2>3. (s[2] \/ (s[1] \in Objects)) = FALSE
        BY <2>1, Zenon
    <2>4. m \in Nodes
        BY <1>1, <2>1
    <2> QED BY <2>2, <2>3, <2>4, Zenon DEF Outside
<1>7. ASSUME NEW m \in Inside(StepIn(sp, S)), m \notin Inside(S)
      PROVE  \E n \in (Inside(S) \intersect Browsable) \union (Outside(S) \intersect Objects) :
                 m \in Range(sp[n])
    <2>1. m \in Nodes /\ <<m, TRUE>> \in StepIn(sp, S) \ S
        BY <1>7, Zenon DEF Inside
    <2>2. \E s \in S : \E c \in Range(sp[s[1]]) :
             s[1] \in Browsable /\ <<m, TRUE>> = <<c, s[2] \/ (s[1] \in Objects)>>
        BY <1>2, <2>1, Zenon
    <2>3. ASSUME NEW s \in S, NEW c \in Range(sp[s[1]]), s[1] \in Browsable,
                 <<m, TRUE>> = <<c, s[2] \/ (s[1] \in Objects)>>
          PROVE  /\ s[1] \in (Inside(S) \intersect Browsable) \union (Outside(S) \intersect Objects)
                 /\ m \in Range(sp[s[1]])
        <3>1. m = c /\ TRUE = (s[2] \/ (s[1] \in Objects))
            BY <2>3, Zenon
        <3>2. CASE s[2] = TRUE
            <4>1. s = <<s[1], TRUE>> /\ s[1] \in Nodes
                BY <1>a, <3>2, Zenon
            <4>2. s[1] \in Inside(S)
                BY <4>1, Zenon DEF Inside
            <4> QED BY <2>3, <3>1, <4>2, Zenon
        <3>3. CASE s[2] = FALSE
            <4>1. s = <<s[1], FALSE>> /\ s[1] \in Nodes /\ s[1] \in Objects
                BY <1>a, <3>1, <3>3, Zenon
            <4>2. s[1] \in Outside(S)
                BY <4>1, Zenon DEF Outside
            <4> QED BY <3>1, <4>1, <4>2, Zenon
        <3> QED BY <1>a, <3>2, <3>3, Zenon
    <2> QED BY <2>2, <2>3, Zenon
<1>8. ASSUME NEW n \in (Inside(S) \intersect Browsable) \union (Outside(S) \intersect Objects),
             NEW m \in Range(sp[n])
      PROVE  m \in Inside(StepIn(sp, S))
    <2>1. n \in Browsable
        BY FoldersAndObjects
    <2>2. m \in Nodes
        BY <1>1, <2>1
    <2>3. \E s \in S : s[1] = n /\ (s[2] \/ (s[1] \in Objects)) = TRUE
        <3>1. CASE n \in Inside(S)
            <4>1. <<n, TRUE>> \in S
                BY <3>1, Zenon DEF Inside
            <4>2. <<n, TRUE>>[1] = n /\ <<n, TRUE>>[2] = TRUE
                OBVIOUS
            <4> QED BY <4>1, <4>2, Zenon
        <3>2. CASE n \in Outside(S) \intersect Objects
            <4>1. <<n, FALSE>> \in S
                BY <3>2, Zenon DEF Outside
            <4>2. <<n, FALSE>>[1] = n
                OBVIOUS
            <4> QED BY <3>2, <4>1, <4>2, Zenon
        <3> QED BY <3>1, <3>2
    <2>4. PICK s \in S : s[1] = n /\ (s[2] \/ (s[1] \in Objects)) = TRUE
        BY <2>3, Zenon
    <2>5. <<m, s[2] \/ (s[1] \in Objects)>> \in StepIn(sp, S)
        BY <1>3, <2>1, <2>4
    <2>6. <<m, TRUE>> \in StepIn(sp, S)
        BY <2>4, <2>5, Zenon
    <2> QED BY <2>2, <2>6, Zenon DEF Inside
<1>9. Outside(S) \subseteq Outside(StepIn(sp, S)) /\ Inside(S) \subseteq Inside(StepIn(sp, S))
    BY Zenon DEF Outside, Inside, StepIn
<1>10. Outside(StepIn(sp, S)) =
          Outside(S) \union UNION {Range(sp[f]) : f \in Outside(S) \intersect Folders}
    BY <1>5, <1>6, <1>9, Zenon
<1>11. Inside(StepIn(sp, S)) =
          Inside(S) \union UNION {Range(sp[n]) :
              n \in (Inside(S) \intersect Browsable) \union (Outside(S) \intersect Objects)}
    BY <1>7, <1>8, <1>9, Zenon
<1> QED BY <1>4, <1>10, <1>11, Zenon

\* The pairs of a step within the nodes browsed: a step that meets none but them
\* again is the last.
ClosedPairs(sp, S) ==
    /\ \A f \in Outside(S) \intersect Folders : Range(sp[f]) \subseteq Outside(S)
    /\ \A n \in (Inside(S) \intersect Browsable) \union (Outside(S) \intersect Objects) :
           Range(sp[n]) \subseteq Inside(S)

BrowsedPairs(S) ==
    Cardinality(Outside(S) \intersect Browsable) + Cardinality(Inside(S) \intersect Browsable)

LEMMA BrowsedPairsBound ==
    ASSUME NEW S
    PROVE  /\ IsFiniteSet(Outside(S) \intersect Browsable) /\ IsFiniteSet(Inside(S) \intersect Browsable)
           /\ Cardinality(Outside(S) \intersect Browsable) \in Nat
           /\ Cardinality(Inside(S) \intersect Browsable) \in Nat
           /\ BrowsedPairs(S) \in Nat /\ BrowsedPairs(S) <= 2 * Cardinality(Browsable)
           /\ Outside(S) \intersect Browsable # {} => BrowsedPairs(S) >= 1
<1>1. /\ Outside(S) \intersect Browsable \in SUBSET Browsable
      /\ Inside(S) \intersect Browsable \in SUBSET Browsable
    OBVIOUS
<1>2. \A T \in SUBSET Browsable :
         IsFiniteSet(T) /\ Cardinality(T) \in Nat /\ Cardinality(T) <= Cardinality(Browsable)
    BY KindsAssumption, FS_Subset, FS_CardinalityType
<1>3. Cardinality(Browsable) \in Nat
    BY ReachedDef
<1>4. PICK a \in Nat, b \in Nat, c \in Nat :
         /\ a = Cardinality(Outside(S) \intersect Browsable)
         /\ b = Cardinality(Inside(S) \intersect Browsable)
         /\ c = Cardinality(Browsable) /\ a <= c /\ b <= c
    BY <1>1, <1>2, <1>3
<1>5. ASSUME Outside(S) \intersect Browsable # {}
      PROVE  Cardinality(Outside(S) \intersect Browsable) # 0
    BY <1>1, <1>2, <1>5, FS_EmptySet
<1> QED BY <1>1, <1>2, <1>4, <1>5 DEF BrowsedPairs

LEMMA FirstPair ==
    LET S == {<<ObjectsFolder, FALSE>>}
    IN  /\ S \in SUBSET (Nodes \X BOOLEAN)
        /\ Outside(S) = {ObjectsFolder} /\ Inside(S) = {}
<1> DEFINE S == {<<ObjectsFolder, FALSE>>}
<1>1. ObjectsFolder \in Nodes /\ FALSE \in BOOLEAN /\ TRUE # FALSE
    BY FoldersAndObjects
<1>2. <<ObjectsFolder, FALSE>> \in Nodes \X BOOLEAN
    BY <1>1
<1>3. Outside(S) \subseteq {ObjectsFolder} /\ ObjectsFolder \in Outside(S)
    BY <1>1, Zenon DEF Outside
<1>4. Inside(S) = {}
    BY <1>1, Zenon DEF Inside
<1>5. S \in SUBSET (Nodes \X BOOLEAN)
    BY <1>2, Zenon
<1> QED BY <1>3, <1>4, <1>5, Zenon

LEMMA StepClosesOrGrows ==
    ASSUME NEW sp \in [Browsable -> Seq(Nodes)], NEW S \in SUBSET (Nodes \X BOOLEAN)
    PROVE  ClosedPairs(sp, StepIn(sp, S)) \/ BrowsedPairs(StepIn(sp, S)) >= BrowsedPairs(S) + 1
<1> DEFINE T == StepIn(sp, S)
           OutS == Outside(S) \intersect Browsable
           OutT == Outside(T) \intersect Browsable
           InS == Inside(S) \intersect Browsable
           InT == Inside(T) \intersect Browsable
<1>1. /\ Outside(T) = Outside(S) \union UNION {Range(sp[f]) : f \in Outside(S) \intersect Folders}
      /\ Inside(T) = Inside(S) \union UNION {Range(sp[n]) :
             n \in (Inside(S) \intersect Browsable) \union (Outside(S) \intersect Objects)}
    BY StepSides
<1> HIDE DEF T
<1>2. OutS \in SUBSET OutT /\ InS \in SUBSET InT
    BY <1>1
<1>3. CASE OutS = OutT /\ InS = InT
    <2>1. ASSUME NEW f \in Outside(T) \intersect Folders PROVE Range(sp[f]) \subseteq Outside(T)
        <3>1. f \in Outside(S)
            BY <1>3, FoldersAndObjects
        <3> QED BY <1>1, <3>1
    <2>2. ASSUME NEW n \in (Inside(T) \intersect Browsable) \union (Outside(T) \intersect Objects)
          PROVE  Range(sp[n]) \subseteq Inside(T)
        <3>1. n \in (Inside(S) \intersect Browsable) \union (Outside(S) \intersect Objects)
            BY <1>3, FoldersAndObjects
        <3> QED BY <1>1, <3>1
    <2> QED BY <2>1, <2>2 DEF ClosedPairs, T
<1>4. CASE ~(OutS = OutT /\ InS = InT)
    <2>1. /\ IsFiniteSet(OutT) /\ IsFiniteSet(InT)
          /\ Cardinality(OutS) \in Nat /\ Cardinality(InS) \in Nat
          /\ Cardinality(OutT) \in Nat /\ Cardinality(InT) \in Nat
        BY BrowsedPairsBound
    <2>2. /\ Cardinality(OutS) <= Cardinality(OutT)
          /\ Cardinality(OutT) = Cardinality(OutS) => OutS = OutT
        BY <1>2, <2>1, FS_Subset
    <2>3. /\ Cardinality(InS) <= Cardinality(InT)
          /\ Cardinality(InT) = Cardinality(InS) => InS = InT
        BY <1>2, <2>1, FS_Subset
    <2>4. Cardinality(OutT) + Cardinality(InT) >= Cardinality(OutS) + Cardinality(InS) + 1
        <3> HIDE DEF OutS, OutT, InS, InT
        <3> QED BY <1>4, <2>1, <2>2, <2>3
    <2> QED BY <2>4 DEF BrowsedPairs, T
<1> QED BY <1>3, <1>4

LEMMA ReachedClosed ==
    ASSUME NEW sp \in [Browsable -> Seq(Nodes)]
    PROVE  /\ ReachedIn(sp) \in SUBSET (Nodes \X BOOLEAN)
           /\ ObjectsFolder \in Outside(ReachedIn(sp))
           /\ ClosedPairs(sp, ReachedIn(sp))
<1> DEFINE L == ReachedLayers(sp)
           Good == {n \in Nat : n <= EnoughSteps =>
                        /\ L[n] \in SUBSET (Nodes \X BOOLEAN)
                        /\ ObjectsFolder \in Outside(L[n])
                        /\ ClosedPairs(sp, L[n]) \/ BrowsedPairs(L[n]) >= n + 1}
<1>1. /\ EnoughSteps \in Nat \ {0} /\ Cardinality(Browsable) \in Nat
      /\ EnoughSteps = 2 * Cardinality(Browsable) + 1
      /\ L[0] = {<<ObjectsFolder, FALSE>>}
      /\ \A j \in 1..EnoughSteps : L[j] = StepIn(sp, L[j - 1])
    BY ReachedDef
<1> HIDE DEF L
<1>2. 0 \in Good
    <2>1. ObjectsFolder \in Browsable /\ ObjectsFolder \in Nodes
        BY FoldersAndObjects
    <2>2. L[0] \in SUBSET (Nodes \X BOOLEAN)
        BY <1>1, FirstPair, Zenon
    <2>3. ObjectsFolder \in Outside(L[0])
        BY <1>1, FirstPair, Zenon
    <2>4. BrowsedPairs(L[0]) >= 1
        <3>1. Outside(L[0]) \intersect Browsable # {}
            BY <2>1, <2>3
        <3> QED BY <3>1, BrowsedPairsBound
    <2> QED BY <2>2, <2>3, <2>4
<1>3. ASSUME NEW n \in Nat, n \in Good
      PROVE  n + 1 \in Good
    <2> SUFFICES ASSUME n + 1 <= EnoughSteps
                 PROVE  /\ L[n + 1] \in SUBSET (Nodes \X BOOLEAN)
                        /\ ObjectsFolder \in Outside(L[n + 1])
                        /\ ClosedPairs(sp, L[n + 1]) \/ BrowsedPairs(L[n + 1]) >= n + 1 + 1
        OBVIOUS
    <2>1. n + 1 \in 1..EnoughSteps /\ (n + 1) - 1 = n /\ n <= EnoughSteps
        BY <1>1
    <2>2. L[n + 1] = StepIn(sp, L[n])
        BY <1>1, <2>1
    <2>3. /\ L[n] \in SUBSET (Nodes \X BOOLEAN) /\ ObjectsFolder \in Outside(L[n])
          /\ ClosedPairs(sp, L[n]) \/ BrowsedPairs(L[n]) >= n + 1
        BY <1>3, <2>1
    <2> HIDE DEF Good
    <2>4. /\ L[n + 1] \in SUBSET (Nodes \X BOOLEAN)
          /\ Outside(L[n + 1]) =
                 Outside(L[n]) \union UNION {Range(sp[f]) : f \in Outside(L[n]) \intersect Folders}
          /\ Inside(L[n + 1]) = Inside(L[n]) \union UNION {Range(sp[m]) :
                 m \in (Inside(L[n]) \intersect Browsable) \union (Outside(L[n]) \intersect Objects)}
        BY <2>2, <2>3, StepSides
    <2>5. CASE ClosedPairs(sp, L[n])
        <3>1. UNION {Range(sp[f]) : f \in Outside(L[n]) \intersect Folders} \subseteq Outside(L[n])
            BY <2>5, Zenon DEF ClosedPairs
        <3>2. UNION {Range(sp[m]) :
                 m \in (Inside(L[n]) \intersect Browsable) \union (Outside(L[n]) \intersect Objects)}
                     \subseteq Inside(L[n])
            BY <2>5, Zenon DEF ClosedPairs
        <3>3. Outside(L[n + 1]) = Outside(L[n])
            BY <2>4, <3>1, Zenon
        <3>4. Inside(L[n + 1]) = Inside(L[n])
            BY <2>4, <3>2, Zenon
        <3>5. ClosedPairs(sp, L[n + 1])
            BY <2>5, <3>3, <3>4, Zenon DEF ClosedPairs
        <3> QED BY <2>3, <2>4, <3>3, <3>5
    <2>6. CASE BrowsedPairs(L[n]) >= n + 1
        <3>1. ClosedPairs(sp, L[n + 1]) \/ BrowsedPairs(L[n + 1]) >= BrowsedPairs(L[n]) + 1
            BY <2>2, <2>3, StepClosesOrGrows
        <3>2. BrowsedPairs(L[n]) \in Nat /\ BrowsedPairs(L[n + 1]) \in Nat
            BY BrowsedPairsBound
        <3>3. ObjectsFolder \in Outside(L[n + 1])
            BY <2>3, <2>4
        <3> QED BY <2>4, <2>6, <3>1, <3>2, <3>3
    <2> QED BY <2>3, <2>5, <2>6
<1>4. Good = Nat
    <2>1. Good \in SUBSET Nat
        OBVIOUS
    <2> HIDE DEF Good
    <2> QED BY <1>2, <1>3, <2>1, NatInductionSet
<1>5. /\ L[EnoughSteps] \in SUBSET (Nodes \X BOOLEAN) /\ ObjectsFolder \in Outside(L[EnoughSteps])
      /\ ClosedPairs(sp, L[EnoughSteps]) \/ BrowsedPairs(L[EnoughSteps]) >= EnoughSteps + 1
    <2>1. EnoughSteps \in Good
        BY <1>1, <1>4
    <2>2. EnoughSteps <= EnoughSteps
        BY <1>1
    <2> QED BY <2>1, <2>2
<1>6. ~(BrowsedPairs(L[EnoughSteps]) >= EnoughSteps + 1)
    <2>1. BrowsedPairs(L[EnoughSteps]) \in Nat /\ BrowsedPairs(L[EnoughSteps]) <= 2 * Cardinality(Browsable)
        BY BrowsedPairsBound
    <2> QED BY <1>1, <2>1
<1> QED BY <1>5, <1>6 DEF ReachedIn, L

\* Nothing else is reached: every pair of sets closed in the same way holds it.
LEMMA ReachedLeast ==
    ASSUME NEW sp \in [Browsable -> Seq(Nodes)], NEW X, NEW Y, ObjectsFolder \in X,
           \A f \in X \intersect Folders : Range(sp[f]) \subseteq X,
           \A n \in (Y \intersect Browsable) \union (X \intersect Objects) : Range(sp[n]) \subseteq Y
    PROVE  Outside(ReachedIn(sp)) \subseteq X /\ Inside(ReachedIn(sp)) \subseteq Y
<1> DEFINE L == ReachedLayers(sp)
           Good == {n \in Nat : n <= EnoughSteps =>
                        /\ L[n] \in SUBSET (Nodes \X BOOLEAN)
                        /\ Outside(L[n]) \subseteq X /\ Inside(L[n]) \subseteq Y}
<1>1. /\ EnoughSteps \in Nat \ {0}
      /\ L[0] = {<<ObjectsFolder, FALSE>>}
      /\ \A j \in 1..EnoughSteps : L[j] = StepIn(sp, L[j - 1])
    BY ReachedDef
<1> HIDE DEF L
<1>2. 0 \in Good
    <2>1. /\ L[0] \in SUBSET (Nodes \X BOOLEAN)
          /\ Outside(L[0]) = {ObjectsFolder} /\ Inside(L[0]) = {}
        BY <1>1, FirstPair, Zenon
    <2> QED BY <2>1
<1>3. ASSUME NEW n \in Nat, n \in Good
      PROVE  n + 1 \in Good
    <2> SUFFICES ASSUME n + 1 <= EnoughSteps
                 PROVE  /\ L[n + 1] \in SUBSET (Nodes \X BOOLEAN)
                        /\ Outside(L[n + 1]) \subseteq X /\ Inside(L[n + 1]) \subseteq Y
        OBVIOUS
    <2>1. n + 1 \in 1..EnoughSteps /\ (n + 1) - 1 = n /\ n <= EnoughSteps
        BY <1>1
    <2>2. L[n + 1] = StepIn(sp, L[n])
        BY <1>1, <2>1
    <2>3. /\ L[n] \in SUBSET (Nodes \X BOOLEAN)
          /\ Outside(L[n]) \subseteq X /\ Inside(L[n]) \subseteq Y
        BY <1>3, <2>1
    <2>4. /\ L[n + 1] \in SUBSET (Nodes \X BOOLEAN)
          /\ Outside(L[n + 1]) =
                 Outside(L[n]) \union UNION {Range(sp[f]) : f \in Outside(L[n]) \intersect Folders}
          /\ Inside(L[n + 1]) = Inside(L[n]) \union UNION {Range(sp[m]) :
                 m \in (Inside(L[n]) \intersect Browsable) \union (Outside(L[n]) \intersect Objects)}
        BY <2>2, <2>3, StepSides
    <2>5. Outside(L[n + 1]) \subseteq X
        BY <2>3, <2>4
    <2>6. Inside(L[n + 1]) \subseteq Y
        BY <2>3, <2>4
    <2> QED BY <2>4, <2>5, <2>6
<1>4. Good = Nat
    <2>1. Good \in SUBSET Nat
        OBVIOUS
    <2> HIDE DEF Good
    <2> QED BY <1>2, <1>3, <2>1, NatInductionSet
<1>5. EnoughSteps \in Good /\ EnoughSteps <= EnoughSteps
    BY <1>1, <1>4
<1> QED BY <1>5 DEF ReachedIn, L

----------------------------------------------------------------------------
\* What the calls have still to process.

LEMMA ShownGrows ==
    ASSUME NEW sp \in [Browsable -> Seq(Nodes)], NEW table, NEW p,
           NEW i \in 1..(MaximumBrowseDepth + 1)
    PROVE  /\ Shown(sp, table, i, p) \subseteq Shown(sp, table, MaximumBrowseDepth + 1, p)
           /\ i <= MaximumBrowseDepth =>
                  \A f \in Shown(sp, table, i, p) \intersect Folders :
                      Range(sp[f]) \subseteq Shown(sp, table, i + 1, p)
           /\ \A o \in Shown(sp, table, i, p) \intersect Objects :
                      Range(sp[o]) \subseteq Inside(ReachedIn(sp))
<1> DEFINE nodes == IF p = NoParent THEN Range(sp[ObjectsFolder]) ELSE Range(sp[table[p].node])
           side == IF p = NoParent THEN Outside(ReachedIn(sp)) ELSE Inside(ReachedIn(sp))
<1>1. PICK k \in 0..MaximumBrowseDepth :
         /\ k = i - 1 /\ (MaximumBrowseDepth + 1) - 1 = MaximumBrowseDepth /\ (i + 1) - 1 = k + 1
         /\ i <= MaximumBrowseDepth <=> k < MaximumBrowseDepth
    BY LimitsAssumption
<1>2. /\ Shown(sp, table, i, p) = Layers(sp, nodes)[k] \intersect side
      /\ Shown(sp, table, MaximumBrowseDepth + 1, p) = Layers(sp, nodes)[MaximumBrowseDepth] \intersect side
      /\ Shown(sp, table, i + 1, p) = Layers(sp, nodes)[k + 1] \intersect side
    BY <1>1, Zenon DEF Shown, BelowIn
<1>3. \A f \in side \intersect Folders : Range(sp[f]) \subseteq side
    BY ReachedClosed, FoldersAndObjects DEF ClosedPairs
<1>4. \A o \in side \intersect Objects : Range(sp[o]) \subseteq Inside(ReachedIn(sp))
    BY ReachedClosed, FoldersAndObjects DEF ClosedPairs
<1> HIDE DEF side, nodes
<1>5. /\ Layers(sp, nodes)[k] \subseteq Layers(sp, nodes)[MaximumBrowseDepth]
      /\ k < MaximumBrowseDepth =>
             \A f \in Layers(sp, nodes)[k] \intersect Folders :
                 Range(sp[f]) \subseteq Layers(sp, nodes)[k + 1]
    BY LayersGrow
<1> QED BY <1>1, <1>2, <1>3, <1>4, <1>5, Zenon

LEMMA ShownSame ==
    ASSUME NEW sp, NEW table, NEW longer, NEW i, NEW p, p # NoParent => longer[p] = table[p]
    PROVE  Shown(sp, longer, i, p) = Shown(sp, table, i, p)
BY DEF Shown, BelowIn

\* The table grows at its end only.
Extends(longer, table) ==
    /\ Len(table) \in Nat /\ Len(longer) \in Nat /\ Len(table) <= Len(longer)
    /\ \A i \in 1..Len(table) : longer[i] = table[i]

LEMMA FramesExtended ==
    ASSUME NEW sp, NEW table, NEW longer, Extends(longer, table),
           NEW s, FramesOf(sp, table, s)
    PROVE  FramesOf(sp, longer, s)
<1>1. \A p \in 0..Len(table) : p \in 0..Len(longer) /\ (p # NoParent => longer[p] = table[p])
    BY DEF Extends, NoParent
<1>2. \A i \in 1..Len(s) : Shown(sp, longer, i, s[i].parent) = Shown(sp, table, i, s[i].parent)
    BY <1>1, ShownSame DEF FramesOf
<1> QED BY <1>1, <1>2 DEF FramesOf

LEMMA FramesTop ==
    ASSUME NEW sp, NEW table, NEW s, NEW t, Len(s) \in Nat \ {0}, Len(t) = Len(s),
           \A i \in 1..(Len(s) - 1) : t[i] = s[i],
           t[Len(s)].parent = s[Len(s)].parent, Pending(t[Len(s)]) \subseteq Pending(s[Len(s)]),
           FramesOf(sp, table, s)
    PROVE  FramesOf(sp, table, t)
<1>1. PICK n \in Nat \ {0} : n = Len(s)
    OBVIOUS
<1>2. \A i \in 1..n : i # n => i \in 1..(n - 1)
    OBVIOUS
<1>3. n \in 1..n
    OBVIOUS
<1>4. ASSUME NEW i \in 1..n
      PROVE  t[i].parent = s[i].parent /\ Pending(t[i]) \subseteq Pending(s[i])
    BY <1>1, <1>2, Zenon
<1> QED BY <1>1, <1>4, Zenon DEF FramesOf

LEMMA FramesPushed ==
    ASSUME NEW sp, NEW table, NEW s \in Seq(Frames), NEW f \in Frames, FramesOf(sp, table, s),
           f.parent \in 0..Len(table),
           Pending(f) \subseteq Shown(sp, table, Len(s) + 1, f.parent)
    PROVE  FramesOf(sp, table, Append(s, f))
<1>1. /\ Len(Append(s, f)) = Len(s) + 1
      /\ \A i \in 1..Len(s) : Append(s, f)[i] = s[i]
      /\ Append(s, f)[Len(s) + 1] = f
    BY AppendProperties
<1>2. \A i \in 1..(Len(s) + 1) : i \in 1..Len(s) \/ i = Len(s) + 1
    BY LenProperties
<1> QED BY <1>1, <1>2, Zenon DEF FramesOf

LEMMA FramesFront ==
    ASSUME TypeOK, stack # <<>>, FramesInv
    PROVE  FramesOf(space, equipment, Front(stack))
<1>1. /\ Len(Front(stack)) = Len(stack) - 1
      /\ \A i \in 1..(Len(stack) - 1) : Front(stack)[i] = stack[i]
    BY FrontFrames
<1>2. PICK n \in Nat \ {0} : n = Len(stack)
    BY EmptySeq, LenProperties DEF TypeOK
<1>3. \A i \in 1..(n - 1) : i \in 1..n
    OBVIOUS
<1> QED BY <1>1, <1>2, <1>3, Zenon DEF FramesOf, FramesInv

\* A call on a node, from frames that have what they ought to.
LEMMA BrowseFrames ==
    ASSUME TypeOK, NEW node \in Browsable, NEW table, NEW p \in 0..Len(table), p \in Nat,
           NEW s \in Seq(Frames), FramesOf(space, table, s),
           Len(s) <= MaximumBrowseDepth =>
               References(node) \subseteq Shown(space, table, Len(s) + 1, p),
           Browse(node, p, s)
    PROVE  FramesOf(space, table, stack')
<1>1. CASE stack' = s
    BY <1>1
<1>2. ASSUME Len(s) <= MaximumBrowseDepth, NEW reply \in Replies(p, space[node]),
             stack' = Append(s, reply)
      PROVE  FramesOf(space, table, stack')
    <2>1. reply \in Frames /\ reply.parent = p /\ Pending(reply) = References(node)
        BY SpaceReferences, ReplyFrame DEF References
    <2> QED BY <1>2, <2>1, FramesPushed
<1>3. Len(s) <= MaximumBrowseDepth \/ Len(s) > MaximumBrowseDepth
    BY LenProperties, LimitsAssumption
<1> QED BY <1>1, <1>2, <1>3 DEF Browse

LEMMA NodesOfAppend ==
    ASSUME NEW T, NEW s \in Seq(T), NEW e \in T
    PROVE  {Append(s, e)[i].node : i \in DOMAIN Append(s, e)}
               = {s[i].node : i \in DOMAIN s} \union {e.node}
<1>1. /\ Append(s, e) \in Seq(T) /\ Len(Append(s, e)) = Len(s) + 1
      /\ \A i \in 1..Len(s) : Append(s, e)[i] = s[i]
      /\ Append(s, e)[Len(s) + 1] = e
    BY AppendProperties
<1>2. Len(s) \in Nat /\ DOMAIN s = 1..Len(s) /\ DOMAIN Append(s, e) = 1..(Len(s) + 1)
    BY <1>1, LenProperties
<1>3. \A i : i \in 1..(Len(s) + 1) <=> i \in 1..Len(s) \/ i = Len(s) + 1
    BY <1>2
<1>4. {Append(s, e)[i].node : i \in DOMAIN Append(s, e)} \subseteq {s[i].node : i \in DOMAIN s} \union {e.node}
    BY <1>1, <1>2, <1>3, Zenon
<1>5. {s[i].node : i \in DOMAIN s} \union {e.node} \subseteq {Append(s, e)[i].node : i \in DOMAIN Append(s, e)}
    <2>1. ASSUME NEW i \in 1..Len(s)
          PROVE  s[i].node \in {Append(s, e)[j].node : j \in DOMAIN Append(s, e)}
        BY <1>1, <1>2, <1>3, Zenon
    <2>2. e.node \in {Append(s, e)[j].node : j \in DOMAIN Append(s, e)}
        BY <1>1, <1>2, <1>3, Zenon
    <2> QED BY <1>2, <2>1, <2>2, Zenon
<1> QED BY <1>4, <1>5, Zenon

TreeInv == FramesInv /\ ObjectsInv /\ TagsInv

LEMMA TreeOfEmpty ==
    ASSUME equipment = <<>>, tags = <<>>
    PROVE  ObjectsInv /\ TagsInv
<1>1. Len(<<>>) = 0 /\ DOMAIN <<>> = {} /\ \A i : i \notin 1..0
    BY EmptySeq
<1>2. MappedObjects = {} /\ MappedVariables = {}
    BY <1>1 DEF MappedObjects, MappedVariables
<1> QED BY <1>1, <1>2, FS_EmptySet, Zenon DEF ObjectsInv, TagsInv

LEMMA FramesOfEmpty ==
    ASSUME NEW sp, NEW table
    PROVE  FramesOf(sp, table, <<>>)
<1>1. Len(<<>>) = 0 /\ \A i : i \notin 1..0
    BY EmptySeq
<1> QED BY <1>1, Zenon DEF FramesOf

LEMMA TreeInit == Init => TreeInv
BY TreeOfEmpty, FramesOfEmpty DEF Init, TreeInv, FramesInv

\* The frame on top, replaced by one with no more to process.
LEMMA FramesOnlyTop ==
    ASSUME TypeOK, FramesInv, NEW s, OnlyTop(s), s[Len(stack)].parent = Top.parent,
           Pending(s[Len(stack)]) \subseteq Pending(Top)
    PROVE  FramesOf(space, equipment, s)
<1>1. Len(stack) \in Nat \ {0} /\ Top = stack[Len(stack)]
    BY TopFrame, EmptySeq, LenProperties DEF TypeOK, OnlyTop
<1> QED BY <1>1, FramesTop DEF OnlyTop, FramesInv

\* The reference in hand is among what the call on top has to process.
LEMMA NodeInHand ==
    ASSUME TypeOK, FramesInv, NEW node \in Nodes, Processing(node)
    PROVE  /\ OnlyTop(Advanced) /\ FramesOf(space, equipment, Advanced)
           /\ Len(stack) \in 1..(MaximumBrowseDepth + 1) /\ Len(Advanced) = Len(stack)
           /\ Top.parent \in 0..Len(equipment)
           /\ node \in Shown(space, equipment, Len(stack), Top.parent)
<1>1. OnlyTop(Advanced) /\ stack # <<>> /\ Len(Advanced) = Len(stack)
    BY AdvancedTop DEF OnlyTop
<1>2. /\ Len(stack) \in 1..(MaximumBrowseDepth + 1) /\ Len(stack) \in 1..Len(stack)
      /\ Top = stack[Len(stack)]
    BY <1>1, TopFrame
<1>3. Top.parent \in 0..Len(equipment) /\ Pending(Top) \subseteq Shown(space, equipment, Len(stack), Top.parent)
    BY <1>2, Zenon DEF FramesInv, FramesOf
<1>4. /\ Pending(Top) = {node} \union Pending(Advanced[Len(stack)])
      /\ Advanced[Len(stack)].parent = Top.parent
    BY AdvancedTop
<1>5. FramesOf(space, equipment, Advanced)
    BY <1>1, <1>4, FramesOnlyTop
<1> QED BY <1>1, <1>2, <1>3, <1>4, <1>5

\* An object is entered below the object its call belongs to.
LEMMA ObjectAdded ==
    ASSUME TypeOK, TreeInv, NEW node \in Objects \ MappedObjects, NEW p \in 0..Len(equipment),
           NEW i \in 1..(MaximumBrowseDepth + 1), node \in Shown(space, equipment, i, p),
           equipment' = Append(equipment, [node |-> node, parent |-> p]),
           UNCHANGED <<space, tags>>
    PROVE  /\ Extends(equipment', equipment) /\ Len(equipment') = Len(equipment) + 1
           /\ equipment'[Len(equipment')].node = node
           /\ MappedObjects' = MappedObjects \union {node}
           /\ ObjectsInv' /\ TagsInv'
<1> DEFINE T == [node : Objects, parent : Nat]
           e == [node |-> node, parent |-> p]
           last == MaximumBrowseDepth + 1
<1>1. e \in T /\ equipment \in Seq(T) /\ space \in [Browsable -> Seq(Nodes)]
    BY SpacesAssumption DEF TypeOK
<1>2. /\ MappedObjects' = MappedObjects \union {e.node}
      /\ Len(equipment) \in Nat /\ Len(equipment') = Len(equipment) + 1
      /\ \A j \in 1..Len(equipment) : equipment'[j] = equipment[j]
      /\ equipment'[Len(equipment) + 1] = e
    <2>1. equipment' = Append(equipment, e)
        OBVIOUS
    <2> HIDE DEF e, T
    <2>2. /\ Len(equipment) \in Nat /\ Len(Append(equipment, e)) = Len(equipment) + 1
          /\ \A k \in 1..Len(equipment) : Append(equipment, e)[k] = equipment[k]
          /\ Append(equipment, e)[Len(equipment) + 1] = e
        BY <1>1, AppendProperties, LenProperties
    <2>a. {Append(equipment, e)[k].node : k \in DOMAIN Append(equipment, e)}
             = {equipment[k].node : k \in DOMAIN equipment} \union {e.node}
        BY <1>1, NodesOfAppend
    <2>3. /\ Len(equipment) \in Nat /\ Len(equipment') = Len(equipment) + 1
          /\ \A k \in 1..Len(equipment) : equipment'[k] = equipment[k]
          /\ equipment'[Len(equipment) + 1] = e
        BY <2>1, <2>2
    <2>4. {equipment'[k].node : k \in DOMAIN equipment'} = {equipment[k].node : k \in DOMAIN equipment} \union {e.node}
        BY <2>1, <2>a
    <2>5. MappedObjects' = MappedObjects \union {e.node}
        BY <2>4, Zenon DEF MappedObjects
    <2> QED BY <2>3, <2>5, Zenon
<1>3. Extends(equipment', equipment)
    BY <1>2 DEF Extends
<1>4. e.node = node /\ e.parent = p
    OBVIOUS
<1> HIDE DEF e, T
<1>5. /\ IsFiniteSet(MappedObjects') /\ Cardinality(MappedObjects') = Len(equipment')
    <2>1. IsFiniteSet(MappedObjects) /\ Cardinality(MappedObjects) = Len(equipment)
        BY DEF TreeInv, ObjectsInv
    <2> QED BY <1>2, <1>4, <2>1, FS_AddElement
<1>6. ASSUME NEW j, NEW q \in 0..Len(equipment)
      PROVE  Shown(space, equipment', j, q) = Shown(space, equipment, j, q)
    <2>1. q # NoParent => q \in 1..Len(equipment)
        BY <1>2 DEF NoParent
    <2>2. q # NoParent => equipment'[q] = equipment[q]
        BY <1>2, <2>1, Zenon
    <2> QED BY <2>2, Zenon DEF Shown, BelowIn
<1>7. ASSUME NEW j \in 1..Len(equipment')
      PROVE  /\ equipment'[j].parent < j
             /\ equipment'[j].node \in Shown(space, equipment', last, equipment'[j].parent)
    <2>1. CASE j = Len(equipment) + 1
        <3>1. p < j
            BY <1>2, <2>1
        <3>2. node \in Shown(space, equipment, last, p)
            BY <1>1, ShownGrows
        <3> QED BY <1>2, <1>4, <1>6, <2>1, <3>1, <3>2
    <2>2. CASE j # Len(equipment) + 1
        <3>1. j \in 1..Len(equipment)
            BY <1>2, <2>2
        <3>2. /\ equipment[j].parent < j
              /\ equipment[j].node \in Shown(space, equipment, last, equipment[j].parent)
            BY <3>1 DEF TreeInv, ObjectsInv
        <3>3. equipment[j].parent \in Nat
            <4>1. equipment[j] \in T
                BY <1>1, <3>1, ElementOfSeq
            <4> QED BY <4>1 DEF T
        <3>4. equipment[j].parent \in 0..Len(equipment)
            BY <1>2, <3>1, <3>2, <3>3
        <3> QED BY <1>2, <1>6, <3>1, <3>2, <3>4
    <2> QED BY <2>1, <2>2
<1>8. ObjectsInv'
    BY <1>5, <1>7, Zenon DEF ObjectsInv
<1>9. TagsInv'
    <2>1. \A j \in 1..Len(tags) :
             /\ tags[j].object \in 1..Len(equipment)
             /\ tags[j].node \in Shown(space, equipment, last, tags[j].object)
        BY DEF TreeInv, TagsInv
    <2>2. \A q \in 1..Len(equipment) : q \in 1..Len(equipment') /\ q \in 0..Len(equipment)
        BY <1>2
    <2>3. MappedVariables' = MappedVariables
        BY DEF MappedVariables
    <2>4. IsFiniteSet(MappedVariables) /\ Cardinality(MappedVariables) = Len(tags)
        BY DEF TreeInv, TagsInv
    <2> QED BY <1>6, <2>1, <2>2, <2>3, <2>4 DEF TagsInv
<1>10. equipment'[Len(equipment')].node = node
    BY <1>2, <1>4
<1> QED BY <1>2, <1>3, <1>4, <1>8, <1>9, <1>10

\* A variable is entered for the object its call belongs to.
LEMMA VariableAdded ==
    ASSUME TypeOK, TreeInv, NEW node \in Variables \ MappedVariables, NEW p \in 0..Len(equipment),
           NEW i \in 1..(MaximumBrowseDepth + 1), node \in Shown(space, equipment, i, p),
           p # NoParent,
           tags' = Append(tags, [node |-> node, object |-> p]),
           UNCHANGED <<space, equipment>>
    PROVE  MappedVariables' = MappedVariables \union {node} /\ ObjectsInv' /\ TagsInv'
<1> DEFINE T == [node : Variables, object : Nat \ {0}]
           e == [node |-> node, object |-> p]
           last == MaximumBrowseDepth + 1
<1>0. space \in [Browsable -> Seq(Nodes)]
    BY SpacesAssumption DEF TypeOK
<1>1. e \in T /\ tags \in Seq(T)
    BY DEF TypeOK, NoParent
<1>2. /\ MappedVariables' = MappedVariables \union {e.node}
      /\ Len(tags) \in Nat /\ Len(tags') = Len(tags) + 1
      /\ \A j \in 1..Len(tags) : tags'[j] = tags[j]
      /\ tags'[Len(tags) + 1] = e
    <2>1. tags' = Append(tags, e)
        OBVIOUS
    <2> HIDE DEF e, T
    <2>2. /\ Len(tags) \in Nat /\ Len(Append(tags, e)) = Len(tags) + 1
          /\ \A k \in 1..Len(tags) : Append(tags, e)[k] = tags[k]
          /\ Append(tags, e)[Len(tags) + 1] = e
        BY <1>1, AppendProperties, LenProperties
    <2>a. {Append(tags, e)[k].node : k \in DOMAIN Append(tags, e)}
             = {tags[k].node : k \in DOMAIN tags} \union {e.node}
        BY <1>1, NodesOfAppend
    <2>3. /\ Len(tags) \in Nat /\ Len(tags') = Len(tags) + 1
          /\ \A k \in 1..Len(tags) : tags'[k] = tags[k]
          /\ tags'[Len(tags) + 1] = e
        BY <2>1, <2>2
    <2>4. {tags'[k].node : k \in DOMAIN tags'} = {tags[k].node : k \in DOMAIN tags} \union {e.node}
        BY <2>1, <2>a
    <2>5. MappedVariables' = MappedVariables \union {e.node}
        BY <2>4, Zenon DEF MappedVariables
    <2> QED BY <2>3, <2>5, Zenon
<1>3. e.node = node /\ e.object = p /\ p \in 1..Len(equipment)
    BY DEF NoParent
<1> HIDE DEF e, T
<1>4. /\ IsFiniteSet(MappedVariables') /\ Cardinality(MappedVariables') = Len(tags')
    <2>1. IsFiniteSet(MappedVariables) /\ Cardinality(MappedVariables) = Len(tags)
        BY DEF TreeInv, TagsInv
    <2> QED BY <1>2, <1>3, <2>1, FS_AddElement
<1>5. ASSUME NEW j \in 1..Len(tags')
      PROVE  /\ tags'[j].object \in 1..Len(equipment)
             /\ tags'[j].node \in Shown(space, equipment, last, tags'[j].object)
    <2>1. CASE j = Len(tags) + 1
        <3>1. node \in Shown(space, equipment, last, p)
            BY <1>0, ShownGrows
        <3> QED BY <1>2, <1>3, <2>1, <3>1
    <2>2. CASE j # Len(tags) + 1
        <3>1. j \in 1..Len(tags)
            BY <1>2, <2>2
        <3> QED BY <1>2, <3>1 DEF TreeInv, TagsInv
    <2> QED BY <2>1, <2>2
<1>6. TagsInv'
    BY <1>4, <1>5, Zenon DEF TagsInv
<1>7. ObjectsInv'
    BY Zenon DEF TreeInv, ObjectsInv, MappedObjects
<1> QED BY <1>2, <1>3, <1>6, <1>7

LEMMA TreeStep ==
    ASSUME TypeOK, TreeInv, PhaseInv, [Next]_vars
    PROVE  TreeInv'
<1> DEFINE Tables == UNCHANGED <<space, equipment, tags>>
<1>a. FramesInv /\ ObjectsInv /\ TagsInv
    BY DEF TreeInv
<1>b. Tables /\ FramesOf(space, equipment, stack') => TreeInv'
    BY <1>a, Zenon DEF TreeInv, FramesInv, ObjectsInv, TagsInv, MappedObjects, MappedVariables
<1>c. /\ \A s, t \in Seq(Nodes) : Pending([parent |-> 0, page |-> s, next |-> t]) = Range(s) \union Range(t)
      /\ space \in [Browsable -> Seq(Nodes)] /\ stack \in Seq(Frames)
    BY SpacesAssumption DEF Pending, TypeOK
<1>1. CASE Discover
    <2>1. equipment' = <<>> /\ tags' = <<>> /\ space' = space
        BY <1>1 DEF Discover
    <2>2. ObjectsInv' /\ TagsInv'
        <3>1. MappedObjects' = {} /\ MappedVariables' = {}
            BY <2>1, EmptySeq DEF MappedObjects, MappedVariables
        <3>2. Len(<<>>) = 0 /\ \A i : i \notin 1..0
            BY EmptySeq
        <3> QED BY <2>1, <3>1, <3>2, FS_EmptySet, Zenon DEF ObjectsInv, TagsInv
    <2>3. FramesOf(space, <<>>, stack')
        <3>1. CASE stack' = <<>>
            BY <3>1, FramesOfEmpty
        <3>2. ASSUME NEW reply \in Replies(NoParent, space[ObjectsFolder]), stack' = <<reply>>
              PROVE  FramesOf(space, <<>>, stack')
            <4>1. /\ reply \in Frames /\ reply.parent = NoParent
                  /\ Pending(reply) = Range(space[ObjectsFolder])
                BY SpaceReferences, ReplyFrame, FoldersAndObjects DEF NoParent
            <4>2. stack' = Append(<<>>, reply) /\ <<>> \in Seq(Frames) /\ Len(<<>>) = 0
                BY <3>2, EmptySeq
            <4>3. Range(space[ObjectsFolder]) \subseteq Shown(space, <<>>, 1, NoParent)
                <5>1. Shown(space, <<>>, 1, NoParent)
                         = Layers(space, Range(space[ObjectsFolder]))[0] \intersect Outside(ReachedIn(space))
                    BY DEF Shown, BelowIn
                <5>2. Layers(space, Range(space[ObjectsFolder]))[0] = Range(space[ObjectsFolder])
                    BY LayersDef
                <5>3. Range(space[ObjectsFolder]) \subseteq Outside(ReachedIn(space))
                    BY <1>c, ReachedClosed, FoldersAndObjects DEF ClosedPairs
                <5> QED BY <5>1, <5>2, <5>3
            <4>4. FramesOf(space, <<>>, <<>>)
                BY FramesOfEmpty
            <4>5. NoParent \in 0..0 /\ 0 + 1 = 1
                BY DEF NoParent
            <4> QED BY <4>1, <4>2, <4>3, <4>4, <4>5, FramesPushed
        <3> QED BY <1>1, <3>1, <3>2 DEF Discover
    <2> QED BY <2>1, <2>2, <2>3 DEF TreeInv, FramesInv
<1>2. CASE Finish
    <2>1. CASE result = "BAD"
        <3>1. equipment' = <<>> /\ tags' = <<>> /\ stack' = <<>>
            BY <1>2, <2>1 DEF Finish
        <3>2. MappedObjects' = {} /\ MappedVariables' = {}
            BY <3>1, EmptySeq DEF MappedObjects, MappedVariables
        <3>3. Len(<<>>) = 0 /\ \A i : i \notin 1..0
            BY EmptySeq
        <3>4. ObjectsInv' /\ TagsInv'
            BY <3>1, <3>2, <3>3, FS_EmptySet, Zenon DEF ObjectsInv, TagsInv
        <3> QED BY <3>1, <3>4, FramesOfEmpty DEF TreeInv, FramesInv
    <2>2. CASE result # "BAD"
        BY <1>2, <1>a, <1>b, <2>2 DEF Finish, FramesInv
    <2> QED BY <2>1, <2>2
<1>3. CASE NextPage
    <2>1. PICK reply \in Replies(Top.parent, Top.next) :
             stack' = [stack EXCEPT ![Len(stack)] = reply]
        BY <1>3 DEF NextPage
    <2>2. stack # <<>> /\ Tables
        BY <1>3 DEF NextPage, PageProcessed
    <2>3. reply \in Frames /\ reply.parent = Top.parent /\ Pending(reply) \subseteq Pending(Top)
        BY <2>2, TopFrame, ReplyFrame DEF Pending
    <2>4. OnlyTop(stack') /\ stack'[Len(stack)] = reply
        BY <2>1, <2>2, <2>3, SetTop DEF OnlyTop
    <2> QED BY <1>a, <1>b, <2>2, <2>3, <2>4, FramesOnlyTop
<1>4. CASE NextPageFails \/ CopyFails \/ ReleaseContinuationPoint
    <2>1. stack # <<>> /\ Tables /\ stack' = WithoutPoint
        BY <1>4 DEF NextPageFails, CopyFails, ReleaseContinuationPoint, PageProcessed
    <2>2. /\ OnlyTop(stack') /\ stack'[Len(stack)].parent = Top.parent
          /\ Pending(stack'[Len(stack)]) \subseteq Pending(Top)
        BY <2>1, TopWithoutPoint DEF OnlyTop
    <2> QED BY <1>a, <1>b, <2>1, <2>2, FramesOnlyTop
<1>5. CASE Return
    <2>1. stack # <<>> /\ Tables /\ stack' = Front(stack)
        BY <1>5 DEF Return, PageProcessed
    <2> QED BY <1>a, <1>b, <2>1, FramesFront
<1>6. CASE SkipReference \/ AddFails
    <2>1. PICK node \in Nodes : Processing(node)
        BY <1>6, FoldersAndObjects DEF SkipReference, AddFails, Nodes
    <2>2. stack' = Advanced /\ Tables
        BY <1>6 DEF SkipReference, AddFails
    <2> QED BY <1>a, <1>b, <2>1, <2>2, NodeInHand
<1>7. CASE BrowseFolder
    <2>1. PICK node \in Folders : Processing(node) /\ Browse(node, Top.parent, Advanced)
        BY <1>7 DEF BrowseFolder
    <2>2. node \in Browsable /\ node \in Nodes
        BY FoldersAndObjects
    <2>3. /\ OnlyTop(Advanced) /\ FramesOf(space, equipment, Advanced)
          /\ Len(stack) \in 1..(MaximumBrowseDepth + 1) /\ Len(Advanced) = Len(stack)
          /\ Top.parent \in 0..Len(equipment)
          /\ node \in Shown(space, equipment, Len(stack), Top.parent)
        BY <1>a, <2>1, <2>2, NodeInHand
    <2>4. Len(stack) <= MaximumBrowseDepth =>
             References(node) \subseteq Shown(space, equipment, Len(stack) + 1, Top.parent)
        BY <1>c, <2>3, ShownGrows DEF References
    <2>5. Top.parent \in Nat /\ Advanced \in Seq(Frames)
        BY <2>3, TopFrame DEF OnlyTop
    <2>6. FramesOf(space, equipment, stack')
        BY <2>1, <2>2, <2>3, <2>4, <2>5, BrowseFrames
    <2> QED BY <1>7, <1>b, <2>6 DEF BrowseFolder
<1>8. CASE AddObject
    <2>1. PICK node \in Objects \ MappedObjects :
             /\ Processing(node)
             /\ equipment' = Append(equipment, [node |-> node, parent |-> Top.parent])
             /\ Browse(node, Len(equipment'), Advanced)
        BY <1>8 DEF AddObject
    <2>2. node \in Browsable /\ node \in Nodes /\ UNCHANGED <<space, tags>>
        BY <1>8, FoldersAndObjects DEF AddObject
    <2>3. /\ OnlyTop(Advanced) /\ FramesOf(space, equipment, Advanced)
          /\ Len(stack) \in 1..(MaximumBrowseDepth + 1) /\ Len(Advanced) = Len(stack)
          /\ Top.parent \in 0..Len(equipment)
          /\ node \in Shown(space, equipment, Len(stack), Top.parent)
        BY <1>a, <2>1, <2>2, NodeInHand
    <2>4. /\ Extends(equipment', equipment) /\ Len(equipment') = Len(equipment) + 1
          /\ equipment'[Len(equipment')].node = node
          /\ ObjectsInv' /\ TagsInv'
        BY <2>1, <2>2, <2>3, ObjectAdded
    <2>5. FramesOf(space, equipment', Advanced)
        BY <2>3, <2>4, FramesExtended
    <2>6. Len(equipment') \in 0..Len(equipment') /\ Len(equipment') \in Nat /\ Len(equipment') # NoParent
        BY <2>4 DEF Extends, NoParent
    <2>7. Len(stack) <= MaximumBrowseDepth =>
             References(node) \subseteq Shown(space, equipment', Len(stack) + 1, Len(equipment'))
        <3> SUFFICES ASSUME Len(stack) <= MaximumBrowseDepth
                     PROVE  Range(space[node]) \subseteq Shown(space, equipment', Len(stack) + 1, Len(equipment'))
            BY DEF References
        <3>1. PICK k \in 0..MaximumBrowseDepth : k = (Len(stack) + 1) - 1
            BY <2>3, LimitsAssumption
        <3>2. Shown(space, equipment', Len(stack) + 1, Len(equipment'))
                 = Layers(space, Range(space[node]))[k] \intersect Inside(ReachedIn(space))
            BY <2>4, <2>6, <3>1, Zenon DEF Shown, BelowIn
        <3>3. Range(space[node]) \subseteq Layers(space, Range(space[node]))[k]
            BY LayersGrow
        <3>4. Range(space[node]) \subseteq Inside(ReachedIn(space))
            BY <1>c, <2>3, ShownGrows
        <3> QED BY <3>2, <3>3, <3>4
    <2>8. Advanced \in Seq(Frames)
        BY <2>3 DEF OnlyTop
    <2>9. FramesOf(space, equipment', stack')
        BY <2>1, <2>2, <2>3, <2>5, <2>6, <2>7, <2>8, BrowseFrames
    <2> QED BY <2>2, <2>4, <2>9 DEF TreeInv, FramesInv
<1>9. CASE AddVariable
    <2>1. PICK node \in Variables \ MappedVariables :
             /\ Processing(node) /\ Top.parent # NoParent
             /\ tags' = Append(tags, [node |-> node, object |-> Top.parent])
        BY <1>9 DEF AddVariable
    <2>2. node \in Nodes /\ stack' = Advanced /\ UNCHANGED <<space, equipment>>
        BY <1>9 DEF AddVariable, Nodes
    <2>3. /\ FramesOf(space, equipment, Advanced)
          /\ Len(stack) \in 1..(MaximumBrowseDepth + 1)
          /\ Top.parent \in 0..Len(equipment)
          /\ node \in Shown(space, equipment, Len(stack), Top.parent)
        BY <1>a, <2>1, <2>2, NodeInHand
    <2>4. ObjectsInv' /\ TagsInv'
        BY <2>1, <2>2, <2>3, VariableAdded
    <2> QED BY <2>2, <2>3, <2>4 DEF TreeInv, FramesInv
<1>10. CASE UNCHANGED vars
    BY <1>10, <1>a, <1>b DEF vars, FramesInv
<1> QED BY <1>1, <1>2, <1>3, <1>4, <1>5, <1>6, <1>7, <1>8, <1>9, <1>10 DEF Next

LEMMA ShownIsChild ==
    ASSUME NEW p
    PROVE  Shown(space, equipment, MaximumBrowseDepth + 1, p) \subseteq ChildrenOf(p)
<1> DEFINE nodes == IF p = NoParent THEN References(ObjectsFolder) ELSE References(equipment[p].node)
<1>1. ChildrenOf(p) = Layers(space, nodes)[MaximumBrowseDepth]
    BY ThroughIsLast DEF ChildrenOf
<1>2. (MaximumBrowseDepth + 1) - 1 = MaximumBrowseDepth
    BY LimitsAssumption
<1> QED BY <1>1, <1>2, Zenon DEF Shown, BelowIn, References

LEMMA TreeIsServers ==
    ASSUME TypeOK, TreeInv
    PROVE  DiscoveredTreeIsServers
<1>1. DOMAIN equipment = 1..Len(equipment) /\ DOMAIN tags = 1..Len(tags)
    BY LenProperties DEF TypeOK
<1> QED BY <1>1, ShownIsChild, Zenon
        DEF TreeInv, ObjectsInv, TagsInv, DiscoveredTreeIsServers

----------------------------------------------------------------------------
\* What a discovery without failures has covered.

\* A step that settles the reference in hand, and lists or leaves pending the
\* references of every node it browses, keeps all references covered.
LEMMA CoverStep ==
    ASSUME NEW browsed \in [{0, 1} -> SUBSET Folders], Cover(browsed),
           NEW more \in [{0, 1} -> SUBSET Folders],
           space' = space,
           MappedObjects \subseteq MappedObjects', MappedVariables \subseteq MappedVariables',
           \A b \in {0, 1} :
               /\ browsed[b] \subseteq more[b]
               /\ \A f \in more[b] \ browsed[b] : References(f) \subseteq PendingSide(stack', b)
               /\ PendingSide(stack, b) \subseteq Settled(more, b)' \union PendingSide(stack', b),
           \A o \in MappedObjects' \ MappedObjects : References(o) \subseteq PendingSide(stack', 1)
    PROVE  Cover(more)'
<1>1. \A n : References(n)' = References(n)
    BY DEF References
<1>2. \A b \in {0, 1} : Settled(browsed, b) \subseteq Settled(more, b)'
    BY Zenon DEF Settled
<1>3. ASSUME NEW b \in {0, 1}, NEW n,
             References(n) \subseteq Settled(browsed, b) \union PendingSide(stack, b)
      PROVE  References(n) \subseteq Settled(more, b)' \union PendingSide(stack', b)
    BY <1>2, <1>3, Zenon
<1>4. ObjectsFolder \in more[0]
    BY Zenon DEF Cover
<1>5. ASSUME NEW b \in {0, 1}, NEW f \in more[b]
      PROVE  References(f) \subseteq Settled(more, b)' \union PendingSide(stack', b)
    <2>1. CASE f \in browsed[b]
        BY <1>3, <2>1, Zenon DEF Cover
    <2>2. CASE f \notin browsed[b]
        BY <2>2, Zenon
    <2> QED BY <2>1, <2>2, Zenon
<1>6. ASSUME NEW o \in MappedObjects'
      PROVE  References(o) \subseteq Settled(more, 1)' \union PendingSide(stack', 1)
    <2>1. CASE o \in MappedObjects
        BY <1>3, <2>1, Zenon DEF Cover
    <2>2. CASE o \notin MappedObjects
        BY <2>2, Zenon
    <2> QED BY <2>1, <2>2, Zenon
<1>7. \A b : PendingSide(stack, b)' = PendingSide(stack', b)
    BY DEF PendingSide
<1> QED BY <1>1, <1>4, <1>5, <1>6, <1>7, Zenon DEF Cover

LEMMA PendingOfTop ==
    ASSUME TypeOK, NEW s, OnlyTop(s), s[Len(stack)].parent = Top.parent, NEW b,
           NEW n \in PendingSide(stack, b)
    PROVE  \/ n \in PendingSide(s, b)
           \/ n \in Pending(Top) \ Pending(s[Len(stack)]) /\ b = Side(Top.parent)
<1>1. PICK k \in Nat \ {0} : k = Len(stack)
    BY EmptySeq, LenProperties DEF TypeOK, OnlyTop
<1>2. \A i \in 1..k : i # k => i \in 1..(k - 1)
    OBVIOUS
<1>3. k \in 1..k /\ Top = stack[k]
    BY <1>1, TopFrame DEF OnlyTop
<1>4. PICK i \in 1..k : Side(stack[i].parent) = b /\ n \in Pending(stack[i])
    BY <1>1, Zenon DEF PendingSide
<1>5. CASE i # k
    <2>1. s[i] = stack[i]
        BY <1>1, <1>2, <1>5, Zenon DEF OnlyTop
    <2>2. Len(s) = k
        BY <1>1 DEF OnlyTop
    <2> QED BY <1>4, <2>1, <2>2, Zenon DEF PendingSide
<1>6. CASE i = k
    <2>1. CASE n \in Pending(s[k])
        <3>1. Len(s) = k /\ Side(s[k].parent) = b
            BY <1>1, <1>3, <1>4, <1>6 DEF OnlyTop
        <3> QED BY <1>3, <2>1, <3>1, Zenon DEF PendingSide
    <2>2. CASE n \notin Pending(s[k])
        BY <1>1, <1>3, <1>4, <1>6, <2>2, Zenon
    <2> QED BY <2>1, <2>2
<1> QED BY <1>5, <1>6

LEMMA PendingOfPush ==
    ASSUME NEW s \in Seq(Frames), NEW f \in Frames, NEW b
    PROVE  /\ PendingSide(s, b) \subseteq PendingSide(Append(s, f), b)
           /\ b = Side(f.parent) => Pending(f) \subseteq PendingSide(Append(s, f), b)
<1>1. /\ Len(Append(s, f)) = Len(s) + 1
      /\ \A i \in 1..Len(s) : Append(s, f)[i] = s[i]
      /\ Append(s, f)[Len(s) + 1] = f
    BY AppendProperties
<1>2. Len(s) + 1 \in 1..(Len(s) + 1) /\ \A i \in 1..Len(s) : i \in 1..(Len(s) + 1)
    BY LenProperties
<1> QED BY <1>1, <1>2, Zenon DEF PendingSide

LEMMA PendingOfFront ==
    ASSUME TypeOK, stack # <<>>, Top.page = <<>>, Top.next = <<>>, NEW b
    PROVE  PendingSide(stack, b) \subseteq PendingSide(Front(stack), b)
<1>1. /\ Len(Front(stack)) = Len(stack) - 1
      /\ \A i \in 1..(Len(stack) - 1) : Front(stack)[i] = stack[i]
    BY FrontFrames
<1>2. PICK k \in Nat \ {0} : k = Len(stack)
    BY EmptySeq, LenProperties DEF TypeOK
<1>3. \A i \in 1..k : i # k => i \in 1..(k - 1)
    OBVIOUS
<1>4. Pending(stack[k]) = {}
    BY <1>2, TopFrame, RangeOfEmpty DEF Pending
<1> SUFFICES ASSUME NEW n \in PendingSide(stack, b) PROVE n \in PendingSide(Front(stack), b)
    OBVIOUS
<1>5. PICK i \in 1..k : Side(stack[i].parent) = b /\ n \in Pending(stack[i])
    BY <1>2, Zenon DEF PendingSide
<1>6. i # k
    BY <1>4, <1>5
<1>7. i \in 1..(k - 1) /\ Front(stack)[i] = stack[i] /\ Len(Front(stack)) = k - 1
    BY <1>1, <1>2, <1>3, <1>6, Zenon
<1> QED BY <1>5, <1>7, Zenon DEF PendingSide

\* A call that neither failed nor was cut off has the node's references pending.
LEMMA BrowseCovers ==
    ASSUME TypeOK, NEW node \in Browsable, NEW p \in Nat, NEW s \in Seq(Frames),
           Browse(node, p, s), result' = "GOOD", ~limited'
    PROVE  /\ result = "GOOD" /\ ~limited
           /\ \A b : PendingSide(s, b) \subseteq PendingSide(stack', b)
           /\ References(node) \subseteq PendingSide(stack', Side(p))
<1>1. /\ result = "GOOD" /\ ~limited
      /\ \E reply \in Replies(p, space[node]) : stack' = Append(s, reply)
    BY DEF Browse
<1>2. PICK reply \in Replies(p, space[node]) : stack' = Append(s, reply)
    BY <1>1
<1>3. reply \in Frames /\ reply.parent = p /\ Pending(reply) = References(node)
    BY SpaceReferences, ReplyFrame DEF References
<1> QED BY <1>1, <1>2, <1>3, PendingOfPush

LEMMA AdvancedLeaves ==
    ASSUME TypeOK, NEW node \in Nodes, Processing(node), NEW b,
           NEW n \in PendingSide(stack, b)
    PROVE  n \in PendingSide(Advanced, b) \/ (n = node /\ b = Side(Top.parent))
<1>1. OnlyTop(Advanced) /\ Advanced[Len(stack)].parent = Top.parent
    BY AdvancedTop DEF OnlyTop
<1>2. Pending(Top) = {node} \union Pending(Advanced[Len(stack)])
    BY AdvancedTop
<1>3. \/ n \in PendingSide(Advanced, b)
      \/ n \in Pending(Top) \ Pending(Advanced[Len(stack)]) /\ b = Side(Top.parent)
    BY <1>1, PendingOfTop
<1> QED BY <1>2, <1>3

\* The reference in hand is the only one that leaves, and it is settled.
LEMMA CoverOfNode ==
    ASSUME TypeOK, NEW node \in Nodes, Processing(node),
           NEW more \in [{0, 1} -> SUBSET Folders],
           \A b \in {0, 1} : b = Side(Top.parent) => node \in Settled(more, b)',
           \A b \in {0, 1} : PendingSide(Advanced, b) \subseteq PendingSide(stack', b)
    PROVE  \A b \in {0, 1} :
               PendingSide(stack, b) \subseteq Settled(more, b)' \union PendingSide(stack', b)
<1> SUFFICES ASSUME NEW b \in {0, 1}, NEW n \in PendingSide(stack, b)
             PROVE  n \in Settled(more, b)' \union PendingSide(stack', b)
    OBVIOUS
<1>1. n \in PendingSide(Advanced, b) \/ (n = node /\ b = Side(Top.parent))
    BY AdvancedLeaves
<1>2. CASE n \in PendingSide(Advanced, b)
    BY <1>2, Zenon
<1>3. CASE n = node /\ b = Side(Top.parent)
    BY <1>3, Zenon
<1> QED BY <1>1, <1>2, <1>3

LEMMA CoverInit == Init => CoverInv
BY DEF Init, CoverInv

LEMMA CoverNext ==
    ASSUME TypeOK, PhaseInv, TreeInv, CoverInv, [Next]_vars
    PROVE  CoverInv'
<1> SUFFICES ASSUME phase' # "idle", result' = "GOOD", ~limited'
             PROVE  \E browsed \in [{0, 1} -> SUBSET Folders] : Cover(browsed)'
    BY DEF CoverInv
<1>a. stack # <<>> => phase = "browse"
    BY DEF PhaseInv
<1>b. phase # "idle" /\ result = "GOOD" /\ ~limited
          => \E browsed \in [{0, 1} -> SUBSET Folders] : Cover(browsed)
    BY DEF CoverInv
<1>c. Side(Top.parent) \in {0, 1} /\ \A p \in Nat \ {0} : Side(p) = 1
    BY DEF Side, NoParent
<1>d. ASSUME NEW browsed \in [{0, 1} -> SUBSET Folders], Cover(browsed),
             UNCHANGED <<space, equipment, tags>>,
             \A b \in {0, 1} : PendingSide(stack, b) \subseteq PendingSide(stack', b)
      PROVE  Cover(browsed)'
    <2>1. MappedObjects' = MappedObjects /\ MappedVariables' = MappedVariables
        BY <1>d DEF MappedObjects, MappedVariables
    <2> QED BY <1>d, <2>1, CoverStep
<1>1. CASE Discover
    <2>1. PICK reply \in Replies(NoParent, space[ObjectsFolder]) : stack' = <<reply>>
        BY <1>1 DEF Discover
    <2>2. /\ reply \in Frames /\ reply.parent = NoParent
          /\ Pending(reply) = References(ObjectsFolder)
        BY SpaceReferences, ReplyFrame, FoldersAndObjects DEF NoParent, References
    <2>3. stack' = Append(<<>>, reply) /\ <<>> \in Seq(Frames)
        BY <2>1, EmptySeq
    <2>4. References(ObjectsFolder) \subseteq PendingSide(stack', 0)
        <3>1. Side(reply.parent) = 0
            BY <2>2 DEF Side
        <3> QED BY <2>2, <2>3, <3>1, PendingOfPush
    <2> DEFINE first == [b \in {0, 1} |-> IF b = 0 THEN {ObjectsFolder} ELSE {}]
    <2>5. /\ first \in [{0, 1} -> SUBSET Folders] /\ first[0] = {ObjectsFolder} /\ first[1] = {}
        BY FoldersAndObjects
    <2>6. MappedObjects' = {} /\ space' = space
        BY <1>1, EmptySeq DEF Discover, MappedObjects
    <2>7. References(ObjectsFolder)' = References(ObjectsFolder)
        BY <2>6 DEF References
    <2> HIDE DEF first
    <2>8. \A b \in {0, 1} : \A f \in first[b] : b = 0 /\ f = ObjectsFolder
        BY <2>5
    <2>9. PendingSide(stack, 0)' = PendingSide(stack', 0)
        BY DEF PendingSide
    <2>10. Cover(first)'
        BY <2>4, <2>5, <2>6, <2>7, <2>8, <2>9, Zenon DEF Cover
    <2> QED BY <2>5, <2>10
<1>2. CASE Finish
    <2>1. UNCHANGED <<space, equipment, tags, stack, result, limited>> /\ phase = "browse"
        BY <1>2 DEF Finish
    <2> QED BY <1>b, <1>d, <2>1
<1>3. CASE NextPage
    <2>1. PICK reply \in Replies(Top.parent, Top.next) :
             stack' = [stack EXCEPT ![Len(stack)] = reply]
        BY <1>3 DEF NextPage
    <2>2. /\ stack # <<>> /\ UNCHANGED <<space, equipment, tags, result, limited>>
          /\ Top.page = <<>>
        BY <1>3 DEF NextPage, PageProcessed
    <2>3. reply \in Frames /\ reply.parent = Top.parent /\ Pending(reply) = Pending(Top)
        BY <2>2, TopFrame, ReplyFrame, RangeOfEmpty DEF Pending
    <2>4. OnlyTop(stack') /\ stack'[Len(stack)] = reply
        BY <2>1, <2>2, <2>3, SetTop DEF OnlyTop
    <2>5. \A b \in {0, 1} : PendingSide(stack, b) \subseteq PendingSide(stack', b)
        BY <2>3, <2>4, PendingOfTop
    <2> QED BY <1>a, <1>b, <1>d, <2>2, <2>5
<1>4. CASE NextPageFails \/ CopyFails \/ ReleaseContinuationPoint \/ AddFails
    BY <1>4 DEF NextPageFails, CopyFails, ReleaseContinuationPoint, AddFails
<1>5. CASE Return
    <2>1. /\ stack # <<>> /\ UNCHANGED <<space, equipment, tags, result, limited>>
          /\ Top.page = <<>> /\ Top.next = <<>> /\ stack' = Front(stack)
        BY <1>5 DEF Return, PageProcessed
    <2>2. \A b \in {0, 1} : PendingSide(stack, b) \subseteq PendingSide(stack', b)
        BY <2>1, PendingOfFront
    <2> QED BY <1>a, <1>b, <1>d, <2>1, <2>2
<1>6. CASE SkipReference
    <2>1. PICK node \in Nodes :
             /\ Processing(node)
             /\ \/ node \in Ignored
                \/ node \in Objects \intersect MappedObjects
                \/ node \in Variables \intersect MappedVariables
                \/ node \in Variables /\ Top.parent = NoParent
        BY <1>6 DEF SkipReference
    <2>2. stack' = Advanced /\ UNCHANGED <<space, equipment, tags, result, limited>> /\ stack # <<>>
        BY <1>6, <2>1 DEF SkipReference, Processing
    <2>3. PICK browsed \in [{0, 1} -> SUBSET Folders] : Cover(browsed)
        BY <1>a, <1>b, <2>2
    <2>4. MappedObjects' = MappedObjects /\ MappedVariables' = MappedVariables
        BY <2>2 DEF MappedObjects, MappedVariables
    <2>5. ASSUME NEW b \in {0, 1}, b = Side(Top.parent)
          PROVE  node \in Settled(browsed, b)'
        <3>1. CASE node \in Variables /\ Top.parent = NoParent
            <4>1. b = 0
                BY <2>5, <3>1, Zenon DEF Side
            <4> QED BY <3>1, <4>1, Zenon DEF Settled
        <3>2. CASE node \in Ignored \/ node \in MappedObjects \/ node \in MappedVariables
            BY <2>4, <3>2, Zenon DEF Settled
        <3> QED BY <2>1, <3>1, <3>2
    <2>6. \A b \in {0, 1} :
             PendingSide(stack, b) \subseteq Settled(browsed, b)' \union PendingSide(stack', b)
        BY <2>1, <2>2, <2>5, CoverOfNode
    <2>7. Cover(browsed)'
        BY <2>2, <2>3, <2>4, <2>6, CoverStep
    <2> QED BY <2>7
<1>7. CASE BrowseFolder
    <2>1. PICK node \in Folders : Processing(node) /\ Browse(node, Top.parent, Advanced)
        BY <1>7 DEF BrowseFolder
    <2>2. /\ node \in Browsable /\ node \in Nodes /\ UNCHANGED <<space, phase, equipment, tags>>
          /\ stack # <<>>
        BY <1>7, <2>1, FoldersAndObjects DEF BrowseFolder, Processing
    <2>3. Top.parent \in Nat /\ Advanced \in Seq(Frames)
        BY <2>1, <2>2, TopFrame, AdvancedTop
    <2>4. /\ result = "GOOD" /\ ~limited
          /\ \A b : PendingSide(Advanced, b) \subseteq PendingSide(stack', b)
          /\ References(node) \subseteq PendingSide(stack', Side(Top.parent))
        BY <2>1, <2>2, <2>3, BrowseCovers
    <2>5. PICK browsed \in [{0, 1} -> SUBSET Folders] : Cover(browsed)
        BY <1>a, <1>b, <2>2, <2>4
    <2>6. PICK side \in {0, 1} : side = Side(Top.parent)
        BY <1>c
    <2> DEFINE more == [b \in {0, 1} |-> browsed[b] \union (IF b = side THEN {node} ELSE {})]
    <2>7. /\ more \in [{0, 1} -> SUBSET Folders]
          /\ \A b \in {0, 1} : browsed[b] \subseteq more[b]
          /\ node \in more[side]
          /\ \A b \in {0, 1} : \A f \in more[b] \ browsed[b] : b = side /\ f = node
        OBVIOUS
    <2> HIDE DEF more
    <2>8. \A b \in {0, 1} : b = Side(Top.parent) => node \in Settled(more, b)'
        BY <2>6, <2>7, Zenon DEF Settled
    <2>9. \A b \in {0, 1} :
             PendingSide(stack, b) \subseteq Settled(more, b)' \union PendingSide(stack', b)
        BY <2>1, <2>2, <2>4, <2>7, <2>8, CoverOfNode
    <2>10. MappedObjects' = MappedObjects /\ MappedVariables' = MappedVariables
        BY <2>2 DEF MappedObjects, MappedVariables
    <2>11. \A b \in {0, 1} : \A f \in more[b] \ browsed[b] : References(f) \subseteq PendingSide(stack', b)
        BY <2>4, <2>6, <2>7, Zenon
    <2>12. Cover(more)'
        BY <2>2, <2>5, <2>7, <2>9, <2>10, <2>11, CoverStep
    <2> QED BY <2>7, <2>12
<1>8. CASE AddObject
    <2>1. PICK node \in Objects \ MappedObjects :
             /\ Processing(node)
             /\ equipment' = Append(equipment, [node |-> node, parent |-> Top.parent])
             /\ Browse(node, Len(equipment'), Advanced)
        BY <1>8 DEF AddObject
    <2>2. /\ node \in Browsable /\ node \in Nodes /\ UNCHANGED <<space, phase, tags>>
          /\ stack # <<>>
        BY <1>8, <2>1, FoldersAndObjects DEF AddObject, Processing
    <2>3. /\ OnlyTop(Advanced) /\ Len(stack) \in 1..(MaximumBrowseDepth + 1)
          /\ Top.parent \in 0..Len(equipment)
          /\ node \in Shown(space, equipment, Len(stack), Top.parent)
        BY <2>1, <2>2, NodeInHand DEF TreeInv
    <2>4. /\ Extends(equipment', equipment) /\ Len(equipment') = Len(equipment) + 1
          /\ MappedObjects' = MappedObjects \union {node}
        BY <2>1, <2>2, <2>3, ObjectAdded
    <2>5. Len(equipment') \in Nat \ {0} /\ Advanced \in Seq(Frames)
        BY <2>3, <2>4 DEF Extends, OnlyTop
    <2>6. /\ result = "GOOD" /\ ~limited
          /\ \A b : PendingSide(Advanced, b) \subseteq PendingSide(stack', b)
          /\ References(node) \subseteq PendingSide(stack', Side(Len(equipment')))
        BY <2>1, <2>2, <2>5, BrowseCovers
    <2>7. References(node) \subseteq PendingSide(stack', 1)
        BY <1>c, <2>5, <2>6, Zenon
    <2>8. PICK browsed \in [{0, 1} -> SUBSET Folders] : Cover(browsed)
        BY <1>a, <1>b, <2>2, <2>6
    <2>9. \A b \in {0, 1} : b = Side(Top.parent) => node \in Settled(browsed, b)'
        BY <2>4, Zenon DEF Settled
    <2>10. \A b \in {0, 1} :
              PendingSide(stack, b) \subseteq Settled(browsed, b)' \union PendingSide(stack', b)
        BY <2>1, <2>2, <2>6, <2>9, CoverOfNode
    <2>11. MappedVariables' = MappedVariables /\ MappedObjects \subseteq MappedObjects'
        BY <2>2, <2>4 DEF MappedVariables
    <2>12. \A o \in MappedObjects' \ MappedObjects : References(o) \subseteq PendingSide(stack', 1)
        BY <2>4, <2>7, Zenon
    <2>13. Cover(browsed)'
        BY <2>2, <2>8, <2>10, <2>11, <2>12, CoverStep
    <2> QED BY <2>13
<1>9. CASE AddVariable
    <2>1. PICK node \in Variables \ MappedVariables :
             /\ Processing(node) /\ Top.parent # NoParent
             /\ tags' = Append(tags, [node |-> node, object |-> Top.parent])
        BY <1>9 DEF AddVariable
    <2>2. /\ node \in Nodes /\ stack' = Advanced /\ stack # <<>>
          /\ UNCHANGED <<space, phase, equipment, result, limited>>
        BY <1>9, <2>1 DEF AddVariable, Nodes, Processing
    <2>3. /\ Len(stack) \in 1..(MaximumBrowseDepth + 1)
          /\ Top.parent \in 0..Len(equipment)
          /\ node \in Shown(space, equipment, Len(stack), Top.parent)
        BY <2>1, <2>2, NodeInHand DEF TreeInv
    <2>4. MappedVariables' = MappedVariables \union {node} /\ MappedObjects' = MappedObjects
        BY <2>1, <2>2, <2>3, VariableAdded DEF MappedObjects
    <2>5. PICK browsed \in [{0, 1} -> SUBSET Folders] : Cover(browsed)
        BY <1>a, <1>b, <2>2
    <2>6. \A b \in {0, 1} : b = Side(Top.parent) => node \in Settled(browsed, b)'
        BY <2>4, Zenon DEF Settled
    <2>7. \A b \in {0, 1} :
             PendingSide(stack, b) \subseteq Settled(browsed, b)' \union PendingSide(stack', b)
        BY <2>1, <2>2, <2>6, CoverOfNode
    <2>8. Cover(browsed)'
        BY <2>2, <2>4, <2>5, <2>7, CoverStep
    <2> QED BY <2>8
<1>10. CASE UNCHANGED vars
    BY <1>10, <1>b, <1>d DEF vars
<1> QED BY <1>1, <1>2, <1>3, <1>4, <1>5, <1>6, <1>7, <1>8, <1>9, <1>10 DEF Next

\* What is due, in terms of the nodes outside and inside of objects.
LEMMA DueSides ==
    ASSUME TypeOK
    PROVE  Due(2 * Cardinality(Browsable) + 1) =
               ((Outside(ReachedIn(space)) \union Inside(ReachedIn(space))) \intersect Objects)
                   \union (Inside(ReachedIn(space)) \intersect Variables)
<1> DEFINE R == ReachedIn(space)
           D == Due(2 * Cardinality(Browsable) + 1)
<1>1. R \in SUBSET (Nodes \X BOOLEAN)
    BY ReachedClosed, SpacesAssumption DEF TypeOK
<1>2. D = {s[1] : s \in {t \in R : t[1] \in Objects \/ (t[1] \in Variables /\ t[2])}}
    BY ReachedIsIn, Zenon DEF Due, EnoughSteps
<1>3. Objects \subseteq Nodes /\ Variables \subseteq Nodes
    BY DEF Nodes, Browsable
<1>4. \A n : <<n, TRUE>>[1] = n /\ <<n, TRUE>>[2] = TRUE /\ <<n, FALSE>>[1] = n
    OBVIOUS
<1> HIDE DEF R, D
<1>5. ASSUME NEW t \in R
      PROVE  /\ t[1] \in Outside(R) \union Inside(R)
             /\ t[2] => t[1] \in Inside(R)
    <2>1. t[1] \in Nodes /\ t = <<t[1], t[2]>> /\ t[2] \in BOOLEAN
        BY <1>1
    <2>2. CASE t[2] = TRUE
        BY <2>1, <2>2, Zenon DEF Inside
    <2>3. CASE t[2] = FALSE
        BY <2>1, <2>3, Zenon DEF Outside
    <2> QED BY <2>1, <2>2, <2>3, Zenon
<1>6. ASSUME NEW n \in D
      PROVE  \/ n \in Objects /\ n \in Outside(R) \union Inside(R)
             \/ n \in Variables /\ n \in Inside(R)
    BY <1>2, <1>5, Zenon
<1>7. ASSUME NEW n \in Objects, n \in Outside(R)
      PROVE  n \in D
    <2>1. <<n, FALSE>> \in R
        BY <1>7, Zenon DEF Outside
    <2> QED BY <1>2, <1>4, <1>7, <2>1, Zenon
<1>8. ASSUME NEW n \in Objects \union Variables, n \in Inside(R)
      PROVE  n \in D
    <2>1. <<n, TRUE>> \in R
        BY <1>8, Zenon DEF Inside
    <2> QED BY <1>2, <1>4, <1>8, <2>1, Zenon
<1>9. D = ((Outside(R) \union Inside(R)) \intersect Objects) \union (Inside(R) \intersect Variables)
    BY <1>6, <1>7, <1>8, Zenon
<1> QED BY <1>9 DEF D, R

LEMMA CoveredIsComplete ==
    ASSUME TypeOK, PhaseInv, TreeInv, CoverInv
    PROVE  CompleteUnlessCutOff
<1> SUFFICES ASSUME phase = "done", result = "GOOD", ~limited
             PROVE  Due(2 * Cardinality(Browsable) + 1) = MappedObjects \union MappedVariables
    BY DEF CompleteUnlessCutOff, Discovered
<1> DEFINE out == Outside(ReachedIn(space))
           in == Inside(ReachedIn(space))
<1>1. PICK browsed \in [{0, 1} -> SUBSET Folders] : Cover(browsed)
    BY DEF CoverInv
<1>2. \A b : PendingSide(stack, b) = {}
    <2>1. stack = <<>>
        BY DEF PhaseInv
    <2>2. Len(<<>>) = 0 /\ \A i : i \notin 1..0
        BY EmptySeq
    <2> QED BY <2>1, <2>2, Zenon DEF PendingSide
<1>3. /\ ObjectsFolder \in browsed[0] /\ browsed[0] \subseteq Folders /\ browsed[1] \subseteq Folders
      /\ \A f \in browsed[0] : References(f) \subseteq Settled(browsed, 0)
      /\ \A f \in browsed[1] : References(f) \subseteq Settled(browsed, 1)
      /\ \A o \in MappedObjects : References(o) \subseteq Settled(browsed, 1)
    BY <1>1, <1>2, Zenon DEF Cover
<1>4. MappedObjects \subseteq Objects /\ MappedVariables \subseteq Variables
    <2>1. /\ \A i \in DOMAIN equipment : equipment[i].node \in Objects
          /\ \A i \in DOMAIN tags : tags[i].node \in Variables
        <3>1. DOMAIN equipment = 1..Len(equipment) /\ DOMAIN tags = 1..Len(tags)
            BY LenProperties DEF TypeOK
        <3>2. \A i \in 1..Len(equipment) : equipment[i] \in [node : Objects, parent : Nat]
            BY ElementOfSeq DEF TypeOK
        <3>3. \A i \in 1..Len(tags) : tags[i] \in [node : Variables, object : Nat \ {0}]
            BY ElementOfSeq DEF TypeOK
        <3> QED BY <3>1, <3>2, <3>3
    <2> QED BY <2>1 DEF MappedObjects, MappedVariables
<1>5. /\ Settled(browsed, 0) \intersect Folders = browsed[0]
      /\ Settled(browsed, 1) \intersect Folders = browsed[1]
      /\ Settled(browsed, 0) \intersect Objects = MappedObjects
      /\ Settled(browsed, 1) \intersect Objects = MappedObjects
      /\ Settled(browsed, 1) \intersect Variables = MappedVariables
    BY <1>3, <1>4, KindsAssumption DEF Settled, Browsable
<1>6. out \subseteq Settled(browsed, 0) /\ in \subseteq Settled(browsed, 1)
    <2>1. space \in [Browsable -> Seq(Nodes)]
        BY SpacesAssumption DEF TypeOK
    <2>2. ObjectsFolder \in Settled(browsed, 0)
        BY <1>3, <1>5
    <2>3. \A f \in Settled(browsed, 0) \intersect Folders : Range(space[f]) \subseteq Settled(browsed, 0)
        BY <1>3, <1>5, Zenon DEF References
    <2>4. \A n \in (Settled(browsed, 1) \intersect Browsable) \union (Settled(browsed, 0) \intersect Objects) :
             Range(space[n]) \subseteq Settled(browsed, 1)
        <3>1. \A n \in Browsable : n \in Folders \/ n \in Objects
            BY DEF Browsable
        <3>2. \A n \in (Settled(browsed, 1) \intersect Browsable) \union (Settled(browsed, 0) \intersect Objects) :
                 n \in browsed[1] \/ n \in MappedObjects
            BY <1>5, <3>1, Zenon
        <3> QED BY <1>3, <3>2, Zenon DEF References
    <2> QED BY <2>1, <2>2, <2>3, <2>4, ReachedLeast
<1>7. MappedObjects \subseteq out \union in /\ MappedVariables \subseteq in
    <2>1. DOMAIN equipment = 1..Len(equipment) /\ DOMAIN tags = 1..Len(tags)
        BY LenProperties DEF TypeOK
    <2>2. \A i \in 1..Len(equipment) : equipment[i].node \in out \union in
        BY Zenon DEF TreeInv, ObjectsInv, Shown
    <2>3. \A i \in 1..Len(tags) : tags[i].node \in in
        <3>1. \A p \in 1..Len(equipment) : p # NoParent
            BY DEF NoParent
        <3> QED BY <3>1, Zenon DEF TreeInv, TagsInv, Shown
    <2> QED BY <2>1, <2>2, <2>3, Zenon DEF MappedObjects, MappedVariables
<1>8. Due(2 * Cardinality(Browsable) + 1) = ((out \union in) \intersect Objects) \union (in \intersect Variables)
    BY DueSides
<1> HIDE DEF out, in
<1> QED BY <1>4, <1>5, <1>6, <1>7, <1>8

----------------------------------------------------------------------------
\* The theorems.

\* The invariant from which all of them follow.
DiscoveryInv == TypeOK /\ PhaseInv /\ PointsInv /\ TreeInv /\ CoverInv

LEMMA DiscoveryInvariant == Spec => []DiscoveryInv
<1>1. Init => DiscoveryInv
    BY BasicInit, TreeInit, CoverInit DEF DiscoveryInv
<1>2. DiscoveryInv /\ [Next]_vars => DiscoveryInv'
    BY BasicStep, TreeStep, CoverNext DEF DiscoveryInv
<1> QED BY <1>1, <1>2, PTL DEF Spec

\* The tables and the depth of the recursion stay within their limits
\* (opcua_client.c, browse_children and the checks of the table sizes).
THEOREM DiscoveryTypes == Spec => []TypeOK
<1>1. DiscoveryInv => TypeOK
    BY DEF DiscoveryInv
<1> QED BY <1>1, DiscoveryInvariant, PTL

\* browse_children uses or releases every continuation point it is given, on all
\* its paths, unless a call that failed took the point along.
THEOREM DiscoveryReleasesPoints == Spec => []PointsAreUsedOrReleased
<1>1. DiscoveryInv => PointsAreUsedOrReleased
    BY DEF DiscoveryInv, PointsInv, PointsAreUsedOrReleased
<1> QED BY <1>1, DiscoveryInvariant, PTL

\* process_child_references lists no node twice, enters a parent before its
\* children and gives every entry a parent that the server shows it below.
THEOREM DiscoveryListsTheServersTree == Spec => []DiscoveredTreeIsServers
<1>1. DiscoveryInv => DiscoveredTreeIsServers
    BY TreeIsServers DEF DiscoveryInv
<1> QED BY <1>1, DiscoveryInvariant, PTL

\* discover_address_space, when no call of it fails or reaches the depth limit,
\* lists every object that can be reached and every variable below one, and
\* nothing else, on every graph and in every order of the pages.
THEOREM DiscoveryIsComplete == Spec => []CompleteUnlessCutOff
<1>1. DiscoveryInv => CompleteUnlessCutOff
    BY CoveredIsComplete DEF DiscoveryInv
<1> QED BY <1>1, DiscoveryInvariant, PTL

=============================================================================
