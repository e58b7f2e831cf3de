---------------------------- MODULE DecodingProofs ----------------------------
(***************************************************************************)
(* For every document that follows the grammar (XmlRpcDocuments), in       *)
(* however many pieces its texts come: what the parser makes of it is what *)
(* its elements say, none of the values on the way is lost, and a message  *)
(* cut short is at worst a shorter one.                                    *)
(*                                                                         *)
(* The argument follows the reading.  The elements of a document are a     *)
(* tree of intervals; at any place of it those that are open are a branch  *)
(* of that tree, and the parser's stack holds one state for each, with     *)
(* what the finished parts of that element say.  Every token keeps this so *)
(* (TagOpens, TagCloses, CharsRead), whatever element it belongs to.       *)
(***************************************************************************)
EXTENDS MessageParsingProofs

(***************************************************************************)
(* What the parser knows when it has read a document up to p: for each     *)
(* open element a state that holds what is done of the element.            *)
(***************************************************************************)
Carriers(kind) ==
    {"value", "array", "param", "fault"}
    \cup (IF kind = "response" THEN {"params", "methodResponse"} ELSE {})
    \cup (IF kind = "call" THEN {} ELSE {""})

\* No pointer at all stands for an empty array or struct, or for nothing.
Given(P, t, f, ptr, j) ==
    IF ptr = 0 THEN Tag(t, j) \notin Scalars \cup {"value"} /\ f[j] = Empty(Tag(t, j))
    ELSE P.heap[ptr].val = f[j]

Carrying(P, t, e, f, i, s, p) ==
    /\ Done(e, i, p) = {} => s.ptr = 0 /\ (Tag(t, i) = "value" => s.prev = "eUnknown")
    /\ \A j \in Done(e, i, p) :
        Given(P, t, f, s.ptr, j) /\ (Tag(t, i) = "value" => s.prev = StateOf(Tag(t, j)))

Collecting(P, e, f, i, s, p) ==
    /\ Done(e, i, p) = {} => s.ptr = 0
    /\ Done(e, i, p) # {} =>
        s.ptr # 0 /\ P.heap[s.ptr].val = Items(e, f, i, Cardinality(Done(e, i, p)))

Structured(P, t, e, f, i, s, p) ==
    /\ Met(e, i, p) = {} => s.ptr = 0
    /\ Met(e, i, p) # {} =>
        s.ptr # 0 /\ P.heap[s.ptr].val = StructOf(t, e, f, Full(t, e, i, p))

HasDone(t, e, i, p, tag) == \E j \in Done(e, i, p) : Tag(t, j) = tag

Joining(P, t, e, f, i, s, p) ==
    LET named == HasDone(t, e, i, p, "name")
        valued == HasDone(t, e, i, p, "value")
    IN  /\ ~named => s.name = <<>>
        /\ ~valued => s.mem = 0
        /\ named /\ ~valued => s.name = NameIn(t, e, i)
        /\ valued /\ ~named => s.mem # 0 /\ P.heap[s.mem].val = f[PartWith(t, e, i, "value")]
        /\ valued /\ named /\ Counts(t, e, i) => s.mem = 0

Level(P, t, e, f, i, s, p) ==
    /\ s.st = StateOf(Tag(t, i))
    /\ Tag(t, i) \in Carriers(P.kind) => Carrying(P, t, e, f, i, s, p)
    /\ Tag(t, i) = "data" => Collecting(P, e, f, i, s, p)
    /\ Tag(t, i) = "struct" => Structured(P, t, e, f, i, s, p)
    /\ Tag(t, i) = "member" => Joining(P, t, e, f, i, s, p)
    /\ Tag(t, i) \notin Carriers(P.kind) \cup {"data", "struct", "member"} => s.ptr = 0

ParamsDone(t, e, p) == {i \in Params(t) : e[i] <= p}
ParamList(t, f, n) == [k \in 1..n |-> f[InOrder(Params(t))[k]]]

Gathered(P, t, e, f, p) ==
    /\ P.kind = "call" =>
        /\ P.call = MethodCall(P.call.name, ParamList(t, f, Cardinality(ParamsDone(t, e, p))))
        /\ \A i \in MethodNames(t) :
            P.call.name = IF e[i] <= p THEN TextIn(t, e, i) ELSE <<>>
        /\ MethodNames(t) = {} => P.call.name = <<>>
    /\ P.kind = "response" =>
        /\ Done(e, 0, p) = {} => P.mvalue = Void
        /\ \A j \in Done(e, 0, p) : P.mvalue = f[j]

\* Each value is still in the hands of a state.
Claimed(P) == \A h \in Alive(P) : \E k \in 1..Len(P.stack) : P.stack[k].ptr = h \/ P.stack[k].mem = h

Understands(P, t, e, f, at, n, p) ==
    /\ Branch(e, at, n, p) /\ Len(P.stack) = n
    /\ P.ignored = 0 /\ P.stack[1].del
    /\ \A k \in 1..n : Level(P, t, e, f, at[k], P.stack[k], p)
    /\ Gathered(P, t, e, f, p)
    /\ ~Nameless(t) => Claimed(P)

(* A state that holds the same, of what is as much done. *)
SameLevel(P, Q, s, r) ==
    /\ Q.kind = P.kind
    /\ r.st = s.st /\ r.ptr = s.ptr /\ r.name = s.name /\ r.prev = s.prev /\ r.mem = s.mem
    /\ s.ptr # 0 => Q.heap[s.ptr].val = P.heap[s.ptr].val
    /\ s.mem # 0 => Q.heap[s.mem].val = P.heap[s.mem].val

LEMMA LevelKept ==
    ASSUME NEW P, NEW Q, NEW t, NEW e, NEW f, NEW i, NEW s, NEW r, NEW p, NEW q,
           SameLevel(P, Q, s, r), Done(e, i, q) = Done(e, i, p),
           Tag(t, i) = "struct" => Met(e, i, q) = Met(e, i, p) /\ Full(t, e, i, q) = Full(t, e, i, p),
           Level(P, t, e, f, i, s, p)
    PROVE  Level(Q, t, e, f, i, r, q)
<1>1. Tag(t, i) \in Carriers(Q.kind) => Carrying(Q, t, e, f, i, r, q)
    BY DEF SameLevel, Level, Carrying, Given
<1>2. Tag(t, i) = "data" => Collecting(Q, e, f, i, r, q)
    <2>1. ASSUME Tag(t, i) = "data" PROVE Collecting(Q, e, f, i, r, q)
        <3>1. Collecting(P, e, f, i, s, p)  BY <2>1 DEF Level
        <3>2. PICK x : x = Items(e, f, i, Cardinality(Done(e, i, p)))  OBVIOUS
        <3> QED  BY <3>1, <3>2 DEF Collecting, SameLevel
    <2> QED  BY <2>1
<1>3. Tag(t, i) = "struct" => Structured(Q, t, e, f, i, r, q)
    BY DEF SameLevel, Level, Structured
<1>4. Tag(t, i) = "member" => Joining(Q, t, e, f, i, r, q)
    <2>1. ASSUME Tag(t, i) = "member" PROVE Joining(Q, t, e, f, i, r, q)
        <3>1. Joining(P, t, e, f, i, s, p)  BY <2>1 DEF Level
        <3>2. \A tag : HasDone(t, e, i, q, tag) = HasDone(t, e, i, p, tag)  BY DEF HasDone
        <3> QED  BY <3>1, <3>2 DEF Joining, SameLevel
    <2> QED  BY <2>1
<1>5. Q.kind = P.kind /\ r.st = s.st /\ r.ptr = s.ptr  BY DEF SameLevel
<1>6. Tag(t, i) \notin Carriers(Q.kind) \cup {"data", "struct", "member"} => r.ptr = 0
    BY <1>5 DEF Level
<1> QED  BY <1>1, <1>2, <1>3, <1>4, <1>5, <1>6 DEF Level

(* The states of a parser point to values, and two of them to the same one *)
(* only if it is a struct and its member.                                  *)
LEMMA StatePoints ==
    ASSUME NEW P, Good(P), NEW k \in 1..Len(P.stack)
    PROVE  /\ P.stack[k] \in State
           /\ P.stack[k].ptr # 0 => P.stack[k].ptr \in Alive(P) /\ P.stack[k].ptr \in DOMAIN P.heap
           /\ P.stack[k].mem # 0 => P.stack[k].mem \in Alive(P) /\ P.stack[k].mem \in DOMAIN P.heap
<1>1. P.stack[k] \in State  BY StackOps DEF Good
<1>2. P.stack[k].ptr \in Alive(P) \cup {0} /\ P.stack[k].mem \in Alive(P) \cup {0}
    BY DEF Good, Healthy, Owned, Pointing
<1>3. Alive(P) \subseteq DOMAIN P.heap  BY HeapOf DEF Good
<1> QED  BY <1>1, <1>2, <1>3

LEMMA LevelLeft ==
    ASSUME NEW P, Good(P), NEW Q, NEW c, Leaves(P, Q, c), Q.kind = P.kind,
           NEW k \in 1..Len(P.stack), Q.stack[k] = P.stack[k],
           c = 0 \/ (P.stack[k].ptr # c /\ P.stack[k].mem # c)
    PROVE  SameLevel(P, Q, P.stack[k], Q.stack[k])
<1>1. PICK s : s = P.stack[k]  OBVIOUS
<1>2. s.ptr # 0 => s.ptr \in DOMAIN P.heap  BY <1>1, StatePoints
<1>3. s.mem # 0 => s.mem \in DOMAIN P.heap  BY <1>1, StatePoints
<1> QED  BY <1>1, <1>2, <1>3 DEF Leaves, SameLevel

(* A state for an element that has just been opened. *)
LEMMA NothingDone ==
    ASSUME NEW e, NEW len, Tree(e, len), NEW j \in DOMAIN e
    PROVE  Done(e, j, j) = {} /\ Met(e, j, j) = {}
<1>1. ASSUME NEW k \in Parts(e, j) PROVE ~(e[k] <= j) /\ ~(k <= j)
    <2>1. k \in DOMAIN e /\ j < k  BY PartFacts
    <2>2. k \in Nat /\ j \in Nat /\ e[k] \in Nat /\ k < e[k]  BY <2>1, Places
    <2> QED  BY <2>1, <2>2
<1> QED  BY <1>1 DEF Done, Met

LEMMA LevelStarts ==
    ASSUME NEW P, NEW t, NEW e, NEW f, NEW len, Tree(e, len), NEW j \in DOMAIN e, NEW s,
           s.st = StateOf(Tag(t, j)), s.ptr = 0 \/ Tag(t, j) = "member",
           s.prev = "eUnknown", s.name = <<>>, s.mem = 0
    PROVE  Level(P, t, e, f, j, s, j)
<1>1. Done(e, j, j) = {} /\ Met(e, j, j) = {}  BY NothingDone
<1>2. PICK tag : tag = Tag(t, j)  OBVIOUS
<1>3. tag \in Carriers(P.kind) => tag # "member"  BY DEF Carriers
<1>4. tag \in Carriers(P.kind) => Carrying(P, t, e, f, j, s, j)  BY <1>1, <1>2, <1>3 DEF Carrying
<1>5. tag = "data" => Collecting(P, e, f, j, s, j)
    <2>1. PICK x : x = Items(e, f, j, Cardinality(Done(e, j, j)))  OBVIOUS
    <2> QED  BY <1>1, <1>2, <2>1 DEF Collecting
<1>6. tag = "struct" => Structured(P, t, e, f, j, s, j)  BY <1>1, <1>2 DEF Structured
<1>7. tag = "member" => Joining(P, t, e, f, j, s, j)
    <2>1. \A b : ~HasDone(t, e, j, j, b)  BY <1>1 DEF HasDone
    <2> QED  BY <2>1 DEF Joining
<1>8. s.st = StateOf(tag) /\ (tag = "member" \/ s.ptr = 0)  BY <1>2
<1> QED  BY <1>2, <1>4, <1>5, <1>6, <1>7, <1>8 DEF Level

-----------------------------------------------------------------------------
(***************************************************************************)
(* An opening tag.                                                         *)
(***************************************************************************)
SameGiven(t, e, p, q) ==
    /\ ParamsDone(t, e, q) = ParamsDone(t, e, p)
    /\ \A i \in MethodNames(t) : e[i] <= q <=> e[i] <= p
    /\ Done(e, 0, q) = Done(e, 0, p)

LEMMA GatheredKept ==
    ASSUME NEW P, NEW Q, NEW t, NEW e, NEW f, NEW p, NEW q,
           Q.kind = P.kind, Q.call = P.call, Q.mvalue = P.mvalue,
           SameGiven(t, e, p, q), Gathered(P, t, e, f, p)
    PROVE  Gathered(Q, t, e, f, q)
<1>1. PICK D : D = ParamsDone(t, e, p)  OBVIOUS
<1>2. ParamsDone(t, e, q) = D  BY <1>1 DEF SameGiven
<1>3. PICK l : l = ParamList(t, f, Cardinality(D))  OBVIOUS
<1>4. ASSUME P.kind = "call"
      PROVE  /\ Q.call = MethodCall(Q.call.name, l)
             /\ \A i \in MethodNames(t) : Q.call.name = IF e[i] <= q THEN TextIn(t, e, i) ELSE <<>>
             /\ MethodNames(t) = {} => Q.call.name = <<>>
    <2>1. P.call = MethodCall(P.call.name, l)  BY <1>1, <1>3, <1>4 DEF Gathered
    <2>2. ASSUME NEW i \in MethodNames(t)
          PROVE  Q.call.name = IF e[i] <= q THEN TextIn(t, e, i) ELSE <<>>
        <3>1. P.call.name = IF e[i] <= p THEN TextIn(t, e, i) ELSE <<>>  BY <1>4 DEF Gathered
        <3>2. e[i] <= q <=> e[i] <= p  BY DEF SameGiven
        <3>3. PICK x : x = TextIn(t, e, i)  OBVIOUS
        <3> QED  BY <3>1, <3>2, <3>3
    <2>3. MethodNames(t) = {} => P.call.name = <<>>  BY <1>4 DEF Gathered
    <2> QED  BY <2>1, <2>2, <2>3
<1>5. P.kind = "response" =>
        /\ Done(e, 0, q) = {} => Q.mvalue = Void
        /\ \A j \in Done(e, 0, q) : Q.mvalue = f[j]
    BY DEF Gathered, SameGiven
<1> QED  BY <1>1, <1>2, <1>3, <1>4, <1>5 DEF Gathered

(* Nothing closes. *)
LEMMA GivenSame ==
    ASSUME NEW kind, NEW t, NEW e, NEW f, IsDocument(kind, t, e, f), NEW p \in Nat,
           \A i \in DOMAIN e : e[i] # p + 1
    PROVE  SameGiven(t, e, p, p + 1)
<1>1. Tree(e, Len(t)) /\ Len(t) \in Nat  BY DocTree
<1>2. ASSUME NEW i \in DOMAIN e PROVE e[i] <= p + 1 <=> e[i] <= p
    <2>1. e[i] \in Nat  BY <1>1, Places
    <2> QED  BY <2>1
<1>3. Openings(t) \subseteq DOMAIN e  BY DEF IsDocument
<1>4. ParamsDone(t, e, p + 1) = ParamsDone(t, e, p)  BY <1>2, <1>3, Zenon DEF ParamsDone, Params
<1>5. \A i \in MethodNames(t) : e[i] <= p + 1 <=> e[i] <= p  BY <1>2, <1>3 DEF MethodNames
<1>6. Done(e, 0, p + 1) = Done(e, 0, p)  BY <1>1, DoneSame
<1> QED  BY <1>4, <1>5, <1>6 DEF SameGiven

LEMMA NoMembers ==
    ASSUME NEW t, NEW e, NEW f
    PROVE  StructOf(t, e, f, {}) = Struct(<<>>)
<1>1. {NameIn(t, e, m) : m \in {}} = {}  OBVIOUS
<1>2. PICK g : g = [n \in {NameIn(t, e, m) : m \in {}} |->
                        f[PartWith(t, e, FirstNamed(t, e, {}, n), "value")]]
    OBVIOUS
<1>3. g = [n \in DOMAIN g |-> g[n]] /\ DOMAIN g = {}  BY <1>1, <1>2, Zenon
<1>4. g = <<>>  BY <1>3
<1> QED  BY <1>2, <1>4 DEF StructOf

(* The branch grows, the states below the top one know as much as before. *)
LEMMA LowerLevels ==
    ASSUME NEW kind, NEW t, NEW e, NEW f, IsDocument(kind, t, e, f),
           NEW P, Good(P), P.kind = kind, NEW at, NEW n \in Nat, NEW p \in Nat,
           Branch(e, at, n + 1, p), Len(P.stack) = n + 1, p + 1 \in DOMAIN e,
           \A k \in 1..n + 1 : Level(P, t, e, f, at[k], P.stack[k], p),
           NEW Q, Leaves(P, Q, 0), Q.kind = kind, NEW k \in 1..n + 1,
           Q.stack[k] = P.stack[k], k = n + 1 => Tag(t, at[k]) # "struct"
    PROVE  Level(Q, t, e, f, at[k], Q.stack[k], p + 1)
<1>1. Tree(e, Len(t)) /\ Len(t) \in Nat  BY DocTree
<1>2. p + 1 \in Parts(e, at[n + 1])  BY <1>1, BranchOpens
<1>3. at[k] \in DOMAIN e /\ at[n + 1] \in DOMAIN e  BY DEF Branch
<1>4. \A j \in DOMAIN e : e[j] # p + 1  BY <1>1 DEF Tree
<1>5. Done(e, at[k], p + 1) = Done(e, at[k], p)
      /\ Full(t, e, at[k], p + 1) = Full(t, e, at[k], p)
    BY <1>1, <1>4, DoneSame
<1>6. ASSUME k # n + 1 PROVE Met(e, at[k], p + 1) = Met(e, at[k], p)
    <2>1. at[k] < at[n + 1]  BY <1>6 DEF Branch
    <2>2. at[k] \in Nat /\ at[n + 1] \in Nat  BY <1>1, <1>3, Places
    <2>3. at[k] # at[n + 1]  BY <2>1, <2>2
    <2>4. p + 1 \notin Parts(e, at[k])  BY <1>1, <1>2, <1>3, <2>3, OneParent
    <2> QED  BY <1>1, <2>4, MetSame
<1>7. SameLevel(P, Q, P.stack[k], Q.stack[k])  BY LevelLeft
<1> QED  BY <1>5, <1>6, <1>7, LevelKept

Pushed(P, Q, s) == \E R \in {P, [P EXCEPT !.complete = FALSE]} : Q = Push(R, s)

LEMMA PushedIs ==
    ASSUME NEW P, IsParser(P), NEW s \in State, NEW Q, Pushed(P, Q, s)
    PROVE  /\ Leaves(P, Q, 0) /\ Alive(Q) = Alive(P)
           /\ Q.kind = P.kind /\ Q.ignored = P.ignored /\ Q.thrown = P.thrown
           /\ Stacked(P, Q, Len(P.stack), s)
<1>1. PICK R \in {P, [P EXCEPT !.complete = FALSE]} : Q = Push(R, s)  BY DEF Pushed
<1>2. /\ IsParser(R) /\ R.stack = P.stack /\ R.heap = P.heap /\ R.kind = P.kind
      /\ R.call = P.call /\ R.mvalue = P.mvalue /\ R.ignored = P.ignored
      /\ R.thrown = P.thrown
    BY DEF IsParser, Fields
<1>3. IsParser(Q) /\ Like(R, Q) /\ SameHeap(R, Q) /\ Stacked(R, Q, Len(P.stack), s)
    BY <1>1, <1>2, PushOp
<1>4. Leaves(R, Q, 0) /\ Alive(Q) = Alive(R)  BY <1>1, <1>2, PushLeaves
<1>5. Leaves(P, Q, 0) /\ Alive(Q) = Alive(P)
    BY <1>2, <1>4 DEF Leaves, Alive, Leaked
<1> QED  BY <1>2, <1>3, <1>5 DEF Like, Stacked

(* What startElement does with a tag that the grammar allows. *)
LEMMA OpensWell ==
    ASSUME NEW P, Good(P), NEW n \in Nat, Len(P.stack) = n + 1, NEW a, NEW b,
           P.stack[n + 1].st = StateOf(a), <<a, b>> \in Contents(P.kind)
    PROVE  LET Q == startElement(P, b)
           IN  /\ StateOf(b) \in StateNames /\ b # ""
               /\ b = "member" => Q = NewMember(P)
               /\ b # "member" => Pushed(P, Q, ValueState(StateOf(b)))
<1>1. P.kind \in Kinds  BY KindOf DEF Good
<1>2. PICK st : st = StateOf(b)  OBVIOUS
<1>3. PICK S : S = {o \in Opens(P.kind) : o[1] = StateOf(a) /\ o[2] = b}  OBVIOUS
<1>4. S # {} /\ (CHOOSE o \in S : TRUE)[3] = st  BY <1>1, <1>2, <1>3, OneTransition
<1>5. getTopState(P).st = StateOf(a)  BY TopOf DEF Good
<1>6. b \in Tags  BY <1>1, ContentsOpen
<1>7. st \in StateNames
    <2>1. (CHOOSE o \in S : TRUE) \in S  BY <1>4
    <2>2. PICK o : o = CHOOSE x \in S : TRUE  OBVIOUS
    <2>3. o \in Opens(P.kind) /\ o[3] = st  BY <1>3, <1>4, <2>1, <2>2
    <2> QED  BY <1>1, <2>3, OpensFacts DEF LegalStep, LegalPair
<1>8. startElement(P, b)
        = CASE S = {} /\ P.kind = "value" -> Throw(P, "XmlException")
            [] S = {} /\ P.kind # "value" -> [P EXCEPT !.ignored = @ + 1]
            [] S # {} /\ st = "eMember" -> NewMember(P)
            [] S # {} /\ st \in {"eMethodCall", "eMethodResponse"} ->
                Push([P EXCEPT !.complete = FALSE], ValueState(st))
            [] OTHER -> Push(P, ValueState(st))
    BY <1>3, <1>4, <1>5, Zenon DEF startElement
<1>9. st = "eMember" <=> b = "member"
    <2>1. StateOf("member") = "eMember"  BY StatesOf
    <2>2. "member" \in Tags  BY DEF Tags
    <2>3. StateOf(b) = StateOf("member") => b = "member"  BY <1>6, <2>2, StatesDiffer
    <2> QED  BY <1>2, <2>1, <2>3
<1>10. b # ""  BY <1>6 DEF Tags
<1>11. PICK q, r : q = NewMember(P) /\ r = ValueState(st)  OBVIOUS
<1>12. PICK P1 : P1 = [P EXCEPT !.complete = FALSE]  OBVIOUS
<1>13. PICK Q, Q1 : Q = Push(P, r) /\ Q1 = Push(P1, r)  OBVIOUS
<1>14. startElement(P, b)
        = CASE st = "eMember" -> q
            [] st # "eMember" /\ st \in {"eMethodCall", "eMethodResponse"} -> Q1
            [] OTHER -> Q
    BY <1>4, <1>8, <1>11, <1>12, <1>13
<1> QED  BY <1>2, <1>7, <1>9, <1>10, <1>11, <1>12, <1>13, <1>14 DEF Pushed

(* The first member of a struct brings the struct with it. *)
LEMMA FirstMember ==
    ASSUME NEW P, Good(P), NEW n \in Nat, Len(P.stack) = n + 1, P.stack[n + 1].st = "eStruct"
    PROVE  LET Q == NewMember(P)
               s == Q.stack[n + 1]
           IN  \E x \in Nat \ {0} :
                /\ Leaves(P, Q, 0) /\ Q.ignored = P.ignored /\ Q.thrown = P.thrown
                /\ Len(Q.stack) = n + 2
                /\ \A k \in 1..n : Q.stack[k] = P.stack[k]
                /\ s.st = "eStruct" /\ s.ptr = x
                /\ Q.stack[n + 2] = MemberState(x)
                /\ P.stack[n + 1].ptr # 0 =>
                    s = P.stack[n + 1] /\ Alive(Q) = Alive(P)
                /\ P.stack[n + 1].ptr = 0 =>
                    /\ Q.heap[x].val = Struct(<<>>)
                    /\ \A h \in Alive(Q) : h \in Alive(P) \/ h = x
<1>1. PICK top : top = P.stack[n + 1]  OBVIOUS
<1>2. getTopState(P) = top /\ IsParser(P)  BY <1>1, TopOf DEF Good
<1>3. top \in State /\ top.ptr \in Nat  BY <1>1, TopFacts DEF State
<1>4. PICK r : r = New(P, Struct(<<>>))  OBVIOUS
<1>5. PICK x : x = NewPtr(P)  OBVIOUS
<1>6. PICK del \in BOOLEAN : del = FALSE  OBVIOUS
<1>7. PICK q : q = IF top.ptr = 0 THEN takeValue(r, x, del) ELSE P  OBVIOUS
<1>8. NewMember(P) = Push(q, MemberState(getTopState(q).ptr))
    BY <1>2, <1>4, <1>5, <1>6, <1>7 DEF NewMember
<1>9. PICK Q : Q = NewMember(P)  OBVIOUS
<1>10. ASSUME IsParser(q), Len(q.stack) = n + 1, NEW y, y = q.stack[n + 1].ptr, y \in Nat
       PROVE  /\ Leaves(q, Q, 0) /\ Like(q, Q) /\ Q.heap = q.heap /\ Alive(Q) = Alive(q)
              /\ Stacked(q, Q, n + 1, MemberState(y))
    <2>1. getTopState(q).ptr = y  BY <1>10, TopOf
    <2>2. PICK s : s = MemberState(y)  OBVIOUS
    <2>3. s \in State  BY <1>10, <2>2, NewMemberState
    <2>4. Q = Push(q, s)  BY <1>8, <1>9, <2>1, <2>2
    <2> QED  BY <1>10, <2>2, <2>3, <2>4, PushOp, PushLeaves
<1>11. CASE top.ptr # 0
    <2>1. q = P  BY <1>7, <1>11
    <2>2. PICK y : y = top.ptr  OBVIOUS
    <2>3. /\ Leaves(P, Q, 0) /\ Like(P, Q) /\ Alive(Q) = Alive(P)
          /\ Stacked(P, Q, n + 1, MemberState(y))
        BY <1>1, <1>2, <1>3, <1>10, <2>1, <2>2
    <2> QED  BY <1>1, <1>3, <1>9, <1>11, <2>2, <2>3 DEF Stacked, Like
<1>12. CASE top.ptr = 0
    <2>1. /\ IsParser(r) /\ SameStack(P, r) /\ x \in Nat \ {0}
          /\ Leaves(P, r, 0) /\ r.heap[x].val = Struct(<<>>) /\ Alive(r) = Alive(P) \cup {x}
        BY <1>2, <1>4, <1>5, NewOp, NewLeaves
    <2>2. Len(r.stack) = n + 1 /\ r.stack[n + 1] = top  BY <1>1, <2>1 DEF SameStack
    <2>3. getTopState(r) = top  BY <2>1, <2>2, TopOf
    <2>4. PICK s : s = [top EXCEPT !.ptr = x, !.del = del]  OBVIOUS
    <2>5. s \in State /\ s.ptr = x /\ s.st = "eStruct"  BY <1>1, <1>3, <2>1, <2>4 DEF State
    <2>6. q = WithTop(r, s)
        BY <1>1, <1>7, <1>12, <2>3, <2>4 DEF takeValue, StateTakesValue
    <2>7. IsParser(q) /\ Like(r, q) /\ Stacked(r, q, n, s)
        BY <2>1, <2>2, <2>5, <2>6, WithTopOp
    <2>8. Leaves(r, q, 0) /\ Alive(q) = Alive(r) /\ q.heap = r.heap
        BY <2>1, <2>6, TopLeaves
    <2>9. /\ Leaves(q, Q, 0) /\ Like(q, Q) /\ Q.heap = q.heap /\ Alive(Q) = Alive(q)
          /\ Stacked(q, Q, n + 1, MemberState(x))
        BY <1>10, <2>1, <2>5, <2>7 DEF Stacked
    <2>10. Leaves(P, Q, 0)
        <3>1. Leaves(P, q, 0)  BY <2>1, <2>8, LeavesTwice
        <3> QED  BY <2>9, <3>1, LeavesTwice
    <2>11. \A h \in Alive(Q) : h \in Alive(P) \/ h = x  BY <2>1, <2>8, <2>9
    <2>12. Q.heap[x].val = Struct(<<>>)  BY <2>1, <2>8, <2>9
    <2>13. /\ Q.ignored = P.ignored /\ Q.thrown = P.thrown /\ Len(Q.stack) = n + 2
           /\ \A k \in 1..n : Q.stack[k] = P.stack[k]
           /\ Q.stack[n + 1] = s /\ Q.stack[n + 2] = MemberState(x)
        BY <2>1, <2>7, <2>9 DEF Stacked, Like, SameStack
    <2> QED  BY <1>1, <1>9, <1>12, <2>1, <2>5, <2>10, <2>11, <2>12, <2>13
<1> QED  BY <1>11, <1>12

(* A tag opens: the state pushed for it is at the beginning of its element. *)
LEMMA TagOpens ==
    ASSUME NEW kind, NEW t, NEW e, NEW f, IsDocument(kind, t, e, f),
           NEW P, Good(P), P.kind = kind, NEW at, NEW n, NEW p \in Nat,
           Understands(P, t, e, f, at, n, p), p < Len(t), "open" \in DOMAIN t[p + 1]
    PROVE  LET Q == startElement(P, t[p + 1].open)
               longer == [k \in 1..n + 1 |-> IF k <= n THEN at[k] ELSE p + 1]
           IN  /\ Q.thrown = P.thrown
               /\ Understands(Q, t, e, f, longer, n + 1, p + 1)
               /\ Q.stack[n + 1].cdata = <<>>
<1> DEFINE longer == [k \in 1..n + 1 |-> IF k <= n THEN at[k] ELSE p + 1]
<1>1. Tree(e, Len(t)) /\ Len(t) \in Nat  BY DocTree
<1>2. PICK j : j = p + 1  OBVIOUS
<1>3. j \in DOMAIN e /\ j # 0  BY <1>2, TokenIs
<1>4. n \in Nat \ {0} /\ Branch(e, at, n, p) /\ Len(P.stack) = n  BY DEF Understands, Branch
<1>5. Branch(e, longer, n + 1, p + 1) /\ j \in Parts(e, at[n])  BY <1>1, <1>2, <1>3, <1>4, BranchOpens
<1>6. PICK m \in Nat : n = m + 1  BY <1>4
<1>7. at[n] \in DOMAIN e  BY <1>4 DEF Branch
<1>8. PICK a, b : a = Tag(t, at[n]) /\ b = Tag(t, j)  OBVIOUS
<1>9. <<a, b>> \in Contents(kind)  BY <1>5, <1>7, <1>8, PartTag
<1>10. b = t[p + 1].open  BY <1>2, <1>3, <1>8 DEF Tag
<1>11. PICK Q : Q = startElement(P, b)  OBVIOUS
<1>12. \A k \in 1..n : Level(P, t, e, f, at[k], P.stack[k], p)  BY DEF Understands
<1>13. P.stack[n].st = StateOf(a)  BY <1>4, <1>8, <1>12 DEF Level
<1>14. /\ StateOf(b) \in StateNames /\ b # ""
       /\ b = "member" => Q = NewMember(P)
       /\ b # "member" => Pushed(P, Q, ValueState(StateOf(b)))
    BY <1>4, <1>6, <1>9, <1>11, <1>13, OpensWell
<1>22. /\ Branch(e, at, m + 1, p) /\ Len(P.stack) = m + 1 /\ p + 1 \in DOMAIN e
       /\ \A k \in 1..m + 1 : Level(P, t, e, f, at[k], P.stack[k], p)
    BY <1>2, <1>3, <1>4, <1>6, <1>12
<1>15. b = "member" <=> a = "struct"
    <2>1. kind \in Kinds  BY DEF IsDocument
    <2> QED  BY <1>9, <2>1, ContentsAre DEF Scalars
<1>16. \A i \in DOMAIN e : e[i] # p + 1  BY <1>1, <1>2, <1>3 DEF Tree
<1>17. SameGiven(t, e, p, p + 1)  BY <1>16, GivenSame
<1>18. ASSUME Leaves(P, Q, 0), Q.kind = kind, Q.ignored = P.ignored, Len(Q.stack) = n + 1,
              NEW s, Q.stack[n + 1] = s, s.st = StateOf(b), s.ptr = 0 \/ b = "member",
              s.prev = "eUnknown", s.name = <<>>, s.mem = 0, Q.stack[1].del,
              \A k \in 1..m : Q.stack[k] = P.stack[k],
              Level(Q, t, e, f, at[n], Q.stack[n], p + 1),
              ~Nameless(t) => Claimed(Q)
       PROVE  Understands(Q, t, e, f, longer, n + 1, p + 1)
    <2>1. Gathered(Q, t, e, f, p + 1)
        <3>1. Gathered(P, t, e, f, p)  BY DEF Understands
        <3> QED  BY <1>17, <1>18, <3>1, GatheredKept DEF Leaves
    <2>2. Level(Q, t, e, f, j, s, p + 1)  BY <1>1, <1>2, <1>3, <1>8, <1>18, LevelStarts
    <2>3. ASSUME NEW k \in 1..m PROVE Level(Q, t, e, f, at[k], Q.stack[k], p + 1)
        <3>1. \A l \in 1..m : Q.stack[l] = P.stack[l]  BY <1>18
        <3>2. k \in 1..m + 1 /\ k # m + 1 /\ Q.stack[k] = P.stack[k]  BY <1>6, <3>1
        <3> QED  BY <1>18, <1>22, <3>2, LowerLevels
    <2>4. ASSUME NEW k \in 1..n + 1 PROVE Level(Q, t, e, f, longer[k], Q.stack[k], p + 1)
        <3>1. CASE k \in 1..m  BY <1>6, <2>3, <3>1
        <3>2. CASE k = n
            <4>1. longer[k] = at[n]  BY <1>4, <3>2
            <4> QED  BY <1>18, <3>2, <4>1
        <3>3. CASE k = n + 1
            <4>1. longer[k] = j  BY <1>2, <1>4, <3>3
            <4> QED  BY <1>18, <2>2, <3>3, <4>1
        <3> QED  BY <1>4, <1>6, <3>1, <3>2, <3>3
    <2>5. Q.ignored = 0  BY <1>18 DEF Understands
    <2> QED  BY <1>5, <1>18, <2>1, <2>4, <2>5 DEF Understands
<1>19. P.stack[1].del /\ (~Nameless(t) => Claimed(P))  BY DEF Understands
<1>20. CASE b # "member"
    <2>3. PICK s : s = ValueState(StateOf(b))  OBVIOUS
    <2>4. s \in State  BY <1>14, <2>3, NewState
    <2>5. s.st = StateOf(b) /\ s.ptr = 0 /\ s.prev = "eUnknown" /\ s.name = <<>>
          /\ s.mem = 0 /\ s.cdata = <<>>
        BY <2>3 DEF ValueState
    <2>1. Pushed(P, Q, s)  BY <1>14, <1>20, <2>3
    <2>8. /\ Leaves(P, Q, 0) /\ Alive(Q) = Alive(P)
          /\ Q.kind = P.kind /\ Q.ignored = P.ignored /\ Q.thrown = P.thrown
          /\ Stacked(P, Q, n, s)
        BY <1>4, <2>1, <2>4, PushedIs DEF Good
    <2>9. /\ Q.kind = kind /\ Len(Q.stack) = n + 1 /\ Q.stack[n + 1] = s
          /\ \A k \in 1..n : Q.stack[k] = P.stack[k]
        BY <2>8 DEF Stacked
    <2>10. Level(Q, t, e, f, at[n], Q.stack[n], p + 1)
        <3>1. n \in 1..m + 1 /\ Q.stack[n] = P.stack[n] /\ Tag(t, at[n]) # "struct"
            BY <1>4, <1>6, <1>8, <1>15, <1>20, <2>9
        <3> QED  BY <1>22, <2>8, <2>9, <3>1, LowerLevels
    <2>11. ~Nameless(t) => Claimed(Q)
        <3>1. ASSUME Claimed(P) PROVE Claimed(Q)
            <4>1. ASSUME NEW h \in Alive(Q)
                  PROVE  \E k \in 1..Len(Q.stack) : Q.stack[k].ptr = h \/ Q.stack[k].mem = h
                <5>1. PICK k \in 1..n : P.stack[k].ptr = h \/ P.stack[k].mem = h
                    BY <1>4, <2>8, <3>1 DEF Claimed
                <5>2. Q.stack[k].ptr = h \/ Q.stack[k].mem = h  BY <2>9, <5>1
                <5>3. k \in 1..Len(Q.stack)  BY <1>4, <2>9
                <5> QED  BY <5>2, <5>3
            <4> QED  BY <4>1 DEF Claimed
        <3> QED  BY <1>19, <3>1
    <2>12. Q.stack[1].del
        <3>1. Q.stack[1] = P.stack[1]  BY <1>4, <2>9
        <3> QED  BY <1>19, <3>1
    <2>13. Understands(Q, t, e, f, longer, n + 1, p + 1)
        <3>1. \A k \in 1..m : Q.stack[k] = P.stack[k]  BY <1>6, <2>9
        <3> QED  BY <1>18, <2>5, <2>8, <2>9, <2>10, <2>11, <2>12, <3>1
    <2> QED  BY <1>10, <1>11, <2>5, <2>8, <2>9, <2>13
<1>21. CASE b = "member"
    <2>1. Q = NewMember(P) /\ a = "struct"  BY <1>14, <1>15, <1>21
    <2>2. P.stack[n].st = "eStruct"  BY <1>13, <2>1, StatesOf
    <2>19. PICK s : s = Q.stack[m + 1]  OBVIOUS
    <2>3. PICK x \in Nat \ {0} :
                /\ Leaves(P, Q, 0) /\ Q.ignored = P.ignored /\ Q.thrown = P.thrown
                /\ Len(Q.stack) = m + 2
                /\ \A k \in 1..m : Q.stack[k] = P.stack[k]
                /\ Q.stack[m + 1] = s /\ s.st = "eStruct" /\ s.ptr = x
                /\ Q.stack[m + 2] = MemberState(x)
                /\ P.stack[m + 1].ptr # 0 =>
                    s = P.stack[m + 1] /\ Alive(Q) = Alive(P)
                /\ P.stack[m + 1].ptr = 0 =>
                    /\ Q.heap[x].val = Struct(<<>>)
                    /\ \A h \in Alive(Q) : h \in Alive(P) \/ h = x
        BY SMTT(30), <1>4, <1>6, <2>1, <2>2, <2>19, FirstMember
    <2>4. PICK r : r = MemberState(x)  OBVIOUS
    <2>5. r.st = StateOf(b) /\ r.prev = "eUnknown" /\ r.name = <<>> /\ r.mem = 0 /\ r.cdata = <<>>
        BY <1>21, <2>4, StatesOf DEF MemberState, ValueState
    <2>6. Q.kind = kind
        <3>1. \E o \in Opens(P.kind) : o[1] = P.stack[m + 1].st /\ o[3] = "eMember"
            <4>1. <<StateOf(a), b, StateOf(b)>> \in Opens(kind)
                BY <1>9, ContentsOpen DEF IsDocument
            <4> QED  BY <1>6, <1>13, <1>21, <4>1, StatesOf
        <3> QED  BY <1>4, <1>6, <2>1, <3>1, MemberBegins DEF Begun
    <2>7. Q.stack[n + 1] = r  BY <1>6, <2>3, <2>4
    <2>8. m # 0
        <3>1. at[1] = 0  BY <1>4 DEF Branch
        <3>2. Tag(t, at[1]) = ""  BY <3>1 DEF Tag
        <3>3. m = 0 => n = 1  BY <1>6
        <3> QED  BY <1>8, <2>1, <3>2, <3>3
    <2>9. Q.stack[1].del  BY <1>19, <2>3, <2>8
    <2>10. PICK old : old = P.stack[n]  OBVIOUS
    <2>11. PICK F : F = Full(t, e, at[n], p)  OBVIOUS
    <2>12. Full(t, e, at[n], p + 1) = F  BY <1>1, <1>16, <2>11, DoneSame
    <2>13. PICK w : w = StructOf(t, e, f, F)  OBVIOUS
    <2>14. /\ Met(e, at[n], p) = {} => old.ptr = 0
           /\ Met(e, at[n], p) # {} => old.ptr # 0 /\ P.heap[old.ptr].val = w
        <3>1. Level(P, t, e, f, at[n], old, p)  BY <1>4, <1>12, <2>10
        <3> QED  BY <1>8, <2>1, <2>11, <2>13, <3>1 DEF Level, Structured
    <2>15. Q.heap[x].val = w
        <3>1. CASE old.ptr # 0
            <4>1. old.ptr = x /\ P.heap[x].val = w  BY <1>6, <2>3, <2>10, <2>14, <3>1
            <4>2. x \in DOMAIN P.heap  BY <1>4, <2>10, <3>1, <4>1, StatePoints
            <4> QED  BY <2>3, <4>1, <4>2 DEF Leaves
        <3>2. CASE old.ptr = 0
            <4>1. Met(e, at[n], p) = {}  BY <2>14, <3>2
            <4>2. F = {}
                <5>1. ASSUME NEW q \in F PROVE FALSE
                    <6>1. q \in Parts(e, at[n]) /\ Counts(t, e, q)
                          /\ \A k \in Parts(e, q) : e[k] <= p
                        BY <2>11, <5>1 DEF Full
                    <6>2. PICK k \in Parts(e, q) : Tag(t, k) = "name"
                        BY <6>1 DEF Counts, HasPart
                    <6>3. q \in DOMAIN e /\ k \in DOMAIN e /\ q < k  BY <6>1, <6>2, PartFacts
                    <6>4. q \in Nat /\ k \in Nat /\ k < e[k] /\ e[k] \in Nat /\ e[k] <= p
                        BY <1>1, <6>1, <6>2, <6>3, Places
                    <6>5. q <= p  BY <6>3, <6>4
                    <6> QED  BY <4>1, <6>1, <6>5 DEF Met
                <5> QED  BY <5>1
            <4>3. w = Struct(<<>>)  BY <2>13, <4>2, NoMembers
            <4> QED  BY <1>6, <2>3, <2>10, <3>2, <4>3
        <3> QED  BY <3>1, <3>2
    <2>16. Level(Q, t, e, f, at[n], Q.stack[n], p + 1)
        <3>1. Structured(Q, t, e, f, at[n], s, p + 1)
            <4>1. j \in Met(e, at[n], p + 1)  BY <1>2, <1>5 DEF Met
            <4> QED  BY <2>3, <2>12, <2>13, <2>15, <4>1 DEF Structured
        <3>2. s.st = StateOf("struct")  BY <2>3, StatesOf
        <3>3. "struct" \notin Carriers(Q.kind)  BY DEF Carriers
        <3> QED  BY <1>6, <1>8, <2>1, <2>3, <3>1, <3>2, <3>3 DEF Level
    <2>17. ~Nameless(t) => Claimed(Q)
        <3>1. ASSUME Claimed(P), NEW h \in Alive(Q)
              PROVE  \E k \in 1..Len(Q.stack) : Q.stack[k].ptr = h \/ Q.stack[k].mem = h
            <4>1. CASE h = x  BY <1>6, <2>3, <4>1
            <4>2. CASE h # x
                <5>1. h \in Alive(P)  BY <2>3, <4>2
                <5>2. PICK k \in 1..n : P.stack[k].ptr = h \/ P.stack[k].mem = h
                    BY <1>4, <3>1, <5>1 DEF Claimed
                <5>3. CASE k \in 1..m
                    <6>1. Q.stack[k] = P.stack[k]  BY <2>3, <5>3
                    <6>2. k \in 1..Len(Q.stack)  BY <2>3, <5>3
                    <6> QED  BY <5>2, <6>1, <6>2
                <5>4. CASE k = n
                    <6>1. h # 0  BY <5>1, HeapOf DEF Good
                    <6>2. P.stack[m + 1].mem = 0
                        BY <1>4, <1>6, <2>2, TopFacts
                    <6>3. old.ptr = h  BY <1>6, <2>10, <5>2, <5>4, <6>1, <6>2
                    <6>4. s = old  BY <1>6, <2>3, <2>10, <6>1, <6>3
                    <6> QED  BY <1>6, <2>3, <5>1, <6>1, <6>3, <6>4
                <5> QED  BY <1>6, <5>3, <5>4
            <4> QED  BY <4>1, <4>2
        <3> QED  BY <1>19, <3>1 DEF Claimed
    <2>18. Understands(Q, t, e, f, longer, n + 1, p + 1)
        BY <1>6, <1>18, <1>21, <2>3, <2>5, <2>6, <2>7, <2>9, <2>16, <2>17
    <2> QED  BY <1>10, <1>11, <2>3, <2>5, <2>7, <2>18
<1> QED  BY <1>20, <1>21

-----------------------------------------------------------------------------
(***************************************************************************)
(* A closing tag: R is the parser without the state of the element j that  *)
(* closes, m + 1 is the level of its parent.                               *)
(***************************************************************************)
ClaimedBut(P, x) ==
    \A h \in Alive(P) :
        h = x \/ \E k \in 1..Len(P.stack) : P.stack[k].ptr = h \/ P.stack[k].mem = h

\* All that Understands says but for what calls and responses are given.
Follows(P, t, e, f, at, n, p) ==
    /\ Branch(e, at, n, p) /\ Len(P.stack) = n
    /\ P.ignored = 0 /\ P.stack[1].del
    /\ \A k \in 1..n : Level(P, t, e, f, at[k], P.stack[k], p)
    /\ ~Nameless(t) => Claimed(P)

Taken(P, Q, t, e, f, at, n, p) ==
    /\ Follows(Q, t, e, f, at, n, p) /\ Result(P, Q)
    /\ Q.call = P.call /\ Q.mvalue = P.mvalue

Resting(R, t, e, f, at, m, p, j) ==
    /\ Good(R) /\ Len(R.stack) = m + 1 /\ Branch(e, at, m + 1, p + 1)
    /\ j \in Parts(e, at[m + 1]) /\ e[j] = p + 1
    /\ R.ignored = 0 /\ R.stack[1].del
    /\ \A k \in 1..m + 1 : Level(R, t, e, f, at[k], R.stack[k], p)

(* r is R with a note of what has been closed. *)
Prepared(R, r, t, m, j) ==
    /\ Good(r) /\ r.kind = R.kind /\ r.ignored = R.ignored
    /\ Len(r.stack) = m + 1 /\ \A k \in 1..m : r.stack[k] = R.stack[k]
    /\ r.stack[m + 1].st = R.stack[m + 1].st /\ r.stack[m + 1].ptr = R.stack[m + 1].ptr
    /\ r.stack[m + 1].name = R.stack[m + 1].name /\ r.stack[m + 1].mem = R.stack[m + 1].mem
    /\ r.stack[m + 1].st = "eValue" => r.stack[m + 1].prev = StateOf(Tag(t, j))
    /\ Leaves(R, r, 0)

(* A value x is what j says. *)
Brings(R, r, x, t, f, m, j) ==
    /\ Prepared(R, r, t, m, j) /\ Free(r, m + 1, x)
    /\ ~Nameless(t) => ClaimedBut(r, x)
    /\ Given(r, t, f, x, j)

LEMMA RestFacts ==
    ASSUME NEW kind, NEW t, NEW e, NEW f, IsDocument(kind, t, e, f), NEW R, NEW at,
           NEW m \in Nat, NEW p \in Nat, NEW j, Resting(R, t, e, f, at, m, p, j)
    PROVE  /\ Tree(e, Len(t)) /\ Len(t) \in Nat /\ j \in DOMAIN e /\ j # 0
           /\ at[m + 1] \in DOMAIN e /\ \A k \in 1..m : at[k] \in DOMAIN e /\ at[k] # at[m + 1]
           /\ <<Tag(t, at[m + 1]), Tag(t, j)>> \in Contents(kind) /\ kind \in Kinds
<1>1. Tree(e, Len(t)) /\ Len(t) \in Nat  BY DocTree
<1>2. j \in DOMAIN e  BY PartFacts DEF Resting
<1>3. at[m + 1] \in DOMAIN e  BY DEF Resting, Branch
<1>4. <<Tag(t, at[m + 1]), Tag(t, j)>> \in Contents(kind) /\ j # 0
    BY <1>3, PartTag DEF Resting
<1>5. ASSUME NEW k \in 1..m PROVE at[k] \in DOMAIN e /\ at[k] # at[m + 1]
    <2>3. k \in 1..m + 1 /\ m + 1 \in 1..m + 1 /\ k < m + 1  OBVIOUS
    <2>4. Branch(e, at, m + 1, p + 1)  BY DEF Resting
    <2>1. at[k] \in DOMAIN e /\ at[k] < at[m + 1]  BY <2>3, <2>4 DEF Branch
    <2>2. at[k] \in Nat /\ at[m + 1] \in Nat  BY <1>1, <1>3, <2>1, Places
    <2> QED  BY <2>1, <2>2
<1> QED  BY <1>1, <1>2, <1>3, <1>4, <1>5 DEF IsDocument

LEMMA LowerCloses ==
    ASSUME NEW kind, NEW t, NEW e, NEW f, IsDocument(kind, t, e, f), NEW R, NEW at,
           NEW m \in Nat, NEW p \in Nat, NEW j, Resting(R, t, e, f, at, m, p, j),
           NEW Q, NEW c, Leaves(R, Q, c), Q.kind = R.kind, NEW k \in 1..m,
           Q.stack[k] = R.stack[k], c = 0 \/ (R.stack[k].ptr # c /\ R.stack[k].mem # c),
           k = m => Tag(t, at[m + 1]) # "member"
    PROVE  Level(Q, t, e, f, at[k], Q.stack[k], p + 1)
<1>1. /\ Tree(e, Len(t)) /\ Len(t) \in Nat /\ j \in DOMAIN e
      /\ at[m + 1] \in DOMAIN e /\ at[k] \in DOMAIN e /\ at[k] # at[m + 1] /\ kind \in Kinds
    BY RestFacts
<1>2. j \in Parts(e, at[m + 1]) /\ e[j] = p + 1  BY DEF Resting
<1>3. j \notin Parts(e, at[k])  BY <1>1, <1>2, OneParent
<1>4. Done(e, at[k], p + 1) = Done(e, at[k], p) /\ Met(e, at[k], p + 1) = Met(e, at[k], p)
    BY <1>1, <1>2, <1>3, DoneCloses
<1>5. ASSUME Tag(t, at[k]) = "struct" PROVE Full(t, e, at[k], p + 1) = Full(t, e, at[k], p)
    <2>1. ASSUME NEW q \in Parts(e, at[k]), j \in Parts(e, q) PROVE FALSE
        <3>1. q \in DOMAIN e  BY PartFacts
        <3>2. q = at[m + 1]  BY <1>1, <1>2, <2>1, <3>1, OneParent
        <3>3. Tag(t, q) = "member"
            <4>1. <<Tag(t, at[k]), Tag(t, q)>> \in Contents(kind)  BY <1>1, PartTag
            <4> QED  BY <1>1, <1>5, <4>1, ContentsAre
        <3>4. k < m  BY <3>2, <3>3
        <3>10. m \in 1..m  BY <3>4
        <3>5. m \in 1..m /\ at[m] \in DOMAIN e  BY <3>10, RestFacts
        <3>6. at[m + 1] \in Parts(e, at[m])
            <4>1. m \in 1..(m + 1) - 1  BY <3>5
            <4> QED  BY <4>1 DEF Resting, Branch
        <3>7. at[k] = at[m]  BY <1>1, <3>2, <3>5, <3>6, OneParent
        <3>8. at[k] < at[m]
            <4>1. k \in 1..m + 1 /\ m \in 1..m + 1  BY <3>5
            <4> QED  BY <3>4, <4>1 DEF Resting, Branch
        <3>9. at[m] \in Nat  BY <1>1, <3>5, Places
        <3> QED  BY <3>7, <3>8, <3>9
    <2>2. \A q \in Parts(e, at[k]) : j \notin Parts(e, q)  BY <2>1
    <2> QED  BY <1>1, <1>2, <2>2, DoneCloses
<1>6. k \in 1..m + 1 /\ k \in 1..Len(R.stack)  BY DEF Resting
<1>7. Level(R, t, e, f, at[k], R.stack[k], p) /\ Good(R)  BY <1>6 DEF Resting
<1>8. SameLevel(R, Q, R.stack[k], Q.stack[k])  BY <1>6, <1>7, LevelLeft
<1> QED  BY <1>4, <1>5, <1>7, <1>8, LevelKept

(* What is left to show when the parent has been given its value. *)
LEMMA ParentCloses ==
    ASSUME NEW kind, NEW t, NEW e, NEW f, IsDocument(kind, t, e, f), NEW R, NEW at,
           NEW m \in Nat, NEW p \in Nat, NEW j, Resting(R, t, e, f, at, m, p, j),
           NEW Q, NEW c, Leaves(R, Q, c), Q.kind = R.kind, Q.ignored = R.ignored,
           Len(Q.stack) = m + 1, \A k \in 1..m : Q.stack[k] = R.stack[k],
           c # 0 => \A k \in 1..m : (k = m /\ Tag(t, at[m + 1]) = "member")
                        \/ (R.stack[k].ptr # c /\ R.stack[k].mem # c),
           Tag(t, at[m + 1]) = "member" => m # 0 /\ Level(Q, t, e, f, at[m], Q.stack[m], p + 1),
           Level(Q, t, e, f, at[m + 1], Q.stack[m + 1], p + 1),
           m = 0 => Q.stack[1].del = TRUE,
           ~Nameless(t) => Claimed(Q)
    PROVE  Follows(Q, t, e, f, at, m + 1, p + 1)
<1>1. ASSUME NEW k \in 1..m + 1 PROVE Level(Q, t, e, f, at[k], Q.stack[k], p + 1)
    <2>1. CASE k = m + 1  BY <2>1
    <2>2. CASE k \in 1..m /\ ~(k = m /\ Tag(t, at[m + 1]) = "member")
        <3>1. c = 0 \/ (R.stack[k].ptr # c /\ R.stack[k].mem # c)  BY <2>2
        <3>2. k \in 1..m /\ Q.stack[k] = R.stack[k]  BY <2>2
        <3>3. k = m => Tag(t, at[m + 1]) # "member"  BY <2>2
        <3> HIDE <2>2
        <3> QED  BY <3>1, <3>2, <3>3, LowerCloses
    <2>3. CASE k = m /\ Tag(t, at[m + 1]) = "member"  BY <2>3
    <2> QED  BY <2>1, <2>2, <2>3
<1>2. Q.stack[1].del
    <2>1. CASE m = 0  BY <2>1
    <2>2. CASE m # 0
        <3>1. Q.stack[1] = R.stack[1]  BY <2>2
        <3>2. R.stack[1].del  BY DEF Resting
        <3> QED  BY <3>1, <3>2
    <2> QED  BY <2>1, <2>2
<1>3. Branch(e, at, m + 1, p + 1) /\ Q.ignored = 0  BY DEF Resting
<1> QED  BY <1>1, <1>2, <1>3 DEF Follows

-----------------------------------------------------------------------------
(***************************************************************************)
(* What carries the value of its only part.                                *)
(***************************************************************************)
HasDoneOnly(e, i, j, p) ==
    /\ Done(e, i, p) = {}
    /\ j \in Done(e, i, p + 1) /\ \A q \in Done(e, i, p + 1) : q = j

LEMMA OnlyDone ==
    ASSUME NEW kind, NEW t, NEW e, NEW f, IsDocument(kind, t, e, f), NEW R, NEW at,
           NEW m \in Nat, NEW p \in Nat, NEW j, Resting(R, t, e, f, at, m, p, j),
           Tag(t, at[m + 1]) \notin Lists(kind) \cup {"member", "methodCall"}
    PROVE  HasDoneOnly(e, at[m + 1], j, p)
<1>1. at[m + 1] \in DOMAIN e  BY RestFacts
<1>2. j \in Parts(e, at[m + 1]) /\ e[j] = p + 1  BY DEF Resting
<1>3. ASSUME NEW q \in Parts(e, at[m + 1]) PROVE q = j  BY <1>1, <1>2, OneChild
<1>4. ASSUME NEW q \in Done(e, at[m + 1], p) PROVE FALSE
    <2>1. q \in Parts(e, at[m + 1]) /\ e[q] <= p  BY DEF Done
    <2>2. q = j  BY <1>3, <2>1
    <2> QED  BY <1>2, <2>1, <2>2
<1> QED  BY <1>2, <1>3, <1>4 DEF Done, HasDoneOnly

LEMMA CarriersAre ==
    ASSUME NEW kind \in Kinds, NEW a \in Carriers(kind)
    PROVE  /\ a \notin Lists(kind) \cup {"member", "methodCall"}
           /\ a \notin {"data", "struct", "member"}
           /\ a \in Tags \cup {""} /\ StateOf(a) # "eMember" /\ StateOf(a) # "eData"
           /\ StateOf(a) = "eValue" <=> a = "value"
<1>1. a \in {"value", "array", "param", "fault", "params", "methodResponse", ""}
    BY DEF Carriers
<1>2. a = "params" => kind = "response"  BY DEF Carriers
<1>3. a \notin Lists(kind)  BY <1>1, <1>2 DEF Lists
<1>4. a \in Tags \cup {""}  BY <1>1 DEF Tags
<1>5. StateOf(a) # "eMember" /\ StateOf(a) # "eData" /\ (StateOf(a) = "eValue" <=> a = "value")
    BY <1>1, StatesOf
<1> QED  BY <1>1, <1>3, <1>4, <1>5

LEMMA CarrierCloses ==
    ASSUME NEW kind, NEW t, NEW e, NEW f, IsDocument(kind, t, e, f), NEW R, R.kind = kind, NEW at,
           NEW m \in Nat, NEW p \in Nat, NEW j, Resting(R, t, e, f, at, m, p, j),
           NEW r, NEW x, Brings(R, r, x, t, f, m, j), Tag(t, at[m + 1]) \in Carriers(kind)
    PROVE  LET Q == StateTakesValue(r, x, TRUE)
           IN  Follows(Q, t, e, f, at, m + 1, p + 1) /\ Result(r, Q) /\ Leaves(r, Q, 0)
<1>1. PICK i, a : i = at[m + 1] /\ a = Tag(t, i)  OBVIOUS
<1>2. PICK Q : Q = StateTakesValue(r, x, TRUE)  OBVIOUS
<1>3. kind \in Kinds  BY DEF IsDocument
<1>4. /\ a \notin Lists(kind) \cup {"member", "methodCall"}
      /\ a \notin {"data", "struct", "member"}
      /\ StateOf(a) # "eMember" /\ StateOf(a) # "eData" /\ (StateOf(a) = "eValue" <=> a = "value")
    BY <1>1, <1>3, CarriersAre
<1>5. /\ Done(e, i, p) = {}
      /\ j \in Done(e, i, p + 1) /\ \A q \in Done(e, i, p + 1) : q = j
    <2>1. Tag(t, at[m + 1]) \notin Lists(kind) \cup {"member", "methodCall"}  BY <1>1, <1>4
    <2>2. HasDoneOnly(e, at[m + 1], j, p)  BY <2>1, OnlyDone
    <2> QED  BY <1>1, <2>2 DEF HasDoneOnly
<1>6. Good(r) /\ Len(r.stack) = m + 1 /\ Free(r, m + 1, x) /\ Given(r, t, f, x, j)
      /\ r.kind = R.kind /\ r.ignored = R.ignored
    BY DEF Brings, Prepared
<1>7. x \in Nat /\ Free(r, m, x)  BY <1>6, FreeLess
<1>8. PICK top : top = r.stack[m + 1]  OBVIOUS
<1>9. Level(R, t, e, f, i, R.stack[m + 1], p)  BY <1>1 DEF Resting
<1>10. top.st = StateOf(a) /\ top.ptr = 0
    <2>1. R.stack[m + 1].st = StateOf(a)  BY <1>1, <1>9 DEF Level
    <2>2. R.stack[m + 1].ptr = 0  BY <1>1, <1>5, <1>9 DEF Level, Carrying
    <2> QED  BY <1>8, <2>1, <2>2 DEF Brings, Prepared
<1>11. PICK del \in BOOLEAN : del = TRUE  OBVIOUS
<1>12. Result(r, Q)  BY <1>2, <1>4, <1>6, <1>7, <1>8, <1>10, <1>11, StateTakes
<1>13. PICK s : s = [top EXCEPT !.ptr = x, !.del = del]  OBVIOUS
<1>14. Stacked(r, Q, m, s) /\ Leaves(r, Q, 0) /\ Alive(Q) = Alive(r) /\ Q.heap = r.heap
    BY <1>2, <1>6, <1>7, <1>8, <1>11, <1>13, StateGets
<1>15. top \in State /\ top.mem = 0  BY <1>4, <1>6, <1>8, <1>10, TopFacts
<1>16. s.st = top.st /\ s.ptr = x /\ s.del = TRUE /\ s.prev = top.prev
    BY <1>11, <1>13, <1>15 DEF State
<1>17. /\ Q.kind = R.kind /\ Q.ignored = R.ignored /\ Len(Q.stack) = m + 1
       /\ \A k \in 1..m : Q.stack[k] = R.stack[k]
       /\ Q.stack[m + 1] = s
    BY <1>6, <1>12, <1>14 DEF Result, Like, Stacked, Brings, Prepared
<1>18. Leaves(R, Q, 0)
    <2>1. Leaves(R, r, 0)  BY DEF Brings, Prepared
    <2> QED  BY <1>14, <2>1, LeavesTwice
<1>19. Level(Q, t, e, f, i, s, p + 1)
    <2>1. Given(Q, t, f, x, j)  BY <1>6, <1>14 DEF Given
    <2>2. a = "value" => s.prev = StateOf(Tag(t, j))
        <3>1. top.st = "eValue" => top.prev = StateOf(Tag(t, j))  BY <1>8 DEF Brings, Prepared
        <3> QED  BY <1>4, <1>10, <1>16, <3>1
    <2>3. Carrying(Q, t, e, f, i, s, p + 1)
        BY <1>1, <1>5, <1>16, <2>1, <2>2 DEF Carrying
    <2>4. s.st = StateOf(Tag(t, i)) /\ Tag(t, i) \in Carriers(Q.kind)
        BY <1>1, <1>10, <1>16, <1>17
    <2> QED  BY <1>1, <1>4, <2>3, <2>4 DEF Level
<1>20. ASSUME ~Nameless(t) PROVE Claimed(Q)
    <2>1. ASSUME NEW h \in Alive(Q)
          PROVE  \E k \in 1..Len(Q.stack) : Q.stack[k].ptr = h \/ Q.stack[k].mem = h
        <3>1. h \in Alive(r) /\ h # 0  BY <1>6, <1>14, HeapOf DEF Good
        <3>2. CASE h = x  BY <1>16, <1>17, <3>2
        <3>3. CASE h # x
            <4>1. ClaimedBut(r, x)  BY <1>20 DEF Brings, Prepared
            <4>2. PICK k \in 1..m + 1 : r.stack[k].ptr = h \/ r.stack[k].mem = h
                BY <1>6, <3>1, <3>3, <4>1 DEF ClaimedBut
            <4>3. k # m + 1  BY <1>8, <1>10, <1>15, <3>1, <4>2
            <4>4. Len(Q.stack) = m + 1 /\ \A l \in 1..m : Q.stack[l] = r.stack[l]
                BY <1>14 DEF Stacked
            <4>5. k \in 1..m  BY <4>2, <4>3
            <4> QED  BY <4>2, <4>4, <4>5
        <3> QED  BY <3>2, <3>3
    <2> QED  BY <2>1 DEF Claimed
<1>21. m = 0 => Q.stack[1].del = TRUE  BY <1>16, <1>17
<1>22. PICK c : c = 0  OBVIOUS
<1>23. Follows(Q, t, e, f, at, m + 1, p + 1)
    BY <1>1, <1>4, <1>17, <1>18, <1>19, <1>20, <1>21, <1>22, ParentCloses
<1> QED  BY <1>2, <1>12, <1>14, <1>23

-----------------------------------------------------------------------------
(***************************************************************************)
(* A struct, whose member has closed.                                      *)
(***************************************************************************)
LEMMA StructCloses ==
    ASSUME NEW kind, NEW t, NEW e, NEW f, IsDocument(kind, t, e, f), NEW R, R.kind = kind, NEW at,
           NEW m \in Nat, NEW p \in Nat, NEW j, Resting(R, t, e, f, at, m, p, j),
           NEW r, Prepared(R, r, t, m, j), Tag(t, at[m + 1]) = "struct",
           ~Nameless(t) => Claimed(r)
    PROVE  LET Q == StateTakesValue(r, R.stack[m + 1].ptr, TRUE)
           IN  Follows(Q, t, e, f, at, m + 1, p + 1) /\ Result(r, Q) /\ Leaves(r, Q, 0)
<1>1. PICK i : i = at[m + 1]  OBVIOUS
<1>2. PICK top, old : top = r.stack[m + 1] /\ old = R.stack[m + 1]  OBVIOUS
<1>3. PICK Q : Q = StateTakesValue(r, old.ptr, TRUE)  OBVIOUS
<1>4. /\ Good(r) /\ Len(r.stack) = m + 1 /\ top.ptr = old.ptr /\ top.st = old.st
      /\ r.kind = R.kind /\ r.ignored = R.ignored
      /\ \A k \in 1..m : r.stack[k] = R.stack[k]
    BY <1>2 DEF Prepared
<1>5. Level(R, t, e, f, i, old, p) /\ Good(R) /\ Len(R.stack) = m + 1
    BY <1>1, <1>2 DEF Resting
<1>6. old.st = "eStruct" /\ Structured(R, t, e, f, i, old, p)
    BY <1>1, <1>5, StatesOf DEF Level
<1>7. top \in State /\ top.ptr \in Nat  BY <1>2, <1>4, TopFacts DEF State
<1>8. PICK del \in BOOLEAN : del = TRUE  OBVIOUS
<1>21. PICK y : y = top.ptr  OBVIOUS
<1>9. PICK s : s = [top EXCEPT !.ptr = y, !.del = del]  OBVIOUS
<1>10. Result(r, Q)
    <2>1. r.stack[m + 1].st # "eMember" /\ top.ptr = r.stack[m + 1].ptr  BY <1>2, <1>4, <1>6
    <2>2. Q = StateTakesValue(r, top.ptr, del)  BY <1>3, <1>4, <1>8
    <2> QED  BY <1>4, <2>1, <2>2, StateTakes
<1>11. Stacked(r, Q, m, s) /\ Leaves(r, Q, 0) /\ Alive(Q) = Alive(r) /\ Q.heap = r.heap
    <2>1. Q = StateTakesValue(r, y, del)  BY <1>3, <1>4, <1>8, <1>21
    <2>2. Good(r) /\ Len(r.stack) = m + 1 /\ y \in Nat  BY <1>4, <1>7, <1>21
    <2>3. s = [r.stack[m + 1] EXCEPT !.ptr = y, !.del = del]  BY <1>2, <1>9
    <2> QED  BY <2>1, <2>2, <2>3, StateGets
<1>12. s.st = "eStruct" /\ s.ptr = old.ptr /\ s.mem = top.mem /\ s.del = TRUE
    BY <1>4, <1>6, <1>7, <1>8, <1>9, <1>21 DEF State
<1>13. /\ Q.kind = R.kind /\ Q.ignored = R.ignored /\ Len(Q.stack) = m + 1
       /\ \A k \in 1..m : Q.stack[k] = R.stack[k]
       /\ Q.stack[m + 1] = s
    BY <1>4, <1>10, <1>11 DEF Result, Like, Stacked
<1>14. Leaves(R, Q, 0)
    <2>1. Leaves(R, r, 0)  BY DEF Prepared
    <2> QED  BY <1>11, <2>1, LeavesTwice
<1>15. Met(e, i, p + 1) = Met(e, i, p) /\ Full(t, e, i, p + 1) = Full(t, e, i, p)
    <2>1. Tree(e, Len(t)) /\ Len(t) \in Nat /\ j \in DOMAIN e /\ i \in DOMAIN e
        BY <1>1, RestFacts
    <2>2. j \in Parts(e, i) /\ e[j] = p + 1  BY <1>1 DEF Resting
    <2>3. ASSUME NEW q \in Parts(e, i) PROVE j \notin Parts(e, q)
        <3>1. q \in DOMAIN e /\ i < q  BY PartFacts
        <3>2. q \in Nat /\ i \in Nat  BY <2>1, <3>1, Places
        <3>3. q # i  BY <3>1, <3>2
        <3> QED  BY <2>1, <2>2, <3>1, <3>3, OneParent
    <2> QED  BY <2>1, <2>2, <2>3, DoneCloses
<1>16. Level(Q, t, e, f, i, s, p + 1)
    <2>1. PICK w : w = StructOf(t, e, f, Full(t, e, i, p))  OBVIOUS
    <2>2. old.ptr # 0 => Q.heap[old.ptr].val = R.heap[old.ptr].val
        <3>1. old.ptr # 0 => old.ptr \in DOMAIN R.heap  BY <1>2, <1>5, StatePoints
        <3> QED  BY <1>14, <3>1 DEF Leaves
    <2>3. /\ Met(e, i, p) = {} => old.ptr = 0
          /\ Met(e, i, p) # {} => old.ptr # 0 /\ R.heap[old.ptr].val = w
        BY <1>6, <2>1 DEF Structured
    <2>4. Structured(Q, t, e, f, i, s, p + 1)
        BY <1>12, <1>15, <2>1, <2>2, <2>3 DEF Structured
    <2>5. "struct" \notin Carriers(Q.kind)  BY DEF Carriers
    <2>6. s.st = StateOf("struct")  BY <1>12, StatesOf
    <2> QED  BY <1>1, <2>4, <2>5, <2>6 DEF Level
<1>17. ASSUME ~Nameless(t) PROVE Claimed(Q)
    <2>1. ASSUME NEW h \in Alive(Q)
          PROVE  \E k \in 1..Len(Q.stack) : Q.stack[k].ptr = h \/ Q.stack[k].mem = h
        <3>1. PICK k \in 1..m + 1 : r.stack[k].ptr = h \/ r.stack[k].mem = h
            BY <1>4, <1>11, <1>17 DEF Claimed
        <3>2. CASE k = m + 1  BY <1>2, <1>4, <1>12, <1>13, <3>1, <3>2
        <3>3. CASE k \in 1..m  BY <1>4, <1>13, <3>1, <3>3
        <3> QED  BY <3>2, <3>3
    <2> QED  BY <2>1 DEF Claimed
<1>18. m = 0 => Q.stack[1].del = TRUE  BY <1>12, <1>13
<1>19. PICK c : c = 0  OBVIOUS
<1>20. Follows(Q, t, e, f, at, m + 1, p + 1)
    BY <1>1, <1>13, <1>14, <1>16, <1>17, <1>18, <1>19, ParentCloses
<1> QED  BY <1>2, <1>3, <1>10, <1>11, <1>20

-----------------------------------------------------------------------------
(***************************************************************************)
(* Lists: what has been done of them grows in their order.                 *)
(***************************************************************************)
DoneOf(S, e, p) == {i \in S : e[i] <= p}

\* j is the next of S that is done.
DoneNext(S, e, p, j) ==
    /\ Cardinality(DoneOf(S, e, p)) \in Nat
    /\ Cardinality(DoneOf(S, e, p + 1)) = Cardinality(DoneOf(S, e, p)) + 1
    /\ InOrder(S)[Cardinality(DoneOf(S, e, p)) + 1] = j

LEMMA NextDone ==
    ASSUME NEW e, NEW len, Tree(e, len), NEW S, S \subseteq DOMAIN e,
           \A a, b \in S : a # b => e[a] < b \/ e[b] < a,
           NEW p \in Nat, NEW j \in S, e[j] = p + 1
    PROVE  DoneNext(S, e, p, j)
<1>1. PICK D : D = DoneOf(S, e, p)  OBVIOUS
<1>2. IsFiniteSet(S) /\ S \subseteq Nat
    <2>1. DOMAIN e \subseteq Nat /\ IsFiniteSet(DOMAIN e)  BY PartsFinite
    <2> QED  BY <2>1, FS_Subset
<1>3. ASSUME NEW i \in S PROVE i \in Nat /\ e[i] \in Nat /\ i < e[i]
    <2>1. i \in DOMAIN e  OBVIOUS
    <2> QED  BY <2>1, Places
<1>4. D \in SUBSET S /\ j \in S \ D  BY <1>1, <1>3 DEF DoneOf
<1>5. ASSUME NEW d \in D PROVE d < j
    <2>1. d \in S /\ e[d] <= p /\ d # j  BY <1>1, <1>4 DEF DoneOf
    <2>2. e[d] < j \/ e[j] < d  BY <2>1
    <2> QED  BY <1>3, <2>1, <2>2
<1>6. ASSUME NEW i \in S \ D PROVE j <= i
    <2>1. CASE i = j  BY <1>3, <2>1
    <2>2. CASE i # j
        <3>1. e[i] # e[j]  BY <2>2, EndsApart
        <3>2. ~(e[i] <= p)  BY <1>1 DEF DoneOf
        <3>3. e[i] < j \/ e[j] < i  BY <2>2
        <3>4. e[j] < e[i]  BY <1>3, <3>1, <3>2
        <3> QED  BY <1>3, <3>3, <3>4
    <2> QED  BY <2>1, <2>2
<1>7. DoneOf(S, e, p + 1) = D \cup {j}
    <2>1. ASSUME NEW i \in S, e[i] <= p + 1, i \notin D PROVE i = j
        <3>1. ~(e[i] <= p)  BY <1>1, <2>1 DEF DoneOf
        <3>2. e[i] = e[j]  BY <1>3, <2>1, <3>1
        <3> QED  BY <3>2, EndsApart
    <2>2. ASSUME NEW i \in D PROVE i \in S /\ e[i] <= p + 1
        <3>1. i \in S /\ e[i] <= p  BY <1>1 DEF DoneOf
        <3> QED  BY <1>3, <3>1
    <2>3. e[j] <= p + 1  BY <1>3
    <2> QED  BY <2>1, <2>2, <2>3 DEF DoneOf
<1>8. /\ Cardinality(D) \in Nat /\ Cardinality(D \cup {j}) = Cardinality(D) + 1
      /\ InOrder(S)[Cardinality(D) + 1] = j
    BY <1>2, <1>4, <1>5, <1>6, InOrderNext
<1> QED  BY <1>1, <1>7, <1>8 DEF DoneNext

Picked(f, o, n) == [k \in 1..n |-> f[o[k]]]

LEMMA ListGrows ==
    ASSUME NEW f, NEW o, NEW n \in Nat, NEW j, o[n + 1] = j
    PROVE  Append(Picked(f, o, n), f[j]) = Picked(f, o, n + 1)
<1>2. PICK s, l : s = [k \in 1..n |-> f[o[k]]] /\ l = [k \in 1..n + 1 |-> f[o[k]]]  OBVIOUS
<1>3. PICK S : l \in Seq(S) /\ Len(l) = n + 1
    <2>1. PICK c \in Nat : c = n + 1  OBVIOUS
    <2>2. l = [k \in 1..c |-> l[k]]  BY <1>2, <2>1
    <2>3. \E S : l \in Seq(S) /\ Len(l) = c  BY <2>2, FunctionSeq
    <2> QED  BY <2>1, <2>3
<1>4. f[j] \in S /\ l[n + 1] = f[j]
    <2>1. l[n + 1] \in S  BY <1>3, ElementOfSeq
    <2>2. l[n + 1] = f[o[n + 1]]  BY <1>2
    <2> QED  BY <2>1, <2>2
<1>7. s \in Seq(S) /\ Len(s) = n
    <2>1. \A k \in 1..n : f[o[k]] \in S
        <3>1. ASSUME NEW k \in 1..n PROVE f[o[k]] \in S
            <4>1. l[k] \in S  BY <1>3, ElementOfSeq
            <4> QED  BY <1>2, <4>1
        <3> QED  BY <3>1
    <2>2. PICK g : g = [k \in 1..n |-> s[k]]  OBVIOUS
    <2>3. g = s  BY <1>2, <2>2
    <2>4. \A k \in 1..n : s[k] \in S  BY <1>2, <2>1
    <2>5. [k \in 1..n |-> s[k]] \in Seq(S)  BY <2>4, IsASeq
    <2>6. s \in Seq(S)  BY <2>2, <2>3, <2>5
    <2>7. DOMAIN s = 1..n  BY <1>2
    <2> QED  BY <2>6, <2>7, LenProperties
<1>5. Append(s, f[j]) = l
    <2>1. PICK a : a = Append(s, f[j])  OBVIOUS
    <2>2. /\ a \in Seq(S) /\ Len(a) = n + 1
          /\ \A k \in 1..n : a[k] = s[k]
          /\ a[n + 1] = f[j]
        BY <1>4, <1>7, <2>1, AppendProperties
    <2>3. \A k \in 1..n + 1 : a[k] = l[k]  BY <1>2, <1>4, <2>2
    <2>4. Len(a) = Len(l)  BY <1>3, <2>2
    <2> QED  BY <1>3, <2>1, <2>2, <2>3, <2>4, SeqEqual
<1> QED  BY <1>2, <1>5 DEF Picked

LEMMA ItemAdded ==
    ASSUME NEW e, NEW f, NEW i, NEW n \in Nat, NEW j, InOrder(Parts(e, i))[n + 1] = j
    PROVE  addItem(Items(e, f, i, n), f[j]) = Items(e, f, i, n + 1)
<1>1. PICK o : o = InOrder(Parts(e, i))  OBVIOUS
<1>2. PICK s : s = Picked(f, o, n)  OBVIOUS
<1>3. Append(s, f[j]) = Picked(f, o, n + 1)  BY <1>1, <1>2, ListGrows
<1>4. Items(e, f, i, n) = Array(s) /\ Items(e, f, i, n + 1) = Array(Picked(f, o, n + 1))
    BY <1>1, <1>2 DEF Items, Picked
<1>5. Array(s).array = s  BY DEF Array
<1> QED  BY <1>3, <1>4, <1>5 DEF addItem

(***************************************************************************)
(* The data of an array, whose next value has closed.                      *)
(***************************************************************************)
(* What an array or a member is given is in none of the states below. *)
LEMMA TopOwns ==
    ASSUME NEW P, Good(P), NEW m \in Nat, Len(P.stack) = m + 1, P.stack[m + 1].st # "eMember",
           P.stack[m + 1].ptr # 0, NEW k \in 1..m
    PROVE  P.stack[k].ptr # P.stack[m + 1].ptr /\ P.stack[k].mem # P.stack[m + 1].ptr
<1>1. Shared(P) /\ Waiting(P)  BY DEF Good, Healthy, Owned
<1>2. k \in 1..Len(P.stack) /\ m + 1 \in 1..Len(P.stack) /\ k < m + 1  OBVIOUS
<1>3. P.stack[k].ptr # P.stack[m + 1].ptr  BY <1>1, <1>2 DEF Shared
<1>4. P.stack[k].mem # P.stack[m + 1].ptr  BY <1>1, <1>2 DEF Waiting
<1> QED  BY <1>3, <1>4

LEMMA DataCollects ==
    ASSUME NEW kind, NEW t, NEW e, NEW f, IsDocument(kind, t, e, f), NEW R, NEW at,
           NEW m \in Nat, NEW p \in Nat, NEW j, Resting(R, t, e, f, at, m, p, j),
           Tag(t, at[m + 1]) = "data", NEW v, NEW a, NEW Q, NEW s, s.ptr = a, a # 0,
           LET old == R.stack[m + 1].ptr
           IN  v = IF old = 0 THEN Array(<<>>) ELSE R.heap[old].val,
           Q.heap[a].val = addItem(v, f[j])
    PROVE  Collecting(Q, e, f, at[m + 1], s, p + 1)
<1>1. PICK i, old : i = at[m + 1] /\ old = R.stack[m + 1].ptr  OBVIOUS
<1>2. Tree(e, Len(t)) /\ Len(t) \in Nat /\ i \in DOMAIN e  BY <1>1, RestFacts
<1>3. j \in Parts(e, i) /\ e[j] = p + 1  BY <1>1 DEF Resting
<1>4. PICK S : S = Parts(e, i)  OBVIOUS
<1>5. S \subseteq DOMAIN e /\ \A b, c \in S : b # c => e[b] < c \/ e[c] < b
    BY <1>2, <1>4, PartFacts, PartsApart
<1>6. PICK n : n = Cardinality(DoneOf(S, e, p))  OBVIOUS
<1>7. /\ n \in Nat /\ Cardinality(DoneOf(S, e, p + 1)) = n + 1 /\ InOrder(S)[n + 1] = j
    <2>1. j \in S  BY <1>3, <1>4
    <2>2. DoneNext(S, e, p, j)  BY <1>2, <1>3, <1>5, <2>1, NextDone
    <2> QED  BY <1>6, <2>2 DEF DoneNext
<1>8. Done(e, i, p) = DoneOf(S, e, p) /\ Done(e, i, p + 1) = DoneOf(S, e, p + 1)
    BY <1>4 DEF Done, DoneOf
<1>9. PICK l : l = Items(e, f, i, n)  OBVIOUS
<1>10. v = l
    <2>1. Collecting(R, e, f, i, R.stack[m + 1], p)
        <3>1. Level(R, t, e, f, i, R.stack[m + 1], p)  BY <1>1 DEF Resting
        <3> QED  BY <1>1, <3>1 DEF Level
    <2>2. CASE Done(e, i, p) = {}
        <3>1. n = 0  BY <1>6, <1>8, <2>2, FS_EmptySet
        <3>2. v = Array(<<>>)  BY <1>1, <2>1, <2>2 DEF Collecting
        <3>3. PICK g : g = [k \in 1..0 |-> f[InOrder(Parts(e, i))[k]]]  OBVIOUS
        <3>4. g = <<>>  BY <3>3
        <3> QED  BY <1>9, <3>1, <3>2, <3>3, <3>4 DEF Items
    <2>3. CASE Done(e, i, p) # {}
        <3>1. old # 0 /\ R.heap[old].val = l
            BY <1>1, <1>6, <1>8, <1>9, <2>1, <2>3 DEF Collecting
        <3> QED  BY <1>1, <3>1
    <2> QED  BY <2>2, <2>3
<1>11. Q.heap[a].val = Items(e, f, i, n + 1)
    BY <1>4, <1>7, <1>9, <1>10, ItemAdded
<1>12. Cardinality(Done(e, i, p + 1)) = n + 1  BY <1>7, <1>8
<1>13. Done(e, i, p + 1) # {}
    <2>1. j \in Done(e, i, p + 1)  BY <1>3 DEF Done
    <2> QED  BY <2>1
<1>14. PICK z : z = Items(e, f, i, n + 1)  OBVIOUS
<1>15. Collecting(Q, e, f, i, s, p + 1)
    BY <1>11, <1>12, <1>13, <1>14 DEF Collecting
<1> QED  BY <1>1, <1>15

LEMMA DataCloses ==
    ASSUME NEW kind, NEW t, NEW e, NEW f, IsDocument(kind, t, e, f), NEW R, R.kind = kind, NEW at,
           NEW m \in Nat, NEW p \in Nat, NEW j, Resting(R, t, e, f, at, m, p, j),
           NEW r, NEW x, Brings(R, r, x, t, f, m, j), x # 0, Tag(t, at[m + 1]) = "data"
    PROVE  Taken(r, ArrayTakesValue(r, x, TRUE), t, e, f, at, m + 1, p + 1)
<1>1. PICK i : i = at[m + 1]  OBVIOUS
<1>2. PICK Q : Q = ArrayTakesValue(r, x, TRUE)  OBVIOUS
<1>3. PICK del \in BOOLEAN : del = TRUE  OBVIOUS
<1>4. /\ Good(r) /\ Len(r.stack) = m + 1 /\ Free(r, m + 1, x) /\ Given(r, t, f, x, j)
      /\ r.kind = R.kind /\ r.ignored = R.ignored /\ Leaves(R, r, 0)
      /\ \A k \in 1..m : r.stack[k] = R.stack[k]
      /\ r.stack[m + 1].st = R.stack[m + 1].st /\ r.stack[m + 1].ptr = R.stack[m + 1].ptr
    BY DEF Brings, Prepared
<1>5. Level(R, t, e, f, i, R.stack[m + 1], p) /\ Good(R) /\ Len(R.stack) = m + 1
    BY <1>1 DEF Resting
<1>6. PICK top, old : top = r.stack[m + 1] /\ old = r.stack[m + 1].ptr  OBVIOUS
<1>7. top.st = "eData"  BY <1>1, <1>4, <1>5, <1>6, StatesOf DEF Level
<1>8. Result(r, Q)  BY <1>2, <1>3, <1>4, <1>6, <1>7, ArrayTakes, ZenonT(30)
<1>9. PICK a \in Nat \ {0} :
        /\ Stacked(r, Q, m, [r.stack[m + 1] EXCEPT !.ptr = a, !.del = del])
        /\ IF old = 0 THEN a \notin DOMAIN r.heap ELSE a = old
        /\ Leaves(r, Q, a)
        /\ \A h \in Alive(Q) : (h \in Alive(r) \/ h = a) /\ h # x
        /\ Q.heap[a].val = addItem(IF old = 0 THEN Array(<<>>) ELSE r.heap[old].val, r.heap[x].val)
    <2>1. PICK a \in Nat \ {0} : ItemPut(r, Q, m, x, del, a)
        BY <1>2, <1>3, <1>4, <1>6, <1>7, DataGets
    <2> QED  BY <1>6, <2>1, Zenon DEF ItemPut
<1>10. PICK s : s = [top EXCEPT !.ptr = a, !.del = del]  OBVIOUS
<1>11. top \in State /\ top.mem = 0  BY <1>4, <1>6, <1>7, TopFacts
<1>12. Stacked(r, Q, m, s)  BY <1>6, <1>9, <1>10
<1>13. s.st = "eData" /\ s.ptr = a /\ s.del = TRUE  BY <1>3, <1>7, <1>10, <1>11 DEF State
<1>14. /\ Q.kind = R.kind /\ Q.ignored = R.ignored /\ Len(Q.stack) = m + 1
       /\ \A k \in 1..m : Q.stack[k] = R.stack[k]
       /\ Q.stack[m + 1] = s
    BY <1>4, <1>8, <1>12 DEF Result, Like, Stacked
<1>15. 0 \notin DOMAIN R.heap /\ IsParser(R) /\ IsParser(r)  BY <1>4, <1>5, NoValue DEF Good
<1>16. Leaves(R, Q, a)  BY <1>4, <1>9, <1>15, LeavesTwice
<1>17. ASSUME NEW k \in 1..m PROVE R.stack[k].ptr # a /\ R.stack[k].mem # a
    <2>1. r.stack[k] = R.stack[k]  BY <1>4
    <2>2. CASE old = 0
        <3>1. a \notin DOMAIN r.heap  BY <1>9, <2>2
        <3>2. k \in 1..Len(r.stack)  BY <1>4
        <3>3. /\ r.stack[k].ptr # 0 => r.stack[k].ptr \in DOMAIN r.heap
              /\ r.stack[k].mem # 0 => r.stack[k].mem \in DOMAIN r.heap
            BY <1>4, <3>2, StatePoints
        <3> QED  BY <2>1, <3>1, <3>3
    <2>3. CASE old # 0
        <3>1. a = old  BY <1>9, <2>3
        <3>2. r.stack[k].ptr # old /\ r.stack[k].mem # old
            BY <1>4, <1>6, <1>7, <2>3, TopOwns
        <3> QED  BY <2>1, <3>1, <3>2
    <2> QED  BY <2>2, <2>3
<1>18. Level(Q, t, e, f, i, s, p + 1)
    <2>1. r.heap[x].val = f[j]  BY <1>4 DEF Given
    <2>2. PICK v : v = IF old = 0 THEN Array(<<>>) ELSE r.heap[old].val  OBVIOUS
    <2>3. Q.heap[a].val = addItem(v, f[j])  BY <1>9, <2>1, <2>2
    <2>4. v = IF R.stack[m + 1].ptr = 0 THEN Array(<<>>) ELSE R.heap[R.stack[m + 1].ptr].val
        <3>1. R.stack[m + 1].ptr = old  BY <1>4, <1>6
        <3>2. ASSUME old # 0 PROVE R.heap[old].val = r.heap[old].val
            <4>1. m + 1 \in 1..Len(R.stack)  BY <1>5
            <4>2. old \in DOMAIN R.heap  BY <1>5, <3>1, <3>2, <4>1, StatePoints
            <4> QED  BY <1>4, <3>2, <4>2 DEF Leaves
        <3> QED  BY <2>2, <3>1, <3>2
    <2>5. Collecting(Q, e, f, i, s, p + 1)
        BY <1>1, <1>13, <2>3, <2>4, DataCollects
    <2>6. s.st = StateOf("data")  BY <1>13, StatesOf
    <2>7. "data" \notin Carriers(Q.kind)  BY DEF Carriers
    <2> QED  BY <1>1, <2>5, <2>6, <2>7 DEF Level
<1>19. ASSUME ~Nameless(t) PROVE Claimed(Q)
    <2>1. ASSUME NEW h \in Alive(Q)
          PROVE  \E k \in 1..Len(Q.stack) : Q.stack[k].ptr = h \/ Q.stack[k].mem = h
        <3>1. CASE h = a  BY <1>13, <1>14, <3>1
        <3>2. CASE h # a
            <4>1. h \in Alive(r) /\ h # x  BY <1>9, <3>2
            <4>2. h # 0  BY <1>15, <4>1, HeapOf
            <4>3. ClaimedBut(r, x)  BY <1>19 DEF Brings
            <4>4. PICK k \in 1..m + 1 : r.stack[k].ptr = h \/ r.stack[k].mem = h
                BY <1>4, <4>1, <4>3 DEF ClaimedBut
            <4>5. k # m + 1
                <5>1. old = h => a = h  BY <1>9, <4>2
                <5> QED  BY <1>6, <1>11, <3>2, <4>2, <4>4, <5>1
            <4> QED  BY <1>4, <1>14, <4>4, <4>5
        <3> QED  BY <3>1, <3>2
    <2> QED  BY <2>1 DEF Claimed
<1>20. m = 0 => Q.stack[1].del = TRUE  BY <1>13, <1>14
<1>21. Q.call = r.call /\ Q.mvalue = r.mvalue  BY <1>9 DEF Leaves
<1>22. Tag(t, at[m + 1]) # "member"  OBVIOUS
<1>23. Follows(Q, t, e, f, at, m + 1, p + 1)
    BY <1>1, <1>14, <1>16, <1>17, <1>18, <1>19, <1>20, <1>22, ParentCloses
<1> QED  BY <1>2, <1>8, <1>21, <1>23 DEF Taken

(***************************************************************************)
(* A struct grows by its members in their order.                           *)
(***************************************************************************)
LEMMA FirstNamedUnique ==
    ASSUME NEW t, NEW e, NEW M, M \subseteq Nat, NEW n, NEW m, IsFirst(t, e, M, n, m)
    PROVE  FirstNamed(t, e, M, n) = m
<1>1. PICK first : first = FirstNamed(t, e, M, n)  OBVIOUS
<1>2. m \in M /\ NameIn(t, e, m) = n  BY DEF IsFirst
<1>3. IsFirst(t, e, M, n, first)  BY <1>1, <1>2, FirstNamedIs
<1>4. first \in Nat /\ m \in Nat  BY <1>2, <1>3 DEF IsFirst
<1>5. first <= m /\ m <= first  BY <1>2, <1>3 DEF IsFirst
<1> QED  BY <1>1, <1>4, <1>5

Grown(M, N, i) == \A q : q \in N <=> (q \in M \/ q = i)
GrowsBy(t, e, f, M, N, i) ==
    addMember(StructOf(t, e, f, M), NameIn(t, e, i), f[PartWith(t, e, i, "value")])
        = StructOf(t, e, f, N)

LEMMA StructGrows ==
    ASSUME NEW t, NEW e, NEW f, NEW M, M \subseteq Nat, NEW i \in Nat, \A q \in M : q < i,
           NEW N, Grown(M, N, i)
    PROVE  GrowsBy(t, e, f, M, N, i)
<1>1. PICK g : g = [n \in {NameIn(t, e, m) : m \in M} |->
                        f[PartWith(t, e, FirstNamed(t, e, M, n), "value")]]
    OBVIOUS
<1>2. PICK h : h = [n \in {NameIn(t, e, m) : m \in N} |->
                        f[PartWith(t, e, FirstNamed(t, e, N, n), "value")]]
    OBVIOUS
<1>3. PICK x, v : x = NameIn(t, e, i) /\ v = f[PartWith(t, e, i, "value")]  OBVIOUS
<1>11. N = M \cup {i}  BY DEF Grown
<1>4. DOMAIN h = DOMAIN g \cup {x}  BY <1>1, <1>2, <1>3, <1>11
<1>5. N \subseteq Nat /\ i \in N /\ M \subseteq N  BY <1>11
<1>6. ASSUME NEW n \in DOMAIN g PROVE h[n] = g[n]
    <2>1. PICK m \in M : NameIn(t, e, m) = n  BY <1>1
    <2>2. PICK first : first = FirstNamed(t, e, M, n)  OBVIOUS
    <2>3. IsFirst(t, e, M, n, first)  BY <2>1, <2>2, FirstNamedIs
    <2>4. first \in M /\ first \in Nat /\ first < i  BY <2>3 DEF IsFirst
    <2>5. IsFirst(t, e, N, n, first)  BY <1>11, <2>3, <2>4 DEF IsFirst
    <2>6. FirstNamed(t, e, N, n) = first  BY <1>5, <2>5, FirstNamedUnique
    <2>7. n \in DOMAIN h  BY <1>4
    <2>8. h[n] = f[PartWith(t, e, FirstNamed(t, e, N, n), "value")]
        <3>1. DOMAIN h = {NameIn(t, e, m1) : m1 \in N}  BY <1>2
        <3> QED  BY <1>2, <2>7, <3>1, Zenon
    <2>9. g[n] = f[PartWith(t, e, FirstNamed(t, e, M, n), "value")]
        <3>1. DOMAIN g = {NameIn(t, e, m1) : m1 \in M}  BY <1>1
        <3> QED  BY <1>1, <3>1, Zenon
    <2> QED  BY <2>2, <2>6, <2>8, <2>9
<1>7. ASSUME x \notin DOMAIN g PROVE h[x] = v
    <2>1. ASSUME NEW k \in M PROVE NameIn(t, e, k) # x  BY <1>1, <1>7
    <2>2. IsFirst(t, e, N, x, i)  BY <1>3, <1>5, <1>11, <2>1 DEF IsFirst
    <2>3. FirstNamed(t, e, N, x) = i  BY <1>5, <2>2, FirstNamedUnique
    <2>4. h[x] = f[PartWith(t, e, FirstNamed(t, e, N, x), "value")]
        <3>1. DOMAIN h = {NameIn(t, e, m1) : m1 \in N}  BY <1>2
        <3>2. x \in DOMAIN h  BY <1>4
        <3> QED  BY <1>2, <3>1, <3>2, Zenon
    <2> QED  BY <1>3, <2>3, <2>4
<1>8. StructOf(t, e, f, M) = Struct(g) /\ StructOf(t, e, f, N) = Struct(h)
    BY <1>1, <1>2, Zenon DEF StructOf
<1>9. h = [n \in DOMAIN h |-> h[n]] /\ g = [n \in DOMAIN g |-> g[n]]  BY <1>1, <1>2
<1>10. addMember(Struct(g), x, v) = Struct(h)
    <2>1. Struct(g).struct = g  BY DEF Struct
    <2>2. CASE x \in DOMAIN g
        <3>1. h = g  BY <1>4, <1>6, <1>9, <2>2
        <3> QED  BY <2>1, <2>2, <3>1 DEF addMember
    <2>3. CASE x \notin DOMAIN g
        <3>1. h = [n \in DOMAIN g \cup {x} |-> IF n = x THEN v ELSE g[n]]
            <4>1. \A n \in DOMAIN g \cup {x} : h[n] = IF n = x THEN v ELSE g[n]
                BY <1>6, <1>7, <2>3
            <4> QED  BY <1>4, <1>9, <4>1
        <3> QED  BY <2>1, <2>3, <3>1 DEF addMember
    <2> QED  BY <2>2, <2>3
<1> QED  BY <1>3, <1>8, <1>10 DEF GrowsBy

-----------------------------------------------------------------------------
(***************************************************************************)
(* A member and its struct.                                                *)
(***************************************************************************)
(* i is a member of the struct of the state g, and j a part of it. *)
Belongs(R, t, e, f, at, m, p) ==
    /\ m # 0 /\ Tag(t, at[m]) = "struct" /\ at[m] \in DOMAIN e
    /\ at[m + 1] \in Parts(e, at[m]) /\ at[m + 1] \in Met(e, at[m], p + 1)
    /\ R.stack[m].st = "eStruct" /\ R.stack[m + 1].st = "eMember"
    /\ R.stack[m].ptr = R.stack[m + 1].ptr /\ R.stack[m].ptr # 0
    /\ R.stack[m].ptr \in DOMAIN R.heap
    /\ R.heap[R.stack[m].ptr].val = StructOf(t, e, f, Full(t, e, at[m], p))

LEMMA MemberBelongs ==
    ASSUME NEW kind, NEW t, NEW e, NEW f, IsDocument(kind, t, e, f), NEW R, NEW at,
           NEW m \in Nat, NEW p \in Nat, NEW j, Resting(R, t, e, f, at, m, p, j),
           Tag(t, at[m + 1]) = "member"
    PROVE  Belongs(R, t, e, f, at, m, p)
<1>1. /\ Tree(e, Len(t)) /\ Len(t) \in Nat /\ j \in DOMAIN e /\ at[m + 1] \in DOMAIN e
      /\ kind \in Kinds
    BY RestFacts
<1>2. Branch(e, at, m + 1, p + 1) /\ Good(R) /\ Len(R.stack) = m + 1  BY DEF Resting
<1>3. m # 0
    <2>1. at[1] = 0  BY <1>2 DEF Branch
    <2>2. Tag(t, at[1]) = ""  BY <2>1 DEF Tag
    <2>3. m = 0 => m + 1 = 1  OBVIOUS
    <2> QED  BY <2>2, <2>3
<1>4. m \in 1..m  BY <1>3
<1>5. at[m] \in DOMAIN e  BY <1>4, RestFacts
<1>6. at[m + 1] \in Parts(e, at[m])
    <2>1. m \in 1..(m + 1) - 1  BY <1>3
    <2> QED  BY <1>2, <2>1 DEF Branch
<1>7. Tag(t, at[m]) = "struct"
    <2>1. <<Tag(t, at[m]), Tag(t, at[m + 1])>> \in Contents(kind)  BY <1>5, <1>6, PartTag
    <2> QED  BY <1>1, <2>1, ContentsAre DEF Scalars
<1>8. at[m + 1] \in Met(e, at[m], p) /\ at[m + 1] \in Met(e, at[m], p + 1)
    <2>1. j \in Parts(e, at[m + 1]) /\ e[j] = p + 1  BY DEF Resting
    <2>2. at[m + 1] < j  BY <2>1, PartFacts
    <2>3. j < e[j] /\ j \in Nat /\ at[m + 1] \in Nat  BY <1>1, Places
    <2>4. at[m + 1] <= p /\ at[m + 1] <= p + 1  BY <2>1, <2>2, <2>3
    <2> QED  BY <1>6, <2>4 DEF Met
<1>9. m \in 1..m + 1 /\ m + 1 \in 1..m + 1  BY <1>3
<1>10. Level(R, t, e, f, at[m], R.stack[m], p) /\ Level(R, t, e, f, at[m + 1], R.stack[m + 1], p)
    BY <1>9 DEF Resting
<1>11. R.stack[m].st = "eStruct" /\ R.stack[m + 1].st = "eMember"
    BY <1>7, <1>10, StatesOf DEF Level
<1>12. R.stack[m].ptr = R.stack[m + 1].ptr /\ R.stack[m].ptr # 0
    <2>1. Path(R)  BY <1>2 DEF Good, Healthy
    <2>2. m + 1 \in 2..Len(R.stack) /\ (m + 1) - 1 = m  BY <1>2, <1>3
    <2>3. R.stack[m + 1].ptr = R.stack[(m + 1) - 1].ptr /\ R.stack[m + 1].ptr # 0
        BY <1>11, <2>1, <2>2 DEF Path
    <2> QED  BY <2>2, <2>3
<1>13. PICK w : w = StructOf(t, e, f, Full(t, e, at[m], p))  OBVIOUS
<1>14. R.heap[R.stack[m].ptr].val = w
    <2>1. Structured(R, t, e, f, at[m], R.stack[m], p)  BY <1>7, <1>10 DEF Level
    <2>2. Met(e, at[m], p) # {}  BY <1>8
    <2> QED  BY <1>13, <2>1, <2>2 DEF Structured
<1>15. R.stack[m].ptr \in DOMAIN R.heap  BY <1>2, <1>9, <1>12, StatePoints
<1> QED  BY <1>3, <1>5, <1>6, <1>7, <1>8, <1>11, <1>12, <1>13, <1>14, <1>15 DEF Belongs

(* Is all there that the member i is made of? *)
Joined(t, e, i, p) == Counts(t, e, i) /\ \A k \in Parts(e, i) : e[k] <= p

LEMMA StructAfter ==
    ASSUME NEW kind, NEW t, NEW e, NEW f, IsDocument(kind, t, e, f), NEW R, NEW at,
           NEW m \in Nat, NEW p \in Nat, NEW j, Resting(R, t, e, f, at, m, p, j),
           Tag(t, at[m + 1]) = "member"
    PROVE  LET i == at[m + 1]
               old == StructOf(t, e, f, Full(t, e, at[m], p))
               new == StructOf(t, e, f, Full(t, e, at[m], p + 1))
           IN  /\ ~Joined(t, e, i, p + 1) => new = old
               /\ Joined(t, e, i, p + 1) =>
                    new = addMember(old, NameIn(t, e, i), f[PartWith(t, e, i, "value")])
<1>1. PICK i, g : i = at[m + 1] /\ g = at[m]  OBVIOUS
<1>2. Tree(e, Len(t)) /\ Len(t) \in Nat /\ j \in DOMAIN e /\ i \in DOMAIN e
    BY <1>1, RestFacts
<1>3. g \in DOMAIN e /\ i \in Parts(e, g)
    <2>1. Belongs(R, t, e, f, at, m, p)  BY MemberBelongs
    <2> QED  BY <1>1, <2>1 DEF Belongs
<1>4. j \in Parts(e, i) /\ e[j] = p + 1  BY <1>1 DEF Resting
<1>5. PICK F, G : F = Full(t, e, g, p) /\ G = Full(t, e, g, p + 1)  OBVIOUS
<1>6. ASSUME NEW q \in Parts(e, g), q # i PROVE q \in F <=> q \in G
    <2>1. q \in DOMAIN e  BY PartFacts
    <2>2. j \notin Parts(e, q)  BY <1>2, <1>4, <1>6, <2>1, OneParent
    <2>3. ASSUME NEW k \in Parts(e, q) PROVE e[k] <= p + 1 <=> e[k] <= p
        <3>1. k \in DOMAIN e /\ k # j  BY <2>2, PartFacts
        <3>2. e[k] # e[j]  BY <1>2, <3>1, EndsApart
        <3>3. e[k] \in Nat  BY <1>2, <3>1, Places
        <3> QED  BY <1>4, <3>2, <3>3
    <2> QED  BY <1>5, <2>3 DEF Full
<1>7. i \notin F
    <2>1. ~(e[j] <= p)  BY <1>4
    <2> QED  BY <1>4, <1>5, <2>1 DEF Full
<1>8. i \in G <=> Joined(t, e, i, p + 1)  BY <1>3, <1>5 DEF Full, Joined
<1>9. F \subseteq Parts(e, g) /\ G \subseteq Parts(e, g)  BY <1>5 DEF Full
<1>10. ASSUME ~Joined(t, e, i, p + 1) PROVE F = G  BY <1>6, <1>7, <1>8, <1>9, <1>10
<1>11. ASSUME Joined(t, e, i, p + 1) PROVE Grown(F, G, i)
    BY <1>3, <1>6, <1>7, <1>8, <1>9, <1>11 DEF Grown
<1>12. ASSUME NEW q \in F PROVE q \in Nat /\ q < i
    <2>1. q \in Parts(e, g) /\ Counts(t, e, q) /\ \A k \in Parts(e, q) : e[k] <= p
        BY <1>5 DEF Full
    <2>2. PICK k \in Parts(e, q) : Tag(t, k) = "name"  BY <2>1 DEF Counts, HasPart
    <2>3. q \in DOMAIN e /\ k \in DOMAIN e /\ q < k  BY <2>1, PartFacts
    <2>4. /\ q \in Nat /\ k \in Nat /\ k < e[k] /\ e[k] \in Nat /\ q < e[q] /\ e[q] \in Nat
          /\ i \in Nat /\ e[i] \in Nat
        BY <1>2, <2>3, Places
    <2>5. e[k] <= p  BY <2>1
    <2>6. q <= p  BY <2>3, <2>4, <2>5
    <2>7. e[j] < e[i]  BY <1>4, <1>2, PartEnds
    <2>8. e[q] < i \/ e[i] < q  BY <1>2, <1>3, <1>7, <2>1, PartsApart
    <2> QED  BY <1>4, <2>4, <2>6, <2>7, <2>8
<1>13. i \in Nat /\ F \subseteq Nat  BY <1>2, <1>12, Places
<1>14. ASSUME Joined(t, e, i, p + 1)
       PROVE  addMember(StructOf(t, e, f, F), NameIn(t, e, i), f[PartWith(t, e, i, "value")])
                = StructOf(t, e, f, G)
    <2>1. \A q \in F : q < i  BY <1>12
    <2>2. GrowsBy(t, e, f, F, G, i)  BY <1>11, <1>13, <1>14, <2>1, StructGrows
    <2> QED  BY <2>2 DEF GrowsBy
<1> QED  BY <1>1, <1>5, <1>10, <1>14

(* The part j of the member i has closed: it is the only one of its tag,   *)
(* and the other one comes before it if it is done.                        *)
MemberHas(t, e, i, p, j) ==
    /\ Tag(t, j) \in {"name", "value"} /\ PartWith(t, e, i, Tag(t, j)) = j
    /\ ~HasDone(t, e, i, p, Tag(t, j)) /\ HasDone(t, e, i, p + 1, Tag(t, j))
    /\ \A b \in {"name", "value"} \ {Tag(t, j)} :
        /\ HasDone(t, e, i, p + 1, b) = HasDone(t, e, i, p, b)
        /\ HasDone(t, e, i, p, b) => HasPart(t, e, i, b) /\ PartWith(t, e, i, b) < j

LEMMA MemberTags ==
    ASSUME NEW kind, NEW t, NEW e, NEW f, IsDocument(kind, t, e, f), NEW i \in DOMAIN e,
           Tag(t, i) = "member", NEW k \in Parts(e, i)
    PROVE  /\ Tag(t, k) \in {"name", "value"} /\ PartWith(t, e, i, Tag(t, k)) = k
           /\ HasPart(t, e, i, Tag(t, k)) /\ HasPart(t, e, i, "name")
<1>1. <<Tag(t, i), Tag(t, k)>> \in Contents(kind) /\ kind \in Kinds
    <2>1. <<Tag(t, i), Tag(t, k)>> \in Contents(kind)  BY PartTag
    <2> QED  BY <2>1 DEF IsDocument
<1>2. Tag(t, k) \in {"name", "value"}  BY <1>1, ContentsAre DEF Scalars
<1>3. PICK a : a = Tag(t, k)  OBVIOUS
<1>4. HasPart(t, e, i, a)  BY <1>3 DEF HasPart
<1>5. PICK w : w = PartWith(t, e, i, a)  OBVIOUS
<1>6. w \in Parts(e, i) /\ Tag(t, w) = a  BY <1>4, <1>5, PartWithIs
<1>7. Tag(t, i) \notin Lists(kind)  BY DEF Lists
<1>8. w = k  BY <1>3, <1>6, <1>7, OneOfATag
<1>9. HasPart(t, e, i, "name")
    <2>1. CASE a = "name"  BY <1>4, <2>1
    <2>2. CASE a = "value"
        <3>1. Valid(kind, t, e)  BY DEF IsDocument
        <3>2. <<Tag(t, i), Tag(t, k)>> = <<"member", "value">>  BY <1>3, <2>2
        <3>3. \E q \in Parts(e, i) : Tag(t, q) = "name"  BY <3>1, <3>2 DEF Valid
        <3> QED  BY <3>3 DEF HasPart
    <2> QED  BY <1>2, <1>3, <2>1, <2>2
<1> QED  BY <1>2, <1>3, <1>4, <1>5, <1>8, <1>9

LEMMA MemberParts ==
    ASSUME NEW kind, NEW t, NEW e, NEW f, IsDocument(kind, t, e, f), NEW i \in DOMAIN e,
           Tag(t, i) = "member", NEW p \in Nat, NEW j \in Parts(e, i), e[j] = p + 1
    PROVE  MemberHas(t, e, i, p, j)
<1>1. Tree(e, Len(t)) /\ Len(t) \in Nat /\ j \in DOMAIN e  BY DocTree, PartFacts
<1>2. Done(e, i, p + 1) = Done(e, i, p) \cup {j} /\ j \notin Done(e, i, p)
    BY <1>1, DoneCloses
<1>3. Tag(t, j) \in {"name", "value"} /\ PartWith(t, e, i, Tag(t, j)) = j  BY MemberTags
<1>4. ASSUME NEW k \in Done(e, i, p)
      PROVE  /\ k \in Parts(e, i) /\ Tag(t, k) # Tag(t, j) /\ k < j
             /\ HasPart(t, e, i, Tag(t, k)) /\ PartWith(t, e, i, Tag(t, k)) = k
    <2>1. k \in Parts(e, i) /\ e[k] <= p /\ k # j  BY <1>2 DEF Done
    <2>2. PartWith(t, e, i, Tag(t, k)) = k /\ HasPart(t, e, i, Tag(t, k))  BY <2>1, MemberTags
    <2>3. k \in DOMAIN e  BY <2>1, PartFacts
    <2>4. e[k] < j \/ e[j] < k  BY <1>1, <2>1, PartsApart
    <2>5. k \in Nat /\ j \in Nat /\ k < e[k] /\ e[k] \in Nat  BY <1>1, <2>3, Places
    <2>6. k < j  BY <2>1, <2>4, <2>5
    <2> QED  BY <1>3, <2>1, <2>2, <2>6
<1>5. ~HasDone(t, e, i, p, Tag(t, j))  BY <1>4 DEF HasDone
<1>6. HasDone(t, e, i, p + 1, Tag(t, j))  BY <1>2 DEF HasDone
<1>7. ASSUME NEW b \in {"name", "value"} \ {Tag(t, j)}
      PROVE  /\ HasDone(t, e, i, p + 1, b) = HasDone(t, e, i, p, b)
             /\ HasDone(t, e, i, p, b) => HasPart(t, e, i, b) /\ PartWith(t, e, i, b) < j
    <2>1. HasDone(t, e, i, p + 1, b) = HasDone(t, e, i, p, b)  BY <1>2, <1>7 DEF HasDone
    <2>2. ASSUME HasDone(t, e, i, p, b) PROVE HasPart(t, e, i, b) /\ PartWith(t, e, i, b) < j
        <3>1. PICK k \in Done(e, i, p) : Tag(t, k) = b  BY <2>2 DEF HasDone
        <3> QED  BY <1>4, <3>1
    <2> QED  BY <2>1, <2>2
<1> QED  BY <1>3, <1>5, <1>6, <1>7 DEF MemberHas

(* When all is there. *)
LEMMA JoinedIs ==
    ASSUME NEW kind, NEW t, NEW e, NEW f, IsDocument(kind, t, e, f), NEW i \in DOMAIN e,
           Tag(t, i) = "member", NEW p \in Nat
    PROVE  Joined(t, e, i, p) <=>
            Counts(t, e, i) /\ HasDone(t, e, i, p, "name") /\ HasDone(t, e, i, p, "value")
<1>1. ASSUME Joined(t, e, i, p), NEW b \in {"name", "value"} PROVE HasDone(t, e, i, p, b)
    <2>1. HasPart(t, e, i, b)  BY <1>1 DEF Joined, Counts
    <2>2. PICK k \in Parts(e, i) : Tag(t, k) = b  BY <2>1 DEF HasPart
    <2>3. k \in Done(e, i, p)  BY <1>1, <2>2 DEF Joined, Done
    <2> QED  BY <2>2, <2>3 DEF HasDone
<1>2. ASSUME Counts(t, e, i), HasDone(t, e, i, p, "name"), HasDone(t, e, i, p, "value"),
             NEW k \in Parts(e, i)
      PROVE  e[k] <= p
    <2>1. Tag(t, k) \in {"name", "value"}  BY MemberTags
    <2>2. PICK q \in Done(e, i, p) : Tag(t, q) = Tag(t, k)  BY <1>2, <2>1 DEF HasDone
    <2>3. q \in Parts(e, i) /\ e[q] <= p  BY <2>2 DEF Done
    <2>4. Tag(t, i) \notin Lists(kind)  BY DEF Lists
    <2>5. q = k  BY <2>2, <2>3, <2>4, OneOfATag
    <2> QED  BY <2>3, <2>5
<1> QED  BY <1>1, <1>2 DEF Joined

(* A member has no value but with a name. *)
LEMMA NamesCount ==
    ASSUME NEW kind, NEW t, NEW e, NEW f, IsDocument(kind, t, e, f), NEW i \in DOMAIN e,
           Tag(t, i) = "member", ~Nameless(t), HasPart(t, e, i, "value")
    PROVE  Counts(t, e, i)
<1>1. PICK v \in Parts(e, i) : Tag(t, v) = "value"  BY DEF HasPart
<1>2. HasPart(t, e, i, "name")  BY <1>1, MemberTags
<1>3. PICK k : k = PartWith(t, e, i, "name")  OBVIOUS
<1>4. k \in Parts(e, i) /\ Tag(t, k) = "name"  BY <1>2, <1>3, PartWithIs
<1>5. k \in DOMAIN e /\ k # 0  BY <1>4, PartTag
<1>6. k \in 1..Len(t) /\ e[k] \in 1..Len(t) /\ Tag(t, k) = t[k].open /\ "open" \in DOMAIN t[k]
      /\ DOMAIN t[e[k]] = {"close"} /\ t[e[k]].close = "name"
    BY <1>4, <1>5, EndIs
<1>7. IsInput(t) /\ Len(t) \in Nat /\ DOMAIN t = 1..Len(t)  BY InputLength DEF IsDocument
<1>8. e[k] = k + 1 \/ (e[k] = k + 2 /\ "chars" \in DOMAIN t[k + 1])
    <2>1. OnlyText(t, e, k)  BY <1>4 DEF OnlyText
    <2> QED  BY <1>5, <2>1, TextAlone
<1>9. ASSUME e[k] = k + 1 PROVE FALSE
    <2>1. t[k] = [open |-> "name"]
        <3>1. t[k] = [open |-> t[k].open]  BY <1>5 DEF IsDocument, WellFormed
        <3> QED  BY <1>4, <1>6, <3>1
    <2>2. t[k + 1] = [close |-> "name"]
        <3>1. t[e[k]] = [close |-> t[k].open]  BY <1>5 DEF IsDocument, WellFormed
        <3> QED  BY <1>4, <1>6, <1>9, <3>1
    <2>3. k \in 1..Len(t) - 1  BY <1>6, <1>7, <1>9
    <2>4. Nameless(t)  BY <2>1, <2>2, <2>3 DEF Nameless
    <2> QED  BY <2>4
<1>10. NameIn(t, e, i) # <<>>
    <2>1. e[k] = k + 2 /\ "chars" \in DOMAIN t[k + 1]  BY <1>8, <1>9
    <2>2. e[k] # k + 1  BY <1>6, <2>1
    <2>3. TextIn(t, e, k) = [n \in DOMAIN t[k + 1].chars |-> t[k + 1].chars[n][2]]
        BY <2>2 DEF TextIn
    <2>4. k + 1 \in DOMAIN t  BY <1>6, <1>7, <2>1
    <2>5. t[k + 1].chars # <<>>  BY <2>1, <2>4 DEF IsDocument, WellFormed
    <2>6. PICK c : c = t[k + 1].chars  OBVIOUS
    <2>7. \E S : c \in Seq(S)
        <3>1. IsToken(t[k + 1])  BY <1>7, <2>4 DEF IsInput
        <3> QED  BY <2>1, <2>6, <3>1 DEF IsToken
    <2>8. DOMAIN c # {}
        <3>1. PICK S : c \in Seq(S)  BY <2>7
        <3>2. Len(c) # 0 /\ Len(c) \in Nat /\ DOMAIN c = 1..Len(c)
            BY <2>5, <2>6, <3>1, EmptySeq, LenProperties
        <3> QED  BY <3>2
    <2>9. DOMAIN TextIn(t, e, k) # {}  BY <2>3, <2>6, <2>8
    <2>10. TextIn(t, e, k) # <<>>  BY <2>9
    <2> QED  BY <1>3, <2>10 DEF NameIn
<1> QED  BY <1>2, <1>10 DEF Counts

(* The struct S has what is said by then, the member s what is left of it. *)
LEMMA MemberCloses ==
    ASSUME NEW kind, NEW t, NEW e, NEW f, IsDocument(kind, t, e, f), NEW R, R.kind = kind, NEW at,
           NEW m \in Nat, NEW p \in Nat, NEW j, Resting(R, t, e, f, at, m, p, j),
           NEW r, Prepared(R, r, t, m, j), Tag(t, at[m + 1]) = "member",
           NEW Q, NEW s, Result(r, Q), Stacked(r, Q, m, s), Leaves(r, Q, R.stack[m].ptr),
           s.st = "eMember", Joining(Q, t, e, f, at[m + 1], s, p + 1),
           Q.heap[R.stack[m].ptr].val = StructOf(t, e, f, Full(t, e, at[m], p + 1)),
           ~Nameless(t) => Claimed(Q)
    PROVE  Follows(Q, t, e, f, at, m + 1, p + 1)
<1>1. PICK i, g, S : i = at[m + 1] /\ g = at[m] /\ S = R.stack[m].ptr  OBVIOUS
<1>2. /\ m # 0 /\ Tag(t, g) = "struct" /\ i \in Met(e, g, p + 1)
      /\ R.stack[m].st = "eStruct" /\ S # 0 /\ S \in DOMAIN R.heap
    <2>1. Belongs(R, t, e, f, at, m, p)  BY MemberBelongs
    <2> QED  BY <1>1, <2>1 DEF Belongs
<1>3. /\ Good(r) /\ r.kind = R.kind /\ r.ignored = R.ignored
      /\ \A k \in 1..m : r.stack[k] = R.stack[k]
      /\ Leaves(R, r, 0)
    BY DEF Prepared
<1>4. /\ Q.kind = R.kind /\ Q.ignored = R.ignored /\ Len(Q.stack) = m + 1
      /\ \A k \in 1..m : Q.stack[k] = R.stack[k]
      /\ Q.stack[m + 1] = s
    BY <1>3 DEF Result, Like, Stacked
<1>5. Good(R) /\ Len(R.stack) = m + 1  BY DEF Resting
<1>6. 0 \notin DOMAIN R.heap  BY <1>5, NoValue DEF Good
<1>7. Leaves(R, Q, S)  BY <1>1, <1>3, <1>6, LeavesTwice
<1>8. ASSUME NEW k \in 1..m, k # m PROVE R.stack[k].ptr # S /\ R.stack[k].mem # S
    <2>1. Shared(R) /\ Waiting(R)  BY <1>5 DEF Good, Healthy, Owned
    <2>2. k \in 1..Len(R.stack) /\ m \in 1..Len(R.stack) /\ k < m  BY <1>5, <1>8
    <2>3. R.stack[k].ptr # S
        <3>1. CASE R.stack[k].ptr = S
            <4>1. k < m /\ R.stack[k].ptr = R.stack[m].ptr /\ R.stack[k].ptr # 0
                BY <1>1, <1>2, <2>2, <3>1
            <4>2. R.stack[m].st = "eMember"  BY <2>1, <2>2, <4>1 DEF Shared
            <4> QED  BY <1>2, <4>2
        <3> QED  BY <3>1
    <2>4. R.stack[k].mem # S
        <3>1. CASE R.stack[k].mem = S
            <4>1. R.stack[k].mem # 0  BY <1>2, <3>1
            <4>2. R.stack[m].ptr # R.stack[k].mem  BY <2>1, <2>2, <4>1 DEF Waiting
            <4> QED  BY <1>1, <3>1, <4>2
        <3> QED  BY <3>1
    <2> QED  BY <2>3, <2>4
<1>9. Level(Q, t, e, f, g, Q.stack[m], p + 1)
    <2>1. m \in 1..m  BY <1>2
    <2>2. Q.stack[m] = R.stack[m]  BY <1>4, <2>1
    <2>3. PICK w : w = StructOf(t, e, f, Full(t, e, g, p + 1))  OBVIOUS
    <2>4. Met(e, g, p + 1) # {}  BY <1>2
    <2>5. Structured(Q, t, e, f, g, Q.stack[m], p + 1)
        BY <1>1, <1>2, <2>2, <2>3, <2>4 DEF Structured
    <2>6. Q.stack[m].st = StateOf("struct")  BY <1>2, <2>2, StatesOf
    <2>7. "struct" \notin Carriers(Q.kind)  BY DEF Carriers
    <2> QED  BY <1>2, <2>5, <2>6, <2>7 DEF Level
<1>10. Level(Q, t, e, f, i, s, p + 1)
    <2>1. s.st = StateOf("member")  BY StatesOf
    <2>2. "member" \notin Carriers(Q.kind)  BY DEF Carriers
    <2> QED  BY <1>1, <2>1, <2>2 DEF Level
<1>11. \A k \in 1..m : (k = m /\ Tag(t, at[m + 1]) = "member")
                        \/ (R.stack[k].ptr # S /\ R.stack[k].mem # S)
    BY <1>8
<1>12. m # 0 /\ Level(Q, t, e, f, at[m], Q.stack[m], p + 1)  BY <1>1, <1>2, <1>9
<1>13. Level(Q, t, e, f, at[m + 1], Q.stack[m + 1], p + 1)  BY <1>1, <1>4, <1>10
<1>14. m = 0 => Q.stack[1].del = TRUE  BY <1>2
<1> QED  BY <1>4, <1>7, <1>11, <1>12, <1>13, <1>14, ParentCloses

(* What a member gets is put into its struct, or waits. *)
LEMMA MemberJoins ==
    ASSUME NEW kind, NEW t, NEW e, NEW f, IsDocument(kind, t, e, f), NEW R, R.kind = kind, NEW at,
           NEW m \in Nat, NEW p \in Nat, NEW j, Resting(R, t, e, f, at, m, p, j),
           NEW r, Prepared(R, r, t, m, j), Tag(t, at[m + 1]) = "member",
           NEW Q, NEW S, S = R.stack[m].ptr, NEW name, NEW v,
           Joined(t, e, at[m + 1], p + 1), name = NameIn(t, e, at[m + 1]),
           v = f[PartWith(t, e, at[m + 1], "value")],
           Q.heap[S].val = addMember(r.heap[S].val, name, v)
    PROVE  Q.heap[S].val = StructOf(t, e, f, Full(t, e, at[m], p + 1))
<1>1. PICK old : old = StructOf(t, e, f, Full(t, e, at[m], p))  OBVIOUS
<1>2. S # 0 /\ S \in DOMAIN R.heap /\ R.heap[S].val = old
    <2>1. Belongs(R, t, e, f, at, m, p)  BY MemberBelongs
    <2> QED  BY <1>1, <2>1 DEF Belongs
<1>3. r.heap[S].val = old  BY <1>2 DEF Prepared, Leaves
<1>4. PICK new : new = StructOf(t, e, f, Full(t, e, at[m], p + 1))  OBVIOUS
<1>5. new = addMember(old, name, v)  BY <1>1, <1>4, StructAfter
<1> QED  BY <1>3, <1>4, <1>5

LEMMA MemberWaits ==
    ASSUME NEW kind, NEW t, NEW e, NEW f, IsDocument(kind, t, e, f), NEW R, R.kind = kind, NEW at,
           NEW m \in Nat, NEW p \in Nat, NEW j, Resting(R, t, e, f, at, m, p, j),
           NEW r, Prepared(R, r, t, m, j), Tag(t, at[m + 1]) = "member",
           NEW Q, NEW S, S = R.stack[m].ptr, Leaves(r, Q, 0), ~Joined(t, e, at[m + 1], p + 1)
    PROVE  Leaves(r, Q, S) /\ Q.heap[S].val = StructOf(t, e, f, Full(t, e, at[m], p + 1))
<1>1. PICK old : old = StructOf(t, e, f, Full(t, e, at[m], p))  OBVIOUS
<1>2. S # 0 /\ S \in DOMAIN R.heap /\ R.heap[S].val = old
    <2>1. Belongs(R, t, e, f, at, m, p)  BY MemberBelongs
    <2> QED  BY <1>1, <2>1 DEF Belongs
<1>3. S \in DOMAIN r.heap /\ r.heap[S].val = old  BY <1>2 DEF Prepared, Leaves
<1>4. PICK new : new = StructOf(t, e, f, Full(t, e, at[m], p + 1))  OBVIOUS
<1>5. new = old  BY <1>1, <1>4, StructAfter
<1>6. Q.heap[S].val = old  BY <1>2, <1>3 DEF Leaves
<1>7. 0 \notin DOMAIN r.heap  BY NoValue DEF Prepared, Good
<1>8. Leaves(r, Q, S)  BY <1>7 DEF Leaves
<1> QED  BY <1>4, <1>5, <1>6, <1>8

(* A member keeps a value to itself, or lets go of it. *)
LEMMA StillClaimed ==
    ASSUME NEW r, Good(r), NEW m \in Nat, Len(r.stack) = m + 1, NEW Q, NEW s,
           Stacked(r, Q, m, s), s.ptr = r.stack[m + 1].ptr, NEW x, ClaimedBut(r, x),
           \A h \in Alive(Q) : h \in Alive(r),
           r.stack[m + 1].mem # 0 => s.mem = r.stack[m + 1].mem \/ r.stack[m + 1].mem \notin Alive(Q),
           x \notin Alive(Q) \/ s.mem = x
    PROVE  Claimed(Q)
<1>1. ASSUME NEW h \in Alive(Q)
      PROVE  \E k \in 1..Len(Q.stack) : Q.stack[k].ptr = h \/ Q.stack[k].mem = h
    <2>1. Len(Q.stack) = m + 1 /\ Q.stack[m + 1] = s /\ \A k \in 1..m : Q.stack[k] = r.stack[k]
        BY DEF Stacked
    <2>2. h \in Alive(r) /\ h # 0  BY HeapOf DEF Good
    <2>3. CASE h = x  BY <2>1, <2>3
    <2>4. CASE h # x
        <3>1. PICK k \in 1..m + 1 : r.stack[k].ptr = h \/ r.stack[k].mem = h
            BY <2>2, <2>4 DEF ClaimedBut
        <3>2. CASE k = m + 1
            <4>1. s.ptr = h \/ s.mem = h  BY <2>2, <3>1, <3>2
            <4> QED  BY <2>1, <4>1
        <3>3. CASE k \in 1..m  BY <2>1, <3>1, <3>3
        <3> QED  BY <3>2, <3>3
    <2> QED  BY <2>3, <2>4
<1> QED  BY <1>1 DEF Claimed

LEMMA MemberValued ==
    ASSUME NEW kind, NEW t, NEW e, NEW f, IsDocument(kind, t, e, f), NEW R, R.kind = kind, NEW at,
           NEW m \in Nat, NEW p \in Nat, NEW j, Resting(R, t, e, f, at, m, p, j),
           NEW r, NEW x, Brings(R, r, x, t, f, m, j), x # 0, Tag(t, at[m + 1]) = "member",
           Tag(t, j) = "value"
    PROVE  Taken(r, MemberTakesValue(r, x, TRUE), t, e, f, at, m + 1, p + 1)
<1>1. PICK i : i = at[m + 1]  OBVIOUS
<1>2. PICK Q : Q = MemberTakesValue(r, x, TRUE)  OBVIOUS
<1>3. PICK del \in BOOLEAN : del = TRUE  OBVIOUS
<1>4. /\ Good(r) /\ Len(r.stack) = m + 1 /\ Free(r, m + 1, x) /\ Prepared(R, r, t, m, j)
      /\ r.heap[x].val = f[j] /\ (~Nameless(t) => ClaimedBut(r, x))
    BY DEF Brings, Prepared, Given
<1>5. PICK top : top = r.stack[m + 1]  OBVIOUS
<1>6. PICK old : old = R.stack[m + 1]  OBVIOUS
<1>7. top.st = old.st /\ top.ptr = old.ptr /\ top.name = old.name /\ top.mem = old.mem
    BY <1>4, <1>5, <1>6 DEF Prepared
<1>8. old.st = "eMember" /\ Joining(R, t, e, f, i, old, p)
    <2>1. Level(R, t, e, f, i, old, p)  BY <1>1, <1>6 DEF Resting
    <2> QED  BY <1>1, <2>1, StatesOf DEF Level
<1>9. PICK S : S = R.stack[m].ptr  OBVIOUS
<1>10. old.ptr = S
    <2>1. Belongs(R, t, e, f, at, m, p)  BY MemberBelongs
    <2> QED  BY <1>6, <1>9, <2>1 DEF Belongs
<1>11. i \in DOMAIN e /\ j \in Parts(e, i) /\ e[j] = p + 1
    <2>1. i \in DOMAIN e  BY <1>1, RestFacts
    <2> QED  BY <1>1, <2>1 DEF Resting
<1>12. MemberHas(t, e, i, p, j)  BY <1>1, <1>11, MemberParts
<1>13. PICK named, then : named = HasDone(t, e, i, p, "name") /\ then = HasDone(t, e, i, p + 1, "name")
    OBVIOUS
<1>14. /\ PartWith(t, e, i, "value") = j /\ ~HasDone(t, e, i, p, "value")
       /\ HasDone(t, e, i, p + 1, "value") /\ then = named
       /\ (named => HasPart(t, e, i, "name") /\ PartWith(t, e, i, "name") < j)
    BY <1>12, <1>13 DEF MemberHas
<1>15. HasPart(t, e, i, "value")  BY <1>11 DEF HasPart
<1>16. Joined(t, e, i, p + 1) <=> Counts(t, e, i) /\ then
    BY <1>1, <1>11, <1>13, <1>14, JoinedIs
<1>17. top.mem = 0  BY <1>7, <1>8, <1>14 DEF Joining
<1>18. /\ named => top.name = NameIn(t, e, i)
       /\ ~named => top.name = <<>>
    BY <1>7, <1>8, <1>13, <1>14 DEF Joining
<1>19. named => (Counts(t, e, i) <=> NameIn(t, e, i) # <<>>)  BY <1>14, <1>15 DEF Counts
<1>20. Result(r, Q)  BY <1>2, <1>3, <1>4, <1>5, <1>7, <1>8, MemberTakes
<1>21. top \in State  BY <1>4, <1>5, TopFacts
<1>22. x \in Alive(r)  BY <1>4 DEF Free
<1>23. CASE top.name # <<>>
    <2>1. PICK s : s = [top EXCEPT !.del = del]  OBVIOUS
    <2>2. /\ Stacked(r, Q, m, s) /\ Leaves(r, Q, S) /\ Drops(r, Q, x)
          /\ Q.heap[S].val = addMember(r.heap[S].val, top.name, r.heap[x].val)
        <3>1. r.stack[m + 1].st = "eMember" /\ r.stack[m + 1].name # <<>>
              /\ S = r.stack[m + 1].ptr /\ s = [r.stack[m + 1] EXCEPT !.del = del]
              /\ top.name = r.stack[m + 1].name
            BY <1>5, <1>7, <1>8, <1>10, <1>23, <2>1
        <3>2. Q = MemberTakesValue(r, x, del)  BY <1>2, <1>3
        <3>3. PICK n : n = r.stack[m + 1].name  OBVIOUS
        <3>4. n # <<>> /\ r.stack[m + 1].name # <<>>  BY <3>1, <3>3, SMTT(30)
        <3>5. /\ Stacked(r, Q, m, [r.stack[m + 1] EXCEPT !.del = del])
              /\ Leaves(r, Q, r.stack[m + 1].ptr) /\ Drops(r, Q, x)
              /\ Q.heap[r.stack[m + 1].ptr].val
                    = addMember(r.heap[r.stack[m + 1].ptr].val, r.stack[m + 1].name, r.heap[x].val)
            BY <1>4, <3>1, <3>2, <3>4, MemberGets, ZenonT(30)
        <3> QED  BY <3>1, <3>5
    <2>3. named /\ then /\ Joined(t, e, i, p + 1)  BY <1>14, <1>16, <1>18, <1>19, <1>23
    <2>4. s.st = "eMember" /\ s.mem = 0 /\ s.ptr = top.ptr
        BY <1>7, <1>8, <1>17, <1>21, <2>1 DEF State
    <2>5. Joining(Q, t, e, f, i, s, p + 1)  BY <1>13, <1>14, <2>3, <2>4 DEF Joining
    <2>6. PICK name, v : name = top.name /\ v = f[j]  OBVIOUS
    <2>7. /\ name = NameIn(t, e, i) /\ v = f[PartWith(t, e, i, "value")]
          /\ Q.heap[S].val = addMember(r.heap[S].val, name, v)
        BY <1>4, <1>14, <1>18, <2>2, <2>3, <2>6
    <2>8. Q.heap[S].val = StructOf(t, e, f, Full(t, e, at[m], p + 1))
        BY <1>1, <1>4, <1>9, <2>3, <2>7, MemberJoins
    <2>9. ASSUME ~Nameless(t) PROVE Claimed(Q)
        <3>1. \A h \in Alive(Q) : h \in Alive(r) /\ h # x  BY <2>2 DEF Drops
        <3> QED  BY <1>4, <1>5, <1>17, <2>2, <2>4, <2>9, <3>1, StillClaimed
    <2>10. Follows(Q, t, e, f, at, m + 1, p + 1)
        BY <1>1, <1>4, <1>9, <1>20, <2>2, <2>4, <2>5, <2>8, <2>9, MemberCloses
    <2> QED  BY <1>2, <1>20, <2>2, <2>10 DEF Leaves, Taken
<1>24. CASE top.name = <<>>
    <2>1. PICK s : s = [top EXCEPT !.del = del, !.mem = x]  OBVIOUS
    <2>2. Stacked(r, Q, m, s) /\ Leaves(r, Q, 0) /\ Alive(Q) = Alive(r)
        <3>1. r.stack[m + 1].st = "eMember" /\ r.stack[m + 1].name = <<>>
              /\ s = [r.stack[m + 1] EXCEPT !.del = del, !.mem = x]
            BY <1>5, <1>7, <1>8, <1>24, <2>1
        <3>2. Q = MemberTakesValue(r, x, del)  BY <1>2, <1>3
        <3> QED  BY <1>4, <3>1, <3>2, MemberGets, ZenonT(30)
    <2>3. ~Joined(t, e, i, p + 1)  BY <1>14, <1>16, <1>18, <1>19, <1>24
    <2>4. s.st = "eMember" /\ s.mem = x /\ s.ptr = top.ptr /\ s.name = <<>>
        <3>1. s.st = top.st /\ s.mem = x /\ s.ptr = top.ptr /\ s.name = top.name
            BY <1>21, <2>1 DEF State
        <3> QED  BY <1>7, <1>8, <1>24, <3>1
    <2>5. Joining(Q, t, e, f, i, s, p + 1)
        <3>1. Q.heap[x].val = f[j]
            <4>1. x \in DOMAIN r.heap  BY <1>4, <1>22, HeapOf DEF Good
            <4> QED  BY <1>4, <2>2, <4>1 DEF Leaves
        <3>2. HasDone(t, e, i, p + 1, "name") = then /\ HasDone(t, e, i, p + 1, "value")
            BY <1>13, <1>14
        <3>3. then => ~Counts(t, e, i)  BY <1>14, <1>18, <1>19, <1>24
        <3> QED  BY <1>14, <2>4, <3>1, <3>2, <3>3 DEF Joining
    <2>8. Leaves(r, Q, S) /\ Q.heap[S].val = StructOf(t, e, f, Full(t, e, at[m], p + 1))
        BY <1>1, <1>4, <1>9, <2>2, <2>3, MemberWaits
    <2>9. ASSUME ~Nameless(t) PROVE Claimed(Q)
        BY <1>4, <1>5, <1>17, <2>2, <2>4, <2>9, StillClaimed
    <2>10. Follows(Q, t, e, f, at, m + 1, p + 1)
        BY <1>1, <1>4, <1>9, <1>20, <2>2, <2>4, <2>5, <2>8, <2>9, MemberCloses
    <2> QED  BY <1>2, <1>20, <2>2, <2>10, Zenon DEF Leaves, Taken
<1> QED  BY <1>23, <1>24

LEMMA MemberNamed ==
    ASSUME NEW kind, NEW t, NEW e, NEW f, IsDocument(kind, t, e, f), NEW R, R.kind = kind, NEW at,
           NEW m \in Nat, NEW p \in Nat, NEW j, Resting(R, t, e, f, at, m, p, j),
           NEW r, Prepared(R, r, t, m, j), ~Nameless(t) => Claimed(r),
           Tag(t, at[m + 1]) = "member", Tag(t, j) = "name",
           NEW name \in Texts, name = TextIn(t, e, j)
    PROVE  Taken(r, takeName(r, name), t, e, f, at, m + 1, p + 1)
<1>1. PICK i : i = at[m + 1]  OBVIOUS
<1>2. PICK Q : Q = takeName(r, name)  OBVIOUS
<1>4. Good(r) /\ Len(r.stack) = m + 1  BY DEF Prepared
<1>5. PICK top : top = r.stack[m + 1]  OBVIOUS
<1>6. PICK old : old = R.stack[m + 1]  OBVIOUS
<1>7. top.st = old.st /\ top.ptr = old.ptr /\ top.name = old.name /\ top.mem = old.mem
    BY <1>5, <1>6 DEF Prepared
<1>8. old.st = "eMember" /\ Joining(R, t, e, f, i, old, p)
    <2>1. Level(R, t, e, f, i, old, p)  BY <1>1, <1>6 DEF Resting
    <2> QED  BY <1>1, <2>1, StatesOf DEF Level
<1>9. PICK S : S = R.stack[m].ptr  OBVIOUS
<1>10. old.ptr = S
    <2>1. Belongs(R, t, e, f, at, m, p)  BY MemberBelongs
    <2> QED  BY <1>6, <1>9, <2>1 DEF Belongs
<1>11. i \in DOMAIN e /\ j \in Parts(e, i) /\ e[j] = p + 1
    <2>1. i \in DOMAIN e  BY <1>1, RestFacts
    <2> QED  BY <1>1, <2>1 DEF Resting
<1>12. MemberHas(t, e, i, p, j)  BY <1>1, <1>11, MemberParts
<1>13. PICK valued, then :
        valued = HasDone(t, e, i, p, "value") /\ then = HasDone(t, e, i, p + 1, "value")
    OBVIOUS
<1>14. /\ PartWith(t, e, i, "name") = j /\ ~HasDone(t, e, i, p, "name")
       /\ HasDone(t, e, i, p + 1, "name") /\ then = valued
       /\ (valued => HasPart(t, e, i, "value") /\ PartWith(t, e, i, "value") < j)
    BY <1>12, <1>13 DEF MemberHas
<1>15. HasPart(t, e, i, "name") /\ name = NameIn(t, e, i)
    <2>1. HasPart(t, e, i, "name")  BY <1>11 DEF HasPart
    <2>2. name = NameIn(t, e, i)  BY <1>14 DEF NameIn
    <2> QED  BY <2>1, <2>2
<1>16. Joined(t, e, i, p + 1) <=> Counts(t, e, i) /\ then
    BY <1>1, <1>11, <1>13, <1>14, JoinedIs
<1>18. /\ valued => top.mem # 0 /\ R.heap[top.mem].val = f[PartWith(t, e, i, "value")]
       /\ ~valued => top.mem = 0
    BY <1>7, <1>8, <1>13, <1>14 DEF Joining
<1>19. valued => Counts(t, e, i)
    <2>1. j \in Nat
        <3>1. Tree(e, Len(t)) /\ j \in DOMAIN e  BY RestFacts
        <3> QED  BY <3>1, Places
    <2>2. ASSUME valued PROVE ~(j < PartWith(t, e, i, "value"))
        <3>1. PICK w : w = PartWith(t, e, i, "value")  OBVIOUS
        <3>2. w \in Parts(e, i) /\ w < j  BY <1>14, <2>2, <3>1, PartWithIs
        <3>3. w \in Nat
            <4>1. Tree(e, Len(t)) /\ w \in DOMAIN e  BY <3>2, RestFacts, PartFacts
            <4> QED  BY <4>1, Places
        <3> QED  BY <2>1, <3>1, <3>2, <3>3
    <2> QED  BY <1>14, <1>15, <2>2 DEF Counts
<1>20. Result(r, Q)  BY <1>2, <1>4, TakesName
<1>21. top \in State /\ r.stack[m + 1].mem \in Alive(r) \cup {0}  BY <1>4, <1>5, TopFacts
<1>17. ~Nameless(t) => ClaimedBut(r, 0)  BY DEF Claimed, ClaimedBut
<1>22. 0 \notin Alive(r) /\ 0 \notin Alive(Q)  BY <1>4, <1>20, HeapOf DEF Good, Result
<1>23. CASE valued
    <2>1. PICK s : s = [top EXCEPT !.mem = 0]  OBVIOUS
    <2>11. PICK y : y = top.mem  OBVIOUS
    <2>2. /\ Stacked(r, Q, m, s) /\ Leaves(r, Q, S) /\ Drops(r, Q, y)
          /\ Q.heap[S].val = addMember(r.heap[S].val, name, r.heap[y].val)
        <3>1. r.stack[m + 1].st = "eMember" /\ r.stack[m + 1].mem # 0
              /\ S = r.stack[m + 1].ptr /\ s = [r.stack[m + 1] EXCEPT !.mem = 0]
              /\ y = r.stack[m + 1].mem
            BY <1>5, <1>7, <1>8, <1>10, <1>18, <1>23, <2>1, <2>11
        <3> QED  BY <1>2, <1>4, <3>1, NameGets
    <2>3. then /\ Joined(t, e, i, p + 1)  BY <1>14, <1>16, <1>19, <1>23
    <2>4. s.st = "eMember" /\ s.mem = 0 /\ s.ptr = top.ptr
        BY <1>7, <1>8, <1>21, <2>1 DEF State
    <2>5. Joining(Q, t, e, f, i, s, p + 1)  BY <1>13, <1>14, <2>3, <2>4 DEF Joining
    <2>6. PICK v : v = r.heap[y].val  OBVIOUS
    <2>7. v = f[PartWith(t, e, i, "value")]
        <3>1. y \in DOMAIN R.heap
            <4>1. m + 1 \in 1..Len(R.stack) /\ Good(R)  BY DEF Resting
            <4>2. y # 0 /\ y = R.stack[m + 1].mem  BY <1>6, <1>7, <1>18, <1>23, <2>11
            <4> QED  BY <4>1, <4>2, StatePoints
        <3>2. r.heap[y].val = R.heap[y].val
            <4>1. Leaves(R, r, 0) /\ y # 0  BY <1>18, <1>23, <2>11 DEF Prepared
            <4> QED  BY <3>1, <4>1 DEF Leaves
        <3> QED  BY <1>18, <1>23, <2>6, <2>11, <3>2
    <2>8. Q.heap[S].val = StructOf(t, e, f, Full(t, e, at[m], p + 1))
        <3>1. PICK n : n = name  OBVIOUS
        <3>2. n = NameIn(t, e, i) /\ Q.heap[S].val = addMember(r.heap[S].val, n, v)
            BY <1>15, <2>2, <2>6, <3>1
        <3>3. Tag(t, at[m + 1]) = "member" /\ Joined(t, e, at[m + 1], p + 1)
              /\ n = NameIn(t, e, at[m + 1]) /\ v = f[PartWith(t, e, at[m + 1], "value")]
            BY <1>1, <2>3, <2>7, <3>2
        <3> QED  BY <1>9, <3>2, <3>3, MemberJoins
    <2>9. ASSUME ~Nameless(t) PROVE Claimed(Q)
        <3>1. \A h \in Alive(Q) : h \in Alive(r) /\ h # y  BY <2>2 DEF Drops
        <3>2. r.stack[m + 1].mem \notin Alive(Q) /\ s.ptr = r.stack[m + 1].ptr
            BY <1>5, <2>4, <2>11, <3>1
        <3> QED  BY <1>4, <1>17, <1>22, <2>2, <2>9, <3>1, <3>2, StillClaimed
    <2>10. Follows(Q, t, e, f, at, m + 1, p + 1)
        BY <1>1, <1>9, <1>20, <2>2, <2>4, <2>5, <2>8, <2>9, MemberCloses
    <2> QED  BY <1>2, <1>20, <2>2, <2>10 DEF Leaves, Taken
<1>24. CASE ~valued
    <2>1. PICK s : s = [top EXCEPT !.name = name]  OBVIOUS
    <2>2. Stacked(r, Q, m, s) /\ Leaves(r, Q, 0) /\ Alive(Q) = Alive(r)
        <3>1. r.stack[m + 1].st = "eMember" /\ r.stack[m + 1].mem = 0
              /\ s = [r.stack[m + 1] EXCEPT !.name = name]
            BY <1>5, <1>7, <1>8, <1>18, <1>24, <2>1
        <3> QED  BY <1>2, <1>4, <3>1, NameGets
    <2>3. ~then /\ ~Joined(t, e, i, p + 1)  BY <1>14, <1>16, <1>24
    <2>4. s.st = "eMember" /\ s.mem = 0 /\ s.ptr = top.ptr /\ s.name = name
        <3>1. s.st = top.st /\ s.mem = top.mem /\ s.ptr = top.ptr /\ s.name = name
            BY <1>21, <2>1 DEF State
        <3> QED  BY <1>7, <1>8, <1>18, <1>24, <3>1
    <2>5. Joining(Q, t, e, f, i, s, p + 1)
        BY <1>13, <1>14, <1>15, <2>3, <2>4 DEF Joining
    <2>8. Leaves(r, Q, S) /\ Q.heap[S].val = StructOf(t, e, f, Full(t, e, at[m], p + 1))
        BY <1>1, <1>9, <2>2, <2>3, MemberWaits
    <2>9. ASSUME ~Nameless(t) PROVE Claimed(Q)
        <3>1. s.ptr = r.stack[m + 1].ptr /\ r.stack[m + 1].mem = 0
            BY <1>5, <1>18, <1>24, <2>4
        <3> QED  BY <1>4, <1>17, <1>22, <2>2, <2>9, <3>1, StillClaimed
    <2>10. Follows(Q, t, e, f, at, m + 1, p + 1)
        BY <1>1, <1>9, <1>20, <2>2, <2>4, <2>5, <2>8, <2>9, MemberCloses
    <2> QED  BY <1>2, <1>20, <2>2, <2>10 DEF Leaves, Taken
<1> QED  BY <1>23, <1>24

-----------------------------------------------------------------------------
(***************************************************************************)
(* The state of the element j that closes, as it is taken from the stack:  *)
(* what it holds is what j says.                                           *)
(***************************************************************************)
Leftover(P, R, t, e, f, m, p, j, curr) ==
    /\ R.kind = P.kind /\ R.thrown = P.thrown /\ R.call = P.call /\ R.mvalue = P.mvalue
    /\ curr \in State /\ Level(R, t, e, f, j, curr, p)
    /\ Tag(t, j) = "member" => curr.ptr = R.stack[m + 1].ptr
    /\ Tag(t, j) # "member" => Free(R, m + 1, curr.ptr)
    /\ ~Nameless(t) => ClaimedBut(R, curr.ptr)

LEMMA PoppedIs ==
    ASSUME NEW P, IsParser(P), NEW n \in Nat, Len(P.stack) = n + 1
    PROVE  LET R == PoppedOf(P)
           IN  /\ R.heap = P.heap /\ R.kind = P.kind /\ R.call = P.call /\ R.mvalue = P.mvalue
               /\ R.ignored = P.ignored /\ R.thrown = P.thrown /\ Alive(R) = Alive(P)
               /\ Len(R.stack) = n /\ \A k \in 1..n : R.stack[k] = P.stack[k]
<1>1. DOMAIN P = Fields /\ P.stack \in Seq(State)  BY DEF IsParser
<1>2. PICK w, c : w = Front(P.stack) /\ c = (P.complete \/ getTopState(P).st = "eMethodResponse")
    OBVIOUS
<1>3. PICK R : R = PoppedOf(P)  OBVIOUS
<1>4. R = [P EXCEPT !.stack = w, !.complete = c]  BY <1>2, <1>3 DEF PoppedOf
<1>5. /\ R.heap = P.heap /\ R.kind = P.kind /\ R.call = P.call /\ R.mvalue = P.mvalue
      /\ R.ignored = P.ignored /\ R.thrown = P.thrown /\ R.stack = w
    BY <1>1, <1>4 DEF Fields
<1>6. Len(w) = n /\ \A k \in 1..n : w[k] = P.stack[k]  BY <1>1, <1>2, FrontOf
<1>7. Alive(R) = Alive(P)  BY <1>5 DEF Alive, Leaked
<1> QED  BY <1>3, <1>5, <1>6, <1>7

LEMMA MemberEnds ==
    ASSUME NEW kind, NEW t, NEW e, NEW f, IsDocument(kind, t, e, f), NEW j \in DOMAIN e,
           NEW p \in Nat, e[j] = p + 1, Tag(t, j) = "member", ~Nameless(t),
           NEW P, NEW s, Joining(P, t, e, f, j, s, p)
    PROVE  s.mem = 0
<1>1. Done(e, j, p) = Parts(e, j)
    <2>1. Tree(e, Len(t)) /\ e[j] <= p + 1  BY DocTree
    <2> QED  BY <2>1, AllDone
<1>2. CASE ~HasDone(t, e, j, p, "value")  BY <1>2 DEF Joining
<1>3. CASE HasDone(t, e, j, p, "value")
    <2>1. PICK k \in Parts(e, j) : Tag(t, k) = "value"  BY <1>1, <1>3 DEF HasDone
    <2>2. HasPart(t, e, j, "value")  BY <2>1 DEF HasPart
    <2>3. HasPart(t, e, j, "name")  BY <2>1, MemberTags
    <2>4. HasDone(t, e, j, p, "name")  BY <1>1, <2>3 DEF HasPart, HasDone
    <2>5. Counts(t, e, j)  BY <2>2, NamesCount
    <2> QED  BY <1>3, <2>4, <2>5 DEF Joining
<1> QED  BY <1>2, <1>3

LEMMA Rests ==
    ASSUME NEW kind, NEW t, NEW e, NEW f, IsDocument(kind, t, e, f),
           NEW P, Good(P), P.kind = kind, NEW at, NEW m \in Nat, NEW p \in Nat,
           Understands(P, t, e, f, at, m + 2, p), p < Len(t), NEW j \in DOMAIN e, e[j] = p + 1
    PROVE  /\ Resting(PoppedOf(P), t, e, f, at, m, p, j)
           /\ Leftover(P, PoppedOf(P), t, e, f, m, p, j, P.stack[m + 2])
           /\ j = at[m + 2]
<1>1. PICK R : R = PoppedOf(P)  OBVIOUS
<1>2. PICK curr : curr = P.stack[m + 2]  OBVIOUS
<1>3. Tree(e, Len(t)) /\ Len(t) \in Nat  BY DocTree
<1>4. IsParser(P) /\ Len(P.stack) = m + 2 /\ Branch(e, at, m + 2, p)  BY DEF Good, Understands
<1>5. j = at[m + 2] /\ j \in Parts(e, at[m + 1]) /\ Branch(e, at, m + 1, p + 1)
    <2>1. m + 2 - 1 = m + 1  OBVIOUS
    <2> QED  BY <1>3, <1>4, <2>1, BranchCloses
<1>6. /\ R.heap = P.heap /\ R.kind = P.kind /\ R.call = P.call /\ R.mvalue = P.mvalue
      /\ R.ignored = P.ignored /\ R.thrown = P.thrown /\ Alive(R) = Alive(P)
      /\ Len(R.stack) = m + 1 /\ \A k \in 1..m + 1 : R.stack[k] = P.stack[k]
    <2>1. m + 1 \in Nat /\ Len(P.stack) = (m + 1) + 1  BY <1>4
    <2> QED  BY <1>1, <1>4, <2>1, PoppedIs
<1>7. /\ Good(R) /\ curr \in State
      /\ \/ Free(R, m + 1, curr.ptr)
         \/ curr.st = "eMember" /\ curr.ptr = R.stack[m + 1].ptr
    BY <1>1, <1>2, <1>4, Pops DEF Ended
<1>8. Leaves(P, R, 0)  BY <1>6 DEF Leaves
<1>9. ASSUME NEW k \in 1..m + 1 PROVE Level(R, t, e, f, at[k], R.stack[k], p)
    <2>1. Level(P, t, e, f, at[k], P.stack[k], p)
        <3>1. k \in 1..m + 2  OBVIOUS
        <3> QED  BY <3>1 DEF Understands
    <2>2. SameLevel(P, R, P.stack[k], R.stack[k])  BY <1>6 DEF SameLevel
    <2> QED  BY <2>1, <2>2, LevelKept
<1>10. Level(R, t, e, f, j, curr, p)
    <2>1. Level(P, t, e, f, j, curr, p)
        <3>1. m + 2 \in 1..m + 2  OBVIOUS
        <3> QED  BY <1>2, <1>5, <3>1 DEF Understands
    <2>2. SameLevel(P, R, curr, curr)  BY <1>6 DEF SameLevel
    <2> QED  BY <2>1, <2>2, LevelKept
<1>11. R.ignored = 0 /\ R.stack[1].del
    <2>1. 1 \in 1..m + 1  OBVIOUS
    <2> QED  BY <1>6, <2>1 DEF Understands
<1>12. Resting(R, t, e, f, at, m, p, j)
    BY <1>5, <1>6, <1>7, <1>9, <1>11 DEF Resting
<1>13. curr.st = "eMember" <=> Tag(t, j) = "member"
    <2>1. curr.st = StateOf(Tag(t, j))  BY <1>10 DEF Level
    <2>2. <<Tag(t, at[m + 1]), Tag(t, j)>> \in Contents(kind) /\ kind \in Kinds
        BY <1>12, RestFacts
    <2>3. Tag(t, j) \in Tags  BY <2>2, ContentsOpen
    <2>4. StateOf("member") = "eMember" /\ "member" \in Tags  BY StatesOf, TagsAre
    <2> QED  BY <2>1, <2>3, <2>4, StatesDiffer
<1>14. ASSUME ~Nameless(t) PROVE ClaimedBut(R, curr.ptr)
    <2>1. curr.mem = 0
        <3>1. CASE curr.st = "eMember"
            <4>1. Joining(R, t, e, f, j, curr, p)  BY <1>10, <1>13, <3>1 DEF Level
            <4> QED  BY <1>13, <1>14, <3>1, <4>1, MemberEnds
        <3>2. CASE curr.st # "eMember"
            <4>1. m + 1 \in Nat /\ Len(P.stack) = (m + 1) + 1 /\ curr = P.stack[(m + 1) + 1]
                BY <1>2, <1>4
            <4> QED  BY <3>2, <4>1, TopFacts
        <3> QED  BY <3>1, <3>2
    <2>2. ASSUME NEW h \in Alive(R), h # curr.ptr
          PROVE  \E k \in 1..Len(R.stack) : R.stack[k].ptr = h \/ R.stack[k].mem = h
        <3>1. PICK k \in 1..m + 2 : P.stack[k].ptr = h \/ P.stack[k].mem = h
            BY <1>4, <1>6, <1>14 DEF Understands, Claimed
        <3>2. h # 0  BY <1>7, HeapOf DEF Good
        <3>3. k # m + 2  BY <1>2, <2>1, <2>2, <3>1, <3>2
        <3>4. k \in 1..m + 1  BY <3>3
        <3> QED  BY <1>6, <3>1, <3>4
    <2> QED  BY <2>2 DEF ClaimedBut
<1>15. curr.st = "eMember" => curr.ptr = R.stack[m + 1].ptr
    <2>1. m + 2 \in 2..Len(P.stack) /\ m + 2 - 1 = m + 1 /\ m + 1 \in 1..m + 1  BY <1>4
    <2>2. P.stack[m + 2].st = "eMember" => P.stack[m + 2].ptr = P.stack[m + 1].ptr
        BY <2>1 DEF Good, Healthy, Path
    <2> QED  BY <1>2, <1>6, <2>1, <2>2
<1>16. Leftover(P, R, t, e, f, m, p, j, curr)
    BY <1>6, <1>7, <1>10, <1>13, <1>14, <1>15 DEF Leftover
<1> QED  BY <1>1, <1>2, <1>5, <1>12, <1>16

(* What has one part has nothing if that has nothing. *)
LEMMA EmptyPart ==
    ASSUME NEW kind \in Kinds, NEW a, NEW b, <<a, b>> \in Contents(kind),
           a \in {"value", "array", "param", "fault", "params", "methodResponse"}, a # "value",
           b \notin Scalars \cup {"value"}
    PROVE  Empty(b) = Empty(a)
<1>1. \/ a = "array" /\ b = "data"
      \/ a = "params" /\ b = "param"
      \/ a = "methodResponse" /\ b \in {"params", "fault"}
    BY ContentsAre
<1> QED  BY <1>1 DEF Empty

LEMMA CarrierGives ==
    ASSUME NEW kind, NEW t, NEW e, NEW f, IsDocument(kind, t, e, f), NEW R,
           NEW p \in Nat, NEW j \in DOMAIN e, e[j] = p + 1, NEW curr,
           Carrying(R, t, e, f, j, curr, p), NEW b, b = Tag(t, j),
           b \in {"value", "array", "param", "fault", "params", "methodResponse"},
           b \in Carriers(kind), b = "value" => curr.ptr # 0
    PROVE  Given(R, t, f, curr.ptr, j)
<1>1. Tree(e, Len(t)) /\ kind \in Kinds  BY DocTree DEF IsDocument
<1>2. Done(e, j, p) = Parts(e, j)
    <2>1. e[j] <= p + 1  OBVIOUS
    <2> QED  BY <1>1, <2>1, AllDone
<1>3. b \notin Lists(kind) \cup {"member", "methodCall"}  BY <1>1, CarriersAre
<1>4. b \notin Scalars  BY DEF Scalars
<1>5. CASE Parts(e, j) = {}
    <2>1. curr.ptr = 0 /\ b # "value"  BY <1>2, <1>5 DEF Carrying
    <2>2. b \notin Scalars \cup {"value", "data", "struct"}  BY <1>4, <2>1
    <2>3. f[j] = Empty(b)  BY <1>5, <2>2, SaysIt
    <2> QED  BY <1>4, <2>1, <2>3 DEF Given
<1>6. CASE Parts(e, j) # {}
    <2>1. PICK k \in Parts(e, j) : TRUE  BY <1>6
    <2>2. Given(R, t, f, curr.ptr, k)  BY <1>2, <2>1 DEF Carrying
    <2>3. f[j] = f[k]  BY <1>3, <2>1, SaysItsPart
    <2>4. CASE curr.ptr # 0  BY <2>2, <2>3, <2>4 DEF Given
    <2>5. CASE curr.ptr = 0
        <3>1. PICK c : c = Tag(t, k)  OBVIOUS
        <3>2. c \notin Scalars \cup {"value"} /\ f[k] = Empty(c)  BY <2>2, <2>5, <3>1 DEF Given
        <3>3. <<b, c>> \in Contents(kind)  BY <2>1, <3>1, PartTag
        <3>4. Empty(c) = Empty(b)  BY <1>1, <2>5, <3>2, <3>3, EmptyPart
        <3> QED  BY <1>4, <2>3, <2>5, <3>2, <3>4 DEF Given
    <2> QED  BY <2>4, <2>5
<1> QED  BY <1>5, <1>6

LEMMA DataGives ==
    ASSUME NEW kind, NEW t, NEW e, NEW f, IsDocument(kind, t, e, f), NEW R,
           NEW p \in Nat, NEW j \in DOMAIN e, e[j] = p + 1, NEW curr,
           Collecting(R, e, f, j, curr, p), Tag(t, j) = "data"
    PROVE  Given(R, t, f, curr.ptr, j)
<1>1. Tree(e, Len(t))  BY DocTree
<1>2. Done(e, j, p) = Parts(e, j)
    <2>1. e[j] <= p + 1  OBVIOUS
    <2> QED  BY <1>1, <2>1, AllDone
<1>3. f[j] = Items(e, f, j, Cardinality(Parts(e, j)))  BY SaysIt
<1>4. PICK x : x = Items(e, f, j, Cardinality(Parts(e, j)))  OBVIOUS
<1>5. CASE Parts(e, j) = {}
    <2>1. curr.ptr = 0  BY <1>2, <1>5 DEF Collecting
    <2>2. x = Items(e, f, j, 0)  BY <1>4, <1>5, FS_EmptySet
    <2>3. PICK g : g = [k \in 1..0 |-> f[InOrder(Parts(e, j))[k]]]  OBVIOUS
    <2>4. g = <<>>  BY <2>3
    <2>5. x = Array(<<>>)  BY <2>2, <2>3, <2>4 DEF Items
    <2>6. Empty("data") = Array(<<>>) /\ "data" \notin Scalars \cup {"value"}
        BY DEF Empty, Scalars
    <2> QED  BY <1>3, <1>4, <2>1, <2>5, <2>6 DEF Given
<1>6. CASE Parts(e, j) # {}
    <2>1. curr.ptr # 0 /\ R.heap[curr.ptr].val = x  BY <1>2, <1>4, <1>6 DEF Collecting
    <2> QED  BY <1>3, <1>4, <2>1 DEF Given
<1> QED  BY <1>5, <1>6

LEMMA StructGives ==
    ASSUME NEW kind, NEW t, NEW e, NEW f, IsDocument(kind, t, e, f), NEW R,
           NEW p \in Nat, NEW j \in DOMAIN e, e[j] = p + 1, NEW curr,
           Structured(R, t, e, f, j, curr, p), Tag(t, j) = "struct"
    PROVE  Given(R, t, f, curr.ptr, j)
<1>1. Tree(e, Len(t))  BY DocTree
<1>2. Met(e, j, p) = Parts(e, j)
    <2>1. e[j] <= p + 1  OBVIOUS
    <2> QED  BY <1>1, <2>1, AllDone
<1>3. Full(t, e, j, p) = Counted(t, e, j)
    <2>1. ASSUME NEW m \in Parts(e, j), NEW k \in Parts(e, m) PROVE e[k] <= p
        <3>1. m \in DOMAIN e  BY PartFacts
        <3>2. e[m] < e[j] /\ e[k] < e[m] /\ e[m] \in Nat /\ e[k] \in Nat
            BY <1>1, <3>1, PartEnds
        <3> QED  BY <3>2
    <2> QED  BY <2>1 DEF Full, Counted
<1>4. PICK x : x = StructOf(t, e, f, Counted(t, e, j))  OBVIOUS
<1>5. f[j] = x  BY <1>4, SaysIt
<1>6. CASE Parts(e, j) = {}
    <2>1. curr.ptr = 0  BY <1>2, <1>6 DEF Structured
    <2>2. Counted(t, e, j) = {}  BY <1>6 DEF Counted
    <2>3. x = Struct(<<>>)  BY <1>4, <2>2, NoMembers
    <2>6. Empty("struct") = Struct(<<>>) /\ "struct" \notin Scalars \cup {"value"}
        BY DEF Empty, Scalars
    <2> QED  BY <1>5, <2>1, <2>3, <2>6 DEF Given
<1>7. CASE Parts(e, j) # {}
    <2>1. curr.ptr # 0 /\ R.heap[curr.ptr].val = x  BY <1>2, <1>3, <1>4, <1>7 DEF Structured
    <2> QED  BY <1>5, <2>1 DEF Given
<1> QED  BY <1>6, <1>7

LEMMA Gives ==
    ASSUME NEW kind, NEW t, NEW e, NEW f, IsDocument(kind, t, e, f), NEW R, R.kind = kind,
           NEW p \in Nat, NEW j \in DOMAIN e, e[j] = p + 1, NEW curr,
           Level(R, t, e, f, j, curr, p),
           Tag(t, j) \in (Carriers(kind) \ {""}) \cup {"data", "struct"},
           Tag(t, j) = "value" => curr.ptr # 0
    PROVE  Given(R, t, f, curr.ptr, j)
<1>1. PICK b : b = Tag(t, j)  OBVIOUS
<1>2. CASE b = "data"
    <2>1. Collecting(R, e, f, j, curr, p)  BY <1>1, <1>2 DEF Level
    <2> QED  BY <1>1, <1>2, <2>1, DataGives
<1>3. CASE b = "struct"
    <2>1. Structured(R, t, e, f, j, curr, p)  BY <1>1, <1>3 DEF Level
    <2> QED  BY <1>1, <1>3, <2>1, StructGives
<1>4. CASE b \in Carriers(kind) \ {""}
    <2>1. Carrying(R, t, e, f, j, curr, p)  BY <1>1, <1>4 DEF Level
    <2>2. b \in {"value", "array", "param", "fault", "params", "methodResponse"}
        BY <1>4 DEF Carriers
    <2>3. b \in Carriers(kind) /\ (b = "value" => curr.ptr # 0)  BY <1>1, <1>4
    <2> QED  BY <1>1, <2>1, <2>2, <2>3, CarrierGives
<1> QED  BY <1>1, <1>2, <1>3, <1>4

(***************************************************************************)
(* The values that closing tags make.                                      *)
(***************************************************************************)
ScalarStates == {"eBoolean", "eInt", "eI4", "eDouble", "eString", "eBase64", "eDate"}

LEMMA ScalarIs ==
    ASSUME NEW kind, NEW t, NEW e, NEW f, IsDocument(kind, t, e, f), NEW j \in DOMAIN e,
           Tag(t, j) \in Scalars, NEW curr, curr.st = StateOf(Tag(t, j)),
           curr.cdata = TextIn(t, e, j)
    PROVE  ScalarValue(curr) = f[j] /\ curr.st \in ScalarStates
<1>1. PICK b, text : b = Tag(t, j) /\ text = TextIn(t, e, j)  OBVIOUS
<1>2. f[j] = TypedText(b, text)  BY <1>1, SaysIt
<1>3. b \in {"boolean", "int", "i4", "double", "string", "base64", "dateTime.iso8601"}
    BY <1>1 DEF Scalars
<1>4. curr.st = StateOf(b) /\ curr.cdata = text  BY <1>1
<1>5. CASE b = "boolean"
    BY <1>2, <1>4, <1>5, StatesOf DEF ScalarValue, TypedText, ScalarStates
<1>6. CASE b = "int"  BY <1>2, <1>4, <1>6, StatesOf DEF ScalarValue, TypedText, ScalarStates
<1>7. CASE b = "i4"  BY <1>2, <1>4, <1>7, StatesOf DEF ScalarValue, TypedText, ScalarStates
<1>8. CASE b = "double"  BY <1>2, <1>4, <1>8, StatesOf DEF ScalarValue, TypedText, ScalarStates
<1>9. CASE b = "string"  BY <1>2, <1>4, <1>9, StatesOf DEF ScalarValue, TypedText, ScalarStates
<1>10. CASE b = "base64"
    BY <1>2, <1>4, <1>10, StatesOf DEF ScalarValue, TypedText, ScalarStates
<1>11. CASE b = "dateTime.iso8601"
    BY <1>2, <1>4, <1>11, StatesOf DEF ScalarValue, TypedText, ScalarStates
<1> QED  BY <1>3, <1>5, <1>6, <1>7, <1>8, <1>9, <1>10, <1>11

LEMMA DefaultIs ==
    ASSUME NEW kind, NEW t, NEW e, NEW f, IsDocument(kind, t, e, f), NEW R, R.kind = kind,
           NEW p \in Nat, NEW j \in DOMAIN e, e[j] = p + 1, NEW curr,
           Level(R, t, e, f, j, curr, p), Tag(t, j) = "value", curr.ptr = 0,
           Parts(e, j) = {} => curr.cdata = TextIn(t, e, j)
    PROVE  DefaultValue(curr) = f[j]
<1>1. Tree(e, Len(t)) /\ kind \in Kinds  BY DocTree DEF IsDocument
<1>2. Done(e, j, p) = Parts(e, j)
    <2>1. e[j] <= p + 1  OBVIOUS
    <2> QED  BY <1>1, <2>1, AllDone
<1>3. Carrying(R, t, e, f, j, curr, p)
    <2>1. Tag(t, j) \in Carriers(R.kind)  BY DEF Carriers
    <2> QED  BY <2>1 DEF Level
<1>4. CASE Parts(e, j) = {}
    <2>1. f[j] = RpcString(TextIn(t, e, j))  BY <1>4, SaysIt
    <2>2. curr.prev = "eUnknown"  BY <1>2, <1>3, <1>4 DEF Carrying
    <2> QED  BY <1>4, <2>1, <2>2 DEF DefaultValue
<1>5. CASE Parts(e, j) # {}
    <2>1. PICK k \in Parts(e, j) : TRUE  BY <1>5
    <2>2. PICK c : c = Tag(t, k)  OBVIOUS
    <2>3. c \notin Scalars \cup {"value"} /\ f[k] = Empty(c) /\ curr.prev = StateOf(c)
        BY <1>2, <1>3, <2>1, <2>2 DEF Carrying, Given
    <2>4. "value" \notin Lists(kind) \cup {"member", "methodCall"}  BY DEF Lists
    <2>5. f[j] = f[k]  BY <2>1, <2>4, SaysItsPart
    <2>6. <<"value", c>> \in Contents(kind)  BY <2>1, <2>2, PartTag
    <2>7. c \in {"array", "struct"}  BY <1>1, <2>3, <2>6, ContentsAre
    <2>8. CASE c = "array"  BY <2>3, <2>5, <2>8, StatesOf DEF DefaultValue, Empty
    <2>9. CASE c = "struct"  BY <2>3, <2>5, <2>9, StatesOf DEF DefaultValue, Empty
    <2> QED  BY <2>7, <2>8, <2>9
<1> QED  BY <1>4, <1>5

(* Whoever the parent is, it takes the value. *)
LEMMA TakesWell ==
    ASSUME NEW kind, NEW t, NEW e, NEW f, IsDocument(kind, t, e, f), NEW R, R.kind = kind, NEW at,
           NEW m \in Nat, NEW p \in Nat, NEW j, Resting(R, t, e, f, at, m, p, j),
           NEW r, NEW x, Brings(R, r, x, t, f, m, j), Tag(t, j) \notin {"member", "name"},
           kind = "call" => Tag(t, j) \notin {"methodCall", "methodName", "params", "param"},
           Tag(t, j) = "value" => x # 0
    PROVE  Taken(r, takeValue(r, x, TRUE), t, e, f, at, m + 1, p + 1)
<1>1. PICK a, b : a = Tag(t, at[m + 1]) /\ b = Tag(t, j)  OBVIOUS
<1>2. <<a, b>> \in Contents(kind) /\ kind \in Kinds  BY <1>1, RestFacts
<1>3. \/ a = "data" /\ b = "value"
      \/ a = "member" /\ b = "value"
      \/ a \in Carriers(kind)
    <2>1. b \notin {"member", "name"}
          /\ (kind = "call" => b \notin {"methodCall", "methodName", "params", "param"})
        BY <1>1
    <2> QED  BY <1>2, <2>1, ContentsAre DEF Carriers
<1>4. PICK top : top = r.stack[m + 1]  OBVIOUS
<1>5. Good(r) /\ Len(r.stack) = m + 1 /\ top.st = R.stack[m + 1].st  BY <1>4 DEF Brings, Prepared
<1>6. getTopState(r) = top  BY <1>4, <1>5, TopOf DEF Good
<1>7. top.st = StateOf(a)
    <2>1. Level(R, t, e, f, at[m + 1], R.stack[m + 1], p)  BY DEF Resting
    <2> QED  BY <1>1, <1>5, <2>1 DEF Level
<1>8. PICK Q : Q = takeValue(r, x, TRUE)  OBVIOUS
<1>9. CASE a = "data" /\ b = "value"
    <2>1. top.st = "eData"  BY <1>7, <1>9, StatesOf
    <2>2. Q = ArrayTakesValue(r, x, TRUE)  BY <1>6, <1>8, <2>1 DEF takeValue
    <2>3. Taken(r, Q, t, e, f, at, m + 1, p + 1)
        <3>1. x # 0 /\ Tag(t, at[m + 1]) = "data"  BY <1>1, <1>9
        <3> HIDE <1>9
        <3> QED  BY <2>2, <3>1, DataCloses
    <2> QED  BY <1>8, <2>3
<1>10. CASE a = "member" /\ b = "value"
    <2>1. top.st = "eMember"  BY <1>7, <1>10, StatesOf
    <2>2. Q = MemberTakesValue(r, x, TRUE)  BY <1>6, <1>8, <2>1 DEF takeValue
    <2>3. Taken(r, Q, t, e, f, at, m + 1, p + 1)
        <3>1. x # 0 /\ Tag(t, at[m + 1]) = "member" /\ Tag(t, j) = "value"  BY <1>1, <1>10
        <3> HIDE <1>10
        <3> QED  BY <2>2, <3>1, MemberValued
    <2> QED  BY <1>8, <2>3
<1>11. CASE a \in Carriers(kind)
    <2>1. top.st # "eMember" /\ top.st # "eData"  BY <1>2, <1>7, <1>11, CarriersAre
    <2>2. Q = StateTakesValue(r, x, TRUE)  BY <1>6, <1>8, <2>1 DEF takeValue
    <2>3. Follows(Q, t, e, f, at, m + 1, p + 1) /\ Result(r, Q) /\ Leaves(r, Q, 0)
        BY <1>1, <1>11, <2>2, CarrierCloses
    <2> QED  BY <1>8, <2>3 DEF Taken, Leaves
<1> QED  BY <1>3, <1>9, <1>10, <1>11

(* </value>, and what is in it, leave a note in the state below. *)
LEMMA Notes ==
    ASSUME NEW kind, NEW t, NEW e, NEW f, IsDocument(kind, t, e, f), NEW R, NEW at,
           NEW m \in Nat, NEW p \in Nat, NEW j, Resting(R, t, e, f, at, m, p, j),
           NEW st \in StateNames, st = StateOf(Tag(t, j)), NEW r,
           r = WithTop(R, [getTopState(R) EXCEPT !.prev = st])
    PROVE  /\ Prepared(R, r, t, m, j) /\ Like(R, r) /\ Leaves(R, r, 0) /\ Alive(r) = Alive(R)
           /\ \A x : (Free(R, m + 1, x) => Free(r, m + 1, x)) /\ (ClaimedBut(R, x) => ClaimedBut(r, x))
<1>1. Good(R) /\ Len(R.stack) = m + 1 /\ IsParser(R)  BY DEF Resting, Good
<1>2. PICK top : top = R.stack[m + 1]  OBVIOUS
<1>3. getTopState(R) = top /\ top \in State  BY <1>1, <1>2, TopOf
<1>4. PICK s : s = [top EXCEPT !.prev = st]  OBVIOUS
<1>5. /\ s \in State /\ s.st = top.st /\ s.ptr = top.ptr /\ s.name = top.name /\ s.mem = top.mem
      /\ s.prev = st
    BY <1>3, <1>4 DEF State
<1>6. r = WithTop(R, s)  BY <1>3, <1>4
<1>7. s.mem # 0 => s.st = "eMember" /\ s.mem # s.ptr  BY <1>1, <1>2, <1>5, TopFacts
<1>8. Result(R, r) /\ Stacked(R, r, m, s)  BY <1>1, <1>2, <1>5, <1>6, <1>7, TopChanges
<1>9. Leaves(R, r, 0) /\ Alive(r) = Alive(R)  BY <1>1, <1>6, TopLeaves
<1>10. Len(r.stack) = m + 1 /\ r.stack[m + 1] = s /\ \A k \in 1..m : r.stack[k] = R.stack[k]
    BY <1>8 DEF Stacked
<1>11. Good(r) /\ Like(R, r)  BY <1>8 DEF Result
<1>12. Prepared(R, r, t, m, j)
    <2>1. r.stack[m + 1].st = "eValue" => r.stack[m + 1].prev = StateOf(Tag(t, j))
        BY <1>5, <1>10
    <2> QED  BY <1>2, <1>5, <1>9, <1>10, <1>11, <2>1 DEF Prepared, Like
<1>13. \A k \in 1..m + 1 : r.stack[k].ptr = R.stack[k].ptr /\ r.stack[k].mem = R.stack[k].mem
    <2>1. ASSUME NEW k \in 1..m + 1
          PROVE  r.stack[k].ptr = R.stack[k].ptr /\ r.stack[k].mem = R.stack[k].mem
        <3>1. k = m + 1 \/ k \in 1..m  OBVIOUS
        <3> QED  BY <1>2, <1>5, <1>10, <3>1
    <2> QED  BY <2>1
<1>14. ASSUME NEW x, Free(R, m + 1, x) PROVE Free(r, m + 1, x)
    BY <1>9, <1>13, <1>14 DEF Free, Apart
<1>15. ASSUME NEW x, ClaimedBut(R, x) PROVE ClaimedBut(r, x)
    <2>1. ASSUME NEW h \in Alive(r), h # x
          PROVE  \E k \in 1..Len(r.stack) : r.stack[k].ptr = h \/ r.stack[k].mem = h
        <3>1. PICK k \in 1..m + 1 : R.stack[k].ptr = h \/ R.stack[k].mem = h
            BY <1>1, <1>9, <1>15, <2>1 DEF ClaimedBut
        <3> QED  BY <1>10, <1>13, <3>1
    <2> QED  BY <2>1 DEF ClaimedBut
<1> QED  BY <1>9, <1>11, <1>12, <1>14, <1>15

LEMMA NewBrings ==
    ASSUME NEW R, NEW q, NEW t, NEW f, NEW m \in Nat, NEW j, Prepared(R, q, t, m, j),
           ~Nameless(t) => Claimed(q), NEW v, v = f[j],
           NEW r, r = New(q, v), NEW x, x = NewPtr(q)
    PROVE  Brings(R, r, x, t, f, m, j) /\ x # 0 /\ Like(q, r) /\ Leaves(q, r, 0)
<1>1. Good(q) /\ IsParser(q) /\ Len(q.stack) = m + 1  BY DEF Prepared, Good
<1>3. Result(q, r) /\ SameStack(q, r) /\ x # 0 /\ x \in Alive(r) /\ Apart(r, m + 1, x)
    BY <1>1, NewChanges
<1>4. Leaves(q, r, 0) /\ r.heap[x].val = v  BY <1>1, NewLeaves
<1>11. \A h \in Alive(r) : h \in Alive(q) \/ h = x
    <2>1. Alive(New(q, v)) = Alive(q) \cup {NewPtr(q)}  BY <1>1, NewOp
    <2> QED  BY <2>1
<1>5. r.stack = q.stack /\ Good(r) /\ Like(q, r)  BY <1>3 DEF Result, SameStack
<1>6. Leaves(R, r, 0)
    <2>1. Leaves(R, q, 0)  BY DEF Prepared
    <2> QED  BY <1>4, <2>1, LeavesTwice
<1>7. Prepared(R, r, t, m, j)  BY <1>5, <1>6 DEF Prepared, Like
<1>8. Free(r, m + 1, x)  BY <1>3 DEF Free
<1>9. ~Nameless(t) => ClaimedBut(r, x)  BY <1>5, <1>11 DEF Claimed, ClaimedBut
<1>10. Given(r, t, f, x, j)  BY <1>3, <1>4 DEF Given
<1> QED  BY <1>3, <1>4, <1>5, <1>7, <1>8, <1>9, <1>10 DEF Brings

LEMMA AllClaimed ==
    ASSUME NEW r, Good(r), NEW x, ClaimedBut(r, x),
           x = 0 \/ \E k \in 1..Len(r.stack) : r.stack[k].ptr = x
    PROVE  Claimed(r)
<1>1. 0 \notin Alive(r)  BY HeapOf DEF Good
<1> QED  BY <1>1 DEF Claimed, ClaimedBut

(* Neither scalars nor names have anything but their text. *)
LEMMA NothingHeld ==
    ASSUME NEW R, R.kind \in Kinds, NEW t, NEW e, NEW f, NEW j, NEW curr, NEW p,
           Level(R, t, e, f, j, curr, p), Tag(t, j) \in Scalars \cup {"name"}
    PROVE  curr.ptr = 0
<1>1. PICK b : b = Tag(t, j)  OBVIOUS
<1>2. b \notin {"value", "array", "param", "fault", "params", "methodResponse", "data", "struct",
                "member", ""}
    BY <1>1 DEF Scalars
<1>3. b \notin Carriers(R.kind) \cup {"data", "struct", "member"}  BY <1>2 DEF Carriers
<1> QED  BY <1>1, <1>3 DEF Level

LEMMA NewTaken ==
    ASSUME NEW kind, NEW t, NEW e, NEW f, IsDocument(kind, t, e, f), NEW R, R.kind = kind, NEW at,
           NEW m \in Nat, NEW p \in Nat, NEW j, Resting(R, t, e, f, at, m, p, j),
           NEW q, Prepared(R, q, t, m, j), Like(R, q), Leaves(R, q, 0), ~Nameless(t) => Claimed(q),
           Tag(t, j) \in Scalars \cup {"value"}, NEW v, v = f[j],
           NEW Q, Q = takeNew(q, v)
    PROVE  /\ Follows(Q, t, e, f, at, m + 1, p + 1)
           /\ Q.call = R.call /\ Q.mvalue = R.mvalue
<1>1. PICK r, x : r = New(q, v) /\ x = NewPtr(q)  OBVIOUS
<1>2. /\ Brings(R, r, x, t, f, m, j) /\ x # 0
      /\ Like(q, r) /\ Leaves(q, r, 0)
    BY <1>1, NewBrings
<1>4. Q = takeValue(r, x, TRUE)  BY <1>1 DEF takeNew
<1>5. PICK b : b = Tag(t, j)  OBVIOUS
<1>6. b \notin {"member", "name"} /\ b \notin {"methodCall", "methodName", "params", "param"}
    BY <1>5 DEF Scalars
<1>7. Taken(r, Q, t, e, f, at, m + 1, p + 1)
    <2>1. Tag(t, j) \notin {"member", "name"}
          /\ (kind = "call" => Tag(t, j) \notin {"methodCall", "methodName", "params", "param"})
          /\ (Tag(t, j) = "value" => x # 0)
        BY <1>2, <1>5, <1>6
    <2>2. Brings(R, r, x, t, f, m, j)  BY <1>2
    <2> QED  BY <1>4, <2>1, <2>2, TakesWell
<1> QED  BY <1>2, <1>7 DEF Taken, Leaves

ClosingTags == Scalars \cup {"value", "array", "data", "struct", "member", "name"}

LEMMA ValueCloses ==
    ASSUME NEW kind, NEW t, NEW e, NEW f, IsDocument(kind, t, e, f), NEW R, R.kind = kind, NEW at,
           NEW m \in Nat, NEW p \in Nat, NEW j, Resting(R, t, e, f, at, m, p, j),
           NEW P, NEW curr, Leftover(P, R, t, e, f, m, p, j, curr),
           Tag(t, j) \in ClosingTags, OnlyText(t, e, j) => curr.cdata = TextIn(t, e, j)
    PROVE  Taken(R, ValueEnd(R, curr), t, e, f, at, m + 1, p + 1)
<1>1. PICK b : b = Tag(t, j)  OBVIOUS
<1>2. /\ curr \in State /\ Level(R, t, e, f, j, curr, p)
      /\ IF b = "member" THEN curr.ptr = R.stack[m + 1].ptr ELSE Free(R, m + 1, curr.ptr)
      /\ ~Nameless(t) => ClaimedBut(R, curr.ptr)
    BY <1>1 DEF Leftover
<1>3. Good(R) /\ Len(R.stack) = m + 1  BY DEF Resting
<1>4. kind \in Kinds /\ <<Tag(t, at[m + 1]), b>> \in Contents(kind) /\ j \in DOMAIN e
    BY <1>1, RestFacts
<1>5. curr.st = StateOf(b) /\ curr.st \in StateNames  BY <1>1, <1>2 DEF Level, State
<1>6. e[j] = p + 1  BY DEF Resting
<1>7. PICK Q : Q = ValueEnd(R, curr)  OBVIOUS
<1>8. PICK q : q = WithTop(R, [getTopState(R) EXCEPT !.prev = curr.st])  OBVIOUS
<1>9. /\ Prepared(R, q, t, m, j) /\ Like(R, q) /\ Leaves(R, q, 0) /\ Alive(q) = Alive(R)
      /\ \A x : (Free(R, m + 1, x) => Free(q, m + 1, x)) /\ (ClaimedBut(R, x) => ClaimedBut(q, x))
    <2>1. PICK st : st = curr.st  OBVIOUS
    <2>2. st \in StateNames /\ st = StateOf(Tag(t, j))
          /\ q = WithTop(R, [getTopState(R) EXCEPT !.prev = st])
        BY <1>1, <1>5, <1>8, <2>1
    <2> QED  BY <2>2, Notes
<1>10. Good(q) /\ Len(q.stack) = m + 1 /\ q.stack[m + 1].ptr = R.stack[m + 1].ptr
    BY <1>9 DEF Prepared
<1>11. Q = CASE curr.st \in {"eBoolean", "eInt", "eI4", "eDouble", "eString", "eBase64", "eDate"} ->
                    takeNew(q, ScalarValue(curr))
             [] curr.st = "eName" -> takeName(q, curr.cdata)
             [] curr.st = "eValue" /\ curr.ptr = 0 -> takeNew(q, DefaultValue(curr))
             [] OTHER -> takeValue(q, curr.ptr, TRUE)
    BY <1>7, <1>8 DEF ValueEnd
<1>12. Follows(Q, t, e, f, at, m + 1, p + 1) /\ Q.call = R.call /\ Q.mvalue = R.mvalue
    <2>1. CASE b \in Scalars
        <3>1. curr.ptr = 0  BY <1>1, <1>2, <1>4, <2>1, NothingHeld
        <3>2. ~Nameless(t) => Claimed(q)  BY <1>2, <1>9, <1>10, <3>1, AllClaimed
        <3>3. OnlyText(t, e, j)  BY <1>1, <2>1 DEF OnlyText
        <3>4. PICK v : v = ScalarValue(curr)  OBVIOUS
        <3>5. v = f[j] /\ curr.st \in ScalarStates
            BY <1>1, <1>4, <1>5, <2>1, <3>3, <3>4, ScalarIs
        <3>6. Q = takeNew(q, v)  BY <1>11, <3>4, <3>5 DEF ScalarStates
        <3>7. Tag(t, j) \in Scalars \cup {"value"}  BY <1>1, <2>1
        <3> QED  BY <1>9, <3>2, <3>5, <3>6, <3>7, NewTaken
    <2>2. CASE b = "value" /\ curr.ptr = 0
        <3>2. ~Nameless(t) => Claimed(q)  BY <1>2, <1>9, <1>10, <2>2, AllClaimed
        <3>3. Parts(e, j) = {} => curr.cdata = TextIn(t, e, j)  BY <1>1, <2>2 DEF OnlyText
        <3>4. PICK v : v = DefaultValue(curr)  OBVIOUS
        <3>5. v = f[j]
            <4>1. Level(R, t, e, f, j, curr, p) /\ Tag(t, j) = "value" /\ curr.ptr = 0
                BY <1>1, <1>2, <2>2
            <4>2. DefaultValue(curr) = f[j]  BY <1>4, <1>6, <3>3, <4>1, DefaultIs
            <4> QED  BY <3>4, <4>2
        <3>6. curr.st = "eValue"  BY <1>5, <2>2, StatesOf
        <3>8. Q = takeNew(q, v)  BY <1>11, <2>2, <3>4, <3>6
        <3>7. Tag(t, j) \in Scalars \cup {"value"}  BY <1>1, <2>2
        <3> QED  BY <1>9, <3>2, <3>5, <3>7, <3>8, NewTaken
    <2>3. CASE b = "name"
        <3>1. curr.ptr = 0  BY <1>1, <1>2, <1>4, <2>3, NothingHeld
        <3>2. ~Nameless(t) => Claimed(q)  BY <1>2, <1>9, <1>10, <3>1, AllClaimed
        <3>3. OnlyText(t, e, j)  BY <1>1, <2>3 DEF OnlyText
        <3>4. PICK text : text = curr.cdata  OBVIOUS
        <3>5. text \in Texts /\ text = TextIn(t, e, j)  BY <1>2, <3>3, <3>4 DEF State
        <3>6. curr.st = "eName"  BY <1>5, <2>3, StatesOf
        <3>7. Q = takeName(q, text)  BY <1>11, <3>4, <3>6
        <3>8. Tag(t, at[m + 1]) = "member" /\ Tag(t, j) = "name"
            <4>1. "name" \notin Scalars  BY DEF Scalars
            <4> QED  BY <1>1, <1>4, <2>3, <4>1, ContentsAre
        <3>9. Taken(q, Q, t, e, f, at, m + 1, p + 1)
            BY <1>9, <3>2, <3>5, <3>7, <3>8, MemberNamed
        <3> QED  BY <1>9, <3>9 DEF Taken, Leaves
    <2>4. CASE b = "member"
        <3>1. curr.st = "eMember"  BY <1>5, <2>4, StatesOf
        <3>2. PICK x : x = curr.ptr  OBVIOUS
        <3>3. Q = takeValue(q, x, TRUE)  BY <1>11, <3>1, <3>2
        <3>4. Tag(t, at[m + 1]) = "struct"
            <4>1. "member" \notin Scalars  BY DEF Scalars
            <4> QED  BY <1>1, <1>4, <2>4, <4>1, ContentsAre
        <3>5. q.stack[m + 1].st = "eStruct" /\ R.stack[m + 1].st = "eStruct"
            <4>1. Level(R, t, e, f, at[m + 1], R.stack[m + 1], p)  BY DEF Resting
            <4> QED  BY <1>9, <3>4, <4>1, StatesOf DEF Level, Prepared
        <3>6. x = R.stack[m + 1].ptr
            BY <1>2, <2>4, <3>2
        <3>7. Q = StateTakesValue(q, x, TRUE)
            <4>1. getTopState(q) = q.stack[m + 1]  BY <1>10, TopOf DEF Good
            <4> QED  BY <3>3, <3>5, <4>1 DEF takeValue
        <3>8. ~Nameless(t) => Claimed(q)
            <4>1. \E k \in 1..Len(q.stack) : q.stack[k].ptr = x  BY <1>10, <3>6
            <4> QED  BY <1>2, <1>9, <1>10, <3>2, <4>1, AllClaimed
        <3>9. Follows(Q, t, e, f, at, m + 1, p + 1) /\ Leaves(q, Q, 0)
            BY <1>9, <3>4, <3>6, <3>7, <3>8, StructCloses
        <3> QED  BY <1>9, <3>9 DEF Leaves
    <2>5. CASE b \in {"value", "array", "data", "struct"} /\ (b = "value" => curr.ptr # 0)
        <3>1. PICK x : x = curr.ptr  OBVIOUS
        <3>2. Q = takeValue(q, x, TRUE)
            BY <1>5, <1>11, <2>5, <3>1, StatesOf
        <3>3. Given(R, t, f, x, j)
            <4>1. b \in (Carriers(kind) \ {""}) \cup {"data", "struct"}
                BY <2>5 DEF Carriers
            <4> QED  BY <1>1, <1>2, <1>4, <1>6, <2>5, <3>1, <4>1, Gives
        <3>4. Free(q, m + 1, x)  BY <1>2, <1>9, <2>5, <3>1
        <3>5. Given(q, t, f, x, j)
            <4>1. x # 0 => x \in DOMAIN R.heap
                <5>1. Free(R, m + 1, x)  BY <1>2, <2>5, <3>1
                <5> QED  BY <1>3, <5>1, HeapOf DEF Free, Good
            <4> QED  BY <1>9, <3>3, <4>1 DEF Given, Leaves
        <3>6. Brings(R, q, x, t, f, m, j)
            BY <1>2, <1>9, <3>1, <3>4, <3>5 DEF Brings
        <3>7. Tag(t, j) \notin {"member", "name"}
              /\ (kind = "call" => Tag(t, j) \notin {"methodCall", "methodName", "params", "param"})
              /\ (Tag(t, j) = "value" => x # 0)
            BY <1>1, <2>5, <3>1
        <3>8. Taken(q, Q, t, e, f, at, m + 1, p + 1)  BY <3>2, <3>6, <3>7, TakesWell
        <3> QED  BY <1>9, <3>8 DEF Taken, Leaves
    <2> QED  BY <1>1, <2>1, <2>2, <2>3, <2>4, <2>5 DEF ClosingTags
<1>13. Result(R, Q)
    <2>1. \/ Free(R, m + 1, curr.ptr)
          \/ /\ curr.st = "eMember" /\ curr.ptr = R.stack[m + 1].ptr
             /\ R.stack[m + 1].st = "eStruct"
        <3>1. ASSUME b = "member" PROVE curr.st = "eMember" /\ R.stack[m + 1].st = "eStruct"
            <4>1. "member" \notin Scalars  BY DEF Scalars
            <4>2. Tag(t, at[m + 1]) = "struct"
                <5>1. PICK a : a = Tag(t, at[m + 1])  OBVIOUS
                <5>2. <<a, b>> \in Contents(kind) /\ kind \in Kinds  BY <1>4, <5>1
                <5>3. a = "struct"  BY <3>1, <4>1, <5>2, ContentsAre
                <5> QED  BY <5>1, <5>3
            <4>3. Level(R, t, e, f, at[m + 1], R.stack[m + 1], p)  BY DEF Resting
            <4> QED  BY <1>5, <3>1, <4>2, <4>3, StatesOf DEF Level
        <3> QED  BY <1>2, <3>1
    <2> QED  BY <1>2, <1>3, <1>7, <2>1, ValueEnds
<1> QED  BY <1>7, <1>12, <1>13 DEF Taken

-----------------------------------------------------------------------------
(***************************************************************************)
(* What calls and responses are given, and when it stays.                  *)
(***************************************************************************)
LEMMA HasTag ==
    ASSUME NEW kind, NEW t, NEW e, NEW f, IsDocument(kind, t, e, f), NEW i \in DOMAIN e, i # 0
    PROVE  Tag(t, i) # ""
<1>1. Tree(e, Len(t)) /\ kind \in Kinds  BY DocTree DEF IsDocument
<1>3. PICK a \in DOMAIN e : i \in Parts(e, a)  BY <1>1, HasParent
<1>4. PICK c, b : c = Tag(t, a) /\ b = Tag(t, i)  OBVIOUS
<1>5. <<c, b>> \in Contents(kind)  BY <1>3, <1>4, PartTag
<1>6. b \in Tags  BY <1>1, <1>5, ContentsOpen
<1> QED  BY <1>4, <1>6 DEF Tags

LEMMA ParentOf ==
    ASSUME NEW kind, NEW t, NEW e, NEW f, IsDocument(kind, t, e, f), NEW j \in DOMAIN e, j # 0
    PROVE  \E i \in DOMAIN e :
            j \in Parts(e, i) /\ <<Tag(t, i), Tag(t, j)>> \in Contents(kind)
<1>1. Tree(e, Len(t))  BY DocTree
<1>2. PICK i \in DOMAIN e : j \in Parts(e, i)  BY <1>1, HasParent
<1>3. <<Tag(t, i), Tag(t, j)>> \in Contents(kind)  BY <1>2, PartTag
<1> QED  BY <1>2, <1>3

(* Of the elements of a call that are no lists there is one each. *)
LEMMA OneOfParent ==
    ASSUME NEW kind, NEW t, NEW e, NEW f, IsDocument(kind, t, e, f),
           NEW c, c \notin Lists(kind), NEW b,
           \A i, j \in DOMAIN e : Tag(t, i) = c /\ Tag(t, j) = c => i = j,
           NEW i \in DOMAIN e, NEW j \in DOMAIN e, Tag(t, i) = b, Tag(t, j) = b, i # 0, j # 0,
           \A a : <<a, b>> \in Contents(kind) => a = c
    PROVE  i = j
<1>1. PICK x \in DOMAIN e : i \in Parts(e, x) /\ <<Tag(t, x), Tag(t, i)>> \in Contents(kind)
    BY ParentOf
<1>2. PICK y \in DOMAIN e : j \in Parts(e, y) /\ <<Tag(t, y), Tag(t, j)>> \in Contents(kind)
    BY ParentOf
<1>3. Tag(t, x) = c /\ Tag(t, y) = c  BY <1>1, <1>2
<1>4. x = y  BY <1>3
<1> QED  BY <1>1, <1>2, <1>3, <1>4, OneOfATag

OnlyIn(kind, b, c) == \A a : <<a, b>> \in Contents(kind) => a = c
OneEach(t, e, b) == \A i, j \in DOMAIN e : Tag(t, i) = b /\ Tag(t, j) = b => i = j

LEMMA CallParts ==
    ASSUME NEW kind, NEW t, NEW e, NEW f, IsDocument(kind, t, e, f), kind = "call"
    PROVE  /\ OneEach(t, e, "methodCall") /\ OneEach(t, e, "methodName") /\ OneEach(t, e, "params")
<1>1. Lists(kind) = {"data", "struct", "params"}  BY DEF Lists
<1>2. Tree(e, Len(t)) /\ kind \in Kinds  BY DocTree DEF IsDocument
<1>3. OneEach(t, e, "")
    <2>1. ASSUME NEW i \in DOMAIN e, Tag(t, i) = "" PROVE i = 0
        BY <2>1, HasTag
    <2> QED  BY <2>1 DEF OneEach
<1>4. ASSUME NEW c, NEW b, c = "" \/ c = "methodCall", OneEach(t, e, c), b # "",
             OnlyIn(kind, b, c)
      PROVE  OneEach(t, e, b)
    <2>1. c \notin Lists(kind)  BY <1>1, <1>4
    <2>2. ASSUME NEW i \in DOMAIN e, NEW j \in DOMAIN e, Tag(t, i) = b, Tag(t, j) = b
          PROVE  i = j
        <3>0. Tag(t, 0) = ""  BY DEF Tag
        <3>1. i # 0 /\ j # 0  BY <1>4, <2>2, <3>0
        <3>2. \A x, y \in DOMAIN e : Tag(t, x) = c /\ Tag(t, y) = c => x = y
            BY <1>4 DEF OneEach
        <3>3. \A a : <<a, b>> \in Contents(kind) => a = c  BY <1>4 DEF OnlyIn
        <3> QED  BY <2>1, <2>2, <3>1, <3>2, <3>3, OneOfParent
    <2> QED  BY <2>2 DEF OneEach
<1>5. /\ OnlyIn(kind, "methodCall", "") /\ OnlyIn(kind, "methodName", "methodCall")
      /\ OnlyIn(kind, "params", "methodCall")
    <2>1. ASSUME NEW a, NEW b, b = "methodCall" \/ b = "methodName" \/ b = "params",
                 <<a, b>> \in Contents(kind)
          PROVE  (b = "methodCall" => a = "") /\ (b # "methodCall" => a = "methodCall")
        <3>1. b \notin Scalars \cup {"array", "struct", "data", "value", "member", "name", "param",
                                     "fault", "methodResponse"}
            BY <2>1 DEF Scalars
        <3> QED  BY <1>2, <2>1, <3>1, ContentsAre
    <2>2. \A a : <<a, "methodCall">> \in Contents(kind) => a = ""  BY <2>1
    <2>3. \A a : <<a, "methodName">> \in Contents(kind) => a = "methodCall"
        <3>1. "methodName" # "methodCall"  OBVIOUS
        <3> QED  BY <2>1, <3>1
    <2>4. \A a : <<a, "params">> \in Contents(kind) => a = "methodCall"
        <3>1. "params" # "methodCall"  OBVIOUS
        <3> QED  BY <2>1, <3>1
    <2> QED  BY <2>2, <2>3, <2>4 DEF OnlyIn
<1>6. OneEach(t, e, "methodCall")
    <2>1. PICK c, b : c = "" /\ b = "methodCall"  OBVIOUS
    <2>2. OnlyIn(kind, b, c) /\ OneEach(t, e, c)  BY <1>3, <1>5, <2>1
    <2>3. b # ""  BY <2>1
    <2>4. OneEach(t, e, b)  BY <1>4, <2>1, <2>2, <2>3
    <2> QED  BY <2>1, <2>4
<1>7. OneEach(t, e, "methodName")
    <2>1. PICK c, b : c = "methodCall" /\ b = "methodName"  OBVIOUS
    <2>2. OnlyIn(kind, b, c) /\ OneEach(t, e, c)  BY <1>5, <1>6, <2>1
    <2> QED  BY <1>4, <2>1, <2>2
<1>8. OneEach(t, e, "params")
    <2>1. PICK c, b : c = "methodCall" /\ b = "params"  OBVIOUS
    <2>2. OnlyIn(kind, b, c) /\ OneEach(t, e, c)  BY <1>5, <1>6, <2>1
    <2> QED  BY <1>4, <2>1, <2>2
<1> QED  BY <1>6, <1>7, <1>8

Separate(S, e) == \A a, b \in S : a # b => e[a] < b \/ e[b] < a

LEMMA ParamsApart ==
    ASSUME NEW kind, NEW t, NEW e, NEW f, IsDocument(kind, t, e, f), kind = "call"
    PROVE  Params(t) \subseteq DOMAIN e /\ 0 \notin Params(t) /\ Separate(Params(t), e)
<1>1. Tree(e, Len(t)) /\ kind \in Kinds /\ e = Ends(t) /\ DOMAIN e = Openings(t) \cup {0}
    BY DocTree DEF IsDocument
<1>2. ASSUME NEW i \in Params(t) PROVE i \in DOMAIN e /\ Tag(t, i) = "param" /\ i # 0
    <2>1. i \in Openings(t) /\ Tag(t, i) = "param"  BY <1>2 DEF Params
    <2> QED  BY <1>1, <2>1 DEF Tag
<1>3. ASSUME NEW i \in Params(t)
      PROVE  \E x \in DOMAIN e : i \in Parts(e, x) /\ Tag(t, x) = "params"
    <2>1. i \in DOMAIN e /\ Tag(t, i) = "param" /\ i # 0  BY <1>2
    <2>2. PICK x \in DOMAIN e : i \in Parts(e, x) /\ <<Tag(t, x), Tag(t, i)>> \in Contents(kind)
        BY <2>1, ParentOf
    <2>3. PICK a, b : a = Tag(t, x) /\ b = Tag(t, i)  OBVIOUS
    <2>4. b \notin Scalars \cup {"array", "struct", "data", "value", "member", "name", "params",
                                 "fault", "methodResponse", "methodCall", "methodName"}
        BY <2>1, <2>3 DEF Scalars
    <2>5. <<a, b>> \in Contents(kind)  BY <2>2, <2>3
    <2>6. a = "params"  BY <1>1, <2>4, <2>5, ContentsAre
    <2> QED  BY <2>2, <2>3, <2>6
<1>4. ASSUME NEW a \in Params(t), NEW b \in Params(t), a # b
      PROVE  e[a] < b \/ e[b] < a
    <2>1. PICK x \in DOMAIN e : a \in Parts(e, x) /\ Tag(t, x) = "params"  BY <1>3
    <2>2. PICK y \in DOMAIN e : b \in Parts(e, y) /\ Tag(t, y) = "params"  BY <1>3
    <2>3. x = y  BY <2>1, <2>2, CallParts DEF OneEach
    <2> QED  BY <1>1, <1>4, <2>1, <2>2, <2>3, PartsApart
<1> QED  BY <1>2, <1>4 DEF Separate

(* What is only known of the call and the response, not of the values. *)
SameParts(P, Q) ==
    /\ DOMAIN Q = Fields /\ Q.kind = P.kind /\ Q.stack = P.stack /\ Q.heap = P.heap
    /\ Q.ignored = P.ignored /\ Q.thrown = P.thrown /\ Q.doubleFree = P.doubleFree
    /\ Q.complete \in BOOLEAN

LEMMA PartsGood ==
    ASSUME NEW P, Good(P), NEW Q, SameParts(P, Q)
    PROVE  Good(Q) /\ Alive(Q) = Alive(P)
<1>1. Q.ignored \in Nat /\ Q.thrown \in {"no", "XmlException", "RuntimeException"}
    BY DEF Good, IsParser, SameParts
<1> QED  BY <1>1, OtherFields DEF SameParts

LEMMA PartsLevel ==
    ASSUME NEW P, NEW Q, SameParts(P, Q), NEW t, NEW e, NEW f, NEW i, NEW s, NEW p,
           Level(P, t, e, f, i, s, p)
    PROVE  Level(Q, t, e, f, i, s, p)
<1>1. SameLevel(P, Q, s, s)  BY DEF SameParts, SameLevel
<1> QED  BY <1>1, LevelKept

LEMMA PartsResting ==
    ASSUME NEW t, NEW e, NEW f, NEW R, NEW at, NEW m \in Nat, NEW p \in Nat, NEW j,
           Resting(R, t, e, f, at, m, p, j), NEW Q, SameParts(R, Q)
    PROVE  Resting(Q, t, e, f, at, m, p, j)
<1>1. Good(R)  BY DEF Resting
<1>2. Good(Q)  BY <1>1, PartsGood
<1>3. ASSUME NEW k \in 1..m + 1 PROVE Level(Q, t, e, f, at[k], Q.stack[k], p)
    <2>1. Level(R, t, e, f, at[k], R.stack[k], p)  BY DEF Resting
    <2>2. Q.stack[k] = R.stack[k]  BY DEF SameParts
    <2>3. Level(Q, t, e, f, at[k], R.stack[k], p)  BY <2>1, PartsLevel
    <2> QED  BY <2>2, <2>3
<1>4. Q.stack = R.stack /\ Q.ignored = R.ignored  BY DEF SameParts
<1> QED  BY <1>2, <1>3, <1>4 DEF Resting

LEMMA PartsFollows ==
    ASSUME NEW t, NEW e, NEW f, NEW P, Good(P), NEW at, NEW n \in Nat, NEW p \in Nat,
           Follows(P, t, e, f, at, n, p), NEW Q, SameParts(P, Q)
    PROVE  Follows(Q, t, e, f, at, n, p)
<1>1. ASSUME NEW k \in 1..n PROVE Level(Q, t, e, f, at[k], Q.stack[k], p)
    <2>1. Level(P, t, e, f, at[k], P.stack[k], p)  BY DEF Follows
    <2>2. Q.stack[k] = P.stack[k]  BY DEF SameParts
    <2>3. Level(Q, t, e, f, at[k], P.stack[k], p)  BY <2>1, PartsLevel
    <2> QED  BY <2>2, <2>3
<1>2. Q.stack = P.stack /\ Q.ignored = P.ignored  BY DEF SameParts
<1>3. ~Nameless(t) => Claimed(Q)
    <2>1. Alive(Q) = Alive(P)  BY PartsGood
    <2> QED  BY <1>2, <2>1 DEF Follows, Claimed
<1> QED  BY <1>1, <1>2, <1>3 DEF Follows

(* The list of parameters, the name and the result. *)
ListKept(t, e, p) == ParamsDone(t, e, p + 1) = ParamsDone(t, e, p)
NameKept(t, e, p) == \A i \in MethodNames(t) : e[i] <= p + 1 <=> e[i] <= p

LEMMA ListStays ==
    ASSUME NEW kind, NEW t, NEW e, NEW f, IsDocument(kind, t, e, f), NEW p \in Nat,
           NEW j \in DOMAIN e, e[j] = p + 1, j \notin Params(t)
    PROVE  ListKept(t, e, p)
<1>1. Tree(e, Len(t)) /\ Params(t) \subseteq DOMAIN e
    <2>1. Tree(e, Len(t))  BY DocTree
    <2>2. Openings(t) \subseteq DOMAIN e  BY DEF IsDocument
    <2> QED  BY <2>1, <2>2 DEF Params
<1>2. ASSUME NEW i \in Params(t) PROVE e[i] <= p + 1 <=> e[i] <= p
    <2>1. i \in DOMAIN e /\ e[i] \in Nat  BY <1>1, Places
    <2>2. e[i] # p + 1  BY <1>1, <2>1, EndsApart
    <2> QED  BY <2>1, <2>2
<1> QED  BY <1>2 DEF ListKept, ParamsDone

LEMMA NameStays ==
    ASSUME NEW kind, NEW t, NEW e, NEW f, IsDocument(kind, t, e, f), NEW p \in Nat,
           NEW j \in DOMAIN e, e[j] = p + 1, j \notin MethodNames(t)
    PROVE  NameKept(t, e, p)
<1>1. Tree(e, Len(t)) /\ MethodNames(t) \subseteq DOMAIN e  BY DocTree DEF IsDocument, MethodNames
<1>2. ASSUME NEW i \in MethodNames(t) PROVE e[i] <= p + 1 <=> e[i] <= p
    <2>1. i \in DOMAIN e /\ e[i] \in Nat  BY <1>1, Places
    <2>2. e[i] # p + 1  BY <1>1, <2>1, EndsApart
    <2> QED  BY <2>1, <2>2
<1> QED  BY <1>2 DEF NameKept

LEMMA CallGathered ==
    ASSUME NEW t, NEW e, NEW f, NEW P, P.kind = "call", NEW p \in Nat, Gathered(P, t, e, f, p),
           NEW Q, Q.kind = "call", Q.call = P.call, ListKept(t, e, p), NameKept(t, e, p)
    PROVE  Gathered(Q, t, e, f, p + 1)
BY DEF Gathered, ListKept, NameKept

LEMMA ResponseGathered ==
    ASSUME NEW t, NEW e, NEW f, NEW P, P.kind = "response", NEW p \in Nat,
           Gathered(P, t, e, f, p), NEW Q, Q.kind = "response", Q.mvalue = P.mvalue,
           Done(e, 0, p + 1) = Done(e, 0, p)
    PROVE  Gathered(Q, t, e, f, p + 1)
BY DEF Gathered

(* What no call and no response is given. *)
LEMMA ValueGathered ==
    ASSUME NEW kind, NEW t, NEW e, NEW f, IsDocument(kind, t, e, f), NEW P, P.kind = kind,
           NEW p \in Nat, NEW j \in DOMAIN e, j # 0, e[j] = p + 1,
           kind = "call" => Tag(t, j) \notin {"param", "methodName"},
           kind = "response" => Tag(t, j) # "methodResponse",
           Gathered(P, t, e, f, p), NEW Q, Q.kind = kind, Q.call = P.call, Q.mvalue = P.mvalue
    PROVE  Gathered(Q, t, e, f, p + 1)
<1>1. kind \in {"call", "response", "value"}  BY DEF IsDocument, Kinds
<1>2. CASE kind = "call"
    <2>1. j \notin Params(t) /\ j \notin MethodNames(t)  BY <1>2 DEF Params, MethodNames
    <2>2. ListKept(t, e, p)  BY <2>1, ListStays
    <2>3. NameKept(t, e, p)  BY <2>1, NameStays
    <2> QED  BY <1>2, <2>2, <2>3, CallGathered
<1>3. CASE kind = "response"
    <2>1. j \notin Parts(e, 0)
        <3>1. SUFFICES ASSUME j \in Parts(e, 0) PROVE FALSE  OBVIOUS
        <3>2. 0 \in DOMAIN e  BY DocTree DEF Tree
        <3>3. PICK a, b : a = Tag(t, 0) /\ b = Tag(t, j)  OBVIOUS
        <3>4. <<a, b>> \in Contents(kind)  BY <3>1, <3>2, <3>3, PartTag
        <3>5. a = "" /\ a \notin {"value", "array", "data", "struct", "member", "methodCall",
                                  "methodResponse", "params", "param", "fault"}
            BY <3>3 DEF Tag
        <3>6. kind \in Kinds /\ kind # "value" /\ kind # "call"  BY <1>3 DEF Kinds
        <3>7. b = "methodResponse"  BY <3>4, <3>5, <3>6, ContentsAre
        <3> QED  BY <1>3, <3>3, <3>7
    <2>2. Done(e, 0, p + 1) = Done(e, 0, p)
        <3>1. Tree(e, Len(t)) /\ 0 \in DOMAIN e  BY DocTree DEF Tree
        <3> QED  BY <2>1, <3>1, DoneCloses
    <2> QED  BY <1>3, <2>2, ResponseGathered
<1>4. CASE kind = "value"
    <2>1. Q.kind # "call" /\ Q.kind # "response"  BY <1>4
    <2> QED  BY <2>1 DEF Gathered
<1> QED  BY <1>1, <1>2, <1>3, <1>4

-----------------------------------------------------------------------------
(***************************************************************************)
(* The tags of responses.                                                  *)
(***************************************************************************)
\* What a closing tag leaves of Q when all is well.
ClosedWell(R, Q, t, e, f, at, n, p) ==
    /\ Good(Q) /\ Follows(Q, t, e, f, at, n, p) /\ Gathered(Q, t, e, f, p)
    /\ Q.thrown = R.thrown /\ Q.kind = R.kind

HoldsIt(P, x, v) == x # 0 => P.heap[x].val = v

(* The root of a response passes what it has got to the response. *)
LEMMA RootGets ==
    ASSUME NEW kind, NEW t, NEW e, NEW f, IsDocument(kind, t, e, f), NEW R, R.kind = kind,
           kind = "response", NEW at,
           NEW m \in Nat, NEW p \in Nat, NEW j, Resting(R, t, e, f, at, m, p, j),
           NEW x, Brings(R, R, x, t, f, m, j), Tag(t, j) = "methodResponse",
           NEW q, q = takeValue(R, x, TRUE)
    PROVE  HasDoneOnly(e, 0, j, p) /\ HoldsIt(q, x, f[j])
<1>1. PICK a, b : a = Tag(t, at[m + 1]) /\ b = Tag(t, j)  OBVIOUS
<1>2. <<a, b>> \in Contents(kind) /\ kind \in Kinds /\ at[m + 1] \in DOMAIN e  BY <1>1, RestFacts
<1>3. a = ""
    <2>1. b \notin Scalars \cup {"array", "struct", "data", "value", "member", "name", "params",
                                 "fault", "methodCall", "methodName", "param"}
        BY <1>1 DEF Scalars
    <2> QED  BY <1>2, <2>1, ContentsAre
<1>4. at[m + 1] = 0  BY <1>1, <1>2, <1>3, HasTag
<1>5. HasDoneOnly(e, at[m + 1], j, p)
    <2>1. a \in Carriers(kind)  BY <1>3 DEF Carriers
    <2>2. a \notin Lists(kind) \cup {"member", "methodCall"}  BY <1>2, <2>1, CarriersAre
    <2> QED  BY <1>1, <2>2, OnlyDone
<1>6. ASSUME x # 0 PROVE q.heap[x].val = f[j]
    <2>1. Good(R) /\ Len(R.stack) = m + 1  BY DEF Resting
    <2>2. R.stack[m + 1].st = "eNone"
        <3>1. Level(R, t, e, f, at[m + 1], R.stack[m + 1], p)  BY DEF Resting
        <3> QED  BY <1>1, <1>3, <3>1, StatesOf DEF Level
    <2>3. q = StateTakesValue(R, x, TRUE)
        <3>1. getTopState(R) = R.stack[m + 1]  BY <2>1, TopOf DEF Good
        <3> QED  BY <2>2, <3>1 DEF takeValue
    <2>4. x \in Alive(R) /\ x \in Nat  BY <1>6, <2>1, HeapOf DEF Brings, Free, Good
    <2>5. q.heap = R.heap  BY <2>1, <2>3, <2>4, StateKeepsHeap
    <2>6. R.heap[x].val = f[j]  BY <1>6 DEF Brings, Given
    <2> QED  BY <2>5, <2>6
<1>7. HoldsIt(q, x, f[j])  BY <1>6 DEF HoldsIt
<1> QED  BY <1>4, <1>5, <1>7

ResponseTags == {"methodResponse", "fault", "params", "param"}

LEMMA ResponseTagStates ==
    ASSUME NEW b \in ResponseTags
    PROVE  /\ (StateOf(b) = "eMethodResponse" <=> b = "methodResponse")
           /\ b \notin {"member", "name", "value"} /\ b \in Carriers("response") \ {""}
           /\ b \notin Scalars
<1>1. "response" # "call"  OBVIOUS
<1>2. b \in Carriers("response") \ {""}  BY <1>1 DEF ResponseTags, Carriers
<1>3. b \notin Scalars  BY DEF ResponseTags, Scalars
<1> QED  BY <1>2, <1>3, StatesOf DEF ResponseTags

LEMMA ResponseCloses ==
    ASSUME NEW kind, NEW t, NEW e, NEW f, IsDocument(kind, t, e, f), NEW R, R.kind = kind,
           kind = "response", NEW at,
           NEW m \in Nat, NEW p \in Nat, NEW j, Resting(R, t, e, f, at, m, p, j),
           NEW P, NEW curr, Leftover(P, R, t, e, f, m, p, j, curr), Tag(t, j) \in ResponseTags,
           Gathered(R, t, e, f, p), NEW Q, Q = ResponseEnd(R, curr)
    PROVE  ClosedWell(R, Q, t, e, f, at, m + 1, p + 1)
<1>1. PICK b : b = Tag(t, j)  OBVIOUS
<1>2. PICK x : x = curr.ptr  OBVIOUS
<1>3. /\ (curr.st = "eMethodResponse" <=> b = "methodResponse")
      /\ b \notin {"member", "name", "value"} /\ b \in Carriers(kind) \ {""} /\ b \notin Scalars
    <2>1. curr.st = StateOf(b)  BY <1>1 DEF Leftover, Level
    <2>2. b \in ResponseTags  BY <1>1
    <2> QED  BY <2>1, <2>2, ResponseTagStates
<1>4. Good(R) /\ Len(R.stack) = m + 1  BY DEF Resting
<1>5. e[j] = p + 1  BY DEF Resting
<1>6. <<Tag(t, at[m + 1]), b>> \in Contents(kind) /\ j \in DOMAIN e /\ j # 0 /\ kind \in Kinds
    BY <1>1, RestFacts
<1>7. Prepared(R, R, t, m, j)
    <2>1. R.stack[m + 1].st # "eValue"
        <3>1. PICK a : a = Tag(t, at[m + 1])  OBVIOUS
        <3>2. a # "value"
            <4>1. b \notin Scalars \cup {"array", "struct"}  BY <1>1 DEF Scalars, ResponseTags
            <4>2. <<a, b>> \in Contents(kind)  BY <1>6, <3>1
            <4> QED  BY <1>6, <4>1, <4>2, ContentsAre
        <3>3. Level(R, t, e, f, at[m + 1], R.stack[m + 1], p)  BY DEF Resting
        <3>4. R.stack[m + 1].st = StateOf(a)  BY <3>1, <3>3 DEF Level
        <3>5. a \in Tags \cup {""}
            <4>1. at[m + 1] \in DOMAIN e  BY RestFacts
            <4>2. CASE at[m + 1] = 0  BY <3>1, <4>2 DEF Tag
            <4>3. CASE at[m + 1] # 0
                <5>1. PICK y \in DOMAIN e : <<Tag(t, y), Tag(t, at[m + 1])>> \in Contents(kind)
                    BY <4>1, <4>3, ParentOf
                <5>2. PICK c : c = Tag(t, y)  OBVIOUS
                <5>3. <<c, a>> \in Contents(kind)  BY <3>1, <5>1, <5>2
                <5> QED  BY <1>6, <5>3, ContentsOpen
            <4> QED  BY <4>2, <4>3
        <3>6. CASE a = ""  BY <3>4, <3>6, StatesOf
        <3>7. CASE a \in Tags
            <4>1. StateOf("value") = "eValue" /\ "value" \in Tags  BY StatesOf, TagsAre
            <4> QED  BY <3>2, <3>4, <3>7, <4>1, StatesDiffer
        <3> QED  BY <3>5, <3>6, <3>7
    <2> QED  BY <1>4, <2>1 DEF Prepared, Leaves
<1>8. Brings(R, R, x, t, f, m, j)
    <2>1. Free(R, m + 1, x) /\ (~Nameless(t) => ClaimedBut(R, x))
        BY <1>1, <1>2, <1>3 DEF Leftover
    <2>2. Level(R, t, e, f, j, curr, p)  BY DEF Leftover
    <2>3. b \in (Carriers(kind) \ {""}) \cup {"data", "struct"} /\ (b = "value" => x # 0)
        BY <1>3
    <2>4. Given(R, t, f, x, j)  BY <1>1, <1>2, <1>5, <1>6, <2>2, <2>3, Gives
    <2> QED  BY <1>7, <2>1, <2>4 DEF Brings
<1>9. PICK q : q = takeValue(R, x, TRUE)  OBVIOUS
<1>10. Taken(R, q, t, e, f, at, m + 1, p + 1)
    <2>1. Tag(t, j) \notin {"member", "name"} /\ (Tag(t, j) = "value" => x # 0)  BY <1>1, <1>3
    <2>2. kind # "call"  OBVIOUS
    <2> QED  BY <1>8, <1>9, <2>1, <2>2, TakesWell
<1>11. /\ Good(q) /\ q.kind = kind /\ q.thrown = R.thrown
       /\ Follows(q, t, e, f, at, m + 1, p + 1) /\ q.call = R.call /\ q.mvalue = R.mvalue
    BY <1>10 DEF Taken, Result, Like
<1>15. ASSUME b = "methodResponse"
       PROVE  HasDoneOnly(e, 0, j, p) /\ (x # 0 => q.heap[x].val = f[j])
    <2>1. Tag(t, j) = "methodResponse"  BY <1>1, <1>15
    <2>2. Brings(R, R, x, t, f, m, j) /\ q = takeValue(R, x, TRUE)  BY <1>8, <1>9
    <2>3. HasDoneOnly(e, 0, j, p)  BY <2>1, <2>2, RootGets
    <2>4. HoldsIt(q, x, f[j])  BY <2>1, <2>2, RootGets
    <2> QED  BY <2>3, <2>4 DEF HoldsIt
<1>12. CASE b = "methodResponse" /\ x # 0
    <2>1. Q = [q EXCEPT !.mvalue = Deref(q, x)]
        BY <1>2, <1>3, <1>9, <1>12 DEF ResponseEnd
    <2>2. SameParts(q, Q) /\ Q.mvalue = q.heap[x].val
        <3>1. DOMAIN q = Fields /\ q.complete \in BOOLEAN  BY <1>11 DEF Good, IsParser
        <3> QED  BY <2>1, <3>1 DEF SameParts, Fields, Deref
    <2>3. Good(Q) /\ Follows(Q, t, e, f, at, m + 1, p + 1)
        BY <1>11, <2>2, PartsGood, PartsFollows
    <2>4. HasDoneOnly(e, 0, j, p) /\ (x # 0 => q.heap[x].val = f[j])
        BY <1>12, <1>15
    <2>5. Q.kind = kind /\ Q.thrown = R.thrown  BY <1>11, <2>2 DEF SameParts
    <2>6. Gathered(Q, t, e, f, p + 1)
        <3>1. Q.kind = "response"  BY <2>5
        <3>2. Q.mvalue = f[j]  BY <1>12, <2>2, <2>4
        <3> QED  BY <2>4, <3>1, <3>2 DEF Gathered, HasDoneOnly
    <2> QED  BY <2>3, <2>5, <2>6 DEF ClosedWell
<1>13. CASE b = "methodResponse" /\ x = 0
    <2>1. Q = q  BY <1>2, <1>9, <1>13 DEF ResponseEnd
    <2>2. HasDoneOnly(e, 0, j, p)
        BY <1>13, <1>15
    <2>3. Q.mvalue = Void
        <3>1. R.kind = "response"  OBVIOUS
        <3>2. R.mvalue = Void  BY <2>2, <3>1 DEF Gathered, HasDoneOnly
        <3> QED  BY <1>11, <2>1, <3>2
    <2>4. f[j] = Void
        <3>1. Given(R, t, f, 0, j)  BY <1>8, <1>13 DEF Brings
        <3>2. f[j] = Empty(b)  BY <1>1, <3>1 DEF Given
        <3> QED  BY <1>13, <3>2 DEF Empty
    <2>5. Gathered(Q, t, e, f, p + 1)
        <3>1. Q.kind = "response"  BY <1>11, <2>1
        <3> QED  BY <2>2, <2>3, <2>4, <3>1 DEF Gathered, HasDoneOnly
    <2> QED  BY <1>11, <2>1, <2>5 DEF ClosedWell
<1>14. CASE b # "methodResponse"
    <2>1. Q = q  BY <1>2, <1>3, <1>9, <1>14 DEF ResponseEnd
    <2>2. Gathered(Q, t, e, f, p + 1)
        <3>1. kind # "call" /\ Tag(t, j) # "methodResponse"  BY <1>1, <1>14
        <3>2. Q.kind = kind /\ Q.call = R.call /\ Q.mvalue = R.mvalue  BY <1>11, <2>1
        <3> QED  BY <1>5, <1>6, <3>1, <3>2, ValueGathered
    <2> QED  BY <1>11, <2>1, <2>2 DEF ClosedWell
<1> QED  BY <1>12, <1>13, <1>14

-----------------------------------------------------------------------------
(***************************************************************************)
(* The tags of calls.                                                      *)
(***************************************************************************)
CallTags == {"methodCall", "methodName", "params", "param"}

LEMMA CallTagStates ==
    ASSUME NEW b \in CallTags
    PROVE  /\ b \notin {"member", "name", "value"} /\ b \notin Scalars
           /\ b # "param" => b \notin Carriers("call") \cup {"data", "struct", "member"}
           /\ b = "methodCall" => StateOf(b) = "eMethodCall"
           /\ b = "methodName" => StateOf(b) = "eMethodName"
           /\ b = "params" => StateOf(b) = "eParams"
           /\ b = "param" => StateOf(b) = "eParam" /\ b \in Carriers("call")
<1>1. "call" # "response" /\ b \notin Scalars  BY DEF CallTags, Scalars
<1> QED  BY <1>1, StatesOf DEF CallTags, Carriers

(* What they are in holds nothing. *)
LEMMA CallParent ==
    ASSUME NEW kind, NEW t, NEW e, NEW f, IsDocument(kind, t, e, f), NEW R, R.kind = kind,
           kind = "call", NEW at,
           NEW m \in Nat, NEW p \in Nat, NEW j, Resting(R, t, e, f, at, m, p, j),
           Tag(t, j) \in CallTags, NEW Q, Leaves(R, Q, 0), Q.kind = R.kind,
           Q.ignored = R.ignored, Q.stack = R.stack, ~Nameless(t) => Claimed(Q)
    PROVE  Follows(Q, t, e, f, at, m + 1, p + 1)
<1>1. PICK a, b : a = Tag(t, at[m + 1]) /\ b = Tag(t, j)  OBVIOUS
<1>2. <<a, b>> \in Contents(kind) /\ kind \in Kinds  BY <1>1, RestFacts
<1>3. a \in {"", "methodCall", "params"}
    <2>1. b \notin Scalars \cup {"array", "struct", "data", "value", "member", "name",
                                 "fault", "methodResponse"}
        BY <1>1 DEF Scalars, CallTags
    <2> QED  BY <1>2, <2>1, ContentsAre
<1>4. a \notin Carriers(kind) \cup {"data", "struct", "member"}
    <2>1. kind # "response"  OBVIOUS
    <2> QED  BY <1>3, <2>1 DEF Carriers
<1>5. PICK s, i : s = R.stack[m + 1] /\ i = at[m + 1]  OBVIOUS
<1>6. s.st = StateOf(a) /\ s.ptr = 0
    <2>1. Level(R, t, e, f, i, s, p)  BY <1>5 DEF Resting
    <2>2. Tag(t, i) = a /\ a \notin Carriers(R.kind) \cup {"data", "struct", "member"}
        BY <1>1, <1>4, <1>5
    <2> QED  BY <2>1, <2>2 DEF Level
<1>7. Level(Q, t, e, f, i, s, p + 1)
    <2>1. Tag(t, i) = a /\ a \notin Carriers(Q.kind) \cup {"data", "struct", "member"}
        BY <1>1, <1>4, <1>5
    <2> QED  BY <1>6, <2>1 DEF Level
<1>8. Level(Q, t, e, f, at[m + 1], Q.stack[m + 1], p + 1)  BY <1>5, <1>7
<1>9. Tag(t, at[m + 1]) # "member"  BY <1>1, <1>3
<1>10. Len(Q.stack) = m + 1 /\ Q.stack[1].del = TRUE /\ \A k \in 1..m : Q.stack[k] = R.stack[k]
    <2>1. Len(R.stack) = m + 1 /\ R.stack[1].del  BY DEF Resting
    <2>2. R.stack[1].del \in BOOLEAN
        <3>1. Good(R) /\ 1 \in 1..Len(R.stack)  BY <2>1 DEF Resting
        <3>2. R.stack[1] \in State  BY <3>1, StatePoints
        <3> QED  BY <3>2 DEF State
    <2> QED  BY <2>1, <2>2
<1>11. PICK c : c = 0  OBVIOUS
<1>12. Leaves(R, Q, c) /\ ~(c # 0)  BY <1>11
<1> QED  BY <1>8, <1>9, <1>10, <1>12, ParentCloses

LEMMA Grows ==
    ASSUME NEW call, NEW name, NEW f, NEW o, NEW n \in Nat,
           call = MethodCall(name, Picked(f, o, n)), NEW j, o[n + 1] = j
    PROVE  addParam(call, f[j]) = MethodCall(name, Picked(f, o, n + 1))
<1>1. Append(Picked(f, o, n), f[j]) = Picked(f, o, n + 1)  BY ListGrows
<1>2. PICK l : l = Picked(f, o, n)  OBVIOUS
<1>3. call = [name |-> name, params |-> l]  BY <1>2 DEF MethodCall
<1>4. addParam(call, f[j]) = [name |-> name, params |-> Append(l, f[j])]
    <2>1. call.params = l  BY <1>3
    <2>2. PICK w : w = Append(l, f[j])  OBVIOUS
    <2>3. addParam(call, f[j]) = [call EXCEPT !.params = w]  BY <2>1, <2>2 DEF addParam
    <2>4. [call EXCEPT !.params = w] = [name |-> name, params |-> w]  BY <1>3
    <2> QED  BY <2>2, <2>3, <2>4
<1> QED  BY <1>1, <1>2, <1>4 DEF MethodCall

(* A parameter whose value is there. *)
LEMMA ParamGrows ==
    ASSUME NEW kind, NEW t, NEW e, NEW f, IsDocument(kind, t, e, f), kind = "call",
           NEW R, R.kind = kind, NEW p \in Nat, Gathered(R, t, e, f, p),
           NEW j \in Params(t), e[j] = p + 1,
           NEW Q, Q.kind = kind, Q.call = addParam(R.call, f[j])
    PROVE  Gathered(Q, t, e, f, p + 1)
<1>1. Tree(e, Len(t)) /\ Params(t) \subseteq DOMAIN e  BY DocTree, ParamsApart
<1>2. DoneNext(Params(t), e, p, j)
    <2>1. Separate(Params(t), e)  BY ParamsApart
    <2>2. \A a, b \in Params(t) : a # b => e[a] < b \/ e[b] < a  BY <2>1 DEF Separate
    <2> QED  BY <1>1, <2>2, NextDone
<1>3. PICK n, o : n = Cardinality(ParamsDone(t, e, p)) /\ o = InOrder(Params(t))  OBVIOUS
<1>4. n \in Nat /\ Cardinality(ParamsDone(t, e, p + 1)) = n + 1 /\ o[n + 1] = j
    BY <1>2, <1>3 DEF DoneNext, DoneOf, ParamsDone
<1>5. PICK name : name = R.call.name  OBVIOUS
<1>6. R.call = MethodCall(name, Picked(f, o, n))
    <2>1. R.call = MethodCall(R.call.name, ParamList(t, f, Cardinality(ParamsDone(t, e, p))))
        BY DEF Gathered
    <2>2. ParamList(t, f, n) = Picked(f, o, n)  BY <1>3 DEF ParamList, Picked
    <2> QED  BY <1>3, <1>5, <2>1, <2>2
<1>7. Q.call = MethodCall(name, Picked(f, o, n + 1))
    <2>1. PICK call : call = R.call  OBVIOUS
    <2>2. addParam(call, f[j]) = MethodCall(name, Picked(f, o, n + 1))
        BY <1>4, <1>6, <2>1, Grows
    <2> QED  BY <2>1, <2>2
<1>8. Q.call.name = name  BY <1>7 DEF MethodCall
<1>9. Q.call = MethodCall(Q.call.name, ParamList(t, f, Cardinality(ParamsDone(t, e, p + 1))))
    <2>1. ParamList(t, f, n + 1) = Picked(f, o, n + 1)  BY <1>3 DEF ParamList, Picked
    <2> QED  BY <1>4, <1>7, <1>8, <2>1
<1>10. j \notin MethodNames(t)  BY DEF Params, MethodNames
<1>11. NameKept(t, e, p)  BY <1>1, <1>10, NameStays
<1>12. /\ \A i \in MethodNames(t) : name = IF e[i] <= p THEN TextIn(t, e, i) ELSE <<>>
       /\ MethodNames(t) = {} => name = <<>>
    BY <1>5 DEF Gathered
<1>13. /\ \A i \in MethodNames(t) : Q.call.name = IF e[i] <= p + 1 THEN TextIn(t, e, i) ELSE <<>>
       /\ MethodNames(t) = {} => Q.call.name = <<>>
    BY <1>8, <1>11, <1>12 DEF NameKept
<1> QED  BY <1>9, <1>13 DEF Gathered

(* The name. *)
LEMMA NameGathered ==
    ASSUME NEW kind, NEW t, NEW e, NEW f, IsDocument(kind, t, e, f), kind = "call",
           NEW R, R.kind = kind, NEW p \in Nat, Gathered(R, t, e, f, p),
           NEW j \in DOMAIN e, Tag(t, j) = "methodName", e[j] = p + 1,
           NEW Q, Q.kind = kind, Q.call = MethodCall(TextIn(t, e, j), R.call.params)
    PROVE  Gathered(Q, t, e, f, p + 1)
<1>1. Tree(e, Len(t)) /\ DOMAIN e = Openings(t) \cup {0}
    <2>1. Tree(e, Len(t))  BY DocTree
    <2>2. DOMAIN e = Openings(t) \cup {0}  BY DEF IsDocument
    <2> QED  BY <2>1, <2>2
<1>2. j \notin Params(t)  BY DEF Params
<1>3. ListKept(t, e, p)  BY <1>2, ListStays
<1>4. Q.call.name = TextIn(t, e, j) /\ Q.call.params = R.call.params  BY DEF MethodCall
<1>5. R.call.params = ParamList(t, f, Cardinality(ParamsDone(t, e, p)))
    <2>1. R.call = MethodCall(R.call.name, ParamList(t, f, Cardinality(ParamsDone(t, e, p))))
        BY DEF Gathered
    <2> QED  BY <2>1 DEF MethodCall
<1>6. Q.call = MethodCall(Q.call.name, ParamList(t, f, Cardinality(ParamsDone(t, e, p + 1))))
    BY <1>3, <1>4, <1>5 DEF ListKept
<1>7. j \in MethodNames(t)
    <2>1. j # 0  BY DEF Tag
    <2> QED  BY <1>1, <2>1 DEF MethodNames
<1>8. ASSUME NEW i \in MethodNames(t) PROVE i = j
    <2>1. i \in DOMAIN e /\ Tag(t, i) = "methodName"  BY <1>1 DEF MethodNames
    <2>2. OneEach(t, e, "methodName")  BY CallParts
    <2> QED  BY <2>1, <2>2 DEF OneEach
<1>9. \A i \in MethodNames(t) : Q.call.name = IF e[i] <= p + 1 THEN TextIn(t, e, i) ELSE <<>>
    BY <1>4, <1>8
<1> QED  BY <1>6, <1>7, <1>9 DEF Gathered

(* A parameter without a value is none. *)
LEMMA ParamHas ==
    ASSUME NEW kind, NEW t, NEW e, NEW f, IsDocument(kind, t, e, f), NEW R, R.kind = kind,
           kind = "call", NEW p \in Nat, NEW j \in DOMAIN e, e[j] = p + 1, NEW curr,
           Level(R, t, e, f, j, curr, p), Tag(t, j) = "param"
    PROVE  j \in Params(t) <=> curr.ptr # 0
<1>1. /\ Tree(e, Len(t)) /\ kind \in Kinds /\ e = Ends(t) /\ DOMAIN e = Openings(t) \cup {0}
    <2>1. Tree(e, Len(t))  BY DocTree
    <2>2. kind \in Kinds /\ e = Ends(t) /\ DOMAIN e = Openings(t) \cup {0}  BY DEF IsDocument
    <2> QED  BY <2>1, <2>2
<1>2. j # 0 /\ j \in Openings(t)
    <2>1. j # 0  BY DEF Tag
    <2> QED  BY <1>1, <2>1
<1>3. j \in Params(t) <=> Parts(e, j) # {}  BY <1>1, <1>2 DEF Params
<1>4. Done(e, j, p) = Parts(e, j)  BY <1>1, AllDone
<1>5. Carrying(R, t, e, f, j, curr, p)
    <2>1. "param" \in Carriers(R.kind)  BY DEF Carriers
    <2> QED  BY <2>1 DEF Level
<1>6. ASSUME Parts(e, j) = {} PROVE curr.ptr = 0  BY <1>4, <1>5, <1>6 DEF Carrying
<1>7. ASSUME NEW k \in Parts(e, j) PROVE curr.ptr # 0
    <2>1. Given(R, t, f, curr.ptr, k)  BY <1>4, <1>5 DEF Carrying
    <2>2. PICK a, b : a = Tag(t, j) /\ b = Tag(t, k)  OBVIOUS
    <2>3. <<a, b>> \in Contents(kind)  BY <2>2, PartTag
    <2>4. a = "param" /\ a \notin {"value", "array", "data", "struct", "member", "", "methodCall",
                                   "methodResponse", "params", "fault"}
        BY <2>2
    <2>5. b = "value"  BY <1>1, <2>3, <2>4, ContentsAre
    <2> QED  BY <2>1, <2>2, <2>5 DEF Given
<1> QED  BY <1>3, <1>6, <1>7

LEMMA ParamCloses ==
    ASSUME NEW kind, NEW t, NEW e, NEW f, IsDocument(kind, t, e, f), NEW R, R.kind = kind,
           kind = "call", NEW at,
           NEW m \in Nat, NEW p \in Nat, NEW j, Resting(R, t, e, f, at, m, p, j),
           NEW P, NEW curr, Leftover(P, R, t, e, f, m, p, j, curr), Tag(t, j) = "param",
           Gathered(R, t, e, f, p), NEW Q, Q = ParamEnd(R, curr)
    PROVE  ClosedWell(R, Q, t, e, f, at, m + 1, p + 1)
<1>1. PICK x : x = curr.ptr  OBVIOUS
<1>2. Good(R) /\ Len(R.stack) = m + 1 /\ e[j] = p + 1  BY DEF Resting
<1>3. j \in DOMAIN e /\ j # 0 /\ kind \in Kinds  BY RestFacts
<1>4. Level(R, t, e, f, j, curr, p)  BY DEF Leftover
<1>5. Free(R, m + 1, x) /\ (~Nameless(t) => ClaimedBut(R, x))
    BY <1>1 DEF Leftover
<1>6. j \in Params(t) <=> x # 0  BY <1>1, <1>2, <1>3, <1>4, ParamHas
<1>7. Tag(t, j) \in CallTags  BY DEF CallTags
<1>8. CASE x = 0
    <2>1. Q = R  BY <1>1, <1>8 DEF ParamEnd
    <2>2. ~Nameless(t) => Claimed(Q)
        <3>1. 0 \notin Alive(R)  BY <1>2, HeapOf DEF Good
        <3> QED  BY <1>5, <1>8, <2>1, <3>1 DEF Claimed, ClaimedBut
    <2>3. Leaves(R, Q, 0)  BY <2>1 DEF Leaves
    <2>4. Follows(Q, t, e, f, at, m + 1, p + 1)  BY <1>7, <2>1, <2>2, <2>3, CallParent
    <2>5. Gathered(Q, t, e, f, p + 1)
        <3>1. j \notin Params(t) /\ j \notin MethodNames(t)
            BY <1>6, <1>8 DEF MethodNames
        <3>2. ListKept(t, e, p)  BY <1>2, <1>3, <3>1, ListStays
        <3>3. NameKept(t, e, p)  BY <1>2, <1>3, <3>1, NameStays
        <3> QED  BY <2>1, <3>2, <3>3, CallGathered
    <2> QED  BY <1>2, <2>1, <2>4, <2>5 DEF ClosedWell
<1>9. CASE x # 0
    <2>1. x \in Alive(R) /\ x \in DOMAIN R.heap  BY <1>2, <1>5, <1>9, HeapOf DEF Free, Good
    <2>2. R.heap[x].val = f[j]
        <3>1. Tag(t, j) \in (Carriers(kind) \ {""}) \cup {"data", "struct"}  BY DEF Carriers
        <3>2. Given(R, t, f, x, j)
            <4>1. Tag(t, j) = "value" => curr.ptr # 0  BY <1>1, <1>9
            <4> QED  BY <1>1, <1>2, <1>3, <1>4, <3>1, <4>1, Gives
        <3> QED  BY <1>9, <3>2 DEF Given
    <2>3. PICK call : call = addParam(R.call, f[j])  OBVIOUS
    <2>4. PICK S : S = [R EXCEPT !.call = call]  OBVIOUS
    <2>5. SameParts(R, S) /\ S.call = call
        <3>1. DOMAIN R = Fields /\ R.complete \in BOOLEAN  BY <1>2 DEF Good, IsParser
        <3> QED  BY <2>4, <3>1 DEF SameParts, Fields
    <2>6. Q = Delete(S, x)
        <3>1. Deref(R, x) = f[j]  BY <2>2 DEF Deref
        <3>2. [R EXCEPT !.call = addParam(@, Deref(R, x))] = S  BY <2>3, <2>4, <3>1
        <3> QED  BY <1>1, <1>9, <3>2 DEF ParamEnd
    <2>7. Good(S) /\ Alive(S) = Alive(R) /\ S.kind = kind /\ S.stack = R.stack
          /\ S.thrown = R.thrown
        BY <1>2, <2>5, PartsGood DEF SameParts
    <2>8. Resting(S, t, e, f, at, m, p, j)  BY <2>5, PartsResting
    <2>9. Leaves(S, Q, 0) /\ Drops(S, Q, x) /\ Q.stack = S.stack
        <3>1. IsParser(S) /\ x \in Alive(S)  BY <2>1, <2>7 DEF Good
        <3>2. Leaves(S, Delete(S, x), 0) /\ Delete(S, x).stack = S.stack
              /\ Alive(Delete(S, x)) = Alive(S) \ {x}
            BY <3>1, DeleteLeaves
        <3> QED  BY <2>6, <3>2 DEF Drops
    <2>10. Result(R, Q)  BY <1>1, <1>2, <1>5, ParamEnds
    <2>11. Good(Q) /\ Q.kind = kind /\ Q.ignored = R.ignored /\ Q.thrown = R.thrown
        BY <2>10 DEF Result, Like
    <2>12. ~Nameless(t) => Claimed(Q)
        BY <1>5, <2>7, <2>9 DEF Claimed, ClaimedBut, Drops
    <2>13. Follows(Q, t, e, f, at, m + 1, p + 1)
        <3>1. S.kind = kind /\ Q.kind = S.kind /\ Q.ignored = S.ignored
            BY <2>5, <2>7, <2>11 DEF SameParts
        <3> QED  BY <1>7, <2>8, <2>9, <2>12, <3>1, CallParent
    <2>14. Gathered(Q, t, e, f, p + 1)
        <3>1. j \in Params(t)  BY <1>6, <1>9
        <3>2. Q.call = addParam(R.call, f[j])  BY <2>3, <2>5, <2>9 DEF Leaves
        <3> QED  BY <1>2, <2>11, <3>1, <3>2, ParamGrows
    <2> QED  BY <2>11, <2>13, <2>14 DEF ClosedWell
<1> QED  BY <1>8, <1>9

LEMMA CallCloses ==
    ASSUME NEW kind, NEW t, NEW e, NEW f, IsDocument(kind, t, e, f), NEW R, R.kind = kind,
           kind = "call", NEW at,
           NEW m \in Nat, NEW p \in Nat, NEW j, Resting(R, t, e, f, at, m, p, j),
           NEW P, NEW curr, Leftover(P, R, t, e, f, m, p, j, curr), Tag(t, j) \in CallTags,
           OnlyText(t, e, j) => curr.cdata = TextIn(t, e, j),
           Gathered(R, t, e, f, p), NEW Q, Q = CallEnd(R, curr)
    PROVE  ClosedWell(R, Q, t, e, f, at, m + 1, p + 1)
<1>1. PICK b : b = Tag(t, j)  OBVIOUS
<1>2. Good(R) /\ Len(R.stack) = m + 1 /\ e[j] = p + 1  BY DEF Resting
<1>3. j \in DOMAIN e /\ j # 0 /\ kind \in Kinds  BY RestFacts
<1>4. Level(R, t, e, f, j, curr, p)  BY DEF Leftover
<1>5. curr.st = StateOf(b)  BY <1>1, <1>4 DEF Level
<1>6. CASE b = "param"
    <2>1. curr.st = "eParam"  BY <1>5, <1>6, StatesOf
    <2>2. Q = ParamEnd(R, curr)  BY <2>1 DEF CallEnd
    <2>3. Tag(t, j) = "param"  BY <1>1, <1>6
    <2> QED  BY <2>2, <2>3, ParamCloses
<1>7. CASE b # "param"
    <2>1. b \in CallTags  BY <1>1
    <2>2. b \notin Carriers("call") \cup {"data", "struct", "member"} /\ b # "member"
        BY <1>7, <2>1, CallTagStates
    <2>3. curr.ptr = 0  BY <1>1, <1>4, <2>2 DEF Level
    <2>4. ~Nameless(t) => Claimed(R)
        <3>1. 0 \notin Alive(R)  BY <1>2, HeapOf DEF Good
        <3>2. ~Nameless(t) => ClaimedBut(R, 0)  BY <2>3 DEF Leftover
        <3> QED  BY <3>1, <3>2 DEF Claimed, ClaimedBut
    <2>5. Leaves(R, R, 0)  BY DEF Leaves
    <2>6. Follows(R, t, e, f, at, m + 1, p + 1)  BY <2>4, <2>5, CallParent
    <2>7. DOMAIN R = Fields /\ R.complete \in BOOLEAN  BY <1>2 DEF Good, IsParser
    <2>8. CASE b = "methodName"
        <3>1. curr.st = "eMethodName"  BY <1>5, <2>8, StatesOf
        <3>2. PICK text : text = TextIn(t, e, j)  OBVIOUS
        <3>3. curr.cdata = text  BY <1>1, <2>8, <3>2 DEF OnlyText
        <3>4. Q = [R EXCEPT !.call.name = text]  BY <3>1, <3>3 DEF CallEnd
        <3>5. PICK call : call = [R.call EXCEPT !.name = text]  OBVIOUS
        <3>6. Q = [R EXCEPT !.call = call]  BY <3>4, <3>5
        <3>7. SameParts(R, Q) /\ Q.call = call  BY <2>7, <3>6 DEF SameParts, Fields
        <3>8. call = MethodCall(text, R.call.params)
            <4>1. PICK n, l : R.call = MethodCall(n, l)  BY DEF Gathered
            <4> QED  BY <3>5, <4>1 DEF MethodCall
        <3>9. Q.kind = kind /\ Q.thrown = R.thrown  BY <3>7 DEF SameParts
        <3>10. Gathered(Q, t, e, f, p + 1)
            <4>1. Tag(t, j) = "methodName" /\ Q.call = MethodCall(TextIn(t, e, j), R.call.params)
                BY <1>1, <2>8, <3>2, <3>7, <3>8
            <4> QED  BY <1>2, <1>3, <3>9, <4>1, NameGathered
        <3>11. Good(Q) /\ Follows(Q, t, e, f, at, m + 1, p + 1)
            BY <1>2, <2>6, <3>7, PartsGood, PartsFollows
        <3> QED  BY <3>9, <3>10, <3>11 DEF ClosedWell
    <2>9. CASE b # "methodName"
        <3>1. SameParts(R, Q) /\ Q.call = R.call
            <4>1. CASE b = "methodCall"
                <5>1. Q = [R EXCEPT !.complete = TRUE]
                    BY <1>5, <4>1, StatesOf DEF CallEnd
                <5> QED  BY <2>7, <5>1 DEF SameParts, Fields
            <4>2. CASE b = "params"
                <5>1. Q = R  BY <1>5, <4>2, StatesOf DEF CallEnd
                <5> QED  BY <2>7, <5>1 DEF SameParts
            <4> QED  BY <1>7, <2>1, <2>9, <4>1, <4>2 DEF CallTags
        <3>2. j \notin Params(t) /\ j \notin MethodNames(t)
            BY <1>1, <1>7, <2>9 DEF Params, MethodNames
        <3>3. ListKept(t, e, p)  BY <1>2, <1>3, <3>2, ListStays
        <3>4. NameKept(t, e, p)  BY <1>2, <1>3, <3>2, NameStays
        <3>5. Q.kind = kind /\ Q.thrown = R.thrown  BY <3>1 DEF SameParts
        <3>6. Gathered(Q, t, e, f, p + 1)  BY <3>1, <3>3, <3>4, <3>5, CallGathered
        <3>7. Good(Q) /\ Follows(Q, t, e, f, at, m + 1, p + 1)
            BY <1>2, <2>6, <3>1, PartsGood, PartsFollows
        <3> QED  BY <3>5, <3>6, <3>7 DEF ClosedWell
    <2> QED  BY <2>8, <2>9
<1> QED  BY <1>6, <1>7

-----------------------------------------------------------------------------
(***************************************************************************)
(* A closing tag.                                                          *)
(***************************************************************************)
CallOwn == {o[3] : o \in CallOpens} \ {"eValue"}
ResponseOwn == {o[3] : o \in ResponseOpens} \ {"eValue"}

LEMMA TripleOwn ==
    ASSUME NEW a, NEW b, NEW c, NEW S, <<a, b, c>> \in S
    PROVE  c \in {o[3] : o \in S}
<1>1. PICK x : x = <<a, b, c>>  OBVIOUS
<1>2. x[3] = c /\ x \in S  BY <1>1
<1> QED  BY <1>2

LEMMA CallOwns ==
    ASSUME NEW b \in CallTags PROVE StateOf(b) \in CallOwn
<1>1. /\ <<"eNone", "methodCall", "eMethodCall">> \in CallOpens
      /\ <<"eMethodCall", "methodName", "eMethodName">> \in CallOpens
      /\ <<"eMethodCall", "params", "eParams">> \in CallOpens
      /\ <<"eParams", "param", "eParam">> \in CallOpens
    BY DEF CallOpens
<1>2. PICK S : S = CallOpens  OBVIOUS
<1>3. /\ "eMethodCall" \in {o[3] : o \in S} /\ "eMethodName" \in {o[3] : o \in S}
      /\ "eParams" \in {o[3] : o \in S} /\ "eParam" \in {o[3] : o \in S}
    BY <1>1, <1>2, TripleOwn
<1>4. /\ "eMethodCall" # "eValue" /\ "eMethodName" # "eValue" /\ "eParams" # "eValue"
      /\ "eParam" # "eValue"
    OBVIOUS
<1>5. /\ "eMethodCall" \in CallOwn /\ "eMethodName" \in CallOwn /\ "eParams" \in CallOwn
      /\ "eParam" \in CallOwn
    BY <1>2, <1>3, <1>4 DEF CallOwn
<1> QED  BY <1>5, StatesOf DEF CallTags

LEMMA ResponseOwns ==
    ASSUME NEW b \in ResponseTags PROVE StateOf(b) \in ResponseOwn
<1>1. /\ <<"eNone", "methodResponse", "eMethodResponse">> \in ResponseOpens
      /\ <<"eMethodResponse", "fault", "eFault">> \in ResponseOpens
      /\ <<"eMethodResponse", "params", "eParams">> \in ResponseOpens
      /\ <<"eParams", "param", "eParam">> \in ResponseOpens
    BY DEF ResponseOpens
<1>2. PICK S : S = ResponseOpens  OBVIOUS
<1>3. /\ "eMethodResponse" \in {o[3] : o \in S} /\ "eFault" \in {o[3] : o \in S}
      /\ "eParams" \in {o[3] : o \in S} /\ "eParam" \in {o[3] : o \in S}
    BY <1>1, <1>2, TripleOwn
<1>4. /\ "eMethodResponse" # "eValue" /\ "eFault" # "eValue" /\ "eParams" # "eValue"
      /\ "eParam" # "eValue"
    OBVIOUS
<1>5. /\ "eMethodResponse" \in ResponseOwn /\ "eFault" \in ResponseOwn /\ "eParams" \in ResponseOwn
      /\ "eParam" \in ResponseOwn
    BY <1>2, <1>3, <1>4 DEF ResponseOwn
<1> QED  BY <1>5, StatesOf DEF ResponseTags

(* Those of values are nobody's own. *)
LEMMA ValuesOwn ==
    ASSUME NEW b \in ClosingTags PROVE StateOf(b) \notin CallOwn /\ StateOf(b) \notin ResponseOwn
<1>1. b \in Tags /\ b \notin CallTags /\ b \notin ResponseTags
    BY DEF ClosingTags, Scalars, Tags, CallTags, ResponseTags
<1>2. PICK c : c = StateOf(b)  OBVIOUS
<1>3. c \notin {"eMethodCall", "eMethodName", "eParams", "eParam", "eMethodResponse", "eFault"}
    <2>1. ASSUME NEW d \in CallTags \cup ResponseTags PROVE c # StateOf(d)
        <3>1. d \in Tags  BY DEF CallTags, ResponseTags, Tags
        <3> QED  BY <1>1, <1>2, <3>1, StatesDiffer
    <2>2. /\ "methodCall" \in CallTags /\ "methodName" \in CallTags /\ "params" \in CallTags
          /\ "param" \in CallTags /\ "methodResponse" \in ResponseTags /\ "fault" \in ResponseTags
        BY DEF CallTags, ResponseTags
    <2> QED  BY <2>1, <2>2, StatesOf
<1>4. c \notin CallOwn  BY <1>3, CallEnds DEF CallOwn
<1>5. c \notin ResponseOwn  BY <1>3, ResponseEnds DEF ResponseOwn
<1> QED  BY <1>2, <1>4, <1>5

LEMMA WhoseTag ==
    ASSUME NEW kind \in Kinds, NEW a, NEW b, <<a, b>> \in Contents(kind)
    PROVE  \/ b \in ClosingTags
           \/ kind = "call" /\ b \in CallTags
           \/ kind = "response" /\ b \in ResponseTags
BY ContentsAre DEF ClosingTags, CallTags, ResponseTags

(* What endElement does with the tag it expects. *)
LEMMA EndsExpected ==
    ASSUME NEW P, Good(P), NEW m \in Nat, Len(P.stack) = m + 2, NEW R, R = PoppedOf(P),
           NEW curr, curr = P.stack[m + 2], NEW tag, tag = ExpectedTag(curr.st),
           NEW Q, Q = endElement(P, tag)
    PROVE  /\ curr.st \in CallOwn /\ P.kind = "call" => Q = CallEnd(R, curr)
           /\ curr.st \in ResponseOwn /\ P.kind = "response" => Q = ResponseEnd(R, curr)
           /\ curr.st \notin CallOwn /\ curr.st \notin ResponseOwn => Q = ValueEnd(R, curr)
<1>1. ~(Len(P.stack) <= 1) /\ Len(P.stack) > 1  OBVIOUS
<1>2. getTopState(P) = curr
    <2>1. m + 1 \in Nat /\ Len(P.stack) = (m + 1) + 1 /\ P.stack[(m + 1) + 1] = curr  OBVIOUS
    <2> QED  BY <2>1, TopOf DEF Good
<1>3. R = [P EXCEPT !.stack = Front(@), !.complete = @ \/ curr.st = "eMethodResponse"]
    BY <1>2 DEF PoppedOf
<1>4. Q = CASE Len(P.stack) <= 1 -> Throw(P, "RuntimeException")
            [] Len(P.stack) > 1 /\ tag # ExpectedTag(curr.st) -> Throw(R, "XmlException")
            [] OTHER ->
                  CASE curr.st \in CallOwn /\ P.kind = "call" -> CallEnd(R, curr)
                    [] curr.st \in ResponseOwn /\ P.kind = "response" -> ResponseEnd(R, curr)
                    [] OTHER -> ValueEnd(R, curr)
    BY <1>2, <1>3, Zenon DEF endElement, CallOwn, ResponseOwn
<1>5. Q = CASE curr.st \in CallOwn /\ P.kind = "call" -> CallEnd(R, curr)
            [] curr.st \in ResponseOwn /\ P.kind = "response" -> ResponseEnd(R, curr)
            [] OTHER -> ValueEnd(R, curr)
    BY <1>1, <1>4
<1>6. "call" # "response"  OBVIOUS
<1> QED  BY <1>5, <1>6

(* What is read between the tags of the innermost element. *)
LEMMA TagCloses ==
    ASSUME NEW kind, NEW t, NEW e, NEW f, IsDocument(kind, t, e, f),
           NEW P, Good(P), P.kind = kind, NEW at, NEW n, NEW p \in Nat,
           Understands(P, t, e, f, at, n, p), p < Len(t), "close" \in DOMAIN t[p + 1],
           OnlyText(t, e, at[n]) => e[at[n]] # p + 1 \/ P.stack[n].cdata = TextIn(t, e, at[n]),
           NEW Q, Q = endElement(P, t[p + 1].close)
    PROVE  Q.thrown = P.thrown /\ Understands(Q, t, e, f, at, n - 1, p + 1)
<1>1. Tree(e, Len(t)) /\ Len(t) \in Nat  BY DocTree
<1>2. PICK j \in DOMAIN e : j # 0 /\ e[j] = p + 1  BY TokenIs
<1>3. Branch(e, at, n, p) /\ Len(P.stack) = n  BY DEF Understands
<1>4. j = at[n] /\ n - 1 \in Nat \ {0}  BY <1>1, <1>2, <1>3, BranchCloses
<1>5. PICK m \in Nat : n = m + 2
    <2>1. n - 1 - 1 \in Nat /\ n = (n - 1 - 1) + 2
        <3>1. n \in Nat  BY <1>3 DEF Branch
        <3> QED  BY <1>4, <3>1
    <2> QED  BY <2>1
<1>6. PICK R, curr : R = PoppedOf(P) /\ curr = P.stack[m + 2]  OBVIOUS
<1>7. Resting(R, t, e, f, at, m, p, j) /\ Leftover(P, R, t, e, f, m, p, j, curr)
    <2>1. Understands(P, t, e, f, at, m + 2, p)  BY <1>5
    <2> QED  BY <1>2, <1>6, <2>1, Rests
<1>8. PICK b : b = Tag(t, j)  OBVIOUS
<1>9. <<Tag(t, at[m + 1]), b>> \in Contents(kind) /\ kind \in Kinds  BY <1>7, <1>8, RestFacts
<1>10. curr.st = StateOf(b)  BY <1>7, <1>8 DEF Leftover, Level
<1>11. PICK tag : tag = t[p + 1].close  OBVIOUS
<1>12. tag = ExpectedTag(curr.st)
    <2>1. tag = b  BY <1>2, <1>8, <1>11, EndIs
    <2>2. ExpectedTag(StateOf(b)) = b  BY <1>9, TagExpected
    <2> QED  BY <1>10, <2>1, <2>2
<1>13. /\ curr.st \in CallOwn /\ P.kind = "call" => Q = CallEnd(R, curr)
       /\ curr.st \in ResponseOwn /\ P.kind = "response" => Q = ResponseEnd(R, curr)
       /\ curr.st \notin CallOwn /\ curr.st \notin ResponseOwn => Q = ValueEnd(R, curr)
    <2>1. Len(P.stack) = m + 2 /\ Q = endElement(P, tag)  BY <1>3, <1>5, <1>11
    <2> QED  BY <1>6, <1>12, <2>1, EndsExpected
<1>14. R.kind = kind /\ R.thrown = P.thrown /\ R.call = P.call /\ R.mvalue = P.mvalue
    BY <1>7 DEF Leftover
<1>15. Gathered(R, t, e, f, p)
    <2>1. Gathered(P, t, e, f, p)  BY DEF Understands
    <2> QED  BY <1>14, <2>1 DEF Gathered
<1>16. OnlyText(t, e, j) => curr.cdata = TextIn(t, e, j)  BY <1>2, <1>4, <1>5, <1>6
<1>17. j \in DOMAIN e /\ j # 0 /\ e[j] = p + 1  BY <1>2
<1>18. ClosedWell(R, Q, t, e, f, at, m + 1, p + 1)
    <2>1. CASE b \in ClosingTags
        <3>1. Q = ValueEnd(R, curr)  BY <1>10, <1>13, <2>1, ValuesOwn
        <3>2. Tag(t, j) \in ClosingTags  BY <1>8, <2>1
        <3>3. Taken(R, Q, t, e, f, at, m + 1, p + 1)
            BY <1>7, <1>14, <1>16, <3>1, <3>2, ValueCloses
        <3>4. Good(Q) /\ Q.kind = R.kind /\ Q.thrown = R.thrown /\ Q.call = R.call
              /\ Q.mvalue = R.mvalue /\ Follows(Q, t, e, f, at, m + 1, p + 1)
            BY <3>3 DEF Taken, Result, Like
        <3>5. b \notin {"param", "methodName", "methodResponse"}
            BY <2>1 DEF ClosingTags, Scalars
        <3>6. (kind = "call" => Tag(t, j) \notin {"param", "methodName"})
              /\ (kind = "response" => Tag(t, j) # "methodResponse")
            BY <1>8, <3>5
        <3>7. Gathered(Q, t, e, f, p + 1)
            BY <1>14, <1>15, <1>17, <3>4, <3>6, ValueGathered
        <3> QED  BY <3>4, <3>7 DEF ClosedWell
    <2>2. CASE kind = "call" /\ b \in CallTags
        <3>1. Q = CallEnd(R, curr)  BY <1>10, <1>13, <2>2, CallOwns
        <3>2. Tag(t, j) \in CallTags /\ kind = "call"  BY <1>8, <2>2
        <3> QED  BY <1>7, <1>14, <1>15, <1>16, <3>1, <3>2, CallCloses
    <2>3. CASE kind = "response" /\ b \in ResponseTags
        <3>1. Q = ResponseEnd(R, curr)  BY <1>10, <1>13, <2>3, ResponseOwns
        <3>2. Tag(t, j) \in ResponseTags /\ kind = "response"  BY <1>8, <2>3
        <3> QED  BY <1>7, <1>14, <1>15, <3>1, <3>2, ResponseCloses
    <2> QED  BY <1>9, <2>1, <2>2, <2>3, WhoseTag
<1>19. n - 1 = m + 1  BY <1>5
<1> QED  BY <1>14, <1>18, <1>19 DEF ClosedWell, Follows, Understands

-----------------------------------------------------------------------------
(***************************************************************************)
(* A document that keeps to the grammar, as the parser reads it.           *)
(***************************************************************************)
LEMMA DocumentIs ==
    ASSUME NEW d \in Documents, Grammatical(d.kind, d.tokens), NEW kind, kind = d.kind,
           NEW t, t = d.tokens, NEW e, e = Ends(t), NEW f, f = Says(t)
    PROVE  IsDocument(kind, t, e, f)
<1>1. kind \in Kinds /\ IsInput(t)  BY DocumentFacts
<1>2. DOMAIN e = Openings(t) \cup {0}  BY DEF Ends
<1>3. e[0] = Len(t) + 1
    <2>1. 0 \in Openings(t) \cup {0}  OBVIOUS
    <2> QED  BY <2>1 DEF Ends
<1>4. WellFormed(t, e) /\ Valid(kind, t, e)  BY DEF Grammatical
<1>5. Tree(e, Len(t))  BY <1>1, <1>2, <1>3, <1>4, FormedTree DEF Formed
<1>6. f = [i \in DOMAIN e |-> Said(t, e, f, i)]  BY <1>5, SaysUnrolls, SMTT(30)
<1> QED  BY <1>1, <1>2, <1>3, <1>4, <1>6 DEF IsDocument

(* What is left of it at p. *)
Rest(c, T) == \E q \in Nat : Len(c) + q = Len(T) /\ \A k \in 1..Len(c) : c[k] = T[q + k]

Window(t, w, p) ==
    /\ p \in Nat /\ p <= Len(t) /\ Len(w) = Len(t) - p
    /\ \A k \in 2..Len(w) : w[k] = t[p + k]
    /\ w # <<>> =>
        /\ "open" \in DOMAIN w[1] \/ "close" \in DOMAIN w[1] => w[1] = t[p + 1]
        /\ "chars" \in DOMAIN w[1] =>
            "chars" \in DOMAIN t[p + 1] /\ w[1].chars # <<>> /\ Rest(w[1].chars, t[p + 1].chars)

Letters(c, n) == [i \in 1..n |-> c[i][2]]
Pairs == {"literal", "entity"} \X STRING

(* x is what has been read of the text T, c what has not. *)
Split(x, c, T) ==
    /\ Len(x) + Len(c) = Len(T)
    /\ \A k \in 1..Len(x) : x[k] = T[k][2]
    /\ \A k \in 1..Len(c) : c[k] = T[Len(x) + k]

(* The text read so far of an element that holds only text. *)
Spelled(s, t, e, i, w, p) ==
    OnlyText(t, e, i) =>
        /\ e[i] = p + 1 => s.cdata = TextIn(t, e, i)
        /\ e[i] # p + 1 =>
            p = i /\ e[i] = i + 2 /\ Split(s.cdata, w[1].chars, t[p + 1].chars)

LEMMA WholeRest ==
    ASSUME NEW C, NEW c \in Seq(C) PROVE Rest(c, c)
<1>1. Len(c) \in Nat  BY LenProperties
<1>2. Len(c) + 0 = Len(c) /\ \A k \in 1..Len(c) : c[k] = c[0 + k]  BY <1>1
<1> QED  BY <1>2 DEF Rest

LEMMA TailAt ==
    ASSUME NEW w, IsInput(w), w # <<>>
    PROVE  /\ Len(w) \in Nat \ {0} /\ Len(Tail(w)) = Len(w) - 1
           /\ \A k \in 1..Len(w) - 1 : Tail(w)[k] = w[k + 1]
<1>1. PICK S : w \in Seq(S)  BY DEF IsInput
<1>2. Len(w) \in Nat \ {0}  BY <1>1, EmptySeq, LenProperties
<1>3. Len(Tail(w)) = Len(w) - 1 /\ \A k \in 1..Len(w) - 1 : Tail(w)[k] = w[k + 1]
    BY <1>1, HeadTailProperties
<1> QED  BY <1>2, <1>3

(* A token has been read. *)
LEMMA Advances ==
    ASSUME NEW t, NEW e, Formed(t, e), NEW w, IsInput(w), w # <<>>, NEW p, Window(t, w, p)
    PROVE  /\ p \in Nat /\ p < Len(t)
           /\ Window(t, Tail(w), p + 1)
           /\ Tail(w) # <<>> => Tail(w)[1] = t[p + 2] /\ p + 2 <= Len(t)
<1>1. PICK v : v = Tail(w)  OBVIOUS
<1>2. /\ Len(w) \in Nat \ {0} /\ Len(v) = Len(w) - 1
      /\ \A k \in 1..Len(w) - 1 : v[k] = w[k + 1]
    BY <1>1, TailAt
<1>3. Len(t) \in Nat /\ DOMAIN t = 1..Len(t)  BY InputLength DEF Formed
<1>4. /\ p \in Nat /\ p <= Len(t) /\ Len(w) = Len(t) - p
      /\ \A k \in 2..Len(w) : w[k] = t[p + k]
    BY DEF Window
<1>5. p < Len(t) /\ p + 1 \in Nat /\ p + 1 <= Len(t) /\ Len(v) = Len(t) - (p + 1)
    BY <1>2, <1>3, <1>4
<1>6. ASSUME NEW k \in 1..Len(v) PROVE v[k] = t[p + 1 + k]
    <2>1. k \in 1..Len(w) - 1 /\ k + 1 \in 2..Len(w)  BY <1>2
    <2>2. v[k] = w[k + 1] /\ w[k + 1] = t[p + (k + 1)]  BY <1>2, <1>4, <2>1
    <2>3. p + (k + 1) = p + 1 + k  BY <1>4
    <2> QED  BY <2>2, <2>3
<1>7. ASSUME v # <<>>
      PROVE  /\ v[1] = t[p + 2] /\ p + 2 <= Len(t)
             /\ "chars" \in DOMAIN v[1] => v[1].chars # <<>> /\ Rest(v[1].chars, v[1].chars)
    <2>1. IsInput(v)  BY <1>1, CountTail
    <2>2. Len(v) \in Nat \ {0}  BY <1>7, <2>1, TailAt
    <2>3. 1 \in 1..Len(v) /\ p + 1 + 1 = p + 2  BY <1>4, <2>2
    <2>4. v[1] = t[p + 2] /\ p + 2 <= Len(t)
        <3>1. v[1] = t[p + 1 + 1]  BY <1>6, <2>3
        <3>2. PICK a, b : a = Len(t) /\ b = Len(v)  OBVIOUS
        <3>3. a \in Nat /\ b \in Nat \ {0} /\ b = a - (p + 1)  BY <1>3, <1>5, <2>2, <3>2
        <3>4. p + 2 <= a  BY <1>4, <3>3
        <3> QED  BY <2>3, <3>1, <3>2, <3>4
    <2>5. ASSUME "chars" \in DOMAIN v[1]
          PROVE  v[1].chars # <<>> /\ Rest(v[1].chars, v[1].chars)
        <3>1. PICK j \in Nat : j = p + 2  BY <1>4
        <3>2. j \in DOMAIN t /\ v[1] = t[j]  BY <1>3, <1>4, <2>4, <3>1
        <3>3. t[j].chars # <<>>  BY <2>5, <3>2 DEF Formed, WellFormed
        <3>4. IsToken(t[j])  BY <3>2 DEF Formed, IsInput
        <3>5. PICK C : C = {"literal", "entity"} \X STRING  OBVIOUS
        <3>6. t[j].chars \in Seq(C)  BY <2>5, <3>2, <3>4, <3>5 DEF IsToken
        <3> QED  BY <3>2, <3>3, <3>6, WholeRest
    <2> QED  BY <2>4, <2>5
<1>8. Window(t, v, p + 1)
    <2>1. \A k \in 2..Len(v) : v[k] = t[(p + 1) + k]  BY <1>6
    <2>2. v # <<>> =>
            /\ "open" \in DOMAIN v[1] \/ "close" \in DOMAIN v[1] => v[1] = t[(p + 1) + 1]
            /\ "chars" \in DOMAIN v[1] =>
                /\ "chars" \in DOMAIN t[(p + 1) + 1] /\ v[1].chars # <<>>
                /\ Rest(v[1].chars, t[(p + 1) + 1].chars)
        <3>1. (p + 1) + 1 = p + 2  BY <1>4
        <3> QED  BY <1>7, <3>1
    <2> QED  BY <1>5, <2>1, <2>2 DEF Window
<1> QED  BY <1>1, <1>4, <1>5, <1>7, <1>8

(* The text of the element that an opening tag opens is still to come. *)
LEMMA OpenSpelled ==
    ASSUME NEW kind, NEW t, NEW e, NEW f, IsDocument(kind, t, e, f),
           NEW w, IsInput(w), w # <<>>, NEW p, Window(t, w, p), p + 1 \in DOMAIN e,
           NEW s, s.cdata = <<>>
    PROVE  Spelled(s, t, e, p + 1, Tail(w), p + 1)
<1>1. Formed(t, e)  BY DEF IsDocument, Formed
<1>2. PICK v : v = Tail(w)  OBVIOUS
<1>3. /\ p \in Nat /\ p < Len(t) /\ Window(t, v, p + 1)
      /\ v # <<>> => v[1] = t[p + 2] /\ p + 2 <= Len(t)
    BY <1>1, <1>2, Advances
<1>4. PICK i : i = p + 1  OBVIOUS
<1>5. i \in Nat /\ i # 0 /\ i + 1 = p + 2 /\ i \in DOMAIN e  BY <1>3, <1>4
<1>6. Len(<<>>) = 0  OBVIOUS
<1>7. ASSUME OnlyText(t, e, i), e[i] = i + 1 PROVE s.cdata = TextIn(t, e, i)
    BY <1>7 DEF TextIn
<1>8. ASSUME OnlyText(t, e, i), e[i] # i + 1
      PROVE  /\ e[i] = i + 2 /\ Len(s.cdata) + Len(v[1].chars) = Len(t[i + 1].chars)
             /\ \A k \in 1..Len(s.cdata) : s.cdata[k] = t[i + 1].chars[k][2]
             /\ \A k \in 1..Len(v[1].chars) : v[1].chars[k] = t[i + 1].chars[Len(s.cdata) + k]
    <2>1. e[i] = i + 2 /\ "chars" \in DOMAIN t[i + 1]  BY <1>5, <1>8, TextAlone
    <2>2. v # <<>>
        <3>1. e[i] \in 1..Len(t)  BY <1>5, EndIs
        <3>2. Len(t) \in Nat  BY <1>1, InputLength DEF Formed
        <3>3. p + 3 <= Len(t)  BY <1>3, <1>4, <2>1, <3>1, <3>2
        <3>4. Len(v) = Len(t) - (p + 1)  BY <1>3 DEF Window
        <3> QED  BY <1>3, <1>6, <3>2, <3>3, <3>4
    <2>3. PICK c : c = t[i + 1].chars  OBVIOUS
    <2>4. v[1].chars = c  BY <1>3, <1>5, <2>2, <2>3
    <2>5. Len(c) \in Nat
        <3>1. IsToken(t[i + 1])
            <4>1. i + 1 \in DOMAIN t  BY <1>1, <1>3, <1>5, <2>2, InputLength DEF Formed
            <4> QED  BY <1>1, <4>1 DEF Formed, IsInput
        <3>2. PICK C : C = {"literal", "entity"} \X STRING  OBVIOUS
        <3>3. c \in Seq(C)  BY <2>1, <2>3, <3>1, <3>2 DEF IsToken
        <3> QED  BY <3>3, LenProperties
    <2>6. Len(s.cdata) = 0  BY <1>6
    <2>7. 0 + Len(c) = Len(c) /\ \A k \in 1..Len(c) : c[k] = c[0 + k]  BY <2>5
    <2>8. \A k \in 1..0 : s.cdata[k] = c[k][2]  OBVIOUS
    <2> QED  BY <2>1, <2>3, <2>4, <2>6, <2>7, <2>8
<1>9. Spelled(s, t, e, i, v, i)  BY <1>7, <1>8 DEF Spelled, Split
<1> QED  BY <1>2, <1>4, <1>9

(* An element that has had a part is not one of text alone. *)
LEMMA CloseSpelled ==
    ASSUME NEW kind, NEW t, NEW e, NEW f, IsDocument(kind, t, e, f),
           NEW i \in DOMAIN e, NEW j \in Parts(e, i), NEW s, NEW w, NEW p
    PROVE  Spelled(s, t, e, i, w, p)
<1>1. ~OnlyText(t, e, i)  BY TextAlone
<1> QED  BY <1>1 DEF Spelled

-----------------------------------------------------------------------------
(***************************************************************************)
(* Text, in pieces.                                                        *)
(***************************************************************************)
More(x, text) == x \o text

LEMMA CharsRead ==
    ASSUME NEW t, NEW e, NEW f, NEW P, Good(P), NEW at, NEW n, NEW p,
           Understands(P, t, e, f, at, n, p), NEW text \in Texts,
           NEW Q, Q = charData(P, text)
    PROVE  /\ Good(Q) /\ Q.kind = P.kind /\ Q.thrown = P.thrown
           /\ Understands(Q, t, e, f, at, n, p)
           /\ Q.stack[n].cdata = More(P.stack[n].cdata, text)
<1>1. Result(P, Q)  BY Reads
<1>2. Good(Q) /\ Q.kind = P.kind /\ Q.thrown = P.thrown /\ Q.ignored = P.ignored
    BY <1>1 DEF Result, Like
<1>3. n \in Nat \ {0} /\ Len(P.stack) = n  BY DEF Understands, Branch
<1>4. PICK m \in Nat : n = m + 1
    <2>1. n - 1 \in Nat /\ n = (n - 1) + 1  BY <1>3
    <2> QED  BY <2>1
<1>5. PICK top : top = P.stack[n]  OBVIOUS
<1>6. IsParser(P) /\ getTopState(P) = top /\ top \in State
    <2>1. Len(P.stack) = m + 1  BY <1>3, <1>4
    <2> QED  BY <1>4, <1>5, <2>1, TopOf DEF Good
<1>7. PICK s : s = [top EXCEPT !.cdata = top.cdata \o text]  OBVIOUS
<1>8. Q = WithTop(P, s)  BY <1>6, <1>7 DEF charData
<1>9. s \in State /\ s.cdata = top.cdata \o text
      /\ s.st = top.st /\ s.ptr = top.ptr /\ s.name = top.name /\ s.prev = top.prev
      /\ s.mem = top.mem /\ s.del = top.del
    <2>1. top.cdata \in Texts  BY <1>6 DEF State
    <2>2. top.cdata \o text \in Texts  BY <2>1, ConcatProperties DEF Texts
    <2> QED  BY <1>6, <1>7, <2>2 DEF State
<1>10. Leaves(P, Q, 0) /\ Alive(Q) = Alive(P) /\ Q.heap = P.heap  BY <1>6, <1>8, TopLeaves
<1>11. Stacked(P, Q, m, s)  BY <1>3, <1>4, <1>6, <1>8, <1>9, WithTopOp
<1>12. /\ Len(Q.stack) = n /\ Q.stack[n] = s
       /\ \A k \in 1..n : k # n => Q.stack[k] = P.stack[k]
    BY <1>4, <1>11 DEF Stacked
<1>13. ASSUME NEW k \in 1..n
       PROVE  /\ SameLevel(P, Q, P.stack[k], Q.stack[k])
              /\ Q.stack[k].ptr = P.stack[k].ptr /\ Q.stack[k].mem = P.stack[k].mem
              /\ Q.stack[k].del = P.stack[k].del
    <2>1. CASE k = n  BY <1>2, <1>5, <1>9, <1>10, <1>12, <2>1 DEF SameLevel
    <2>2. CASE k # n
        <3>1. Q.stack[k] = P.stack[k]  BY <1>12, <2>2
        <3> QED  BY <1>2, <1>10, <3>1 DEF SameLevel
    <2> QED  BY <2>1, <2>2
<1>14. ASSUME NEW k \in 1..n PROVE Level(Q, t, e, f, at[k], Q.stack[k], p)
    <2>1. Level(P, t, e, f, at[k], P.stack[k], p)  BY DEF Understands
    <2>2. SameLevel(P, Q, P.stack[k], Q.stack[k])  BY <1>13
    <2> QED  BY <2>1, <2>2, LevelKept
<1>15. Gathered(Q, t, e, f, p)
    <2>1. SameGiven(t, e, p, p)  BY DEF SameGiven
    <2>2. Gathered(P, t, e, f, p)  BY DEF Understands
    <2>3. Q.call = P.call /\ Q.mvalue = P.mvalue  BY <1>10 DEF Leaves
    <2> QED  BY <1>2, <2>1, <2>2, <2>3, GatheredKept
<1>16. ~Nameless(t) => Claimed(Q)
    <2>1. ASSUME Claimed(P), NEW h \in Alive(Q)
          PROVE  \E k \in 1..Len(Q.stack) : Q.stack[k].ptr = h \/ Q.stack[k].mem = h
        <3>1. PICK k \in 1..n : P.stack[k].ptr = h \/ P.stack[k].mem = h
            BY <1>3, <1>10, <2>1 DEF Claimed
        <3> QED  BY <1>12, <1>13, <3>1
    <2>2. ~Nameless(t) => Claimed(P)  BY DEF Understands
    <2> QED  BY <2>1, <2>2 DEF Claimed
<1>17. Q.ignored = 0 /\ Q.stack[1].del
    <2>1. P.ignored = 0 /\ P.stack[1].del  BY DEF Understands
    <2>2. 1 \in 1..n  BY <1>3
    <2> QED  BY <1>2, <1>13, <2>1, <2>2
<1>18. Branch(e, at, n, p)  BY DEF Understands
<1> QED  BY <1>2, <1>5, <1>9, <1>12, <1>14, <1>15, <1>16, <1>17, <1>18 DEF Understands, More

(* A text, once read, has no part in what is done of the elements. *)
LEMMA TextPassed ==
    ASSUME NEW kind, NEW t, NEW e, NEW f, IsDocument(kind, t, e, f),
           NEW P, NEW at, NEW n, NEW p \in Nat, Understands(P, t, e, f, at, n, p),
           p < Len(t), "chars" \in DOMAIN t[p + 1]
    PROVE  Understands(P, t, e, f, at, n, p + 1)
<1>1. Tree(e, Len(t)) /\ Len(t) \in Nat  BY DocTree
<1>2. p + 1 \notin DOMAIN e /\ (\A i \in DOMAIN e : e[i] # p + 1)  BY TokenIs
<1>3. Branch(e, at, n, p)  BY DEF Understands
<1>4. Branch(e, at, n, p + 1)  BY <1>1, <1>2, <1>3, BranchReads
<1>5. ASSUME NEW k \in 1..n PROVE Level(P, t, e, f, at[k], P.stack[k], p + 1)
    <2>1. PICK i : i = at[k]  OBVIOUS
    <2>2. p + 1 \notin Parts(e, i)
        <3>1. ASSUME p + 1 \in Parts(e, i) PROVE FALSE  BY <1>2, <3>1, PartFacts
        <3> QED  BY <3>1
    <2>3. Done(e, i, p + 1) = Done(e, i, p) /\ Full(t, e, i, p + 1) = Full(t, e, i, p)
        BY <1>1, <1>2, DoneSame
    <2>4. Met(e, i, p + 1) = Met(e, i, p)  BY <1>1, <2>2, MetSame
    <2>5. Level(P, t, e, f, i, P.stack[k], p)  BY <2>1 DEF Understands
    <2>6. SameLevel(P, P, P.stack[k], P.stack[k])  BY DEF SameLevel
    <2>7. Level(P, t, e, f, i, P.stack[k], p + 1)  BY <2>3, <2>4, <2>5, <2>6, LevelKept
    <2> QED  BY <2>1, <2>7
<1>6. Gathered(P, t, e, f, p + 1)
    <2>1. SameGiven(t, e, p, p + 1)  BY <1>2, GivenSame
    <2>2. Gathered(P, t, e, f, p)  BY DEF Understands
    <2> QED  BY <2>1, <2>2, GatheredKept
<1> QED  BY <1>4, <1>5, <1>6 DEF Understands

Piece(c, n) == SubSeq(c, n + 1, Len(c))

LEMMA PieceIs ==
    ASSUME NEW C, NEW c \in Seq(C), NEW n \in Nat, n <= Len(c)
    PROVE  /\ Piece(c, n) \in Seq(C) /\ Len(Piece(c, n)) = Len(c) - n
           /\ \A k \in 1..Len(c) - n : Piece(c, n)[k] = c[n + k]
<1>1. PICK m \in Nat : m = Len(c)  BY LenProperties
<1>2. \A i \in 1..m : c[i] \in C  BY <1>1, LenProperties
<1>3. \A i \in n + 1..m : c[i] \in C  BY <1>2
<1>4. n + 1 \in Int /\ m \in Int  BY <1>1
<1>5. PICK r : r = Piece(c, n)  OBVIOUS
<1>6. r = SubSeq(c, n + 1, m)  BY <1>1, <1>5 DEF Piece
<1>7. r \in Seq(C) /\ Len(r) = (IF n + 1 <= m THEN m - (n + 1) + 1 ELSE 0)
      /\ \A i \in 1..m - (n + 1) + 1 : r[i] = c[n + 1 + i - 1]
    BY <1>3, <1>4, <1>6, SubSeqProperties
<1>8. Len(r) = m - n  BY <1>1, <1>7
<1>9. ASSUME NEW k \in 1..m - n PROVE r[k] = c[n + k]
    <2>1. k \in 1..m - (n + 1) + 1 /\ n + 1 + k - 1 = n + k  BY <1>1
    <2> QED  BY <1>7, <2>1
<1> QED  BY <1>1, <1>5, <1>7, <1>8, <1>9

Left(c, n, w) == Chars(Piece(c, n)) \o Tail(w)

(* One piece of a text has been read, another one is to come. *)
LEMMA PieceRead ==
    ASSUME NEW t, NEW w, IsInput(w), w # <<>>, "chars" \in DOMAIN w[1], NEW p, Window(t, w, p),
           NEW c, c = w[1].chars, NEW n \in Nat, n < Len(c),
           NEW v, v = Left(c, n, w)
    PROVE  /\ Window(t, v, p) /\ v # <<>> /\ v[1].chars = Piece(c, n)
<1>1. PICK C : C = {"literal", "entity"} \X STRING  OBVIOUS
<1>2. 1 \in DOMAIN w /\ Len(w) \in Nat \ {0} /\ Len(Tail(w)) = Len(w) - 1
      /\ \A k \in 1..Len(w) - 1 : Tail(w)[k] = w[k + 1]
    <2>1. Len(w) \in Nat \ {0} /\ Len(Tail(w)) = Len(w) - 1
          /\ \A k \in 1..Len(w) - 1 : Tail(w)[k] = w[k + 1]
        BY TailAt
    <2> QED  BY <2>1, InputLength
<1>3. c \in Seq(C)  BY <1>1, <1>2 DEF IsInput, IsToken
<1>4. PICK m \in Nat : m = Len(c)  BY <1>3, LenProperties
<1>5. PICK r : r = Piece(c, n)  OBVIOUS
<1>6. r \in Seq(C) /\ Len(r) = m - n /\ \A k \in 1..m - n : r[k] = c[n + k]
    <2>1. n <= Len(c)  BY <1>4
    <2>2. /\ Piece(c, n) \in Seq(C) /\ Len(Piece(c, n)) = Len(c) - n
          /\ \A k \in 1..Len(c) - n : Piece(c, n)[k] = c[n + k]
        BY <1>3, <2>1, PieceIs
    <2> QED  BY <1>4, <1>5, <2>2
<1>7. r # <<>>  BY <1>4, <1>6
<1>8. PICK tok : tok = [chars |-> r]  OBVIOUS
<1>9. DOMAIN tok = {"chars"} /\ tok.chars = r  BY <1>8
<1>10. PICK u : u = Tail(w)  OBVIOUS
<1>11. v = <<tok>> \o u  BY <1>5, <1>7, <1>8, <1>10 DEF Chars, Left
<1>12. \E S : u \in Seq(S) /\ tok \in S
    <2>1. IsInput(u)  BY <1>10, CountTail
    <2>2. PICK S : u \in Seq(S)  BY <2>1 DEF IsInput
    <2>3. u \in Seq(S \cup {tok})
        <3>1. PICK T : T = S \cup {tok}  OBVIOUS
        <3>2. Len(u) \in Nat /\ u = [i \in 1..Len(u) |-> u[i]] /\ \A i \in 1..Len(u) : u[i] \in S
            BY <2>2, LenProperties
        <3>3. \A i \in 1..Len(u) : u[i] \in T  BY <3>1, <3>2
        <3>4. u \in Seq(T)  BY <3>2, <3>3, IsASeq
        <3> QED  BY <3>1, <3>4
    <2> QED  BY <2>3
<1>13. Len(v) = Len(w) /\ v[1] = tok /\ \A k \in 2..Len(w) : v[k] = w[k]
    <2>1. PICK S : u \in Seq(S) /\ tok \in S  BY <1>12
    <2>2. PICK l : l = <<tok>>  OBVIOUS
    <2>3. l \in Seq(S) /\ Len(l) = 1 /\ l[1] = tok  BY <2>1, <2>2
    <2>4. Len(v) = Len(l) + Len(u)
          /\ \A i \in 1..Len(l) + Len(u) : v[i] = IF i <= Len(l) THEN l[i] ELSE u[i - Len(l)]
        <3>1. v = l \o u  BY <1>11, <2>2
        <3>2. l \in Seq(S) /\ u \in Seq(S)  BY <2>1, <2>3
        <3> QED  BY <3>1, <3>2, ConcatProperties, ZenonT(40)
    <2>5. Len(v) = Len(w)  BY <1>2, <1>10, <2>3, <2>4
    <2>6. v[1] = tok  BY <1>2, <2>3, <2>4, <2>5
    <2>7. ASSUME NEW k \in 2..Len(w) PROVE v[k] = w[k]
        <3>1. k \in 1..Len(l) + Len(u) /\ ~(k <= 1) /\ k - 1 \in 1..Len(w) - 1 /\ (k - 1) + 1 = k
            BY <1>2, <2>3, <2>4, <2>5
        <3>2. v[k] = u[k - 1]  BY <2>3, <2>4, <3>1
        <3>3. u[k - 1] = w[(k - 1) + 1]  BY <1>2, <1>10, <3>1
        <3> QED  BY <3>1, <3>2, <3>3
    <2> QED  BY <2>5, <2>6, <2>7
<1>14. /\ p \in Nat /\ p <= Len(t) /\ Len(w) = Len(t) - p
       /\ \A k \in 2..Len(w) : w[k] = t[p + k]
       /\ "chars" \in DOMAIN t[p + 1] /\ Rest(c, t[p + 1].chars)
    BY DEF Window
<1>15. PICK T : T = t[p + 1].chars  OBVIOUS
<1>16. Rest(r, T)
    <2>1. PICK q \in Nat : Len(c) + q = Len(T) /\ \A k \in 1..Len(c) : c[k] = T[q + k]
        BY <1>14, <1>15 DEF Rest
    <2>2. PICK x \in Nat : x = q + n  OBVIOUS
    <2>3. Len(r) + x = Len(T)
        <3>1. PICK a : a = Len(T)  OBVIOUS
        <3>2. a = m + q  BY <1>4, <2>1, <3>1
        <3>3. PICK b : b = Len(r)  OBVIOUS
        <3>4. b = m - n  BY <1>6, <3>3
        <3>5. b + x = a  BY <2>2, <3>2, <3>4
        <3> QED  BY <3>1, <3>3, <3>5
    <2>4. ASSUME NEW k \in 1..Len(r) PROVE r[k] = T[x + k]
        <3>1. k \in 1..m - n /\ n + k \in 1..m /\ q + (n + k) = x + k  BY <1>4, <1>6, <2>2
        <3> QED  BY <1>4, <1>6, <2>1, <3>1
    <2> QED  BY <2>3, <2>4 DEF Rest
<1>17. v # <<>>  BY <1>2, <1>13
<1>18. Window(t, v, p)
    <2>1. \A k \in 2..Len(v) : v[k] = t[p + k]  BY <1>13, <1>14
    <2>2. Len(v) = Len(t) - p  BY <1>13, <1>14
    <2>3. "open" \notin DOMAIN v[1] /\ "close" \notin DOMAIN v[1]  BY <1>9, <1>13
    <2>4. "chars" \in DOMAIN t[p + 1] /\ v[1].chars # <<>> /\ Rest(v[1].chars, t[p + 1].chars)
        BY <1>7, <1>9, <1>13, <1>14, <1>15, <1>16
    <2> QED  BY <1>14, <2>1, <2>2, <2>3, <2>4 DEF Window
<1> QED  BY <1>5, <1>9, <1>13, <1>17, <1>18

LEMMA LettersAre ==
    ASSUME NEW c \in Seq(Pairs), NEW n \in Nat, n <= Len(c)
    PROVE  Letters(c, n) \in Texts /\ Len(Letters(c, n)) = n
<1>1. PICK m \in Nat : m = Len(c) /\ \A i \in 1..m : c[i] \in Pairs  BY LenProperties
<1>2. PICK text : text = Letters(c, n)  OBVIOUS
<1>3. ASSUME NEW i \in 1..n PROVE text[i] \in STRING
    <2>1. i \in 1..m /\ text[i] = c[i][2]  BY <1>1, <1>2 DEF Letters
    <2> QED  BY <1>1, <2>1 DEF Pairs
<1>4. text = [i \in 1..n |-> text[i]]  BY <1>2 DEF Letters
<1>5. text \in Texts  BY <1>3, <1>4, IsASeq DEF Texts
<1>6. Len(text) = n
    <2>1. DOMAIN text = 1..n /\ DOMAIN text = 1..Len(text) /\ Len(text) \in Nat
        BY <1>4, <1>5, LenProperties DEF Texts
    <2> QED  BY <2>1
<1> QED  BY <1>2, <1>5, <1>6

LEMMA TextGrows ==
    ASSUME NEW x \in Texts, NEW c \in Seq(Pairs), NEW T, Split(x, c, T),
           NEW n \in Nat, n <= Len(c), NEW y, y = More(x, Letters(c, n))
    PROVE  Split(y, Piece(c, n), T) /\ Len(y) \in Nat
<1>1. PICK a \in Nat, m \in Nat : a = Len(x) /\ m = Len(c)  BY LenProperties DEF Texts
<1>2. PICK text : text = Letters(c, n)  OBVIOUS
<1>3. text \in Texts /\ Len(text) = n /\ \A i \in 1..n : text[i] = c[i][2]
    <2>1. text \in Texts /\ Len(text) = n  BY <1>2, LettersAre
    <2> QED  BY <1>2, <2>1 DEF Letters
<1>4. PICK r : r = Piece(c, n)  OBVIOUS
<1>5. Len(r) = m - n /\ \A k \in 1..m - n : r[k] = c[n + k]  BY <1>1, <1>4, PieceIs
<1>6. Len(y) = a + n /\ \A i \in 1..a + n : y[i] = IF i <= a THEN x[i] ELSE text[i - a]
    <2>1. y = x \o text /\ x \in Seq(STRING) /\ text \in Seq(STRING)  BY <1>2, <1>3 DEF Texts, More
    <2>2. Len(y) = Len(x) + Len(text)
          /\ \A i \in 1..Len(x) + Len(text) :
                y[i] = IF i <= Len(x) THEN x[i] ELSE text[i - Len(x)]
        BY <2>1, ConcatProperties, ZenonT(40)
    <2> QED  BY <1>1, <1>3, <2>2, Zenon
<1>7. /\ a + m = Len(T)
      /\ \A k \in 1..a : x[k] = T[k][2]
      /\ \A k \in 1..m : c[k] = T[a + k]
    BY <1>1 DEF Split
<1>11. PICK b, l : b = Len(r) /\ l = Len(y)  OBVIOUS
<1>12. n \in Nat /\ n <= m /\ b = m - n /\ l = a + n  BY <1>1, <1>5, <1>6, <1>11
<1>8. Len(y) + Len(r) = Len(T)
    <2>1. l + b = a + m  BY <1>1, <1>12
    <2> QED  BY <1>7, <1>11, <2>1
<1>9. ASSUME NEW k \in 1..Len(y) PROVE y[k] = T[k][2]
    <2>1. k \in 1..a + n  BY <1>6
    <2>2. CASE k <= a  BY <1>6, <1>7, <2>1, <2>2
    <2>3. CASE ~(k <= a)
        <3>1. k - a \in 1..n /\ k - a \in 1..m /\ a + (k - a) = k  BY <1>1, <2>1, <2>3
        <3>2. y[k] = text[k - a]  BY <1>6, <2>1, <2>3
        <3>3. text[k - a] = c[k - a][2]  BY <1>3, <3>1
        <3>4. c[k - a] = T[k]  BY <1>7, <3>1
        <3> QED  BY <3>2, <3>3, <3>4
    <2> QED  BY <2>2, <2>3
<1>10. ASSUME NEW k \in 1..Len(r) PROVE r[k] = T[Len(y) + k]
    <2>2. k \in 1..b  BY <1>11
    <2>3. k \in 1..m - n /\ n + k \in 1..m /\ a + (n + k) = l + k  BY <1>1, <1>12, <2>2
    <2>4. r[k] = T[l + k]  BY <1>5, <1>7, <2>3
    <2>5. Len(y) + k = l + k  BY <1>11
    <2> QED  BY <2>4, <2>5, Zenon
<1>13. Split(y, r, T)  BY <1>8, <1>9, <1>10, Zenon DEF Split
<1>14. Len(y) \in Nat  BY <1>6
<1> QED  BY <1>4, <1>13, <1>14

(* A text that has been read to its end. *)
LEMMA TextComplete ==
    ASSUME NEW y \in Texts, NEW c, Len(c) = 0, NEW T \in Seq(Pairs), Split(y, c, T)
    PROVE  y = [n \in DOMAIN T |-> T[n][2]]
<1>1. PICK a \in Nat : a = Len(y) /\ y = [i \in 1..a |-> y[i]]  BY LenProperties DEF Texts
<1>2. DOMAIN T = 1..a  BY <1>1, LenProperties DEF Split
<1>3. \A k \in 1..a : y[k] = T[k][2]  BY <1>1 DEF Split
<1> QED  BY <1>1, <1>2, <1>3

(* The text of the innermost element after another piece of it. *)
LEMMA PieceSpelled ==
    ASSUME NEW kind, NEW t, NEW e, NEW f, IsDocument(kind, t, e, f), NEW i \in DOMAIN e,
           NEW p \in Nat, p < Len(t), "chars" \in DOMAIN t[p + 1],
           NEW s, s.cdata \in Texts, NEW w, Spelled(s, t, e, i, w, p),
           NEW c, c = w[1].chars, c \in Seq(Pairs), NEW n \in Nat, n <= Len(c),
           NEW r, r.cdata = More(s.cdata, Letters(c, n)),
           NEW v, v[1].chars = Piece(c, n)
    PROVE  Spelled(r, t, e, i, v, p)
<1>1. e[i] # p + 1  BY TokenIs
<1>2. PICK T, x, y : T = t[p + 1].chars /\ x = s.cdata /\ y = r.cdata  OBVIOUS
<1>3. ASSUME OnlyText(t, e, i)
      PROVE  p = i /\ e[i] = i + 2 /\ Split(y, Piece(c, n), T)
    <2>1. p = i /\ e[i] = i + 2 /\ Split(x, c, T)  BY <1>1, <1>2, <1>3 DEF Spelled
    <2>2. x \in Texts /\ y = More(x, Letters(c, n))  BY <1>2
    <2> QED  BY <2>1, <2>2, TextGrows
<1> QED  BY <1>1, <1>2, <1>3 DEF Spelled

LEMMA TextSpelled ==
    ASSUME NEW kind, NEW t, NEW e, NEW f, IsDocument(kind, t, e, f), NEW i \in DOMAIN e,
           NEW p \in Nat, p < Len(t), "chars" \in DOMAIN t[p + 1],
           NEW s, s.cdata \in Texts, NEW w, Spelled(s, t, e, i, w, p),
           NEW c, c = w[1].chars, c \in Seq(Pairs), NEW n \in Nat, n = Len(c),
           NEW r, r.cdata = More(s.cdata, Letters(c, n)), r.cdata \in Texts, NEW v
    PROVE  Spelled(r, t, e, i, v, p + 1)
<1>1. e[i] # p + 1  BY TokenIs
<1>2. PICK T, x, y : T = t[p + 1].chars /\ x = s.cdata /\ y = r.cdata  OBVIOUS
<1>3. ASSUME OnlyText(t, e, i)
      PROVE  e[i] = p + 2 /\ y = TextIn(t, e, i)
    <2>1. p = i /\ e[i] = i + 2 /\ Split(x, c, T)  BY <1>1, <1>2, <1>3 DEF Spelled
    <2>2. x \in Texts /\ y = More(x, Letters(c, n)) /\ y \in Texts  BY <1>2
    <2>3. n <= Len(c)  OBVIOUS
    <2>4. Split(y, Piece(c, n), T)  BY <2>1, <2>2, <2>3, TextGrows
    <2>5. Len(Piece(c, n)) = 0
        <3>1. Len(Piece(c, n)) = Len(c) - n  BY <2>3, PieceIs
        <3> QED  BY <3>1
    <2>6. T \in Seq(Pairs)
        <3>1. IsToken(t[p + 1])  BY TokenIs
        <3> QED  BY <1>2, <3>1 DEF IsToken, Pairs
    <2>7. y = [k \in DOMAIN T |-> T[k][2]]  BY <2>2, <2>4, <2>5, <2>6, TextComplete
    <2>8. e[i] # i + 1 /\ t[i + 1].chars = T  BY <1>2, <2>1
    <2> QED  BY <2>1, <2>7, <2>8 DEF TextIn
<1>4. (p + 1) + 1 = p + 2  OBVIOUS
<1> QED  BY <1>2, <1>3, <1>4 DEF Spelled

-----------------------------------------------------------------------------
(***************************************************************************)
(* The parser in the middle of a document: w is what is still to come.     *)
(***************************************************************************)
ReadsAt(w, P, t, e, f, at, n, p) ==
    Understands(P, t, e, f, at, n, p) /\ Window(t, w, p) /\ Spelled(P.stack[n], t, e, at[n], w, p)
Reading(w, P, t, e, f) == \E at : \E n : \E p : ReadsAt(w, P, t, e, f, at, n, p)

LEMMA ReadingOpens ==
    ASSUME NEW kind, NEW t, NEW e, NEW f, IsDocument(kind, t, e, f), NEW P, Good(P),
           P.kind = kind, NEW w, IsInput(w), w # <<>>, Reading(w, P, t, e, f),
           "open" \in DOMAIN Head(w), NEW Q, Q = startElement(P, Head(w).open)
    PROVE  Q.thrown = P.thrown /\ Reading(Tail(w), Q, t, e, f)
<1>1. PICK at : \E n : \E p : ReadsAt(w, P, t, e, f, at, n, p)  BY DEF Reading
<1>2. PICK n : \E p : ReadsAt(w, P, t, e, f, at, n, p)  BY <1>1
<1>3. PICK p : ReadsAt(w, P, t, e, f, at, n, p)  BY <1>2
<1>4. Understands(P, t, e, f, at, n, p) /\ Window(t, w, p)  BY <1>3 DEF ReadsAt
<1>5. Formed(t, e)  BY DEF IsDocument, Formed
<1>6. p \in Nat /\ p < Len(t) /\ Window(t, Tail(w), p + 1)  BY <1>4, <1>5, Advances
<1>7. Head(w) = w[1]  BY CountTail
<1>8. w[1] = t[p + 1] /\ "open" \in DOMAIN t[p + 1]  BY <1>4, <1>7 DEF Window
<1>9. Q = startElement(P, t[p + 1].open)  BY <1>7, <1>8
<1>10. PICK longer : longer = [k \in 1..n + 1 |-> IF k <= n THEN at[k] ELSE p + 1]  OBVIOUS
<1>11. Q.thrown = P.thrown /\ Understands(Q, t, e, f, longer, n + 1, p + 1)
       /\ Q.stack[n + 1].cdata = <<>>
    BY <1>4, <1>6, <1>8, <1>9, <1>10, TagOpens
<1>12. longer[n + 1] = p + 1
    <2>1. n \in Nat \ {0}  BY <1>4 DEF Understands, Branch
    <2> QED  BY <1>10, <2>1
<1>13. p + 1 \in DOMAIN e  BY <1>6, <1>8, TokenIs
<1>14. Spelled(Q.stack[n + 1], t, e, p + 1, Tail(w), p + 1)
    BY <1>4, <1>11, <1>13, OpenSpelled
<1>15. ReadsAt(Tail(w), Q, t, e, f, longer, n + 1, p + 1)
    BY <1>6, <1>11, <1>12, <1>14 DEF ReadsAt
<1> QED  BY <1>11, <1>15 DEF Reading

LEMMA ReadingCloses ==
    ASSUME NEW kind, NEW t, NEW e, NEW f, IsDocument(kind, t, e, f), NEW P, Good(P),
           P.kind = kind, NEW w, IsInput(w), w # <<>>, Reading(w, P, t, e, f),
           "close" \in DOMAIN Head(w), NEW Q, Q = endElement(P, Head(w).close)
    PROVE  Q.thrown = P.thrown /\ Reading(Tail(w), Q, t, e, f)
<1>1. PICK at : \E n : \E p : ReadsAt(w, P, t, e, f, at, n, p)  BY DEF Reading
<1>2. PICK n : \E p : ReadsAt(w, P, t, e, f, at, n, p)  BY <1>1
<1>3. PICK p : ReadsAt(w, P, t, e, f, at, n, p)  BY <1>2
<1>4. Understands(P, t, e, f, at, n, p) /\ Window(t, w, p)
      /\ Spelled(P.stack[n], t, e, at[n], w, p)
    BY <1>3 DEF ReadsAt
<1>5. Formed(t, e)  BY DEF IsDocument, Formed
<1>6. p \in Nat /\ p < Len(t) /\ Window(t, Tail(w), p + 1)  BY <1>4, <1>5, Advances
<1>7. Head(w) = w[1]  BY CountTail
<1>8. w[1] = t[p + 1] /\ "close" \in DOMAIN t[p + 1]  BY <1>4, <1>7 DEF Window
<1>9. Q = endElement(P, t[p + 1].close)  BY <1>7, <1>8
<1>10. PICK j \in DOMAIN e : j # 0 /\ e[j] = p + 1  BY <1>6, <1>8, TokenIs
<1>11. Branch(e, at, n, p) /\ Tree(e, Len(t)) /\ Len(t) \in Nat  BY <1>4, DocTree DEF Understands
<1>12. j = at[n] /\ j \in Parts(e, at[n - 1]) /\ at[n - 1] \in DOMAIN e
    BY <1>6, <1>10, <1>11, BranchCloses
<1>13. OnlyText(t, e, at[n]) => e[at[n]] # p + 1 \/ P.stack[n].cdata = TextIn(t, e, at[n])
    BY <1>4 DEF Spelled
<1>14. Q.thrown = P.thrown /\ Understands(Q, t, e, f, at, n - 1, p + 1)
    BY <1>4, <1>6, <1>8, <1>9, <1>13, TagCloses
<1>15. Spelled(Q.stack[n - 1], t, e, at[n - 1], Tail(w), p + 1)  BY <1>12, CloseSpelled
<1>16. ReadsAt(Tail(w), Q, t, e, f, at, n - 1, p + 1)  BY <1>6, <1>14, <1>15 DEF ReadsAt
<1> QED  BY <1>14, <1>16 DEF Reading

LEMMA ReadingText ==
    ASSUME NEW kind, NEW t, NEW e, NEW f, IsDocument(kind, t, e, f), NEW P, Good(P),
           P.kind = kind, NEW w, IsInput(w), w # <<>>, Reading(w, P, t, e, f),
           "chars" \in DOMAIN Head(w), NEW c, c = Head(w).chars, NEW l \in Nat, l <= Len(c),
           NEW Q, Q = charData(P, Letters(c, l)), NEW v, v = Left(c, l, w)
    PROVE  Q.thrown = P.thrown /\ Reading(v, Q, t, e, f)
<1>1. PICK at : \E n : \E p : ReadsAt(w, P, t, e, f, at, n, p)  BY DEF Reading
<1>2. PICK n : \E p : ReadsAt(w, P, t, e, f, at, n, p)  BY <1>1
<1>3. PICK p : ReadsAt(w, P, t, e, f, at, n, p)  BY <1>2
<1>4. Understands(P, t, e, f, at, n, p) /\ Window(t, w, p)
      /\ Spelled(P.stack[n], t, e, at[n], w, p)
    BY <1>3 DEF ReadsAt
<1>5. Formed(t, e)  BY DEF IsDocument, Formed
<1>6. p \in Nat /\ p < Len(t) /\ Window(t, Tail(w), p + 1)  BY <1>4, <1>5, Advances
<1>7. Head(w) = w[1] /\ IsToken(w[1]) /\ IsInput(Tail(w))  BY CountTail
<1>8. "chars" \in DOMAIN t[p + 1]
    <2>1. "chars" \in DOMAIN w[1]  BY <1>7
    <2> QED  BY <1>4, <2>1 DEF Window
<1>9. c = w[1].chars /\ c \in Seq(Pairs) /\ Len(c) \in Nat
    <2>1. c \in Seq(Pairs)  BY <1>7 DEF IsToken, Pairs
    <2> QED  BY <1>7, <2>1, LenProperties
<1>10. PICK text : text = Letters(c, l)  OBVIOUS
<1>11. text \in Texts  BY <1>9, <1>10, LettersAre
<1>12. /\ Good(Q) /\ Q.thrown = P.thrown /\ Understands(Q, t, e, f, at, n, p)
       /\ Q.stack[n].cdata = More(P.stack[n].cdata, text)
    <2>1. Q = charData(P, text)  BY <1>10
    <2>2. Understands(P, t, e, f, at, n, p)  BY <1>4
    <2>3. /\ Good(Q) /\ Q.kind = P.kind /\ Q.thrown = P.thrown
          /\ Understands(Q, t, e, f, at, n, p)
          /\ Q.stack[n].cdata = More(P.stack[n].cdata, text)
        BY SMTT(30), <1>11, <2>1, <2>2, CharsRead
    <2> QED  BY <2>3
<1>13. n \in Nat \ {0} /\ Len(P.stack) = n /\ Len(Q.stack) = n /\ at[n] \in DOMAIN e
    <2>1. n \in Nat \ {0} /\ Len(P.stack) = n /\ Len(Q.stack) = n  BY <1>4, <1>12 DEF Understands, Branch
    <2>2. n \in 1..n  BY <2>1
    <2>3. Branch(e, at, n, p)  BY <1>4 DEF Understands
    <2> QED  BY <2>1, <2>2, <2>3 DEF Branch
<1>14. PICK s, r, i : s = P.stack[n] /\ r = Q.stack[n] /\ i = at[n]  OBVIOUS
<1>15. s.cdata \in Texts /\ r.cdata \in Texts
    <2>1. n \in 1..n  BY <1>13
    <2>2. s \in State /\ r \in State  BY <1>12, <1>13, <1>14, <2>1, StackOps DEF Good
    <2> QED  BY <2>2 DEF State
<1>16. Spelled(s, t, e, i, w, p) /\ r.cdata = More(s.cdata, Letters(c, l)) /\ i \in DOMAIN e
    BY <1>4, <1>10, <1>12, <1>13, <1>14
<1>17. CASE l < Len(c)
    <2>1. "chars" \in DOMAIN w[1]  BY <1>7
    <2>2. Window(t, v, p) /\ v[1].chars = Piece(c, l)
        <3>1. c = w[1].chars /\ Window(t, w, p)  BY <1>4, <1>9
        <3>2. Window(t, v, p) /\ v # <<>> /\ v[1].chars = Piece(c, l)
            BY <1>9, <1>17, <2>1, <3>1, PieceRead, SMT
        <3> QED  BY <3>2
    <2>3. Spelled(r, t, e, i, v, p)  BY <1>6, <1>8, <1>9, <1>15, <1>16, <2>2, PieceSpelled
    <2>4. ReadsAt(v, Q, t, e, f, at, n, p)  BY <1>12, <1>14, <2>2, <2>3 DEF ReadsAt
    <2> QED  BY <1>12, <2>4 DEF Reading
<1>18. CASE l = Len(c)
    <2>1. PICK u : u = Piece(c, l)  OBVIOUS
    <2>2. u = <<>>
        <3>1. u \in Seq(Pairs) /\ Len(u) = Len(c) - l  BY <1>9, <2>1, PieceIs
        <3>2. Len(u) = 0  BY <1>9, <1>18, <3>1
        <3> QED  BY <3>1, <3>2, EmptySeq
    <2>3. v = Tail(w)
        <3>1. PICK x : x = Tail(w)  OBVIOUS
        <3>2. PICK S : x \in Seq(S)  BY <1>7, <3>1 DEF IsInput
        <3>3. v = <<>> \o x  BY <2>1, <2>2, <3>1 DEF Chars, Left
        <3> QED  BY <3>1, <3>2, <3>3, ConcatEmptySeq
    <2>4. Understands(Q, t, e, f, at, n, p + 1)  BY <1>6, <1>8, <1>12, TextPassed
    <2>5. Spelled(r, t, e, i, v, p + 1)  BY <1>6, <1>8, <1>9, <1>15, <1>16, <1>18, TextSpelled
    <2>6. ReadsAt(v, Q, t, e, f, at, n, p + 1)  BY <1>6, <1>14, <2>3, <2>4, <2>5 DEF ReadsAt
    <2> QED  BY <1>12, <2>6 DEF Reading
<1> QED  BY <1>9, <1>17, <1>18

LEMMA NothingGiven ==
    ASSUME NEW kind, NEW t, NEW e, NEW f, IsDocument(kind, t, e, f)
    PROVE  /\ ParamsDone(t, e, 0) = {} /\ Done(e, 0, 0) = {}
           /\ \A i \in MethodNames(t) : ~(e[i] <= 0)
<1>1. Tree(e, Len(t)) /\ 0 \in DOMAIN e  BY DocTree DEF Tree
<1>2. ASSUME NEW i \in DOMAIN e PROVE ~(e[i] <= 0)
    <2>1. i \in Nat /\ e[i] \in Nat /\ i < e[i]  BY <1>1, Places
    <2> QED  BY <2>1
<1>3. Openings(t) \subseteq DOMAIN e  BY DEF IsDocument
<1>4. ParamsDone(t, e, 0) = {}  BY <1>2, <1>3 DEF ParamsDone, Params
<1>5. Done(e, 0, 0) = {}  BY <1>1, NothingDone
<1> QED  BY <1>2, <1>3, <1>4, <1>5 DEF MethodNames

LEMMA NoParams == ASSUME NEW t, NEW f PROVE ParamList(t, f, 0) = <<>>
<1>1. PICK g : g = ParamList(t, f, 0)  OBVIOUS
<1>2. g = [k \in {} |-> f[InOrder(Params(t))[k]]]
    <2>1. 1..0 = {}  OBVIOUS
    <2> QED  BY <1>1, <2>1, Zenon DEF ParamList
<1>3. g = [k \in DOMAIN g |-> g[k]] /\ DOMAIN g = {}  BY <1>2, Zenon
<1>4. g = <<>>  BY <1>3
<1> QED  BY <1>1, <1>4

LEMMA ReadingStarts ==
    ASSUME NEW kind, NEW t, NEW e, NEW f, IsDocument(kind, t, e, f)
    PROVE  Reading(t, Parser(kind), t, e, f)
<1>1. Tree(e, Len(t)) /\ 0 \in DOMAIN e /\ Len(t) \in Nat /\ e[0] = Len(t) + 1
    BY DocTree DEF Tree
<1>2. kind \in Kinds  BY DEF IsDocument
<1>3. PICK P : P = Parser(kind)  OBVIOUS
<1>4. PICK s : s = ValueState("eNone")  OBVIOUS
<1>5. /\ s.st = "eNone" /\ s.ptr = 0 /\ s.prev = "eUnknown" /\ s.name = <<>> /\ s.mem = 0
      /\ s.del = TRUE
    BY <1>4 DEF ValueState
<1>6. /\ P.kind = kind /\ P.stack = <<s>> /\ P.heap = <<>> /\ P.call = MethodCall(<<>>, <<>>)
      /\ P.mvalue = Void /\ P.ignored = 0
    BY <1>3, <1>4 DEF Parser
<1>7. Len(P.stack) = 1 /\ P.stack[1] = s  BY <1>6
<1>8. PICK at : at = [k \in {1} |-> 0]  OBVIOUS
<1>9. at[1] = 0  BY <1>8
<1>10. Tag(t, 0) = ""  BY DEF Tag
<1>11. Branch(e, at, 1, 0)
    <2>1. \A k \in 1..1 : at[k] \in DOMAIN e /\ at[k] <= 0 /\ 0 < e[at[k]]  BY <1>1, <1>9
    <2>2. ASSUME NEW i \in DOMAIN e, i <= 0 PROVE \E k \in 1..1 : i = at[k]
        <3>1. i \in Nat  BY <1>1, Places
        <3> QED  BY <1>9, <2>2, <3>1
    <2> QED  BY <1>9, <2>1, <2>2 DEF Branch
<1>12. Level(P, t, e, f, 0, s, 0)  BY <1>1, <1>5, <1>10, LevelStarts, StatesOf
<1>13. Gathered(P, t, e, f, 0)
    <2>1. ParamsDone(t, e, 0) = {} /\ Done(e, 0, 0) = {}
          /\ \A i \in MethodNames(t) : ~(e[i] <= 0)
        BY NothingGiven
    <2>2. PICK l : l = ParamList(t, f, Cardinality(ParamsDone(t, e, 0)))  OBVIOUS
    <2>3. l = <<>>  BY <2>1, <2>2, NoParams, FS_EmptySet
    <2>4. P.call.name = <<>>  BY <1>6 DEF MethodCall
    <2>5. P.call = MethodCall(P.call.name, l)  BY <1>6, <2>3, <2>4
    <2>6. \A i \in MethodNames(t) : P.call.name = IF e[i] <= 0 THEN TextIn(t, e, i) ELSE <<>>
        BY <2>1, <2>4
    <2>7. P.kind = "call" =>
            /\ P.call = MethodCall(P.call.name, ParamList(t, f, Cardinality(ParamsDone(t, e, 0))))
            /\ \A i \in MethodNames(t) :
                P.call.name = IF e[i] <= 0 THEN TextIn(t, e, i) ELSE <<>>
            /\ MethodNames(t) = {} => P.call.name = <<>>
        BY <2>2, <2>4, <2>5, <2>6, Zenon
    <2>8. P.kind = "response" =>
            (Done(e, 0, 0) = {} => P.mvalue = Void) /\ \A j \in Done(e, 0, 0) : P.mvalue = f[j]
        BY <1>6, <2>1
    <2> QED  BY <2>7, <2>8, Zenon DEF Gathered
<1>14. Claimed(P)
    <2>1. DOMAIN P.heap = {}  BY <1>6
    <2>2. ASSUME NEW h \in Alive(P) PROVE FALSE
        <3>1. h \in DOMAIN P.heap  BY <2>2, Zenon DEF Alive, Leaked
        <3> QED  BY <2>1, <3>1
    <2> QED  BY <2>2 DEF Claimed
<1>15. Understands(P, t, e, f, at, 1, 0)
    <2>1. \A k \in 1..1 : Level(P, t, e, f, at[k], P.stack[k], 0)  BY <1>7, <1>9, <1>12
    <2> QED  BY <1>5, <1>6, <1>7, <1>11, <1>13, <1>14, <2>1 DEF Understands
<1>16. Window(t, t, 0)
    <2>1. Len(t) = Len(t) - 0 /\ 0 <= Len(t) /\ \A k \in 2..Len(t) : t[k] = t[0 + k]  BY <1>1
    <2>2. ASSUME t # <<>>, "chars" \in DOMAIN t[1]
          PROVE  t[1].chars # <<>> /\ Rest(t[1].chars, t[1].chars)
        <3>1. IsInput(t)  BY DEF IsDocument
        <3>2. 1 \in DOMAIN t /\ IsToken(t[1])
            <4>1. Len(t) \in Nat \ {0} /\ DOMAIN t = 1..Len(t)  BY <2>2, <3>1, TailAt, InputLength
            <4> QED  BY <3>1, <4>1 DEF IsInput
        <3>3. t[1].chars # <<>>  BY <2>2, <3>2 DEF IsDocument, WellFormed
        <3>4. t[1].chars \in Seq(Pairs)  BY <2>2, <3>2 DEF IsToken, Pairs
        <3> QED  BY <3>3, <3>4, WholeRest
    <2>3. 0 + 1 = 1  OBVIOUS
    <2>4. t # <<>> =>
            /\ "open" \in DOMAIN t[1] \/ "close" \in DOMAIN t[1] => t[1] = t[0 + 1]
            /\ "chars" \in DOMAIN t[1] =>
                "chars" \in DOMAIN t[0 + 1] /\ t[1].chars # <<>> /\ Rest(t[1].chars, t[0 + 1].chars)
        BY <2>2, <2>3
    <2> QED  BY <2>1, <2>4 DEF Window
<1>17. ~OnlyText(t, e, 0)  BY <1>10 DEF OnlyText, Scalars
<1>18. Spelled(P.stack[1], t, e, at[1], t, 0)  BY <1>9, <1>17 DEF Spelled
<1>19. ReadsAt(t, P, t, e, f, at, 1, 0)  BY <1>15, <1>16, <1>18 DEF ReadsAt
<1> QED  BY <1>3, <1>19 DEF Reading

(* Raw markup in a text that is still to come is in the document. *)
LEMMA MarkupFound ==
    ASSUME NEW kind, NEW t, NEW e, NEW f, IsDocument(kind, t, e, f), NEW P,
           NEW w, IsInput(w), w # <<>>, Reading(w, P, t, e, f),
           "chars" \in DOMAIN Head(w), IsMarkup(Head(w).chars[1])
    PROVE  Unescaped(t)
<1>1. PICK at : \E n : \E p : ReadsAt(w, P, t, e, f, at, n, p)  BY DEF Reading
<1>2. PICK n : \E p : ReadsAt(w, P, t, e, f, at, n, p)  BY <1>1
<1>3. PICK p : ReadsAt(w, P, t, e, f, at, n, p)  BY <1>2
<1>4. Window(t, w, p)  BY <1>3 DEF ReadsAt
<1>5. Formed(t, e)  BY DEF IsDocument, Formed
<1>6. p \in Nat /\ p < Len(t)  BY <1>4, <1>5, Advances
<1>7. Head(w) = w[1] /\ IsToken(w[1])  BY CountTail
<1>8. PICK c : c = w[1].chars  OBVIOUS
<1>9. "chars" \in DOMAIN t[p + 1] /\ c # <<>> /\ Rest(c, t[p + 1].chars)
    BY <1>4, <1>7, <1>8 DEF Window
<1>10. PICK tok : tok = t[p + 1]  OBVIOUS
<1>11. tok \in ToSet(t)
    <2>1. p + 1 \in DOMAIN t  BY <1>5, <1>6, InputLength DEF Formed
    <2> QED  BY <1>10, <2>1 DEF ToSet
<1>12. c[1] \in ToSet(tok.chars)
    <2>1. PICK T : T = tok.chars  OBVIOUS
    <2>2. PICK q \in Nat : Len(c) + q = Len(T) /\ \A k \in 1..Len(c) : c[k] = T[q + k]
        BY <1>9, <1>10, <2>1 DEF Rest
    <2>3. c \in Seq(Pairs)  BY <1>7, <1>8 DEF IsToken, Pairs
    <2>4. Len(c) \in Nat \ {0}  BY <1>9, <2>3, EmptySeq, LenProperties
    <2>5. 1 \in 1..Len(c)  BY <2>4
    <2>6. c[1] = T[q + 1]  BY <2>2, <2>5
    <2>7. IsToken(tok)  BY <1>6, <1>10, TokenIs
    <2>8. T \in Seq(Pairs)  BY <1>9, <1>10, <2>1, <2>7 DEF IsToken, Pairs
    <2>9. q + 1 \in DOMAIN T
        <3>1. DOMAIN T = 1..Len(T) /\ Len(T) \in Nat  BY <2>8, LenProperties
        <3>2. PICK a \in Nat \ {0}, b \in Nat : a = Len(c) /\ b = Len(T)  BY <2>4, <3>1
        <3>3. a + q = b  BY <2>2, <3>2
        <3>4. q + 1 \in 1..b  BY <3>2, <3>3
        <3> QED  BY <3>1, <3>2, <3>4
    <2> QED  BY <2>1, <2>6, <2>9 DEF ToSet
<1>13. "chars" \in DOMAIN tok /\ IsMarkup(c[1])  BY <1>7, <1>8, <1>9, <1>10
<1> QED  BY <1>11, <1>12, <1>13 DEF Unescaped

-----------------------------------------------------------------------------
(***************************************************************************)
(* The end of a document.                                                  *)
(***************************************************************************)
AllRead(t, e, at, n, p) ==
    /\ p = Len(t) /\ n = 1 /\ at[1] = 0 /\ Done(e, 0, p) = Parts(e, 0)
    /\ \A i \in DOMAIN e : i # 0 => e[i] <= p

LEMMA AtTheEnd ==
    ASSUME NEW t, NEW e, NEW P, NEW f, Tree(e, Len(t)), Len(t) \in Nat, NEW at, NEW n, NEW p,
           ReadsAt(<<>>, P, t, e, f, at, n, p)
    PROVE  AllRead(t, e, at, n, p)
<1>1. Window(t, <<>>, p) /\ Branch(e, at, n, p)  BY DEF ReadsAt, Understands
<1>2. p = Len(t)
    <2>1. p \in Nat /\ Len(<<>>) = Len(t) - p  BY <1>1 DEF Window
    <2>2. Len(<<>>) = 0  OBVIOUS
    <2> QED  BY <2>1, <2>2
<1>3. \A i \in DOMAIN e : i # 0 => e[i] <= p  BY <1>2 DEF Tree
<1>4. n \in Nat \ {0} /\ at[1] = 0  BY <1>1 DEF Branch
<1>5. at[n] = 0
    <2>1. n \in 1..n  BY <1>4
    <2>2. at[n] \in DOMAIN e /\ p < e[at[n]]  BY <1>1, <2>1 DEF Branch
    <2>3. e[at[n]] \in Nat  BY <2>2, Places
    <2> QED  BY <1>2, <1>3, <2>2, <2>3
<1>6. n = 1
    <2>1. CASE n > 1
        <3>1. 1 \in 1..n /\ n \in 1..n /\ 1 < n  BY <1>4, <2>1
        <3>2. at[1] < at[n]  BY <1>1, <3>1 DEF Branch
        <3> QED  BY <1>4, <1>5, <3>2
    <2> QED  BY <1>4, <2>1
<1>7. Done(e, 0, p) = Parts(e, 0)
    <2>1. 0 \in DOMAIN e /\ e[0] <= p + 1 /\ p \in Nat  BY <1>2 DEF Tree
    <2> QED  BY <2>1, AllDone
<1> QED  BY <1>2, <1>3, <1>4, <1>6, <1>7 DEF AllRead

(* What the whole document says, if it says anything. *)
LEMMA SaysAll ==
    ASSUME NEW kind, NEW t, NEW e, NEW f, IsDocument(kind, t, e, f)
    PROVE  /\ Parts(e, 0) = {} => f[0] = Void
           /\ kind # "call" => \A j \in Parts(e, 0) : f[j] = f[0]
           /\ kind = "value" => \A j \in Parts(e, 0) : Tag(t, j) = "value"
<1>1. 0 \in DOMAIN e  BY DEF IsDocument
<1>2. PICK a : a = Tag(t, 0)  OBVIOUS
<1>3. a = ""  BY <1>2 DEF Tag
<1>4. a \notin Scalars \cup {"value", "data", "struct"}  BY <1>3 DEF Scalars
<1>5. Parts(e, 0) = {} => f[0] = Void
    <2>1. Empty(a) = Void  BY <1>3 DEF Empty
    <2> QED  BY <1>1, <1>2, <1>4, <2>1, SaysIt
<1>6. a \notin Lists(kind) \cup {"member", "methodCall"}  BY <1>3 DEF Lists
<1>7. \A j \in Parts(e, 0) : f[0] = f[j]  BY <1>1, <1>2, <1>6, SaysItsPart
<1>8. ASSUME kind = "value", NEW j \in Parts(e, 0) PROVE Tag(t, j) = "value"
    <2>1. PICK b : b = Tag(t, j)  OBVIOUS
    <2>2. <<a, b>> \in Contents(kind)  BY <1>1, <1>2, <2>1, PartTag
    <2>3. kind \in Kinds  BY DEF IsDocument
    <2>4. a \notin {"value", "array", "data", "struct", "member", "methodCall", "methodResponse",
                    "params", "param", "fault"}
        BY <1>3
    <2> QED  BY <1>8, <2>1, <2>2, <2>3, <2>4, ContentsAre
<1> QED  BY <1>5, <1>7, <1>8

LEMMA ValueResult ==
    ASSUME NEW kind, NEW t, NEW e, NEW f, IsDocument(kind, t, e, f), kind = "value",
           NEW P, Good(P), P.kind = kind, NEW at, NEW n, NEW p,
           ReadsAt(<<>>, P, t, e, f, at, n, p)
    PROVE  ParserResult(P) = f[0]
<1>1. Tree(e, Len(t)) /\ Len(t) \in Nat  BY DocTree
<1>2. n = 1 /\ at[1] = 0 /\ Done(e, 0, p) = Parts(e, 0)
    <2>1. AllRead(t, e, at, n, p)  BY <1>1, AtTheEnd
    <2> QED  BY <2>1 DEF AllRead
<1>3. PICK s : s = P.stack[1]  OBVIOUS
<1>4. Level(P, t, e, f, 0, s, p) /\ Len(P.stack) = 1
    <2>1. 1 \in 1..n /\ Understands(P, t, e, f, at, n, p)  BY <1>2 DEF ReadsAt
    <2>2. Level(P, t, e, f, at[1], P.stack[1], p) /\ Len(P.stack) = n  BY <2>1 DEF Understands
    <2> QED  BY <1>2, <1>3, <2>2
<1>5. getTopState(P) = s
    <2>1. 0 \in Nat /\ Len(P.stack) = 0 + 1 /\ P.stack[0 + 1] = s  BY <1>3, <1>4
    <2> QED  BY <2>1, TopOf DEF Good
<1>6. Carrying(P, t, e, f, 0, s, p)
    <2>1. Tag(t, 0) \in Carriers(P.kind)  BY DEF Tag, Carriers
    <2> QED  BY <1>4, <2>1 DEF Level
<1>7. ParserResult(P) = IF s.ptr = 0 THEN Void ELSE P.heap[s.ptr].val
    BY <1>5 DEF ParserResult, Deref
<1>8. CASE Parts(e, 0) = {}
    <2>1. s.ptr = 0  BY <1>2, <1>6, <1>8 DEF Carrying
    <2> QED  BY <1>7, <1>8, <2>1, SaysAll
<1>9. CASE Parts(e, 0) # {}
    <2>1. PICK j : j \in Parts(e, 0)  BY <1>9
    <2>2. Given(P, t, f, s.ptr, j)  BY <1>2, <1>6, <2>1 DEF Carrying
    <2>3. Tag(t, j) = "value" /\ f[j] = f[0]
        <3>1. kind # "call"  OBVIOUS
        <3> QED  BY <2>1, <3>1, SaysAll
    <2>4. s.ptr # 0 /\ P.heap[s.ptr].val = f[j]  BY <2>2, <2>3 DEF Given
    <2> QED  BY <1>7, <2>3, <2>4
<1> QED  BY <1>8, <1>9

LEMMA CallResult ==
    ASSUME NEW d \in Documents, Grammatical(d.kind, d.tokens), d.kind = "call",
           NEW t, t = d.tokens, NEW e, e = Ends(t), NEW f, f = Says(t),
           NEW P, Good(P), P.kind = "call", NEW at, NEW n, NEW p,
           ReadsAt(<<>>, P, t, e, f, at, n, p)
    PROVE  ParserResult(P) = Meaning("call", t)
<1>1. IsDocument("call", t, e, f)  BY DocumentIs
<1>2. Tree(e, Len(t)) /\ Len(t) \in Nat  BY <1>1, DocTree
<1>3. \A i \in DOMAIN e : i # 0 => e[i] <= p
    <2>1. AllRead(t, e, at, n, p)  BY <1>2, AtTheEnd
    <2> QED  BY <2>1 DEF AllRead
<1>4. Gathered(P, t, e, f, p)  BY DEF ReadsAt, Understands
<1>5. ParamsDone(t, e, p) = Params(t)
    <2>1. Params(t) \subseteq DOMAIN e /\ 0 \notin Params(t)  BY <1>1, ParamsApart
    <2>2. \A i \in Params(t) : e[i] <= p  BY <1>3, <2>1
    <2> QED  BY <2>2 DEF ParamsDone
<1>6. PICK name : name = P.call.name  OBVIOUS
<1>7. PICK l : l = ParamList(t, f, Cardinality(Params(t)))  OBVIOUS
<1>8. P.call = MethodCall(name, l)  BY <1>4, <1>5, <1>6, <1>7 DEF Gathered
<1>9. name = IF MethodNames(t) = {} THEN <<>>
             ELSE TextIn(t, e, CHOOSE i \in MethodNames(t) : TRUE)
    <2>1. CASE MethodNames(t) = {}  BY <1>4, <1>6, <2>1 DEF Gathered
    <2>2. CASE MethodNames(t) # {}
        <3>1. PICK i : i = CHOOSE j \in MethodNames(t) : TRUE  OBVIOUS
        <3>2. i \in MethodNames(t)  BY <2>2, <3>1
        <3>3. i \in DOMAIN e /\ i # 0
            <4>1. i \in Openings(t)  BY <3>2 DEF MethodNames
            <4>2. i \in 1..Len(t)  BY <1>1, <4>1, InputLength DEF IsDocument, Openings
            <4> QED  BY <1>1, <4>1, <4>2 DEF IsDocument
        <3>4. name = IF e[i] <= p THEN TextIn(t, e, i) ELSE <<>>  BY <1>4, <1>6, <3>2 DEF Gathered
        <3>5. name = TextIn(t, e, i)  BY <1>3, <3>3, <3>4
        <3> QED  BY <2>2, <3>1, <3>5
    <2> QED  BY <2>1, <2>2
<1>10. l = [k \in 1..Cardinality(Params(t)) |-> f[InOrder(Params(t))[k]]]
    BY <1>7, Zenon DEF ParamList
<1>11. ParserResult(P) = P.call  BY DEF ParserResult
<1>12. Meaning("call", t) = MethodCall(name, l)
    <2>1. Meaning("call", t)
            = MethodCall(IF MethodNames(t) = {} THEN <<>>
                         ELSE TextIn(t, e, CHOOSE i \in MethodNames(t) : TRUE),
                         [k \in 1..Cardinality(Params(t)) |-> f[InOrder(Params(t))[k]]])
        <3>1. PICK x, y, z : /\ x = MethodCall(name, l) /\ y = getMethodResponse(f[0])
                             /\ z = f[0]
            OBVIOUS
        <3>2. Meaning("call", t) = CASE "call" = "call" -> x [] "call" = "response" -> y
                                     [] "call" = "value" -> z
            BY <1>9, <1>10, <3>1, Zenon DEF Meaning
        <3>3. Meaning("call", t) = x  BY <3>2
        <3> QED  BY <1>9, <1>10, <3>1, <3>3, Zenon
    <2> QED  BY <1>9, <1>10, <2>1, Zenon
<1> QED  BY <1>8, <1>11, <1>12

LEMMA ResponseResult ==
    ASSUME NEW kind, NEW t, NEW e, NEW f, IsDocument(kind, t, e, f), kind = "response",
           NEW P, P.kind = kind, NEW at, NEW n, NEW p,
           ReadsAt(<<>>, P, t, e, f, at, n, p)
    PROVE  ParserResult(P) = getMethodResponse(f[0])
<1>1. Tree(e, Len(t)) /\ Len(t) \in Nat  BY DocTree
<1>2. Done(e, 0, p) = Parts(e, 0)
    <2>1. AllRead(t, e, at, n, p)  BY <1>1, AtTheEnd
    <2> QED  BY <2>1 DEF AllRead
<1>3. PICK v : v = P.mvalue  OBVIOUS
<1>4. (Parts(e, 0) = {} => v = Void) /\ \A j \in Parts(e, 0) : v = f[j]
    <2>1. Gathered(P, t, e, f, p)  BY DEF ReadsAt, Understands
    <2> QED  BY <1>2, <1>3, <2>1 DEF Gathered
<1>5. (Parts(e, 0) = {} => f[0] = Void) /\ \A j \in Parts(e, 0) : f[j] = f[0]
    <2>1. kind # "call"  OBVIOUS
    <2> QED  BY <2>1, SaysAll
<1>6. v = f[0]  BY <1>4, <1>5
<1>7. ParserResult(P) = getMethodResponse(v)  BY <1>3 DEF ParserResult
<1> QED  BY <1>6, <1>7

(* The parser has let go of what it was given, but for what its one state *)
(* still has.                                                              *)
Settled(P, t) == Len(P.stack) = 1 /\ P.stack[1].del /\ (~Nameless(t) => Claimed(P))

LEMMA WholeRead ==
    ASSUME NEW d \in Documents, Grammatical(d.kind, d.tokens),
           NEW t, t = d.tokens, NEW e, e = Ends(t), NEW f, f = Says(t),
           NEW P, Good(P), P.kind = d.kind, Reading(<<>>, P, t, e, f)
    PROVE  Settled(P, t) /\ ParserResult(P) = Meaning(d.kind, t)
<1>1. PICK kind : kind = d.kind  OBVIOUS
<1>2. IsDocument(kind, t, e, f)  BY <1>1, DocumentIs
<1>3. Tree(e, Len(t)) /\ Len(t) \in Nat  BY <1>2, DocTree
<1>4. PICK at : \E n : \E p : ReadsAt(<<>>, P, t, e, f, at, n, p)  BY DEF Reading
<1>5. PICK n : \E p : ReadsAt(<<>>, P, t, e, f, at, n, p)  BY <1>4
<1>6. PICK p : ReadsAt(<<>>, P, t, e, f, at, n, p)  BY <1>5
<1>7. Settled(P, t)
    <2>1. AllRead(t, e, at, n, p)  BY <1>3, <1>6, AtTheEnd
    <2> QED  BY <1>6, <2>1 DEF AllRead, ReadsAt, Understands, Settled
<1>8. PICK x, y : x = ParserResult(P) /\ y = f[0]  OBVIOUS
<1>9. CASE kind = "call"
    <2>1. d.kind = "call" /\ P.kind = "call"  BY <1>1, <1>9
    <2>2. ParserResult(P) = Meaning("call", t)  BY <1>6, <2>1, CallResult
    <2> QED  BY <1>7, <2>1, <2>2
<1>10. CASE kind = "response"
    <2>1. x = getMethodResponse(y)  BY <1>1, <1>2, <1>6, <1>8, <1>10, ResponseResult
    <2>2. Meaning("response", t) = getMethodResponse(y)
        <3>1. "response" # "call"  OBVIOUS
        <3> QED  BY <1>8, <3>1 DEF Meaning
    <2> QED  BY <1>1, <1>7, <1>8, <1>10, <2>1, <2>2
<1>11. CASE kind = "value"
    <2>1. x = y  BY <1>1, <1>2, <1>6, <1>8, <1>11, ValueResult
    <2>2. Meaning("value", t) = y
        <3>1. "value" # "call" /\ "value" # "response"  OBVIOUS
        <3> QED  BY <1>8, <3>1 DEF Meaning
    <2> QED  BY <1>1, <1>7, <1>8, <1>11, <2>1, <2>2
<1>12. kind \in Kinds  BY <1>2 DEF IsDocument
<1> QED  BY <1>9, <1>10, <1>11, <1>12 DEF Kinds

(* The destructor deletes what the one state has. *)
LEMMA DestroyAll ==
    ASSUME NEW t, NEW P, Good(P), Settled(P, t), ~Nameless(t)
    PROVE  Leaked(Destroy(P)) = {}
<1>1. Len(P.stack) = 1 /\ P.stack[1].del /\ Claimed(P)  BY DEF Settled
<1>2. PICK s, e : s = P.stack[1] /\ e = DeleteOf(s, P)  OBVIOUS
<1>3. IsParser(e) /\ Alive(e) = Alive(P) \ {s.ptr}  BY <1>1, <1>2, LastDeleted
<1>4. s.mem = 0
    <2>1. P.stack[1].st = "eNone"  BY DEF Good, Healthy, Path
    <2>2. 1 \in 1..Len(P.stack)  BY <1>1
    <2>3. s.mem # 0 => s.st = "eMember"  BY <1>2, <2>2 DEF Good, Healthy, Owned, Pointing
    <2> QED  BY <1>2, <2>1, <2>3
<1>5. ASSUME NEW h \in Alive(P) PROVE h = s.ptr
    <2>1. PICK k \in 1..Len(P.stack) : P.stack[k].ptr = h \/ P.stack[k].mem = h
        BY <1>1 DEF Claimed
    <2>2. k = 1  BY <1>1, <2>1
    <2>3. h # 0  BY HeapOf DEF Good
    <2> QED  BY <1>2, <1>4, <2>1, <2>2, <2>3
<1>6. Alive(e) = {}  BY <1>3, <1>5
<1>7. PICK Q : Q = Destroy(P)  OBVIOUS
<1>8. Q = [e EXCEPT !.stack = <<>>]  BY <1>1, <1>2, <1>7, DestroyLast
<1>9. Q.heap = e.heap  BY <1>3, <1>8 DEF IsParser, Fields
<1>10. Leaked(Q) = Leaked(e)  BY <1>9, Zenon DEF Leaked
<1> QED  BY <1>6, <1>7, <1>10 DEF Alive

LEMMA FrontIs ==
    ASSUME NEW S, NEW s, NEW a \in Nat, \A k \in 1..a : s[k] \in S, NEW x, x = SubSeq(s, 1, a)
    PROVE  x \in Seq(S) /\ Len(x) = a /\ \A i \in 1..a : x[i] = s[i]
<1>1. x \in Seq(S) /\ Len(x) = (IF 1 <= a THEN a - 1 + 1 ELSE 0)
      /\ \A i \in 1..a - 1 + 1 : x[i] = s[1 + i - 1]
    BY SubSeqProperties
<1>2. \A i \in 1..a : i \in 1..a - 1 + 1 /\ 1 + i - 1 = i  OBVIOUS
<1> QED  BY <1>1, <1>2

(* A list that has been read in part is a prefix of the whole one. *)
LEMMA PrefixOf ==
    ASSUME NEW a \in Nat, NEW b \in Nat, a <= b, NEW g, NEW s, s = [k \in 1..a |-> g[k]],
           NEW u, u = [k \in 1..b |-> g[k]]
    PROVE  IsPrefix(s, u)
<1>1. PICK S, T : s \in Seq(S) /\ Len(s) = a /\ u \in Seq(T) /\ Len(u) = b
    <2>1. s = [k \in 1..a |-> s[k]]  OBVIOUS
    <2>2. u = [k \in 1..b |-> u[k]]  OBVIOUS
    <2>3. PICK S : s \in Seq(S) /\ Len(s) = a  BY <2>1, FunctionSeq
    <2>4. PICK T : u \in Seq(T) /\ Len(u) = b  BY <2>2, FunctionSeq
    <2> QED  BY <2>3, <2>4
<1>2. \A k \in 1..a : s[k] \in S /\ u[k] \in T
    <2>1. \A k \in 1..a : s[k] \in S  BY <1>1, LenProperties
    <2>2. \A k \in 1..b : u[k] \in T  BY <1>1, LenProperties
    <2>3. \A k \in 1..a : k \in 1..b  OBVIOUS
    <2> QED  BY <2>1, <2>2, <2>3
<1>3. PICK x, y : x = SubSeq(s, 1, a) /\ y = SubSeq(u, 1, a)  OBVIOUS
<1>5. x \in Seq(S) /\ Len(x) = a /\ \A i \in 1..a : x[i] = s[i]
    <2>1. \A k \in 1..a : s[k] \in S  BY <1>2
    <2> QED  BY SMTT(30), <1>3, <2>1, FrontIs
<1>6. y \in Seq(T) /\ Len(y) = a /\ \A i \in 1..a : y[i] = u[i]
    <2>1. \A k \in 1..a : u[k] \in T  BY <1>2
    <2> QED  BY SMTT(30), <1>3, <2>1, FrontIs
<1>4. \A k \in 1..a : s[k] = u[k]
    <2>1. ASSUME NEW k \in 1..a PROVE s[k] = u[k]
        <3>1. k \in 1..b  OBVIOUS
        <3> QED  BY <3>1
    <2> QED  BY <2>1
<1>7. x = y
    <2>1. x = [i \in 1..a |-> x[i]] /\ y = [i \in 1..a |-> y[i]]  BY <1>5, <1>6, LenProperties
    <2>2. \A i \in 1..a : x[i] = y[i]  BY <1>4, <1>5, <1>6
    <2> QED  BY <2>1, <2>2
<1> QED  BY <1>1, <1>3, <1>7 DEF IsPrefix

(* A result that may stand for less than the document says. *)
Shorter(kind, r, m) ==
    /\ kind = "call" => r.name \in {<<>>, m.name} /\ IsPrefix(r.params, m.params)
    /\ kind = "response" => r \in {setResult(Void), m}

LEMMA CallShorter ==
    ASSUME NEW t, NEW e, NEW f, e = Ends(t), f = Says(t), IsDocument("call", t, e, f),
           NEW P, P.kind = "call", NEW p, Gathered(P, t, e, f, p)
    PROVE  Shorter("call", ParserResult(P), Meaning("call", t))
<1>1. PICK N, M : N = Params(t) /\ M = ParamsDone(t, e, p)  OBVIOUS
<1>2. IsFiniteSet(N) /\ M \in SUBSET N
    <2>1. Tree(e, Len(t))  BY DocTree
    <2>2. IsFiniteSet(DOMAIN e)  BY <2>1, PartsFinite
    <2>3. N \subseteq DOMAIN e  BY <1>1, ParamsApart
    <2>4. IsFiniteSet(N)  BY <2>2, <2>3, FS_Subset
    <2> QED  BY <1>1, <2>4 DEF ParamsDone
<1>3. PICK a \in Nat, b \in Nat : a = Cardinality(M) /\ b = Cardinality(N) /\ a <= b
    <2>1. IsFiniteSet(M) /\ Cardinality(M) <= Cardinality(N)  BY <1>2, FS_Subset
    <2> QED  BY <1>2, <2>1, FS_CardinalityType
<1>4. PICK g : g = [k \in Nat |-> f[InOrder(Params(t))[k]]]  OBVIOUS
<1>5. PICK s, u : s = [k \in 1..a |-> g[k]] /\ u = [k \in 1..b |-> g[k]]  OBVIOUS
<1>6. ASSUME NEW n \in Nat PROVE ParamList(t, f, n) = [k \in 1..n |-> g[k]]
    <2>1. \A k \in 1..n : k \in Nat  OBVIOUS
    <2>2. \A k \in 1..n : g[k] = f[InOrder(Params(t))[k]]  BY <1>4, <2>1
    <2>3. ParamList(t, f, n) = [k \in 1..n |-> f[InOrder(Params(t))[k]]]  BY Zenon DEF ParamList
    <2> QED  BY <2>2, <2>3, Zenon
<1>7. IsPrefix(s, u)  BY <1>3, <1>5, PrefixOf
<1>8. PICK name : name = P.call.name  OBVIOUS
<1>9. P.call = MethodCall(name, s)
    <2>1. P.call = MethodCall(name, ParamList(t, f, a))  BY <1>1, <1>3, <1>8 DEF Gathered
    <2>2. ParamList(t, f, a) = s  BY <1>5, <1>6
    <2> QED  BY <2>1, <2>2
<1>10. PICK c : c = IF MethodNames(t) = {} THEN <<>>
                    ELSE TextIn(t, e, CHOOSE i \in MethodNames(t) : TRUE)
    OBVIOUS
<1>11. name \in {<<>>, c}
    <2>1. CASE MethodNames(t) = {}  BY <1>8, <2>1 DEF Gathered
    <2>2. CASE MethodNames(t) # {}
        <3>1. PICK i : i = CHOOSE j \in MethodNames(t) : TRUE  OBVIOUS
        <3>2. i \in MethodNames(t)  BY <2>2, <3>1
        <3>3. PICK x : x = TextIn(t, e, i)  OBVIOUS
        <3>4. name = IF e[i] <= p THEN x ELSE <<>>  BY <1>8, <3>2, <3>3 DEF Gathered
        <3>5. c = x  BY <1>10, <2>2, <3>1, <3>3
        <3> QED  BY <3>4, <3>5
    <2> QED  BY <2>1, <2>2
<1>12. Meaning("call", t) = MethodCall(c, u)
    <2>1. ParamList(t, f, b) = u  BY <1>5, <1>6
    <2>2. u = [k \in 1..Cardinality(Params(t)) |-> f[InOrder(Params(t))[k]]]
        BY <1>1, <1>3, <2>1, Zenon DEF ParamList
    <2>3. PICK x, y, z : x = MethodCall(c, u) /\ y = getMethodResponse(f[0]) /\ z = f[0]
        OBVIOUS
    <2>4. Meaning("call", t) = CASE "call" = "call" -> x [] "call" = "response" -> y
                                 [] "call" = "value" -> z
        BY <1>10, <2>2, <2>3, Zenon DEF Meaning
    <2>5. Meaning("call", t) = x  BY <2>4
    <2> QED  BY <2>3, <2>5
<1>13. ParserResult(P) = P.call  BY DEF ParserResult
<1>14. PICK r, m : r = ParserResult(P) /\ m = Meaning("call", t)  OBVIOUS
<1>15. r.name = name /\ r.params = s /\ m.name = c /\ m.params = u
    BY <1>9, <1>12, <1>13, <1>14 DEF MethodCall
<1>16. "call" # "response"  OBVIOUS
<1> QED  BY <1>7, <1>11, <1>14, <1>15, <1>16 DEF Shorter

LEMMA ResponseShorter ==
    ASSUME NEW t, NEW e, NEW f, f = Says(t), IsDocument("response", t, e, f),
           NEW P, P.kind = "response", NEW p, Gathered(P, t, e, f, p)
    PROVE  Shorter("response", ParserResult(P), Meaning("response", t))
<1>1. PICK v : v = P.mvalue  OBVIOUS
<1>2. (Done(e, 0, p) = {} => v = Void) /\ \A j \in Done(e, 0, p) : v = f[j]
    BY <1>1 DEF Gathered
<1>3. \A j \in Parts(e, 0) : f[j] = f[0]
    <2>1. "response" # "call"  OBVIOUS
    <2> QED  BY <2>1, SaysAll
<1>4. v = Void \/ v = f[0]
    <2>1. \A j \in Done(e, 0, p) : j \in Parts(e, 0)  BY DEF Done
    <2> QED  BY <1>2, <1>3, <2>1
<1>5. PICK y : y = f[0]  OBVIOUS
<1>6. getMethodResponse(Void) = setResult(Void)
    <2>1. PICK x : x = Void  OBVIOUS
    <2>2. x.type # "RpcStruct"  BY <2>1 DEF Void
    <2>3. getMethodResponse(x) = setResult(x)  BY <2>2 DEF getMethodResponse
    <2> QED  BY <2>1, <2>3
<1>7. ParserResult(P) = getMethodResponse(v)  BY <1>1 DEF ParserResult
<1>8. Meaning("response", t) = getMethodResponse(y)
    <2>1. "response" # "call"  OBVIOUS
    <2> QED  BY <1>5, <2>1 DEF Meaning
<1>9. ParserResult(P) = setResult(Void) \/ ParserResult(P) = Meaning("response", t)
    BY <1>4, <1>5, <1>6, <1>7, <1>8
<1>10. "response" # "call"  OBVIOUS
<1> QED  BY <1>9, <1>10 DEF Shorter

(* What has been read of a document says less than the document, never *)
(* anything else.                                                      *)
LEMMA PartRead ==
    ASSUME NEW d \in Documents, Grammatical(d.kind, d.tokens),
           NEW t, t = d.tokens, NEW e, e = Ends(t), NEW f, f = Says(t), d.kind # "value",
           NEW P, P.kind = d.kind, NEW w, Reading(w, P, t, e, f)
    PROVE  Shorter(d.kind, ParserResult(P), Meaning(d.kind, t))
<1>1. IsDocument(d.kind, t, e, f)  BY DocumentIs
<1>2. PICK at : \E n : \E p : ReadsAt(w, P, t, e, f, at, n, p)  BY DEF Reading
<1>3. PICK n : \E p : ReadsAt(w, P, t, e, f, at, n, p)  BY <1>2
<1>4. PICK p : ReadsAt(w, P, t, e, f, at, n, p)  BY <1>3
<1>5. Gathered(P, t, e, f, p)  BY <1>4 DEF ReadsAt, Understands
<1>6. CASE d.kind = "call"  BY <1>1, <1>5, <1>6, CallShorter
<1>7. CASE d.kind = "response"  BY <1>1, <1>5, <1>7, ResponseShorter
<1>8. d.kind \in Kinds  BY DocumentFacts
<1> QED  BY <1>6, <1>7, <1>8 DEF Kinds

-----------------------------------------------------------------------------
(***************************************************************************)
(* The inductive invariant of a message without faults: what the parser    *)
(* holds is what the document says as far as it has been read.             *)
(***************************************************************************)
Told(d, t, e, f, w, P, count, ph, wh, r) ==
    /\ ph = "parsing" /\ count = 0 => Reading(w, P, t, e, f)
    /\ ph = "returned" /\ count = 0 => wh /\ r = Meaning(d.kind, t) /\ Settled(P, t)
    /\ ph = "thrown" /\ count = 0 =>
        \/ P.thrown = "no" /\ wh /\ IsExc(Meaning(d.kind, t)) /\ Settled(P, t)
        \/ P.thrown # "no" /\ ~wh /\ Unescaped(t)
    /\ ph = "gone" /\ count = 0 /\ wh /\ ~Nameless(t) => Leaked(P) = {}
    /\ ph = "returned" /\ count = 1 /\ ~wh /\ d.kind # "value" =>
        Shorter(d.kind, r, Meaning(d.kind, t))

ReadingInv ==
    Told(doc, doc.tokens, Ends(doc.tokens), Says(doc.tokens),
         input, parser, faults, phase, whole, result)

LEMMA ReadingInit == AllGrammatical(Documents) /\ Init => ReadingInv
<1> SUFFICES ASSUME AllGrammatical(Documents), Init PROVE ReadingInv  OBVIOUS
<1>1. doc \in Documents /\ input = doc.tokens /\ parser = Parser(doc.kind) /\ phase = "parsing"
    BY DEF Init
<1>2. PICK kind, t : kind = doc.kind /\ t = doc.tokens  OBVIOUS
<1>3. PICK e, f : e = Ends(t) /\ f = Says(t)  OBVIOUS
<1>4. Grammatical(doc.kind, doc.tokens)  BY <1>1 DEF AllGrammatical
<1>5. IsDocument(kind, t, e, f)  BY <1>1, <1>2, <1>3, <1>4, DocumentIs
<1>6. Reading(t, Parser(kind), t, e, f)  BY <1>5, ReadingStarts
<1>7. Reading(input, parser, doc.tokens, Ends(doc.tokens), Says(doc.tokens))
    BY <1>1, <1>2, <1>3, <1>6
<1>8. phase # "returned" /\ phase # "thrown" /\ phase # "gone"  BY <1>1
<1> QED  BY <1>7, <1>8 DEF ReadingInv, Told

(* What each step finds. *)
LEMMA ReadingNow ==
    ASSUME AllGrammatical(Documents), IInv, ReadingInv, phase = "parsing", faults = 0,
           NEW t, t = doc.tokens, NEW e, e = Ends(t), NEW f, f = Says(t)
    PROVE  /\ doc \in Documents /\ Grammatical(doc.kind, doc.tokens)
           /\ IsDocument(doc.kind, t, e, f)
           /\ Good(parser) /\ parser.kind = doc.kind /\ parser.thrown = "no"
           /\ IsInput(input) /\ Reading(input, parser, t, e, f)
<1>1. doc \in Documents  BY DEF IInv, Shapes
<1>2. Grammatical(doc.kind, doc.tokens)  BY <1>1 DEF AllGrammatical
<1>3. IsDocument(doc.kind, t, e, f)  BY <1>1, <1>2, DocumentIs
<1>4. Good(parser) /\ parser.kind = doc.kind /\ parser.thrown = "no" /\ IsInput(input)
    BY DEF IInv, Shapes, Core, Good
<1>5. Reading(input, parser, t, e, f)  BY DEF ReadingInv, Told
<1> QED  BY <1>1, <1>2, <1>3, <1>4, <1>5

LEMMA GoesOn ==
    ASSUME NEW p, Continue(p),
           faults = 0 =>
             p.thrown = "no" /\ Reading(input', p, doc.tokens, Ends(doc.tokens), Says(doc.tokens))
    PROVE  ReadingInv'
<1>1. parser' = p /\ doc' = doc /\ faults' = faults /\ phase' \in {"parsing", "thrown"}
      /\ (p.thrown = "no" => phase' = "parsing")
    BY DEF Continue
<1>2. faults' = 0 => phase' = "parsing" /\
      Reading(input', parser', doc'.tokens, Ends(doc'.tokens), Says(doc'.tokens))
    BY <1>1
<1>3. phase' # "returned" /\ phase' # "gone" /\ (faults' = 0 => phase' # "thrown")
    BY <1>1, <1>2
<1> QED  BY <1>2, <1>3 DEF ReadingInv, Told

LEMMA OpeningReads ==
    ASSUME AllGrammatical(Documents), IInv, ReadingInv, ReadOpening PROVE ReadingInv'
<1>1. phase = "parsing" /\ input # <<>> /\ "open" \in DOMAIN Head(input)
      /\ input' = Tail(input) /\ Continue(startElement(parser, Head(input).open))
    BY DEF ReadOpening, Next1
<1>2. PICK Q : Q = startElement(parser, Head(input).open)  OBVIOUS
<1>3. PICK t : t = doc.tokens  OBVIOUS
<1>4. PICK e, f : e = Ends(t) /\ f = Says(t)  OBVIOUS
<1>5. ASSUME faults = 0 PROVE Q.thrown = "no" /\ Reading(Tail(input), Q, t, e, f)
    <2>1. /\ IsDocument(doc.kind, t, e, f) /\ Good(parser) /\ parser.kind = doc.kind
          /\ parser.thrown = "no" /\ IsInput(input) /\ Reading(input, parser, t, e, f)
        BY <1>1, <1>3, <1>4, <1>5, ReadingNow
    <2>2. Q.thrown = parser.thrown /\ Reading(Tail(input), Q, t, e, f)
        BY <1>1, <1>2, <2>1, ReadingOpens
    <2> QED  BY <2>1, <2>2
<1>6. faults = 0 =>
      Q.thrown = "no" /\ Reading(input', Q, doc.tokens, Ends(doc.tokens), Says(doc.tokens))
    BY <1>1, <1>3, <1>4, <1>5
<1> QED  BY <1>1, <1>2, <1>6, GoesOn

LEMMA ClosingReads ==
    ASSUME AllGrammatical(Documents), IInv, ReadingInv, ReadClosing PROVE ReadingInv'
<1>1. phase = "parsing" /\ input # <<>> /\ "close" \in DOMAIN Head(input)
      /\ input' = Tail(input) /\ Continue(endElement(parser, Head(input).close))
    BY DEF ReadClosing, Next1
<1>2. PICK Q : Q = endElement(parser, Head(input).close)  OBVIOUS
<1>3. PICK t : t = doc.tokens  OBVIOUS
<1>4. PICK e, f : e = Ends(t) /\ f = Says(t)  OBVIOUS
<1>5. ASSUME faults = 0 PROVE Q.thrown = "no" /\ Reading(Tail(input), Q, t, e, f)
    <2>1. /\ IsDocument(doc.kind, t, e, f) /\ Good(parser) /\ parser.kind = doc.kind
          /\ parser.thrown = "no" /\ IsInput(input) /\ Reading(input, parser, t, e, f)
        BY <1>1, <1>3, <1>4, <1>5, ReadingNow
    <2>2. Q.thrown = parser.thrown /\ Reading(Tail(input), Q, t, e, f)
        BY <1>1, <1>2, <2>1, ReadingCloses
    <2> QED  BY <2>1, <2>2
<1>6. faults = 0 =>
      Q.thrown = "no" /\ Reading(input', Q, doc.tokens, Ends(doc.tokens), Says(doc.tokens))
    BY <1>1, <1>3, <1>4, <1>5
<1> QED  BY <1>1, <1>2, <1>6, GoesOn

LEMMA TextReads ==
    ASSUME AllGrammatical(Documents), IInv, ReadingInv, NEW n \in 1..MaxText, ReadText(n)
    PROVE  ReadingInv'
<1>1. phase = "parsing" /\ input # <<>> /\ "chars" \in DOMAIN Head(input)
      /\ n <= Len(Head(input).chars)
      /\ input' = Chars(SubSeq(Head(input).chars, n + 1, Len(Head(input).chars))) \o Tail(input)
      /\ Continue(charData(parser, [i \in 1..n |-> Head(input).chars[i][2]]))
    BY DEF ReadText, Next1
<1>2. PICK c : c = Head(input).chars  OBVIOUS
<1>3. input' = Left(c, n, input) /\ Continue(charData(parser, Letters(c, n)))
    BY <1>1, <1>2 DEF Left, Piece, Letters
<1>4. n \in Nat  BY DEF MaxText
<1>5. PICK Q, v : Q = charData(parser, Letters(c, n)) /\ v = Left(c, n, input)  OBVIOUS
<1>6. PICK t : t = doc.tokens  OBVIOUS
<1>7. PICK e, f : e = Ends(t) /\ f = Says(t)  OBVIOUS
<1>8. ASSUME faults = 0 PROVE Q.thrown = "no" /\ Reading(v, Q, t, e, f)
    <2>1. /\ IsDocument(doc.kind, t, e, f) /\ Good(parser) /\ parser.kind = doc.kind
          /\ parser.thrown = "no" /\ IsInput(input) /\ Reading(input, parser, t, e, f)
        BY <1>1, <1>6, <1>7, <1>8, ReadingNow
    <2>2. n <= Len(c) /\ "chars" \in DOMAIN Head(input) /\ input # <<>>  BY <1>1, <1>2
    <2>3. Q.thrown = parser.thrown /\ Reading(v, Q, t, e, f)
        BY <1>2, <1>4, <1>5, <2>1, <2>2, ReadingText
    <2> QED  BY <2>1, <2>3
<1>9. faults = 0 =>
      Q.thrown = "no" /\ Reading(input', Q, doc.tokens, Ends(doc.tokens), Says(doc.tokens))
    BY <1>3, <1>5, <1>6, <1>7, <1>8
<1>10. Continue(Q)  BY <1>3, <1>5
<1> QED  BY <1>9, <1>10, GoesOn

LEMMA MarkupReads ==
    ASSUME AllGrammatical(Documents), IInv, ReadingInv, ReadMarkupInText PROVE ReadingInv'
<1>1. /\ phase = "parsing" /\ input # <<>> /\ "chars" \in DOMAIN Head(input)
      /\ IsMarkup(Head(input).chars[1]) /\ Continue(Throw(parser, "XmlException"))
    BY DEF ReadMarkupInText, Next1
<1>2. ~whole /\ IsParser(parser)  BY <1>1 DEF IInv, Shapes, Core
<1>3. PICK Q : Q = Throw(parser, "XmlException")  OBVIOUS
<1>4. Q.thrown = "XmlException"
    <2>1. "thrown" \in DOMAIN parser  BY <1>2 DEF IsParser, Fields
    <2> QED  BY <1>3, <2>1 DEF Throw
<1>5. "XmlException" # "no"  OBVIOUS
<1>6. parser' = Q /\ phase' = "thrown" /\ doc' = doc /\ faults' = faults /\ whole' = whole
    BY <1>1, <1>3, <1>4, <1>5 DEF Continue
<1>7. PICK t : t = doc.tokens  OBVIOUS
<1>8. PICK e, f : e = Ends(t) /\ f = Says(t)  OBVIOUS
<1>9. ASSUME faults = 0 PROVE Unescaped(t)
    <2>1. /\ IsDocument(doc.kind, t, e, f) /\ IsInput(input) /\ Reading(input, parser, t, e, f)
        BY <1>1, <1>7, <1>8, <1>9, ReadingNow
    <2> QED  BY <1>1, <2>1, MarkupFound
<1>10. faults' = 0 => parser'.thrown # "no" /\ ~whole' /\ Unescaped(doc'.tokens)
    BY <1>2, <1>4, <1>5, <1>6, <1>7, <1>9
<1>11. phase' # "parsing" /\ phase' # "returned" /\ phase' # "gone"  BY <1>6
<1> QED  BY <1>10, <1>11 DEF ReadingInv, Told

(* The end of the message, or what Content-Length takes for it. *)
LEMMA EndReads ==
    ASSUME AllGrammatical(Documents), IInv, ReadingInv, EndOfContent PROVE ReadingInv'
<1>1. /\ phase = "parsing" /\ parser' = parser /\ doc' = doc /\ whole' = (input = <<>>)
      /\ faults' = (IF input = <<>> THEN faults ELSE faults + 1)
      /\ result' = ParserResult(parser)
      /\ phase' = (IF IsExc(result') THEN "thrown" ELSE "returned")
    BY DEF EndOfContent
<1>2. faults \in Nat /\ parser.thrown = "no"
    BY <1>1, MaxFaultsAssumption DEF IInv, Shapes, Core
<1>3. PICK t : t = doc.tokens  OBVIOUS
<1>4. PICK e, f : e = Ends(t) /\ f = Says(t)  OBVIOUS
<1>5. PICK r, m : r = ParserResult(parser) /\ m = Meaning(doc.kind, t)  OBVIOUS
<1>6. ASSUME faults = 0
      PROVE  /\ doc \in Documents /\ Grammatical(doc.kind, doc.tokens)
             /\ Good(parser) /\ parser.kind = doc.kind /\ Reading(input, parser, t, e, f)
    BY <1>1, <1>3, <1>4, <1>6, ReadingNow
<1>7. ASSUME faults = 0, input = <<>> PROVE Settled(parser, t) /\ r = m
    <2>1. Reading(<<>>, parser, t, e, f)  BY <1>6, <1>7
    <2> QED  BY <1>3, <1>4, <1>5, <1>6, <1>7, <2>1, WholeRead
<1>8. ASSUME faults = 0, doc.kind # "value" PROVE Shorter(doc.kind, r, m)
    BY <1>3, <1>4, <1>5, <1>6, <1>8, PartRead
<1>9. faults' = 0 => faults = 0 /\ input = <<>>  BY <1>1, <1>2
<1>10. faults' = 1 /\ ~whole' => faults = 0
    <2>1. ~whole' => ~(input = <<>>)  BY <1>1, Zenon
    <2>2. ~(input = <<>>) => faults' = faults + 1  BY <1>1
    <2>3. ASSUME faults' = 1, ~whole' PROVE faults = 0
        <3>1. ~(input = <<>>)  BY <2>1, <2>3, Zenon
        <3> QED  BY <1>2, <2>2, <2>3, <3>1
    <2> QED  BY <2>3
<1>11. doc'.tokens = t /\ doc'.kind = doc.kind /\ result' = r  BY <1>1, <1>3, <1>5
<1>12. phase' # "parsing" /\ phase' # "gone"  BY <1>1
<1>13. ASSUME phase' = "returned", faults' = 0
       PROVE  whole' /\ result' = Meaning(doc'.kind, doc'.tokens) /\ Settled(parser', doc'.tokens)
    BY <1>1, <1>5, <1>7, <1>9, <1>11, <1>13
<1>14. ASSUME phase' = "thrown", faults' = 0
       PROVE  /\ parser'.thrown = "no" /\ whole' /\ Settled(parser', doc'.tokens)
              /\ IsExc(Meaning(doc'.kind, doc'.tokens))
    <2>1. whole' /\ Settled(parser, t) /\ r = m  BY <1>1, <1>7, <1>9, <1>14
    <2>2. IsExc(r)  BY <1>1, <1>5, <1>14
    <2> QED  BY <1>1, <1>2, <1>5, <1>11, <2>1, <2>2
<1>15. ASSUME phase' = "returned", faults' = 1, ~whole', doc'.kind # "value"
       PROVE  Shorter(doc'.kind, result', Meaning(doc'.kind, doc'.tokens))
    BY <1>5, <1>8, <1>10, <1>11, <1>15
<1> QED  BY <1>12, <1>13, <1>14, <1>15 DEF ReadingInv, Told

(* Once there are two faults, or one and not the end, nothing is said. *)
LEMMA FaultReads ==
    ASSUME IInv, ReadingInv, ConnectionException \/ \E tag \in Extras : InsertElement(tag)
    PROVE  ReadingInv'
<1>1. faults \in Nat  BY MaxFaultsAssumption DEF IInv, Shapes
<1>2. faults' = faults + 1 /\ phase' \in {"parsing", "thrown"}
    BY DEF ConnectionException, InsertElement
<1>3. faults' # 0 /\ phase' # "returned"  BY <1>1, <1>2
<1> QED  BY <1>3 DEF ReadingInv, Told

LEMMA DestroyReads ==
    ASSUME IInv, ReadingInv, DestroyParser PROVE ReadingInv'
<1>1. /\ phase \in {"returned", "thrown"} /\ parser' = Destroy(parser) /\ phase' = "gone"
      /\ doc' = doc /\ faults' = faults /\ whole' = whole
    BY DEF DestroyParser
<1>2. Good(parser)  BY <1>1 DEF IInv, Shapes, Core, Good
<1>3. PICK t : t = doc.tokens  OBVIOUS
<1>4. ASSUME faults = 0, whole, ~Nameless(t) PROVE Leaked(Destroy(parser)) = {}
    <2>1. Settled(parser, t)  BY <1>1, <1>3, <1>4 DEF ReadingInv, Told
    <2> QED  BY <1>2, <1>4, <2>1, DestroyAll
<1>5. faults' = 0 /\ whole' /\ ~Nameless(doc'.tokens) => Leaked(parser') = {}
    BY <1>1, <1>3, <1>4
<1>6. phase' # "parsing" /\ phase' # "returned" /\ phase' # "thrown"  BY <1>1
<1> QED  BY <1>5, <1>6 DEF ReadingInv, Told

LEMMA ReadingNext ==
    ASSUME AllGrammatical(Documents), IInv, ReadingInv, [Next]_vars PROVE ReadingInv'
<1>1. CASE ReadOpening  BY <1>1, OpeningReads
<1>2. CASE ReadClosing  BY <1>2, ClosingReads
<1>3. CASE \E n \in 1..MaxText : ReadText(n)  BY <1>3, TextReads
<1>4. CASE ReadMarkupInText  BY <1>4, MarkupReads
<1>5. CASE EndOfContent  BY <1>5, EndReads
<1>6. CASE \E tag \in Extras : InsertElement(tag)  BY <1>6, FaultReads
<1>7. CASE ConnectionException  BY <1>7, FaultReads
<1>8. CASE DestroyParser  BY <1>8, DestroyReads
<1>9. CASE UNCHANGED vars
    BY <1>9 DEF vars, ReadingInv
<1> QED  BY <1>1, <1>2, <1>3, <1>4, <1>5, <1>6, <1>7, <1>8, <1>9 DEF Next

(* At every point of a message that nothing has spoiled the parser holds    *)
(* what the document says as far as it has been read: each open element on  *)
(* the stack with what its finished parts say, each value owned once.       *)
THEOREM ReadAsSaid == AllGrammatical(Documents) => (Spec => []ReadingInv)
<1> SUFFICES ASSUME AllGrammatical(Documents) PROVE Spec => []ReadingInv  OBVIOUS
<1>1. Init => IInv /\ ReadingInv  BY InitIInv, ReadingInit
<1>2. IInv /\ ReadingInv /\ [Next]_vars => (IInv /\ ReadingInv)'  BY NextIInv, ReadingNext
<1> QED  BY <1>1, <1>2, PTL DEF Spec

LEMMA DecodedInv == AllMean(Documents) /\ IInv /\ ReadingInv => Decoded
<1> SUFFICES ASSUME AllMean(Documents), IInv, ReadingInv PROVE Decoded  OBVIOUS
<1>1. doc \in Documents  BY DEF IInv, Shapes
<1>2. PICK m : m = Meaning(doc.kind, doc.tokens)  OBVIOUS
<1>3. doc.means = m  BY <1>1, <1>2 DEF AllMean
<1>4. phase = "returned" /\ faults = 0 => whole /\ result = m  BY <1>2 DEF ReadingInv, Told
<1>5. phase = "thrown" /\ faults = 0 =>
      \/ parser.thrown = "no" /\ IsExc(m)
      \/ parser.thrown # "no" /\ Unescaped(doc.tokens)
    BY <1>2 DEF ReadingInv, Told
<1> QED  BY <1>3, <1>4, <1>5 DEF Decoded

(* If the documents follow the grammar, and mean what their elements say,   *)
(* then what a message without faults is decoded to is what it means, in    *)
(* however many pieces its texts come; it is refused only for raw markup in *)
(* a text, or if the code or string of a fault is not of its type.          *)
THEOREM DecodedAsMeant ==
    AllGrammatical(Documents) /\ AllMean(Documents) => (Spec => []Decoded)
<1> SUFFICES ASSUME AllGrammatical(Documents), AllMean(Documents) PROVE Spec => []Decoded
    OBVIOUS
<1>1. Spec => []IInv  BY Invariance
<1>2. Spec => []ReadingInv  BY ReadAsSaid
<1>3. IInv /\ ReadingInv => Decoded  BY DecodedInv
<1> QED  BY <1>1, <1>2, <1>3, PTL

LEMMA PrefixInv == AllMean(Documents) /\ IInv /\ ReadingInv => PrefixDecoded
<1> SUFFICES ASSUME AllMean(Documents), IInv, ReadingInv,
                    phase = "returned", ~whole, faults = 1, doc.kind # "value"
             PROVE  CASE doc.kind = "call" ->
                           /\ result.name \in {<<>>, doc.means.name}
                           /\ IsPrefix(result.params, doc.means.params)
                      [] doc.kind = "response" -> result \in {setResult(Void), doc.means}
    BY DEF PrefixDecoded
<1>1. doc \in Documents  BY DEF IInv, Shapes
<1>2. PICK m : m = Meaning(doc.kind, doc.tokens)  OBVIOUS
<1>3. doc.means = m  BY <1>1, <1>2 DEF AllMean
<1>4. Shorter(doc.kind, result, m)  BY <1>2 DEF ReadingInv, Told
<1>5. doc.kind = "call" =>
      result.name \in {<<>>, m.name} /\ IsPrefix(result.params, m.params)
    BY <1>4 DEF Shorter
<1>6. doc.kind = "response" => result \in {setResult(Void), m}  BY <1>4 DEF Shorter
<1>7. doc.kind = "call" \/ doc.kind = "response"  BY <1>1, DocumentFacts DEF Kinds
<1>8. CASE doc.kind = "call"  BY <1>3, <1>5, <1>8
<1>9. CASE doc.kind = "response"  BY <1>3, <1>6, <1>9
<1> QED  BY <1>7, <1>8, <1>9

(* A Content-Length that is too small, whatever it cuts off, makes a call   *)
(* lose parameters from its end, and maybe its name, and a response void:   *)
(* no other value is ever taken for the one that was sent.                  *)
THEOREM PrefixAtWorst ==
    AllGrammatical(Documents) /\ AllMean(Documents) => (Spec => []PrefixDecoded)
<1> SUFFICES ASSUME AllGrammatical(Documents), AllMean(Documents) PROVE Spec => []PrefixDecoded
    OBVIOUS
<1>1. Spec => []IInv  BY Invariance
<1>2. Spec => []ReadingInv  BY ReadAsSaid
<1>3. IInv /\ ReadingInv => PrefixDecoded  BY PrefixInv
<1> QED  BY <1>1, <1>2, <1>3, PTL

(* A message that was read to its end and not spoiled leaves no value       *)
(* behind, unless one of its members has no name; and none of a message     *)
(* that was read to its end is deleted twice.                               *)
THEOREM AllFreedOnce == AllGrammatical(Documents) => (Spec => []FreedOnce)
<1> SUFFICES ASSUME AllGrammatical(Documents) PROVE Spec => []FreedOnce  OBVIOUS
<1>1. Spec => []IInv  BY Invariance
<1>2. Spec => []ReadingInv  BY ReadAsSaid
<1>3. IInv /\ ReadingInv => FreedOnce
    <2> SUFFICES ASSUME IInv, ReadingInv PROVE FreedOnce  OBVIOUS
    <2>1. DeletedOnce  BY DEF IInv, Core
    <2>2. phase = "gone" /\ faults = 0 /\ whole /\ ~Nameless(doc.tokens) => Leaked(parser) = {}
        BY DEF ReadingInv, Told
    <2> QED  BY <2>1, <2>2 DEF FreedOnce
<1> QED  BY <1>1, <1>2, <1>3, PTL
=============================================================================
