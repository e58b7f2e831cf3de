------------------------ MODULE MessageParsingProofs ------------------------
(***************************************************************************)
(* For every document and every way to spoil it: the parser's states point *)
(* to values that exist, each value to one state unless a member shares it *)
(* with its struct, and nothing a state points to has been deleted.  The   *)
(* stack and the nesting of what is still to come differ by the tags that  *)
(* were ignored, and agree once the message has been read to its end.      *)
(*                                                                         *)
(* The second half is what DecodingProofs starts from: the elements of a   *)
(* document as a tree, what they say, the grammar against the transition   *)
(* table, and what each step of the parser leaves as it is.                *)
(***************************************************************************)
EXTENDS MessageParsing, XmlRpcDocuments, WellFoundedInduction, SequenceTheorems,
        FiniteSetTheorems, TLAPS

Alive(P) == Leaked(P)     \* the values not deleted

(***************************************************************************)
(* The stack: a path of the transition table, whose members share the      *)
(* struct of the state below.                                              *)
(***************************************************************************)
Path(P) ==
    /\ Len(P.stack) >= 1
    /\ P.stack[1].st = "eNone"
    /\ \A i \in 2..Len(P.stack) :
        /\ \E o \in Opens(P.kind) : o[1] = P.stack[i - 1].st /\ o[3] = P.stack[i].st
        /\ P.stack[i].st = "eMember" => P.stack[i].ptr = P.stack[i - 1].ptr /\ P.stack[i].ptr # 0

(***************************************************************************)
(* Who points to what: everything to values not deleted, two states to the *)
(* same one only if the upper one is a member and the lower one its        *)
(* struct; a value that waits for its name is nobody else's.               *)
(***************************************************************************)
Pointing(P) ==
    \A i \in 1..Len(P.stack) :
        /\ P.stack[i].ptr \in Alive(P) \cup {0}
        /\ P.stack[i].mem \in Alive(P) \cup {0}
        /\ P.stack[i].mem # 0 => P.stack[i].st = "eMember"

Shared(P) ==
    \A i, j \in 1..Len(P.stack) :
        i < j /\ P.stack[i].ptr = P.stack[j].ptr /\ P.stack[i].ptr # 0 =>
            j = i + 1 /\ P.stack[j].st = "eMember"

Waiting(P) ==
    \A i, j \in 1..Len(P.stack) :
        P.stack[i].mem # 0 =>
            P.stack[j].ptr # P.stack[i].mem /\ (i # j => P.stack[j].mem # P.stack[i].mem)

Owned(P) == Pointing(P) /\ Shared(P) /\ Waiting(P)

(* How deep the parser is in what it reads, tags that it ignored included. *)
Depth(P) == Len(P.stack) - 1 + P.ignored

(* The root of a call or response has been closed, or is still open. *)
RootSeen(P) ==
    CASE P.kind = "call" ->
            P.complete \/ (Len(P.stack) >= 2 /\ P.stack[2].st = "eMethodCall")
      [] P.kind = "response" ->
            P.complete \/ (Len(P.stack) >= 2 /\ P.stack[2].st = "eMethodResponse")
      [] P.kind = "value" -> ~P.complete

Healthy(P) == Path(P) /\ Owned(P) /\ ~P.doubleFree

Core ==
    /\ parser.kind = doc.kind
    /\ phase # "gone" => Healthy(parser)
    /\ phase \in {"parsing", "returned"} => parser.thrown = "no"
    /\ phase = "parsing" => ~whole /\ Opened(input) + Depth(parser) = Closed(input)
    /\ phase \in {"returned", "thrown"} /\ whole => Depth(parser) = 0
    /\ DeletedOnce

RootInv ==
    /\ phase = "parsing" =>
         (input = doc.tokens /\ parser = Parser(doc.kind)) \/ RootSeen(parser)
    /\ phase = "returned" /\ whole => RootSeen(parser)

-----------------------------------------------------------------------------
(***************************************************************************)
(* What a parser is made of.  Nothing is said of the values on its heap.   *)
(***************************************************************************)
Fields == {"kind", "stack", "heap", "call", "mvalue", "complete", "ignored",
           "doubleFree", "thrown"}
Texts == Seq(STRING)
StateNames == {"eUnknown", "eNone", "eValue", "eArray", "eData", "eStruct", "eMember",
               "eName", "eBoolean", "eInt", "eI4", "eDouble", "eString", "eBase64", "eDate",
               "eMethodCall", "eMethodName", "eMethodResponse", "eFault", "eParams", "eParam"}
State == [st : StateNames, ptr : Nat, del : BOOLEAN, name : Texts, cdata : Texts,
          prev : StateNames, mem : Nat]

IsHeap(heap) ==
    /\ \E S : heap \in Seq(S)
    /\ \A h \in DOMAIN heap : DOMAIN heap[h] = {"val", "live"} /\ heap[h].live \in BOOLEAN

IsParser(P) ==
    /\ DOMAIN P = Fields
    /\ P.kind \in {"call", "response", "value"}
    /\ P.stack \in Seq(State)
    /\ IsHeap(P.heap)
    /\ P.complete \in BOOLEAN /\ P.doubleFree \in BOOLEAN
    /\ P.ignored \in Nat
    /\ P.thrown \in {"no", "XmlException", "RuntimeException"}

(* Q is P but for the stack and the heap, and what calls and responses     *)
(* have been given.                                                        *)
Like(P, Q) ==
    /\ Q.kind = P.kind /\ Q.complete = P.complete
    /\ Q.ignored = P.ignored /\ Q.thrown = P.thrown

SameHeap(P, Q) == Q.heap = P.heap /\ Q.doubleFree = P.doubleFree

(* The stack of Q is the first n states of P's, and s on top. *)
Stacked(P, Q, n, s) ==
    /\ Len(Q.stack) = n + 1
    /\ \A i \in 1..n : Q.stack[i] = P.stack[i]
    /\ Q.stack[n + 1] = s

(* Texts have no place in these lemmas. *)
LEMMA FunctionSeq ==
    ASSUME NEW F, NEW n \in Nat, F = [i \in 1..n |-> F[i]]
    PROVE  \E S : F \in Seq(S) /\ Len(F) = n
<1> DEFINE S == {F[i] : i \in 1..n}
<1>1. \A i \in 1..n : F[i] \in S  OBVIOUS
<1> HIDE DEF S
<1>2. [i \in 1..n |-> F[i]] \in Seq(S)  BY <1>1, IsASeq
<1>3. F \in Seq(S)  BY <1>2
<1>4. DOMAIN F = 1..n  OBVIOUS
<1>5. Len(F) = n  BY <1>3, <1>4, LenProperties
<1> QED  BY <1>3, <1>5

LEMMA StackOps ==
    ASSUME NEW P, IsParser(P)
    PROVE  /\ Len(P.stack) \in Nat
           /\ \A i \in 1..Len(P.stack) : P.stack[i] \in State
           /\ ToSet(P.stack) = {P.stack[i] : i \in 1..Len(P.stack)}
<1>1. P.stack \in Seq(State)  BY DEF IsParser
<1>2. DOMAIN P.stack = 1..Len(P.stack) /\ Len(P.stack) \in Nat
      /\ \A i \in 1..Len(P.stack) : P.stack[i] \in State
    BY <1>1, LenProperties
<1> QED  BY <1>2 DEF ToSet

LEMMA PushOp ==
    ASSUME NEW P, IsParser(P), NEW s \in State
    PROVE  LET Q == Push(P, s)
           IN  IsParser(Q) /\ Like(P, Q) /\ SameHeap(P, Q) /\ Stacked(P, Q, Len(P.stack), s)
<1> DEFINE Q == Push(P, s)
<1>1. P.stack \in Seq(State) /\ DOMAIN P = Fields  BY DEF IsParser
<1>2. PICK t : t = Append(P.stack, s)  OBVIOUS
<1>3. t \in Seq(State) /\ Len(t) = Len(P.stack) + 1
      /\ (\A i \in 1..Len(P.stack) : t[i] = P.stack[i]) /\ t[Len(P.stack) + 1] = s
    BY <1>1, <1>2, AppendProperties
<1>4. Q = [P EXCEPT !.stack = t]  BY <1>2 DEF Push
<1> HIDE DEF Q
<1>5. /\ DOMAIN Q = Fields /\ Q.stack = t
      /\ \A f \in Fields \ {"stack"} : Q[f] = P[f]
    BY <1>1, <1>4 DEF Fields
<1>6. Like(P, Q) /\ SameHeap(P, Q)  BY <1>5 DEF Like, SameHeap, Fields
<1>7. IsParser(Q)  BY <1>3, <1>5, <1>6 DEF IsParser, Like, SameHeap
<1>8. Stacked(P, Q, Len(P.stack), s)  BY <1>3, <1>5 DEF Stacked
<1> QED  BY <1>6, <1>7, <1>8 DEF Q

(* The stack without the state on top, and with another one in its place. *)
LEMMA FrontOf ==
    ASSUME NEW t \in Seq(State), NEW n \in Nat, Len(t) = n + 1
    PROVE  /\ Front(t) \in Seq(State) /\ Len(Front(t)) = n
           /\ \A i \in 1..n : Front(t)[i] = t[i]
<1>1. Front(t) = SubSeq(t, 1, n)
    <2>1. n + 1 - 1 = n  OBVIOUS
    <2> QED  BY <2>1 DEF Front
<1>2. \A i \in 1..n : t[i] \in State  BY LenProperties
<1>3. PICK b : b = SubSeq(t, 1, n)  OBVIOUS
<1>4. b \in Seq(State) /\ Len(b) = (IF 1 <= n THEN n - 1 + 1 ELSE 0)
      /\ \A i \in 1..n - 1 + 1 : b[i] = t[1 + i - 1]
    BY <1>2, <1>3, SubSeqProperties
<1>5. Len(b) = n /\ \A i \in 1..n : b[i] = t[i]  BY <1>4
<1> QED  BY <1>1, <1>3, <1>4, <1>5

LEMMA WithTopOp ==
    ASSUME NEW P, IsParser(P), NEW n \in Nat, Len(P.stack) = n + 1, NEW s \in State
    PROVE  LET Q == WithTop(P, s)
           IN  IsParser(Q) /\ Like(P, Q) /\ SameHeap(P, Q) /\ Stacked(P, Q, n, s)
<1> DEFINE Q == WithTop(P, s)
<1>1. P.stack \in Seq(State) /\ DOMAIN P = Fields  BY DEF IsParser
<1>0. PICK fr : fr = Front(P.stack)  OBVIOUS
<1>2. fr \in Seq(State) /\ Len(fr) = n /\ \A i \in 1..n : fr[i] = P.stack[i]
    BY <1>0, <1>1, FrontOf
<1>3. PICK t : t = Append(fr, s)  OBVIOUS
<1>4. t \in Seq(State) /\ Len(t) = n + 1
      /\ (\A i \in 1..n : t[i] = fr[i]) /\ t[n + 1] = s
    BY <1>2, <1>3, AppendProperties
<1>5. Q = [P EXCEPT !.stack = t]  BY <1>0, <1>3 DEF WithTop
<1> HIDE DEF Q
<1>6. /\ DOMAIN Q = Fields /\ Q.stack = t
      /\ \A f \in Fields \ {"stack"} : Q[f] = P[f]
    BY <1>1, <1>5 DEF Fields
<1>7. Like(P, Q) /\ SameHeap(P, Q)  BY <1>6 DEF Like, SameHeap, Fields
<1>8. IsParser(Q)  BY <1>4, <1>6, <1>7 DEF IsParser, Like, SameHeap
<1>9. Stacked(P, Q, n, s)  BY <1>2, <1>4, <1>6 DEF Stacked
<1> QED  BY <1>7, <1>8, <1>9 DEF Q

LEMMA TopOf ==
    ASSUME NEW P, IsParser(P), NEW n \in Nat, Len(P.stack) = n + 1
    PROVE  getTopState(P) = P.stack[n + 1] /\ getTopState(P) \in State
BY StackOps DEF getTopState, Last

-----------------------------------------------------------------------------
(***************************************************************************)
(* The heap: a new value, a value deleted, a value changed.                *)
(***************************************************************************)
SameStack(P, Q) == Q.stack = P.stack /\ Like(P, Q)

LEMMA HeapOf ==
    ASSUME NEW P, IsParser(P)
    PROVE  /\ Len(P.heap) \in Nat /\ DOMAIN P.heap = 1..Len(P.heap)
           /\ Alive(P) \subseteq DOMAIN P.heap
           /\ 0 \notin Alive(P) /\ Alive(P) \subseteq Nat
<1>1. PICK S : P.heap \in Seq(S)  BY DEF IsParser, IsHeap
<1>2. Len(P.heap) \in Nat /\ DOMAIN P.heap = 1..Len(P.heap)  BY <1>1, LenProperties
<1> QED  BY <1>2 DEF Alive, Leaked

LEMMA NewOp ==
    ASSUME NEW P, IsParser(P), NEW v
    PROVE  LET Q == New(P, v)
           IN  /\ IsParser(Q) /\ SameStack(P, Q) /\ Q.doubleFree = P.doubleFree
               /\ NewPtr(P) \in Nat \ {0} /\ NewPtr(P) \notin Alive(P)
               /\ NewPtr(P) \in DOMAIN Q.heap /\ Q.heap[NewPtr(P)].val = v
               /\ DOMAIN P.heap \subseteq DOMAIN Q.heap
               /\ Alive(Q) = Alive(P) \cup {NewPtr(P)}
<1> DEFINE Q == New(P, v)
<1>1. DOMAIN P = Fields  BY DEF IsParser
<1>2. PICK n \in Nat : n = Len(P.heap)  BY HeapOf
<1>3. DOMAIN P.heap = 1..n /\ NewPtr(P) = n + 1  BY <1>2, HeapOf DEF NewPtr
<1>4. PICK cell : cell = [val |-> v, live |-> TRUE]  OBVIOUS
<1>5. PICK R : P.heap \in Seq(R)  BY DEF IsParser, IsHeap
<1>6. PICK S : S = R \cup {cell}  OBVIOUS
<1>7. P.heap \in Seq(S) /\ cell \in S
    <2>1. R \subseteq S  BY <1>6
    <2> QED  BY <1>5, <1>6, <2>1, SeqMonotonic
<1>8. PICK H : H = Append(P.heap, cell)  OBVIOUS
<1>9. H \in Seq(S) /\ Len(H) = n + 1
      /\ (\A i \in 1..n : H[i] = P.heap[i]) /\ H[n + 1] = cell
    BY <1>2, <1>7, <1>8, AppendProperties
<1>10. DOMAIN H = 1..n + 1  BY <1>9, LenProperties
<1>11. Q = [P EXCEPT !.heap = H]  BY <1>4, <1>8 DEF New
<1> HIDE DEF Q
<1>12. /\ DOMAIN Q = Fields /\ Q.heap = H
       /\ \A f \in Fields \ {"heap"} : Q[f] = P[f]
    BY <1>1, <1>11 DEF Fields
<1>13. SameStack(P, Q) /\ Q.doubleFree = P.doubleFree  BY <1>12 DEF SameStack, Like, Fields
<1>14. IsHeap(H)
    <2>1. \A h \in 1..n : DOMAIN H[h] = {"val", "live"} /\ H[h].live \in BOOLEAN
        BY <1>3, <1>9 DEF IsParser, IsHeap
    <2>2. DOMAIN cell = {"val", "live"} /\ cell.live \in BOOLEAN  BY <1>4
    <2>3. \A h \in 1..n + 1 : h \in 1..n \/ h = n + 1  OBVIOUS
    <2> QED  BY <1>9, <1>10, <2>1, <2>2, <2>3 DEF IsHeap
<1>15. IsParser(Q)  BY <1>12, <1>13, <1>14 DEF IsParser, SameStack, Like
<1>16. Alive(Q) = Alive(P) \cup {n + 1}
    <2>1. cell.live  BY <1>4
    <2>2. \A h \in 1..n + 1 : h \in 1..n \/ h = n + 1  OBVIOUS
    <2>3. 1..n \subseteq 1..n + 1 /\ n + 1 \in 1..n + 1  OBVIOUS
    <2>4. \A h : h \in Alive(Q) <=> h \in 1..n + 1 /\ H[h].live
        BY <1>10, <1>12 DEF Alive, Leaked
    <2>5. \A h : h \in Alive(P) <=> h \in 1..n /\ P.heap[h].live
        BY <1>3 DEF Alive, Leaked
    <2>6. \A h \in 1..n : H[h].live = P.heap[h].live  BY <1>9
    <2> QED  BY <1>9, <2>1, <2>2, <2>3, <2>4, <2>5, <2>6
<1>17. n + 1 \notin Alive(P)
    <2>1. n + 1 \notin 1..n  OBVIOUS
    <2> QED  BY <1>3, <2>1 DEF Alive, Leaked
<1>18. n + 1 \in DOMAIN H /\ H[n + 1].val = v /\ 1..n \subseteq DOMAIN H
    BY <1>4, <1>9, <1>10
<1> QED  BY <1>3, <1>12, <1>13, <1>15, <1>16, <1>17, <1>18 DEF Q

(* A heap of the same cells but for one. *)
LEMMA HeapExcept ==
    ASSUME NEW P, IsParser(P), NEW ptr \in DOMAIN P.heap, NEW cell, NEW Q,
           DOMAIN cell = {"val", "live"}, cell.live \in BOOLEAN,
           Q = [P EXCEPT !.heap = [P.heap EXCEPT ![ptr] = cell]]
    PROVE  /\ IsParser(Q) /\ SameStack(P, Q) /\ Q.doubleFree = P.doubleFree
           /\ DOMAIN Q.heap = DOMAIN P.heap
           /\ Q.heap[ptr] = cell
           /\ \A h \in DOMAIN P.heap \ {ptr} : Q.heap[h] = P.heap[h]
<1>1. DOMAIN P = Fields  BY DEF IsParser
<1>2. PICK n \in Nat : n = Len(P.heap)  BY HeapOf
<1>3. DOMAIN P.heap = 1..n  BY <1>2, HeapOf
<1>4. PICK H : H = [P.heap EXCEPT ![ptr] = cell]  OBVIOUS
<1>5. /\ DOMAIN H = 1..n /\ H[ptr] = cell
      /\ \A h \in 1..n \ {ptr} : H[h] = P.heap[h]
    BY <1>3, <1>4
<1>6. H = [i \in 1..n |-> H[i]]  BY <1>3, <1>4
<1>7. \E S : H \in Seq(S)  BY <1>6, FunctionSeq
<1>8. /\ DOMAIN Q = Fields /\ Q.heap = H
      /\ \A f \in Fields \ {"heap"} : Q[f] = P[f]
    BY <1>1, <1>4 DEF Fields
<1>9. SameStack(P, Q) /\ Q.doubleFree = P.doubleFree  BY <1>8 DEF SameStack, Like, Fields
<1>10. IsHeap(H)
    <2>1. \A h \in 1..n : DOMAIN H[h] = {"val", "live"} /\ H[h].live \in BOOLEAN
        BY <1>3, <1>5 DEF IsParser, IsHeap
    <2> QED  BY <1>5, <1>7, <2>1 DEF IsHeap
<1>11. IsParser(Q)  BY <1>8, <1>9, <1>10 DEF IsParser, SameStack, Like
<1> QED  BY <1>3, <1>5, <1>8, <1>9, <1>11

LEMMA DeleteOp ==
    ASSUME NEW P, IsParser(P), NEW ptr \in Alive(P)
    PROVE  LET Q == Delete(P, ptr)
           IN  /\ IsParser(Q) /\ SameStack(P, Q) /\ Q.doubleFree = P.doubleFree
               /\ DOMAIN Q.heap = DOMAIN P.heap
               /\ Alive(Q) = Alive(P) \ {ptr}
<1>1. ptr \in DOMAIN P.heap /\ ptr # 0 /\ P.heap[ptr].live  BY HeapOf DEF Alive, Leaked
<1>2. PICK cell : cell = [P.heap[ptr] EXCEPT !.live = FALSE]  OBVIOUS
<1>3. DOMAIN cell = {"val", "live"} /\ cell.live = FALSE /\ cell.live \in BOOLEAN
    BY <1>1, <1>2 DEF IsParser, IsHeap
<1>4. PICK Q : Q = Delete(P, ptr)  OBVIOUS
<1>5. Q = [P EXCEPT !.heap[ptr].live = FALSE]  BY <1>1, <1>4 DEF Delete
<1>6. Q = [P EXCEPT !.heap = [P.heap EXCEPT ![ptr] = cell]]  BY <1>2, <1>5
<1>7. /\ IsParser(Q) /\ SameStack(P, Q) /\ Q.doubleFree = P.doubleFree
      /\ DOMAIN Q.heap = DOMAIN P.heap
      /\ Q.heap[ptr] = cell
      /\ \A h \in DOMAIN P.heap \ {ptr} : Q.heap[h] = P.heap[h]
    BY <1>1, <1>3, <1>6, HeapExcept
<1>8. Alive(Q) = Alive(P) \ {ptr}  BY <1>3, <1>7 DEF Alive, Leaked
<1> QED  BY <1>4, <1>7, <1>8

LEMMA ValOp ==
    ASSUME NEW P, IsParser(P), NEW ptr \in DOMAIN P.heap, NEW v
    PROVE  LET Q == [P EXCEPT !.heap[ptr].val = v]
           IN  /\ IsParser(Q) /\ SameStack(P, Q) /\ Q.doubleFree = P.doubleFree
               /\ DOMAIN Q.heap = DOMAIN P.heap
               /\ Alive(Q) = Alive(P)
<1>2. PICK cell : cell = [P.heap[ptr] EXCEPT !.val = v]  OBVIOUS
<1>3. DOMAIN cell = {"val", "live"} /\ cell.live = P.heap[ptr].live /\ cell.live \in BOOLEAN
    BY <1>2 DEF IsParser, IsHeap
<1>4. PICK Q : Q = [P EXCEPT !.heap[ptr].val = v]  OBVIOUS
<1>6. Q = [P EXCEPT !.heap = [P.heap EXCEPT ![ptr] = cell]]  BY <1>2, <1>4
<1>7. /\ IsParser(Q) /\ SameStack(P, Q) /\ Q.doubleFree = P.doubleFree
      /\ DOMAIN Q.heap = DOMAIN P.heap
      /\ Q.heap[ptr] = cell
      /\ \A h \in DOMAIN P.heap \ {ptr} : Q.heap[h] = P.heap[h]
    BY <1>3, <1>6, HeapExcept
<1>8. Alive(Q) = Alive(P)  BY <1>3, <1>7 DEF Alive, Leaked
<1> QED  BY <1>4, <1>7, <1>8

-----------------------------------------------------------------------------
(***************************************************************************)
(* Another state on top: the path stays, and who points to what.           *)
(***************************************************************************)
(* None of the first n states points to x. *)
Apart(P, n, x) == \A i \in 1..n : P.stack[i].ptr # x /\ P.stack[i].mem # x

(* The stacks have the same length and states. *)
SamePath(P, Q) ==
    /\ Len(Q.stack) = Len(P.stack)
    /\ \A i \in 1..Len(P.stack) : Q.stack[i].st = P.stack[i].st

LEMMA PathKept ==
    ASSUME NEW P, NEW Q, NEW n \in Nat, NEW s, Len(P.stack) = n + 1,
           Path(P), Like(P, Q), Stacked(P, Q, n, s),
           s.st = P.stack[n + 1].st,
           s.st = "eMember" => s.ptr = P.stack[n + 1].ptr
    PROVE  Path(Q) /\ SamePath(P, Q)
<1>1. Q.kind = P.kind /\ Len(Q.stack) = n + 1  BY DEF Like, Stacked
<1>2. \A i \in 1..n : Q.stack[i] = P.stack[i]  BY DEF Stacked
<1>3. Q.stack[n + 1] = s  BY DEF Stacked
<1>4. \A i \in 1..n + 1 : i \in 1..n \/ i = n + 1  OBVIOUS
<1>5. \A i \in 1..n + 1 : Q.stack[i].st = P.stack[i].st  BY <1>2, <1>3, <1>4
<1>6. \A i \in 2..n + 1 : i - 1 \in 1..n /\ i \in 1..n + 1  OBVIOUS
<1>7. Q.stack[1].st = "eNone"
    <2>1. 1 \in 1..n + 1  OBVIOUS
    <2> QED  BY <1>5, <2>1 DEF Path
<1>8. ASSUME NEW i \in 2..n + 1
      PROVE  /\ \E o \in Opens(Q.kind) : o[1] = Q.stack[i - 1].st /\ o[3] = Q.stack[i].st
             /\ Q.stack[i].st = "eMember" =>
                  Q.stack[i].ptr = Q.stack[i - 1].ptr /\ Q.stack[i].ptr # 0
    <2>1. /\ \E o \in Opens(P.kind) : o[1] = P.stack[i - 1].st /\ o[3] = P.stack[i].st
          /\ P.stack[i].st = "eMember" =>
               P.stack[i].ptr = P.stack[i - 1].ptr /\ P.stack[i].ptr # 0
        BY DEF Path
    <2>2. Q.stack[i - 1] = P.stack[i - 1]  BY <1>2, <1>6
    <2>3. Q.stack[i].st = P.stack[i].st  BY <1>5, <1>6
    <2>4. Q.stack[i].st = "eMember" => Q.stack[i].ptr = P.stack[i].ptr
        <3>1. CASE i = n + 1  BY <1>3, <3>1
        <3>2. CASE i # n + 1
            <4>1. i \in 1..n  BY <3>2
            <4> QED  BY <1>2, <4>1
        <3> QED  BY <3>1, <3>2
    <2> QED  BY <1>1, <2>1, <2>2, <2>3, <2>4
<1>9. Len(Q.stack) >= 1  BY <1>1
<1> QED  BY <1>1, <1>5, <1>7, <1>8, <1>9 DEF Path, SamePath

LEMMA OwnedKept ==
    ASSUME NEW P, NEW Q, NEW n \in Nat, NEW s, NEW gone, Len(P.stack) = n + 1,
           Owned(P), Stacked(P, Q, n, s),
           Alive(P) \ {gone} \subseteq Alive(Q),
           gone # 0 => Apart(P, n, gone),
           s.st = P.stack[n + 1].st,
           s.ptr \in Alive(Q) \cup {0}, s.mem \in Alive(Q) \cup {0},
           s.mem # 0 => s.st = "eMember",
           s.ptr # 0 /\ s.ptr # P.stack[n + 1].ptr => Apart(P, n, s.ptr),
           s.mem # 0 /\ s.mem # P.stack[n + 1].mem => Apart(P, n, s.mem),
           s.mem # 0 => s.mem # s.ptr
    PROVE  Owned(Q)
<1> DEFINE top == P.stack[n + 1]
<1>1. Len(Q.stack) = n + 1  BY DEF Stacked
<1>2. \A i \in 1..n : Q.stack[i] = P.stack[i]  BY DEF Stacked
<1>3. Q.stack[n + 1] = s  BY DEF Stacked
<1>4. \A i \in 1..n + 1 : i \in 1..n \/ i = n + 1  OBVIOUS
<1>0. \A i \in 1..n : i \in 1..n + 1 /\ i < n + 1  OBVIOUS
<1>00. n + 1 \in 1..n + 1  OBVIOUS
<1>5. Pointing(Q)
    <2>1. ASSUME NEW i \in 1..n
          PROVE  /\ Q.stack[i].ptr \in Alive(Q) \cup {0}
                 /\ Q.stack[i].mem \in Alive(Q) \cup {0}
                 /\ Q.stack[i].mem # 0 => Q.stack[i].st = "eMember"
        <3>1. /\ P.stack[i].ptr \in Alive(P) \cup {0}
              /\ P.stack[i].mem \in Alive(P) \cup {0}
              /\ P.stack[i].mem # 0 => P.stack[i].st = "eMember"
            BY <1>0 DEF Owned, Pointing
        <3>2. gone # 0 => P.stack[i].ptr # gone /\ P.stack[i].mem # gone  BY DEF Apart
        <3> QED  BY <1>2, <3>1, <3>2
    <2> QED  BY <1>1, <1>3, <1>4, <2>1 DEF Pointing
<1>6. Shared(Q)
    <2> SUFFICES ASSUME NEW i \in 1..n + 1, NEW j \in 1..n + 1, i < j,
                        Q.stack[i].ptr = Q.stack[j].ptr, Q.stack[i].ptr # 0
                 PROVE  j = i + 1 /\ Q.stack[j].st = "eMember"
        BY <1>1 DEF Shared
    <2>1. i \in 1..n  OBVIOUS
    <2>2. CASE j \in 1..n
        BY <1>0, <1>1, <1>2, <2>1, <2>2 DEF Owned, Shared
    <2>3. CASE j = n + 1
        <3>1. s.ptr = P.stack[i].ptr /\ s.ptr # 0  BY <1>2, <1>3, <2>1, <2>3
        <3>2. s.ptr = top.ptr  BY <2>1, <3>1 DEF Apart
        <3>3. j = i + 1 /\ top.st = "eMember"
            BY <1>0, <1>00, <2>1, <2>3, <3>1, <3>2 DEF Owned, Shared
        <3> QED  BY <1>3, <2>3, <3>3
    <2> QED  BY <1>4, <2>2, <2>3
<1>7. Waiting(Q)
    <2> SUFFICES ASSUME NEW i \in 1..n + 1, NEW j \in 1..n + 1, Q.stack[i].mem # 0
                 PROVE  /\ Q.stack[j].ptr # Q.stack[i].mem
                        /\ i # j => Q.stack[j].mem # Q.stack[i].mem
        BY <1>1 DEF Waiting
    <2>0. \A a, b \in 1..n + 1 :
            P.stack[a].mem # 0 =>
                P.stack[b].ptr # P.stack[a].mem /\ (a # b => P.stack[b].mem # P.stack[a].mem)
        BY DEF Owned, Waiting
    <2>1. CASE i \in 1..n /\ j \in 1..n
        BY <1>0, <1>2, <2>0, <2>1
    <2>2. CASE i \in 1..n /\ j = n + 1
        <3>1. P.stack[i].mem # 0 /\ Q.stack[i] = P.stack[i] /\ Q.stack[j] = s
            BY <1>2, <1>3, <2>2
        <3>2. top.ptr # P.stack[i].mem /\ top.mem # P.stack[i].mem
            BY <1>0, <1>00, <2>0, <2>2, <3>1
        <3>3. s.ptr # P.stack[i].mem
            BY <2>2, <3>1, <3>2 DEF Apart
        <3>4. s.mem # P.stack[i].mem
            BY <2>2, <3>1, <3>2 DEF Apart
        <3> QED  BY <3>1, <3>3, <3>4
    <2>3. CASE i = n + 1 /\ j \in 1..n
        <3>1. s.mem # 0 /\ Q.stack[j] = P.stack[j] /\ Q.stack[i] = s
            BY <1>2, <1>3, <2>3
        <3>2. CASE s.mem = top.mem
            BY <1>0, <1>00, <2>0, <2>3, <3>1, <3>2
        <3>3. CASE s.mem # top.mem
            BY <2>3, <3>1, <3>3 DEF Apart
        <3> QED  BY <3>2, <3>3
    <2>4. CASE i = n + 1 /\ j = n + 1
        BY <1>3, <2>4
    <2> QED  BY <1>4, <2>1, <2>2, <2>3, <2>4
<1> QED  BY <1>5, <1>6, <1>7 DEF Owned

-----------------------------------------------------------------------------
(***************************************************************************)
(* The tables: what may be below a member, a name and so on.               *)
(***************************************************************************)
Kinds == {"call", "response", "value"}
Leads(o, a, c) == o[1] = a /\ o[3] = c
Second(t, b) == t[2] = b

LegalPair(a, c) ==
    /\ c = "eMember" => a = "eStruct"
    /\ c # "eNone"
    /\ c = "eMethodCall" => a = "eNone"
    /\ c = "eMethodResponse" => a = "eNone"
    /\ c \in StateNames

LegalStep(o) == LegalPair(o[1], o[3])

LEMMA PairLegal ==
    ASSUME NEW o, NEW a, NEW c, Leads(o, a, c), LegalPair(a, c) PROVE LegalStep(o)
BY DEF LegalStep, Leads

LEMMA LegalPairs ==
    /\ LegalPair("eNone", "eValue") /\ LegalPair("eStruct", "eMember")
    /\ LegalPair("eMember", "eName") /\ LegalPair("eMember", "eValue")
    /\ LegalPair("eArray", "eData") /\ LegalPair("eData", "eValue")
    /\ LegalPair("eNone", "eMethodCall") /\ LegalPair("eMethodCall", "eMethodName")
    /\ LegalPair("eMethodCall", "eParams") /\ LegalPair("eParams", "eParam")
    /\ LegalPair("eParam", "eValue") /\ LegalPair("eNone", "eMethodResponse")
    /\ LegalPair("eMethodResponse", "eFault") /\ LegalPair("eFault", "eValue")
    /\ LegalPair("eMethodResponse", "eParams")
BY DEF LegalPair, StateNames

LEMMA LegalTypes ==
    ASSUME NEW c, c \in {"eArray", "eStruct", "eBoolean", "eInt", "eI4", "eDouble", "eString",
                         "eBase64", "eDate"}
    PROVE  LegalPair("eValue", c) /\ c # "eMethodResponse" /\ c # "eMethodCall"
BY DEF LegalPair, StateNames

LEMMA TripleLeads ==
    ASSUME NEW a, NEW b, NEW c PROVE Leads(<<a, b, c>>, a, c)
BY DEF Leads

LEMMA LegalValue ==
    ASSUME NEW o \in ValueOpens
    PROVE  LegalStep(o) /\ o[3] # "eMethodResponse" /\ o[3] # "eMethodCall"
<1>1. CASE \E t \in Typed : o = <<"eValue", t[1], t[2]>>
    <2>1. PICK t \in Typed : o = <<"eValue", t[1], t[2]>>  BY <1>1
    <2>2. Leads(o, "eValue", t[2])  BY <2>1, TripleLeads
    <2>3. \A a, b : Second(<<a, b>>, b)  BY DEF Second
    <2>4. \/ Second(t, "eArray") \/ Second(t, "eStruct") \/ Second(t, "eBoolean")
          \/ Second(t, "eInt") \/ Second(t, "eI4") \/ Second(t, "eDouble")
          \/ Second(t, "eString") \/ Second(t, "eBase64") \/ Second(t, "eDate")
        BY <2>3, Zenon DEF Typed
    <2>5. t[2] \in {"eArray", "eStruct", "eBoolean", "eInt", "eI4", "eDouble", "eString",
                    "eBase64", "eDate"}
        BY <2>4 DEF Second
    <2>6. LegalPair("eValue", t[2]) /\ t[2] # "eMethodResponse" /\ t[2] # "eMethodCall"
        BY <2>5, LegalTypes
    <2> QED  BY <2>2, <2>6, PairLegal DEF Leads
<1>2. CASE ~\E t \in Typed : o = <<"eValue", t[1], t[2]>>
    <2>1. \/ Leads(o, "eNone", "eValue") \/ Leads(o, "eStruct", "eMember")
          \/ Leads(o, "eMember", "eName") \/ Leads(o, "eMember", "eValue")
          \/ Leads(o, "eArray", "eData") \/ Leads(o, "eData", "eValue")
        BY <1>2, TripleLeads, Zenon DEF ValueOpens
    <2>2. LegalStep(o)  BY <2>1, PairLegal, LegalPairs, Zenon
    <2>3. o[3] # "eMethodResponse" /\ o[3] # "eMethodCall"  BY <2>1 DEF Leads
    <2> QED  BY <2>2, <2>3
<1> QED  BY <1>1, <1>2

LEMMA LegalCall ==
    ASSUME NEW o \in CallOpens PROVE LegalStep(o) /\ o[3] # "eMethodResponse"
<1>1. \/ Leads(o, "eNone", "eMethodCall") \/ Leads(o, "eMethodCall", "eMethodName")
      \/ Leads(o, "eMethodCall", "eParams") \/ Leads(o, "eParams", "eParam")
      \/ Leads(o, "eParam", "eValue")
    BY TripleLeads, Zenon DEF CallOpens
<1>2. LegalStep(o)  BY <1>1, PairLegal, LegalPairs, Zenon
<1>3. o[3] # "eMethodResponse"  BY <1>1 DEF Leads
<1> QED  BY <1>2, <1>3

LEMMA LegalResponse ==
    ASSUME NEW o \in ResponseOpens PROVE LegalStep(o) /\ o[3] # "eMethodCall"
<1>1. \/ Leads(o, "eNone", "eMethodResponse") \/ Leads(o, "eMethodResponse", "eFault")
      \/ Leads(o, "eFault", "eValue") \/ Leads(o, "eMethodResponse", "eParams")
      \/ Leads(o, "eParams", "eParam") \/ Leads(o, "eParam", "eValue")
    BY TripleLeads, Zenon DEF ResponseOpens
<1>2. LegalStep(o)  BY <1>1, PairLegal, LegalPairs, Zenon
<1>3. o[3] # "eMethodCall"  BY <1>1 DEF Leads
<1> QED  BY <1>2, <1>3

LEMMA OpensFacts ==
    ASSUME NEW kind \in Kinds, NEW o \in Opens(kind)
    PROVE  /\ LegalStep(o)
           /\ o[3] = "eMethodResponse" => kind = "response"
           /\ o[3] = "eMethodCall" => kind = "call"
<1>1. o \in ValueOpens \/ (kind = "call" /\ o \in CallOpens)
        \/ (kind = "response" /\ o \in ResponseOpens)
    BY DEF Opens, Kinds
<1> QED  BY <1>1, LegalValue, LegalCall, LegalResponse, Zenon

(* Who closes what: the parsers of calls and of responses keep the tags of *)
(* their own tables to themselves.                                         *)
LEMMA CallEnds ==
    ASSUME NEW st, st \in {o[3] : o \in CallOpens} \ {"eValue"}
    PROVE  st \in {"eMethodCall", "eMethodName", "eParams", "eParam"}
<1>1. PICK o \in CallOpens : st = o[3]  OBVIOUS
<1>2. \/ Leads(o, "eNone", "eMethodCall") \/ Leads(o, "eMethodCall", "eMethodName")
      \/ Leads(o, "eMethodCall", "eParams") \/ Leads(o, "eParams", "eParam")
      \/ Leads(o, "eParam", "eValue")
    BY <1>1, TripleLeads, Zenon DEF CallOpens
<1> QED  BY <1>1, <1>2 DEF Leads

LEMMA CallEndsRoot == "eMethodCall" \in {o[3] : o \in CallOpens} \ {"eValue"}
<1>1. PICK o : o = <<"eNone", "methodCall", "eMethodCall">>  OBVIOUS
<1>2. o \in CallOpens  BY <1>1, Zenon DEF CallOpens
<1>3. o[3] = "eMethodCall"  BY <1>1
<1> QED  BY <1>2, <1>3

LEMMA ResponseEnds ==
    ASSUME NEW st, st \in {o[3] : o \in ResponseOpens} \ {"eValue"}
    PROVE  st \in {"eMethodResponse", "eFault", "eParams", "eParam"}
<1>1. PICK o \in ResponseOpens : st = o[3]  OBVIOUS
<1>2. \/ Leads(o, "eNone", "eMethodResponse") \/ Leads(o, "eMethodResponse", "eFault")
      \/ Leads(o, "eFault", "eValue") \/ Leads(o, "eMethodResponse", "eParams")
      \/ Leads(o, "eParams", "eParam") \/ Leads(o, "eParam", "eValue")
    BY <1>1, TripleLeads, Zenon DEF ResponseOpens
<1> QED  BY <1>1, <1>2 DEF Leads

-----------------------------------------------------------------------------
(***************************************************************************)
(* The steps that takeValue, takeName and the callbacks are made of.       *)
(***************************************************************************)
Good(P) == IsParser(P) /\ Healthy(P)
Result(P, Q) == Good(Q) /\ Like(P, Q) /\ SamePath(P, Q)

(* A value that none of the first n states points to, or none at all. *)
Free(P, n, x) == x = 0 \/ (x \in Alive(P) /\ Apart(P, n, x))

LEMMA ResultTwice ==
    ASSUME NEW P, NEW Q, NEW R, Result(P, Q), Result(Q, R) PROVE Result(P, R)
BY DEF Result, Like, SamePath

LEMMA TopFacts ==
    ASSUME NEW P, Good(P), NEW n \in Nat, Len(P.stack) = n + 1
    PROVE  /\ P.stack[n + 1] \in State
           /\ P.stack[n + 1].ptr \in Alive(P) \cup {0}
           /\ P.stack[n + 1].mem \in Alive(P) \cup {0}
           /\ P.stack[n + 1].mem # 0 => /\ P.stack[n + 1].st = "eMember"
                                        /\ P.stack[n + 1].mem # P.stack[n + 1].ptr
           /\ P.stack[n + 1].st = "eMember" => P.stack[n + 1].ptr # 0
<1>1. n + 1 \in 1..n + 1  OBVIOUS
<1>2. P.stack[n + 1] \in State  BY <1>1, StackOps DEF Good
<1>3. /\ P.stack[n + 1].ptr \in Alive(P) \cup {0}
      /\ P.stack[n + 1].mem \in Alive(P) \cup {0}
      /\ P.stack[n + 1].mem # 0 => P.stack[n + 1].st = "eMember"
    BY <1>1 DEF Good, Healthy, Owned, Pointing
<1>4. P.stack[n + 1].mem # 0 => P.stack[n + 1].mem # P.stack[n + 1].ptr
    BY <1>1 DEF Good, Healthy, Owned, Waiting
<1>5. P.stack[n + 1].st = "eMember" => P.stack[n + 1].ptr # 0
    <2>1. CASE n = 0  BY <2>1 DEF Good, Healthy, Path
    <2>2. CASE n # 0
        <3>1. n + 1 \in 2..n + 1  BY <2>2
        <3> QED  BY <3>1 DEF Good, Healthy, Path
    <2> QED  BY <2>1, <2>2
<1> QED  BY <1>2, <1>3, <1>4, <1>5

(* The state on top is changed. *)
LEMMA TopChanges ==
    ASSUME NEW P, Good(P), NEW n \in Nat, Len(P.stack) = n + 1, NEW s \in State,
           s.st = P.stack[n + 1].st,
           s.ptr = P.stack[n + 1].ptr \/ (s.st # "eMember" /\ Free(P, n, s.ptr)),
           s.mem = P.stack[n + 1].mem \/ Free(P, n, s.mem),
           s.mem # 0 => s.st = "eMember" /\ s.mem # s.ptr
    PROVE  LET Q == WithTop(P, s)
           IN  Result(P, Q) /\ SameHeap(P, Q) /\ Stacked(P, Q, n, s)
<1> DEFINE Q == WithTop(P, s)
<1>1. IsParser(Q) /\ Like(P, Q) /\ SameHeap(P, Q) /\ Stacked(P, Q, n, s)
    BY WithTopOp DEF Good
<1> HIDE DEF Q
<1>2. Alive(Q) = Alive(P)  BY <1>1 DEF SameHeap, Alive, Leaked
<1>3. Path(Q) /\ SamePath(P, Q)  BY <1>1, PathKept DEF Good, Healthy
<1>4. /\ P.stack[n + 1].ptr \in Alive(P) \cup {0}
      /\ P.stack[n + 1].mem \in Alive(P) \cup {0}
    BY TopFacts
<1>5. s.ptr \in Alive(Q) \cup {0} /\ s.mem \in Alive(Q) \cup {0}  BY <1>2, <1>4 DEF Free
<1>6. s.ptr # 0 /\ s.ptr # P.stack[n + 1].ptr => Apart(P, n, s.ptr)  BY DEF Free
<1>7. s.mem # 0 /\ s.mem # P.stack[n + 1].mem => Apart(P, n, s.mem)  BY DEF Free
<1>8. Alive(P) \ {0} \subseteq Alive(Q)  BY <1>2
<1>9. Owned(P)  BY DEF Good, Healthy
<1>10. PICK gone : gone = 0  OBVIOUS
<1>11. (gone # 0 => Apart(P, n, gone)) /\ Alive(P) \ {gone} \subseteq Alive(Q)
    BY <1>8, <1>10
<1>12. Owned(Q)  BY <1>1, <1>5, <1>6, <1>7, <1>9, <1>11, OwnedKept
<1>13. ~Q.doubleFree  BY <1>1 DEF SameHeap, Good, Healthy
<1> QED  BY <1>1, <1>3, <1>12, <1>13 DEF Result, Good, Healthy, Q

(* The heap is changed. *)
LEMMA HeapChanges ==
    ASSUME NEW P, NEW Q, Good(P), NEW n \in Nat, Len(P.stack) = n + 1, NEW gone,
           IsParser(Q), SameStack(P, Q), Q.doubleFree = P.doubleFree,
           Alive(P) \ {gone} \subseteq Alive(Q),
           gone # 0 => Apart(P, n + 1, gone)
    PROVE  Result(P, Q)
<1> DEFINE s == P.stack[n + 1]
<1>1. Stacked(P, Q, n, s)  BY DEF Stacked, SameStack
<1>2. Path(Q) /\ SamePath(P, Q)
    BY DEF SameStack, Like, Path, SamePath, Good, Healthy
<1>3. /\ s.ptr \in Alive(P) \cup {0} /\ s.mem \in Alive(P) \cup {0}
      /\ s.mem # 0 => s.st = "eMember" /\ s.mem # s.ptr
    BY TopFacts
<1>4. gone # 0 => Apart(P, n, gone) /\ s.ptr # gone /\ s.mem # gone
    <2>1. n + 1 \in 1..n + 1 /\ 1..n \subseteq 1..n + 1  OBVIOUS
    <2> QED  BY <2>1 DEF Apart
<1>5. s.ptr \in Alive(Q) \cup {0} /\ s.mem \in Alive(Q) \cup {0}  BY <1>3, <1>4
<1>6. Owned(P)  BY DEF Good, Healthy
<1> HIDE DEF s
<1>7. s.st = P.stack[n + 1].st /\ s.ptr = P.stack[n + 1].ptr /\ s.mem = P.stack[n + 1].mem
    BY DEF s
<1>8. Owned(Q)  BY <1>1, <1>3, <1>4, <1>5, <1>6, <1>7, OwnedKept
<1>9. ~Q.doubleFree  BY DEF Good, Healthy
<1> QED  BY <1>2, <1>8, <1>9 DEF Result, Good, Healthy, SameStack

LEMMA NewChanges ==
    ASSUME NEW P, Good(P), NEW n \in Nat, Len(P.stack) = n + 1, NEW v
    PROVE  LET Q == New(P, v)
           IN  Result(P, Q) /\ SameStack(P, Q) /\ NewPtr(P) # 0 /\ NewPtr(P) \in Nat
               /\ NewPtr(P) \in Alive(Q) /\ Apart(Q, n + 1, NewPtr(P))
<1> DEFINE Q == New(P, v)
<1>1. PICK x : x = NewPtr(P)  OBVIOUS
<1>2. /\ IsParser(Q) /\ SameStack(P, Q) /\ Q.doubleFree = P.doubleFree
      /\ x \in Nat \ {0} /\ x \notin Alive(P)
      /\ Alive(Q) = Alive(P) \cup {x}
    BY <1>1, NewOp DEF Good
<1> HIDE DEF Q
<1>3. PICK gone : gone = 0  OBVIOUS
<1>4. Alive(P) \ {gone} \subseteq Alive(Q) /\ (gone # 0 => Apart(P, n + 1, gone))
    BY <1>2, <1>3
<1>5. Result(P, Q)  BY <1>2, <1>4, HeapChanges
<1>6. Apart(Q, n + 1, x)
    <2>1. \A i \in 1..n + 1 : P.stack[i].ptr \in Alive(P) \cup {0}
                              /\ P.stack[i].mem \in Alive(P) \cup {0}
        BY DEF Good, Healthy, Owned, Pointing
    <2> QED  BY <1>2, <2>1 DEF Apart, SameStack
<1> QED  BY <1>1, <1>2, <1>5, <1>6 DEF Q

(* A value is put into another one, its own object is deleted. *)
LEMMA PutChanges ==
    ASSUME NEW P, Good(P), NEW n \in Nat, Len(P.stack) = n + 1,
           NEW a \in DOMAIN P.heap, NEW v, NEW ptr, Free(P, n + 1, ptr)
    PROVE  Result(P, Delete([P EXCEPT !.heap[a].val = v], ptr))
<1>1. PICK R : R = [P EXCEPT !.heap[a].val = v]  OBVIOUS
<1>2. IsParser(P)  BY DEF Good
<1>3. /\ IsParser(R) /\ SameStack(P, R) /\ R.doubleFree = P.doubleFree
      /\ Alive(R) = Alive(P)
    BY <1>1, <1>2, ValOp
<1>4. PICK Q : Q = Delete(R, ptr)  OBVIOUS
<1>5. CASE ptr = 0
    <2>1. Q = R  BY <1>4, <1>5 DEF Delete
    <2>2. Alive(P) \ {ptr} \subseteq Alive(R)  BY <1>3
    <2>3. Result(P, R)  BY <1>3, <1>5, <2>2, HeapChanges
    <2> QED  BY <1>1, <1>4, <2>1, <2>3
<1>6. CASE ptr # 0
    <2>1. ptr \in Alive(R) /\ Apart(P, n + 1, ptr)  BY <1>3, <1>6 DEF Free
    <2>2. /\ IsParser(Q) /\ SameStack(R, Q) /\ Q.doubleFree = R.doubleFree
          /\ Alive(Q) = Alive(R) \ {ptr}
        BY <1>3, <1>4, <2>1, DeleteOp
    <2>3. SameStack(P, Q)  BY <1>3, <2>2 DEF SameStack, Like
    <2>4. Q.doubleFree = P.doubleFree /\ Alive(P) \ {ptr} \subseteq Alive(Q)  BY <1>3, <2>2
    <2>5. Result(P, Q)  BY <2>1, <2>2, <2>3, <2>4, HeapChanges
    <2> QED  BY <1>1, <1>4, <2>5
<1> QED  BY <1>5, <1>6

-----------------------------------------------------------------------------
(***************************************************************************)
(* takeValue and takeName.                                                 *)
(***************************************************************************)
LEMMA FreeLess ==
    ASSUME NEW P, Good(P), NEW n \in Nat, NEW x, Free(P, n + 1, x)
    PROVE  Free(P, n, x) /\ x \in Nat
           /\ (x # 0 => x # P.stack[n + 1].ptr /\ x # P.stack[n + 1].mem)
<1>1. n + 1 \in 1..n + 1 /\ 1..n \subseteq 1..n + 1  OBVIOUS
<1>2. x \in Nat
    <2>1. Alive(P) \subseteq Nat  BY HeapOf DEF Good
    <2> QED  BY <2>1 DEF Free
<1> QED  BY <1>1, <1>2 DEF Free, Apart

LEMMA StateTakes ==
    ASSUME NEW P, Good(P), NEW n \in Nat, Len(P.stack) = n + 1, NEW ptr, NEW del \in BOOLEAN,
           P.stack[n + 1].st # "eMember",
           ptr = P.stack[n + 1].ptr \/ Free(P, n, ptr)
    PROVE  LET Q == StateTakesValue(P, ptr, del)
           IN  Result(P, Q) /\ Q.stack[n + 1].ptr = ptr
<1>1. PICK top : top = P.stack[n + 1]  OBVIOUS
<1>2. getTopState(P) = top  BY <1>1, TopOf DEF Good
<1>3. PICK s : s = [top EXCEPT !.ptr = ptr, !.del = del]  OBVIOUS
<1>4. ptr \in Nat
    <2>1. Alive(P) \subseteq Nat  BY HeapOf DEF Good
    <2>2. top \in State  BY <1>1, TopFacts
    <2>3. top.ptr \in Nat  BY <2>2 DEF State
    <2> QED  BY <1>1, <2>1, <2>3 DEF Free
<1>5. top \in State /\ top.mem = 0  BY <1>1, TopFacts
<1>6. s \in State /\ s.st = top.st /\ s.ptr = ptr /\ s.mem = top.mem
    BY <1>3, <1>4, <1>5 DEF State
<1>7. Result(P, WithTop(P, s)) /\ Stacked(P, WithTop(P, s), n, s)
    BY <1>1, <1>5, <1>6, TopChanges
<1>8. StateTakesValue(P, ptr, del) = WithTop(P, s)  BY <1>2, <1>3 DEF StateTakesValue
<1> QED  BY <1>6, <1>7, <1>8 DEF Stacked

LEMMA MemberTakes ==
    ASSUME NEW P, Good(P), NEW n \in Nat, Len(P.stack) = n + 1, NEW ptr, NEW del \in BOOLEAN,
           P.stack[n + 1].st = "eMember", Free(P, n + 1, ptr)
    PROVE  Result(P, MemberTakesValue(P, ptr, del))
<1>1. PICK top : top = P.stack[n + 1]  OBVIOUS
<1>2. getTopState(P) = top  BY <1>1, TopOf DEF Good
<1>3. PICK s : s = [top EXCEPT !.del = del]  OBVIOUS
<1>4. top \in State /\ top.mem # top.ptr /\ top.ptr # 0 /\ top.ptr \in Alive(P)
    BY <1>1, TopFacts
<1>5. s \in State /\ s.st = top.st /\ s.ptr = top.ptr /\ s.mem = top.mem /\ s.name = top.name
    BY <1>3, <1>4 DEF State
<1>6. PICK p : p = WithTop(P, s)  OBVIOUS
<1>7. Result(P, p) /\ SameHeap(P, p) /\ Stacked(P, p, n, s)
    BY <1>1, <1>4, <1>5, <1>6, TopChanges
<1>8. Good(p) /\ Len(p.stack) = n + 1 /\ p.stack[n + 1] = s
    BY <1>7 DEF Result, Stacked
<1>9. getTopState(p) = s  BY <1>8, TopOf DEF Good
<1>10. Alive(p) = Alive(P)  BY <1>7 DEF SameHeap, Alive, Leaked
<1>11. Free(p, n + 1, ptr)
    <2>1. ASSUME NEW i \in 1..n + 1
          PROVE  p.stack[i].ptr = P.stack[i].ptr /\ p.stack[i].mem = P.stack[i].mem
        <3>1. i \in 1..n \/ i = n + 1  OBVIOUS
        <3> QED  BY <1>1, <1>5, <1>7, <3>1 DEF Stacked
    <2> QED  BY <1>10, <2>1 DEF Free, Apart
<1>12. CASE top.name # <<>>
    <2>1. top.ptr \in DOMAIN p.heap
        <3>1. Alive(P) \subseteq DOMAIN P.heap  BY HeapOf DEF Good
        <3> QED  BY <1>4, <1>7, <3>1 DEF SameHeap
    <2>2. PICK v : v = addMember(p.heap[top.ptr].val, top.name, Deref(p, ptr))  OBVIOUS
    <2>3. AddMember(p, top.name, ptr) = Delete([p EXCEPT !.heap[top.ptr].val = v], ptr)
        BY <1>5, <1>9, <2>2 DEF AddMember
    <2>4. MemberTakesValue(P, ptr, del) = AddMember(p, top.name, ptr)
        BY <1>2, <1>3, <1>6, <1>12 DEF MemberTakesValue
    <2>5. Result(p, Delete([p EXCEPT !.heap[top.ptr].val = v], ptr))
        BY <1>8, <1>11, <2>1, PutChanges
    <2> QED  BY <1>7, <2>3, <2>4, <2>5, ResultTwice
<1>13. CASE top.name = <<>>
    <2>1. PICK u : u = [s EXCEPT !.mem = ptr]  OBVIOUS
    <2>2. Free(p, n, ptr) /\ ptr \in Nat /\ (ptr # 0 => ptr # s.ptr)
        BY <1>8, <1>11, FreeLess
    <2>3. u \in State /\ u.st = s.st /\ u.ptr = s.ptr /\ u.mem = ptr
        BY <1>5, <2>1, <2>2 DEF State
    <2>4. Result(p, WithTop(p, u))
        BY <1>1, <1>5, <1>8, <2>2, <2>3, TopChanges
    <2>5. MemberTakesValue(P, ptr, del) = WithTop(p, u)
        BY <1>2, <1>3, <1>6, <1>9, <1>13, <2>1 DEF MemberTakesValue
    <2> QED  BY <1>7, <2>4, <2>5, ResultTwice
<1> QED  BY <1>12, <1>13

LEMMA NewTopCommutes ==
    ASSUME NEW P, IsParser(P), NEW s, NEW v
    PROVE  New(WithTop(P, s), v) = WithTop(New(P, v), s)
<1>1. DOMAIN P = Fields  BY DEF IsParser
<1>2. PICK t : t = Append(Front(P.stack), s)  OBVIOUS
<1>3. PICK h : h = Append(P.heap, [val |-> v, live |-> TRUE])  OBVIOUS
<1>4. PICK A : A = [P EXCEPT !.stack = t]  OBVIOUS
<1>5. PICK B : B = [P EXCEPT !.heap = h]  OBVIOUS
<1>6. A.heap = P.heap /\ B.stack = P.stack  BY <1>1, <1>4, <1>5 DEF Fields
<1>7. New(A, v) = [A EXCEPT !.heap = h]  BY <1>3, <1>6 DEF New
<1>8. WithTop(B, s) = [B EXCEPT !.stack = t]  BY <1>2, <1>6 DEF WithTop
<1>9. [A EXCEPT !.heap = h] = [B EXCEPT !.stack = t]  BY <1>1, <1>4, <1>5 DEF Fields
<1>10. WithTop(P, s) = A  BY <1>2, <1>4 DEF WithTop
<1>11. New(P, v) = B  BY <1>3, <1>5 DEF New
<1> QED  BY <1>7, <1>8, <1>9, <1>10, <1>11

LEMMA ArrayTakes ==
    ASSUME NEW P, Good(P), NEW n \in Nat, Len(P.stack) = n + 1, NEW ptr, NEW del \in BOOLEAN,
           P.stack[n + 1].st # "eMember", Free(P, n + 1, ptr)
    PROVE  Result(P, ArrayTakesValue(P, ptr, del))
<1>1. PICK top : top = P.stack[n + 1]  OBVIOUS
<1>2. getTopState(P) = top  BY <1>1, TopOf DEF Good
<1>3. top \in State /\ top.mem = 0 /\ top.ptr \in Alive(P) \cup {0}  BY <1>1, TopFacts
<1>4. PICK p : p = IF top.ptr = 0
                   THEN New(WithTop(P, [top EXCEPT !.ptr = NewPtr(P), !.del = del]), Array(<<>>))
                   ELSE WithTop(P, [top EXCEPT !.del = del])
    OBVIOUS
<1>5. PICK a : a = getTopState(p).ptr  OBVIOUS
<1>6. PICK d : d = Deref(P, ptr)  OBVIOUS
<1>7. ArrayTakesValue(P, ptr, del) = Delete([p EXCEPT !.heap[a].val = addItem(@, d)], ptr)
    BY <1>2, <1>4, <1>5, <1>6 DEF ArrayTakesValue
<1>8. PICK v : v = addItem(p.heap[a].val, d)  OBVIOUS
<1>9. ArrayTakesValue(P, ptr, del) = Delete([p EXCEPT !.heap[a].val = v], ptr)
    BY <1>7, <1>8
<1> DEFINE Ready == Result(P, p) /\ a \in DOMAIN p.heap /\ Free(p, n + 1, ptr)
                    /\ Len(p.stack) = n + 1
<1>10. ASSUME top.ptr # 0 PROVE Ready
    <2>1. PICK s : s = [top EXCEPT !.del = del]  OBVIOUS
    <2>2. s \in State /\ s.st = top.st /\ s.ptr = top.ptr /\ s.mem = top.mem
        BY <1>3, <2>1 DEF State
    <2>3. p = WithTop(P, s)  BY <1>4, <1>10, <2>1
    <2>4. Result(P, p) /\ SameHeap(P, p) /\ Stacked(P, p, n, s)
        BY <1>1, <1>3, <2>2, <2>3, TopChanges
    <2>5. Len(p.stack) = n + 1 /\ p.stack[n + 1] = s  BY <2>4 DEF Stacked
    <2>6. a = top.ptr  BY <1>5, <2>2, <2>4, <2>5, TopOf DEF Result, Good
    <2>7. a \in DOMAIN p.heap
        <3>1. Alive(P) \subseteq DOMAIN P.heap  BY HeapOf DEF Good
        <3> QED  BY <1>3, <1>10, <2>4, <2>6, <3>1 DEF SameHeap
    <2>8. Alive(p) = Alive(P)  BY <2>4 DEF SameHeap, Alive, Leaked
    <2>9. Free(p, n + 1, ptr)
        <3>1. ASSUME NEW i \in 1..n + 1
              PROVE  p.stack[i].ptr = P.stack[i].ptr /\ p.stack[i].mem = P.stack[i].mem
            <4>1. i \in 1..n \/ i = n + 1  OBVIOUS
            <4> QED  BY <1>1, <2>2, <2>4, <4>1 DEF Stacked
        <3> QED  BY <2>8, <3>1 DEF Free, Apart
    <2> QED  BY <2>4, <2>5, <2>7, <2>9
<1>11. ASSUME top.ptr = 0 PROVE Ready
    <2>0. PICK new : new = NewPtr(P)  OBVIOUS
    <2>1. PICK s : s = [top EXCEPT !.ptr = new, !.del = del]  OBVIOUS
    <2>2. PICK r : r = New(P, Array(<<>>))  OBVIOUS
    <2>3. /\ Result(P, r) /\ SameStack(P, r) /\ new # 0 /\ new \in Nat
          /\ new \in Alive(r) /\ Apart(r, n + 1, new)
        BY <2>0, <2>2, NewChanges
    <2>4. s \in State /\ s.st = top.st /\ s.ptr = new /\ s.mem = top.mem
        BY <1>3, <2>1, <2>3 DEF State
    <2>5. p = New(WithTop(P, s), Array(<<>>))  BY <1>4, <1>11, <2>0, <2>1
    <2>6. p = WithTop(r, s)  BY <2>2, <2>5, NewTopCommutes DEF Good
    <2>7. Good(r) /\ Len(r.stack) = n + 1 /\ r.stack[n + 1] = top
        BY <1>1, <2>3 DEF Result, SameStack
    <2>8. Free(r, n, new)
        <3>1. Free(r, n + 1, new)  BY <2>3 DEF Free
        <3> QED  BY <2>7, <3>1, FreeLess
    <2>9. Result(r, p) /\ SameHeap(r, p) /\ Stacked(r, p, n, s)
        BY <1>1, <1>3, <2>4, <2>6, <2>7, <2>8, TopChanges
    <2>10. Len(p.stack) = n + 1 /\ p.stack[n + 1] = s  BY <2>9 DEF Stacked
    <2>11. a = new  BY <1>5, <2>4, <2>9, <2>10, TopOf DEF Result, Good
    <2>12. a \in DOMAIN p.heap
        <3>1. Alive(r) \subseteq DOMAIN r.heap  BY <2>7, HeapOf DEF Good
        <3> QED  BY <2>3, <2>9, <2>11, <3>1 DEF SameHeap
    <2>13. Alive(p) = Alive(P) \cup {new}
        <3>1. Alive(p) = Alive(r)  BY <2>9 DEF SameHeap, Alive, Leaked
        <3>2. Alive(r) = Alive(P) \cup {new}  BY <2>0, <2>2, NewOp DEF Good
        <3> QED  BY <3>1, <3>2
    <2>14. Free(p, n + 1, ptr)
        <3>0. CASE ptr = 0  BY <3>0 DEF Free
        <3>1. CASE ptr # 0
            <4>1. ptr \in Alive(P) /\ Apart(P, n + 1, ptr)  BY <3>1 DEF Free
            <4>2. ptr # new  BY <2>0, <4>1, NewOp DEF Good
            <4>3. ASSUME NEW i \in 1..n + 1
                  PROVE  p.stack[i].ptr # ptr /\ p.stack[i].mem # ptr
                <5>1. i \in 1..n \/ i = n + 1  OBVIOUS
                <5>2. P.stack[i].ptr # ptr /\ P.stack[i].mem # ptr  BY <4>1 DEF Apart
                <5>3. CASE i \in 1..n
                    <6>1. p.stack[i] = r.stack[i] /\ r.stack[i] = P.stack[i]
                        BY <2>3, <2>9, <5>3 DEF Stacked, SameStack
                    <6> QED  BY <5>2, <6>1
                <5>4. CASE i = n + 1
                    BY <1>1, <2>4, <2>10, <4>2, <5>2, <5>4
                <5> QED  BY <5>1, <5>3, <5>4
            <4> QED  BY <2>13, <4>1, <4>3 DEF Free, Apart
        <3> QED  BY <3>0, <3>1
    <2>15. Result(P, p)  BY <2>3, <2>9, ResultTwice
    <2> QED  BY <2>10, <2>12, <2>14, <2>15
<1>12. Ready  BY <1>10, <1>11
<1>13. Result(p, Delete([p EXCEPT !.heap[a].val = v], ptr))
    BY <1>12, PutChanges DEF Result
<1> QED  BY <1>9, <1>12, <1>13, ResultTwice

LEMMA Takes ==
    ASSUME NEW P, Good(P), NEW n \in Nat, Len(P.stack) = n + 1, NEW ptr, NEW del \in BOOLEAN,
           Free(P, n + 1, ptr)
             \/ (ptr = P.stack[n + 1].ptr /\ P.stack[n + 1].st \notin {"eMember", "eData"})
    PROVE  Result(P, takeValue(P, ptr, del))
<1>1. PICK top : top = P.stack[n + 1]  OBVIOUS
<1>2. getTopState(P) = top  BY <1>1, TopOf DEF Good
<1>3. CASE top.st = "eMember"
    <2>1. takeValue(P, ptr, del) = MemberTakesValue(P, ptr, del)  BY <1>2, <1>3 DEF takeValue
    <2>2. Free(P, n + 1, ptr)  BY <1>1, <1>3
    <2> QED  BY <1>1, <1>3, <2>1, <2>2, MemberTakes
<1>4. CASE top.st = "eData"
    <2>1. takeValue(P, ptr, del) = ArrayTakesValue(P, ptr, del)  BY <1>2, <1>4 DEF takeValue
    <2>2. Free(P, n + 1, ptr)  BY <1>1, <1>4
    <2>3. P.stack[n + 1].st # "eMember"  BY <1>1, <1>4
    <2> QED  BY <2>1, <2>2, <2>3, ArrayTakes
<1>5. CASE top.st \notin {"eMember", "eData"}
    <2>1. takeValue(P, ptr, del) = StateTakesValue(P, ptr, del)  BY <1>2, <1>5 DEF takeValue
    <2>2. ptr = P.stack[n + 1].ptr \/ Free(P, n, ptr)  BY FreeLess
    <2>3. P.stack[n + 1].st # "eMember"  BY <1>1, <1>5
    <2>4. Result(P, StateTakesValue(P, ptr, del))  BY <2>2, <2>3, StateTakes
    <2> QED  BY <2>1, <2>4
<1> QED  BY <1>3, <1>4, <1>5

LEMMA TakesNew ==
    ASSUME NEW P, Good(P), NEW n \in Nat, Len(P.stack) = n + 1, NEW v
    PROVE  Result(P, takeNew(P, v))
<1>1. PICK x : x = NewPtr(P)  OBVIOUS
<1>2. PICK r : r = New(P, v)  OBVIOUS
<1>3. Result(P, r) /\ SameStack(P, r) /\ x \in Alive(r) /\ Apart(r, n + 1, x)
    BY <1>1, <1>2, NewChanges
<1>4. Good(r) /\ Len(r.stack) = n + 1 /\ Free(r, n + 1, x)
    BY <1>3 DEF Result, SameStack, Free
<1>5. Result(r, takeValue(r, x, TRUE))  BY <1>4, Takes
<1>6. takeNew(P, v) = takeValue(r, x, TRUE)  BY <1>1, <1>2 DEF takeNew
<1> QED  BY <1>3, <1>5, <1>6, ResultTwice

LEMMA TakesName ==
    ASSUME NEW P, Good(P), NEW n \in Nat, Len(P.stack) = n + 1, NEW name \in Texts
    PROVE  Result(P, takeName(P, name))
<1>1. PICK top : top = P.stack[n + 1]  OBVIOUS
<1>2. getTopState(P) = top  BY <1>1, TopOf DEF Good
<1>3. top \in State /\ top.ptr \in Alive(P) \cup {0} /\ top.mem \in Alive(P) \cup {0}
      /\ (top.mem # 0 => top.mem # top.ptr)
      /\ (top.st = "eMember" => top.ptr # 0)
    BY <1>1, TopFacts
<1>4. CASE top.st # "eMember"
    <2>1. takeName(P, name) = P  BY <1>2, <1>4 DEF takeName
    <2> QED  BY <2>1 DEF Result, Like, SamePath
<1>5. CASE top.st = "eMember" /\ top.mem = 0
    <2>1. PICK s : s = [top EXCEPT !.name = name]  OBVIOUS
    <2>2. s \in State /\ s.st = top.st /\ s.ptr = top.ptr /\ s.mem = top.mem
        BY <1>3, <2>1 DEF State
    <2>3. Result(P, WithTop(P, s))  BY <1>1, <1>5, <2>2, TopChanges
    <2>4. takeName(P, name) = WithTop(P, s)  BY <1>2, <1>5, <2>1 DEF takeName
    <2> QED  BY <2>3, <2>4
<1>6. CASE top.st = "eMember" /\ top.mem # 0
    <2>1. PICK v : v = addMember(P.heap[top.ptr].val, name, Deref(P, top.mem))  OBVIOUS
    <2>2. PICK R : R = [P EXCEPT !.heap[top.ptr].val = v]  OBVIOUS
    <2>3. PICK p : p = Delete(R, top.mem)  OBVIOUS
    <2>4. PICK s : s = [top EXCEPT !.mem = 0]  OBVIOUS
    <2>5. AddMember(P, name, top.mem) = p  BY <1>2, <2>1, <2>2, <2>3 DEF AddMember
    <2>6. IsParser(P) /\ top.ptr \in DOMAIN P.heap /\ top.mem \in Alive(P)
        <3>1. Alive(P) \subseteq DOMAIN P.heap  BY HeapOf DEF Good
        <3> QED  BY <1>3, <1>6, <3>1 DEF Good
    <2>7. /\ IsParser(R) /\ SameStack(P, R) /\ R.doubleFree = P.doubleFree
          /\ Alive(R) = Alive(P)
        BY <2>2, <2>6, ValOp
    <2>8. /\ IsParser(p) /\ SameStack(R, p) /\ p.doubleFree = R.doubleFree
          /\ Alive(p) = Alive(R) \ {top.mem}
        BY <2>3, <2>6, <2>7, DeleteOp
    <2>9. p.stack = P.stack /\ Like(P, p)  BY <2>7, <2>8 DEF SameStack, Like
    <2>10. getTopState(p) = top /\ Len(p.stack) = n + 1
        BY <1>1, <2>8, <2>9, TopOf
    <2>11. PICK Q : Q = WithTop(p, s)  OBVIOUS
    <2>12. takeName(P, name) = Q
        BY <1>2, <1>6, <2>4, <2>5, <2>10, <2>11 DEF takeName
    <2>13. s \in State /\ s.st = top.st /\ s.ptr = top.ptr /\ s.mem = 0
        BY <1>3, <2>4 DEF State
    <2>14. IsParser(Q) /\ Like(p, Q) /\ SameHeap(p, Q) /\ Stacked(p, Q, n, s)
        BY <2>8, <2>10, <2>11, <2>13, WithTopOp
    <2>15. Like(P, Q) /\ Stacked(P, Q, n, s)  BY <2>9, <2>14 DEF Like, Stacked
    <2>16. Path(Q) /\ SamePath(P, Q)
        BY <1>1, <2>13, <2>15, PathKept DEF Good, Healthy
    <2>17. PICK gone : gone = top.mem  OBVIOUS
    <2>18. Alive(Q) = Alive(P) \ {gone}
        BY <2>7, <2>8, <2>14, <2>17 DEF SameHeap, Alive, Leaked
    <2>19. Apart(P, n, gone)
        <3>1. n + 1 \in 1..n + 1 /\ \A i \in 1..n : i \in 1..n + 1 /\ i # n + 1  OBVIOUS
        <3>2. \A i, j \in 1..n + 1 : P.stack[i].mem # 0 =>
                P.stack[j].ptr # P.stack[i].mem /\ (i # j => P.stack[j].mem # P.stack[i].mem)
            BY DEF Good, Healthy, Owned, Waiting
        <3> QED  BY <1>1, <1>6, <2>17, <3>1, <3>2 DEF Apart
    <2>20. s.ptr \in Alive(Q) \cup {0} /\ s.mem \in Alive(Q) \cup {0}
        BY <1>3, <1>6, <2>13, <2>17, <2>18
    <2>21. s.st = P.stack[n + 1].st /\ s.ptr = P.stack[n + 1].ptr
        BY <1>1, <2>13
    <2>22. Alive(P) \ {gone} \subseteq Alive(Q)  BY <2>18
    <2>23. Owned(Q)
        BY <2>13, <2>15, <2>19, <2>20, <2>21, <2>22, OwnedKept DEF Good, Healthy
    <2>24. ~Q.doubleFree  BY <2>7, <2>8, <2>14 DEF SameHeap, Good, Healthy
    <2> QED  BY <2>12, <2>14, <2>15, <2>16, <2>23, <2>24 DEF Result, Good, Healthy
<1> QED  BY <1>4, <1>5, <1>6

-----------------------------------------------------------------------------
(***************************************************************************)
(* The callbacks of expat.                                                 *)
(***************************************************************************)
LEMMA NewState ==
    ASSUME NEW st \in StateNames
    PROVE  /\ ValueState(st) \in State
           /\ ValueState(st).st = st /\ ValueState(st).ptr = 0 /\ ValueState(st).mem = 0
<1>1. <<>> \in Texts  BY DEF Texts
<1>2. "eUnknown" \in StateNames  BY DEF StateNames
<1> QED  BY <1>1, <1>2 DEF ValueState, State

LEMMA NewMemberState ==
    ASSUME NEW ptr \in Nat
    PROVE  /\ MemberState(ptr) \in State
           /\ MemberState(ptr).st = "eMember" /\ MemberState(ptr).ptr = ptr
           /\ MemberState(ptr).mem = 0
<1>1. "eMember" \in StateNames  BY DEF StateNames
<1>2. PICK s : s = ValueState("eMember")  OBVIOUS
<1>3. s \in State /\ s.st = "eMember" /\ s.mem = 0  BY <1>1, <1>2, NewState
<1>4. MemberState(ptr) = [s EXCEPT !.ptr = ptr]  BY <1>2 DEF MemberState
<1> QED  BY <1>3, <1>4 DEF State

LEMMA KindOf == ASSUME NEW P, IsParser(P) PROVE P.kind \in Kinds
BY DEF IsParser, Kinds

LEMMA Pushes ==
    ASSUME NEW P, Good(P), NEW n \in Nat, Len(P.stack) = n + 1, NEW s \in State,
           \E o \in Opens(P.kind) : o[1] = P.stack[n + 1].st /\ o[3] = s.st,
           s.mem = 0,
           (s.st # "eMember" /\ s.ptr = 0)
             \/ (s.st = "eMember" /\ s.ptr = P.stack[n + 1].ptr /\ s.ptr # 0)
    PROVE  LET Q == Push(P, s)
           IN  Good(Q) /\ Like(P, Q) /\ SameHeap(P, Q) /\ Stacked(P, Q, n + 1, s)
<1> DEFINE Q == Push(P, s)
<1>1. PICK m \in Nat : m = n + 1  OBVIOUS
<1>2. PICK top : top = P.stack[m]  OBVIOUS
<1>3. IsParser(Q) /\ Like(P, Q) /\ SameHeap(P, Q) /\ Stacked(P, Q, m, s)
    BY <1>1, PushOp DEF Good
<1> HIDE DEF Q
<1>4. Len(Q.stack) = m + 1 /\ (\A i \in 1..m : Q.stack[i] = P.stack[i]) /\ Q.stack[m + 1] = s
    BY <1>3 DEF Stacked
<1>5. \A i \in 1..m + 1 : i \in 1..m \/ i = m + 1  OBVIOUS
<1>6. Alive(Q) = Alive(P)  BY <1>3 DEF SameHeap, Alive, Leaked
<1>7. Len(P.stack) = m /\ m \in 1..m /\ m >= 1  BY <1>1
<1>8. PICK o \in Opens(P.kind) : o[1] = top.st /\ o[3] = s.st  BY <1>1, <1>2
<1>9. s.st = "eMember" => top.st = "eStruct"
    <2>1. LegalStep(o)  BY <1>8, KindOf, OpensFacts DEF Good
    <2> QED  BY <1>8, <2>1 DEF LegalStep, LegalPair
<1>10. Path(Q)
    <2>1. Q.stack[1].st = "eNone"
        <3>1. 1 \in 1..m  BY <1>7
        <3>2. P.stack[1].st = "eNone"  BY DEF Good, Healthy, Path
        <3> QED  BY <1>4, <3>1, <3>2
    <2>2. ASSUME NEW i \in 2..m + 1
          PROVE  /\ \E q \in Opens(Q.kind) : q[1] = Q.stack[i - 1].st /\ q[3] = Q.stack[i].st
                 /\ Q.stack[i].st = "eMember" =>
                      Q.stack[i].ptr = Q.stack[i - 1].ptr /\ Q.stack[i].ptr # 0
        <3>0. Q.kind = P.kind  BY <1>3 DEF Like
        <3>1. CASE i = m + 1
            <4>1. Q.stack[i] = s /\ Q.stack[i - 1] = top
                <5>1. i - 1 = m  BY <3>1
                <5> QED  BY <1>2, <1>4, <1>7, <3>1, <5>1
            <4>2. s.st = "eMember" => s.ptr = top.ptr /\ s.ptr # 0  BY <1>1, <1>2
            <4> QED  BY <1>8, <3>0, <4>1, <4>2
        <3>2. CASE i # m + 1
            <4>1. i \in 2..m /\ i \in 1..m /\ i - 1 \in 1..m  BY <3>2
            <4>2. Q.stack[i] = P.stack[i] /\ Q.stack[i - 1] = P.stack[i - 1]  BY <1>4, <4>1
            <4>3. /\ \E q \in Opens(P.kind) : q[1] = P.stack[i - 1].st /\ q[3] = P.stack[i].st
                  /\ P.stack[i].st = "eMember" =>
                       P.stack[i].ptr = P.stack[i - 1].ptr /\ P.stack[i].ptr # 0
                BY <1>7, <4>1 DEF Good, Healthy, Path
            <4> QED  BY <3>0, <4>2, <4>3
        <3> QED  BY <3>1, <3>2
    <2> QED  BY <1>4, <2>1, <2>2 DEF Path
<1>11. top.ptr \in Alive(P) \cup {0}
    BY <1>1, <1>2, TopFacts
<1>12. s.ptr = 0 \/ (s.ptr = top.ptr /\ s.st = "eMember")  BY <1>1, <1>2
<1>13. Pointing(Q)
    <2>1. ASSUME NEW i \in 1..m
          PROVE  /\ Q.stack[i].ptr \in Alive(Q) \cup {0}
                 /\ Q.stack[i].mem \in Alive(Q) \cup {0}
                 /\ Q.stack[i].mem # 0 => Q.stack[i].st = "eMember"
        BY <1>4, <1>6, <1>7 DEF Good, Healthy, Owned, Pointing
    <2> QED  BY <1>4, <1>5, <1>6, <1>11, <1>12, <2>1 DEF Pointing
<1>14. Shared(Q)
    <2> SUFFICES ASSUME NEW i \in 1..m + 1, NEW j \in 1..m + 1, i < j,
                        Q.stack[i].ptr = Q.stack[j].ptr, Q.stack[i].ptr # 0
                 PROVE  j = i + 1 /\ Q.stack[j].st = "eMember"
        BY <1>4 DEF Shared
    <2>1. i \in 1..m  BY <1>7
    <2>0. \A a, b \in 1..m : a < b /\ P.stack[a].ptr = P.stack[b].ptr /\ P.stack[a].ptr # 0
            => b = a + 1 /\ P.stack[b].st = "eMember"
        BY <1>7 DEF Good, Healthy, Owned, Shared
    <2>2. CASE j \in 1..m
        <3>1. Q.stack[i] = P.stack[i] /\ Q.stack[j] = P.stack[j]  BY <1>4, <2>1, <2>2
        <3> QED  BY <2>0, <2>1, <2>2, <3>1
    <2>3. CASE j = m + 1
        <3>1. Q.stack[i] = P.stack[i] /\ Q.stack[j] = s  BY <1>4, <2>1, <2>3
        <3>2. s.st = "eMember" /\ P.stack[i].ptr = top.ptr /\ P.stack[i].ptr # 0
            BY <1>12, <3>1
        <3>3. top.st = "eStruct"  BY <1>9, <3>2
        <3>4. i = m
            <4>1. CASE i # m
                <5>1. i < m  BY <2>1, <4>1
                <5>2. top.st = "eMember"  BY <1>2, <1>7, <2>0, <2>1, <3>2, <5>1
                <5> QED  BY <3>3, <5>2
            <4> QED  BY <4>1
        <3> QED  BY <2>3, <3>1, <3>2, <3>4
    <2> QED  BY <1>5, <2>2, <2>3
<1>15. Waiting(Q)
    <2> SUFFICES ASSUME NEW i \in 1..m + 1, NEW j \in 1..m + 1, Q.stack[i].mem # 0
                 PROVE  /\ Q.stack[j].ptr # Q.stack[i].mem
                        /\ i # j => Q.stack[j].mem # Q.stack[i].mem
        BY <1>4 DEF Waiting
    <2>0. \A a, b \in 1..m :
            P.stack[a].mem # 0 =>
                P.stack[b].ptr # P.stack[a].mem /\ (a # b => P.stack[b].mem # P.stack[a].mem)
        BY <1>7 DEF Good, Healthy, Owned, Waiting
    <2>1. i \in 1..m /\ Q.stack[i] = P.stack[i]  BY <1>4, <1>5
    <2>2. CASE j \in 1..m
        <3>1. Q.stack[j] = P.stack[j]  BY <1>4, <2>2
        <3> QED  BY <2>0, <2>1, <2>2, <3>1
    <2>3. CASE j = m + 1
        <3>1. Q.stack[j] = s  BY <1>4, <2>3
        <3>2. top.ptr # P.stack[i].mem  BY <1>2, <1>7, <2>0, <2>1
        <3> QED  BY <1>12, <2>1, <3>1, <3>2
    <2> QED  BY <1>5, <2>2, <2>3
<1>16. ~Q.doubleFree  BY <1>3 DEF SameHeap, Good, Healthy
<1> QED
    BY <1>1, <1>3, <1>10, <1>13, <1>14, <1>15, <1>16 DEF Good, Healthy, Owned, Q

(* A change that touches neither the stack nor the heap. *)
LEMMA OtherFields ==
    ASSUME NEW P, NEW Q, Good(P), DOMAIN Q = Fields, Q.stack = P.stack, Q.heap = P.heap,
           Q.kind = P.kind, Q.doubleFree = P.doubleFree, Q.complete \in BOOLEAN,
           Q.ignored \in Nat, Q.thrown \in {"no", "XmlException", "RuntimeException"}
    PROVE  Good(Q) /\ Alive(Q) = Alive(P)
<1>1. IsParser(Q)  BY DEF IsParser, Good
<1>2. Alive(Q) = Alive(P)  BY DEF Alive, Leaked
<1>3. Path(Q)  BY DEF Path, Good, Healthy
<1>4. Owned(Q)  BY <1>2 DEF Owned, Pointing, Shared, Waiting, Good, Healthy
<1> QED  BY <1>1, <1>2, <1>3, <1>4 DEF Good, Healthy

LEMMA Throws ==
    ASSUME NEW P, Good(P), NEW what \in {"XmlException", "RuntimeException"}
    PROVE  LET Q == Throw(P, what)
           IN  Good(Q) /\ Q.kind = P.kind /\ Q.thrown = what
<1>1. DOMAIN P = Fields  BY DEF Good, IsParser
<1>2. PICK Q : Q = Throw(P, what)  OBVIOUS
<1>3. DOMAIN Q = Fields /\ Q.thrown = what /\ \A f \in Fields \ {"thrown"} : Q[f] = P[f]
    BY <1>1, <1>2 DEF Throw, Fields
<1>4. /\ Q.stack = P.stack /\ Q.heap = P.heap /\ Q.kind = P.kind
      /\ Q.doubleFree = P.doubleFree /\ Q.complete = P.complete /\ Q.ignored = P.ignored
    BY <1>3 DEF Fields
<1>5. Good(Q)  BY <1>3, <1>4, OtherFields DEF Good, IsParser
<1> QED  BY <1>2, <1>3, <1>4, <1>5

LEMMA Levels ==
    ASSUME NEW P, Good(P)
    PROVE  \E n \in Nat : Len(P.stack) = n + 1
<1>1. Len(P.stack) \in Nat /\ Len(P.stack) >= 1
    BY StackOps DEF Good, Healthy, Path
<1>2. Len(P.stack) - 1 \in Nat /\ Len(P.stack) = (Len(P.stack) - 1) + 1  BY <1>1
<1> QED  BY <1>2

LEMMA RootCall ==
    ASSUME NEW P, P.kind = "call"
    PROVE  RootSeen(P) <=> P.complete \/ (Len(P.stack) >= 2 /\ P.stack[2].st = "eMethodCall")
BY DEF RootSeen

LEMMA RootResponse ==
    ASSUME NEW P, P.kind = "response"
    PROVE  RootSeen(P) <=> P.complete \/ (Len(P.stack) >= 2 /\ P.stack[2].st = "eMethodResponse")
BY DEF RootSeen

LEMMA RootValue ==
    ASSUME NEW P, P.kind = "value" PROVE RootSeen(P) <=> ~P.complete
BY DEF RootSeen

(* The root stays seen as long as the stack only grows. *)
LEMMA RootKept ==
    ASSUME NEW P, NEW Q, P.kind \in Kinds, RootSeen(P), Q.kind = P.kind,
           Q.complete = P.complete, Len(P.stack) \in Nat, Len(Q.stack) \in Nat,
           Len(Q.stack) >= Len(P.stack),
           \A i \in 1..Len(P.stack) : Q.stack[i].st = P.stack[i].st
    PROVE  RootSeen(Q)
<1>1. Len(P.stack) >= 2 => Q.stack[2].st = P.stack[2].st /\ Len(Q.stack) >= 2  OBVIOUS
<1>2. CASE P.kind = "call"
    <2>1. P.complete \/ (Len(P.stack) >= 2 /\ P.stack[2].st = "eMethodCall")
        BY <1>2 DEF RootSeen
    <2>2. Q.complete \/ (Len(Q.stack) >= 2 /\ Q.stack[2].st = "eMethodCall")
        BY <1>1, <2>1
    <2> QED  BY <1>2, <2>2 DEF RootSeen
<1>3. CASE P.kind = "response"
    <2>1. P.complete \/ (Len(P.stack) >= 2 /\ P.stack[2].st = "eMethodResponse")
        BY <1>3 DEF RootSeen
    <2>2. Q.complete \/ (Len(Q.stack) >= 2 /\ Q.stack[2].st = "eMethodResponse")
        BY <1>1, <2>1
    <2> QED  BY <1>3, <2>2 DEF RootSeen
<1>4. CASE P.kind = "value"
    <2>1. ~P.complete  BY <1>4 DEF RootSeen
    <2> QED  BY <1>4, <2>1 DEF RootSeen
<1> QED  BY <1>2, <1>3, <1>4 DEF Kinds

(* What startElement does, unless it throws. *)
Begun(P, Q) ==
    /\ Good(Q) /\ Q.kind = P.kind
    /\ Q.thrown = P.thrown => Depth(Q) = Depth(P) + 1 /\ (RootSeen(P) => RootSeen(Q))

LEMMA PushBegins ==
    ASSUME NEW P, Good(P), NEW n \in Nat, Len(P.stack) = n + 1,
           NEW Q, NEW s, Good(Q), Like(P, Q), Stacked(P, Q, n + 1, s)
    PROVE  Begun(P, Q)
<1>1. P.ignored \in Nat /\ P.kind \in Kinds  BY KindOf DEF Good, IsParser
<1>2. Depth(Q) = Depth(P) + 1
    <2>1. Len(Q.stack) = n + 2 /\ Q.ignored = P.ignored  BY DEF Stacked, Like
    <2>2. Depth(Q) = (n + 2) - 1 + P.ignored /\ Depth(P) = (n + 1) - 1 + P.ignored
        BY <2>1 DEF Depth
    <2> QED  BY <1>1, <2>2
<1>3. ASSUME RootSeen(P) PROVE RootSeen(Q)
    <2>1. Len(Q.stack) = n + 2 /\ \A i \in 1..n + 1 : Q.stack[i] = P.stack[i]  BY DEF Stacked
    <2>2. Q.kind = P.kind /\ Q.complete = P.complete  BY DEF Like
    <2> QED  BY <1>1, <1>3, <2>1, <2>2, RootKept
<1> QED  BY <1>2, <1>3 DEF Begun, Like

LEMMA MemberBegins ==
    ASSUME NEW P, Good(P), NEW n \in Nat, Len(P.stack) = n + 1,
           \E o \in Opens(P.kind) : o[1] = P.stack[n + 1].st /\ o[3] = "eMember"
    PROVE  Begun(P, NewMember(P))
<1>1. PICK top : top = P.stack[n + 1]  OBVIOUS
<1>2. getTopState(P) = top  BY <1>1, TopOf DEF Good
<1>3. PICK o \in Opens(P.kind) : o[1] = top.st /\ o[3] = "eMember"  BY <1>1
<1>4. top.st = "eStruct"
    <2>1. LegalStep(o)  BY KindOf, OpensFacts DEF Good
    <2> QED  BY <1>3, <2>1 DEF LegalStep, LegalPair
<1>5. PICK r : r = New(P, Struct(<<>>))  OBVIOUS
<1>6. PICK x : x = NewPtr(P)  OBVIOUS
<1>0. PICK del \in BOOLEAN : del = FALSE  OBVIOUS
<1>7. PICK p : p = IF top.ptr = 0 THEN takeValue(r, x, del) ELSE P  OBVIOUS
<1>8. NewMember(P) = Push(p, MemberState(getTopState(p).ptr))
    BY <1>0, <1>2, <1>5, <1>6, <1>7 DEF NewMember
<1>9. Result(P, p) /\ p.stack[n + 1].ptr # 0 /\ p.stack[n + 1].ptr \in Nat
      /\ \A i \in 1..n + 1 : p.stack[i].st = P.stack[i].st
    <2>1. CASE top.ptr # 0
        <3>1. p = P  BY <1>7, <2>1
        <3>2. Result(P, P)  BY DEF Result, Like, SamePath
        <3>3. top \in State  BY <1>1, TopFacts
        <3>4. top.ptr \in Nat  BY <3>3 DEF State
        <3> QED  BY <1>1, <2>1, <3>1, <3>2, <3>4
    <2>2. CASE top.ptr = 0
        <3>1. /\ Result(P, r) /\ SameStack(P, r) /\ x # 0 /\ x \in Nat
              /\ x \in Alive(r) /\ Apart(r, n + 1, x)
            BY <1>5, <1>6, NewChanges
        <3>2. Good(r) /\ Len(r.stack) = n + 1 /\ r.stack[n + 1] = top
            BY <1>1, <3>1 DEF Result, SameStack
        <3>3. getTopState(r) = top  BY <3>2, TopOf DEF Good
        <3>4. p = StateTakesValue(r, x, del)
            BY <1>4, <1>7, <2>2, <3>3 DEF takeValue
        <3>5. r.stack[n + 1].st # "eMember"  BY <1>4, <3>2
        <3>6. Free(r, n, x)
            <4>1. Free(r, n + 1, x)  BY <3>1 DEF Free
            <4> QED  BY <3>2, <4>1, FreeLess
        <3>7. Result(r, p) /\ p.stack[n + 1].ptr = x
            BY <3>2, <3>4, <3>5, <3>6, StateTakes
        <3>8. Result(P, p)  BY <3>1, <3>7, ResultTwice
        <3> QED  BY <3>1, <3>7, <3>8 DEF Result, SamePath
    <2> QED  BY <2>1, <2>2
<1>10. Good(p) /\ Len(p.stack) = n + 1 /\ Like(P, p)  BY <1>9 DEF Result, SamePath
<1>11. PICK s : s = MemberState(p.stack[n + 1].ptr)  OBVIOUS
<1>12. s \in State /\ s.st = "eMember" /\ s.ptr = p.stack[n + 1].ptr /\ s.mem = 0
    BY <1>9, <1>11, NewMemberState
<1>13. NewMember(P) = Push(p, s)
    <2>1. getTopState(p) = p.stack[n + 1]  BY <1>10, TopOf DEF Good
    <2> QED  BY <1>8, <1>11, <2>1
<1>14. n + 1 \in 1..n + 1 /\ p.kind = P.kind  BY <1>10 DEF Like
<1>15. o[1] = p.stack[n + 1].st /\ o[3] = s.st /\ o \in Opens(p.kind)
    BY <1>1, <1>3, <1>9, <1>12, <1>14
<1>16. PICK Q : Q = Push(p, s)  OBVIOUS
<1>17. Good(Q) /\ Like(p, Q) /\ Stacked(p, Q, n + 1, s)
    BY <1>9, <1>10, <1>12, <1>15, <1>16, Pushes
<1>18. Begun(p, Q)  BY <1>10, <1>17, PushBegins
<1>19. Depth(p) = Depth(P) /\ p.thrown = P.thrown  BY <1>10 DEF Depth, Like
<1>20. RootSeen(P) => RootSeen(p)
    <2>1. P.kind \in Kinds  BY KindOf DEF Good
    <2>2. p.complete = P.complete /\ p.kind = P.kind  BY <1>10 DEF Like
    <2> QED  BY <1>9, <1>10, <2>1, <2>2, RootKept
<1> QED  BY <1>13, <1>14, <1>16, <1>18, <1>19, <1>20 DEF Begun

LEMMA RootBegins ==
    ASSUME NEW P, Good(P), NEW n \in Nat, Len(P.stack) = n + 1,
           NEW new \in {"eMethodCall", "eMethodResponse"},
           \E o \in Opens(P.kind) : o[1] = P.stack[n + 1].st /\ o[3] = new
    PROVE  LET Q == Push([P EXCEPT !.complete = FALSE], ValueState(new))
           IN  Begun(P, Q) /\ (P.kind \in {"call", "response"} => RootSeen(Q))
<1>1. PICK o \in Opens(P.kind) : o[1] = P.stack[n + 1].st /\ o[3] = new  OBVIOUS
<1>2. LegalStep(o) /\ (new = "eMethodCall" => P.kind = "call")
      /\ (new = "eMethodResponse" => P.kind = "response")
    BY <1>1, KindOf, OpensFacts DEF Good
<1>3. P.stack[n + 1].st = "eNone" /\ new \in StateNames
    BY <1>1, <1>2 DEF LegalStep, LegalPair
<1>4. n = 0
    <2>1. CASE n # 0
        <3>1. n + 1 \in 2..n + 1  BY <2>1
        <3>2. PICK q \in Opens(P.kind) : q[3] = P.stack[n + 1].st
            BY <3>1 DEF Good, Healthy, Path
        <3>3. LegalStep(q)  BY KindOf, OpensFacts DEF Good
        <3> QED  BY <1>3, <3>2, <3>3 DEF LegalStep, LegalPair
    <2> QED  BY <2>1
<1>5. PICK p : p = [P EXCEPT !.complete = FALSE]  OBVIOUS
<1>6. DOMAIN P = Fields /\ P.ignored \in Nat
      /\ P.thrown \in {"no", "XmlException", "RuntimeException"}
    BY DEF Good, IsParser
<1>7. DOMAIN p = Fields /\ p.complete = FALSE /\ \A f \in Fields \ {"complete"} : p[f] = P[f]
    BY <1>5, <1>6 DEF Fields
<1>8. /\ p.stack = P.stack /\ p.heap = P.heap /\ p.kind = P.kind
      /\ p.doubleFree = P.doubleFree /\ p.thrown = P.thrown /\ p.ignored = P.ignored
    BY <1>7 DEF Fields
<1>9. Good(p)  BY <1>6, <1>7, <1>8, OtherFields
<1>10. PICK s : s = ValueState(new)  OBVIOUS
<1>11. s \in State /\ s.st = new /\ s.ptr = 0 /\ s.mem = 0  BY <1>3, <1>10, NewState
<1>12. PICK Q : Q = Push(p, s)  OBVIOUS
<1>13. Good(Q) /\ Like(p, Q) /\ Stacked(p, Q, n + 1, s)
    BY <1>1, <1>8, <1>9, <1>11, <1>12, Pushes
<1>14. Len(Q.stack) = 2 /\ Q.stack[2].st = new
    BY <1>4, <1>11, <1>13 DEF Stacked
<1>15. Depth(Q) = Depth(P) + 1 /\ Q.thrown = P.thrown /\ Q.kind = P.kind
    BY <1>4, <1>6, <1>8, <1>13, <1>14 DEF Like, Depth
<1>16. RootSeen(Q)
    <2>1. CASE new = "eMethodCall"
        <3>1. Q.kind = "call" /\ Q.stack[2].st = "eMethodCall" /\ Len(Q.stack) >= 2
            BY <1>2, <1>14, <1>15, <2>1
        <3> QED  BY <3>1, RootCall
    <2>2. CASE new = "eMethodResponse"
        <3>1. Q.kind = "response" /\ Q.stack[2].st = "eMethodResponse" /\ Len(Q.stack) >= 2
            BY <1>2, <1>14, <1>15, <2>2
        <3> QED  BY <3>1, RootResponse
    <2> QED  BY <2>1, <2>2
<1> QED  BY <1>5, <1>10, <1>12, <1>13, <1>15, <1>16 DEF Begun

LEMMA IgnoredBegins ==
    ASSUME NEW P, Good(P)
    PROVE  Begun(P, [P EXCEPT !.ignored = @ + 1])
<1>1. PICK n \in Nat : Len(P.stack) = n + 1  BY Levels
<1>2. /\ P.kind \in Kinds /\ P.ignored \in Nat /\ DOMAIN P = Fields
      /\ P.thrown \in {"no", "XmlException", "RuntimeException"} /\ P.complete \in BOOLEAN
    BY KindOf DEF Good, IsParser
<1>3. PICK Q : Q = [P EXCEPT !.ignored = P.ignored + 1]  OBVIOUS
<1>4. DOMAIN Q = Fields /\ Q.ignored = P.ignored + 1
      /\ \A f \in Fields \ {"ignored"} : Q[f] = P[f]
    BY <1>2, <1>3 DEF Fields
<1>5. /\ Q.stack = P.stack /\ Q.heap = P.heap /\ Q.kind = P.kind
      /\ Q.doubleFree = P.doubleFree /\ Q.thrown = P.thrown /\ Q.complete = P.complete
    BY <1>4 DEF Fields
<1>6. Good(Q)
    <2>1. Q.ignored \in Nat  BY <1>2, <1>4
    <2> QED  BY <1>2, <1>4, <1>5, <2>1, OtherFields
<1>7. Depth(Q) = Depth(P) + 1
    <2>1. Depth(Q) = (n + 1) - 1 + (P.ignored + 1) /\ Depth(P) = (n + 1) - 1 + P.ignored
        BY <1>1, <1>4, <1>5 DEF Depth
    <2> QED  BY <1>2, <2>1
<1>8. RootSeen(P) => RootSeen(Q)
    <2>1. Len(Q.stack) \in Nat /\ Len(P.stack) \in Nat /\ Len(Q.stack) >= Len(P.stack)
        BY <1>1, <1>5
    <2>2. \A i \in 1..Len(P.stack) : Q.stack[i].st = P.stack[i].st  BY <1>5
    <2> QED  BY <1>2, <1>5, <2>1, <2>2, RootKept
<1> QED  BY <1>3, <1>5, <1>6, <1>7, <1>8 DEF Begun

LEMMA Starts ==
    ASSUME NEW P, Good(P), P.thrown = "no", NEW tag
    PROVE  Begun(P, startElement(P, tag))
<1>1. PICK n \in Nat : Len(P.stack) = n + 1  BY Levels
<1>2. PICK top : top = P.stack[n + 1]  OBVIOUS
<1>3. getTopState(P) = top  BY <1>1, <1>2, TopOf DEF Good
<1>4. PICK next : next = {o \in Opens(P.kind) : o[1] = top.st /\ o[2] = tag}  OBVIOUS
<1>5. PICK o : o = CHOOSE q \in next : TRUE  OBVIOUS
<1>6. PICK new : new = o[3]  OBVIOUS
<1>7. startElement(P, tag) =
        CASE next = {} /\ P.kind = "value" -> Throw(P, "XmlException")
          [] next = {} /\ P.kind # "value" -> [P EXCEPT !.ignored = @ + 1]
          [] next # {} /\ new = "eMember" -> NewMember(P)
          [] next # {} /\ new \in {"eMethodCall", "eMethodResponse"} ->
                Push([P EXCEPT !.complete = FALSE], ValueState(new))
          [] OTHER -> Push(P, ValueState(new))
    BY <1>3, <1>4, <1>5, <1>6, Zenon DEF startElement
<1>8. next # {} => o \in Opens(P.kind) /\ o[1] = top.st /\ o[3] = new
    BY <1>4, <1>5, <1>6
<1>9. CASE next = {} /\ P.kind = "value"
    <2>1. PICK Q : Q = Throw(P, "XmlException")  OBVIOUS
    <2>2. startElement(P, tag) = Q  BY <1>7, <1>9, <2>1
    <2>3. Good(Q) /\ Q.kind = P.kind /\ Q.thrown = "XmlException"  BY <2>1, Throws
    <2>4. Q.thrown # P.thrown  BY <2>3
    <2> QED  BY <2>2, <2>3, <2>4 DEF Begun
<1>10. CASE next = {} /\ P.kind # "value"
    <2>1. startElement(P, tag) = [P EXCEPT !.ignored = @ + 1]  BY <1>7, <1>10
    <2> QED  BY <2>1, IgnoredBegins
<1>11. CASE next # {} /\ new = "eMember"
    <2>1. startElement(P, tag) = NewMember(P)  BY <1>7, <1>11
    <2>2. \E q \in Opens(P.kind) : q[1] = P.stack[n + 1].st /\ q[3] = "eMember"
        BY <1>2, <1>8, <1>11
    <2> QED  BY <1>1, <2>1, <2>2, MemberBegins
<1>12. CASE next # {} /\ new \in {"eMethodCall", "eMethodResponse"}
    <2>1. startElement(P, tag) = Push([P EXCEPT !.complete = FALSE], ValueState(new))
        BY <1>7, <1>12
    <2>2. \E q \in Opens(P.kind) : q[1] = P.stack[n + 1].st /\ q[3] = new
        BY <1>2, <1>8, <1>12
    <2> QED  BY <1>1, <1>12, <2>1, <2>2, RootBegins
<1>13. CASE next # {} /\ new \notin {"eMember", "eMethodCall", "eMethodResponse"}
    <2>1. PICK s : s = ValueState(new)  OBVIOUS
    <2>2. PICK Q : Q = Push(P, s)  OBVIOUS
    <2>3. startElement(P, tag) = Q  BY <1>7, <1>13, <2>1, <2>2
    <2>4. new \in StateNames
        <3>1. LegalStep(o)  BY <1>8, <1>13, KindOf, OpensFacts DEF Good
        <3> QED  BY <1>6, <3>1 DEF LegalStep, LegalPair
    <2>5. s \in State /\ s.st = new /\ s.ptr = 0 /\ s.mem = 0  BY <2>1, <2>4, NewState
    <2>6. \E q \in Opens(P.kind) : q[1] = P.stack[n + 1].st /\ q[3] = s.st
        BY <1>2, <1>8, <1>13, <2>5
    <2>7. Good(Q) /\ Like(P, Q) /\ Stacked(P, Q, n + 1, s)
        BY <1>1, <1>13, <2>2, <2>5, <2>6, Pushes
    <2> QED  BY <1>1, <2>3, <2>7, PushBegins
<1> QED  BY <1>9, <1>10, <1>11, <1>12, <1>13

First(t, a) == t[1] = a
Tagged(o, b, c) == o[2] = b /\ o[3] = c

LEMMA TripleTagged ==
    ASSUME NEW a, NEW b, NEW c PROVE Tagged(<<a, b, c>>, b, c)
BY DEF Tagged

LEMMA ValueTags ==
    ASSUME NEW o \in ValueOpens PROVE o[2] # "methodCall" /\ o[2] # "methodResponse"
<1>1. CASE \E t \in Typed : o = <<"eValue", t[1], t[2]>>
    <2>1. PICK t \in Typed : o = <<"eValue", t[1], t[2]>>  BY <1>1
    <2>2. o[2] = t[1]  BY <2>1
    <2>3. \A a, b : First(<<a, b>>, a)  BY DEF First
    <2>4. \/ First(t, "array") \/ First(t, "struct") \/ First(t, "boolean")
          \/ First(t, "int") \/ First(t, "i4") \/ First(t, "double")
          \/ First(t, "string") \/ First(t, "base64") \/ First(t, "dateTime.iso8601")
        BY <2>3, Zenon DEF Typed
    <2>5. t[1] # "methodCall" /\ t[1] # "methodResponse"  BY <2>4 DEF First
    <2> QED  BY <2>2, <2>5
<1>2. CASE ~\E t \in Typed : o = <<"eValue", t[1], t[2]>>
    <2>1. \/ Tagged(o, "value", "eValue") \/ Tagged(o, "member", "eMember")
          \/ Tagged(o, "name", "eName") \/ Tagged(o, "data", "eData")
        BY <1>2, TripleTagged, Zenon DEF ValueOpens
    <2> QED  BY <2>1 DEF Tagged
<1> QED  BY <1>1, <1>2

LEMMA RootTags ==
    /\ \A o \in Opens("call") : o[2] = "methodCall" => o[3] = "eMethodCall"
    /\ \A o \in Opens("response") : o[2] = "methodResponse" => o[3] = "eMethodResponse"
    /\ \E o \in Opens("call") : o[1] = "eNone" /\ o[2] = "methodCall"
    /\ \E o \in Opens("response") : o[1] = "eNone" /\ o[2] = "methodResponse"
<1>1. Opens("call") = ValueOpens \cup CallOpens  BY DEF Opens
<1>2. Opens("response") = ValueOpens \cup ResponseOpens  BY DEF Opens
<1>3. ASSUME NEW o \in CallOpens, o[2] = "methodCall" PROVE o[3] = "eMethodCall"
    <2>1. \/ Tagged(o, "methodCall", "eMethodCall") \/ Tagged(o, "methodName", "eMethodName")
          \/ Tagged(o, "params", "eParams") \/ Tagged(o, "param", "eParam")
          \/ Tagged(o, "value", "eValue")
        BY TripleTagged, Zenon DEF CallOpens
    <2> QED  BY <1>3, <2>1 DEF Tagged
<1>4. ASSUME NEW o \in ResponseOpens, o[2] = "methodResponse" PROVE o[3] = "eMethodResponse"
    <2>1. \/ Tagged(o, "methodResponse", "eMethodResponse") \/ Tagged(o, "fault", "eFault")
          \/ Tagged(o, "params", "eParams") \/ Tagged(o, "param", "eParam")
          \/ Tagged(o, "value", "eValue")
        BY TripleTagged, Zenon DEF ResponseOpens
    <2> QED  BY <1>4, <2>1 DEF Tagged
<1>5. PICK c : c = <<"eNone", "methodCall", "eMethodCall">>  OBVIOUS
<1>6. PICK r : r = <<"eNone", "methodResponse", "eMethodResponse">>  OBVIOUS
<1>7. c \in CallOpens  BY <1>5, Zenon DEF CallOpens
<1>8. r \in ResponseOpens  BY <1>6, Zenon DEF ResponseOpens
<1>9. c[1] = "eNone" /\ c[2] = "methodCall"  BY <1>5
<1>10. r[1] = "eNone" /\ r[2] = "methodResponse"  BY <1>6
<1>11. ASSUME NEW o \in Opens("call"), o[2] = "methodCall" PROVE o[3] = "eMethodCall"
    BY <1>1, <1>3, <1>11, ValueTags
<1>12. ASSUME NEW o \in Opens("response"), o[2] = "methodResponse"
       PROVE  o[3] = "eMethodResponse"
    BY <1>2, <1>4, <1>12, ValueTags
<1>13. \E o \in Opens("call") : o[1] = "eNone" /\ o[2] = "methodCall"  BY <1>1, <1>7, <1>9
<1>14. \E o \in Opens("response") : o[1] = "eNone" /\ o[2] = "methodResponse"
    BY <1>2, <1>8, <1>10
<1> QED  BY <1>11, <1>12, <1>13, <1>14

(* The first tag of a call or response opens its root. *)
LEMMA StartsRoot ==
    ASSUME NEW P, NEW kind \in Kinds, P = Parser(kind), Good(P),
           startElement(P, RootTag(kind)).thrown = "no"
    PROVE  RootSeen(startElement(P, RootTag(kind)))
<1>1. P.kind = kind /\ P.complete = FALSE /\ P.thrown = "no"
      /\ P.stack = <<ValueState("eNone")>>
    BY DEF Parser
<1>2. P.stack[1] = ValueState("eNone") /\ Len(P.stack) = 0 + 1  BY <1>1
<1>3. P.stack[1].st = "eNone"  BY <1>2 DEF ValueState
<1>4. getTopState(P) = P.stack[1]
    <2>1. PICK m \in Nat : m = 0  OBVIOUS
    <2>2. Len(P.stack) = m + 1 /\ m + 1 = 1  BY <1>2, <2>1
    <2>3. getTopState(P) = P.stack[m + 1]  BY <2>2, TopOf DEF Good
    <2> QED  BY <2>2, <2>3
<1>5. CASE kind = "value"
    <2>1. RootSeen(P)  BY <1>1, <1>5, RootValue
    <2>2. Begun(P, startElement(P, RootTag(kind)))  BY <1>1, Starts
    <2> QED  BY <1>1, <2>1, <2>2 DEF Begun
<1> DEFINE Root(new) ==
             /\ new \in {"eMethodCall", "eMethodResponse"}
             /\ \E o \in Opens(kind) : o[1] = "eNone" /\ o[2] = RootTag(kind)
             /\ \A o \in Opens(kind) : o[2] = RootTag(kind) => o[3] = new
<1>6. ASSUME NEW new, Root(new), kind \in {"call", "response"}
      PROVE  RootSeen(startElement(P, RootTag(kind)))
    <2>1. PICK tag : tag = RootTag(kind)  OBVIOUS
    <2>2. PICK next : next = {o \in Opens(P.kind) : o[1] = getTopState(P).st /\ o[2] = tag}
        OBVIOUS
    <2>3. PICK o : o = CHOOSE q \in next : TRUE  OBVIOUS
    <2>4. next # {} /\ (\A q \in next : q \in Opens(kind) /\ q[1] = "eNone" /\ q[3] = new)
        BY <1>1, <1>3, <1>4, <1>6, <2>1, <2>2
    <2>5. o \in next  BY <2>3, <2>4
    <2>6. o[3] = new /\ o \in Opens(kind) /\ o[1] = "eNone"  BY <2>4, <2>5
    <2>7. new \in {"eMethodCall", "eMethodResponse"} /\ new # "eMember"  BY <1>6
    <2>8. startElement(P, tag) =
            CASE next = {} /\ P.kind = "value" -> Throw(P, "XmlException")
              [] next = {} /\ P.kind # "value" -> [P EXCEPT !.ignored = @ + 1]
              [] next # {} /\ o[3] = "eMember" -> NewMember(P)
              [] next # {} /\ o[3] \in {"eMethodCall", "eMethodResponse"} ->
                    Push([P EXCEPT !.complete = FALSE], ValueState(o[3]))
              [] OTHER -> Push(P, ValueState(o[3]))
        BY <2>2, <2>3, Zenon DEF startElement
    <2>9. startElement(P, tag) = Push([P EXCEPT !.complete = FALSE], ValueState(new))
        BY <2>4, <2>6, <2>7, <2>8
    <2>10. \E q \in Opens(P.kind) : q[1] = P.stack[0 + 1].st /\ q[3] = new
        BY <1>1, <1>3, <2>6
    <2>11. RootSeen(Push([P EXCEPT !.complete = FALSE], ValueState(new)))
        BY <1>1, <1>2, <1>6, <2>7, <2>10, RootBegins
    <2> QED  BY <2>1, <2>9, <2>11
<1>7. CASE kind = "call"
    <2>1. RootTag(kind) = "methodCall"  BY <1>7 DEF RootTag
    <2>2. Root("eMethodCall")  BY <1>7, <2>1, RootTags
    <2> QED  BY <1>6, <1>7, <2>2
<1>8. CASE kind = "response"
    <2>1. RootTag(kind) = "methodResponse"  BY <1>8 DEF RootTag
    <2>2. Root("eMethodResponse")  BY <1>8, <2>1, RootTags
    <2> QED  BY <1>6, <1>8, <2>2
<1> QED  BY <1>5, <1>7, <1>8 DEF Kinds

LEMMA Reads ==
    ASSUME NEW P, Good(P), NEW text \in Texts
    PROVE  Result(P, charData(P, text))
<1>1. PICK n \in Nat : Len(P.stack) = n + 1  BY Levels
<1>2. PICK top : top = P.stack[n + 1]  OBVIOUS
<1>3. getTopState(P) = top  BY <1>1, <1>2, TopOf DEF Good
<1>4. top \in State /\ (top.mem # 0 => top.st = "eMember" /\ top.mem # top.ptr)
    BY <1>1, <1>2, TopFacts
<1>5. PICK t : t = top.cdata \o text  OBVIOUS
<1>6. t \in Texts
    <2>1. top.cdata \in Texts  BY <1>4 DEF State
    <2> QED  BY <1>5, <2>1, ConcatProperties DEF Texts
<1>7. PICK s : s = [top EXCEPT !.cdata = t]  OBVIOUS
<1>8. s \in State /\ s.st = top.st /\ s.ptr = top.ptr /\ s.mem = top.mem
    BY <1>4, <1>6, <1>7 DEF State
<1>9. Result(P, WithTop(P, s))  BY <1>1, <1>2, <1>4, <1>8, TopChanges
<1>10. charData(P, text) = WithTop(P, s)  BY <1>3, <1>5, <1>7 DEF charData
<1> QED  BY <1>9, <1>10

(***************************************************************************)
(* Closing tags.                                                           *)
(***************************************************************************)
(* Q is P without the state on top; the root of a response may be closed. *)
PoppedOf(P) == [P EXCEPT !.stack = Front(@),
                         !.complete = @ \/ getTopState(P).st = "eMethodResponse"]

(* Q has one state less than P, and knows of the root if P did. *)
Ended(P, Q, n) ==
    /\ Good(Q) /\ Q.kind = P.kind /\ Q.ignored = P.ignored /\ Q.thrown = P.thrown
    /\ Len(Q.stack) = n + 1
    /\ \A i \in 1..n + 1 : Q.stack[i].st = P.stack[i].st
    /\ P.complete \/ P.stack[n + 2].st = "eMethodResponse" => Q.complete
    /\ P.kind = "value" => Q.complete = (P.complete \/ P.stack[n + 2].st = "eMethodResponse")

LEMMA EndedLike ==
    ASSUME NEW P, NEW Q, NEW R, NEW n \in Nat, Ended(P, Q, n), Result(Q, R)
    PROVE  Ended(P, R, n)
BY DEF Ended, Result, Like, SamePath

LEMMA Pops ==
    ASSUME NEW P, Good(P), NEW n \in Nat, Len(P.stack) = n + 2
    PROVE  LET Q == PoppedOf(P)
               curr == P.stack[n + 2]
           IN  /\ Ended(P, Q, n)
               /\ curr \in State
               /\ \/ Free(Q, n + 1, curr.ptr)
                  \/ /\ curr.st = "eMember" /\ curr.ptr = Q.stack[n + 1].ptr
                     /\ Q.stack[n + 1].st = "eStruct"
<1>1. PICK m \in Nat : m = n + 1  OBVIOUS
<1>2. PICK curr : curr = P.stack[m + 1]  OBVIOUS
<1>3. Len(P.stack) = m + 1 /\ m >= 1 /\ m \in 1..m /\ m + 1 = n + 2 /\ m + 1 \in 1..m + 1
      /\ \A i \in 1..m : i \in 1..m + 1
    BY <1>1
<1>4. getTopState(P) = curr /\ curr \in State  BY <1>2, <1>3, TopOf DEF Good
<1>5. /\ P.stack \in Seq(State) /\ DOMAIN P = Fields /\ P.complete \in BOOLEAN
    BY DEF Good, IsParser
<1>6. PICK t : t = Front(P.stack)  OBVIOUS
<1>7. t \in Seq(State) /\ Len(t) = m /\ \A i \in 1..m : t[i] = P.stack[i]
    BY <1>3, <1>5, <1>6, FrontOf
<1>8. PICK c \in BOOLEAN : c = (P.complete \/ curr.st = "eMethodResponse")  OBVIOUS
<1>9. PICK Q : Q = PoppedOf(P)  OBVIOUS
<1>10. Q = [P EXCEPT !.stack = t, !.complete = c]
    BY <1>4, <1>6, <1>8, <1>9 DEF PoppedOf
<1>11. DOMAIN Q = Fields /\ Q.stack = t /\ Q.complete = c
       /\ \A f \in Fields \ {"stack", "complete"} : Q[f] = P[f]
    BY <1>5, <1>10 DEF Fields
<1>12. /\ Q.heap = P.heap /\ Q.kind = P.kind /\ Q.ignored = P.ignored
       /\ Q.doubleFree = P.doubleFree /\ Q.thrown = P.thrown
    BY <1>11 DEF Fields
<1>13. IsParser(Q)  BY <1>7, <1>11, <1>12 DEF Good, IsParser
<1>14. Alive(Q) = Alive(P)  BY <1>12 DEF Alive, Leaked
<1>15. Len(Q.stack) = m /\ \A i \in 1..m : Q.stack[i] = P.stack[i]  BY <1>7, <1>11
<1>16. Path(Q)
    <2>1. Q.stack[1].st = "eNone"
        <3>1. 1 \in 1..m  BY <1>3
        <3>2. P.stack[1].st = "eNone"  BY DEF Good, Healthy, Path
        <3> QED  BY <1>15, <3>1, <3>2
    <2>2. ASSUME NEW i \in 2..m
          PROVE  /\ \E q \in Opens(Q.kind) : q[1] = Q.stack[i - 1].st /\ q[3] = Q.stack[i].st
                 /\ Q.stack[i].st = "eMember" =>
                      Q.stack[i].ptr = Q.stack[i - 1].ptr /\ Q.stack[i].ptr # 0
        <3>1. i \in 2..m + 1 /\ i \in 1..m /\ i - 1 \in 1..m  OBVIOUS
        <3>2. Q.stack[i] = P.stack[i] /\ Q.stack[i - 1] = P.stack[i - 1]  BY <1>15, <3>1
        <3>3. /\ \E q \in Opens(P.kind) : q[1] = P.stack[i - 1].st /\ q[3] = P.stack[i].st
              /\ P.stack[i].st = "eMember" =>
                   P.stack[i].ptr = P.stack[i - 1].ptr /\ P.stack[i].ptr # 0
            BY <1>3, <3>1 DEF Good, Healthy, Path
        <3> QED  BY <1>12, <3>2, <3>3
    <2> QED  BY <1>3, <1>15, <2>1, <2>2 DEF Path
<1>17. Pointing(Q)
    BY <1>3, <1>14, <1>15 DEF Good, Healthy, Owned, Pointing
<1>18. Shared(Q)
    <2>1. \A a, b \in 1..m : a < b /\ P.stack[a].ptr = P.stack[b].ptr /\ P.stack[a].ptr # 0
            => b = a + 1 /\ P.stack[b].st = "eMember"
        BY <1>3 DEF Good, Healthy, Owned, Shared
    <2> QED  BY <1>15, <2>1 DEF Shared
<1>19. \A a, b \in 1..m + 1 :
           P.stack[a].mem # 0 =>
               P.stack[b].ptr # P.stack[a].mem /\ (a # b => P.stack[b].mem # P.stack[a].mem)
    BY <1>3 DEF Good, Healthy, Owned, Waiting
<1>20. Waiting(Q)
    <2>1. \A a, b \in 1..m :
           P.stack[a].mem # 0 =>
               P.stack[b].ptr # P.stack[a].mem /\ (a # b => P.stack[b].mem # P.stack[a].mem)
        BY <1>3, <1>19
    <2> QED  BY <1>15, <2>1 DEF Waiting
<1>21. Good(Q)
    BY <1>12, <1>13, <1>16, <1>17, <1>18, <1>20 DEF Good, Healthy, Owned
<1>22. Ended(P, Q, n)
    <2>1. \A i \in 1..n + 1 : Q.stack[i].st = P.stack[i].st  BY <1>1, <1>15
    <2>2. P.complete \/ P.stack[n + 2].st = "eMethodResponse" => Q.complete
        BY <1>2, <1>3, <1>8, <1>11
    <2>3. Q.complete = (P.complete \/ P.stack[n + 2].st = "eMethodResponse")
        BY <1>2, <1>3, <1>8, <1>11
    <2> QED  BY <1>1, <1>12, <1>15, <1>21, <2>1, <2>2, <2>3 DEF Ended
<1>23. CASE curr.ptr = 0
    BY <1>2, <1>3, <1>4, <1>9, <1>22, <1>23 DEF Free
<1>24. CASE curr.ptr # 0 /\ curr.st = "eMember"
    <2>1. m + 1 \in 2..m + 1 /\ (m + 1) - 1 = m  BY <1>3
    <2>2. \E o \in Opens(P.kind) : o[1] = P.stack[m].st /\ o[3] = curr.st
        BY <1>2, <1>3, <2>1 DEF Good, Healthy, Path
    <2>3. curr.ptr = P.stack[m].ptr
        BY <1>2, <1>3, <1>24, <2>1 DEF Good, Healthy, Path
    <2>4. P.stack[m].st = "eStruct"
        <3>1. PICK o \in Opens(P.kind) : o[1] = P.stack[m].st /\ o[3] = curr.st  BY <2>2
        <3>2. LegalStep(o)  BY KindOf, OpensFacts DEF Good
        <3> QED  BY <1>24, <3>1, <3>2 DEF LegalStep, LegalPair
    <2>5. Q.stack[m] = P.stack[m]  BY <1>3, <1>15
    <2> QED  BY <1>1, <1>2, <1>4, <1>9, <1>22, <1>24, <2>3, <2>4, <2>5
<1>25. CASE curr.ptr # 0 /\ curr.st # "eMember"
    <2>1. curr.ptr \in Alive(P)
        BY <1>2, <1>3, <1>25 DEF Good, Healthy, Owned, Pointing
    <2>2. ASSUME NEW i \in 1..m PROVE P.stack[i].ptr # curr.ptr
        <3>1. i < m + 1 /\ i \in 1..m + 1  BY <1>3
        <3>2. P.stack[i].ptr = P.stack[m + 1].ptr /\ P.stack[i].ptr # 0
                => P.stack[m + 1].st = "eMember"
            BY <1>3, <3>1 DEF Good, Healthy, Owned, Shared
        <3> QED  BY <1>2, <1>25, <3>2
    <2>3. ASSUME NEW i \in 1..m PROVE P.stack[i].mem # curr.ptr
        BY <1>2, <1>3, <1>19, <1>25
    <2>4. Free(Q, m, curr.ptr)  BY <1>14, <1>15, <2>1, <2>2, <2>3 DEF Free, Apart
    <2> QED  BY <1>1, <1>2, <1>4, <1>9, <1>22, <2>4
<1> QED  BY <1>23, <1>24, <1>25

LEMMA ValueEnds ==
    ASSUME NEW P, Good(P), NEW n \in Nat, Len(P.stack) = n + 1, NEW curr \in State,
           \/ Free(P, n + 1, curr.ptr)
           \/ /\ curr.st = "eMember" /\ curr.ptr = P.stack[n + 1].ptr
              /\ P.stack[n + 1].st = "eStruct"
    PROVE  Result(P, ValueEnd(P, curr))
<1>1. PICK top : top = P.stack[n + 1]  OBVIOUS
<1>2. getTopState(P) = top  BY <1>1, TopOf DEF Good
<1>3. top \in State /\ (top.mem # 0 => top.st = "eMember" /\ top.mem # top.ptr)
    BY <1>1, TopFacts
<1>4. PICK s : s = [top EXCEPT !.prev = curr.st]  OBVIOUS
<1>5. s \in State /\ s.st = top.st /\ s.ptr = top.ptr /\ s.mem = top.mem
    BY <1>3, <1>4 DEF State
<1>6. PICK p : p = WithTop(P, s)  OBVIOUS
<1>7. Result(P, p) /\ SameHeap(P, p) /\ Stacked(P, p, n, s)
    BY <1>1, <1>3, <1>5, <1>6, TopChanges
<1>8. Good(p) /\ Len(p.stack) = n + 1 /\ p.stack[n + 1] = s
    BY <1>7 DEF Result, Stacked
<1>9. \/ Free(p, n + 1, curr.ptr)
      \/ /\ curr.st = "eMember" /\ curr.ptr = p.stack[n + 1].ptr
         /\ p.stack[n + 1].st = "eStruct"
    <2>1. Alive(p) = Alive(P)  BY <1>7 DEF SameHeap, Alive, Leaked
    <2>2. ASSUME NEW i \in 1..n + 1
          PROVE  p.stack[i].ptr = P.stack[i].ptr /\ p.stack[i].mem = P.stack[i].mem
        <3>1. i \in 1..n \/ i = n + 1  OBVIOUS
        <3> QED  BY <1>1, <1>5, <1>7, <3>1 DEF Stacked
    <2>3. Free(P, n + 1, curr.ptr) => Free(p, n + 1, curr.ptr)
        BY <2>1, <2>2 DEF Free, Apart
    <2> QED  BY <1>1, <1>5, <1>8, <2>3
<1>10. ValueEnd(P, curr) =
         CASE curr.st \in {"eBoolean", "eInt", "eI4", "eDouble", "eString", "eBase64", "eDate"} ->
                takeNew(p, ScalarValue(curr))
          [] curr.st = "eName" -> takeName(p, curr.cdata)
          [] curr.st = "eValue" /\ curr.ptr = 0 -> takeNew(p, DefaultValue(curr))
          [] OTHER -> takeValue(p, curr.ptr, TRUE)
    BY <1>2, <1>4, <1>6, Zenon DEF ValueEnd
<1>11. Result(p, takeNew(p, ScalarValue(curr)))  BY <1>8, TakesNew
<1>12. Result(p, takeNew(p, DefaultValue(curr)))  BY <1>8, TakesNew
<1>13. Result(p, takeName(p, curr.cdata))
    <2>1. curr.cdata \in Texts  BY DEF State
    <2> QED  BY <1>8, <2>1, TakesName
<1>14. Result(p, takeValue(p, curr.ptr, TRUE))
    <2>1. PICK del \in BOOLEAN : del = TRUE  OBVIOUS
    <2>2. Free(p, n + 1, curr.ptr)
            \/ (curr.ptr = p.stack[n + 1].ptr /\ p.stack[n + 1].st \notin {"eMember", "eData"})
        BY <1>9
    <2>3. Result(p, takeValue(p, curr.ptr, del))  BY <1>8, <2>2, Takes
    <2> QED  BY <2>1, <2>3
<1>15. Result(p, ValueEnd(P, curr))
    <2>1. PICK r : r = ValueEnd(P, curr)  OBVIOUS
    <2>2. \/ r = takeNew(p, ScalarValue(curr)) \/ r = takeName(p, curr.cdata)
          \/ r = takeNew(p, DefaultValue(curr)) \/ r = takeValue(p, curr.ptr, TRUE)
        BY <1>10, <2>1
    <2> QED  BY <1>11, <1>12, <1>13, <1>14, <2>1, <2>2, Zenon
<1> QED  BY <1>7, <1>15, ResultTwice

(* What a call or a response has been given is none of the parser's heap. *)
LEMMA GivenKept ==
    ASSUME NEW P, Good(P), NEW Q, DOMAIN Q = Fields,
           \A f \in Fields \ {"call", "mvalue"} : Q[f] = P[f]
    PROVE  Result(P, Q) /\ SameStack(P, Q) /\ Alive(Q) = Alive(P)
<1>1. /\ Q.stack = P.stack /\ Q.heap = P.heap /\ Q.kind = P.kind
      /\ Q.doubleFree = P.doubleFree /\ Q.complete = P.complete
      /\ Q.ignored = P.ignored /\ Q.thrown = P.thrown
    BY DEF Fields
<1>2. /\ P.complete \in BOOLEAN /\ P.ignored \in Nat
      /\ P.thrown \in {"no", "XmlException", "RuntimeException"}
    BY DEF Good, IsParser
<1>3. Good(Q) /\ Alive(Q) = Alive(P)  BY <1>1, <1>2, OtherFields
<1> QED  BY <1>1, <1>3 DEF Result, Like, SamePath, SameStack

LEMMA ParamEnds ==
    ASSUME NEW P, Good(P), NEW n \in Nat, Len(P.stack) = n + 1, NEW curr,
           Free(P, n + 1, curr.ptr)
    PROVE  Result(P, ParamEnd(P, curr))
<1>1. CASE curr.ptr = 0
    <2>1. ParamEnd(P, curr) = P  BY <1>1 DEF ParamEnd
    <2> QED  BY <2>1 DEF Result, Like, SamePath
<1>2. CASE curr.ptr # 0
    <2>1. PICK x : x = curr.ptr  OBVIOUS
    <2>2. PICK c : c = addParam(P.call, Deref(P, x))  OBVIOUS
    <2>3. PICK R : R = [P EXCEPT !.call = c]  OBVIOUS
    <2>4. PICK Q : Q = Delete(R, x)  OBVIOUS
    <2>5. ParamEnd(P, curr) = Q  BY <1>2, <2>1, <2>2, <2>3, <2>4 DEF ParamEnd
    <2>6. DOMAIN P = Fields  BY DEF Good, IsParser
    <2>7. DOMAIN R = Fields /\ \A f \in Fields \ {"call", "mvalue"} : R[f] = P[f]
        BY <2>3, <2>6 DEF Fields
    <2>8. Result(P, R) /\ SameStack(P, R) /\ Alive(R) = Alive(P)  BY <2>7, GivenKept
    <2>9. Good(R) /\ Len(R.stack) = n + 1 /\ x \in Alive(R) /\ Apart(R, n + 1, x)
        BY <1>2, <2>1, <2>8 DEF Result, SameStack, Free, Apart
    <2>10. IsParser(Q) /\ SameStack(R, Q) /\ Q.doubleFree = R.doubleFree
           /\ Alive(Q) = Alive(R) \ {x}
        BY <2>4, <2>9, DeleteOp DEF Good
    <2>11. Alive(R) \ {x} \subseteq Alive(Q)  BY <2>10
    <2>12. Result(R, Q)  BY <2>9, <2>10, <2>11, HeapChanges
    <2> QED  BY <2>5, <2>8, <2>12, ResultTwice
<1> QED  BY <1>1, <1>2

(* R is P without the state on top. *)
LEMMA CallEndsWell ==
    ASSUME NEW P, NEW R, NEW n \in Nat, Ended(P, R, n), P.kind = "call", NEW curr,
           curr.st \in {"eMethodCall", "eMethodName", "eParams", "eParam"},
           Free(R, n + 1, curr.ptr)
    PROVE  /\ Ended(P, CallEnd(R, curr), n)
           /\ curr.st = "eMethodCall" => CallEnd(R, curr).complete
<1>1. Good(R) /\ Len(R.stack) = n + 1 /\ R.kind = P.kind /\ R.ignored = P.ignored
      /\ R.thrown = P.thrown
    BY DEF Ended
<1>2. DOMAIN R = Fields  BY <1>1 DEF Good, IsParser
<1>3. CASE curr.st = "eMethodName"
    <2>1. PICK c : c = [R.call EXCEPT !.name = curr.cdata]  OBVIOUS
    <2>2. PICK Q : Q = [R EXCEPT !.call.name = curr.cdata]  OBVIOUS
    <2>3. Q = [R EXCEPT !.call = c]  BY <2>1, <2>2
    <2>4. DOMAIN Q = Fields /\ \A f \in Fields \ {"call", "mvalue"} : Q[f] = R[f]
        BY <1>2, <2>3 DEF Fields
    <2>5. Result(R, Q)  BY <1>1, <2>4, GivenKept
    <2>6. CallEnd(R, curr) = Q  BY <1>3, <2>2 DEF CallEnd
    <2> QED  BY <1>3, <2>5, <2>6, EndedLike
<1>4. CASE curr.st = "eParams"
    <2>1. CallEnd(R, curr) = R  BY <1>4 DEF CallEnd
    <2> QED  BY <1>4, <2>1
<1>5. CASE curr.st = "eParam"
    <2>1. CallEnd(R, curr) = ParamEnd(R, curr)  BY <1>5 DEF CallEnd
    <2>2. Result(R, ParamEnd(R, curr))  BY <1>1, ParamEnds
    <2> QED  BY <1>5, <2>1, <2>2, EndedLike
<1>6. CASE curr.st = "eMethodCall"
    <2>1. PICK Q : Q = [R EXCEPT !.complete = TRUE]  OBVIOUS
    <2>2. CallEnd(R, curr) = Q  BY <1>6, <2>1 DEF CallEnd
    <2>3. DOMAIN Q = Fields /\ Q.complete = TRUE /\ \A f \in Fields \ {"complete"} : Q[f] = R[f]
        BY <1>2, <2>1 DEF Fields
    <2>4. /\ Q.stack = R.stack /\ Q.heap = R.heap /\ Q.kind = R.kind
          /\ Q.doubleFree = R.doubleFree /\ Q.ignored = R.ignored /\ Q.thrown = R.thrown
        BY <2>3 DEF Fields
    <2>5. Q.ignored \in Nat /\ Q.thrown \in {"no", "XmlException", "RuntimeException"}
        BY <1>1, <2>4 DEF Good, IsParser
    <2>6. Good(Q)  BY <1>1, <2>3, <2>4, <2>5, OtherFields
    <2>7. P.kind # "value"  OBVIOUS
    <2> QED  BY <2>2, <2>3, <2>4, <2>6, <2>7 DEF Ended
<1> QED  BY <1>3, <1>4, <1>5, <1>6

LEMMA ResponseEndsWell ==
    ASSUME NEW P, NEW R, NEW n \in Nat, Ended(P, R, n), NEW curr, Free(R, n + 1, curr.ptr)
    PROVE  Ended(P, ResponseEnd(R, curr), n)
<1>1. Good(R) /\ Len(R.stack) = n + 1  BY DEF Ended
<1>2. PICK x : x = curr.ptr  OBVIOUS
<1>3. PICK del \in BOOLEAN : del = TRUE  OBVIOUS
<1>4. PICK p : p = takeValue(R, x, del)  OBVIOUS
<1>5. Result(R, p)  BY <1>1, <1>2, <1>4, Takes
<1>6. Ended(P, p, n)  BY <1>5, EndedLike
<1>7. CASE curr.st = "eMethodResponse" /\ x # 0
    <2>1. PICK v : v = Deref(p, x)  OBVIOUS
    <2>2. PICK Q : Q = [p EXCEPT !.mvalue = v]  OBVIOUS
    <2>3. ResponseEnd(R, curr) = Q
        BY <1>2, <1>3, <1>4, <1>7, <2>1, <2>2 DEF ResponseEnd
    <2>4. DOMAIN p = Fields  BY <1>5 DEF Result, Good, IsParser
    <2>5. DOMAIN Q = Fields /\ \A f \in Fields \ {"call", "mvalue"} : Q[f] = p[f]
        BY <2>2, <2>4 DEF Fields
    <2>6. Result(p, Q)  BY <1>5, <2>5, GivenKept DEF Result
    <2> QED  BY <1>6, <2>3, <2>6, EndedLike
<1>8. CASE ~(curr.st = "eMethodResponse" /\ x # 0)
    <2>1. ResponseEnd(R, curr) = p  BY <1>2, <1>3, <1>4, <1>8 DEF ResponseEnd
    <2> QED  BY <1>6, <2>1
<1> QED  BY <1>7, <1>8

(* The root that P has seen, or that the closing tag has closed. *)
LEMMA EndedRoot ==
    ASSUME NEW P, NEW Q, NEW n \in Nat, Good(P), Len(P.stack) = n + 2, Ended(P, Q, n),
           P.kind = "call" /\ P.stack[n + 2].st = "eMethodCall" => Q.complete,
           RootSeen(P)
    PROVE  RootSeen(Q)
<1>1. Q.kind = P.kind /\ Len(Q.stack) = n + 1
      /\ (\A i \in 1..n + 1 : Q.stack[i].st = P.stack[i].st)
      /\ (P.complete \/ P.stack[n + 2].st = "eMethodResponse" => Q.complete)
    BY DEF Ended
<1>2. PICK second : second = P.stack[2].st  OBVIOUS
<1>3. n = 0 \/ (Len(Q.stack) >= 2 /\ Q.stack[2].st = second)
    <2>1. CASE n # 0
        <3>1. 2 \in 1..n + 1 /\ n + 1 >= 2  BY <2>1
        <3> QED  BY <1>1, <1>2, <3>1
    <2> QED  BY <2>1
<1>4. n = 0 => P.stack[n + 2].st = second  BY <1>2
<1>5. CASE P.kind = "call"
    <2>1. P.complete \/ second = "eMethodCall"  BY <1>2, <1>5, RootCall
    <2>2. P.stack[n + 2].st = "eMethodCall" => Q.complete  BY <1>5
    <2>3. Q.complete \/ (Len(Q.stack) >= 2 /\ Q.stack[2].st = "eMethodCall")
        BY <1>1, <1>3, <1>4, <2>1, <2>2
    <2>4. Q.kind = "call"  BY <1>1, <1>5
    <2> QED  BY <2>3, <2>4, RootCall
<1>6. CASE P.kind = "response"
    <2>1. P.complete \/ second = "eMethodResponse"  BY <1>2, <1>6, RootResponse
    <2>2. Q.complete \/ (Len(Q.stack) >= 2 /\ Q.stack[2].st = "eMethodResponse")
        BY <1>1, <1>3, <1>4, <2>1
    <2>3. Q.kind = "response"  BY <1>1, <1>6
    <2> QED  BY <2>2, <2>3, RootResponse
<1>7. CASE P.kind = "value"
    <2>1. ~P.complete  BY <1>7, RootValue
    <2>2. n + 2 \in 2..n + 2 /\ (n + 2) - 1 = n + 1  OBVIOUS
    <2>3. PICK o \in Opens(P.kind) : o[3] = P.stack[n + 2].st
        BY <2>2 DEF Good, Healthy, Path
    <2>4. o[3] = "eMethodResponse" => P.kind = "response"  BY KindOf, OpensFacts DEF Good
    <2>5. P.stack[n + 2].st # "eMethodResponse"  BY <1>7, <2>3, <2>4
    <2>6. Q.complete = (P.complete \/ P.stack[n + 2].st = "eMethodResponse")
        BY <1>7 DEF Ended
    <2>7. ~Q.complete  BY <2>1, <2>5, <2>6
    <2>8. Q.kind = "value"  BY <1>1, <1>7
    <2> QED  BY <2>7, <2>8, RootValue
<1>8. P.kind \in Kinds  BY KindOf DEF Good
<1> QED  BY <1>5, <1>6, <1>7, <1>8 DEF Kinds

(* What endElement does, unless it throws. *)
Finished(P, Q) ==
    /\ Good(Q) /\ Q.kind = P.kind
    /\ Q.thrown = P.thrown => Depth(Q) + 1 = Depth(P) /\ (RootSeen(P) => RootSeen(Q))

LEMMA EndedFinished ==
    ASSUME NEW P, NEW Q, NEW n \in Nat, Good(P), Len(P.stack) = n + 2, Ended(P, Q, n),
           P.kind = "call" /\ P.stack[n + 2].st = "eMethodCall" => Q.complete
    PROVE  Finished(P, Q)
<1>1. RootSeen(P) => RootSeen(Q)  BY EndedRoot
<1>2. P.ignored \in Nat  BY DEF Good, IsParser
<1>3. Depth(Q) = (n + 1) - 1 + P.ignored /\ Depth(P) = (n + 2) - 1 + P.ignored
    BY DEF Depth, Ended
<1>4. Depth(Q) + 1 = Depth(P)  BY <1>2, <1>3
<1> QED  BY <1>1, <1>4 DEF Finished, Ended

LEMMA Finishes ==
    ASSUME NEW P, Good(P), P.thrown = "no", NEW tag
    PROVE  Finished(P, endElement(P, tag))
<1>1. PICK k \in Nat : Len(P.stack) = k + 1  BY Levels
<1>2. CASE k = 0
    <2>1. PICK Q : Q = Throw(P, "RuntimeException")  OBVIOUS
    <2>2. Len(P.stack) <= 1  BY <1>1, <1>2
    <2>3. endElement(P, tag) = Q  BY <2>1, <2>2 DEF endElement
    <2>4. Good(Q) /\ Q.kind = P.kind /\ Q.thrown = "RuntimeException"  BY <2>1, Throws
    <2>5. Q.thrown # P.thrown  BY <2>4
    <2> QED  BY <2>3, <2>4, <2>5 DEF Finished
<1>3. CASE k # 0
    <2>1. PICK n \in Nat : k = n + 1
        <3>1. k - 1 \in Nat /\ k = (k - 1) + 1  BY <1>3
        <3> QED  BY <3>1
    <2>2. Len(P.stack) = n + 2 /\ ~(Len(P.stack) <= 1) /\ Len(P.stack) > 1  BY <1>1, <2>1
    <2>3. PICK curr : curr = P.stack[n + 2]  OBVIOUS
    <2>4. getTopState(P) = curr
        <3>1. k + 1 = n + 2  BY <2>1
        <3>2. getTopState(P) = P.stack[k + 1]  BY <1>1, TopOf DEF Good
        <3> QED  BY <2>3, <3>1, <3>2
    <2>5. PICK R : R = PoppedOf(P)  OBVIOUS
    <2>6. /\ Ended(P, R, n) /\ curr \in State
          /\ \/ Free(R, n + 1, curr.ptr)
             \/ /\ curr.st = "eMember" /\ curr.ptr = R.stack[n + 1].ptr
                /\ R.stack[n + 1].st = "eStruct"
        BY <2>2, <2>3, <2>5, Pops
    <2>7. R = [P EXCEPT !.stack = Front(@), !.complete = @ \/ curr.st = "eMethodResponse"]
        BY <2>4, <2>5 DEF PoppedOf
    <2>8. Good(R) /\ Len(R.stack) = n + 1 /\ R.kind = P.kind /\ R.thrown = P.thrown
        BY <2>6 DEF Ended
    <2>9. PICK Q : Q = endElement(P, tag)  OBVIOUS
    <2>10. Q = CASE Len(P.stack) <= 1 -> Throw(P, "RuntimeException")
                 [] Len(P.stack) > 1 /\ tag # ExpectedTag(curr.st) -> Throw(R, "XmlException")
                 [] OTHER ->
                       CASE curr.st \in {o[3] : o \in CallOpens} \ {"eValue"} /\ P.kind = "call" ->
                               CallEnd(R, curr)
                         [] curr.st \in {o[3] : o \in ResponseOpens} \ {"eValue"}
                               /\ P.kind = "response" -> ResponseEnd(R, curr)
                         [] OTHER -> ValueEnd(R, curr)
        BY <2>4, <2>7, <2>9, Zenon DEF endElement
    <2>11. PICK ofCall : ofCall = {o[3] : o \in CallOpens} \ {"eValue"}  OBVIOUS
    <2>12. PICK ofResponse : ofResponse = {o[3] : o \in ResponseOpens} \ {"eValue"}  OBVIOUS
    <2>13. CASE tag # ExpectedTag(curr.st)
        <3>1. Q = Throw(R, "XmlException")  BY <2>2, <2>10, <2>13
        <3>2. Good(Q) /\ Q.kind = R.kind /\ Q.thrown = "XmlException"  BY <2>8, <3>1, Throws
        <3>3. Q.thrown # P.thrown  BY <3>2
        <3> QED  BY <2>8, <2>9, <3>2, <3>3 DEF Finished
    <2>14. CASE tag = ExpectedTag(curr.st)
        <3>1. Q = CASE curr.st \in ofCall /\ P.kind = "call" -> CallEnd(R, curr)
                    [] curr.st \in ofResponse /\ P.kind = "response" -> ResponseEnd(R, curr)
                    [] OTHER -> ValueEnd(R, curr)
            BY <2>2, <2>10, <2>11, <2>12, <2>14
        <3>2. CASE curr.st \in ofCall /\ P.kind = "call"
            <4>1. Q = CallEnd(R, curr)  BY <3>1, <3>2
            <4>2. curr.st \in {"eMethodCall", "eMethodName", "eParams", "eParam"}
                BY <2>11, <3>2, CallEnds
            <4>3. Free(R, n + 1, curr.ptr)  BY <2>6, <4>2
            <4>4. Ended(P, Q, n) /\ (curr.st = "eMethodCall" => Q.complete)
                BY <2>6, <3>2, <4>1, <4>2, <4>3, CallEndsWell
            <4> QED  BY <2>2, <2>3, <2>9, <4>4, EndedFinished
        <3>3. CASE curr.st \in ofResponse /\ P.kind = "response"
            <4>1. Q = ResponseEnd(R, curr)
                <5>1. P.kind # "call"  BY <3>3
                <5> QED  BY <3>1, <3>3, <5>1
            <4>2. curr.st \in {"eMethodResponse", "eFault", "eParams", "eParam"}
                BY <2>12, <3>3, ResponseEnds
            <4>3. Free(R, n + 1, curr.ptr)  BY <2>6, <4>2
            <4>4. Ended(P, Q, n)  BY <2>6, <4>1, <4>3, ResponseEndsWell
            <4>5. P.kind # "call"  BY <3>3
            <4> QED  BY <2>2, <2>9, <4>4, <4>5, EndedFinished
        <3>4. CASE ~(curr.st \in ofCall /\ P.kind = "call")
                   /\ ~(curr.st \in ofResponse /\ P.kind = "response")
            <4>1. Q = ValueEnd(R, curr)  BY <3>1, <3>4
            <4>2. Result(R, Q)  BY <2>6, <2>8, <4>1, ValueEnds
            <4>3. Ended(P, Q, n)  BY <2>6, <4>2, EndedLike
            <4>4. "eMethodCall" \in ofCall  BY <2>11, CallEndsRoot
            <4>5. ~(P.kind = "call" /\ curr.st = "eMethodCall")  BY <3>4, <4>4
            <4> QED  BY <2>2, <2>3, <2>9, <4>3, <4>5, EndedFinished
        <3> QED  BY <3>2, <3>3, <3>4
    <2> QED  BY <2>13, <2>14
<1> QED  BY <1>2, <1>3

-----------------------------------------------------------------------------
(***************************************************************************)
(* What is still to come, and how many tags of it open and close.          *)
(***************************************************************************)
IsToken(t) ==
    /\ DOMAIN t \in {{"open"}, {"close"}, {"chars"}}
    /\ "chars" \in DOMAIN t => t.chars \in Seq({"literal", "entity"} \X STRING)

IsInput(s) == (\E S : s \in Seq(S)) /\ \A i \in DOMAIN s : IsToken(s[i])

Marked(s, mark) == {i \in DOMAIN s : mark \in DOMAIN s[i]}
Marks(s, mark) == Cardinality(Marked(s, mark))

LEMMA ShiftedCount ==
    ASSUME NEW a \in Nat, NEW b \in Nat, NEW A \in SUBSET (1..a), NEW B \in SUBSET (1..b)
    PROVE  /\ Cardinality(A \cup {i + a : i \in B}) = Cardinality(A) + Cardinality(B)
           /\ Cardinality(A) \in Nat /\ Cardinality(B) \in Nat
<1> DEFINE T == {i + a : i \in B}
<1>1. IsFiniteSet(A) /\ IsFiniteSet(B)
    <2>1. IsFiniteSet(1..a) /\ IsFiniteSet(1..b)  BY FS_Interval
    <2> QED  BY <2>1, FS_Subset
<1>2. IsFiniteSet(T) /\ Cardinality(T) = Cardinality(B)
    <2> DEFINE f == [i \in B |-> i + a]
    <2>1. f \in Bijection(B, T)  BY DEF Bijection, Injection, IsInjective, Surjection
    <2>2. ExistsBijection(B, T)  BY <2>1 DEF ExistsBijection
    <2> QED  BY <1>1, <2>2, FS_Bijection
<1>3. A \cap T = {}
    <2>1. \A i \in T : i > a  OBVIOUS
    <2>2. \A i \in A : i <= a  OBVIOUS
    <2> HIDE DEF T
    <2>3. ASSUME NEW i \in A, i \in T PROVE FALSE  BY <2>1, <2>2, <2>3
    <2> QED  BY <2>3
<1> HIDE DEF T
<1>4. Cardinality(A \cup T) = Cardinality(A) + Cardinality(T) - Cardinality(A \cap T)
    BY <1>1, <1>2, FS_Union
<1>5. Cardinality(A \cap T) = 0  BY <1>3, FS_EmptySet
<1>6. Cardinality(A) \in Nat /\ Cardinality(B) \in Nat  BY <1>1, FS_CardinalityType
<1>7. Cardinality(A \cup T) = Cardinality(A) + Cardinality(B)  BY <1>2, <1>4, <1>5, <1>6
<1> QED  BY <1>6, <1>7 DEF T

LEMMA CountConcat ==
    ASSUME NEW s, NEW t, IsInput(s), IsInput(t), NEW mark
    PROVE  /\ IsInput(s \o t)
           /\ Marks(s \o t, mark) = Marks(s, mark) + Marks(t, mark)
           /\ Marks(s, mark) \in Nat /\ Marks(t, mark) \in Nat
<1>1. PICK S, T : s \in Seq(S) /\ t \in Seq(T)  BY DEF IsInput
<1>2. PICK U : U = S \cup T  OBVIOUS
<1>3. s \in Seq(U) /\ t \in Seq(U)
    <2>1. S \subseteq U /\ T \subseteq U  BY <1>2
    <2> QED  BY <1>1, <2>1, SeqMonotonic
<1>4. PICK a, b : a = Len(s) /\ b = Len(t)  OBVIOUS
<1>5. a \in Nat /\ b \in Nat /\ DOMAIN s = 1..a /\ DOMAIN t = 1..b
    BY <1>3, <1>4, LenProperties
<1>6. PICK c : c = s \o t  OBVIOUS
<1>7. c \in Seq(U) /\ Len(c) = a + b
      /\ \A i \in 1..a + b : c[i] = IF i <= a THEN s[i] ELSE t[i - a]
    BY <1>3, <1>4, <1>6, ConcatProperties
<1>8. DOMAIN c = 1..a + b  BY <1>7, LenProperties
<1>9. \A i \in 1..a + b : i \in 1..a \/ (i - a \in 1..b /\ i = (i - a) + a /\ ~(i <= a))
    BY <1>5
<1>10. \A i \in 1..a : i \in 1..a + b /\ i <= a  BY <1>5
<1>11. \A i \in 1..b : i + a \in 1..a + b /\ ~(i + a <= a) /\ (i + a) - a = i  BY <1>5
<1>12. IsInput(c)
    <2>1. ASSUME NEW i \in 1..a + b PROVE IsToken(c[i])
        <3>1. CASE i \in 1..a
            <4>1. c[i] = s[i]  BY <1>7, <1>10, <3>1
            <4>2. IsToken(s[i])  BY <1>5, <3>1 DEF IsInput
            <4> QED  BY <4>1, <4>2
        <3>2. CASE i - a \in 1..b /\ ~(i <= a)
            <4>1. c[i] = t[i - a]  BY <1>7, <3>2
            <4>2. IsToken(t[i - a])  BY <1>5, <3>2 DEF IsInput
            <4> QED  BY <4>1, <4>2
        <3> QED  BY <1>9, <3>1, <3>2
    <2> QED  BY <1>7, <1>8, <2>1 DEF IsInput
<1>13. Marked(c, mark) = Marked(s, mark) \cup {i + a : i \in Marked(t, mark)}
    <2>1. ASSUME NEW i \in Marked(c, mark)
          PROVE  i \in Marked(s, mark) \/ \E j \in Marked(t, mark) : i = j + a
        <3>0. i \in 1..a + b /\ mark \in DOMAIN c[i]  BY <1>8 DEF Marked
        <3>1. CASE i \in 1..a
            <4>1. c[i] = s[i]  BY <1>7, <1>10, <3>1
            <4> QED  BY <1>5, <3>0, <3>1, <4>1 DEF Marked
        <3>2. CASE i - a \in 1..b /\ i = (i - a) + a /\ ~(i <= a)
            <4>1. c[i] = t[i - a]  BY <1>7, <3>0, <3>2
            <4>2. i - a \in Marked(t, mark)  BY <1>5, <3>0, <3>2, <4>1 DEF Marked
            <4> QED  BY <3>2, <4>2
        <3> QED  BY <1>9, <3>0, <3>1, <3>2
    <2>2. ASSUME NEW i \in Marked(s, mark) PROVE i \in Marked(c, mark)
        BY <1>5, <1>7, <1>8, <1>10 DEF Marked
    <2>3. ASSUME NEW j \in Marked(t, mark) PROVE j + a \in Marked(c, mark)
        BY <1>5, <1>7, <1>8, <1>11 DEF Marked
    <2> QED  BY <2>1, <2>2, <2>3
<1>14. Marked(s, mark) \in SUBSET (1..a) /\ Marked(t, mark) \in SUBSET (1..b)
    BY <1>5 DEF Marked
<1>15. PICK A, B : A = Marked(s, mark) /\ B = Marked(t, mark)  OBVIOUS
<1>16. /\ Cardinality(A \cup {i + a : i \in B}) = Cardinality(A) + Cardinality(B)
       /\ Cardinality(A) \in Nat /\ Cardinality(B) \in Nat
    <2>1. a \in Nat /\ b \in Nat /\ A \in SUBSET (1..a) /\ B \in SUBSET (1..b)
        BY <1>5, <1>14, <1>15
    <2> QED  BY <2>1, ShiftedCount, Zenon
<1>17. Marked(c, mark) = A \cup {i + a : i \in B}  BY <1>13, <1>15
<1>18. Marks(c, mark) = Marks(s, mark) + Marks(t, mark)
       /\ Marks(s, mark) \in Nat /\ Marks(t, mark) \in Nat
    BY <1>15, <1>16, <1>17 DEF Marks
<1> QED  BY <1>6, <1>12, <1>18

LEMMA CountOne ==
    ASSUME NEW t, IsToken(t), NEW mark
    PROVE  /\ IsInput(<<t>>)
           /\ Marks(<<t>>, mark) = IF mark \in DOMAIN t THEN 1 ELSE 0
<1>1. PICK s : s = <<t>>  OBVIOUS
<1>2. s \in Seq({t}) /\ DOMAIN s = {1} /\ s[1] = t  BY <1>1
<1>3. IsInput(s)  BY <1>2 DEF IsInput
<1>4. CASE mark \in DOMAIN t
    <2>1. Marked(s, mark) = {1}  BY <1>2, <1>4 DEF Marked
    <2> QED  BY <1>1, <1>3, <1>4, <2>1, FS_Singleton DEF Marks
<1>5. CASE mark \notin DOMAIN t
    <2>1. Marked(s, mark) = {}  BY <1>2, <1>5 DEF Marked
    <2> QED  BY <1>1, <1>3, <1>5, <2>1, FS_EmptySet DEF Marks
<1> QED  BY <1>4, <1>5

LEMMA CountNone ==
    ASSUME NEW mark PROVE IsInput(<<>>) /\ Marks(<<>>, mark) = 0
<1>1. PICK s : s = <<>>  OBVIOUS
<1>2. s \in Seq({}) /\ DOMAIN s = {}  BY <1>1
<1>3. Marked(s, mark) = {}  BY <1>2 DEF Marked
<1> QED  BY <1>1, <1>2, <1>3, FS_EmptySet DEF IsInput, Marks

LEMMA CountTail ==
    ASSUME NEW s, IsInput(s), s # <<>>, NEW mark
    PROVE  /\ IsInput(Tail(s)) /\ IsToken(Head(s)) /\ Head(s) = s[1]
           /\ Marks(s, mark) = (IF mark \in DOMAIN Head(s) THEN 1 ELSE 0) + Marks(Tail(s), mark)
           /\ Marks(Tail(s), mark) \in Nat
<1>1. PICK S : s \in Seq(S)  BY DEF IsInput
<1>2. PICK h, t : h = Head(s) /\ t = Tail(s)  OBVIOUS
<1>3. t \in Seq(S) /\ Len(t) = Len(s) - 1 /\ \A i \in 1..Len(t) : t[i] = s[i + 1]
    BY <1>1, <1>2, HeadTailProperties
<1>4. Len(s) \in Nat \ {0}  BY <1>1, EmptySeq
<1>5. DOMAIN s = 1..Len(s) /\ DOMAIN t = 1..Len(t) /\ h = s[1]
    BY <1>1, <1>2, <1>3, LenProperties
<1>6. IsToken(h)
    <2>1. 1 \in DOMAIN s  BY <1>4, <1>5
    <2> QED  BY <1>5, <2>1 DEF IsInput
<1>7. IsInput(t)
    <2>1. ASSUME NEW i \in 1..Len(t) PROVE IsToken(t[i])
        <3>1. i + 1 \in DOMAIN s  BY <1>3, <1>4, <1>5
        <3> QED  BY <1>3, <3>1 DEF IsInput
    <2> QED  BY <1>3, <1>5, <2>1 DEF IsInput
<1>8. s = <<h>> \o t
    <2>1. <<h>> \in Seq({h}) /\ Len(<<h>>) = 1  OBVIOUS
    <2>2. PICK U : U = S \cup {h}  OBVIOUS
    <2>3. <<h>> \in Seq(U) /\ t \in Seq(U) /\ s \in Seq(U)
        <3>1. S \subseteq U /\ {h} \subseteq U  BY <2>2
        <3> QED  BY <1>1, <1>3, <2>1, <3>1, SeqMonotonic
    <2>4. PICK one : one = <<h>>  OBVIOUS
    <2>5. one \in Seq(U) /\ Len(one) = 1 /\ one[1] = h  BY <2>1, <2>3, <2>4
    <2>6. PICK c : c = one \o t  OBVIOUS
    <2>11. c \in Seq(U) /\ Len(c) = Len(one) + Len(t)
           /\ \A i \in 1..Len(one) + Len(t) :
                c[i] = IF i <= Len(one) THEN one[i] ELSE t[i - Len(one)]
        <3>1. one \in Seq(U) /\ t \in Seq(U)  BY <2>3, <2>5
        <3> QED  BY <2>6, <3>1, ConcatProperties
    <2>7. c \in Seq(U) /\ Len(c) = 1 + Len(t)
          /\ \A i \in 1..1 + Len(t) : c[i] = IF i <= 1 THEN one[i] ELSE t[i - 1]
        BY <2>5, <2>11
    <2>8. Len(c) = Len(s)  BY <1>3, <1>4, <2>7
    <2>9. ASSUME NEW i \in 1..Len(s) PROVE c[i] = s[i]
        <3>1. i \in 1..1 + Len(t)  BY <1>3, <1>4
        <3>2. CASE i = 1  BY <1>5, <2>5, <2>7, <3>1, <3>2
        <3>3. CASE i # 1
            <4>1. ~(i <= 1) /\ i - 1 \in 1..Len(t) /\ (i - 1) + 1 = i  BY <1>3, <1>4, <3>3
            <4> QED  BY <1>3, <2>7, <3>1, <4>1
        <3> QED  BY <3>2, <3>3
    <2>10. c = s  BY <2>3, <2>7, <2>8, <2>9, SeqEqual
    <2> QED  BY <2>4, <2>6, <2>10
<1>9. IsInput(<<h>>) /\ Marks(<<h>>, mark) = IF mark \in DOMAIN h THEN 1 ELSE 0
    BY <1>6, CountOne
<1>10. Marks(s, mark) = Marks(<<h>>, mark) + Marks(t, mark) /\ Marks(t, mark) \in Nat
    BY <1>7, <1>8, <1>9, CountConcat
<1> QED  BY <1>2, <1>5, <1>6, <1>7, <1>9, <1>10

-----------------------------------------------------------------------------
(***************************************************************************)
(* The destructor is a fold over the stack, a function defined by          *)
(* recursion on sets of positions.  That there is such a function, and     *)
(* what it keeps, is proved by induction on the number of positions.       *)
(***************************************************************************)
DeleteOf(s, p) == IF s.del THEN Delete(p, s.ptr) ELSE p
Destroys(g, P, D) ==
    g = [T \in D |-> IF T = {} THEN P ELSE DeleteOf(P.stack[Min(T)], g[T \ {Min(T)}])]
Deleted(P) == (CHOOSE g : Destroys(g, P, SUBSET DOMAIN P.stack))[DOMAIN P.stack]

LEMMA DestroyFolds ==
    ASSUME NEW P PROVE Destroy(P) = [Deleted(P) EXCEPT !.stack = <<>>]
BY DEF Destroy, Deleted, Destroys, DeleteOf, FoldRight, MapThenFoldSet

LEMMA NatMinimum ==
    ASSUME NEW T, T \subseteq Nat, T # {}
    PROVE  \E n \in T : \A m \in T : n <= m
<1> DEFINE R == OpToRel(<, Nat)
<1>1. PICK n \in T : \A m \in T : ~(<<m, n>> \in R)  BY NatLessThanWellFounded, WFMin
<1>2. \A x, y \in Nat : <<x, y>> \in R <=> x < y  BY DEF OpToRel
<1> HIDE DEF R
<1>3. ASSUME NEW m \in T PROVE n <= m
    <2>1. n \in Nat /\ m \in Nat /\ ~(m < n)  BY <1>1, <1>2
    <2> QED  BY <2>1
<1> QED  BY <1>3

LEMMA NatInd ==
    ASSUME NEW S, 0 \in S, \A n \in Nat : n \in S => n + 1 \in S
    PROVE  Nat \subseteq S
<1> SUFFICES ASSUME Nat \ S # {} PROVE FALSE  OBVIOUS
<1>1. PICK n \in Nat \ S : \A m \in Nat \ S : n <= m  BY NatMinimum
<1>2. n # 0 /\ n - 1 \in Nat  BY <1>1
<1>3. n - 1 \in S  BY <1>1, <1>2
<1> QED  BY <1>1, <1>2, <1>3

Small(D, n) == {T \in SUBSET D : Cardinality(T) <= n}

LEMMA SmallStep ==
    ASSUME NEW D, D \subseteq Nat, IsFiniteSet(D), NEW T \in SUBSET D, T # {}
    PROVE  /\ Min(T) \in T
           /\ T \ {Min(T)} \in SUBSET D
           /\ Cardinality(T \ {Min(T)}) = Cardinality(T) - 1
           /\ Cardinality(T) \in Nat \ {0}
<1>1. IsFiniteSet(T)  BY FS_Subset
<1>2. Min(T) \in T
    <2>1. \E n \in T : \A m \in T : n <= m  BY NatMinimum
    <2> QED  BY <2>1 DEF Min
<1>3. Cardinality(T \ {Min(T)}) = Cardinality(T) - 1  BY <1>1, <1>2, FS_RemoveElement
<1>4. Cardinality(T) \in Nat /\ Cardinality(T) # 0
    BY <1>1, FS_CardinalityType, FS_EmptySet
<1> QED  BY <1>2, <1>3, <1>4

LEMMA DestroysSome ==
    ASSUME NEW P, NEW D, D \subseteq Nat, IsFiniteSet(D), NEW n \in Nat
    PROVE  \E g : Destroys(g, P, Small(D, n))
<1> DEFINE S == {k \in Nat : \E g : Destroys(g, P, Small(D, k))}
<1>1. 0 \in S
    <2>1. Small(D, 0) = {{}}
        <3>1. ASSUME NEW T \in SUBSET D PROVE Cardinality(T) <= 0 <=> T = {}
            <4>1. IsFiniteSet(T)  BY FS_Subset
            <4>2. Cardinality(T) \in Nat  BY <4>1, FS_CardinalityType
            <4>3. Cardinality(T) = 0 <=> T = {}  BY <4>1, FS_EmptySet
            <4> QED  BY <4>2, <4>3
        <3> QED  BY <3>1 DEF Small
    <2> DEFINE g == [T \in {{}} |-> P]
    <2>2. Destroys(g, P, Small(D, 0))  BY <2>1 DEF Destroys
    <2> QED  BY <2>2
<1>2. ASSUME NEW k \in Nat, k \in S PROVE k + 1 \in S
    <2>1. PICK g : Destroys(g, P, Small(D, k))  BY <1>2
    <2> DEFINE h == [T \in Small(D, k + 1) |->
                       IF T = {} THEN P ELSE DeleteOf(P.stack[Min(T)], g[T \ {Min(T)}])]
    <2>2. ASSUME NEW T \in Small(D, k + 1), T # {} PROVE T \ {Min(T)} \in Small(D, k)
        <3>1. T \in SUBSET D /\ Cardinality(T) <= k + 1  BY DEF Small
        <3>2. PICK U : U = T \ {Min(T)}  OBVIOUS
        <3>3. /\ U \in SUBSET D /\ Cardinality(U) = Cardinality(T) - 1
              /\ Cardinality(T) \in Nat \ {0}
            BY <2>2, <3>1, <3>2, SmallStep
        <3>4. Cardinality(U) <= k  BY <3>1, <3>3
        <3> QED  BY <3>2, <3>3, <3>4 DEF Small
    <2>3. ASSUME NEW T \in Small(D, k) PROVE T \in Small(D, k + 1) /\ h[T] = g[T]
        <3>1. T \in Small(D, k + 1)
            <4>1. IsFiniteSet(T)  BY FS_Subset DEF Small
            <4>2. Cardinality(T) \in Nat  BY <4>1, FS_CardinalityType
            <4> QED  BY <4>2 DEF Small
        <3>2. g[T] = IF T = {} THEN P ELSE DeleteOf(P.stack[Min(T)], g[T \ {Min(T)}])
            BY <2>1 DEF Destroys
        <3> QED  BY <3>1, <3>2
    <2>4. ASSUME NEW T \in Small(D, k + 1)
          PROVE  h[T] = IF T = {} THEN P ELSE DeleteOf(P.stack[Min(T)], h[T \ {Min(T)}])
        BY <2>2, <2>3
    <2>5. Destroys(h, P, Small(D, k + 1))  BY <2>4 DEF Destroys
    <2> QED  BY <2>5
<1> HIDE DEF S
<1>3. Nat \subseteq S  BY <1>1, <1>2, NatInd
<1> QED  BY <1>3 DEF S

Chosen(g, P, D) == g = CHOOSE f : Destroys(f, P, SUBSET D)

Steps(g, P, D) ==
    \A T \in SUBSET D :
        g[T] = IF T = {} THEN P ELSE DeleteOf(P.stack[Min(T)], g[T \ {Min(T)}])

LEMMA DeletedSteps ==
    ASSUME NEW P, NEW D, D \subseteq Nat, IsFiniteSet(D), NEW g, Chosen(g, P, D)
    PROVE  Steps(g, P, D)
<1>1. Cardinality(D) \in Nat /\ Small(D, Cardinality(D)) = SUBSET D
    BY FS_CardinalityType, FS_Subset DEF Small
<1>2. PICK f : Destroys(f, P, Small(D, Cardinality(D)))  BY <1>1, DestroysSome
<1>3. Destroys(CHOOSE q : Destroys(q, P, SUBSET D), P, SUBSET D)  BY <1>1, <1>2, Zenon
<1>4. Destroys(g, P, SUBSET D)  BY <1>3, Zenon DEF Chosen
<1> QED  BY <1>4 DEF Destroys, Steps

(* Deleting changes the heap and what is known of it. *)
Kept(P, Q) == DOMAIN Q = Fields /\ Q.kind = P.kind /\ Q.thrown = P.thrown

LEMMA DeleteKeeps ==
    ASSUME NEW P, NEW Q, Kept(P, Q), NEW s PROVE Kept(P, DeleteOf(s, Q))
<1>1. PICK x : x = s.ptr  OBVIOUS
<1>2. PICK R : R = DeleteOf(s, Q)  OBVIOUS
<1>3. \/ R = Q
      \/ R = [Q EXCEPT !.doubleFree = TRUE]
      \/ R = [Q EXCEPT !.heap[x].live = FALSE]
    BY <1>1, <1>2 DEF DeleteOf, Delete
<1>4. \A cell : Kept(P, [Q EXCEPT !.heap = cell])  BY DEF Kept, Fields
<1>5. [Q EXCEPT !.heap[x].live = FALSE] =
        [Q EXCEPT !.heap = [Q.heap EXCEPT ![x] = [Q.heap[x] EXCEPT !.live = FALSE]]]
    OBVIOUS
<1>6. Kept(P, [Q EXCEPT !.doubleFree = TRUE])  BY DEF Kept, Fields
<1>7. Kept(P, [Q EXCEPT !.heap[x].live = FALSE])
    <2>1. PICK cells : cells = [Q.heap EXCEPT ![x] = [Q.heap[x] EXCEPT !.live = FALSE]]
        OBVIOUS
    <2>2. Kept(P, [Q EXCEPT !.heap = cells])  BY <1>4
    <2> QED  BY <1>5, <2>1, <2>2
<1> QED  BY <1>2, <1>3, <1>6, <1>7

LEMMA DestroyKeeps ==
    ASSUME NEW P, IsParser(P)
    PROVE  LET Q == Destroy(P)
           IN  Q.kind = P.kind /\ Q.thrown = P.thrown /\ Q.stack = <<>>
<1>1. PICK D : D = DOMAIN P.stack  OBVIOUS
<1>2. D = 1..Len(P.stack) /\ Len(P.stack) \in Nat
    <2>1. P.stack \in Seq(State)  BY DEF IsParser
    <2> QED  BY <1>1, <2>1, LenProperties
<1>3. D \subseteq Nat /\ IsFiniteSet(D)
    <2>1. IsFiniteSet(D)  BY <1>2, FS_Interval
    <2>2. D \subseteq Nat  BY <1>2
    <2> QED  BY <2>1, <2>2
<1>4. PICK g : Chosen(g, P, D)  BY DEF Chosen
<1>5. Steps(g, P, D)  BY <1>3, <1>4, DeletedSteps
<1> DEFINE S == {k \in Nat : \A T \in SUBSET D : Cardinality(T) = k => Kept(P, g[T])}
<1>6. 0 \in S
    <2>1. ASSUME NEW T \in SUBSET D, Cardinality(T) = 0 PROVE Kept(P, g[T])
        <3>1. T = {}  BY <1>3, <2>1, FS_Subset, FS_EmptySet
        <3>2. g[T] = P  BY <1>5, <3>1 DEF Steps
        <3> QED  BY <3>2 DEF Kept, IsParser
    <2> QED  BY <2>1
<1>7. ASSUME NEW k \in Nat, k \in S PROVE k + 1 \in S
    <2>1. ASSUME NEW T \in SUBSET D, Cardinality(T) = k + 1 PROVE Kept(P, g[T])
        <3>1. T # {}  BY <2>1, FS_EmptySet
        <3>2. PICK U : U = T \ {Min(T)}  OBVIOUS
        <3>3. /\ U \in SUBSET D /\ Cardinality(U) = Cardinality(T) - 1
              /\ Cardinality(T) \in Nat \ {0}
            BY <1>3, <3>1, <3>2, SmallStep
        <3>6. Cardinality(U) = k  BY <2>1, <3>3
        <3>4. Kept(P, g[U])  BY <1>7, <3>3, <3>6
        <3>5. g[T] = DeleteOf(P.stack[Min(T)], g[U])  BY <1>5, <3>1, <3>2 DEF Steps
        <3> QED  BY <3>4, <3>5, DeleteKeeps
    <2> QED  BY <2>1
<1> HIDE DEF S
<1>8. Nat \subseteq S  BY <1>6, <1>7, NatInd
<1>9. Kept(P, g[D])
    <2>1. Cardinality(D) \in Nat  BY <1>3, FS_CardinalityType
    <2> QED  BY <1>8, <2>1 DEF S
<1>10. PICK e : e = g[D]  OBVIOUS
<1>11. Destroy(P) = [e EXCEPT !.stack = <<>>]
    <2>1. Deleted(P) = e  BY <1>1, <1>4, <1>10 DEF Deleted, Chosen
    <2> QED  BY <2>1, DestroyFolds
<1> QED  BY <1>9, <1>10, <1>11 DEF Kept, Fields

(* A parser whose stack has been emptied again deletes one value at most. *)
LEMMA DestroyLast ==
    ASSUME NEW P, Good(P), Len(P.stack) = 1
    PROVE  Destroy(P) = [DeleteOf(P.stack[1], P) EXCEPT !.stack = <<>>]
<1>1. PICK D : D = DOMAIN P.stack  OBVIOUS
<1>2. P.stack \in Seq(State)  BY DEF Good, IsParser
<1>3. D = {1}
    <2>1. D = 1..1  BY <1>1, <1>2, LenProperties
    <2> QED  BY <2>1
<1>4. D \subseteq Nat /\ IsFiniteSet(D)
    <2>1. IsFiniteSet({1})  BY FS_Singleton
    <2>2. {1} \subseteq Nat  OBVIOUS
    <2> QED  BY <1>3, <2>1, <2>2
<1>5. PICK g : Chosen(g, P, D)  BY DEF Chosen
<1>6. Steps(g, P, D)  BY <1>4, <1>5, DeletedSteps
<1>7. Min(D) = 1
    <2>1. D \in SUBSET D /\ D # {}  BY <1>3
    <2>2. Min(D) \in D  BY <1>4, <2>1, SmallStep
    <2> QED  BY <1>3, <2>2
<1>8. PICK s : s = P.stack[1]  OBVIOUS
<1>9. g[D] = DeleteOf(s, P)
    <2>1. D \ {Min(D)} = {} /\ D # {} /\ D \in SUBSET D /\ {} \in SUBSET D  BY <1>3, <1>7
    <2>2. g[{}] = P  BY <1>6, <2>1 DEF Steps
    <2>3. g[D] = DeleteOf(P.stack[Min(D)], g[D \ {Min(D)}])  BY <1>6, <2>1 DEF Steps
    <2> QED  BY <1>7, <1>8, <2>1, <2>2, <2>3
<1>10. PICK e : e = DeleteOf(s, P)  OBVIOUS
<1>11. Deleted(P) = e  BY <1>1, <1>5, <1>9, <1>10 DEF Deleted, Chosen
<1> QED  BY <1>8, <1>10, <1>11, DestroyFolds

LEMMA LastDeleted ==
    ASSUME NEW P, Good(P), Len(P.stack) = 1, NEW s, s = P.stack[1], NEW e, e = DeleteOf(s, P)
    PROVE  /\ IsParser(e) /\ ~e.doubleFree /\ s.ptr \in Alive(P) \cup {0}
           /\ s.del => Alive(e) = Alive(P) \ {s.ptr}
<1>1. s.ptr \in Alive(P) \cup {0}
    <2>1. 1 \in 1..Len(P.stack)  OBVIOUS
    <2> QED  BY <2>1 DEF Good, Healthy, Owned, Pointing
<1>2. IsParser(P) /\ ~P.doubleFree  BY DEF Good, Healthy
<1>3. 0 \notin Alive(P)  BY <1>2, HeapOf
<1>4. CASE s.ptr = 0 \/ ~s.del
    <2>1. e = P  BY <1>4 DEF DeleteOf, Delete
    <2> QED  BY <1>1, <1>2, <1>3, <1>4, <2>1
<1>5. CASE s.ptr # 0 /\ s.del
    <2>1. e = Delete(P, s.ptr)  BY <1>5 DEF DeleteOf
    <2>2. PICK x : x = s.ptr  OBVIOUS
    <2>3. x \in Alive(P)  BY <1>1, <1>5, <2>2
    <2>4. IsParser(e) /\ e.doubleFree = P.doubleFree /\ Alive(e) = Alive(P) \ {x}
        BY <1>2, <2>1, <2>2, <2>3, DeleteOp
    <2> QED  BY <1>1, <1>2, <2>2, <2>4
<1> QED  BY <1>4, <1>5

LEMMA DestroyOnce ==
    ASSUME NEW P, Good(P), Len(P.stack) = 1
    PROVE  ~Destroy(P).doubleFree
<1>1. PICK s, e : s = P.stack[1] /\ e = DeleteOf(s, P)  OBVIOUS
<1>2. IsParser(e) /\ ~e.doubleFree  BY <1>1, LastDeleted
<1>3. Destroy(P) = [e EXCEPT !.stack = <<>>]  BY <1>1, DestroyLast
<1> QED  BY <1>2, <1>3 DEF IsParser, Fields

-----------------------------------------------------------------------------
(***************************************************************************)
(* The inductive invariant.                                                *)
(***************************************************************************)
Shapes ==
    /\ doc \in Documents /\ faults \in 0..MaxFaults /\ whole \in BOOLEAN
    /\ phase \in {"parsing", "returned", "thrown", "gone"}
    /\ IsInput(input)
    /\ phase # "gone" => IsParser(parser)
    /\ phase = "gone" => parser.stack = <<>>
    /\ parser.thrown \in {"no", "XmlException", "RuntimeException"}

IInv == Shapes /\ Core

LEMMA MarksOf ==
    ASSUME NEW s PROVE Opened(s) = Marks(s, "open") /\ Closed(s) = Marks(s, "close")
BY DEF Opened, Closed, Marks, Marked

LEMMA DocumentFacts ==
    ASSUME NEW d \in Documents
    PROVE  d.kind \in Kinds /\ IsInput(d.tokens) /\ Opened(d.tokens) = Closed(d.tokens)
BY DocumentsAssumption DEF Kinds, IsInput, IsToken

LEMMA DepthOf ==
    ASSUME NEW P, Good(P)
    PROVE  /\ Depth(P) \in Nat
           /\ Depth(P) = 0 => Len(P.stack) = 1 /\ P.ignored = 0
<1>1. PICK n \in Nat : Len(P.stack) = n + 1  BY Levels
<1>2. P.ignored \in Nat  BY DEF Good, IsParser
<1>3. Depth(P) = (n + 1) - 1 + P.ignored  BY <1>1 DEF Depth
<1> QED  BY <1>1, <1>2, <1>3

LEMMA Starting ==
    ASSUME NEW kind \in Kinds
    PROVE  LET P == Parser(kind)
           IN  Good(P) /\ P.kind = kind /\ Depth(P) = 0 /\ P.thrown = "no"
<1>1. PICK P : P = Parser(kind)  OBVIOUS
<1>2. PICK s : s = ValueState("eNone")  OBVIOUS
<1>3. s \in State /\ s.st = "eNone" /\ s.ptr = 0 /\ s.mem = 0
    <2>1. "eNone" \in StateNames  BY DEF StateNames
    <2> QED  BY <1>2, <2>1, NewState
<1>4. /\ P.kind = kind /\ P.stack = <<s>> /\ P.heap = <<>> /\ P.complete = FALSE
      /\ P.ignored = 0 /\ P.doubleFree = FALSE /\ P.thrown = "no" /\ DOMAIN P = Fields
    BY <1>1, <1>2 DEF Parser, Fields
<1>5. Len(P.stack) = 1 /\ P.stack[1] = s /\ P.stack \in Seq(State)  BY <1>3, <1>4
<1>6. IsHeap(P.heap)
    <2>1. P.heap \in Seq({}) /\ DOMAIN P.heap = {}  BY <1>4
    <2> QED  BY <2>1 DEF IsHeap
<1>7. IsParser(P)
    <2>1. P.kind \in {"call", "response", "value"}  BY <1>4 DEF Kinds
    <2>5. P.ignored = 0 /\ P.complete = FALSE /\ P.doubleFree = FALSE  BY <1>4
    <2>6. P.ignored \in Nat  BY <2>5
    <2>7. P.complete \in BOOLEAN /\ P.doubleFree \in BOOLEAN  BY <2>5, Zenon
    <2>2. P.ignored \in Nat /\ P.complete \in BOOLEAN /\ P.doubleFree \in BOOLEAN
        BY <2>6, <2>7
    <2>3. P.thrown \in {"no", "XmlException", "RuntimeException"}  BY <1>4
    <2>4. DOMAIN P = Fields  BY <1>4
    <2> QED  BY <1>5, <1>6, <2>1, <2>2, <2>3, <2>4, Zenon DEF IsParser
<1>8. 1..Len(P.stack) = {1} /\ 2..Len(P.stack) = {}  BY <1>5
<1>9. Path(P)  BY <1>3, <1>5, <1>8 DEF Path
<1>10. Owned(P)
    <2>1. Pointing(P)  BY <1>3, <1>5, <1>8 DEF Pointing
    <2>2. Shared(P)  BY <1>3, <1>5, <1>8 DEF Shared
    <2>3. Waiting(P)  BY <1>3, <1>5, <1>8 DEF Waiting
    <2> QED  BY <2>1, <2>2, <2>3 DEF Owned
<1>11. Depth(P) = 0  BY <1>4, <1>5 DEF Depth
<1> QED  BY <1>1, <1>4, <1>7, <1>9, <1>10, <1>11 DEF Good, Healthy

LEMMA InitIInv == Init => IInv
<1> SUFFICES ASSUME Init PROVE IInv  OBVIOUS
<1>1. doc.kind \in Kinds /\ IsInput(doc.tokens) /\ Opened(doc.tokens) = Closed(doc.tokens)
    BY DocumentFacts DEF Init
<1>2. Good(parser) /\ parser.kind = doc.kind /\ Depth(parser) = 0 /\ parser.thrown = "no"
    BY <1>1, Starting DEF Init
<1>3. Opened(input) \in Nat
    <2>1. Marks(input, "open") \in Nat  BY <1>1, CountNone, CountConcat DEF Init
    <2> QED  BY <2>1, MarksOf
<1>4. Shapes
    <2>1. 0 \in 0..MaxFaults  BY MaxFaultsAssumption
    <2> QED  BY <1>1, <1>2, <2>1 DEF Init, Shapes, Good
<1>5. Opened(input) + Depth(parser) = Closed(input)  BY <1>1, <1>2, <1>3 DEF Init
<1>6. Core  BY <1>2, <1>5 DEF Init, Core, Good, DeletedOnce
<1> QED  BY <1>4, <1>6 DEF IInv

(* A step of the parser, whatever it has read. *)
LEMMA Continues ==
    ASSUME IInv, phase = "parsing", NEW p, Good(p), p.kind = parser.kind, Continue(p),
           IsInput(input'), p.thrown = "no" => Opened(input') + Depth(p) = Closed(input')
    PROVE  IInv'
<1>1. /\ parser' = p /\ doc' = doc /\ faults' = faults /\ whole' = whole
      /\ phase' = IF p.thrown = "no" THEN "parsing" ELSE "thrown"
    BY DEF Continue
<1>2. ~whole /\ parser.kind = doc.kind  BY DEF IInv, Core
<1>3. IsParser(p) /\ Healthy(p) /\ p.thrown \in {"no", "XmlException", "RuntimeException"}
    BY DEF Good, IsParser
<1>4. Shapes'  BY <1>1, <1>3 DEF IInv, Shapes
<1>5. Core'
    <2>1. phase' # "gone" => Healthy(parser')  BY <1>1, <1>3 DEF Healthy
    <2>2. phase' \in {"parsing", "returned"} => parser'.thrown = "no"  BY <1>1
    <2>3. phase' = "parsing" => Opened(input') + Depth(parser') = Closed(input')  BY <1>1
    <2>4. DeletedOnce'  BY <1>1, <1>2 DEF DeletedOnce
    <2> QED  BY <1>1, <1>2, <2>1, <2>2, <2>3, <2>4 DEF Core
<1> QED  BY <1>4, <1>5 DEF IInv

LEMMA OpeningKeeps ==
    ASSUME IInv, ReadOpening PROVE IInv'
<1>1. phase = "parsing" /\ input # <<>> /\ "open" \in DOMAIN Head(input)
      /\ input' = Tail(input) /\ Continue(startElement(parser, Head(input).open))
    BY DEF ReadOpening, Next1
<1>2. Good(parser) /\ parser.thrown = "no" /\ IsInput(input)
      /\ Opened(input) + Depth(parser) = Closed(input)
    BY <1>1 DEF IInv, Shapes, Core, Good
<1>3. PICK p : p = startElement(parser, Head(input).open)  OBVIOUS
<1>4. Begun(parser, p)  BY <1>2, <1>3, Starts
<1>5. PICK h, t : h = Head(input) /\ t = Tail(input)  OBVIOUS
<1>6. IsInput(t) /\ IsToken(h)
      /\ Opened(input) = (IF "open" \in DOMAIN h THEN 1 ELSE 0) + Opened(t)
      /\ Closed(input) = (IF "close" \in DOMAIN h THEN 1 ELSE 0) + Closed(t)
      /\ Opened(t) \in Nat /\ Closed(t) \in Nat
    BY <1>1, <1>2, <1>5, CountTail, MarksOf
<1>7. "close" \notin DOMAIN h  BY <1>1, <1>5, <1>6 DEF IsToken
<1>8. Opened(input) = 1 + Opened(t) /\ Closed(input) = Closed(t)
    BY <1>1, <1>5, <1>6, <1>7
<1>9. p.thrown = "no" => Opened(t) + Depth(p) = Closed(t)
    <2>1. p.thrown = "no" => Depth(p) = Depth(parser) + 1  BY <1>2, <1>4 DEF Begun
    <2>2. Depth(parser) \in Nat  BY <1>2, DepthOf
    <2> QED  BY <1>2, <1>6, <1>8, <2>1, <2>2
<1>10. Good(p) /\ p.kind = parser.kind  BY <1>4 DEF Begun
<1> QED  BY <1>1, <1>3, <1>5, <1>6, <1>9, <1>10, Continues

LEMMA ClosingKeeps ==
    ASSUME IInv, ReadClosing PROVE IInv'
<1>1. phase = "parsing" /\ input # <<>> /\ "close" \in DOMAIN Head(input)
      /\ input' = Tail(input) /\ Continue(endElement(parser, Head(input).close))
    BY DEF ReadClosing, Next1
<1>2. Good(parser) /\ parser.thrown = "no" /\ IsInput(input)
      /\ Opened(input) + Depth(parser) = Closed(input)
    BY <1>1 DEF IInv, Shapes, Core, Good
<1>3. PICK p : p = endElement(parser, Head(input).close)  OBVIOUS
<1>4. Finished(parser, p)  BY <1>2, <1>3, Finishes
<1>5. PICK h, t : h = Head(input) /\ t = Tail(input)  OBVIOUS
<1>6. IsInput(t) /\ IsToken(h)
      /\ Opened(input) = (IF "open" \in DOMAIN h THEN 1 ELSE 0) + Opened(t)
      /\ Closed(input) = (IF "close" \in DOMAIN h THEN 1 ELSE 0) + Closed(t)
      /\ Opened(t) \in Nat /\ Closed(t) \in Nat
    BY <1>1, <1>2, <1>5, CountTail, MarksOf
<1>7. "open" \notin DOMAIN h  BY <1>1, <1>5, <1>6 DEF IsToken
<1>8. Closed(input) = 1 + Closed(t) /\ Opened(input) = Opened(t)
    BY <1>1, <1>5, <1>6, <1>7
<1>10. Good(p) /\ p.kind = parser.kind  BY <1>4 DEF Finished
<1>9. p.thrown = "no" => Opened(t) + Depth(p) = Closed(t)
    <2>1. p.thrown = "no" => Depth(p) + 1 = Depth(parser)  BY <1>2, <1>4 DEF Finished
    <2>2. Depth(parser) \in Nat /\ Depth(p) \in Nat  BY <1>2, <1>10, DepthOf
    <2> QED  BY <1>2, <1>6, <1>8, <2>1, <2>2
<1> QED  BY <1>1, <1>3, <1>5, <1>6, <1>9, <1>10, Continues

LEMMA TextKeeps ==
    ASSUME IInv, NEW n \in 1..MaxText, ReadText(n)
    PROVE  IInv' /\ (RootSeen(parser) => RootSeen(parser'))
<1>1. phase = "parsing" /\ input # <<>> /\ "chars" \in DOMAIN Head(input)
      /\ n <= Len(Head(input).chars)
      /\ input' = Chars(SubSeq(Head(input).chars, n + 1, Len(Head(input).chars))) \o Tail(input)
      /\ Continue(charData(parser, [i \in 1..n |-> Head(input).chars[i][2]]))
    BY DEF ReadText, Next1
<1>2. Good(parser) /\ parser.thrown = "no" /\ IsInput(input)
      /\ Opened(input) + Depth(parser) = Closed(input)
    BY <1>1 DEF IInv, Shapes, Core, Good
<1>3. PICK h, t : h = Head(input) /\ t = Tail(input)  OBVIOUS
<1>4. IsInput(t) /\ IsToken(h)
      /\ Opened(input) = (IF "open" \in DOMAIN h THEN 1 ELSE 0) + Opened(t)
      /\ Closed(input) = (IF "close" \in DOMAIN h THEN 1 ELSE 0) + Closed(t)
      /\ Opened(t) \in Nat /\ Closed(t) \in Nat
    BY <1>1, <1>2, <1>3, CountTail, MarksOf
<1>5. "open" \notin DOMAIN h /\ "close" \notin DOMAIN h  BY <1>1, <1>3, <1>4 DEF IsToken
<1>6. Closed(input) = Closed(t) /\ Opened(input) = Opened(t)  BY <1>4, <1>5
<1>7. PICK chars : chars = h.chars  OBVIOUS
<1>8. PICK C : C = {"literal", "entity"} \X STRING  OBVIOUS
<1>9. chars \in Seq(C)  BY <1>1, <1>3, <1>4, <1>7, <1>8 DEF IsToken
<1>10. PICK m \in Nat : m = Len(chars)  BY <1>9, LenProperties
<1>11. n \in Nat /\ n <= m /\ \A i \in 1..m : chars[i] \in C
    <2>1. n \in Nat  BY DEF MaxText
    <2> QED  BY <1>1, <1>3, <1>7, <1>9, <1>10, <2>1, LenProperties
<1>12. PICK text : text = [i \in 1..n |-> chars[i][2]]  OBVIOUS
<1>13. text \in Texts
    <2>1. ASSUME NEW i \in 1..n PROVE chars[i][2] \in STRING
        <3>1. i \in 1..m  BY <1>10, <1>11
        <3> QED  BY <1>8, <1>11, <3>1
    <2> QED  BY <1>11, <1>12, <2>1, IsASeq DEF Texts
<1>14. PICK p : p = charData(parser, text)  OBVIOUS
<1>15. Result(parser, p)  BY <1>2, <1>13, <1>14, Reads
<1>16. Good(p) /\ p.kind = parser.kind /\ Depth(p) = Depth(parser)
    BY <1>15 DEF Result, Like, SamePath, Depth
<1>17. PICK rest : rest = SubSeq(chars, n + 1, m)  OBVIOUS
<1>18. rest \in Seq(C)
    <2>1. \A i \in n + 1..m : chars[i] \in C  BY <1>10, <1>11
    <2>2. n + 1 \in Int /\ m \in Int  BY <1>10, <1>11
    <2> QED  BY <1>17, <2>1, <2>2, SubSeqProperties
<1>19. PICK left : left = Chars(rest)  OBVIOUS
<1>20. IsInput(left) /\ Opened(left) = 0 /\ Closed(left) = 0
    <2>1. CASE rest = <<>>
        BY <1>19, <2>1, CountNone, MarksOf DEF Chars
    <2>2. CASE rest # <<>>
        <3>1. PICK tok : tok = [chars |-> rest]  OBVIOUS
        <3>2. DOMAIN tok = {"chars"} /\ tok.chars = rest  BY <3>1
        <3>3. IsToken(tok)  BY <1>8, <1>18, <3>2 DEF IsToken
        <3>4. left = <<tok>>  BY <1>19, <2>2, <3>1 DEF Chars
        <3>5. "open" \notin DOMAIN tok /\ "close" \notin DOMAIN tok  BY <3>2
        <3> QED  BY <3>3, <3>4, <3>5, CountOne, MarksOf
    <2> QED  BY <2>1, <2>2
<1>21. PICK next : next = left \o t  OBVIOUS
<1>22. IsInput(next) /\ Opened(next) = Opened(t) /\ Closed(next) = Closed(t)
    <2>1. IsInput(next) /\ Marks(next, "open") = Marks(left, "open") + Marks(t, "open")
          /\ Marks(next, "close") = Marks(left, "close") + Marks(t, "close")
        BY <1>4, <1>20, <1>21, CountConcat
    <2> QED  BY <1>4, <1>20, <2>1, MarksOf
<1>23. input' = next /\ Continue(p)
    BY <1>1, <1>3, <1>7, <1>10, <1>12, <1>14, <1>17, <1>19, <1>21
<1>24. IInv'  BY <1>1, <1>2, <1>6, <1>16, <1>22, <1>23, Continues
<1>25. RootSeen(parser) => RootSeen(p)
    <2>1. parser.kind \in Kinds /\ Len(parser.stack) \in Nat  BY <1>2, KindOf, StackOps DEF Good
    <2>2. p.kind = parser.kind /\ p.complete = parser.complete
          /\ Len(p.stack) = Len(parser.stack)
          /\ \A i \in 1..Len(parser.stack) : p.stack[i].st = parser.stack[i].st
        BY <1>15 DEF Result, Like, SamePath
    <2> QED  BY <2>1, <2>2, RootKept
<1>26. parser' = p  BY <1>23 DEF Continue
<1> QED  BY <1>24, <1>25, <1>26

LEMMA MarkupKeeps ==
    ASSUME IInv, ReadMarkupInText PROVE IInv'
<1>1. phase = "parsing" /\ Continue(Throw(parser, "XmlException")) /\ input' = input
    BY DEF ReadMarkupInText
<1>2. Good(parser) /\ IsInput(input)  BY <1>1 DEF IInv, Shapes, Core, Good
<1>3. PICK p : p = Throw(parser, "XmlException")  OBVIOUS
<1>4. Good(p) /\ p.kind = parser.kind /\ p.thrown = "XmlException"  BY <1>2, <1>3, Throws
<1> QED  BY <1>1, <1>2, <1>3, <1>4, Continues

(* The end of the message: all of it, or what Content-Length has cut off. *)
LEMMA EndKeeps ==
    ASSUME IInv, EndOfContent PROVE IInv'
<1>1. phase = "parsing" /\ (input = <<>> \/ faults < MaxFaults)
      /\ faults' = (IF input = <<>> THEN faults ELSE faults + 1)
      /\ whole' = (input = <<>>) /\ phase' \in {"thrown", "returned"}
      /\ doc' = doc /\ input' = input /\ parser' = parser
    BY DEF EndOfContent
<1>2. Good(parser) /\ parser.thrown = "no" /\ parser.kind = doc.kind
      /\ Opened(input) + Depth(parser) = Closed(input)
    BY <1>1 DEF IInv, Shapes, Core, Good
<1>3. faults' \in 0..MaxFaults
    <2>1. faults \in 0..MaxFaults  BY DEF IInv, Shapes
    <2> QED  BY <1>1, <2>1, MaxFaultsAssumption
<1>4. whole' \in BOOLEAN  BY <1>1
<1>5. Shapes'  BY <1>1, <1>3, <1>4 DEF IInv, Shapes
<1>6. whole' => Depth(parser) = 0
    <2>1. Opened(<<>>) = 0 /\ Closed(<<>>) = 0  BY CountNone, MarksOf
    <2>2. Depth(parser) \in Nat  BY <1>2, DepthOf
    <2>3. ASSUME input = <<>> PROVE Depth(parser) = 0
        <3>1. Opened(input) = 0 /\ Closed(input) = 0  BY <2>1, <2>3
        <3> QED  BY <1>2, <2>2, <3>1
    <2> QED  BY <1>1, <2>3
<1>7. Core'
    <2>1. phase' # "gone" /\ phase' # "parsing"  BY <1>1
    <2>2. ~parser.doubleFree  BY <1>2 DEF Good, Healthy
    <2>3. DeletedOnce'  BY <1>1, <2>2 DEF DeletedOnce
    <2>4. Healthy(parser)  BY <1>2 DEF Good
    <2> QED  BY <1>1, <1>2, <1>6, <2>1, <2>3, <2>4 DEF Core, Healthy
<1> QED  BY <1>5, <1>7 DEF IInv

LEMMA InsertKeeps ==
    ASSUME IInv, NEW tag \in Extras, InsertElement(tag) PROVE IInv'
<1>1. phase = "parsing" /\ faults < MaxFaults /\ faults' = faults + 1
      /\ input' = Element(tag, <<>>) \o input
      /\ doc' = doc /\ parser' = parser /\ phase' = phase /\ whole' = whole
    BY DEF InsertElement
<1>2. Good(parser) /\ IsInput(input) /\ ~whole /\ parser.thrown = "no"
      /\ Opened(input) + Depth(parser) = Closed(input)
    BY <1>1 DEF IInv, Shapes, Core, Good
<1>3. faults' \in 0..MaxFaults
    <2>1. faults \in 0..MaxFaults  BY DEF IInv, Shapes
    <2> QED  BY <1>1, <2>1, MaxFaultsAssumption
<1>4. PICK o, c : o = [open |-> tag] /\ c = [close |-> tag]  OBVIOUS
<1>5. DOMAIN o = {"open"} /\ DOMAIN c = {"close"}  BY <1>4
<1>6. IsToken(o) /\ IsToken(c)  BY <1>5 DEF IsToken
<1>7. "close" \notin DOMAIN o /\ "open" \notin DOMAIN c  BY <1>5
<1>8. IsInput(<<o>>) /\ Marks(<<o>>, "open") = 1 /\ Marks(<<o>>, "close") = 0
    BY <1>5, <1>6, <1>7, CountOne
<1>9. IsInput(<<c>>) /\ Marks(<<c>>, "open") = 0 /\ Marks(<<c>>, "close") = 1
    BY <1>5, <1>6, <1>7, CountOne
<1>10. PICK a : a = <<o>> \o <<>>  OBVIOUS
<1>11. IsInput(a) /\ Marks(a, "open") = 1 /\ Marks(a, "close") = 0
    <2>1. IsInput(<<>>) /\ Marks(<<>>, "open") = 0 /\ Marks(<<>>, "close") = 0  BY CountNone
    <2>2. IsInput(a) /\ Marks(a, "open") = 1 + 0 /\ Marks(a, "close") = 0 + 0
        BY <1>8, <1>10, <2>1, CountConcat
    <2> QED  BY <2>2
<1>12. PICK e : e = Element(tag, <<>>)  OBVIOUS
<1>13. e = a \o <<c>>  BY <1>4, <1>10, <1>12 DEF Element
<1>14. IsInput(e) /\ Marks(e, "open") = 1 /\ Marks(e, "close") = 1
    <2>1. IsInput(e) /\ Marks(e, "open") = 1 + 0 /\ Marks(e, "close") = 0 + 1
        BY <1>9, <1>11, <1>13, CountConcat
    <2> QED  BY <2>1
<1>15. PICK next : next = e \o input  OBVIOUS
<1>16. IsInput(next) /\ Opened(next) = 1 + Opened(input) /\ Closed(next) = 1 + Closed(input)
       /\ Opened(input) \in Nat /\ Closed(input) \in Nat
    <2>1. IsInput(next) /\ Marks(next, "open") = Marks(e, "open") + Marks(input, "open")
          /\ Marks(next, "close") = Marks(e, "close") + Marks(input, "close")
          /\ Marks(input, "open") \in Nat /\ Marks(input, "close") \in Nat
        BY <1>2, <1>14, <1>15, CountConcat
    <2> QED  BY <1>14, <2>1, MarksOf
<1>17. input' = next  BY <1>1, <1>12, <1>15
<1>18. Opened(next) + Depth(parser) = Closed(next)
    <2>1. Depth(parser) \in Nat  BY <1>2, DepthOf
    <2> QED  BY <1>2, <1>16, <2>1
<1>19. Shapes'  BY <1>1, <1>3, <1>16, <1>17 DEF IInv, Shapes
<1>20. Core'
    <2>1. DeletedOnce'  BY <1>1, <1>2 DEF DeletedOnce
    <2>2. Healthy(parser) /\ parser.kind = doc.kind  BY <1>2 DEF Good, IInv, Core
    <2> QED  BY <1>1, <1>2, <1>17, <1>18, <2>1, <2>2 DEF Core, Healthy
<1> QED  BY <1>19, <1>20 DEF IInv

LEMMA ExceptionKeeps ==
    ASSUME IInv, ConnectionException PROVE IInv'
<1>1. phase = "parsing" /\ faults < MaxFaults /\ faults' = faults + 1 /\ phase' = "thrown"
      /\ doc' = doc /\ input' = input /\ parser' = parser /\ whole' = whole
    BY DEF ConnectionException
<1>2. Good(parser) /\ ~whole /\ parser.kind = doc.kind
    BY <1>1 DEF IInv, Shapes, Core, Good
<1>3. faults' \in 0..MaxFaults
    <2>1. faults \in 0..MaxFaults  BY DEF IInv, Shapes
    <2> QED  BY <1>1, <2>1, MaxFaultsAssumption
<1>4. Shapes'  BY <1>1, <1>2, <1>3 DEF IInv, Shapes, Good
<1>5. Core'
    <2>1. DeletedOnce'  BY <1>1 DEF DeletedOnce
    <2>2. Healthy(parser)  BY <1>2 DEF Good
    <2> QED  BY <1>1, <1>2, <2>1, <2>2 DEF Core, Healthy
<1> QED  BY <1>4, <1>5 DEF IInv

LEMMA DestroyStepKeeps ==
    ASSUME IInv, DestroyParser PROVE IInv'
<1>1. phase \in {"returned", "thrown"} /\ parser' = Destroy(parser) /\ phase' = "gone"
      /\ doc' = doc /\ input' = input /\ faults' = faults /\ whole' = whole
    BY DEF DestroyParser
<1>2. Good(parser) /\ parser.kind = doc.kind /\ (whole => Depth(parser) = 0)
    BY <1>1 DEF IInv, Shapes, Core, Good
<1>3. parser'.kind = parser.kind /\ parser'.thrown = parser.thrown /\ parser'.stack = <<>>
    BY <1>1, <1>2, DestroyKeeps DEF Good
<1>4. whole => ~parser'.doubleFree
    <2>1. whole => Len(parser.stack) = 1  BY <1>2, DepthOf
    <2> QED  BY <1>1, <1>2, <2>1, DestroyOnce
<1>5. Shapes'  BY <1>1, <1>3 DEF IInv, Shapes
<1>6. Core'
    <2>1. DeletedOnce'  BY <1>1, <1>4 DEF DeletedOnce
    <2> QED  BY <1>1, <1>2, <1>3, <2>1 DEF Core
<1> QED  BY <1>5, <1>6 DEF IInv

LEMMA NextIInv == IInv /\ [Next]_vars => IInv'
<1> SUFFICES ASSUME IInv, [Next]_vars PROVE IInv'  OBVIOUS
<1>1. CASE ReadOpening  BY <1>1, OpeningKeeps
<1>2. CASE ReadClosing  BY <1>2, ClosingKeeps
<1>3. CASE \E n \in 1..MaxText : ReadText(n)  BY <1>3, TextKeeps
<1>4. CASE ReadMarkupInText  BY <1>4, MarkupKeeps
<1>5. CASE EndOfContent  BY <1>5, EndKeeps
<1>6. CASE \E tag \in Extras : InsertElement(tag)  BY <1>6, InsertKeeps
<1>7. CASE ConnectionException  BY <1>7, ExceptionKeeps
<1>8. CASE DestroyParser  BY <1>8, DestroyStepKeeps
<1>9. CASE UNCHANGED vars
    <2>1. Shapes'  BY <1>9 DEF vars, IInv, Shapes
    <2>2. /\ doc' = doc /\ input' = input /\ parser' = parser
          /\ phase' = phase /\ whole' = whole
        BY <1>9 DEF vars
    <2>3. Healthy(parser)' = Healthy(parser)
        BY <2>2 DEF Healthy, Path, Owned, Pointing, Shared, Waiting, Alive, Leaked, Opens
    <2>4. Opened(input)' = Opened(input) /\ Closed(input)' = Closed(input)
          /\ Depth(parser)' = Depth(parser)
        BY <2>2 DEF Opened, Closed, Depth
    <2>5. DeletedOnce' = DeletedOnce  BY <2>2 DEF DeletedOnce
    <2>6. Core'  BY <2>2, <2>3, <2>4, <2>5 DEF IInv, Core
    <2> QED  BY <2>1, <2>6 DEF IInv
<1> QED  BY <1>1, <1>2, <1>3, <1>4, <1>5, <1>6, <1>7, <1>8, <1>9 DEF Next

(* At every point of a message the parser's stack is a path of its table,  *)
(* whose pointers are alive and shared only by members with their structs, *)
(* and as deep as the tags that are still to be closed say.                *)
THEOREM Invariance == Spec => []IInv
BY InitIInv, NextIInv, PTL DEF Spec

-----------------------------------------------------------------------------
(***************************************************************************)
(* The theorems.                                                           *)
(***************************************************************************)
LEMMA TypeOKInv == IInv => TypeOK
<1> SUFFICES ASSUME IInv PROVE TypeOK  OBVIOUS
<1>1. Shapes /\ Core  BY DEF IInv
<1>2. ASSUME NEW s \in ToSet(parser.stack) PROVE s.ptr \in Pointers /\ s.mem \in Pointers
    <2>1. CASE phase = "gone"
        <3>1. parser.stack = <<>>  BY <1>1, <2>1 DEF Shapes
        <3> QED  BY <1>2, <3>1 DEF ToSet
    <2>2. CASE phase # "gone"
        <3>1. Good(parser)  BY <1>1, <2>2 DEF Shapes, Core, Good
        <3>2. PICK i \in 1..Len(parser.stack) : s = parser.stack[i]
            BY <1>2, <3>1, StackOps DEF Good
        <3>3. s.ptr \in Alive(parser) \cup {0} /\ s.mem \in Alive(parser) \cup {0}
            BY <3>1, <3>2 DEF Good, Healthy, Owned, Pointing
        <3>4. Alive(parser) \subseteq DOMAIN parser.heap  BY <3>1, HeapOf DEF Good
        <3> QED  BY <3>3, <3>4 DEF Pointers
    <2> QED  BY <2>1, <2>2
<1>3. phase = "parsing" => Path(parser) /\ parser.kind = doc.kind
    BY <1>1 DEF Core, Healthy
<1>4. phase = "parsing" =>
        /\ parser.stack[1].st = "eNone"
        /\ \A i \in 2..Len(parser.stack) :
            LET below == parser.stack[i - 1]
                s == parser.stack[i]
            IN  /\ \E o \in Opens(doc.kind) : o[1] = below.st /\ o[3] = s.st
                /\ s.st = "eMember" => s.ptr = below.ptr /\ s.ptr # 0
    BY <1>3 DEF Path
<1> QED  BY <1>1, <1>2, <1>4 DEF Shapes, TypeOK

(* The types: the stack is always a path of the transition table of its     *)
(* kind of message from eNone, a member shares the struct of the state      *)
(* below, and each pointer is null or into the heap, whatever comes.        *)
THEOREM TypeCorrect == Spec => []TypeOK
BY Invariance, TypeOKInv, PTL

LEMMA NoDanglingInv == IInv => NoDangling
<1> SUFFICES ASSUME IInv, phase \in {"parsing", "returned"},
                    NEW s \in ToSet(parser.stack), NEW p \in {s.ptr, s.mem} \ {0}
             PROVE  parser.heap[p].live
    BY DEF NoDangling
<1>1. Good(parser)  BY DEF IInv, Shapes, Core, Good
<1>2. PICK i \in 1..Len(parser.stack) : s = parser.stack[i]
    <2>1. s \in ToSet(parser.stack)  OBVIOUS
    <2>2. ToSet(parser.stack) = {parser.stack[i] : i \in 1..Len(parser.stack)}
        BY <1>1, StackOps DEF Good
    <2> QED  BY <2>1, <2>2
<1>3. s.ptr \in Alive(parser) \cup {0} /\ s.mem \in Alive(parser) \cup {0}
    BY <1>1, <1>2 DEF Good, Healthy, Owned, Pointing
<1>4. p \in Alive(parser)  BY <1>3
<1> QED  BY <1>4 DEF Alive, Leaked

(* No state of a parser at work points to a value that has been deleted,    *)
(* although takeValue deletes what arrays and structs copy, members share   *)
(* their struct with the state below and hold a value back for its name.    *)
THEOREM PointersAlive == Spec => []NoDangling
BY Invariance, NoDanglingInv, PTL

(* No value of a message that was read to its end is deleted twice, by the  *)
(* callbacks or by the destructor.                                          *)
THEOREM NotDeletedTwice == Spec => []DeletedOnce
<1>1. IInv => DeletedOnce  BY DEF IInv, Core
<1> QED  BY <1>1, Invariance, PTL

LEMMA RootInit == Init => RootInv
BY DEF Init, RootInv

LEMMA RootNext == RootsExpected /\ IInv /\ RootInv /\ [Next]_vars => RootInv'
<1> SUFFICES ASSUME RootsExpected, IInv, RootInv, [Next]_vars PROVE RootInv'  OBVIOUS
<1>1. doc \in Documents  BY DEF IInv, Shapes
<1>2. doc.kind \in Kinds  BY <1>1, DocumentFacts
<1>3. doc.tokens # <<>> /\ doc.tokens[1] = [open |-> RootTag(doc.kind)]
    BY <1>1 DEF RootsExpected
<1>4. PICK first : first = doc.tokens[1]  OBVIOUS
<1>5. DOMAIN first = {"open"} /\ first.open = RootTag(doc.kind)  BY <1>3, <1>4
<1>6. input = doc.tokens => Head(input) = first  BY <1>4
<1> DEFINE Fresh == input = doc.tokens /\ parser = Parser(doc.kind)
<1>7. phase = "parsing" =>
        Good(parser) /\ parser.thrown = "no" /\ parser.kind = doc.kind
          /\ (Fresh \/ RootSeen(parser))
    BY DEF IInv, Shapes, Core, Good, RootInv
<1>8. CASE ReadOpening
    <2>1. phase = "parsing" /\ Continue(startElement(parser, Head(input).open))
        BY <1>8 DEF ReadOpening, Next1
    <2>2. PICK p : p = startElement(parser, Head(input).open)  OBVIOUS
    <2>3. parser' = p /\ phase' = (IF p.thrown = "no" THEN "parsing" ELSE "thrown")
        BY <2>1, <2>2 DEF Continue
    <2>4. ASSUME p.thrown = "no" PROVE RootSeen(p)
        <3>1. CASE RootSeen(parser)
            <4>1. Begun(parser, p)  BY <1>7, <2>1, <2>2, Starts
            <4> QED  BY <1>7, <2>1, <2>4, <3>1, <4>1 DEF Begun
        <3>2. CASE Fresh
            <4>1. PICK P : P = parser  OBVIOUS
            <4>2. PICK kind \in Kinds : kind = doc.kind  BY <1>2
            <4>3. P = Parser(kind) /\ Good(P)  BY <1>7, <2>1, <3>2, <4>1, <4>2
            <4>4. p = startElement(P, RootTag(kind))  BY <1>5, <1>6, <2>2, <3>2, <4>1, <4>2
            <4> QED  BY <2>4, <4>3, <4>4, StartsRoot
        <3> QED  BY <1>7, <2>1, <3>1, <3>2
    <2> QED  BY <2>3, <2>4 DEF RootInv
<1>9. CASE ReadClosing
    <2>1. phase = "parsing" /\ Continue(endElement(parser, Head(input).close))
          /\ "close" \in DOMAIN Head(input)
        BY <1>9 DEF ReadClosing, Next1
    <2>2. PICK p : p = endElement(parser, Head(input).close)  OBVIOUS
    <2>3. parser' = p /\ phase' = (IF p.thrown = "no" THEN "parsing" ELSE "thrown")
        BY <2>1, <2>2 DEF Continue
    <2>4. RootSeen(parser)  BY <1>5, <1>6, <1>7, <2>1
    <2>5. Finished(parser, p)  BY <1>7, <2>1, <2>2, Finishes
    <2>6. p.thrown = "no" => RootSeen(p)  BY <1>7, <2>1, <2>4, <2>5 DEF Finished
    <2> QED  BY <2>3, <2>6 DEF RootInv
<1>10. CASE \E n \in 1..MaxText : ReadText(n)
    <2>1. PICK n \in 1..MaxText : ReadText(n)  BY <1>10
    <2>2. phase = "parsing" /\ "chars" \in DOMAIN Head(input)
          /\ Continue(charData(parser, [i \in 1..n |-> Head(input).chars[i][2]]))
        BY <2>1 DEF ReadText, Next1
    <2>3. PICK p : p = charData(parser, [i \in 1..n |-> Head(input).chars[i][2]])  OBVIOUS
    <2>4. parser' = p /\ phase' = (IF p.thrown = "no" THEN "parsing" ELSE "thrown")
        BY <2>2, <2>3 DEF Continue
    <2>5. RootSeen(parser)  BY <1>5, <1>6, <1>7, <2>2
    <2>6. RootSeen(p)
        <3>1. RootSeen(parser) => RootSeen(parser')  BY <2>1, TextKeeps
        <3> QED  BY <2>4, <2>5, <3>1
    <2> QED  BY <2>4, <2>6 DEF RootInv
<1>11. CASE ReadMarkupInText
    <2>1. phase = "parsing" /\ Continue(Throw(parser, "XmlException"))
        BY <1>11 DEF ReadMarkupInText
    <2>2. PICK p : p = Throw(parser, "XmlException")  OBVIOUS
    <2>3. p.thrown = "XmlException"  BY <1>7, <2>1, <2>2, Throws
    <2>4. phase' = "thrown"  BY <2>1, <2>2, <2>3 DEF Continue
    <2> QED  BY <2>4 DEF RootInv
<1>12. CASE EndOfContent
    <2>1. phase = "parsing" /\ whole' = (input = <<>>) /\ phase' \in {"thrown", "returned"}
          /\ parser' = parser
        BY <1>12 DEF EndOfContent
    <2>2. whole' => RootSeen(parser)  BY <1>3, <1>7, <2>1
    <2> QED  BY <2>1, <2>2 DEF RootInv, RootSeen
<1>13. CASE \E tag \in Extras : InsertElement(tag)
    <2>1. phase = "parsing" /\ input # doc.tokens /\ parser' = parser /\ phase' = phase
        BY <1>13 DEF InsertElement
    <2>2. RootSeen(parser)  BY <1>7, <2>1
    <2> QED  BY <2>1, <2>2 DEF RootInv, RootSeen
<1>14. CASE ConnectionException  BY <1>14 DEF ConnectionException, RootInv
<1>15. CASE DestroyParser  BY <1>15 DEF DestroyParser, RootInv
<1>16. CASE UNCHANGED vars  BY <1>16 DEF vars, RootInv, RootSeen, Parser
<1> QED
    BY <1>8, <1>9, <1>10, <1>11, <1>12, <1>13, <1>14, <1>15, <1>16 DEF Next

LEMMA AcceptedInv == IInv /\ RootInv => AcceptedUnderstood
<1> SUFFICES ASSUME IInv, RootInv, phase = "returned", whole
             PROVE  parser.ignored = 0 /\ parser.complete = (doc.kind # "value")
    BY DEF AcceptedUnderstood
<1>1. Good(parser) /\ Depth(parser) = 0 /\ parser.kind = doc.kind
    BY DEF IInv, Shapes, Core, Good
<1>2. Len(parser.stack) = 1 /\ parser.ignored = 0  BY <1>1, DepthOf
<1>3. RootSeen(parser)  BY DEF RootInv
<1>4. parser.kind \in Kinds /\ parser.complete \in BOOLEAN  BY <1>1, KindOf DEF Good, IsParser
<1>5. CASE parser.kind = "call"
    <2>1. parser.complete  BY <1>2, <1>3, <1>5, RootCall
    <2>2. parser.kind # "value"  BY <1>5
    <2> QED  BY <1>1, <1>2, <1>4, <2>1, <2>2
<1>6. CASE parser.kind = "response"
    <2>1. parser.complete  BY <1>2, <1>3, <1>6, RootResponse
    <2>2. parser.kind # "value"  BY <1>6
    <2> QED  BY <1>1, <1>2, <1>4, <2>1, <2>2
<1>7. CASE parser.kind = "value"
    <2>1. ~parser.complete  BY <1>3, <1>7, RootValue
    <2> QED  BY <1>1, <1>2, <1>4, <1>7, <2>1
<1> QED  BY <1>4, <1>5, <1>6, <1>7 DEF Kinds

(* If each document opens with the root of its kind, as getXml writes it,   *)
(* no message with a tag that the call or response parser does not know is  *)
(* ever accepted as a whole: its closing tag cannot match, whatever else    *)
(* comes.  (A root of another kind would be ignored, or found incomplete,   *)
(* and nobody asks isComplete.)                                             *)
THEOREM Understood == RootsExpected => (Spec => []AcceptedUnderstood)
<1>1. RootsExpected => RootsExpected'  BY DEF RootsExpected
<1>2. RootsExpected /\ IInv /\ RootInv /\ [Next]_vars => RootInv'  BY RootNext
<1>3. IInv /\ RootInv => AcceptedUnderstood  BY AcceptedInv
<1> QED  BY <1>1, <1>2, <1>3, RootInit, Invariance, PTL DEF Spec

-----------------------------------------------------------------------------
(***************************************************************************)
(* What a document says.                                                   *)
(*                                                                         *)
(* The elements of a document by their places: no two overlap, each has a  *)
(* parent, and those that are open at a place p are a branch from the      *)
(* whole document to the innermost of them.                                *)
(***************************************************************************)
Tree(e, len) ==
    /\ len \in Nat
    /\ 0 \in DOMAIN e /\ e[0] = len + 1
    /\ DOMAIN e \subseteq 0..len
    /\ \A i \in DOMAIN e : e[i] \in Nat /\ i < e[i]
    /\ \A i \in DOMAIN e : i # 0 => e[i] <= len
    /\ \A i, j \in DOMAIN e : i < j => e[i] < j \/ e[j] < e[i]
    /\ \A i, j \in DOMAIN e : e[i] # j

Branch(e, at, n, p) ==
    /\ n \in Nat \ {0}
    /\ \A k \in 1..n : at[k] \in DOMAIN e /\ at[k] <= p /\ p < e[at[k]]
    /\ \A i \in DOMAIN e : i <= p /\ p < e[i] => \E k \in 1..n : i = at[k]
    /\ at[1] = 0
    /\ \A a, b \in 1..n : a < b => at[a] < at[b]
    /\ \A k \in 1..n - 1 : at[k + 1] \in Parts(e, at[k])

LEMMA Places ==
    ASSUME NEW e, NEW len, Tree(e, len), NEW i \in DOMAIN e
    PROVE  i \in Nat /\ e[i] \in Nat /\ i < e[i] /\ e[i] <= len + 1
<1>1. i \in 0..len /\ len \in Nat  BY DEF Tree
<1>2. e[i] \in Nat /\ i < e[i]  BY DEF Tree
<1>3. e[i] <= len + 1
    <2>1. CASE i = 0  BY <1>1, <2>1 DEF Tree
    <2>2. CASE i # 0
        <3>1. e[i] <= len  BY <2>2 DEF Tree
        <3> QED  BY <1>1, <1>2, <3>1
    <2> QED  BY <2>1, <2>2
<1> QED  BY <1>1, <1>2, <1>3

LEMMA PartFacts ==
    ASSUME NEW e, NEW i, NEW j \in Parts(e, i)
    PROVE  /\ j \in DOMAIN e /\ i < j /\ j < e[i]
           /\ \A k \in DOMAIN e : ~(i < k /\ k < e[i] /\ k < j /\ j < e[k])
BY DEF Parts, Inside

LEMMA PartIs ==
    ASSUME NEW e, NEW i, NEW j \in DOMAIN e, i < j, j < e[i],
           \A k \in DOMAIN e : ~(i < k /\ k < e[i] /\ k < j /\ j < e[k])
    PROVE  j \in Parts(e, i)
BY DEF Parts, Inside

LEMMA PartEnds ==
    ASSUME NEW e, NEW len, Tree(e, len), NEW i \in DOMAIN e, NEW j \in Parts(e, i)
    PROVE  e[j] < e[i] /\ j \in Nat /\ i \in Nat /\ e[j] \in Nat /\ e[i] \in Nat
<1>1. j \in DOMAIN e /\ i < j /\ j < e[i]  BY PartFacts
<1>2. e[i] < j \/ e[j] < e[i]  BY <1>1 DEF Tree
<1>3. i \in Nat /\ j \in Nat /\ e[i] \in Nat /\ e[j] \in Nat  BY <1>1, Places
<1> QED  BY <1>1, <1>2, <1>3

LEMMA OneParent ==
    ASSUME NEW e, NEW len, Tree(e, len), NEW a \in DOMAIN e, NEW b \in DOMAIN e, NEW j,
           j \in Parts(e, a), j \in Parts(e, b)
    PROVE  a = b
<1>1. j \in DOMAIN e /\ a < j /\ j < e[a] /\ b < j /\ j < e[b]  BY PartFacts
<1>2. a \in Nat /\ b \in Nat /\ j \in Nat /\ e[a] \in Nat /\ e[b] \in Nat  BY <1>1, Places
<1>3. ~(a < b)
    <2>1. ~(a < b /\ b < e[a] /\ b < j /\ j < e[b])  BY PartFacts
    <2> QED  BY <1>1, <1>2, <2>1
<1>4. ~(b < a)
    <2>1. ~(b < a /\ a < e[b] /\ a < j /\ j < e[a])  BY PartFacts
    <2> QED  BY <1>1, <1>2, <2>1
<1> QED  BY <1>2, <1>3, <1>4

LEMMA EndsApart ==
    ASSUME NEW e, NEW len, Tree(e, len), NEW a \in DOMAIN e, NEW b \in DOMAIN e, e[a] = e[b]
    PROVE  a = b
<1>1. a \in Nat /\ b \in Nat /\ e[a] \in Nat /\ e[b] \in Nat /\ a < e[a] /\ b < e[b]  BY Places
<1>2. a < b => e[a] < b \/ e[b] < e[a]  BY DEF Tree
<1>3. b < a => e[b] < a \/ e[a] < e[b]  BY DEF Tree
<1> QED  BY <1>1, <1>2, <1>3

LEMMA HasParent ==
    ASSUME NEW e, NEW len, Tree(e, len), NEW j \in DOMAIN e, j # 0
    PROVE  \E i \in DOMAIN e : j \in Parts(e, i)
<1> DEFINE T == {j - i : i \in {k \in DOMAIN e : k < j /\ j < e[k]}}
<1>1. j \in Nat  BY Places
<1>2. T \subseteq Nat
    <2>1. ASSUME NEW i \in DOMAIN e, i < j PROVE j - i \in Nat
        <3>1. i \in Nat  BY Places
        <3> QED  BY <1>1, <2>1, <3>1
    <2> QED  BY <2>1
<1>3. T # {}
    <2>1. 0 \in DOMAIN e /\ 0 < j /\ j < e[0]
        <3>1. e[0] = len + 1 /\ j \in 0..len /\ len \in Nat /\ 0 \in DOMAIN e  BY DEF Tree
        <3> QED  BY <3>1
    <2>2. j - 0 \in T  BY <2>1
    <2> QED  BY <2>2
<1> HIDE DEF T
<1>4. PICK d \in T : \A c \in T : d <= c  BY <1>2, <1>3, NatMinimum
<1>5. PICK i \in DOMAIN e : i < j /\ j < e[i] /\ d = j - i  BY DEF T
<1>6. ASSUME NEW k \in DOMAIN e, i < k, k < j, j < e[k] PROVE FALSE
    <2>1. j - k \in T  BY <1>6 DEF T
    <2>2. j - i <= j - k  BY <1>4, <1>5, <2>1
    <2>3. i \in Nat /\ k \in Nat  BY Places
    <2> QED  BY <1>1, <1>6, <2>2, <2>3
<1>7. j \in Parts(e, i)  BY <1>5, <1>6, PartIs
<1> QED  BY <1>7

(* Parts of one element come one after the other. *)
LEMMA PartsApart ==
    ASSUME NEW e, NEW len, Tree(e, len), NEW i \in DOMAIN e,
           NEW a \in Parts(e, i), NEW b \in Parts(e, i), a # b
    PROVE  e[a] < b \/ e[b] < a
<1>1. a \in DOMAIN e /\ b \in DOMAIN e /\ i < a /\ a < e[i] /\ i < b /\ b < e[i]  BY PartFacts
<1>2. a \in Nat /\ b \in Nat /\ i \in Nat /\ e[a] \in Nat /\ e[b] \in Nat /\ e[i] \in Nat
      /\ a < e[a] /\ b < e[b]
    BY <1>1, Places
<1>3. ~(a < b /\ b < e[a])
    <2>1. ~(i < a /\ a < e[i] /\ a < b /\ b < e[a])  BY <1>1, PartFacts
    <2> QED  BY <1>1, <2>1
<1>4. ~(b < a /\ a < e[b])
    <2>1. ~(i < b /\ b < e[i] /\ b < a /\ a < e[b])  BY <1>1, PartFacts
    <2> QED  BY <1>1, <2>1
<1>5. e[a] # b /\ e[b] # a  BY <1>1 DEF Tree
<1> QED  BY <1>2, <1>3, <1>4, <1>5

-----------------------------------------------------------------------------
(***************************************************************************)
(* The branch when a tag or a text at p + 1 has been read.                 *)
(***************************************************************************)
LEMMA BranchReads ==
    ASSUME NEW e, NEW len, Tree(e, len), NEW at, NEW n, NEW p \in Nat, Branch(e, at, n, p),
           p + 1 \notin DOMAIN e, \A i \in DOMAIN e : e[i] # p + 1
    PROVE  Branch(e, at, n, p + 1)
<1>1. ASSUME NEW k \in 1..n PROVE at[k] \in DOMAIN e /\ at[k] <= p + 1 /\ p + 1 < e[at[k]]
    <2>1. at[k] \in DOMAIN e /\ at[k] <= p /\ p < e[at[k]]  BY DEF Branch
    <2>2. at[k] \in Nat /\ e[at[k]] \in Nat /\ e[at[k]] # p + 1  BY <2>1, Places
    <2> QED  BY <2>1, <2>2
<1>2. ASSUME NEW i \in DOMAIN e, i <= p + 1, p + 1 < e[i] PROVE \E k \in 1..n : i = at[k]
    <2>1. i \in Nat /\ e[i] \in Nat /\ i # p + 1  BY Places
    <2>2. i <= p /\ p < e[i]  BY <1>2, <2>1
    <2> QED  BY <2>2 DEF Branch
<1> QED  BY <1>1, <1>2 DEF Branch

LEMMA BranchOpens ==
    ASSUME NEW e, NEW len, Tree(e, len), NEW at, NEW n, NEW p \in Nat, Branch(e, at, n, p),
           p + 1 \in DOMAIN e
    PROVE  LET longer == [k \in 1..n + 1 |-> IF k <= n THEN at[k] ELSE p + 1]
           IN  Branch(e, longer, n + 1, p + 1) /\ p + 1 \in Parts(e, at[n])
<1> DEFINE longer == [k \in 1..n + 1 |-> IF k <= n THEN at[k] ELSE p + 1]
<1>1. n \in Nat \ {0} /\ at[1] = 0  BY DEF Branch
<1>2. longer[n + 1] = p + 1 /\ \A k \in 1..n : longer[k] = at[k]  BY <1>1
<1> HIDE DEF longer
<1>3. ASSUME NEW k \in 1..n
      PROVE  at[k] \in DOMAIN e /\ at[k] <= p /\ p + 1 < e[at[k]] /\ at[k] \in Nat
    <2>1. at[k] \in DOMAIN e /\ at[k] <= p /\ p < e[at[k]]  BY DEF Branch
    <2>2. at[k] \in Nat /\ e[at[k]] \in Nat  BY <2>1, Places
    <2>3. e[at[k]] # p + 1  BY <2>1 DEF Tree
    <2> QED  BY <2>1, <2>2, <2>3
<1>4. p + 1 < e[p + 1]  BY Places
<1>5. p + 1 \in Parts(e, at[n])
    <2>1. n \in 1..n  BY <1>1
    <2>2. at[n] < p + 1 /\ p + 1 < e[at[n]]  BY <1>3, <2>1
    <2>3. ASSUME NEW k \in DOMAIN e, at[n] < k, k < p + 1, p + 1 < e[k] PROVE FALSE
        <3>1. k \in Nat /\ e[k] \in Nat  BY Places
        <3>2. k <= p /\ p < e[k]  BY <2>3, <3>1
        <3>3. PICK m \in 1..n : k = at[m]  BY <3>2 DEF Branch
        <3>4. m < n => at[m] < at[n]  BY <2>1 DEF Branch
        <3>5. m < n  BY <1>1, <1>3, <2>1, <2>3, <3>3
        <3> QED  BY <1>3, <2>1, <2>3, <3>3, <3>4, <3>5
    <2> QED  BY <2>2, <2>3, PartIs
<1>6. ASSUME NEW k \in 1..n + 1
      PROVE  longer[k] \in DOMAIN e /\ longer[k] <= p + 1 /\ p + 1 < e[longer[k]]
    <2>1. CASE k \in 1..n
        <3>1. longer[k] = at[k]  BY <1>2, <2>1
        <3>2. at[k] \in DOMAIN e /\ at[k] <= p /\ p + 1 < e[at[k]] /\ at[k] \in Nat  BY <1>3, <2>1
        <3> QED  BY <3>1, <3>2
    <2>2. CASE k = n + 1  BY <1>2, <1>4, <2>2
    <2> QED  BY <1>1, <2>1, <2>2
<1>7. ASSUME NEW i \in DOMAIN e, i <= p + 1, p + 1 < e[i]
      PROVE  \E k \in 1..n + 1 : i = longer[k]
    <2>1. i \in Nat /\ e[i] \in Nat  BY Places
    <2>2. CASE i = p + 1
        <3>1. n + 1 \in 1..n + 1  BY <1>1
        <3> QED  BY <1>2, <2>2, <3>1
    <2>3. CASE i # p + 1
        <3>1. i <= p /\ p < e[i]  BY <1>7, <2>1, <2>3
        <3>2. PICK k \in 1..n : i = at[k]  BY <3>1 DEF Branch
        <3>3. k \in 1..n + 1  BY <1>1
        <3> QED  BY <1>2, <3>2, <3>3
    <2> QED  BY <2>2, <2>3
<1>8. ASSUME NEW a \in 1..n + 1, NEW b \in 1..n + 1, a < b PROVE longer[a] < longer[b]
    <2>1. a \in 1..n  BY <1>1, <1>8
    <2>2. CASE b \in 1..n
        <3>1. at[a] < at[b]  BY <1>8, <2>1, <2>2 DEF Branch
        <3> QED  BY <1>2, <2>1, <2>2, <3>1
    <2>3. CASE b = n + 1
        <3>1. at[a] <= p /\ at[a] \in Nat  BY <1>3, <2>1
        <3> QED  BY <1>2, <2>1, <2>3, <3>1
    <2> QED  BY <1>1, <2>2, <2>3
<1>9. ASSUME NEW k \in 1..n PROVE longer[k + 1] \in Parts(e, longer[k])
    <2>1. CASE k = n  BY <1>2, <1>5, <2>1
    <2>2. CASE k # n
        <3>1. k \in 1..n - 1 /\ k + 1 \in 1..n  BY <1>1, <2>2
        <3>2. at[k + 1] \in Parts(e, at[k])  BY <3>1 DEF Branch
        <3> QED  BY <1>2, <3>1, <3>2
    <2> QED  BY <2>1, <2>2
<1>10. n + 1 \in Nat \ {0} /\ longer[1] = 0 /\ (n + 1) - 1 = n
    <2>1. 1 \in 1..n  BY <1>1
    <2> QED  BY <1>1, <1>2, <2>1
<1>11. Branch(e, longer, n + 1, p + 1)  BY <1>6, <1>7, <1>8, <1>9, <1>10 DEF Branch
<1> QED  BY <1>5, <1>11 DEF longer

LEMMA BranchCloses ==
    ASSUME NEW e, NEW len, Tree(e, len), NEW at, NEW n, NEW p \in Nat, Branch(e, at, n, p),
           p < len, NEW j \in DOMAIN e, e[j] = p + 1
    PROVE  /\ j = at[n] /\ n - 1 \in Nat \ {0} /\ j \in Parts(e, at[n - 1])
           /\ at[n - 1] \in DOMAIN e
           /\ Branch(e, at, n - 1, p + 1)
<1>1. n \in Nat \ {0} /\ at[1] = 0  BY DEF Branch
<1>2. \A k \in 1..n : at[k] \in DOMAIN e /\ at[k] <= p /\ p < e[at[k]]  BY DEF Branch
<1>3. j \in Nat /\ j < e[j]  BY Places
<1>4. PICK m \in 1..n : j = at[m]
    <2>1. j <= p /\ p < e[j]  BY <1>3
    <2> QED  BY <2>1 DEF Branch
<1>5. m = n
    <2>1. ASSUME m # n PROVE FALSE
        <3>1. n \in 1..n /\ m < n  BY <1>1, <2>1
        <3>2. at[m] < at[n]  BY <3>1 DEF Branch
        <3>3. e[j] < at[n] \/ e[at[n]] < e[j]  BY <1>2, <1>4, <3>1, <3>2 DEF Tree
        <3>4. at[n] \in Nat /\ e[at[n]] \in Nat  BY <1>2, <3>1, Places
        <3> QED  BY <1>2, <3>1, <3>3, <3>4
    <2> QED  BY <2>1
<1>6. n # 1
    <2>1. j # 0
        <3>1. e[0] = len + 1 /\ len \in Nat  BY DEF Tree
        <3> QED  BY <3>1
    <2> QED  BY <1>1, <1>4, <1>5, <2>1
<1>7. PICK m1 \in Nat \ {0} : n = m1 + 1
    <2>1. n - 1 \in Nat \ {0} /\ n = (n - 1) + 1  BY <1>1, <1>6
    <2> QED  BY <2>1
<1>8. n - 1 = m1 /\ m1 \in 1..n - 1 /\ m1 \in 1..n  BY <1>7
<1>9. j \in Parts(e, at[m1])
    <2>1. at[m1 + 1] \in Parts(e, at[m1])  BY <1>8 DEF Branch
    <2> QED  BY <1>4, <1>5, <1>7, <2>1
<1>10. ASSUME NEW k \in 1..m1 PROVE at[k] \in DOMAIN e /\ at[k] <= p + 1 /\ p + 1 < e[at[k]]
    <2>1. k \in 1..n /\ n \in 1..n /\ k < n  BY <1>7
    <2>2. at[k] < at[n]  BY <2>1 DEF Branch
    <2>3. at[k] \in DOMAIN e /\ at[k] <= p /\ p < e[at[k]]  BY <1>2, <2>1
    <2>4. at[k] \in Nat /\ e[at[k]] \in Nat  BY <2>3, Places
    <2>5. e[at[k]] # p + 1
        <3>1. e[at[k]] = e[j] => at[k] = j  BY <2>3, EndsApart
        <3> QED  BY <1>3, <1>4, <1>5, <2>2, <2>4, <3>1
    <2> QED  BY <2>3, <2>4, <2>5
<1>11. ASSUME NEW i \in DOMAIN e, i <= p + 1, p + 1 < e[i] PROVE \E k \in 1..m1 : i = at[k]
    <2>1. i \in Nat /\ e[i] \in Nat  BY Places
    <2>2. i # p + 1  BY DEF Tree
    <2>3. i <= p /\ p < e[i]  BY <1>11, <2>1, <2>2
    <2>4. PICK k \in 1..n : i = at[k]  BY <2>3 DEF Branch
    <2>5. k # n  BY <1>4, <1>5, <1>11, <2>1, <2>4
    <2>6. k \in 1..m1  BY <1>7, <2>5
    <2> QED  BY <2>4, <2>6
<1>12. \A a, b \in 1..m1 : a < b => at[a] < at[b]
    <2>1. \A a \in 1..m1 : a \in 1..n  BY <1>7
    <2> QED  BY <2>1 DEF Branch
<1>13. \A k \in 1..m1 - 1 : at[k + 1] \in Parts(e, at[k])
    <2>1. \A k \in 1..m1 - 1 : k \in 1..n - 1  BY <1>7
    <2> QED  BY <2>1 DEF Branch
<1>14. Branch(e, at, m1, p + 1)  BY <1>1, <1>10, <1>11, <1>12, <1>13 DEF Branch
<1>15. at[m1] \in DOMAIN e  BY <1>2, <1>8
<1> QED  BY <1>4, <1>5, <1>8, <1>9, <1>14, <1>15

-----------------------------------------------------------------------------
(***************************************************************************)
(* What has been read of an element at a place p.                          *)
(***************************************************************************)
Done(e, i, p) == {j \in Parts(e, i) : e[j] <= p}
Met(e, i, p) == {j \in Parts(e, i) : j <= p}
Full(t, e, i, p) == {m \in Parts(e, i) : Counts(t, e, m) /\ \A j \in Parts(e, m) : e[j] <= p}

LEMMA DoneSame ==
    ASSUME NEW t, NEW e, NEW len, Tree(e, len), NEW p \in Nat, NEW i,
           \A j \in DOMAIN e : e[j] # p + 1
    PROVE  Done(e, i, p + 1) = Done(e, i, p) /\ Full(t, e, i, p + 1) = Full(t, e, i, p)
<1>1. \A a, j : j \in Parts(e, a) => j \in DOMAIN e  BY PartFacts
<1>2. \A j \in DOMAIN e : e[j] \in Nat  BY Places
<1>3. \A a : \A j \in Parts(e, a) : e[j] <= p + 1 <=> e[j] <= p  BY <1>1, <1>2
<1> QED  BY <1>3 DEF Done, Full

LEMMA MetSame ==
    ASSUME NEW e, NEW len, Tree(e, len), NEW p \in Nat, NEW i, p + 1 \notin Parts(e, i)
    PROVE  Met(e, i, p + 1) = Met(e, i, p)
<1>1. \A j \in Parts(e, i) : j \in DOMAIN e /\ j # p + 1  BY PartFacts
<1>2. \A j \in DOMAIN e : j \in Nat  BY Places
<1>3. \A j \in Parts(e, i) : j <= p + 1 <=> j <= p  BY <1>1, <1>2
<1> QED  BY <1>3 DEF Met

LEMMA DoneCloses ==
    ASSUME NEW t, NEW e, NEW len, Tree(e, len), NEW p \in Nat, NEW i \in DOMAIN e,
           NEW j \in DOMAIN e, e[j] = p + 1
    PROVE  /\ Met(e, i, p + 1) = Met(e, i, p)
           /\ j \notin Parts(e, i) => Done(e, i, p + 1) = Done(e, i, p)
           /\ j \in Parts(e, i) => Done(e, i, p + 1) = Done(e, i, p) \cup {j} /\ j \notin Done(e, i, p)
           /\ (\A m \in Parts(e, i) : j \notin Parts(e, m)) =>
                Full(t, e, i, p + 1) = Full(t, e, i, p)
<1>1. \A a : \A k \in Parts(e, a) : k \in DOMAIN e  BY PartFacts
<1>2. \A k \in DOMAIN e : e[k] \in Nat  BY Places
<1>3. \A k \in DOMAIN e : k # j => e[k] # p + 1  BY EndsApart
<1>4. \A a : \A k \in Parts(e, a) : k # j => (e[k] <= p + 1 <=> e[k] <= p)
    BY <1>1, <1>2, <1>3
<1>5. e[j] <= p + 1 /\ ~(e[j] <= p)  OBVIOUS
<1>6. Met(e, i, p + 1) = Met(e, i, p)
    <2>1. p + 1 \notin DOMAIN e  BY DEF Tree
    <2>2. p + 1 \notin Parts(e, i)  BY <1>1, <2>1
    <2> QED  BY <2>2, MetSame
<1>7. ASSUME j \notin Parts(e, i) PROVE Done(e, i, p + 1) = Done(e, i, p)
    BY <1>4, <1>7 DEF Done
<1>8. ASSUME j \in Parts(e, i)
      PROVE  Done(e, i, p + 1) = Done(e, i, p) \cup {j} /\ j \notin Done(e, i, p)
    BY <1>4, <1>5, <1>8 DEF Done
<1>9. ASSUME \A m \in Parts(e, i) : j \notin Parts(e, m)
      PROVE  Full(t, e, i, p + 1) = Full(t, e, i, p)
    <2>1. ASSUME NEW m \in Parts(e, i)
          PROVE  (\A k \in Parts(e, m) : e[k] <= p + 1) <=> \A k \in Parts(e, m) : e[k] <= p
        <3>1. \A k \in Parts(e, m) : k # j  BY <1>9
        <3> QED  BY <1>4, <3>1
    <2> QED  BY <2>1 DEF Full
<1> QED  BY <1>6, <1>7, <1>8, <1>9

(* When an element closes, all its parts have been read. *)
LEMMA AllDone ==
    ASSUME NEW e, NEW len, Tree(e, len), NEW p \in Nat, NEW i \in DOMAIN e, e[i] <= p + 1
    PROVE  Done(e, i, p) = Parts(e, i) /\ Met(e, i, p) = Parts(e, i)
<1>1. ASSUME NEW j \in Parts(e, i) PROVE e[j] <= p /\ j <= p
    <2>1. e[j] < e[i] /\ e[j] \in Nat /\ e[i] \in Nat /\ j \in Nat  BY PartEnds
    <2>2. j \in DOMAIN e  BY PartFacts
    <2>3. j < e[j]  BY <2>2, Places
    <2> QED  BY <2>1, <2>3
<1> QED  BY <1>1 DEF Done, Met

-----------------------------------------------------------------------------
(***************************************************************************)
(* Places in their order.                                                  *)
(***************************************************************************)
LEMMA RankFacts ==
    ASSUME NEW S, S \subseteq Nat, IsFiniteSet(S), NEW a \in S
    PROVE  Rank(S, a) \in 1..Cardinality(S) /\ \A b \in S : a < b => Rank(S, a) < Rank(S, b)
<1>1. \A b \in Nat : /\ IsFiniteSet({i \in S : i <= b})
                     /\ Cardinality({i \in S : i <= b}) <= Cardinality(S)
                     /\ Cardinality({i \in S : i <= b}) \in Nat
    <2> TAKE b \in Nat
    <2> DEFINE T == {i \in S : i <= b}
    <2>1. T \in SUBSET S  OBVIOUS
    <2> HIDE DEF T
    <2>2. IsFiniteSet(T) /\ Cardinality(T) <= Cardinality(S)  BY <2>1, FS_Subset
    <2>3. Cardinality(T) \in Nat  BY <2>2, FS_CardinalityType
    <2> QED  BY <2>2, <2>3 DEF T
<1>2. Cardinality(S) \in Nat  BY FS_CardinalityType
<1>3. a \in {i \in S : i <= a}  OBVIOUS
<1>4. Cardinality({i \in S : i <= a}) # 0
    <2>1. {i \in S : i <= a} # {}  BY <1>3
    <2> QED  BY <1>1, <2>1, FS_EmptySet
<1>5. Rank(S, a) \in 1..Cardinality(S)  BY <1>1, <1>2, <1>4 DEF Rank
<1>6. ASSUME NEW b \in S, a < b PROVE Rank(S, a) < Rank(S, b)
    <2> DEFINE A == {i \in S : i <= a}
               B == {i \in S : i <= b}
    <2>0. \A i \in S : i \in Nat  OBVIOUS
    <2>1. A \in SUBSET B /\ b \in B /\ b \notin A
        <3>1. \A i \in S : i <= a => i <= b  BY <1>6, <2>0
        <3>2. b <= b /\ ~(b <= a)  BY <1>6, <2>0
        <3> QED  BY <3>1, <3>2
    <2>2. IsFiniteSet(B) /\ Cardinality(B) \in Nat /\ Cardinality(A) \in Nat  BY <1>1
    <2> HIDE DEF A, B
    <2>3. Cardinality(A) <= Cardinality(B) /\ (Cardinality(B) = Cardinality(A) => B = A)
        BY <2>1, <2>2, FS_Subset
    <2>4. Cardinality(A) < Cardinality(B)  BY <2>1, <2>2, <2>3
    <2> QED  BY <2>4 DEF A, B, Rank
<1> QED  BY <1>5, <1>6

LEMMA InOrderAt ==
    ASSUME NEW S, S \subseteq Nat, IsFiniteSet(S), NEW a \in S
    PROVE  Rank(S, a) \in 1..Cardinality(S) /\ InOrder(S)[Rank(S, a)] = a
<1>1. Rank(S, a) \in 1..Cardinality(S)  BY RankFacts
<1>2. ASSUME NEW b \in S, Rank(S, b) = Rank(S, a) PROVE b = a
    <2>1. Rank(S, a) \in 1..Cardinality(S) /\ Rank(S, b) \in 1..Cardinality(S)
          /\ (a < b => Rank(S, a) < Rank(S, b)) /\ (b < a => Rank(S, b) < Rank(S, a))
        BY RankFacts
    <2>2. Cardinality(S) \in Nat  BY FS_CardinalityType
    <2> QED  BY <1>2, <2>1, <2>2
<1>3. PICK r : r = Rank(S, a)  OBVIOUS
<1>4. (CHOOSE j \in S : Rank(S, j) = r) = a  BY <1>2, <1>3
<1>5. InOrder(S)[r] = a  BY <1>1, <1>3, <1>4 DEF InOrder
<1> QED  BY <1>1, <1>3, <1>5

LEMMA InOrderIn ==
    ASSUME NEW S, S \subseteq Nat, IsFiniteSet(S), NEW k \in 1..Cardinality(S)
    PROVE  InOrder(S)[k] \in S
<1> DEFINE r == [a \in S |-> Rank(S, a)]
<1>1. Cardinality(S) \in Nat  BY FS_CardinalityType
<1>2. IsFiniteSet(1..Cardinality(S)) /\ Cardinality(1..Cardinality(S)) = Cardinality(S)
    <2>1. 1 \in Int /\ Cardinality(S) \in Int  BY <1>1
    <2> QED  BY <1>1, <2>1, FS_Interval
<1>3. r \in [S -> 1..Cardinality(S)]  BY RankFacts
<1>4. ASSUME NEW a \in S, NEW b \in S, r[a] = r[b] PROVE a = b
    <2>1. r[a] = Rank(S, a) /\ r[b] = Rank(S, b)  OBVIOUS
    <2>2. InOrder(S)[Rank(S, a)] = a /\ InOrder(S)[Rank(S, b)] = b  BY InOrderAt
    <2> QED  BY <1>4, <2>1, <2>2
<1> HIDE DEF r
<1>5. r \in Injection(S, 1..Cardinality(S))  BY <1>3, <1>4 DEF Injection, IsInjective
<1>6. r \in Surjection(S, 1..Cardinality(S))  BY <1>2, <1>5, FS_Injection
<1>7. PICK a \in S : r[a] = k  BY <1>6 DEF Surjection
<1>8. Rank(S, a) = k  BY <1>7 DEF r
<1> QED  BY <1>8, InOrderAt

(* The next of S after those in D. *)
LEMMA InOrderNext ==
    ASSUME NEW S, S \subseteq Nat, IsFiniteSet(S), NEW D \in SUBSET S, NEW j \in S \ D,
           \A d \in D : d < j, \A i \in S \ D : j <= i
    PROVE  /\ Cardinality(D) \in Nat /\ Cardinality(D \cup {j}) = Cardinality(D) + 1
           /\ Cardinality(D) + 1 <= Cardinality(S)
           /\ InOrder(S)[Cardinality(D) + 1] = j
<1>1. IsFiniteSet(D) /\ Cardinality(D) \in Nat  BY FS_Subset, FS_CardinalityType
<1>2. Cardinality(D \cup {j}) = Cardinality(D) + 1  BY <1>1, FS_AddElement
<1>3. {i \in S : i <= j} = D \cup {j}
    <2>0. \A i \in S : i \in Nat  OBVIOUS
    <2>1. \A i \in D : i <= j  BY <2>0
    <2>2. \A i \in S \ D : i <= j => i = j  BY <2>0
    <2>3. j <= j  BY <2>0
    <2> QED  BY <2>1, <2>2, <2>3
<1>4. Rank(S, j) = Cardinality(D) + 1  BY <1>2, <1>3 DEF Rank
<1>5. Rank(S, j) \in 1..Cardinality(S) /\ InOrder(S)[Rank(S, j)] = j  BY InOrderAt
<1>6. Cardinality(S) \in Nat  BY FS_CardinalityType
<1> QED  BY <1>1, <1>2, <1>4, <1>5, <1>6

LEMMA PartsFinite ==
    ASSUME NEW e, NEW len, Tree(e, len), NEW i
    PROVE  /\ Parts(e, i) \subseteq Nat /\ IsFiniteSet(Parts(e, i))
           /\ DOMAIN e \subseteq Nat /\ IsFiniteSet(DOMAIN e)
<1>1. Parts(e, i) \subseteq DOMAIN e  BY PartFacts
<1>2. DOMAIN e \subseteq 0..len /\ len \in Nat  BY DEF Tree
<1>3. IsFiniteSet(0..len)
    <2>1. 0 \in Int /\ len \in Int  BY <1>2
    <2> QED  BY <2>1, FS_Interval
<1>4. IsFiniteSet(DOMAIN e)  BY <1>2, <1>3, FS_Subset
<1>5. IsFiniteSet(Parts(e, i))  BY <1>1, <1>4, FS_Subset
<1> QED  BY <1>1, <1>2, <1>4, <1>5

-----------------------------------------------------------------------------
(***************************************************************************)
(* What the elements say: each says what its parts make of it.             *)
(***************************************************************************)
LEMMA PartWithIs ==
    ASSUME NEW t, NEW e, NEW i, NEW tag, HasPart(t, e, i, tag)
    PROVE  PartWith(t, e, i, tag) \in Parts(e, i) /\ Tag(t, PartWith(t, e, i, tag)) = tag
BY DEF HasPart, PartWith

IsFirst(t, e, M, n, m) ==
    m \in M /\ NameIn(t, e, m) = n /\ \A k \in M : NameIn(t, e, k) = n => m <= k

LEMMA FirstNamedIs ==
    ASSUME NEW t, NEW e, NEW M, M \subseteq Nat, NEW n, NEW m \in M, NameIn(t, e, m) = n
    PROVE  IsFirst(t, e, M, n, FirstNamed(t, e, M, n))
<1> DEFINE T == {k \in M : NameIn(t, e, k) = n}
<1>1. T \subseteq Nat /\ T # {}  OBVIOUS
<1>2. PICK a \in T : \A b \in T : a <= b  BY <1>1, NatMinimum
<1>3. a \in M /\ NameIn(t, e, a) = n /\ \A k \in M : NameIn(t, e, k) = n => a <= k  BY <1>2
<1> HIDE DEF T
<1> QED  BY <1>3 DEF FirstNamed, IsFirst

LEMMA SaidAgrees ==
    ASSUME NEW t, NEW e, NEW len, Tree(e, len), NEW i \in DOMAIN e, NEW g, NEW h,
           \A j \in DOMAIN e : i < j => g[j] = h[j]
    PROVE  Said(t, e, g, i) = Said(t, e, h, i)
<1> DEFINE parts == Parts(e, i)
           members == {m \in parts : Counts(t, e, m)}
           List(s) == [k \in 1..Cardinality(parts) |-> s[InOrder(parts)[k]]]
           Fields1(s) == [n \in {NameIn(t, e, m) : m \in members} |->
                            s[PartWith(t, e, FirstNamed(t, e, members, n), "value")]]
           One(s) == s[CHOOSE j \in parts : TRUE]
<1>1. \A j \in parts : j \in DOMAIN e /\ i < j  BY PartFacts
<1>2. parts \subseteq Nat /\ IsFiniteSet(parts)  BY PartsFinite
<1>3. List(g) = List(h)
    <2>1. ASSUME NEW k \in 1..Cardinality(parts) PROVE g[InOrder(parts)[k]] = h[InOrder(parts)[k]]
        <3>1. InOrder(parts)[k] \in parts  BY <1>2, InOrderIn
        <3> QED  BY <1>1, <3>1
    <2> QED  BY <2>1
<1>4. Fields1(g) = Fields1(h)
    <2>1. ASSUME NEW n \in {NameIn(t, e, m) : m \in members}
          PROVE  g[PartWith(t, e, FirstNamed(t, e, members, n), "value")]
                   = h[PartWith(t, e, FirstNamed(t, e, members, n), "value")]
        <3>1. PICK m \in members : NameIn(t, e, m) = n  BY <2>1
        <3>2. members \subseteq Nat  BY <1>2
        <3>3. PICK a : a = FirstNamed(t, e, members, n)  OBVIOUS
        <3>11. IsFirst(t, e, members, n, a)  BY <3>1, <3>2, <3>3, FirstNamedIs
        <3>4. a \in members  BY <3>11 DEF IsFirst
        <3>5. a \in parts /\ HasPart(t, e, a, "value")  BY <3>4 DEF Counts
        <3>6. PICK b : b = PartWith(t, e, a, "value")  OBVIOUS
        <3>7. b \in Parts(e, a)  BY <3>5, <3>6, PartWithIs
        <3>8. b \in DOMAIN e /\ a < b /\ i < a /\ a \in DOMAIN e  BY <1>1, <3>5, <3>7, PartFacts
        <3>9. a \in Nat /\ b \in Nat /\ i \in Nat  BY <3>8, Places
        <3>10. g[b] = h[b]  BY <3>8, <3>9
        <3> QED  BY <3>3, <3>6, <3>10
    <2> QED  BY <2>1
<1>5. parts # {} => One(g) = One(h)
    <2>1. parts # {} => (CHOOSE j \in parts : TRUE) \in parts  OBVIOUS
    <2> QED  BY <1>1, <2>1
<1>6. \A s : Said(t, e, s, i) =
        CASE Tag(t, i) \in Scalars -> TypedText(Tag(t, i), TextIn(t, e, i))
          [] Tag(t, i) = "value" /\ parts = {} -> RpcString(TextIn(t, e, i))
          [] Tag(t, i) = "data" -> Array(List(s))
          [] Tag(t, i) = "array" /\ parts = {} -> Array(<<>>)
          [] Tag(t, i) = "struct" -> Struct(Fields1(s))
          [] Tag(t, i) \notin Scalars \cup {"data", "struct"} /\ parts # {} -> One(s)
          [] OTHER -> Void
    BY Zenon DEF Said
<1> HIDE DEF parts, members, List, Fields1, One
<1>7. Array(List(g)) = Array(List(h)) /\ Struct(Fields1(g)) = Struct(Fields1(h))
    BY <1>3, <1>4
<1>8. PICK tag : tag = Tag(t, i)  OBVIOUS
<1>9. CASE parts = {}  BY <1>6, <1>7, <1>9
<1>10. CASE parts # {}  BY <1>5, <1>6, <1>7, <1>10
<1> QED  BY <1>9, <1>10

Unrolls(t, e, g, D) == g = [i \in D |-> Said(t, e, g, i)]

LEMMA SaysExists ==
    ASSUME NEW t, NEW e, NEW len, Tree(e, len)
    PROVE  \E g : Unrolls(t, e, g, DOMAIN e)
<1> DEFINE D(n) == {i \in DOMAIN e : len < i + n}
           P == {n \in Nat : \E g : Unrolls(t, e, g, D(n))}
<1>1. len \in Nat /\ \A i \in DOMAIN e : i \in Nat /\ i <= len
    <2>1. len \in Nat /\ DOMAIN e \subseteq 0..len  BY DEF Tree
    <2> QED  BY <2>1
<1>2. 0 \in P
    <2>1. D(0) = {}  BY <1>1
    <2>2. PICK g : g = [i \in {} |-> Said(t, e, {}, i)]  OBVIOUS
    <2>3. g = [i \in {} |-> Said(t, e, g, i)]  BY <2>2
    <2>4. Unrolls(t, e, g, D(0))  BY <2>1, <2>3 DEF Unrolls
    <2> QED  BY <2>4
<1>3. ASSUME NEW n \in Nat, n \in P PROVE n + 1 \in P
    <2>1. PICK g : Unrolls(t, e, g, D(n))  BY <1>3
    <2>2. g = [i \in D(n) |-> Said(t, e, g, i)]  BY <2>1 DEF Unrolls
    <2>3. PICK h : h = [i \in D(n + 1) |-> IF i \in D(n) THEN g[i] ELSE Said(t, e, g, i)]
        OBVIOUS
    <2>4. D(n) \subseteq D(n + 1)  BY <1>1
    <2>5. ASSUME NEW i \in D(n + 1) PROVE Said(t, e, g, i) = Said(t, e, h, i)
        <3>1. i \in DOMAIN e  OBVIOUS
        <3>2. ASSUME NEW j \in DOMAIN e, i < j PROVE g[j] = h[j]
            <4>1. j \in D(n)  BY <1>1, <3>1, <3>2
            <4> HIDE DEF D
            <4>2. h[j] = g[j]  BY <2>3, <2>4, <4>1
            <4> QED  BY <4>2
        <3> HIDE DEF D
        <3> QED  BY <3>1, <3>2, SaidAgrees
    <2>6. ASSUME NEW i \in D(n + 1) PROVE h[i] = Said(t, e, h, i)
        <3> HIDE DEF D
        <3>1. CASE i \in D(n)
            <4>1. h[i] = g[i] /\ g[i] = Said(t, e, g, i)  BY <2>2, <2>3, <3>1
            <4> QED  BY <2>5, <4>1
        <3>2. CASE i \notin D(n)
            <4>1. h[i] = Said(t, e, g, i)  BY <2>3, <3>2
            <4> QED  BY <2>5, <4>1
        <3> QED  BY <3>1, <3>2
    <2>7. h = [i \in D(n + 1) |-> Said(t, e, h, i)]
        <3> HIDE DEF D
        <3>1. h = [i \in D(n + 1) |-> h[i]]  BY <2>3
        <3> QED  BY <2>6, <3>1
    <2>8. Unrolls(t, e, h, D(n + 1))  BY <2>7 DEF Unrolls
    <2> QED  BY <2>8
<1> HIDE DEF P
<1>4. Nat \subseteq P  BY <1>2, <1>3, NatInd
<1>5. len + 1 \in P  BY <1>1, <1>4
<1>6. D(len + 1) = DOMAIN e
    <2>1. \A i \in DOMAIN e : len < i + (len + 1)  BY <1>1
    <2> QED  BY <2>1
<1> QED  BY <1>5, <1>6 DEF P

LEMMA SaysUnrolls ==
    ASSUME NEW t, NEW e, e = Ends(t), NEW len, Tree(e, len)
    PROVE  Says(t) = [i \in DOMAIN e |-> Said(t, e, Says(t), i)]
<1>1. \E g : g = [i \in DOMAIN e |-> Said(t, e, g, i)]
    <2>1. \E g : Unrolls(t, e, g, DOMAIN e)  BY SaysExists
    <2> QED  BY <2>1, Zenon DEF Unrolls
<1>2. Says(t) = CHOOSE g : g = [i \in DOMAIN e |-> Said(t, e, g, i)]
    BY Zenon DEF Says
<1>3. PICK s : s = CHOOSE g : g = [i \in DOMAIN e |-> Said(t, e, g, i)]  OBVIOUS
<1>4. s = [i \in DOMAIN e |-> Said(t, e, s, i)]  BY <1>1, <1>3, Zenon
<1> QED  BY <1>2, <1>3, <1>4

-----------------------------------------------------------------------------
(***************************************************************************)
(* The grammar and the transition table: what may be in what leads from    *)
(* the state of the one to the state of the other.                         *)
(***************************************************************************)
StateOf(tag) ==
    CASE tag = "" -> "eNone" [] tag = "value" -> "eValue" [] tag = "array" -> "eArray"
      [] tag = "data" -> "eData" [] tag = "struct" -> "eStruct" [] tag = "member" -> "eMember"
      [] tag = "name" -> "eName" [] tag = "boolean" -> "eBoolean" [] tag = "int" -> "eInt"
      [] tag = "i4" -> "eI4" [] tag = "double" -> "eDouble" [] tag = "string" -> "eString"
      [] tag = "base64" -> "eBase64" [] tag = "dateTime.iso8601" -> "eDate"
      [] tag = "methodCall" -> "eMethodCall" [] tag = "methodName" -> "eMethodName"
      [] tag = "methodResponse" -> "eMethodResponse" [] tag = "fault" -> "eFault"
      [] tag = "params" -> "eParams" [] tag = "param" -> "eParam"

Tags == {"value", "array", "data", "struct", "member", "name", "boolean", "int", "i4",
         "double", "string", "base64", "dateTime.iso8601", "methodCall", "methodName",
         "methodResponse", "fault", "params", "param"}

(* An entry of the table: b leads to its state. *)
Leading(o, b) == o[2] = b /\ o[3] = StateOf(b) /\ b \in Tags

LEMMA StatesOf ==
    /\ StateOf("") = "eNone" /\ StateOf("value") = "eValue" /\ StateOf("array") = "eArray"
    /\ StateOf("data") = "eData" /\ StateOf("struct") = "eStruct"
    /\ StateOf("member") = "eMember" /\ StateOf("name") = "eName"
    /\ StateOf("boolean") = "eBoolean" /\ StateOf("int") = "eInt" /\ StateOf("i4") = "eI4"
    /\ StateOf("double") = "eDouble" /\ StateOf("string") = "eString"
    /\ StateOf("base64") = "eBase64" /\ StateOf("dateTime.iso8601") = "eDate"
    /\ StateOf("methodCall") = "eMethodCall" /\ StateOf("methodName") = "eMethodName"
    /\ StateOf("methodResponse") = "eMethodResponse" /\ StateOf("fault") = "eFault"
    /\ StateOf("params") = "eParams" /\ StateOf("param") = "eParam"
BY DEF StateOf

(* The way back. *)
TagOf(st) ==
    CASE st = "eValue" -> "value" [] st = "eArray" -> "array" [] st = "eData" -> "data"
      [] st = "eStruct" -> "struct" [] st = "eMember" -> "member" [] st = "eName" -> "name"
      [] st = "eBoolean" -> "boolean" [] st = "eInt" -> "int" [] st = "eI4" -> "i4"
      [] st = "eDouble" -> "double" [] st = "eString" -> "string" [] st = "eBase64" -> "base64"
      [] st = "eDate" -> "dateTime.iso8601" [] st = "eMethodCall" -> "methodCall"
      [] st = "eMethodName" -> "methodName" [] st = "eMethodResponse" -> "methodResponse"
      [] st = "eFault" -> "fault" [] st = "eParams" -> "params" [] st = "eParam" -> "param"

LEMMA StateBack ==
    ASSUME NEW a \in Tags PROVE TagOf(StateOf(a)) = a
<1>1. PICK c : c = StateOf(a)  OBVIOUS
<1>2. TagOf(c) = a  BY ZenonT(60), <1>1, StatesOf DEF TagOf, Tags
<1> QED  BY <1>1, <1>2

LEMMA StatesDiffer ==
    ASSUME NEW a \in Tags, NEW b \in Tags, StateOf(a) = StateOf(b) PROVE a = b
<1>1. PICK c : c = StateOf(a)  OBVIOUS
<1>2. TagOf(c) = a /\ TagOf(c) = b  BY <1>1, StateBack
<1> QED  BY <1>2

LEMMA TripleLeading ==
    ASSUME NEW o, NEW b, NEW c, Tagged(o, b, c), b \in Tags, c = StateOf(b) PROVE Leading(o, o[2])
BY DEF Leading, Tagged

LEMMA TagsAre ==
    /\ "value" \in Tags /\ "array" \in Tags /\ "data" \in Tags /\ "struct" \in Tags
    /\ "member" \in Tags /\ "name" \in Tags /\ "boolean" \in Tags /\ "int" \in Tags
    /\ "i4" \in Tags /\ "double" \in Tags /\ "string" \in Tags /\ "base64" \in Tags
    /\ "dateTime.iso8601" \in Tags /\ "methodCall" \in Tags /\ "methodName" \in Tags
    /\ "methodResponse" \in Tags /\ "fault" \in Tags /\ "params" \in Tags
    /\ "param" \in Tags
BY DEF Tags

(* The types a value may name. *)
IsType(y, b) == y[1] = b /\ y[2] = StateOf(b) /\ b \in Tags

LEMMA TypedAre ==
    ASSUME NEW y \in Typed PROVE IsType(y, y[1])
<1>1. \A a, b : a \in Tags /\ b = StateOf(a) => IsType(<<a, b>>, a)  BY DEF IsType
<1>2. \/ IsType(y, "array") \/ IsType(y, "struct") \/ IsType(y, "boolean")
      \/ IsType(y, "int") \/ IsType(y, "i4") \/ IsType(y, "double")
      \/ IsType(y, "string") \/ IsType(y, "base64") \/ IsType(y, "dateTime.iso8601")
    BY <1>1, StatesOf, TagsAre, Zenon DEF Typed
<1> QED  BY <1>2 DEF IsType

LEMMA OpensLead ==
    ASSUME NEW o, o \in ValueOpens \cup CallOpens \cup ResponseOpens
    PROVE  Leading(o, o[2])
<1>1. CASE \E y \in Typed : o = <<"eValue", y[1], y[2]>>
    <2>1. PICK y \in Typed : o = <<"eValue", y[1], y[2]>>  BY <1>1
    <2>2. o[2] = y[1] /\ o[3] = y[2]  BY <2>1
    <2>3. IsType(y, y[1])  BY TypedAre
    <2> QED  BY <2>2, <2>3 DEF IsType, Leading
<1>2. CASE o \in ValueOpens /\ ~\E y \in Typed : o = <<"eValue", y[1], y[2]>>
    <2>1. \/ Tagged(o, "value", "eValue") \/ Tagged(o, "member", "eMember")
          \/ Tagged(o, "name", "eName") \/ Tagged(o, "data", "eData")
        BY <1>2, TripleTagged, Zenon DEF ValueOpens
    <2> QED  BY <2>1, StatesOf, TagsAre, TripleLeading, Zenon
<1>3. CASE o \in CallOpens
    <2>1. \/ Tagged(o, "methodCall", "eMethodCall") \/ Tagged(o, "methodName", "eMethodName")
          \/ Tagged(o, "params", "eParams") \/ Tagged(o, "param", "eParam")
          \/ Tagged(o, "value", "eValue")
        BY <1>3, TripleTagged, Zenon DEF CallOpens
    <2> QED  BY <2>1, StatesOf, TagsAre, TripleLeading, Zenon
<1>4. CASE o \in ResponseOpens
    <2>1. \/ Tagged(o, "methodResponse", "eMethodResponse") \/ Tagged(o, "fault", "eFault")
          \/ Tagged(o, "params", "eParams") \/ Tagged(o, "param", "eParam")
          \/ Tagged(o, "value", "eValue")
        BY <1>4, TripleTagged, Zenon DEF ResponseOpens
    <2> QED  BY <2>1, StatesOf, TagsAre, TripleLeading, Zenon
<1> QED  BY <1>1, <1>2, <1>3, <1>4

LEMMA ContentsAre ==
    ASSUME NEW kind \in Kinds, NEW a, NEW b, <<a, b>> \in Contents(kind)
    PROVE  \/ a = "value" /\ b \in Scalars \cup {"array", "struct"}
           \/ a = "array" /\ b = "data"
           \/ a = "data" /\ b = "value"
           \/ a = "struct" /\ b = "member"
           \/ a = "member" /\ b \in {"name", "value"}
           \/ a = "" /\ b = "value" /\ kind = "value"
           \/ a = "" /\ b = "methodCall" /\ kind = "call"
           \/ a = "methodCall" /\ b \in {"methodName", "params"} /\ kind = "call"
           \/ a = "" /\ b = "methodResponse" /\ kind = "response"
           \/ a = "methodResponse" /\ b \in {"params", "fault"} /\ kind = "response"
           \/ a = "params" /\ b = "param" /\ kind \in {"call", "response"}
           \/ a = "param" /\ b = "value" /\ kind \in {"call", "response"}
           \/ a = "fault" /\ b = "value" /\ kind = "response"
<1>1. CASE kind = "value"  BY <1>1 DEF Contents
<1>2. CASE kind = "call"  BY <1>2 DEF Contents
<1>3. CASE kind = "response"  BY <1>3 DEF Contents
<1> QED  BY <1>1, <1>2, <1>3 DEF Kinds

LEMMA TypesAre ==
    ASSUME NEW b \in Scalars \cup {"array", "struct"} PROVE <<b, StateOf(b)>> \in Typed
<1>1. \/ b = "array" \/ b = "struct" \/ b = "boolean" \/ b = "int" \/ b = "i4"
      \/ b = "double" \/ b = "string" \/ b = "base64" \/ b = "dateTime.iso8601"
    BY DEF Scalars
<1> QED  BY <1>1, StatesOf, Zenon DEF Typed

LEMMA ContentsOpen ==
    ASSUME NEW kind \in Kinds, NEW a, NEW b, <<a, b>> \in Contents(kind)
    PROVE  <<StateOf(a), b, StateOf(b)>> \in Opens(kind) /\ b \in Tags
<1>0. kind \in {"call", "response", "value"}  BY DEF Kinds
<1>1. b \in Tags  BY ContentsAre DEF Tags, Scalars
<1>2. PICK x : x = StateOf(a)  OBVIOUS
<1>3. PICK y : y = StateOf(b)  OBVIOUS
<1>4. CASE a = "value" /\ b \in Scalars \cup {"array", "struct"}
    <2>1. <<b, y>> \in Typed /\ x = "eValue"  BY <1>2, <1>3, <1>4, StatesOf, TypesAre
    <2>2. PICK u : u = <<b, y>>  OBVIOUS
    <2>3. <<x, b, y>> = <<"eValue", u[1], u[2]>> /\ u \in Typed  BY <2>1, <2>2
    <2>4. <<x, b, y>> \in {<<"eValue", v[1], v[2]>> : v \in Typed}  BY <2>3, Zenon
    <2>5. <<x, b, y>> \in ValueOpens  BY <2>4 DEF ValueOpens
    <2> QED  BY <1>1, <1>2, <1>3, <2>5 DEF Opens
<1>5. CASE \/ a = "array" /\ b = "data"
           \/ a = "data" /\ b = "value"
           \/ a = "struct" /\ b = "member"
           \/ a = "member" /\ b \in {"name", "value"}
           \/ a = "" /\ b = "value"
    <2>1. \/ x = "eArray" /\ b = "data" /\ y = "eData"
          \/ x = "eData" /\ b = "value" /\ y = "eValue"
          \/ x = "eStruct" /\ b = "member" /\ y = "eMember"
          \/ x = "eMember" /\ b = "name" /\ y = "eName"
          \/ x = "eMember" /\ b = "value" /\ y = "eValue"
          \/ x = "eNone" /\ b = "value" /\ y = "eValue"
        BY <1>2, <1>3, <1>5, StatesOf
    <2>2. <<x, b, y>> \in ValueOpens  BY <2>1, Zenon DEF ValueOpens
    <2> QED  BY <1>1, <1>2, <1>3, <2>2 DEF Opens
<1>6. CASE /\ kind = "call"
           /\ \/ a = "" /\ b = "methodCall"
              \/ a = "methodCall" /\ b \in {"methodName", "params"}
              \/ a = "params" /\ b = "param"
              \/ a = "param" /\ b = "value"
    <2>1. \/ x = "eNone" /\ b = "methodCall" /\ y = "eMethodCall"
          \/ x = "eMethodCall" /\ b = "methodName" /\ y = "eMethodName"
          \/ x = "eMethodCall" /\ b = "params" /\ y = "eParams"
          \/ x = "eParams" /\ b = "param" /\ y = "eParam"
          \/ x = "eParam" /\ b = "value" /\ y = "eValue"
        BY <1>2, <1>3, <1>6, StatesOf
    <2>2. <<x, b, y>> \in CallOpens  BY <2>1, Zenon DEF CallOpens
    <2> QED  BY <1>1, <1>2, <1>3, <1>6, <2>2 DEF Opens
<1>7. CASE /\ kind = "response"
           /\ \/ a = "" /\ b = "methodResponse"
              \/ a = "methodResponse" /\ b \in {"params", "fault"}
              \/ a = "params" /\ b = "param"
              \/ a = "param" /\ b = "value"
              \/ a = "fault" /\ b = "value"
    <2>1. \/ x = "eNone" /\ b = "methodResponse" /\ y = "eMethodResponse"
          \/ x = "eMethodResponse" /\ b = "fault" /\ y = "eFault"
          \/ x = "eMethodResponse" /\ b = "params" /\ y = "eParams"
          \/ x = "eFault" /\ b = "value" /\ y = "eValue"
          \/ x = "eParams" /\ b = "param" /\ y = "eParam"
          \/ x = "eParam" /\ b = "value" /\ y = "eValue"
        BY <1>2, <1>3, <1>7, StatesOf
    <2>2. <<x, b, y>> \in ResponseOpens  BY <2>1, Zenon DEF ResponseOpens
    <2> QED  BY <1>1, <1>2, <1>3, <1>7, <2>2 DEF Opens
<1>8. \/ a = "value" /\ b \in Scalars \cup {"array", "struct"}
      \/ a = "array" /\ b = "data"
      \/ a = "data" /\ b = "value"
      \/ a = "struct" /\ b = "member"
      \/ a = "member" /\ b \in {"name", "value"}
      \/ a = "" /\ b = "value" /\ kind = "value"
      \/ a = "" /\ b = "methodCall" /\ kind = "call"
      \/ a = "methodCall" /\ b \in {"methodName", "params"} /\ kind = "call"
      \/ a = "" /\ b = "methodResponse" /\ kind = "response"
      \/ a = "methodResponse" /\ b \in {"params", "fault"} /\ kind = "response"
      \/ a = "params" /\ b = "param" /\ kind \in {"call", "response"}
      \/ a = "param" /\ b = "value" /\ kind \in {"call", "response"}
      \/ a = "fault" /\ b = "value" /\ kind = "response"
    BY ContentsAre
<1> QED  BY <1>0, <1>4, <1>5, <1>6, <1>7, <1>8

(* The one transition that the grammar asks for. *)
LEMMA OneTransition ==
    ASSUME NEW kind \in Kinds, NEW a, NEW b, <<a, b>> \in Contents(kind)
    PROVE  LET next == {o \in Opens(kind) : o[1] = StateOf(a) /\ o[2] = b}
           IN  next # {} /\ (CHOOSE o \in next : TRUE)[3] = StateOf(b)
<1> DEFINE next == {o \in Opens(kind) : o[1] = StateOf(a) /\ o[2] = b}
<1>1. <<StateOf(a), b, StateOf(b)>> \in next  BY ContentsOpen
<1>2. ASSUME NEW o \in next PROVE o[3] = StateOf(b)
    <2>1. o \in ValueOpens \cup CallOpens \cup ResponseOpens /\ o[2] = b  BY DEF Opens, Kinds
    <2>2. Leading(o, o[2])  BY <2>1, OpensLead
    <2> QED  BY <2>1, <2>2 DEF Leading
<1> HIDE DEF next
<1>3. (CHOOSE o \in next : TRUE) \in next  BY <1>1
<1> QED  BY <1>1, <1>2, <1>3 DEF next

LEMMA TagExpected ==
    ASSUME NEW kind \in Kinds, NEW a, NEW b, <<a, b>> \in Contents(kind)
    PROVE  ExpectedTag(StateOf(b)) = b
<1> DEFINE all == ValueOpens \cup CallOpens \cup ResponseOpens
<1>1. PICK o : o = CHOOSE x \in all : x[3] = StateOf(b)  OBVIOUS
<1>2. <<StateOf(a), b, StateOf(b)>> \in all /\ b \in Tags  BY ContentsOpen DEF Opens, Kinds
<1> HIDE DEF all
<1>3. o \in all /\ o[3] = StateOf(b)  BY <1>1, <1>2
<1>4. Leading(o, o[2])  BY <1>3, OpensLead DEF all
<1>5. o[2] = b  BY <1>2, <1>3, <1>4, StatesDiffer DEF Leading
<1> QED  BY <1>1, <1>5 DEF ExpectedTag, all

-----------------------------------------------------------------------------
(***************************************************************************)
(* A document that keeps to the grammar: e maps its elements to their      *)
(* ends, f to what they say.                                               *)
(***************************************************************************)
IsDocument(kind, t, e, f) ==
    /\ kind \in Kinds /\ IsInput(t) /\ e = Ends(t)
    /\ DOMAIN e = Openings(t) \cup {0} /\ e[0] = Len(t) + 1
    /\ WellFormed(t, e) /\ Valid(kind, t, e)
    /\ f = [i \in DOMAIN e |-> Said(t, e, f, i)]

LEMMA InputLength ==
    ASSUME NEW t, IsInput(t)
    PROVE  Len(t) \in Nat /\ DOMAIN t = 1..Len(t)
BY LenProperties DEF IsInput

(* Elements by their places, of whatever grammar. *)
Formed(t, e) ==
    IsInput(t) /\ DOMAIN e = Openings(t) \cup {0} /\ e[0] = Len(t) + 1 /\ WellFormed(t, e)

LEMMA FormedEnds ==
    ASSUME NEW t, NEW e, Formed(t, e), NEW i \in DOMAIN e, i # 0
    PROVE  /\ i \in 1..Len(t) /\ "open" \in DOMAIN t[i] /\ Tag(t, i) = t[i].open
           /\ e[i] \in 1..Len(t) /\ e[i] \in i + 1..Len(t)
           /\ DOMAIN t[e[i]] = {"close"} /\ t[e[i]].close = Tag(t, i)
<1>1. Len(t) \in Nat /\ DOMAIN t = 1..Len(t)  BY InputLength DEF Formed
<1>2. i \in 1..Len(t) /\ "open" \in DOMAIN t[i]  BY <1>1 DEF Formed, Openings
<1>3. Tag(t, i) = t[i].open  BY DEF Tag
<1>4. e[i] \in i + 1..Len(t) /\ t[e[i]] = [close |-> t[i].open]  BY DEF Formed, WellFormed
<1>5. e[i] \in 1..Len(t)  BY <1>1, <1>2, <1>4
<1>6. DOMAIN t[e[i]] = {"close"} /\ t[e[i]].close = t[i].open  BY <1>4
<1> QED  BY <1>2, <1>3, <1>4, <1>5, <1>6

LEMMA FormedTree ==
    ASSUME NEW t, NEW e, Formed(t, e)
    PROVE  Tree(e, Len(t)) /\ Len(t) \in Nat
<1>1. Len(t) \in Nat /\ DOMAIN t = 1..Len(t) /\ 0 \in DOMAIN e /\ e[0] = Len(t) + 1
    BY InputLength DEF Formed
<1>2. DOMAIN e \subseteq 0..Len(t)  BY <1>1 DEF Formed, Openings
<1>3. ASSUME NEW i \in DOMAIN e PROVE e[i] \in Nat /\ i < e[i] /\ (i # 0 => e[i] <= Len(t))
    <2>1. CASE i = 0  BY <1>1, <2>1
    <2>2. CASE i # 0
        <3>1. e[i] \in i + 1..Len(t) /\ i \in 1..Len(t)  BY <2>2, FormedEnds
        <3> QED  BY <1>1, <3>1
    <2> QED  BY <2>1, <2>2
<1>4. ASSUME NEW i \in DOMAIN e, NEW j \in DOMAIN e PROVE e[i] # j
    <2>1. CASE j = 0  BY <1>1, <1>2, <1>3, <2>1
    <2>2. CASE i = 0  BY <1>1, <1>2, <2>2
    <2>3. CASE j # 0 /\ i # 0
        <3>1. "open" \in DOMAIN t[j]  BY <2>3, FormedEnds
        <3>2. DOMAIN t[e[i]] = {"close"}  BY <2>3, FormedEnds
        <3> QED  BY <3>1, <3>2
    <2> QED  BY <2>1, <2>2, <2>3
<1>5. \A i, j \in DOMAIN e : i < j => e[i] < j \/ e[j] < e[i]  BY DEF Formed, WellFormed
<1> QED  BY <1>1, <1>2, <1>3, <1>4, <1>5 DEF Tree

LEMMA EndIs ==
    ASSUME NEW kind, NEW t, NEW e, NEW f, IsDocument(kind, t, e, f), NEW i \in DOMAIN e, i # 0
    PROVE  /\ i \in 1..Len(t) /\ "open" \in DOMAIN t[i] /\ Tag(t, i) = t[i].open
           /\ e[i] \in 1..Len(t) /\ e[i] \in i + 1..Len(t)
           /\ DOMAIN t[e[i]] = {"close"} /\ t[e[i]].close = Tag(t, i)
<1>1. Formed(t, e)  BY DEF IsDocument, Formed
<1> QED  BY <1>1, FormedEnds

LEMMA DocTree ==
    ASSUME NEW kind, NEW t, NEW e, NEW f, IsDocument(kind, t, e, f)
    PROVE  Tree(e, Len(t)) /\ Len(t) \in Nat
<1>1. Formed(t, e)  BY DEF IsDocument, Formed
<1> QED  BY <1>1, FormedTree

(* What comes next in a document. *)
LEMMA TokenIs ==
    ASSUME NEW kind, NEW t, NEW e, NEW f, IsDocument(kind, t, e, f), NEW p \in Nat, p < Len(t)
    PROVE  /\ IsToken(t[p + 1])
           /\ "open" \in DOMAIN t[p + 1] => p + 1 \in DOMAIN e
           /\ "close" \in DOMAIN t[p + 1] => \E j \in DOMAIN e : j # 0 /\ e[j] = p + 1
           /\ "chars" \in DOMAIN t[p + 1] =>
                /\ p + 1 \notin DOMAIN e /\ (\A i \in DOMAIN e : e[i] # p + 1)
                /\ t[p + 1].chars # <<>>
<1>1. Len(t) \in Nat /\ DOMAIN t = 1..Len(t)  BY InputLength DEF IsDocument
<1>2. p + 1 \in DOMAIN t /\ p + 1 # Len(t) + 1  BY <1>1
<1>3. IsToken(t[p + 1])  BY <1>2 DEF IsDocument, IsInput
<1>4. "open" \in DOMAIN t[p + 1] => p + 1 \in DOMAIN e  BY <1>2 DEF IsDocument, Openings
<1>5. ASSUME "close" \in DOMAIN t[p + 1] PROVE \E j \in DOMAIN e : j # 0 /\ e[j] = p + 1
    <2>1. p + 1 \in Closings(t)  BY <1>2, <1>5 DEF Closings
    <2>2. PICK j \in DOMAIN e : e[j] = p + 1  BY <2>1 DEF IsDocument, WellFormed
    <2>3. j # 0  BY <1>2, <2>2 DEF IsDocument
    <2> QED  BY <2>2, <2>3
<1>6. ASSUME "chars" \in DOMAIN t[p + 1]
      PROVE  /\ p + 1 \notin DOMAIN e /\ (\A i \in DOMAIN e : e[i] # p + 1)
             /\ t[p + 1].chars # <<>>
    <2>1. DOMAIN t[p + 1] = {"chars"}  BY <1>3, <1>6 DEF IsToken
    <2>2. p + 1 \notin DOMAIN e  BY <2>1, EndIs
    <2>3. \A i \in DOMAIN e : e[i] # p + 1
        <3> TAKE i \in DOMAIN e
        <3>1. CASE i = 0  BY <1>2, <3>1 DEF IsDocument
        <3>2. CASE i # 0
            <4>1. DOMAIN t[e[i]] = {"close"}  BY <3>2, EndIs
            <4> QED  BY <2>1, <4>1
        <3> QED  BY <3>1, <3>2
    <2>4. t[p + 1].chars # <<>>  BY <1>2, <1>6 DEF IsDocument, WellFormed
    <2> QED  BY <2>2, <2>3, <2>4
<1> QED  BY <1>3, <1>4, <1>5, <1>6

LEMMA PartTag ==
    ASSUME NEW kind, NEW t, NEW e, NEW f, IsDocument(kind, t, e, f), NEW i \in DOMAIN e,
           NEW j \in Parts(e, i)
    PROVE  <<Tag(t, i), Tag(t, j)>> \in Contents(kind) /\ j \in DOMAIN e /\ j # 0
<1>1. <<Tag(t, i), Tag(t, j)>> \in Contents(kind)  BY DEF IsDocument, Valid
<1>2. j \in DOMAIN e /\ i < j  BY PartFacts
<1>3. i \in Nat  BY DocTree, Places
<1> QED  BY <1>1, <1>2, <1>3

LEMMA TextAlone ==
    ASSUME NEW kind, NEW t, NEW e, NEW f, IsDocument(kind, t, e, f), NEW i \in DOMAIN e,
           OnlyText(t, e, i)
    PROVE  /\ Parts(e, i) = {}
           /\ e[i] = i + 1 \/ (e[i] = i + 2 /\ "chars" \in DOMAIN t[i + 1])
<1>1. e[i] = i + 1 \/ (e[i] = i + 2 /\ "chars" \in DOMAIN t[i + 1])
    BY DEF IsDocument, Valid
<1>2. ASSUME NEW j \in Parts(e, i) PROVE FALSE
    <2>1. j \in DOMAIN e /\ i < j /\ j < e[i]  BY PartFacts
    <2>2. i \in Nat /\ j \in Nat  BY <2>1, DocTree, Places
    <2>3. j = i + 1 /\ "chars" \in DOMAIN t[j]  BY <1>1, <2>1, <2>2
    <2>4. "open" \in DOMAIN t[j] /\ j \in 1..Len(t)  BY <2>1, <2>2, <2>3, EndIs
    <2>5. Len(t) \in Nat /\ DOMAIN t = 1..Len(t)  BY InputLength DEF IsDocument
    <2>6. IsToken(t[j])  BY <2>4, <2>5 DEF IsDocument, IsInput
    <2> QED  BY <2>3, <2>4, <2>6 DEF IsToken
<1> QED  BY <1>1, <1>2

LEMMA OneOfATag ==
    ASSUME NEW kind, NEW t, NEW e, NEW f, IsDocument(kind, t, e, f), NEW i \in DOMAIN e,
           Tag(t, i) \notin Lists(kind), NEW j \in Parts(e, i), NEW k \in Parts(e, i),
           Tag(t, j) = Tag(t, k)
    PROVE  j = k
BY DEF IsDocument, Valid

LEMMA OneChild ==
    ASSUME NEW kind, NEW t, NEW e, NEW f, IsDocument(kind, t, e, f), NEW i \in DOMAIN e,
           Tag(t, i) \notin Lists(kind) \cup {"member", "methodCall"},
           NEW j \in Parts(e, i), NEW k \in Parts(e, i)
    PROVE  j = k
<1>1. kind \in Kinds  BY DEF IsDocument
<1>2. PICK a : a = Tag(t, i)  OBVIOUS
<1>3. PICK b : b = Tag(t, j)  OBVIOUS
<1>4. PICK c : c = Tag(t, k)  OBVIOUS
<1>5. <<a, b>> \in Contents(kind) /\ <<a, c>> \in Contents(kind)  BY <1>2, <1>3, <1>4, PartTag
<1>6. CASE a \in {"value", "methodResponse"}
    BY <1>2, <1>6 DEF IsDocument, Valid
<1>7. CASE a \notin {"value", "methodResponse"}
    <2>1. a \notin {"member", "methodCall"}  BY <1>2
    <2>2. b = CASE a = "array" -> "data" [] a = "data" -> "value" [] a = "struct" -> "member"
                [] a = "" /\ kind = "value" -> "value" [] a = "" /\ kind = "call" -> "methodCall"
                [] a = "" /\ kind = "response" -> "methodResponse"
                [] a = "params" -> "param" [] a = "param" -> "value" [] a = "fault" -> "value"
        BY <1>1, <1>5, <1>7, <2>1, ContentsAre
    <2>3. c = CASE a = "array" -> "data" [] a = "data" -> "value" [] a = "struct" -> "member"
                [] a = "" /\ kind = "value" -> "value" [] a = "" /\ kind = "call" -> "methodCall"
                [] a = "" /\ kind = "response" -> "methodResponse"
                [] a = "params" -> "param" [] a = "param" -> "value" [] a = "fault" -> "value"
        BY <1>1, <1>5, <1>7, <2>1, ContentsAre
    <2>4. b = c  BY <2>2, <2>3
    <2> QED  BY <1>2, <1>3, <1>4, <2>4, OneOfATag
<1> QED  BY <1>6, <1>7

-----------------------------------------------------------------------------
(***************************************************************************)
(* What each element says.                                                 *)
(***************************************************************************)
StructOf(t, e, f, M) ==
    Struct([n \in {NameIn(t, e, m) : m \in M} |->
                f[PartWith(t, e, FirstNamed(t, e, M, n), "value")]])

Items(e, f, i, n) == Array([k \in 1..n |-> f[InOrder(Parts(e, i))[k]]])

Counted(t, e, i) == {m \in Parts(e, i) : Counts(t, e, m)}

(* What an element says that has nothing in it. *)
Empty(tag) == CASE tag \in {"array", "data"} -> Array(<<>>)
                [] tag = "struct" -> Struct(<<>>)
                [] OTHER -> Void

LEMMA SaysIt ==
    ASSUME NEW kind, NEW t, NEW e, NEW f, IsDocument(kind, t, e, f), NEW i \in DOMAIN e
    PROVE  /\ Tag(t, i) \in Scalars => f[i] = TypedText(Tag(t, i), TextIn(t, e, i))
           /\ Tag(t, i) = "value" /\ Parts(e, i) = {} => f[i] = RpcString(TextIn(t, e, i))
           /\ Tag(t, i) = "data" => f[i] = Items(e, f, i, Cardinality(Parts(e, i)))
           /\ Tag(t, i) = "struct" =>
                f[i] = StructOf(t, e, f, Counted(t, e, i))
           /\ Tag(t, i) \notin Scalars \cup {"value", "data", "struct"} /\ Parts(e, i) = {} =>
                f[i] = Empty(Tag(t, i))
<1> DEFINE parts == Parts(e, i)
           members == {m \in parts : Counts(t, e, m)}
<1>1. f[i] = Said(t, e, f, i)  BY DEF IsDocument
<1>2. Said(t, e, f, i) =
        CASE Tag(t, i) \in Scalars -> TypedText(Tag(t, i), TextIn(t, e, i))
          [] Tag(t, i) = "value" /\ parts = {} -> RpcString(TextIn(t, e, i))
          [] Tag(t, i) = "data" -> Items(e, f, i, Cardinality(parts))
          [] Tag(t, i) = "array" /\ parts = {} -> Array(<<>>)
          [] Tag(t, i) = "struct" -> StructOf(t, e, f, members)
          [] Tag(t, i) \notin Scalars \cup {"data", "struct"} /\ parts # {} ->
                f[CHOOSE j \in parts : TRUE]
          [] OTHER -> Void
    BY Zenon DEF Said, StructOf, Items
<1>3. PICK tag : tag = Tag(t, i)  OBVIOUS
<1>4. tag \in Scalars => tag \notin {"value", "data", "array", "struct"}  BY DEF Scalars
<1> HIDE DEF members
<1>5. tag \in Scalars => f[i] = TypedText(tag, TextIn(t, e, i))  BY <1>1, <1>2, <1>3, <1>4
<1>6. tag = "value" /\ parts = {} => f[i] = RpcString(TextIn(t, e, i))
    BY <1>1, <1>2, <1>3, <1>4
<1>7. tag = "data" => f[i] = Items(e, f, i, Cardinality(parts))  BY <1>1, <1>2, <1>3, <1>4
<1>8. tag = "struct" => f[i] = StructOf(t, e, f, members)  BY <1>1, <1>2, <1>3, <1>4
<1>9. tag \notin Scalars \cup {"value", "data", "struct"} /\ parts = {} => f[i] = Empty(tag)
    BY <1>1, <1>2, <1>3 DEF Empty
<1> QED  BY <1>3, <1>5, <1>6, <1>7, <1>8, <1>9 DEF members, Counted

LEMMA SaysSome ==
    ASSUME NEW kind, NEW t, NEW e, NEW f, IsDocument(kind, t, e, f), NEW i \in DOMAIN e,
           Tag(t, i) \notin Scalars \cup {"data", "struct"}, Parts(e, i) # {}
    PROVE  \E j \in Parts(e, i) : f[i] = f[j]
<1>1. f[i] = Said(t, e, f, i)  BY DEF IsDocument
<1>2. PICK parts : parts = Parts(e, i)  OBVIOUS
<1>3. PICK tag : tag = Tag(t, i)  OBVIOUS
<1>4. PICK k : k = CHOOSE j \in parts : TRUE  OBVIOUS
<1>5. PICK a : a = Items(e, f, i, Cardinality(parts))  OBVIOUS
<1>6. PICK b : b = StructOf(t, e, f, {m \in parts : Counts(t, e, m)})  OBVIOUS
<1>7. Said(t, e, f, i) =
        CASE tag \in Scalars -> TypedText(tag, TextIn(t, e, i))
          [] tag = "value" /\ parts = {} -> RpcString(TextIn(t, e, i))
          [] tag = "data" -> a
          [] tag = "array" /\ parts = {} -> Array(<<>>)
          [] tag = "struct" -> b
          [] tag \notin Scalars \cup {"data", "struct"} /\ parts # {} -> f[k]
          [] OTHER -> Void
    BY <1>2, <1>3, <1>4, <1>5, <1>6, Zenon DEF Said, StructOf, Items
<1>8. k \in parts  BY <1>2, <1>4
<1>9. f[i] = f[k]  BY <1>1, <1>2, <1>3, <1>7
<1> QED  BY <1>2, <1>8, <1>9

(* What has one part says what that says. *)
LEMMA SaysItsPart ==
    ASSUME NEW kind, NEW t, NEW e, NEW f, IsDocument(kind, t, e, f), NEW i \in DOMAIN e,
           Tag(t, i) \notin Lists(kind) \cup {"member", "methodCall"},
           NEW j \in Parts(e, i)
    PROVE  f[i] = f[j]
<1>1. Tag(t, i) \notin Scalars
    <2>1. ASSUME Tag(t, i) \in Scalars PROVE FALSE
        <3>1. OnlyText(t, e, i)  BY <2>1 DEF OnlyText
        <3> QED  BY <3>1, TextAlone
    <2> QED  BY <2>1
<1>2. Tag(t, i) \notin {"data", "struct"}  BY DEF Lists
<1>3. PICK k \in Parts(e, i) : f[i] = f[k]
    <2>1. Tag(t, i) \notin Scalars \cup {"data", "struct"} /\ Parts(e, i) # {}  BY <1>1, <1>2
    <2> QED  BY <2>1, SaysSome
<1>4. k = j  BY OneChild
<1> QED  BY <1>3, <1>4

-----------------------------------------------------------------------------
(***************************************************************************)
(* What the steps of the parser leave as it is: all values on the heap but *)
(* that of c,  and what calls and responses have been given.               *)
(***************************************************************************)
Leaves(P, Q, c) ==
    /\ Q.call = P.call /\ Q.mvalue = P.mvalue
    /\ \A h \in DOMAIN P.heap : h # c => h \in DOMAIN Q.heap /\ Q.heap[h].val = P.heap[h].val

LEMMA LeavesTwice ==
    ASSUME NEW P, NEW Q, NEW R, NEW c, NEW d, NEW b, Leaves(P, Q, c), Leaves(Q, R, d),
           c = b \/ c \notin DOMAIN P.heap, d = b \/ d \notin DOMAIN P.heap
    PROVE  Leaves(P, R, b)
<1>1. ASSUME NEW h \in DOMAIN P.heap, h # b
      PROVE  h \in DOMAIN R.heap /\ R.heap[h].val = P.heap[h].val
    <2>1. h \in DOMAIN Q.heap /\ Q.heap[h].val = P.heap[h].val  BY <1>1 DEF Leaves
    <2>2. h # d  BY <1>1
    <2> QED  BY <2>1, <2>2 DEF Leaves
<1> QED  BY <1>1 DEF Leaves

LEMMA NoValue == ASSUME NEW P, IsParser(P) PROVE 0 \notin DOMAIN P.heap
BY HeapOf

LEMMA NewLeaves ==
    ASSUME NEW P, IsParser(P), NEW v
    PROVE  LET Q == New(P, v)
           IN  /\ Leaves(P, Q, 0) /\ NewPtr(P) \notin DOMAIN P.heap
               /\ Q.heap[NewPtr(P)].val = v /\ Alive(Q) = Alive(P) \cup {NewPtr(P)}
<1> DEFINE Q == New(P, v)
<1>1. DOMAIN P = Fields  BY DEF IsParser
<1>2. PICK n \in Nat : n = Len(P.heap)  BY HeapOf
<1>3. DOMAIN P.heap = 1..n /\ NewPtr(P) = n + 1  BY <1>2, HeapOf DEF NewPtr
<1>4. PICK H : H = Append(P.heap, [val |-> v, live |-> TRUE])  OBVIOUS
<1>5. PICK cell : cell = [val |-> v, live |-> TRUE]  OBVIOUS
<1>6. PICK R : P.heap \in Seq(R)  BY DEF IsParser, IsHeap
<1>7. PICK S : S = R \cup {cell}  OBVIOUS
<1>8. P.heap \in Seq(S) /\ cell \in S
    <2>1. R \subseteq S  BY <1>7
    <2> QED  BY <1>6, <1>7, <2>1, SeqMonotonic
<1>9. H \in Seq(S) /\ Len(H) = n + 1 /\ \A i \in 1..n : H[i] = P.heap[i]
    BY <1>2, <1>4, <1>5, <1>8, AppendProperties
<1>10. DOMAIN H = 1..n + 1  BY <1>9, LenProperties
<1>11. Q = [P EXCEPT !.heap = H]  BY <1>4 DEF New
<1>12. Q.heap[NewPtr(P)].val = v /\ Alive(Q) = Alive(P) \cup {NewPtr(P)}  BY NewOp
<1> HIDE DEF Q
<1>13. Q.heap = H /\ Q.call = P.call /\ Q.mvalue = P.mvalue  BY <1>1, <1>11 DEF Fields
<1>14. \A h \in 1..n : h \in 1..n + 1  OBVIOUS
<1>15. Leaves(P, Q, 0)  BY <1>3, <1>9, <1>10, <1>13, <1>14 DEF Leaves
<1>16. n + 1 \notin 1..n  OBVIOUS
<1> QED  BY <1>3, <1>12, <1>15, <1>16 DEF Q

LEMMA DeleteLeaves ==
    ASSUME NEW P, IsParser(P), NEW ptr \in Alive(P)
    PROVE  LET Q == Delete(P, ptr)
           IN  Leaves(P, Q, 0) /\ Alive(Q) = Alive(P) \ {ptr} /\ Q.stack = P.stack
<1>1. ptr \in DOMAIN P.heap /\ ptr # 0 /\ P.heap[ptr].live  BY HeapOf DEF Alive, Leaked
<1>2. PICK cell : cell = [P.heap[ptr] EXCEPT !.live = FALSE]  OBVIOUS
<1>3. DOMAIN cell = {"val", "live"} /\ cell.live \in BOOLEAN /\ cell.val = P.heap[ptr].val
    BY <1>1, <1>2 DEF IsParser, IsHeap
<1>4. PICK Q : Q = Delete(P, ptr)  OBVIOUS
<1>5. Q = [P EXCEPT !.heap[ptr].live = FALSE]  BY <1>1, <1>4 DEF Delete
<1>6. Q = [P EXCEPT !.heap = [P.heap EXCEPT ![ptr] = cell]]  BY <1>2, <1>5
<1>7. /\ DOMAIN Q.heap = DOMAIN P.heap /\ Q.heap[ptr] = cell
      /\ \A h \in DOMAIN P.heap \ {ptr} : Q.heap[h] = P.heap[h]
    BY <1>1, <1>3, <1>6, HeapExcept
<1>8. DOMAIN P = Fields  BY DEF IsParser
<1>9. Q.call = P.call /\ Q.mvalue = P.mvalue  BY <1>6, <1>8 DEF Fields
<1>10. Leaves(P, Q, 0)  BY <1>3, <1>7, <1>9 DEF Leaves
<1>11. Alive(Q) = Alive(P) \ {ptr} /\ SameStack(P, Q)  BY <1>4, DeleteOp
<1> QED  BY <1>4, <1>10, <1>11 DEF SameStack

Revalued(P, ptr, v) == [P EXCEPT !.heap[ptr].val = v]

LEMMA ValLeaves ==
    ASSUME NEW P, IsParser(P), NEW ptr \in DOMAIN P.heap, NEW v
    PROVE  LET Q == Revalued(P, ptr, v)
           IN  /\ Leaves(P, Q, ptr) /\ Q.heap[ptr].val = v /\ Alive(Q) = Alive(P)
               /\ IsParser(Q) /\ Q.stack = P.stack /\ DOMAIN Q.heap = DOMAIN P.heap
<1>2. PICK cell : cell = [P.heap[ptr] EXCEPT !.val = v]  OBVIOUS
<1>3. DOMAIN cell = {"val", "live"} /\ cell.live \in BOOLEAN /\ cell.val = v
    BY <1>2 DEF IsParser, IsHeap
<1>4. PICK Q : Q = Revalued(P, ptr, v)  OBVIOUS
<1>5. Q = [P EXCEPT !.heap[ptr].val = v]  BY <1>4 DEF Revalued
<1>6. Q = [P EXCEPT !.heap = [P.heap EXCEPT ![ptr] = cell]]  BY <1>2, <1>5
<1>7. /\ DOMAIN Q.heap = DOMAIN P.heap /\ Q.heap[ptr] = cell
      /\ \A h \in DOMAIN P.heap \ {ptr} : Q.heap[h] = P.heap[h]
    BY <1>3, <1>6, HeapExcept
<1>8. DOMAIN P = Fields  BY DEF IsParser
<1>9. Q.call = P.call /\ Q.mvalue = P.mvalue  BY <1>6, <1>8 DEF Fields
<1>10. Leaves(P, Q, ptr)  BY <1>7, <1>9 DEF Leaves
<1>11. Alive(Q) = Alive(P) /\ IsParser(Q) /\ SameStack(P, Q)  BY <1>5, ValOp
<1> QED  BY <1>3, <1>4, <1>7, <1>10, <1>11 DEF SameStack

LEMMA StackLeaves ==
    ASSUME NEW P, IsParser(P), NEW t, NEW Q, Q = [P EXCEPT !.stack = t]
    PROVE  Leaves(P, Q, 0) /\ Alive(Q) = Alive(P) /\ Q.heap = P.heap
<1>1. DOMAIN P = Fields  BY DEF IsParser
<1>2. Q.heap = P.heap /\ Q.call = P.call /\ Q.mvalue = P.mvalue  BY <1>1 DEF Fields
<1> QED  BY <1>2 DEF Leaves, Alive, Leaked

LEMMA TopLeaves ==
    ASSUME NEW P, IsParser(P), NEW s
    PROVE  LET Q == WithTop(P, s)
           IN  Leaves(P, Q, 0) /\ Alive(Q) = Alive(P) /\ Q.heap = P.heap
<1>1. PICK t : t = Append(Front(P.stack), s)  OBVIOUS
<1>2. WithTop(P, s) = [P EXCEPT !.stack = t]  BY <1>1 DEF WithTop
<1> QED  BY <1>2, StackLeaves

LEMMA PushLeaves ==
    ASSUME NEW P, IsParser(P), NEW s
    PROVE  LET Q == Push(P, s)
           IN  Leaves(P, Q, 0) /\ Alive(Q) = Alive(P) /\ Q.heap = P.heap
<1>1. PICK t : t = Append(P.stack, s)  OBVIOUS
<1>2. Push(P, s) = [P EXCEPT !.stack = t]  BY <1>1 DEF Push
<1> QED  BY <1>2, StackLeaves

-----------------------------------------------------------------------------
(***************************************************************************)
(* takeValue and takeName, to the value.                                   *)
(***************************************************************************)
LEMMA StateGets ==
    ASSUME NEW P, Good(P), NEW n \in Nat, Len(P.stack) = n + 1, NEW ptr \in Nat,
           NEW del \in BOOLEAN
    PROVE  LET Q == StateTakesValue(P, ptr, del)
           IN  /\ Stacked(P, Q, n, [P.stack[n + 1] EXCEPT !.ptr = ptr, !.del = del])
               /\ Leaves(P, Q, 0) /\ Alive(Q) = Alive(P) /\ Q.heap = P.heap
<1>1. IsParser(P)  BY DEF Good
<1>2. PICK top : top = P.stack[n + 1]  OBVIOUS
<1>3. getTopState(P) = top /\ top \in State  BY <1>1, <1>2, TopOf
<1>4. PICK s : s = [top EXCEPT !.ptr = ptr, !.del = del]  OBVIOUS
<1>5. s \in State  BY <1>3, <1>4 DEF State
<1>6. StateTakesValue(P, ptr, del) = WithTop(P, s)  BY <1>3, <1>4 DEF StateTakesValue
<1>7. Stacked(P, WithTop(P, s), n, s)  BY <1>1, <1>5, WithTopOp
<1> QED  BY <1>1, <1>2, <1>4, <1>6, <1>7, TopLeaves

LEMMA StateKeepsHeap ==
    ASSUME NEW P, Good(P), NEW n \in Nat, Len(P.stack) = n + 1, NEW ptr \in Nat
    PROVE  StateTakesValue(P, ptr, TRUE).heap = P.heap
<1>1. PICK del \in BOOLEAN : del = TRUE  OBVIOUS
<1>2. StateTakesValue(P, ptr, del).heap = P.heap  BY StateGets
<1> QED  BY <1>1, <1>2

Drops(P, Q, ptr) == Alive(Q) = Alive(P) \ {ptr}

(* A member with a name goes into its struct, which lets go of the value. *)
LEMMA StructGets ==
    ASSUME NEW P, IsParser(P), NEW n \in Nat, Len(P.stack) = n + 1, NEW name,
           NEW a \in Alive(P), a = P.stack[n + 1].ptr, NEW ptr \in Alive(P), ptr # a
    PROVE  LET Q == AddMember(P, name, ptr)
           IN  /\ Q.stack = P.stack /\ IsParser(Q)
               /\ Leaves(P, Q, a) /\ Drops(P, Q, ptr) /\ a \in DOMAIN Q.heap
               /\ Q.heap[a].val = addMember(P.heap[a].val, name, P.heap[ptr].val)
<1>1. PICK top : top = P.stack[n + 1]  OBVIOUS
<1>2. getTopState(P) = top  BY <1>1, TopOf
<1>3. a = top.ptr  BY <1>1
<1>4. a \in DOMAIN P.heap /\ a # 0  BY HeapOf
<1>5. PICK v : v = addMember(P.heap[a].val, name, P.heap[ptr].val)  OBVIOUS
<1>6. PICK R : R = Revalued(P, a, v)  OBVIOUS
<1>7. PICK Q : Q = AddMember(P, name, ptr)  OBVIOUS
<1>8. Q = Delete(R, ptr)  BY <1>2, <1>3, <1>5, <1>6, <1>7 DEF AddMember, Deref, Revalued
<1>9. /\ Leaves(P, R, a) /\ R.heap[a].val = v /\ Alive(R) = Alive(P)
      /\ IsParser(R) /\ R.stack = P.stack /\ DOMAIN R.heap = DOMAIN P.heap
    BY <1>4, <1>6, ValLeaves
<1>10. Leaves(R, Q, 0) /\ Alive(Q) = Alive(R) \ {ptr} /\ Q.stack = R.stack
    BY <1>8, <1>9, DeleteLeaves
<1>11. IsParser(Q)  BY <1>8, <1>9, DeleteOp
<1>12. Leaves(P, Q, a)  BY <1>9, <1>10, LeavesTwice, NoValue
<1>13. a \in DOMAIN Q.heap /\ Q.heap[a].val = v  BY <1>4, <1>9, <1>10 DEF Leaves
<1> QED  BY <1>1, <1>3, <1>5, <1>7, <1>9, <1>10, <1>11, <1>12, <1>13 DEF Drops

WithItem(P, a, item, ptr) == Delete(Revalued(P, a, addItem(P.heap[a].val, item)), ptr)

(* Q is P with one item more in the array a, which may be new. *)
ItemPut(P, Q, n, ptr, del, a) ==
    LET old == P.stack[n + 1].ptr
    IN  /\ Stacked(P, Q, n, [P.stack[n + 1] EXCEPT !.ptr = a, !.del = del])
        /\ IF old = 0 THEN a \notin DOMAIN P.heap ELSE a = old
        /\ Leaves(P, Q, a)
        /\ \A h \in Alive(Q) : (h \in Alive(P) \/ h = a) /\ h # ptr
        /\ Q.heap[a].val = addItem(IF old = 0 THEN Array(<<>>) ELSE P.heap[old].val,
                                   P.heap[ptr].val)

LEMMA DataGets ==
    ASSUME NEW P, Good(P), NEW n \in Nat, Len(P.stack) = n + 1, NEW ptr, NEW del \in BOOLEAN,
           P.stack[n + 1].st = "eData", Free(P, n + 1, ptr), ptr # 0
    PROVE  LET Q == ArrayTakesValue(P, ptr, del)
           IN  \E a \in Nat \ {0} : ItemPut(P, Q, n, ptr, del, a)
<1>1. PICK top : top = P.stack[n + 1]  OBVIOUS
<1>2. IsParser(P) /\ getTopState(P) = top  BY <1>1, TopOf DEF Good
<1>3. top \in State /\ top.ptr \in Alive(P) \cup {0}  BY <1>1, TopFacts
<1>4. ptr \in Alive(P) /\ ptr # top.ptr  BY <1>1, FreeLess DEF Free
<1>5. PICK old : old = top.ptr  OBVIOUS
<1>6. PICK Q : Q = ArrayTakesValue(P, ptr, del)  OBVIOUS
<1>7. Alive(P) \subseteq DOMAIN P.heap /\ 0 \notin Alive(P) /\ Alive(P) \subseteq Nat
    BY <1>2, HeapOf
<1>8. PICK d : d = P.heap[ptr].val  OBVIOUS
<1>9. ASSUME NEW p, NEW a, NEW s, IsParser(p), a \in Alive(p), Stacked(P, p, n, s), s.ptr = a,
             ptr \in Alive(p), ptr # a, Leaves(P, p, 0),
             Q = WithItem(p, getTopState(p).ptr, d, ptr)
      PROVE  /\ Stacked(P, Q, n, s) /\ Leaves(P, Q, a) /\ Alive(Q) = Alive(p) \ {ptr}
             /\ Q.heap[a].val = addItem(p.heap[a].val, d)
    <2>1. Len(p.stack) = n + 1 /\ p.stack[n + 1] = s  BY <1>9 DEF Stacked
    <2>2. getTopState(p).ptr = a  BY <1>9, <2>1, TopOf
    <2>3. PICK v : v = addItem(p.heap[a].val, d)  OBVIOUS
    <2>4. PICK R : R = Revalued(p, a, v)  OBVIOUS
    <2>5. Q = Delete(R, ptr)  BY <1>9, <2>2, <2>3, <2>4 DEF WithItem
    <2>6. a \in DOMAIN p.heap  BY <1>9, HeapOf
    <2>7. /\ Leaves(p, R, a) /\ R.heap[a].val = v /\ Alive(R) = Alive(p)
          /\ IsParser(R) /\ R.stack = p.stack /\ DOMAIN R.heap = DOMAIN p.heap
        BY <1>9, <2>4, <2>6, ValLeaves
    <2>8. Leaves(R, Q, 0) /\ Alive(Q) = Alive(R) \ {ptr} /\ Q.stack = R.stack
        BY <1>9, <2>5, <2>7, DeleteLeaves
    <2>9. Leaves(p, Q, a)  BY <2>7, <2>8, LeavesTwice, NoValue
    <2>10. Leaves(P, Q, a)
        <3>1. 0 \notin DOMAIN P.heap  BY <1>2, NoValue
        <3> QED  BY <1>9, <2>9, <3>1, LeavesTwice
    <2>11. Q.heap[a].val = v
        <3>1. a # 0  BY <1>9, HeapOf
        <3> QED  BY <2>6, <2>7, <2>8, <3>1 DEF Leaves
    <2>12. Stacked(P, Q, n, s)  BY <1>9, <2>7, <2>8 DEF Stacked
    <2> QED  BY <2>3, <2>7, <2>8, <2>10, <2>11, <2>12
<1>10. CASE old # 0
    <2>1. PICK s : s = [top EXCEPT !.del = del]  OBVIOUS
    <2>2. s \in State /\ s.ptr = old  BY <1>3, <1>5, <2>1 DEF State
    <2>3. PICK p : p = WithTop(P, s)  OBVIOUS
    <2>4. IsParser(p) /\ Stacked(P, p, n, s)  BY <1>2, <2>2, <2>3, WithTopOp
    <2>5. Leaves(P, p, 0) /\ Alive(p) = Alive(P) /\ p.heap = P.heap  BY <1>2, <2>3, TopLeaves
    <2>6. Q = WithItem(p, getTopState(p).ptr, d, ptr)
        BY <1>2, <1>5, <1>6, <1>8, <1>10, <2>1, <2>3 DEF ArrayTakesValue, Deref, WithItem, Revalued
    <2>7. /\ Stacked(P, Q, n, s) /\ Leaves(P, Q, old) /\ Alive(Q) = Alive(p) \ {ptr}
          /\ Q.heap[old].val = addItem(p.heap[old].val, d)
        BY <1>3, <1>4, <1>5, <1>9, <1>10, <2>2, <2>4, <2>5, <2>6
    <2>8. old \in Alive(P) /\ old \in Nat \ {0}  BY <1>3, <1>5, <1>7, <1>10
    <2>9. s = [top EXCEPT !.ptr = old, !.del = del]  BY <1>3, <1>5, <2>1 DEF State
    <2>10. Alive(Q) = (Alive(P) \cup {old}) \ {ptr}  BY <2>5, <2>7, <2>8
    <2>11. ItemPut(P, Q, n, ptr, del, old)
        BY <1>1, <1>5, <1>8, <1>10, <2>5, <2>7, <2>8, <2>9, <2>10 DEF ItemPut
    <2> QED  BY <1>6, <2>8, <2>11
<1>11. CASE old = 0
    <2>1. PICK a : a = NewPtr(P)  OBVIOUS
    <2>2. PICK r : r = New(P, Array(<<>>))  OBVIOUS
    <2>3. /\ IsParser(r) /\ SameStack(P, r) /\ a \in Nat \ {0} /\ a \in DOMAIN r.heap
        BY <1>2, <2>1, <2>2, NewOp
    <2>4. /\ Leaves(P, r, 0) /\ a \notin DOMAIN P.heap
          /\ r.heap[a].val = Array(<<>>) /\ Alive(r) = Alive(P) \cup {a}
        BY <1>2, <2>1, <2>2, NewLeaves
    <2>5. PICK s : s = [top EXCEPT !.ptr = a, !.del = del]  OBVIOUS
    <2>6. s \in State /\ s.ptr = a  BY <1>3, <2>3, <2>5 DEF State
    <2>7. PICK p : p = WithTop(r, s)  OBVIOUS
    <2>8. p = New(WithTop(P, s), Array(<<>>))  BY <1>2, <2>2, <2>7, NewTopCommutes
    <2>9. Len(r.stack) = n + 1 /\ \A i \in 1..n : r.stack[i] = P.stack[i]  BY <2>3 DEF SameStack
    <2>10. IsParser(p) /\ Stacked(r, p, n, s)  BY <2>3, <2>6, <2>7, <2>9, WithTopOp
    <2>11. Stacked(P, p, n, s)  BY <2>9, <2>10 DEF Stacked
    <2>12. Leaves(r, p, 0) /\ Alive(p) = Alive(r) /\ p.heap = r.heap  BY <2>3, <2>7, TopLeaves
    <2>13. Leaves(P, p, 0)  BY <2>4, <2>12, LeavesTwice, NoValue
    <2>14. Q = WithItem(p, getTopState(p).ptr, d, ptr)
        BY <1>2, <1>5, <1>6, <1>8, <1>11, <2>1, <2>5, <2>8 DEF ArrayTakesValue, Deref, WithItem, Revalued
    <2>15. ptr # a  BY <1>4, <1>7, <2>4
    <2>16. /\ Stacked(P, Q, n, s) /\ Leaves(P, Q, a) /\ Alive(Q) = Alive(p) \ {ptr}
           /\ Q.heap[a].val = addItem(p.heap[a].val, d)
        BY <1>4, <1>9, <2>4, <2>6, <2>10, <2>11, <2>12, <2>13, <2>14, <2>15
    <2>17. ItemPut(P, Q, n, ptr, del, a)
        BY <1>1, <1>5, <1>8, <1>11, <2>3, <2>4, <2>5, <2>12, <2>16 DEF ItemPut
    <2> QED  BY <1>6, <2>3, <2>17
<1> QED  BY <1>10, <1>11

LEMMA MemberGets ==
    ASSUME NEW P, Good(P), NEW n \in Nat, Len(P.stack) = n + 1, NEW ptr, NEW del \in BOOLEAN,
           P.stack[n + 1].st = "eMember", Free(P, n + 1, ptr), ptr # 0
    PROVE  LET Q == MemberTakesValue(P, ptr, del)
               top == P.stack[n + 1]
           IN  /\ top.name # <<>> =>
                    /\ Stacked(P, Q, n, [top EXCEPT !.del = del])
                    /\ Leaves(P, Q, top.ptr) /\ Drops(P, Q, ptr)
                    /\ Q.heap[top.ptr].val
                        = addMember(P.heap[top.ptr].val, top.name, P.heap[ptr].val)
               /\ top.name = <<>> =>
                    /\ Stacked(P, Q, n, [top EXCEPT !.del = del, !.mem = ptr])
                    /\ Leaves(P, Q, 0) /\ Alive(Q) = Alive(P)
<1>1. PICK top : top = P.stack[n + 1]  OBVIOUS
<1>2. IsParser(P) /\ getTopState(P) = top  BY <1>1, TopOf DEF Good
<1>3. top \in State /\ top.ptr \in Alive(P)  BY <1>1, TopFacts
<1>4. ptr \in Alive(P) /\ ptr # top.ptr /\ ptr \in Nat  BY <1>1, FreeLess DEF Free
<1>5. PICK s : s = [top EXCEPT !.del = del]  OBVIOUS
<1>6. s \in State /\ s.ptr = top.ptr /\ s.name = top.name  BY <1>3, <1>5 DEF State
<1>7. PICK p : p = WithTop(P, s)  OBVIOUS
<1>8. IsParser(p) /\ Stacked(P, p, n, s)  BY <1>2, <1>6, <1>7, WithTopOp
<1>9. Leaves(P, p, 0) /\ Alive(p) = Alive(P) /\ p.heap = P.heap  BY <1>2, <1>7, TopLeaves
<1>10. Len(p.stack) = n + 1 /\ p.stack[n + 1] = s  BY <1>8 DEF Stacked
<1>11. PICK Q : Q = MemberTakesValue(P, ptr, del)  OBVIOUS
<1>12. getTopState(p) = s  BY <1>8, <1>10, TopOf
<1>13. Q = IF top.name # <<>> THEN AddMember(p, top.name, ptr) ELSE WithTop(p, [s EXCEPT !.mem = ptr])
    BY <1>2, <1>5, <1>7, <1>11, <1>12 DEF MemberTakesValue
<1>14. CASE top.name # <<>>
    <2>1. Q = AddMember(p, top.name, ptr)  BY <1>13, <1>14
    <2>2. PICK a : a = top.ptr  OBVIOUS
    <2>3. p.stack[n + 1].ptr = a /\ a \in Alive(p) /\ ptr \in Alive(p) /\ ptr # a
        BY <1>3, <1>4, <1>6, <1>9, <1>10, <2>2
    <2>4. /\ Q.stack = p.stack /\ Leaves(p, Q, a) /\ Drops(p, Q, ptr)
          /\ Q.heap[a].val = addMember(p.heap[a].val, top.name, p.heap[ptr].val)
        BY <1>8, <1>10, <2>1, <2>3, StructGets
    <2>5. Leaves(P, Q, a)
        <3>1. 0 \notin DOMAIN P.heap  BY <1>2, NoValue
        <3> QED  BY <1>9, <2>4, <3>1, LeavesTwice
    <2>6. Stacked(P, Q, n, s)  BY <1>8, <2>4 DEF Stacked
    <2> QED  BY <1>1, <1>5, <1>9, <1>11, <1>14, <2>2, <2>4, <2>5, <2>6 DEF Drops
<1>15. CASE top.name = <<>>
    <2>1. PICK u : u = [s EXCEPT !.mem = ptr]  OBVIOUS
    <2>2. Q = WithTop(p, u)  BY <1>13, <1>15, <2>1
    <2>3. u \in State /\ u = [top EXCEPT !.del = del, !.mem = ptr]
        BY <1>3, <1>4, <1>5, <2>1 DEF State
    <2>4. Stacked(p, Q, n, u)  BY <1>8, <1>10, <2>2, <2>3, WithTopOp
    <2>5. Leaves(p, Q, 0) /\ Alive(Q) = Alive(p)  BY <1>8, <2>2, TopLeaves
    <2>6. Leaves(P, Q, 0)  BY <1>9, <2>5, LeavesTwice, NoValue
    <2>7. Stacked(P, Q, n, u)  BY <1>8, <2>4 DEF Stacked
    <2> QED  BY <1>1, <1>9, <1>11, <1>15, <2>3, <2>5, <2>6, <2>7
<1> QED  BY <1>14, <1>15

LEMMA NameGets ==
    ASSUME NEW P, Good(P), NEW n \in Nat, Len(P.stack) = n + 1, NEW name \in Texts,
           P.stack[n + 1].st = "eMember"
    PROVE  LET Q == takeName(P, name)
               top == P.stack[n + 1]
           IN  /\ top.mem # 0 =>
                    /\ Stacked(P, Q, n, [top EXCEPT !.mem = 0])
                    /\ Leaves(P, Q, top.ptr) /\ Drops(P, Q, top.mem)
                    /\ Q.heap[top.ptr].val
                        = addMember(P.heap[top.ptr].val, name, P.heap[top.mem].val)
               /\ top.mem = 0 =>
                    /\ Stacked(P, Q, n, [top EXCEPT !.name = name])
                    /\ Leaves(P, Q, 0) /\ Alive(Q) = Alive(P)
<1>1. PICK top : top = P.stack[n + 1]  OBVIOUS
<1>2. IsParser(P) /\ getTopState(P) = top  BY <1>1, TopOf DEF Good
<1>3. top \in State /\ top.ptr \in Alive(P) \cup {0} /\ top.ptr # 0 /\ top.mem \in Alive(P) \cup {0}
      /\ (top.mem # 0 => top.mem # top.ptr) /\ top.st = "eMember"
    BY <1>1, TopFacts
<1>4. PICK Q : Q = takeName(P, name)  OBVIOUS
<1>5. CASE top.mem # 0
    <2>1. PICK p : p = AddMember(P, name, top.mem)  OBVIOUS
    <2>2. PICK a : a = top.ptr  OBVIOUS
    <2>3. /\ p.stack = P.stack /\ IsParser(p)
          /\ Leaves(P, p, a) /\ Drops(P, p, top.mem) /\ a \in DOMAIN p.heap
          /\ p.heap[a].val = addMember(P.heap[a].val, name, P.heap[top.mem].val)
        BY <1>1, <1>2, <1>3, <1>5, <2>1, <2>2, StructGets
    <2>4. getTopState(p) = top  BY <1>1, <2>3, TopOf
    <2>5. PICK u : u = [top EXCEPT !.mem = 0]  OBVIOUS
    <2>6. Q = WithTop(p, u)  BY <1>2, <1>3, <1>4, <1>5, <2>1, <2>4, <2>5 DEF takeName
    <2>7. u \in State  BY <1>3, <2>5 DEF State
    <2>8. Stacked(p, Q, n, u)  BY <2>3, <2>6, <2>7, WithTopOp
    <2>9. Leaves(p, Q, 0) /\ Alive(Q) = Alive(p) /\ Q.heap = p.heap  BY <2>3, <2>6, TopLeaves
    <2>10. Leaves(P, Q, a)
        <3>1. 0 \notin DOMAIN P.heap  BY <1>2, NoValue
        <3> QED  BY <2>3, <2>9, <3>1, LeavesTwice
    <2>11. Stacked(P, Q, n, u)  BY <2>3, <2>8 DEF Stacked
    <2> QED  BY <1>1, <1>4, <1>5, <2>2, <2>3, <2>5, <2>9, <2>10, <2>11 DEF Drops
<1>6. CASE top.mem = 0
    <2>1. PICK u : u = [top EXCEPT !.name = name]  OBVIOUS
    <2>2. Q = WithTop(P, u)  BY <1>2, <1>3, <1>4, <1>6, <2>1 DEF takeName
    <2>3. u \in State  BY <1>3, <2>1 DEF State
    <2>4. Stacked(P, Q, n, u)  BY <1>2, <2>2, <2>3, WithTopOp
    <2>5. Leaves(P, Q, 0) /\ Alive(Q) = Alive(P)  BY <1>2, <2>2, TopLeaves
    <2> QED  BY <1>1, <1>4, <1>6, <2>1, <2>4, <2>5
<1> QED  BY <1>5, <1>6
=============================================================================
