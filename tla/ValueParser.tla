----------------------------- MODULE ValueParser -----------------------------
(***************************************************************************)
(* The event-driven parsers of the library: ValueParser and the two        *)
(* parsers derived from it, MethodCallParser and MethodResponseParser.     *)
(* Each callback of expat is an operator from a parser to a parser.        *)
(*                                                                         *)
(* A parser keeps a stack of states.  A state refers to its value by a     *)
(* pointer into the heap (0 is the null pointer), because the hard part of *)
(* these classes is who deletes a value that several states have pointed   *)
(* to: `del` is ValueState::candel.                                        *)
(***************************************************************************)
EXTENDS XmlRpcXml, TLC

(***************************************************************************)
(* In which state which opening tag leads to which new state.  A state has *)
(* one such tag, the one its closing tag is compared with.                 *)
(***************************************************************************)
Typed == {<<"array", "eArray">>, <<"struct", "eStruct">>, <<"boolean", "eBoolean">>,
          <<"int", "eInt">>, <<"i4", "eI4">>, <<"double", "eDouble">>,
          <<"string", "eString">>, <<"base64", "eBase64">>,
          <<"dateTime.iso8601", "eDate">>}

ValueOpens ==
    {<<"eNone", "value", "eValue">>, <<"eStruct", "member", "eMember">>,
     <<"eMember", "name", "eName">>, <<"eMember", "value", "eValue">>,
     <<"eArray", "data", "eData">>, <<"eData", "value", "eValue">>}
    \cup {<<"eValue", t[1], t[2]>> : t \in Typed}

CallOpens ==
    {<<"eNone", "methodCall", "eMethodCall">>,
     <<"eMethodCall", "methodName", "eMethodName">>,
     <<"eMethodCall", "params", "eParams">>,
     <<"eParams", "param", "eParam">>, <<"eParam", "value", "eValue">>}

ResponseOpens ==
    {<<"eNone", "methodResponse", "eMethodResponse">>,
     <<"eMethodResponse", "fault", "eFault">>, <<"eFault", "value", "eValue">>,
     <<"eMethodResponse", "params", "eParams">>,
     <<"eParams", "param", "eParam">>, <<"eParam", "value", "eValue">>}

Opens(kind) == ValueOpens \cup CASE kind = "call" -> CallOpens
                                 [] kind = "response" -> ResponseOpens
                                 [] kind = "value" -> {}

ExpectedTag(st) ==
    (CHOOSE o \in ValueOpens \cup CallOpens \cup ResponseOpens : o[3] = st)[2]

(***************************************************************************)
(* The parser, its stack and its heap.                                     *)
(***************************************************************************)
ValueState(st) == [st |-> st, ptr |-> 0, del |-> TRUE, name |-> <<>>, cdata |-> <<>>,
                   prev |-> "eUnknown", mem |-> 0]
MemberState(ptr) == [ValueState("eMember") EXCEPT !.ptr = ptr]

Parser(kind) ==
    [kind |-> kind, stack |-> <<ValueState("eNone")>>, heap |-> <<>>,
     call |-> MethodCall(<<>>, <<>>), mvalue |-> Void, complete |-> FALSE,
     ignored |-> 0, doubleFree |-> FALSE, thrown |-> "no"]

Throw(P, what) == [P EXCEPT !.thrown = what]
getTopState(P) == Last(P.stack)
Push(P, s) == [P EXCEPT !.stack = Append(@, s)]
WithTop(P, s) == [P EXCEPT !.stack = Append(Front(@), s)]
Deref(P, ptr) == P.heap[ptr].val

New(P, v) == [P EXCEPT !.heap = Append(@, [val |-> v, live |-> TRUE])]
NewPtr(P) == Len(P.heap) + 1     \* where New will put its value
Delete(P, ptr) ==
    CASE ptr = 0 -> P
      [] ptr # 0 /\ ~P.heap[ptr].live -> [P EXCEPT !.doubleFree = TRUE]
      [] ptr # 0 /\ P.heap[ptr].live -> [P EXCEPT !.heap[ptr].live = FALSE]

(***************************************************************************)
(* takeValue and takeName of the state on top.  The base class overwrites  *)
(* its pointer; a member goes into the struct it shares with the state     *)
(* below, as soon as both its name and its value are there; an array gets  *)
(* an item.  Those two copy the value and delete it.                       *)
(***************************************************************************)
StateTakesValue(P, ptr, del) ==
    WithTop(P, [getTopState(P) EXCEPT !.ptr = ptr, !.del = del])

AddMember(P, name, ptr) ==
    LET s == getTopState(P)
    IN  Delete([P EXCEPT !.heap[s.ptr].val = addMember(@, name, Deref(P, ptr))], ptr)

MemberTakesValue(P, ptr, del) ==
    LET s == getTopState(P)
        p == WithTop(P, [s EXCEPT !.del = del])
    IN  IF s.name # <<>> THEN AddMember(p, s.name, ptr)
        ELSE WithTop(p, [getTopState(p) EXCEPT !.mem = ptr])

ArrayTakesValue(P, ptr, del) ==
    LET s == getTopState(P)
        p == IF s.ptr = 0
             THEN New(WithTop(P, [s EXCEPT !.ptr = NewPtr(P), !.del = del]), Array(<<>>))
             ELSE WithTop(P, [s EXCEPT !.del = del])
        a == getTopState(p).ptr
    IN  Delete([p EXCEPT !.heap[a].val = addItem(@, Deref(P, ptr))], ptr)

takeValue(P, ptr, del) ==
    CASE getTopState(P).st = "eMember" -> MemberTakesValue(P, ptr, del)
      [] getTopState(P).st = "eData" -> ArrayTakesValue(P, ptr, del)
      [] OTHER -> StateTakesValue(P, ptr, del)

takeNew(P, v) == takeValue(New(P, v), NewPtr(P), TRUE)

takeName_KeepsMem(P, name) ==
    LET s == getTopState(P)
    IN  IF s.mem # 0 THEN AddMember(P, name, s.mem) ELSE WithTop(P, [s EXCEPT !.name = name])

takeName(P, name) ==
    LET s == getTopState(P)
    IN  CASE s.st = "eMember" /\ s.mem # 0 ->
                LET p == AddMember(P, name, s.mem)
                IN  WithTop(p, [getTopState(p) EXCEPT !.mem = 0])
          [] s.st = "eMember" /\ s.mem = 0 -> WithTop(P, [s EXCEPT !.name = name])
          [] OTHER -> P

(***************************************************************************)
(* Opening tags.  The first member creates the struct, owned by the state  *)
(* of the member: takeValue(.., false).  The call and response parsers     *)
(* drop the FALSE of ValueParser::testStartElement: a tag nobody knows has *)
(* no state of its own (`ignored` counts them and is no part of the code). *)
(***************************************************************************)
NewMember_NotShared(P) ==
    Push(takeValue(New(P, Struct(<<>>)), NewPtr(P), FALSE), ValueState("eMember"))

NewMember(P) ==
    LET p == IF getTopState(P).ptr = 0
             THEN takeValue(New(P, Struct(<<>>)), NewPtr(P), FALSE) ELSE P
    IN  Push(p, MemberState(getTopState(p).ptr))

startElement(P, tag) ==
    LET next == {o \in Opens(P.kind) : o[1] = getTopState(P).st /\ o[2] = tag}
        new == (CHOOSE o \in next : TRUE)[3]
    IN  CASE next = {} /\ P.kind = "value" -> Throw(P, "XmlException")
          [] next = {} /\ P.kind # "value" -> [P EXCEPT !.ignored = @ + 1]
          [] next # {} /\ new = "eMember" -> NewMember(P)
          [] next # {} /\ new \in {"eMethodCall", "eMethodResponse"} ->
                Push([P EXCEPT !.complete = FALSE], ValueState(new))
          [] OTHER -> Push(P, ValueState(new))

charData(P, text) == WithTop(P, [getTopState(P) EXCEPT !.cdata = @ \o text])

(***************************************************************************)
(* Closing tags.  The state on top is popped, whatever tag it is.          *)
(***************************************************************************)
\* What </value> passes on if no element within it left a value.
DefaultValue(curr) == CASE curr.prev = "eArray" -> Array(<<>>)
                        [] curr.prev = "eStruct" -> Struct(<<>>)
                        [] OTHER -> RpcString(curr.cdata)

ScalarValue(curr) == CASE curr.st = "eBoolean" -> BooleanOf(curr.cdata)
                       [] curr.st \in {"eInt", "eI4"} -> IntegerOf(curr.cdata)
                       [] curr.st = "eDouble" -> DoubleOf(curr.cdata)
                       [] curr.st = "eString" -> RpcString(curr.cdata)
                       [] curr.st = "eBase64" -> Base64(curr.cdata)
                       [] curr.st = "eDate" -> DateTime(curr.cdata)

\* P has been popped already, curr is the state that was on top.
ValueEnd(P, curr) ==
    LET p == WithTop(P, [getTopState(P) EXCEPT !.prev = curr.st])
    IN  CASE curr.st \in {"eBoolean", "eInt", "eI4", "eDouble", "eString", "eBase64", "eDate"} ->
                takeNew(p, ScalarValue(curr))
          [] curr.st = "eName" -> takeName(p, curr.cdata)
          [] curr.st = "eValue" /\ curr.ptr = 0 -> takeNew(p, DefaultValue(curr))
          [] OTHER -> takeValue(p, curr.ptr, TRUE)

ParamEnd_DeletesTwice(P, curr) ==
    IF curr.ptr = 0 THEN P
    ELSE Delete(Delete([P EXCEPT !.call = addParam(@, Deref(P, curr.ptr))], curr.ptr), curr.ptr)

ParamEnd(P, curr) ==
    IF curr.ptr = 0 THEN P
    ELSE Delete([P EXCEPT !.call = addParam(@, Deref(P, curr.ptr))], curr.ptr)

CallEnd(P, curr) ==
    CASE curr.st = "eMethodName" -> [P EXCEPT !.call.name = curr.cdata]
      [] curr.st = "eMethodCall" -> [P EXCEPT !.complete = TRUE]
      [] curr.st = "eParams" -> P
      [] curr.st = "eParam" -> ParamEnd(P, curr)

ResponseEnd(P, curr) ==
    LET p == takeValue(P, curr.ptr, TRUE)
    IN  CASE curr.st = "eMethodResponse" /\ curr.ptr # 0 ->
                [p EXCEPT !.mvalue = Deref(p, curr.ptr)]
          [] OTHER -> p

endElement_AnyTag(P, tag) ==
    LET curr == getTopState(P)
        popped == [P EXCEPT !.stack = Front(@),
                            !.complete = @ \/ curr.st = "eMethodResponse"]
    IN  CASE Len(P.stack) <= 1 -> P
          [] curr.st \in {"eMethodName", "eMethodCall", "eParams", "eParam"}
                /\ Len(P.stack) > 1 /\ P.kind = "call" -> CallEnd(popped, curr)
          [] curr.st \in {"eMethodResponse", "eFault", "eParams", "eParam"}
                /\ Len(P.stack) > 1 /\ P.kind = "response" -> ResponseEnd(popped, curr)
          [] OTHER -> ValueEnd(popped, curr)

endElement(P, tag) ==
    LET curr == getTopState(P)
        popped == [P EXCEPT !.stack = Front(@),
                            !.complete = @ \/ curr.st = "eMethodResponse"]
    IN  CASE Len(P.stack) <= 1 -> Throw(P, "RuntimeException")
          [] Len(P.stack) > 1 /\ tag # ExpectedTag(curr.st) -> Throw(popped, "XmlException")
          [] OTHER ->
                CASE curr.st \in {o[3] : o \in CallOpens} \ {"eValue"} /\ P.kind = "call" ->
                        CallEnd(popped, curr)
                  [] curr.st \in {o[3] : o \in ResponseOpens} \ {"eValue"}
                        /\ P.kind = "response" -> ResponseEnd(popped, curr)
                  [] OTHER -> ValueEnd(popped, curr)

(***************************************************************************)
(* ~ValueParser: from the top, each state deletes its value if it may; the *)
(* value a member holds back for its name (`mem`) it does not know of.     *)
(***************************************************************************)
Destroy(P) ==
    LET deleted == FoldRight(LAMBDA s, p : IF s.del THEN Delete(p, s.ptr) ELSE p,
                             P.stack, P)
    IN  [deleted EXCEPT !.stack = <<>>]

Leaked(P) == {h \in DOMAIN P.heap : P.heap[h].live}
=============================================================================
