--------------------------- MODULE MCMessageParsing ---------------------------
(* Messages for TLC: written by getXml in two formats, or by hand the way an *)
(* implementation may that leaves type tags out or orders members otherwise. *)
EXTENDS MessageParsing, XmlRpcWriter, XmlRpcDocuments

MCNumeral == ("0" :> 0) @@ ("1" :> 1) @@ ("4" :> 4) @@ ("9" :> 9)
                @@ ("99" :> 99) @@ ("-99" :> -99)
MCPrintF == ("half" :> "0.500000") @@ ("tiny" :> "0.000000")
MCPrintG == ("half" :> "0.5") @@ ("tiny" :> "1e-07")
MCAtof == ("0.500000" :> "half") @@ ("0.5" :> "half") @@ ("1e-07" :> "tiny")
            @@ ("0.000000" :> "zero") @@ ("0" :> "zero")

\* What expat makes of markup in names: a reference is the character it stands
\* for, and tags may end the member and begin another one.
NewMemberTags == "</name></member><member><name>"
MCUnquoted == ("&lt;" :> Chars(<<<<"entity", "<">>>>))
                @@ (NewMemberTags :> <<[close |-> "name"], [close |-> "member"],
                                       [open |-> "member"], [open |-> "name"]>>)

Plain == [pretty |-> FALSE, scientific |-> FALSE]
Fancy == [pretty |-> TRUE, scientific |-> TRUE]

Members(ns, f(_)) == Struct([n \in ns |-> f(n)])
Nested == Array(<<Void, Double("tiny"), Array(<<>>), RpcString(<<"&lt;", "<", "ws">>)>>)
Mixed == Members({<<"a">>, <<"b">>, <<"c">>, <<>>},
                 LAMBDA n : CASE n = <<"a">> -> Boolean(TRUE)
                              [] n = <<"b">> -> Struct(<<>>)
                              [] n = <<"c">> -> Void
                              [] n = <<>> -> Integer(4))
Fault(code, text) == Members({<<"faultCode">>, <<"faultString">>},
                             LAMBDA n : IF n = <<"faultCode">> THEN code ELSE text)

Calls == {MethodCall(<<"f">>, <<Void, Integer(1), Nested>>),
          MethodCall(<<"f", "g">>, <<Mixed, Double("half"), Base64(<<"4">>)>>),
          MethodCall(<<"g">>, <<>>), MethodCall(<<"g", "<">>, <<Void>>),
          MethodCall(<<"g">>, <<Members({<<"<">>}, LAMBDA n : Integer(1))>>)}
Responses == {setResult(Void), setResult(Mixed), setResult(Array(<<Mixed, Nested>>)),
              setResult(DateTime(<<"0">>)), setFault(4, <<"a", "<">>),
              setResult(Fault(Integer(1), RpcString(<<"a">>))),
              setResult(Fault(RpcString(<<"a">>), Integer(1)))}

\* Written by getXml, and what it means if that is not what was written.
Misread(kind, tokens, wrote, names, means) ==
    [kind |-> kind, tokens |-> tokens, wrote |-> wrote, names |-> names, means |-> means]
Written(kind, tokens, wrote, names) == Misread(kind, tokens, wrote, names, wrote)

One(n) == Members({n}, LAMBDA m : Integer(1))
MisreadCalls ==
    {<<MethodCall(<<"g", "&lt;">>, <<>>), MethodCall(<<"g", "<">>, <<>>)>>,
     <<MethodCall(<<"g">>, <<One(<<"&lt;", "a">>)>>), MethodCall(<<"g">>, <<One(<<"<", "a">>)>>)>>}
MisreadResponses ==
    {<<setResult(One(<<"a", NewMemberTags, "b">>)), setResult(One(<<"b">>))>>}

Doc(kind, tokens, means) == Written(kind, tokens, means, {})
Text(atom) == Chars(Literal(<<atom>>))
V(body) == Element("value", body)
Param(body) == Element("methodResponse", Element("params", Element("param", body)))
Member(parts) == Element("member", parts)

Foreign ==
    {Doc("response", Param(V(Text("a"))), setResult(RpcString(<<"a">>))),
     Doc("response", Param(V(<<>>)), setResult(RpcString(<<>>))),
     Doc("response", Param(V(Element("int", Text("9")))), setResult(Integer(-7))),
     Doc("response",  \* neither fits a long
         Param(V(Element("array", Element("data",
             V(Element("i4", Text("99"))) \o V(Element("int", Text("-99"))))))),
         setResult(Array(<<Integer(-1), Integer(0)>>))),
     Doc("response", Param(V(Element("struct", <<>>))), setResult(Struct(<<>>))),
     Doc("response",  \* the value before the name, and a second member of that name
         Param(V(Element("struct", Member(V(Text("1")) \o Element("name", Text("a")))
                \o Member(Element("name", Text("a")) \o V(Element("boolean", Text("on"))))))),
         setResult(Members({<<"a">>}, LAMBDA n : RpcString(<<"1">>)))),
     Doc("value", getXml(Nested, Fancy), Received(Nested, Fancy))}

MCDocuments ==
    {Written("call", CallXml(c, fmt), ReceivedCall(c, fmt), CallNames(c)) :
        c \in Calls, fmt \in {Plain, Fancy}}
    \cup {Written("response", ResponseXml(r, fmt), ReceivedResponse(r, fmt), Names(r.value)) :
              r \in Responses, fmt \in {Plain, Fancy}}
    \cup {Misread("call", CallXml(c[1], Plain), c[1], CallNames(c[1]), c[2]) :
              c \in MisreadCalls}
    \cup {Misread("response", ResponseXml(r[1], Plain), r[1], Names(r[1].value), r[2]) :
              r \in MisreadResponses}
    \cup Foreign

\* What the theorems on decoding ask of the documents.
ASSUME RootsAssumption == RootsExpected
ASSUME GrammarAssumption == AllGrammatical(Documents)
ASSUME MeaningAssumption == AllMean(Documents)
=============================================================================
