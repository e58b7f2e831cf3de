---------------------------- MODULE XmlRpcWriter ----------------------------
(***************************************************************************)
(* What getXml writes for values, calls and responses, as the tokens that  *)
(* expat reads from it, and what the reader is to get from them.           *)
(*                                                                         *)
(* fmt has the two process-wide switches: pretty (line feeds and           *)
(* indentation between tags) and scientific ("%g" for doubles).            *)
(***************************************************************************)
EXTENDS XmlRpcXml

Linefeed(fmt) == IF fmt.pretty THEN Chars(Literal(<<"ws">>)) ELSE <<>>
Block(tag, body, fmt) == Element(tag, Linefeed(fmt) \o body) \o Linefeed(fmt)

BooleanXml(v) ==
    Element("value", Element("boolean", Chars(Literal(<<IF v.boolean THEN "1" ELSE "0">>))))
IntegerXml(v) ==
    Element("value", Element("i4",
        Chars(Literal(<<CHOOSE a \in DOMAIN Numeral : Numeral[a] = v.int>>))))
DoubleXml(v, fmt) ==
    Element("value", Element("double",
        Chars(Literal(<<IF fmt.scientific THEN PrintG[v.double] ELSE PrintF[v.double]>>))))
RpcStringXml(v) == Element("value", Element("string", Chars(xmlEscape(v.string))))
Base64Xml(v) == Element("value", Element("base64", Chars(Literal(v.base64))))
DateTimeXml(v) == Element("value", Element("dateTime.iso8601", Chars(Literal(v.date))))
ArrayXml(items, fmt) ==
    Element("value", Linefeed(fmt) \o
        Block("array", Block("data",
            FlattenSeq([i \in DOMAIN items |-> items[i] \o Linefeed(fmt)]), fmt), fmt))

\* Names go out as they are: nobody escapes them.
StructXml(members, fmt) ==
    Element("value", Linefeed(fmt) \o
        Block("struct", FlattenSeq([i \in DOMAIN members |->
            Block("member", Element("name", Raw(members[i].name))
                            \o Linefeed(fmt) \o members[i].xml \o Linefeed(fmt), fmt)]), fmt))

RECURSIVE getXml(_, _)
getXml(v, fmt) ==
    CASE v.type = "RpcVoid" -> <<>>
      [] v.type = "RpcBoolean" -> BooleanXml(v)
      [] v.type = "RpcInteger" -> IntegerXml(v)
      [] v.type = "RpcDouble" -> DoubleXml(v, fmt)
      [] v.type = "RpcStrType" -> RpcStringXml(v)
      [] v.type = "RpcBase64" -> Base64Xml(v)
      [] v.type = "RpcDateTime" -> DateTimeXml(v)
      [] v.type = "RpcArray" ->
            ArrayXml([i \in DOMAIN v.array |-> getXml(v.array[i], fmt)], fmt)
      [] v.type = "RpcStruct" ->  \* the order of std::map does not matter here
            LET names == SetToSeq(DOMAIN v.struct)
            IN  StructXml([i \in DOMAIN names |->
                    [name |-> names[i], xml |-> getXml(v.struct[names[i]], fmt)]], fmt)

CallXml(call, fmt) ==
    Block("methodCall",
        Element("methodName", Raw(call.name)) \o Linefeed(fmt)
        \o Block("params", FlattenSeq([i \in DOMAIN call.params |->
               Block("param", getXml(call.params[i], fmt) \o Linefeed(fmt), fmt)]), fmt), fmt)

ResponseXml(resp, fmt) ==
    Block("methodResponse",
        IF ~resp.ok
        THEN Block("fault", getXml(resp.value, fmt) \o Linefeed(fmt), fmt)
        ELSE Block("params",
                IF resp.value.type = "RpcVoid" THEN <<>>
                ELSE Block("param", getXml(resp.value, fmt) \o Linefeed(fmt), fmt), fmt), fmt)

(***************************************************************************)
(* What getXml's reader is to get.  The conversion is not one to one: void *)
(* has no XML, so void parameters, items and members vanish, as does a     *)
(* member without a name, and a double is what its numeral says.           *)
(***************************************************************************)
RECURSIVE Received(_, _)
Received(v, fmt) ==
    CASE v.type = "RpcDouble" ->
            Double(Atof[IF fmt.scientific THEN PrintG[v.double] ELSE PrintF[v.double]])
      [] v.type = "RpcArray" ->
            LET items == SelectSeq(v.array, LAMBDA x : x # Void)
            IN  Array([i \in DOMAIN items |-> Received(items[i], fmt)])
      [] v.type = "RpcStruct" ->
            Struct([n \in {m \in DOMAIN v.struct : m # <<>> /\ v.struct[m] # Void} |->
                        Received(v.struct[n], fmt)])
      [] OTHER -> v

ReceivedCall(call, fmt) ==
    LET ps == SelectSeq(call.params, LAMBDA x : x # Void)
    IN  MethodCall(call.name, [i \in DOMAIN ps |-> Received(ps[i], fmt)])

ReceivedResponse(resp, fmt) ==
    LET v == Received(resp.value, fmt) IN IF resp.ok THEN getMethodResponse(v)
                                          ELSE [ok |-> FALSE, value |-> v]

\* The names in a value.
RECURSIVE Names(_)
Names(v) ==
    CASE v.type = "RpcArray" -> UNION {Names(v.array[i]) : i \in DOMAIN v.array}
      [] v.type = "RpcStruct" ->
            DOMAIN v.struct \cup UNION {Names(v.struct[n]) : n \in DOMAIN v.struct}
      [] OTHER -> {}
CallNames(call) == {call.name} \cup UNION {Names(call.params[i]) : i \in DOMAIN call.params}
=============================================================================
