---------------------------- MODULE XmlRpcValues ----------------------------
(***************************************************************************)
(* The values of XML-RPC (ulxr_value), the calls and responses made of     *)
(* them (ulxr_call, ulxr_response) and their signatures (ulxr_signature).  *)
(* A text is a sequence of atoms.  Exceptions are results: Exc.            *)
(***************************************************************************)
EXTENDS Integers, Sequences, SequencesExt, FiniteSets

Exc(what) == [exception |-> what]
IsExc(r) == "exception" \in DOMAIN r

(***************************************************************************)
(* The classes of values.  Copies (cloneValue, operator=) are deep in the  *)
(* code, so a value here is what it contains.                              *)
(***************************************************************************)
Void == [type |-> "RpcVoid"]
Boolean(b) == [type |-> "RpcBoolean", boolean |-> b]
Integer(n) == [type |-> "RpcInteger", int |-> n]
Double(d) == [type |-> "RpcDouble", double |-> d]
RpcString(t) == [type |-> "RpcStrType", string |-> t]
Base64(t) == [type |-> "RpcBase64", base64 |-> t]
DateTime(t) == [type |-> "RpcDateTime", date |-> t]
Array(vs) == [type |-> "RpcArray", array |-> vs]
Struct(m) == [type |-> "RpcStruct", struct |-> m]

\* operator Boolean&() and the like: only a value of that very type converts.
Cast(v, type) == IF v.type = type THEN v ELSE Exc("ParameterException")

addItem(v, item) == Array(Append(v.array, item))

addMember_Replaces(v, name, item) ==
    Struct([n \in DOMAIN v.struct \cup {name} |-> IF n = name THEN item ELSE v.struct[n]])

\* std::map::insert: a member of that name stays as it was.
addMember(v, name, item) ==
    IF name \in DOMAIN v.struct THEN v
    ELSE Struct([n \in DOMAIN v.struct \cup {name} |->
                    IF n = name THEN item ELSE v.struct[n]])

getMember(v, name) ==
    IF name \in DOMAIN v.struct THEN v.struct[name] ELSE Exc("RuntimeException")

(***************************************************************************)
(* Calls and responses.                                                    *)
(***************************************************************************)
MethodCall(name, params) == [name |-> name, params |-> params]
addParam(call, v) == [call EXCEPT !.params = Append(@, v)]

setResult(v) == [ok |-> TRUE, value |-> v]
setFault(code, phrase) ==
    [ok |-> FALSE, value |-> Struct([n \in {<<"faultCode">>, <<"faultString">>} |->
        IF n = <<"faultCode">> THEN Integer(code) ELSE RpcString(phrase)])]

\* A struct of these two members is a fault wherever it was found.
getMethodResponse(v) ==
    IF v.type = "RpcStruct" /\ DOMAIN v.struct = {<<"faultCode">>, <<"faultString">>}
    THEN LET code == Cast(getMember(v, <<"faultCode">>), "RpcInteger")
             phrase == Cast(getMember(v, <<"faultString">>), "RpcStrType")
         IN  IF IsExc(code) THEN code
             ELSE IF IsExc(phrase) THEN phrase
             ELSE setFault(code.int, phrase.string)
    ELSE setResult(v)

(***************************************************************************)
(* Type names, and the signature of a call: the sequence of its parts, the *)
(* code puts commas between them.                                          *)
(***************************************************************************)
getValueName(type) == CASE type = "RpcVoid" -> "void"
                        [] type = "RpcBoolean" -> "bool"
                        [] type = "RpcInteger" -> "int"
                        [] type = "RpcDouble" -> "double"
                        [] type = "RpcStrType" -> "string"
                        [] type = "RpcBase64" -> "base64"
                        [] type = "RpcDateTime" -> "dateTime.iso8601"
                        [] type = "RpcArray" -> "array"
                        [] type = "RpcStruct" -> "struct"

CallSignature(call) == [i \in DOMAIN call.params |-> getValueName(call.params[i].type)]
=============================================================================
