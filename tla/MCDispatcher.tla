---------------------------- MODULE MCDispatcher ----------------------------
(* Overloads of one name, two of which collide in "void".                   *)
EXTENDS Dispatcher, TLC

Method(name, sig, calltype) ==
    [name |-> <<name>>, sig |-> sig, ret |-> "", help |-> <<name>>, calltype |-> calltype]

MCMethods == {Method("f", <<>>, "CallDynamic"), Method("f", <<"void">>, "CallStatic"),
              Method("f", <<"int">>, "CallDynamic")}

MCCalls == {MethodCall(<<"f">>, <<>>), MethodCall(<<"f">>, <<Integer(1)>>),
            MethodCall(Text("system.methodSignature"), <<RpcString(<<"f">>)>>)}
MCResults == {Void}
MCFaultCodes == {-32500}
Symmetric == Permutations(Handlers) \cup Permutations(Wrappers)
=============================================================================
