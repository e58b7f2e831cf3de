----------------------------- MODULE Dispatcher -----------------------------
(***************************************************************************)
(* The table of methods (ulxr_dispatcher) of a server and of the handlers  *)
(* that MultiProcessRpcServer::start forks: each process has its own copy, *)
(* as it was when the handler was forked, and its own heap of wrappers of  *)
(* dynamic methods, which the dispatcher owns.                             *)
(*                                                                         *)
(* A method is [name, sig, ret, help, calltype, wrapper, enabled]; texts   *)
(* are sequences, as in XmlRpcValues.  Left out are the counters of         *)
(* invocations, which nothing but the application reads, and the process's *)
(* switch for pretty XML, which changes the layout of what is sent.        *)
(***************************************************************************)
EXTENDS XmlRpcValues, FiniteSetsExt

CONSTANTS
    Server,     \* the process that has the application's dispatcher
    Handlers,   \* the processes it may fork
    Methods,    \* what the application may add: [name, sig, ret, help, calltype]
    Wrappers,   \* identities of MethodWrapper objects (bounds how many are made)
    Calls,      \* the calls that are dispatched
    Results,    \* what workers return
    FaultCodes  \* of what workers throw

ASSUME ServerAssumption == Server \notin Handlers

Processes == {Server} \cup Handlers
NoWrapper == "no wrapper"
ASSUME WrapperAssumption == NoWrapper \notin Wrappers

VARIABLES
    status,     \* process -> "unborn", "running", "destroyed" or "crashed"
    methods,    \* process -> its map from keys to methods
    live,       \* process -> wrappers allocated and not deleted in its memory
    doubleFree, \* process -> a wrapper was deleted that was not there
    fresh,      \* wrappers that have not been made
    refused,    \* history: wrappers whose addMethod threw
    stale,      \* handlers older than the last change of the server's table
    answer      \* process -> its last call and the response, or NoAnswer

vars == <<status, methods, live, doubleFree, fresh, refused, stale, answer>>

MethodNotFoundError == -32601

(***************************************************************************)
(* The key of the map is "name(signature)", with "void" for an empty       *)
(* signature: the emergency brake.                                         *)
(***************************************************************************)
Key_NoBrake(name, sig) == <<name, sig>>
Key(name, sig) == <<name, IF sig = <<>> THEN <<"void">> ELSE sig>>
KeyOf(call) == Key(call.name, CallSignature(call))

Text(atom) == <<atom>>
SystemMethod(name, sig, ret) ==
    [name |-> Text(name), sig |-> sig, ret |-> ret, help |-> Text(name),
     calltype |-> "CallSystem", wrapper |-> NoWrapper, enabled |-> TRUE]

SystemMethods ==
    {SystemMethod("ulxmlrpcpp.pretty_print", <<"bool">>, ""),
     SystemMethod("system.listMethods", <<>>, "array"),
     SystemMethod("system.listMethods", <<"string">>, "array"),
     SystemMethod("system.methodSignature", <<"string">>, "array"),
     SystemMethod("system.methodHelp", <<"string">>, "string"),
     SystemMethod("system.getCapabilities", <<>>, "struct")}

setupSystemMethods ==
    [k \in {Key(m.name, m.sig) : m \in SystemMethods} |->
        CHOOSE m \in SystemMethods : Key(m.name, m.sig) = k]

NoMethods == [k \in {} |-> k]

hasMethod(table, call) == KeyOf(call) \in DOMAIN table
Overloads(table, name) == {k \in DOMAIN table : table[k].name = name}

NoAnswer == [call |-> "none"]

Init ==
    /\ status = [p \in Processes |-> IF p = Server THEN "running" ELSE "unborn"]
    /\ methods = [p \in Processes |-> IF p = Server THEN setupSystemMethods ELSE NoMethods]
    /\ live = [p \in Processes |-> {}]
    /\ doubleFree = [p \in Processes |-> FALSE]
    /\ fresh = Wrappers /\ refused = {}
    /\ stale = {}
    /\ answer = [p \in Processes |-> NoAnswer]

(***************************************************************************)
(* The application changes the server's table.                             *)
(***************************************************************************)
TableIs(table) ==
    /\ methods' = [methods EXCEPT ![Server] = table]
    /\ stale' = {h \in Handlers : status[h] = "running"}
    /\ answer' = [answer EXCEPT ![Server] = NoAnswer]

Free_Leaks(p, keys) == UNCHANGED <<live, doubleFree>>

\* free_dynamic_method for the methods at keys.
Free(p, keys) ==
    LET dynamic == {k \in keys : methods[p][k].calltype = "CallDynamic"}
        w(k) == methods[p][k].wrapper
    IN  /\ live' = [live EXCEPT ![p] = @ \ {w(k) : k \in dynamic}]
        /\ doubleFree' = [doubleFree EXCEPT ![p] =
                \/ @
                \/ \E k \in dynamic : w(k) \notin live[p]
                \/ \E k, l \in dynamic : k # l /\ w(k) = w(l)]

NewMethod(m, w) ==
    [name |-> m.name, sig |-> m.sig, ret |-> m.ret, help |-> m.help,
     calltype |-> m.calltype, wrapper |-> w, enabled |-> TRUE]

addMethodDescriptor(m, w) ==
    [k \in DOMAIN methods[Server] \cup {Key(m.name, m.sig)} |->
        IF k = Key(m.name, m.sig) THEN NewMethod(m, w) ELSE methods[Server][k]]

AddStatic(m) ==
    /\ status[Server] = "running" /\ m.calltype = "CallStatic"
    /\ Key(m.name, m.sig) \notin DOMAIN methods[Server]    \* else it throws
    /\ TableIs(addMethodDescriptor(m, NoWrapper))
    /\ UNCHANGED <<status, live, doubleFree, fresh, refused>>

\* make_method has made the wrapper before addMethod can look at the key.
MakeWrapper(w) ==
    /\ fresh' = fresh \ {w}
    /\ live' = [live EXCEPT ![Server] = @ \cup {w}]

AddDynamic(m, w) ==
    /\ status[Server] = "running" /\ m.calltype = "CallDynamic" /\ w \in fresh
    /\ Key(m.name, m.sig) \notin DOMAIN methods[Server]
    /\ MakeWrapper(w)
    /\ TableIs(addMethodDescriptor(m, w))
    /\ UNCHANGED <<status, doubleFree, refused>>

\* addMethodDescriptor throws, nobody deletes the wrapper.
AddDynamicThrows(m, w) ==
    /\ status[Server] = "running" /\ m.calltype = "CallDynamic" /\ w \in fresh
    /\ Key(m.name, m.sig) \in DOMAIN methods[Server]
    /\ MakeWrapper(w) /\ refused' = refused \cup {w}
    /\ UNCHANGED <<status, methods, doubleFree, stale, answer>>

(***************************************************************************)
(* removeMethod increments an iterator to the element it has just erased,  *)
(* which is undefined.  Assumed is what the usual map makes of a freed     *)
(* node whose links are still there: the loop goes on somewhere in the     *)
(* tree, so that overloads may be passed over, or it follows a link that   *)
(* is gone and crashes.                                                    *)
(***************************************************************************)
RemoveMethod(name) ==
    /\ status[Server] = "running"
    /\ \E removed \in SUBSET Overloads(methods[Server], name) \ {{}} :
        /\ Free(Server, removed)
        /\ TableIs([k \in DOMAIN methods[Server] \ removed |-> methods[Server][k]])
    /\ UNCHANGED <<status, fresh, refused>>

RemoveMethodCrashes(name) ==
    /\ status[Server] = "running" /\ Overloads(methods[Server], name) # {}
    /\ status' = [status EXCEPT ![Server] = "crashed"]
    /\ UNCHANGED <<methods, live, doubleFree, fresh, refused, stale, answer>>

setEnabled(k, ena) ==
    /\ status[Server] = "running"
    /\ k \in DOMAIN methods[Server] /\ methods[Server][k].enabled # ena
    /\ TableIs([methods[Server] EXCEPT ![k].enabled = ena])
    /\ UNCHANGED <<status, live, doubleFree, fresh, refused>>

(***************************************************************************)
(* start: fork copies the memory.  Handlers leave by _exit, which destroys *)
(* nothing; the server's destructor frees what its table owns.             *)
(***************************************************************************)
Copy(f, hs) == [p \in Processes |-> IF p \in hs THEN f[Server] ELSE f[p]]

Start_SystemMethodsOnly(hs) ==
    /\ status[Server] = "running"
    /\ hs # {} /\ \A h \in hs : status[h] = "unborn"
    /\ status' = Copy(status, hs)
    /\ methods' = [p \in Processes |-> IF p \in hs THEN setupSystemMethods ELSE methods[p]]
    /\ answer' = [p \in Processes |-> IF p \in hs THEN NoAnswer ELSE answer[p]]
    /\ UNCHANGED <<live, doubleFree, fresh, refused, stale>>

Start(hs) ==
    /\ status[Server] = "running"
    /\ hs # {} /\ \A h \in hs : status[h] = "unborn"
    /\ status' = Copy(status, hs) /\ methods' = Copy(methods, hs)
    /\ live' = Copy(live, hs) /\ doubleFree' = Copy(doubleFree, hs)
    /\ answer' = [p \in Processes |-> IF p \in hs THEN NoAnswer ELSE answer[p]]
    /\ UNCHANGED <<fresh, refused, stale>>

Destroy ==
    /\ status[Server] = "running"
    /\ status' = [status EXCEPT ![Server] = "destroyed"]
    /\ Free(Server, DOMAIN methods[Server])
    /\ TableIs(NoMethods)
    /\ UNCHANGED <<fresh, refused>>

(***************************************************************************)
(* dispatchCall.  Each system method is an operator on the table.          *)
(***************************************************************************)
\* The order of the map does not matter here.
AsSeq(S) == FoldSet(LAMBDA x, s : Append(s, x), <<>>, S)
Param1(call) == call.params[1].string
Strings(texts) == Array([i \in DOMAIN texts |-> RpcString(texts[i])])

\* Names are neighbours in the map if they are equal: each is listed once.
listMethods(table) ==
    Strings(AsSeq({table[k].name : k \in DOMAIN table} \ {<<>>}))

\* "ret name(sig)" cut at its commas.
SignatureRow(m) ==
    LET sig == Key(m.name, m.sig)[2]
        ret == IF m.ret = "" THEN "void" ELSE m.ret
    IN  Strings([i \in DOMAIN sig |->
            (IF i = 1 THEN <<ret>> \o m.name ELSE <<>>) \o <<sig[i]>>])

methodSignature(table, name) ==
    LET keys == AsSeq(Overloads(table, name))
    IN  IF keys = <<>> THEN Integer(1)
        ELSE Array([i \in DOMAIN keys |-> SignatureRow(table[keys[i]])])

methodHelp(table, name) ==
    RpcString(FlattenSeq(AsSeq({table[k].help : k \in Overloads(table, name)})))

getCapabilities ==
    addMember(Struct(<<>>), <<"faults_interop">>,
        addMember(addMember(Struct(<<>>), <<"specUrl">>, RpcString(<<"rfc.fault_codes">>)),
                  <<"specVersion">>, Integer(20010516)))

System(table, call) ==
    CASE call.name = Text("ulxmlrpcpp.pretty_print") -> Void
      [] call.name = Text("system.listMethods") -> listMethods(table)
      [] call.name = Text("system.methodSignature") -> methodSignature(table, Param1(call))
      [] call.name = Text("system.methodHelp") -> methodHelp(table, Param1(call))
      [] call.name = Text("system.getCapabilities") -> getCapabilities

\* Whatever a worker throws becomes a fault.
Responses(table, call) ==
    IF ~hasMethod(table, call) \/ ~table[KeyOf(call)].enabled
    THEN {setFault(MethodNotFoundError, call.name)}
    ELSE IF table[KeyOf(call)].calltype = "CallSystem"
    THEN {setResult(System(table, call))}
    ELSE {setResult(v) : v \in Results}
            \cup {setFault(code, <<>>) : code \in FaultCodes}

\* A server without handlers does it itself.
Dispatch(p, call) ==
    /\ status[p] = "running"
    /\ p = Server => \A h \in Handlers : status[h] = "unborn"
    /\ \E resp \in Responses(methods[p], call) :
        answer' = [answer EXCEPT ![p] = [call |-> call, resp |-> resp]]
    /\ UNCHANGED <<status, methods, live, doubleFree, fresh, refused, stale>>

Next ==
    \/ \E m \in Methods : AddStatic(m)
    \/ \E m \in Methods, w \in Wrappers : AddDynamic(m, w) \/ AddDynamicThrows(m, w)
    \/ \E m \in Methods : RemoveMethod(m.name) \/ RemoveMethodCrashes(m.name)
    \/ \E m \in Methods, ena \in BOOLEAN : setEnabled(Key(m.name, m.sig), ena)
    \/ \E hs \in SUBSET Handlers : Start(hs)
    \/ Destroy
    \/ \E p \in Processes, call \in Calls : Dispatch(p, call)

Spec == Init /\ [][Next]_vars

-----------------------------------------------------------------------------
Dynamic(p) == {k \in DOMAIN methods[p] : methods[p][k].calltype = "CallDynamic"}
Registered(p) == {methods[p][k].wrapper : k \in Dynamic(p)}

TypeOK ==
    /\ status \in [Processes -> {"unborn", "running", "destroyed", "crashed"}]
    /\ DOMAIN methods = Processes /\ DOMAIN answer = Processes
    /\ \A p \in Processes : \A k \in DOMAIN methods[p] :
        /\ k = Key(methods[p][k].name, methods[p][k].sig)
        /\ methods[p][k].wrapper \in Wrappers <=> methods[p][k].calltype = "CallDynamic"
    /\ live \in [Processes -> SUBSET Wrappers]
    /\ doubleFree \in [Processes -> BOOLEAN]
    /\ fresh \subseteq Wrappers /\ refused \subseteq Wrappers
    /\ stale \subseteq Handlers

(* "Dispatcher owns now and deletes this wrapper object!": in every process *)
(* a registered wrapper is alive and belongs to one method, nothing is      *)
(* deleted twice, and the only wrappers that the dispatcher loses are those *)
(* that addMethod refused (it throws and keeps nothing).                    *)
WrappersOwned ==
    \A p \in Processes :
        /\ ~doubleFree[p]
        /\ Registered(p) \subseteq live[p]
        /\ live[p] \subseteq Registered(p) \cup refused
        /\ \A k, l \in Dynamic(p) : methods[p][k].wrapper = methods[p][l].wrapper => k = l

(* What the system methods tell about the table is true of it: a name is    *)
(* listed if and only if it has signatures, and it has as many of these as  *)
(* there are signatures a call can have that find a method.  (A void        *)
(* parameter does not survive its way over the wire.)                       *)
Named == Methods \cup SystemMethods
ListedIsCallable ==
    \A p \in Processes : \A name \in {m.name : m \in Named} \ {<<>>} :
        LET rows == methodSignature(methods[p], name)
            callable == {sig \in ({m.sig : m \in Named} \ {<<"void">>}) \cup {<<>>} :
                            Key(name, sig) \in DOMAIN methods[p]}
        IN  /\ RpcString(name) \in ToSet(listMethods(methods[p]).array)
                    <=> rows.type = "RpcArray"
            /\ rows.type = "RpcArray" => Len(rows.array) = Cardinality(callable)

(* It does not matter which handler a client gets: those that the server    *)
(* has not outdated by changing its own table, and the server itself, know  *)
(* and do not know the same methods.                                        *)
NotFound(p) == /\ ~answer[p].resp.ok
               /\ getMember(answer[p].resp.value, <<"faultCode">>) = Integer(MethodNotFoundError)
AnswersAgree ==
    \A p, q \in {r \in Processes \ stale : status[r] = "running" /\ answer[r] # NoAnswer} :
        answer[p].call = answer[q].call => (NotFound(p) <=> NotFound(q))
=============================================================================
