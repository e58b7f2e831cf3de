--------------------------- MODULE XmlRpcDocuments ---------------------------
(***************************************************************************)
(* What an XML-RPC document says, apart from how the library reads it: its *)
(* elements by their places, what may be in what, what each stands for.    *)
(*                                                                         *)
(* An element is the place of its opening tag among the tokens, and e maps *)
(* it to the place of its closing tag; 0 is the document as a whole.       *)
(***************************************************************************)
EXTENDS XmlRpcXml

Openings(t) == {i \in DOMAIN t : "open" \in DOMAIN t[i]}
Closings(t) == {i \in DOMAIN t : "close" \in DOMAIN t[i]}

Ends(t) ==
    [i \in Openings(t) \cup {0} |->
        IF i = 0 THEN Len(t) + 1
        ELSE CHOOSE c \in i..Len(t) :
                /\ Cardinality(Openings(t) \cap i..c) = Cardinality(Closings(t) \cap i..c)
                /\ \A b \in i..c - 1 :
                    Cardinality(Openings(t) \cap i..b) > Cardinality(Closings(t) \cap i..b)]

Tag(t, i) == IF i = 0 THEN "" ELSE t[i].open
Inside(e, i, j) == i < j /\ j < e[i]
Parts(e, i) ==
    {j \in DOMAIN e : Inside(e, i, j) /\ \A k \in DOMAIN e : ~(Inside(e, i, k) /\ Inside(e, k, j))}

(***************************************************************************)
(* The grammar.                                                            *)
(***************************************************************************)
Scalars == {"boolean", "int", "i4", "double", "string", "base64", "dateTime.iso8601"}

Contents(kind) ==
    {<<"value", tag>> : tag \in Scalars \cup {"array", "struct"}}
    \cup {<<"array", "data">>, <<"data", "value">>,
          <<"struct", "member">>, <<"member", "name">>, <<"member", "value">>}
    \cup CASE kind = "value" -> {<<"", "value">>}
           [] kind = "call" ->
                {<<"", "methodCall">>, <<"methodCall", "methodName">>, <<"methodCall", "params">>,
                 <<"params", "param">>, <<"param", "value">>}
           [] kind = "response" ->
                {<<"", "methodResponse">>, <<"methodResponse", "params">>,
                 <<"methodResponse", "fault">>, <<"params", "param">>, <<"param", "value">>,
                 <<"fault", "value">>}

\* What may hold several elements of one name.
Lists(kind) == {"data", "struct"} \cup IF kind = "call" THEN {"params"} ELSE {}

OnlyText(t, e, i) ==
    \/ Tag(t, i) \in Scalars \cup {"name", "methodName"}
    \/ Tag(t, i) = "value" /\ Parts(e, i) = {}

WellFormed(t, e) ==
    /\ \A i \in DOMAIN e \ {0} :
        e[i] \in i + 1..Len(t) /\ t[i] = [open |-> t[i].open] /\ t[e[i]] = [close |-> t[i].open]
    /\ \A c \in Closings(t) : \E i \in DOMAIN e : e[i] = c
    /\ \A i, j \in DOMAIN e : i < j => e[i] < j \/ e[j] < e[i]
    /\ \A i \in DOMAIN t : "chars" \in DOMAIN t[i] => t[i].chars # <<>>

Valid(kind, t, e) ==
    \A i \in DOMAIN e :
        /\ \A j \in Parts(e, i) : <<Tag(t, i), Tag(t, j)>> \in Contents(kind)
        /\ \A j, k \in Parts(e, i) :
            \/ Tag(t, i) \notin {"value", "methodResponse"} /\ Tag(t, j) # Tag(t, k)
            \/ Tag(t, i) \in Lists(kind)
            \/ j = k
        /\ \A j \in Parts(e, i) :    \* a member has a name if it has a value
            <<Tag(t, i), Tag(t, j)>> = <<"member", "value">> =>
                \E k \in Parts(e, i) : Tag(t, k) = "name"
        /\ OnlyText(t, e, i) => \/ e[i] = i + 1
                                \/ e[i] = i + 2 /\ "chars" \in DOMAIN t[i + 1]

Grammatical(kind, t) == WellFormed(t, Ends(t)) /\ Valid(kind, t, Ends(t))

(***************************************************************************)
(* The meaning.  A member whose name comes first and is empty has none, as *)
(* the text of its name cannot be told from a name that is still to come;  *)
(* of several members of one name the first one counts.                    *)
(***************************************************************************)
TextIn(t, e, i) ==
    IF e[i] = i + 1 THEN <<>> ELSE [n \in DOMAIN t[i + 1].chars |-> t[i + 1].chars[n][2]]

TypedText(tag, text) == CASE tag = "boolean" -> BooleanOf(text)
                          [] tag \in {"int", "i4"} -> IntegerOf(text)
                          [] tag = "double" -> DoubleOf(text)
                          [] tag = "string" -> RpcString(text)
                          [] tag = "base64" -> Base64(text)
                          [] tag = "dateTime.iso8601" -> DateTime(text)

Rank(S, j) == Cardinality({i \in S : i <= j})
InOrder(S) == [k \in 1..Cardinality(S) |-> CHOOSE j \in S : Rank(S, j) = k]

PartWith(t, e, i, tag) == CHOOSE j \in Parts(e, i) : Tag(t, j) = tag
HasPart(t, e, i, tag) == \E j \in Parts(e, i) : Tag(t, j) = tag
NameIn(t, e, m) == TextIn(t, e, PartWith(t, e, m, "name"))
Counts(t, e, m) ==
    /\ HasPart(t, e, m, "name") /\ HasPart(t, e, m, "value")
    /\ PartWith(t, e, m, "name") < PartWith(t, e, m, "value") => NameIn(t, e, m) # <<>>
FirstNamed(t, e, M, n) ==
    CHOOSE m \in M : NameIn(t, e, m) = n /\ \A k \in M : NameIn(t, e, k) = n => m <= k

\* What element i says, if says is what its parts say.
Said(t, e, says, i) ==
    LET parts == Parts(e, i)
        members == {m \in parts : Counts(t, e, m)}
    IN  CASE Tag(t, i) \in Scalars -> TypedText(Tag(t, i), TextIn(t, e, i))
          [] Tag(t, i) = "value" /\ parts = {} -> RpcString(TextIn(t, e, i))
          [] Tag(t, i) = "data" ->
                Array([k \in 1..Cardinality(parts) |-> says[InOrder(parts)[k]]])
          [] Tag(t, i) = "array" /\ parts = {} -> Array(<<>>)
          [] Tag(t, i) = "struct" ->
                Struct([n \in {NameIn(t, e, m) : m \in members} |->
                            says[PartWith(t, e, FirstNamed(t, e, members, n), "value")]])
          [] Tag(t, i) \notin Scalars \cup {"data", "struct"} /\ parts # {} ->
                says[CHOOSE j \in parts : TRUE]
          [] OTHER -> Void

Says(t) == LET e == Ends(t)
               says[i \in DOMAIN e] == Said(t, e, says, i)
           IN  says

MethodNames(t) == {i \in Openings(t) : Tag(t, i) = "methodName"}
Params(t) == {i \in Openings(t) : Tag(t, i) = "param" /\ Parts(Ends(t), i) # {}}

Meaning(kind, t) ==
    CASE kind = "call" ->
            MethodCall(IF MethodNames(t) = {} THEN <<>>
                       ELSE TextIn(t, Ends(t), CHOOSE i \in MethodNames(t) : TRUE),
                       [k \in 1..Cardinality(Params(t)) |-> Says(t)[InOrder(Params(t))[k]]])
      [] kind = "response" -> getMethodResponse(Says(t)[0])
      [] kind = "value" -> Says(t)[0]

\* All documents of a set follow the grammar; all mean what they are said to.
AllGrammatical(D) == \A d \in D : Grammatical(d.kind, d.tokens)
AllMean(D) == \A d \in D : d.means = Meaning(d.kind, d.tokens)
=============================================================================
