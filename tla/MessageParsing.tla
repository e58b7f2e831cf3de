---------------------------- MODULE MessageParsing ----------------------------
(***************************************************************************)
(* One message on its way through Dispatcher::waitForCall or               *)
(* Requester::waitForResponse: the body arrives piece by piece, expat      *)
(* calls the parser, and the parser is destroyed when the function         *)
(* returns or throws.                                                      *)
(*                                                                         *)
(* Faults of the other side and of the network: an element the library     *)
(* does not know or does not expect there (well-nested, expat sees to      *)
(* that), a Content-Length that ends before the document does, and an      *)
(* exception of the connection in the middle.                              *)
(***************************************************************************)
EXTENDS ValueParser

CONSTANTS
    Documents,  \* set of [kind, tokens, means, wrote, names]: what the document
                \* says, what getXml was called for and the names in that
    Extras,     \* tags of elements that a peer may insert
    MaxFaults   \* bound on the faults of one message

ASSUME MaxFaultsAssumption == MaxFaults \in Nat

\* What expat sees to: every element that is opened is closed.
Opened(tokens) == Cardinality({i \in DOMAIN tokens : "open" \in DOMAIN tokens[i]})
Closed(tokens) == Cardinality({i \in DOMAIN tokens : "close" \in DOMAIN tokens[i]})

ASSUME DocumentsAssumption ==
    \A d \in Documents :
        /\ d.kind \in {"call", "response", "value"}
        /\ d.tokens \in Seq(ToSet(d.tokens))
        /\ \A i \in DOMAIN d.tokens :
            /\ DOMAIN d.tokens[i] \in {{"open"}, {"close"}, {"chars"}}
            /\ "chars" \in DOMAIN d.tokens[i] =>
                d.tokens[i].chars \in Seq({"literal", "entity"} \X STRING)
        /\ Opened(d.tokens) = Closed(d.tokens)

\* Each document opens with the element that its kind is known by: getXml of
\* MethodCall and MethodResponse starts so, other implementations must.
RootTag(kind) == CASE kind = "call" -> "methodCall"
                   [] kind = "response" -> "methodResponse"
                   [] kind = "value" -> "value"

RootsExpected ==
    \A d \in Documents : d.tokens # <<>> /\ d.tokens[1] = [open |-> RootTag(d.kind)]

VARIABLES
    doc,        \* the message being received
    input,      \* its tokens that expat has not seen
    parser,
    faults,
    phase,      \* "parsing", "returned", "thrown", then "gone": parser destroyed
    whole,      \* the message was read to its end
    result      \* what the function returned

vars == <<doc, input, parser, faults, phase, whole, result>>

-----------------------------------------------------------------------------
Init ==
    /\ doc \in Documents
    /\ input = doc.tokens
    /\ parser = Parser(doc.kind)
    /\ faults = 0
    /\ phase = "parsing"
    /\ whole = FALSE
    /\ result = Void

\* An exception leaves the parser as it is; unwinding destroys it.
Continue(p) ==
    /\ parser' = p
    /\ phase' = IF p.thrown = "no" THEN "parsing" ELSE "thrown"
    /\ UNCHANGED <<doc, faults, whole, result>>

Next1 == Head(input)
IsMarkup(c) == c[1] = "literal" /\ c[2] \in Markup

ReadOpening ==
    /\ phase = "parsing" /\ input # <<>> /\ "open" \in DOMAIN Next1
    /\ input' = Tail(input)
    /\ Continue(startElement(parser, Next1.open))

ReadClosing ==
    /\ phase = "parsing" /\ input # <<>> /\ "close" \in DOMAIN Next1
    /\ input' = Tail(input)
    /\ Continue(endElement(parser, Next1.close))

\* expat may deliver one text in any number of pieces.
ReadText(n) ==
    /\ phase = "parsing" /\ input # <<>> /\ "chars" \in DOMAIN Next1
    /\ n <= Len(Next1.chars)
    /\ \A i \in 1..n : ~IsMarkup(Next1.chars[i])
    /\ input' = Chars(SubSeq(Next1.chars, n + 1, Len(Next1.chars))) \o Tail(input)
    /\ Continue(charData(parser, [i \in 1..n |-> Next1.chars[i][2]]))

\* XML_Parse fails, waitForCall and waitForResponse throw XmlException.
ReadMarkupInText ==
    /\ phase = "parsing" /\ input # <<>> /\ "chars" \in DOMAIN Next1
    /\ IsMarkup(Next1.chars[1])
    /\ Continue(Throw(parser, "XmlException"))
    /\ UNCHANGED input

(***************************************************************************)
(* The body is over when its Content-Length says so.  No one asks the      *)
(* parser whether the document is complete (isComplete has no caller), nor *)
(* tells expat that this was the last piece.                               *)
(***************************************************************************)
ParserResult_Top(p) ==
    LET s == getTopState(p)
        v == IF s.ptr = 0 THEN Void ELSE Deref(p, s.ptr)
    IN  CASE p.kind = "call" -> p.call
          [] p.kind = "response" -> getMethodResponse(v)
          [] p.kind = "value" -> v

ParserResult(p) ==
    CASE p.kind = "call" -> p.call
      [] p.kind = "response" -> getMethodResponse(p.mvalue)
      [] p.kind = "value" -> LET s == getTopState(p)
                             IN  IF s.ptr = 0 THEN Void ELSE Deref(p, s.ptr)

EndOfContent ==
    /\ phase = "parsing"
    /\ input = <<>> \/ faults < MaxFaults
    /\ faults' = IF input = <<>> THEN faults ELSE faults + 1
    /\ whole' = (input = <<>>)
    /\ result' = ParserResult(parser)
    /\ phase' = IF IsExc(result') THEN "thrown" ELSE "returned"
    /\ UNCHANGED <<doc, input, parser>>

InsertElement(tag) ==
    /\ phase = "parsing" /\ faults < MaxFaults
    /\ input # doc.tokens /\ Closed(input) > 0     \* inside the root element
    /\ faults' = faults + 1
    /\ input' = Element(tag, <<>>) \o input
    /\ UNCHANGED <<doc, parser, phase, whole, result>>

ConnectionException ==
    /\ phase = "parsing" /\ faults < MaxFaults
    /\ faults' = faults + 1
    /\ phase' = "thrown"
    /\ UNCHANGED <<doc, input, parser, whole, result>>

DestroyParser ==
    /\ phase \in {"returned", "thrown"}
    /\ parser' = Destroy(parser)
    /\ phase' = "gone"
    /\ UNCHANGED <<doc, input, faults, whole, result>>

MaxText == 3  \* longest piece of text that comes in one call

Next ==
    \/ ReadOpening
    \/ ReadClosing
    \/ \E n \in 1..MaxText : ReadText(n)
    \/ ReadMarkupInText
    \/ EndOfContent
    \/ \E tag \in Extras : InsertElement(tag)
    \/ ConnectionException
    \/ DestroyParser

Spec == Init /\ [][Next]_vars

-----------------------------------------------------------------------------
Unescaped(tokens) ==
    \E t \in ToSet(tokens) : "chars" \in DOMAIN t /\ \E c \in ToSet(t.chars) : IsMarkup(c)

Nameless(tokens) ==
    \E i \in 1..Len(tokens) - 1 :
        tokens[i] = [open |-> "name"] /\ tokens[i + 1] = [close |-> "name"]

Pointers == {0} \cup DOMAIN parser.heap

\* The stack is a path of the transition table from eNone, a member shares the
\* struct of the state below, and each pointer is null or into the heap.
TypeOK ==
    /\ phase \in {"parsing", "returned", "thrown", "gone"}
    /\ whole \in BOOLEAN /\ faults \in 0..MaxFaults
    /\ parser.thrown \in {"no", "XmlException", "RuntimeException"}
    /\ \A s \in ToSet(parser.stack) : s.ptr \in Pointers /\ s.mem \in Pointers
    /\ phase = "parsing" =>
        /\ parser.stack[1].st = "eNone"
        /\ \A i \in 2..Len(parser.stack) :
            LET below == parser.stack[i - 1]
                s == parser.stack[i]
            IN  /\ \E o \in Opens(doc.kind) : o[1] = below.st /\ o[3] = s.st
                /\ s.st = "eMember" => s.ptr = below.ptr /\ s.ptr # 0

(* No state of a parser at work points to a value that has been deleted,    *)
(* although arrays and structs delete what they take (ValueState::takeValue *)
(* and its overrides).                                                      *)
NoDangling ==
    phase \in {"parsing", "returned"} =>
        \A s \in ToSet(parser.stack) : \A p \in {s.ptr, s.mem} \ {0} : parser.heap[p].live

(* What the elements of a document mean, of getXml or of another            *)
(* implementation, the receiver gets as its value.  It is refused only if   *)
(* there is markup in a text that is no XML, or if a struct that looks like *)
(* a fault has members of other types.                                      *)
Decoded ==
    /\ phase = "returned" /\ faults = 0 => whole /\ result = doc.means
    /\ phase = "thrown" /\ faults = 0 =>
        IF parser.thrown = "no" THEN IsExc(doc.means) ELSE Unescaped(doc.tokens)

(* A document's names, of members or of the method, without markup in them. *)
PlainNames == \A n \in doc.names : ToSet(n) \cap Markup = {}

(* What one side wrote with getXml the other side gets, if and only if no   *)
(* name has markup in it: Struct::getXml and MethodCall::getXml escape no   *)
(* names, so that these are refused, or read as another name or as elements *)
(* of their own; whatever is in a string comes through.                     *)
ReadAsWritten ==
    faults = 0 =>
        /\ phase = "returned" => (result = doc.wrote <=> PlainNames)
        /\ phase = "thrown" => IsExc(doc.wrote) \/ ~PlainNames

(* A message that Content-Length cut short is taken for a shorter one: a    *)
(* call has lost parameters from its end, and maybe its name; a response    *)
(* has become the void result.  Values are never cut in the middle.         *)
PrefixDecoded ==
    phase = "returned" /\ ~whole /\ faults = 1 /\ doc.kind # "value" =>
        CASE doc.kind = "call" ->
                /\ result.name \in {<<>>, doc.means.name}
                /\ IsPrefix(result.params, doc.means.params)
          [] doc.kind = "response" -> result \in {setResult(Void), doc.means}

(* The call and response parsers do not refuse an opening tag they do not   *)
(* know, but no complete message with one in it is ever accepted: its       *)
(* closing tag cannot match.                                                *)
AcceptedUnderstood ==
    phase = "returned" /\ whole =>
        parser.ignored = 0 /\ parser.complete = (doc.kind # "value")

\* No value of a message that was read to its end is deleted twice.
DeletedOnce == whole /\ phase \in {"returned", "gone"} => ~parser.doubleFree

(* A message that was read to its end leaves neither a value deleted twice  *)
(* nor (if nothing unusual was in it) one not deleted at all, except that   *)
(* a member without a name never lets go of its value (mem_val).            *)
FreedOnce ==
    /\ DeletedOnce
    /\ whole /\ phase = "gone" /\ faults = 0 /\ ~Nameless(doc.tokens) => Leaked(parser) = {}

(* ulxr_valueparse_base.h:88: "true: value is unique here, delete at end /  *)
(* false: value is shared here, delete it somewhere else".                  *)
NoDoubleFree == ~parser.doubleFree
=============================================================================
