---------------------------- MODULE HttpFraming ----------------------------
(***************************************************************************)
(* How one HTTP message is cut out of a TCP stream: Protocol::readRaw,     *)
(* HttpProtocol::connectionMachine and the read loop that drives them in   *)
(* Dispatcher::waitForCall (a request) and Requester::waitForResponse (a   *)
(* response).  TCP may split the stream anywhere.                          *)
(*                                                                         *)
(* A stream is a sequence of tokens, each standing for bytes the machine   *)
(* does not tell apart: "CR", "LF" and "SP", and the texts of header       *)
(* lines, among which "S100" is a status line "100 Continue" and those in  *)
(* the domain of LengthOf are Content-Length fields.  Tokens are counted   *)
(* where the code counts bytes, which it does in the body only.            *)
(***************************************************************************)
EXTENDS Integers, Sequences

CONSTANTS
  Messages,   \* the streams a peer may send
  BufferSize, \* ULXR_RECV_BUFFER_SIZE
  LengthOf    \* LengthOf[t]: what atoi makes of the Content-Length field t

ASSUME BufferAssumption == BufferSize \in Nat \ {0}
ASSUME MessagesAssumption == Messages \subseteq Seq(STRING)
ASSUME LengthAssumption ==
  /\ \A t \in DOMAIN LengthOf : LengthOf[t] \in Int
  /\ DOMAIN LengthOf \cap {"CR", "LF", "SP"} = {}

VARIABLES
  msg,           \* the stream the peer has chosen to send
  stream,        \* what has not been read of it
  chunk,         \* what is left of the buffer last read
  pc,            \* where the read loop is
  connstate,     \* Protocol::State
  line,          \* header_buffer
  firstLine,     \* header_firstline
  lengthField,   \* headerprops["content-length"]: <<>> or <<its value>>
  contentLength, \* content_length, -1 if unknown
  remain,        \* remain_content_length
  body           \* what the XML parser has been given

loopVars == <<msg, stream, chunk, pc, body>>
headerVars == <<line, firstLine, lengthField>>
lengthVars == <<contentLength, remain>>
vars == <<loopVars, connstate, headerVars, lengthVars>>

(* A connection just accepted or opened, or reset before it is read. *)
Init ==
  /\ msg \in Messages
  /\ stream = msg
  /\ chunk = <<>>
  /\ pc = "read"
  /\ connstate = "Start"
  /\ line = <<>>
  /\ firstLine = <<>>
  /\ lengthField = <<>>
  /\ contentLength = -1
  /\ remain = -1
  /\ body = <<>>

-----------------------------------------------------------------------------
(* readRaw: anything up to the buffer's size and to what is known to       *)
(* remain of the content.                                                  *)
Read(n) ==
  /\ pc = "read"
  /\ n <= BufferSize
  /\ remain >= 0 => n <= remain
  /\ chunk' = SubSeq(stream, 1, n)
  /\ stream' = SubSeq(stream, n + 1, Len(stream))
  /\ remain' = IF remain >= 0 THEN remain - n ELSE remain
  /\ pc' = "machine"
  /\ UNCHANGED <<msg, connstate, headerVars, contentLength, body>>

ReadFails_Silent ==   \* mutant: end of file is a read of nothing
  /\ pc = "read"
  /\ stream = <<>>
  /\ pc' = "check"
  /\ UNCHANGED <<msg, stream, chunk, connstate, headerVars, lengthVars, body>>

(* Nothing more comes: end of file or timeout, an exception either way. *)
ReadFails ==
  /\ pc = "read"
  /\ stream = <<>>
  /\ pc' = "failed"
  /\ UNCHANGED <<msg, stream, chunk, connstate, headerVars, lengthVars, body>>

-----------------------------------------------------------------------------
(* connectionMachine, one round of its loop at a time.                     *)

In(state) == pc = "machine" /\ connstate = state

Machine(state) ==
  /\ In(state)
  /\ chunk # <<>>
  /\ UNCHANGED <<msg, stream, pc, body>>

Skip == chunk' = Tail(chunk)

ClearHttpInfo == firstLine' = <<>> /\ line' = <<>> /\ lengthField' = <<>>

MachineStart ==
  /\ Machine("Start")
  /\ connstate' = "HeaderLine"
  /\ ClearHttpInfo
  /\ UNCHANGED <<chunk, lengthVars>>

EndOfLine == connstate' = IF line = <<>> THEN "SwitchToBody" ELSE "PendingHeaderLine"

MachinePendingCR ==
  /\ Machine("PendingCR")
  /\ IF Head(chunk) = "LF" THEN Skip ELSE UNCHANGED chunk
  /\ EndOfLine
  /\ UNCHANGED <<headerVars, lengthVars>>

MachineHeaderLine ==
  /\ Machine("HeaderLine")
  /\ Skip
  /\ \/ Head(chunk) = "CR" /\ connstate' = "PendingCR" /\ UNCHANGED line
     \/ Head(chunk) = "LF" /\ EndOfLine /\ UNCHANGED line
     \/ /\ Head(chunk) \notin {"CR", "LF"}
        /\ line' = Append(line, Head(chunk))
        /\ UNCHANGED connstate
  /\ UNCHANGED <<firstLine, lengthField, lengthVars>>

ParseHeaderLine_LastWins ==   \* mutant: a repeated field replaces the first
  /\ line' = <<>>
  /\ IF firstLine = <<>>
     THEN firstLine' = line /\ UNCHANGED lengthField
     ELSE /\ lengthField' = IF Head(line) \in DOMAIN LengthOf
                            THEN <<LengthOf[Head(line)]>>
                            ELSE lengthField
          /\ UNCHANGED firstLine

(* The first line is kept; of the fields only Content-Length matters, and  *)
(* the first one of a name stays (map::insert).                            *)
ParseHeaderLine ==
  /\ line' = <<>>
  /\ IF firstLine = <<>>
     THEN firstLine' = line /\ UNCHANGED lengthField
     ELSE /\ lengthField' = IF lengthField = <<>> /\ Head(line) \in DOMAIN LengthOf
                            THEN <<LengthOf[Head(line)]>>
                            ELSE lengthField
          /\ UNCHANGED firstLine

(* A line that begins with a blank continues the field before it. *)
MachinePendingHeaderLine ==
  /\ Machine("PendingHeaderLine")
  /\ connstate' = "HeaderLine"
  /\ IF Head(chunk) = "SP" THEN UNCHANGED headerVars ELSE ParseHeaderLine
  /\ UNCHANGED <<chunk, lengthVars>>

IsContinue == firstLine # <<>> /\ Head(firstLine) = "S100"

SwitchToBody_ForgetsChunk ==   \* mutant: what the chunk holds is not subtracted
  /\ IF IsContinue
     THEN connstate' = "Start" /\ UNCHANGED lengthVars
     ELSE /\ connstate' = "Body"
          /\ IF lengthField = <<>>
             THEN UNCHANGED lengthVars
             ELSE contentLength' = lengthField[1] /\ remain' = lengthField[1]
  /\ UNCHANGED headerVars

(* machine_switchToBody: a 100 Continue is dropped and the next header     *)
(* awaited; else what this chunk holds beyond the header counts as read.   *)
SwitchToBody ==
  /\ IF IsContinue
     THEN connstate' = "Start" /\ UNCHANGED lengthVars
     ELSE /\ connstate' = "Body"
          /\ IF lengthField = <<>>
             THEN UNCHANGED lengthVars
             ELSE /\ contentLength' = lengthField[1]
                  /\ remain' = IF lengthField[1] >= 0
                               THEN lengthField[1] - Len(chunk)
                               ELSE lengthField[1]
  /\ UNCHANGED headerVars

MachineSwitchToBody ==
  /\ Machine("SwitchToBody")
  /\ SwitchToBody
  /\ UNCHANGED chunk

-----------------------------------------------------------------------------
(* The read loop.                                                          *)

(* State ConnBody: the rest of the buffer goes to the parser. *)
Parse ==
  /\ In("Body")
  /\ body' = body \o chunk
  /\ chunk' = <<>>
  /\ pc' = "check"
  /\ UNCHANGED <<msg, stream, connstate, headerVars, lengthVars>>

(* The buffer is used up within the header, or exactly at its end. *)
EndOfChunk ==
  /\ pc = "machine"
  /\ connstate # "Body"
  /\ chunk = <<>>
  /\ IF connstate = "SwitchToBody"
     THEN SwitchToBody
     ELSE UNCHANGED <<connstate, headerVars, lengthVars>>
  /\ pc' = "check"
  /\ UNCHANGED <<msg, stream, chunk, body>>

(* hasBytesToRead: done when nothing remains. *)
Check ==
  /\ pc = "check"
  /\ pc' = IF remain = 0 THEN "delivered" ELSE "read"
  /\ UNCHANGED <<msg, stream, chunk, connstate, headerVars, lengthVars, body>>

Next ==
  \/ \E n \in 1 .. Len(stream) : Read(n)
  \/ ReadFails
  \/ MachineStart \/ MachinePendingCR \/ MachineHeaderLine
  \/ MachinePendingHeaderLine \/ MachineSwitchToBody
  \/ Parse \/ EndOfChunk \/ Check

(* Whoever waits for the message keeps asking: the loop is never left      *)
(* alone, and a read for which nothing more comes fails at last.           *)
LoopScheduled == WF_vars(Next)

Spec == Init /\ [][Next]_vars /\ LoopScheduled

-----------------------------------------------------------------------------
(* What a message says, read off the whole stream at once.                 *)

LineEnds(m) ==
  {i \in DOMAIN m : m[i] = "LF" \/ (m[i] = "CR" /\ i < Len(m) /\ m[i + 1] # "LF")}

StartsLine(m, i) == i = 1 \/ i - 1 \in LineEnds(m)

(* The line that ends at i is empty. *)
BlankLines(m) ==
  {i \in LineEnds(m) :
     \/ StartsLine(m, i)
     \/ m[i] = "LF" /\ i > 1 /\ m[i - 1] = "CR" /\ StartsLine(m, i - 1)}

Least(S) == CHOOSE i \in S : \A j \in S : i <= j

(* The header proper is the first that is no 100 Continue, and ends with   *)
(* its blank line.                                                         *)
StartsBlock(m, i) == i = 1 \/ i - 1 \in BlankLines(m)
HeaderStarts(m) ==
  {i \in 1 .. Len(m) + 1 : StartsBlock(m, i) /\ (i \in DOMAIN m => m[i] # "S100")}
HeaderStart(m) == Least(HeaderStarts(m))
HeaderEnds(m) == {i \in BlankLines(m) : HeaderStarts(m) # {} /\ i >= HeaderStart(m)}
HeaderEnd(m) == Least(HeaderEnds(m))

LengthFields(m) ==
  {i \in HeaderStart(m) + 1 .. HeaderEnd(m) :
     StartsLine(m, i) /\ m[i] \in DOMAIN LengthOf}
HasLength(m) == HeaderEnds(m) # {} /\ LengthFields(m) # {}
DeclaredLength(m) == LengthOf[m[Least(LengthFields(m))]]

Content(m) == SubSeq(m, HeaderEnd(m) + 1, Len(m))

(* The peer sends a length and exactly as much content. *)
Conforming(m) == HasLength(m) /\ DeclaredLength(m) = Len(Content(m))

-----------------------------------------------------------------------------
(* However TCP cuts the stream, a call or response that is handed on is    *)
(* the declared number of bytes that follow the header: no byte of header, *)
(* none of what comes after, none lost where a read ended.                 *)
DeliveredExact ==
  pc = "delivered" => /\ HasLength(msg)
                      /\ body = SubSeq(Content(msg), 1, DeclaredLength(msg))
                      /\ Len(body) = DeclaredLength(msg)

(* However TCP cuts the stream, a conforming message gets through. *)
ConformingDelivered == pc = "failed" => ~Conforming(msg)

(* The read loop comes to an end on every stream. *)
LoopEnds == <>(pc \in {"delivered", "failed"})

=============================================================================
