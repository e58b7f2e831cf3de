------------------------------ MODULE TcpConnect ------------------------------
(***************************************************************************)
(* How a Requester comes by its connection: TcpIpConnection::open over the *)
(* families the host's name resolves to, IPv6 first, with the non-blocking *)
(* connect; and what every way to fail leaves in fd_handle for the next    *)
(* call, which opens a connection only if isOpen() says there is none.     *)
(*                                                                         *)
(* The kernel's socket is modelled from the way the code uses it: connect, *)
(* select, getpeername, write and close.  What travels over a connection   *)
(* once there is one is RpcExchange's; here a call that has written its    *)
(* request ends as its peer pleases.                                       *)
(***************************************************************************)
EXTENDS Naturals

CONSTANT Families  \* what the host name resolved to (isIpv4, isIpv6)

ASSUME FamiliesAssumption == Families # {} /\ Families \subseteq {"v4", "v6"}

VARIABLES
  pc,       \* where the requester is
  sock,     \* the socket behind fd_handle, as the kernel sees it
  fam,      \* its family
  tried,    \* families this call's open() has tried; {} if it did not open
  outcome,  \* how the last call went
  spoiled,  \* calls that threw, without trying to connect, since the last open
  healthy,  \* families on which the host accepts and keeps connections
  appCloses \* whether the application closes after a call that threw

requesterVars == <<pc, tried, outcome, spoiled>>
worldVars == <<healthy, appCloses>>
connectVars == <<requesterVars, sock, fam, worldVars>>

Place == {"idle", "open", "select", "peer", "write", "response"}

(* "failed": an error nobody has asked for yet; "dead": not connected, and *)
(* no error to report; "none": fd_handle = -1.                             *)
Socket == {"none", "connecting", "established", "failed", "dead"}
Outcome == {"none", "noSocket", "openThrew", "threw", "answered"}

ConnectInit ==
  /\ pc = "idle"
  /\ sock = "none"
  /\ fam \in Families
  /\ tried = {}
  /\ outcome = "none"
  /\ spoiled = 0
  /\ healthy \in SUBSET Families
  /\ appCloses \in BOOLEAN

isOpen == sock # "none"

Return(how) == pc' = "idle" /\ outcome' = how

-----------------------------------------------------------------------------
(* TcpIpConnection::open.                                                  *)

SendCall_AlwaysOpens ==   \* mutant: open() throws on a connection that is open
  /\ pc = "idle"
  /\ appCloses /\ isOpen => outcome = "answered"
  /\ pc' = IF isOpen THEN "idle" ELSE "open"
  /\ outcome' = IF isOpen THEN "threw" ELSE outcome
  /\ spoiled' = 0
  /\ tried' = {}
  /\ UNCHANGED <<sock, fam, worldVars>>

(* send_call: open() if there is no connection, else write at once. *)
SendCall ==
  /\ pc = "idle"
  /\ appCloses /\ isOpen => outcome = "answered"   \* else it closes first
  /\ pc' = IF isOpen THEN "write" ELSE "open"
  /\ spoiled' = IF isOpen THEN spoiled ELSE 0
  /\ tried' = {}
  /\ UNCHANGED <<sock, fam, outcome, worldVars>>

Untried == Families \ tried
NextFamily == IF "v6" \in Untried THEN "v6" ELSE "v4"

(* A socket of the next family, put in the place of the one before, starts *)
(* to connect; some errors connect() reports at once.                      *)
Attempt ==
  /\ pc = "open"
  /\ Untried # {}
  /\ fam' = NextFamily
  /\ tried' = tried \cup {fam'}
  /\ \/ sock' = "connecting" /\ pc' = "select"
     \/ sock' = "established" /\ pc' = "peer" /\ fam' \in healthy
     \/ sock' = "dead" /\ pc' = "open" /\ fam' \notin healthy
  /\ UNCHANGED <<outcome, spoiled, worldVars>>

(* socket() fails. *)
NoSocket ==
  /\ pc = "open"
  /\ Untried # {}
  /\ Return("noSocket")
  /\ UNCHANGED <<sock, fam, tried, spoiled, worldVars>>

(* The socket is writable: connectNonBlocking takes it for connected. *)
SelectWritable ==
  /\ pc = "select"
  /\ sock # "connecting"
  /\ pc' = "peer"
  /\ UNCHANGED <<sock, fam, tried, outcome, spoiled, worldVars>>

(* select times out or fails: on to the next family. *)
SelectGivesUp ==
  /\ pc = "select"
  /\ sock = "connecting"
  /\ pc' = "open"
  /\ UNCHANGED <<sock, fam, tried, outcome, spoiled, worldVars>>

(* getpeername, which throws if the socket is not connected. *)
GetPeer ==
  /\ pc = "peer"
  /\ IF sock = "established" THEN pc' = "write" /\ UNCHANGED outcome
                             ELSE Return("openThrew")
  /\ UNCHANGED <<sock, fam, tried, spoiled, worldVars>>

(* No family is left to try. *)
OpenThrows ==
  /\ pc = "open"
  /\ Untried = {}
  /\ Return("openThrew")
  /\ UNCHANGED <<sock, fam, tried, spoiled, worldVars>>

-----------------------------------------------------------------------------
(* Connection::write, waitForResponse and the application.                 *)

WriteRequest ==
  /\ pc = "write"
  /\ sock = "established"
  /\ pc' = "response"
  /\ UNCHANGED <<sock, fam, tried, outcome, spoiled, worldVars>>

(* Not writable while it connects: select times out. *)
WriteTimeout ==
  /\ pc = "write"
  /\ sock = "connecting"
  /\ Return("threw")
  /\ UNCHANGED <<sock, fam, tried, spoiled, worldVars>>

WriteFails_KeepsBroken ==   \* mutant: EPIPE is treated like any other error
  /\ pc = "write"
  /\ sock \in {"failed", "dead"}
  /\ sock' = "dead"
  /\ Return("threw")
  /\ spoiled' = IF tried = {} THEN spoiled + 1 ELSE spoiled
  /\ UNCHANGED <<fam, tried, worldVars>>

(* The error that is pending is reported once, and the socket kept; EPIPE, *)
(* which is what there is to report afterwards, closes it.                 *)
WriteFails ==
  /\ pc = "write"
  /\ sock \in {"failed", "dead"}
  /\ sock' = IF sock = "failed" THEN "dead" ELSE "none"
  /\ Return("threw")
  /\ spoiled' = IF tried = {} THEN spoiled + 1 ELSE spoiled
  /\ UNCHANGED <<fam, tried, worldVars>>

(* waitForResponse: an answer or the end of file, both of which close; a   *)
(* timeout; or an error, of which nothing remains pending.                 *)
ReceiveResponse ==
  /\ pc = "response"
  /\ \/ /\ sock = "established"
        /\ \/ sock' = "none" /\ Return("answered") /\ fam \in healthy
           \/ sock' = "none" /\ Return("threw")
           \/ sock' = sock /\ Return("threw")
     \/ sock = "failed" /\ sock' = "dead" /\ Return("threw")
  /\ UNCHANGED <<fam, tried, spoiled, worldVars>>

(* Protocol::closeConnection, called after an exception. *)
CloseAfterThrow ==
  /\ appCloses
  /\ pc = "idle"
  /\ isOpen
  /\ outcome # "answered"
  /\ sock' = "none"
  /\ UNCHANGED <<pc, fam, tried, outcome, spoiled, worldVars>>

-----------------------------------------------------------------------------
(* The kernel and the host.                                                *)

Resolve ==
  /\ sock = "connecting"
  /\ sock' = IF fam \in healthy THEN "established" ELSE "failed"
  /\ UNCHANGED <<requesterVars, fam, worldVars>>

Reset ==
  /\ sock = "established"
  /\ fam \notin healthy
  /\ sock' = "failed"
  /\ UNCHANGED <<requesterVars, fam, worldVars>>

HostChanges ==
  /\ healthy' \in SUBSET Families
  /\ UNCHANGED <<requesterVars, sock, fam, appCloses>>

-----------------------------------------------------------------------------
Open == Attempt \/ NoSocket \/ SelectWritable \/ SelectGivesUp \/ GetPeer \/ OpenThrows

Write == WriteRequest \/ WriteTimeout \/ WriteFails

ConnectNext ==
  \/ SendCall \/ Open \/ Write \/ ReceiveResponse \/ CloseAfterThrow
  \/ Resolve \/ Reset \/ HostChanges

ConnectSpec == ConnectInit /\ [][ConnectNext]_connectVars

(* The application goes on calling; selects, reads and writes end by their *)
(* timeouts; the kernel gives a connection up at last; descriptors run out *)
(* only for a time.                                                        *)
ConnectFairSpec ==
  /\ ConnectSpec
  /\ WF_connectVars(SendCall) /\ WF_connectVars(Open) /\ SF_connectVars(Attempt)
  /\ WF_connectVars(Write) /\ WF_connectVars(ReceiveResponse)
  /\ WF_connectVars(CloseAfterThrow) /\ WF_connectVars(Resolve)

-----------------------------------------------------------------------------
(* Types, and that what open() waits for is a socket that connects, and    *)
(* what it or the response is read from one that has done so.              *)
TypeOK ==
  /\ pc \in Place
  /\ sock \in Socket
  /\ fam \in Families
  /\ tried \subseteq Families
  /\ outcome \in Outcome
  /\ spoiled \in Nat
  /\ healthy \subseteq Families
  /\ appCloses \in BOOLEAN
  /\ pc = "select" => sock \in {"connecting", "established", "failed"}
  /\ pc \in {"peer", "response"} => sock \in {"established", "failed"}

(* A socket that is lost, for whatever reason, makes at most two further   *)
(* calls throw before one opens a connection: one meets the error, one     *)
(* EPIPE.  With an application that closes there are none.                 *)
SpoiledAtMostTwo == spoiled <= IF appCloses THEN 0 ELSE 2

(* Once the host is well on every family, calls get through again and      *)
(* again, whatever sockets the bad times have left behind.  That takes an  *)
(* application that does not close: one that does starts anew each time    *)
(* and, if to connect takes longer than the timeout, for ever.             *)
GetsThrough ==
  ~appCloses /\ <>[](healthy = Families) => []<>(pc = "response")

(* ulxr_tcpip_connection.h, constructor: "first IPv6 conneciton is tried   *)
(* to be established, and if it fails, IPv4 is subsequently tried".        *)
FallbackTried == pc = "idle" /\ outcome = "openThrew" => tried = Families
=============================================================================
