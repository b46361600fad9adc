----------------------------- MODULE RpcProofs -----------------------------
(***************************************************************************)
(* What holds of Rpc for every set of clients and requests, every size of  *)
(* buffer and every limit, however the requests are cut into pieces and    *)
(* however the handlers nest.                                              *)
(***************************************************************************)
EXTENDS Rpc, TLAPS

USE SizesAssumption

-----------------------------------------------------------------------------
(***************************************************************************)
(* The inductive invariant.  Most of it is about one client, its call, its *)
(* connection and how often its request was dispatched.                    *)
(***************************************************************************)
ClientStates == [at : Busy \cup Ended, left : {<<>>} \cup Commands]
Calls        == {NoCall} \cup [method : {"start", "stop"}, req : Requests, sent : Nat]
Connections  == [st : {"none", "queued", "reading", "running", "replied", "closed"},
                 rcvd : 0..MaxRequest, reply : Replies \cup {NoReply}]

Typed(cl, ca, co, sv) ==
  cl \in ClientStates /\ ca \in Calls /\ co \in Connections /\ sv \in Nat

Size(ca) == HeadLen + ca.req.body

\* A client that is in a command has a call to make; one that has written all of its
\* request does not write; one that was told of an error has nothing under way.
ClientOK(cl, ca, co, sv) ==
  /\ cl.at \in Busy => cl.left \in Commands
  /\ cl.at = "connect" => co.st \in {"none", "replied", "closed"}
  /\ cl.at = "write" /\ co.st # "none" => ca.sent < Size(ca)
  /\ cl.at = "error" => co.st \in {"none", "closed"} /\ sv = 0

\* No more is sent than there is, and only a client with a connection sends.
CallOK(ca, co) ==
  /\ co.st # "none" => ca # NoCall
  /\ ca.sent <= Size(ca)

\* A connection has an answer exactly from the end of its handler on, and a request
\* is dispatched when all of it is there.
ConnOK(ca, co, sv) ==
  /\ co.st \in {"none", "queued", "reading"} => sv = 0
  /\ co.st \in {"none", "queued", "reading", "running"} => co.reply = NoReply
  /\ co.st = "replied" => co.reply # NoReply
  /\ co.st = "closed" /\ sv > 0 => co.reply # NoReply
  /\ sv > 0 => ca.sent = Size(ca)

\* VerdictOfWhole for one client.
VerdictOK(ca, co, sv) ==
  /\ sv > 0 => sv = 1 /\ ca.req.declared = ca.req.body /\ Size(ca) <= MaxRequest
  /\ co.reply = "malformed" => ca.req.declared # ca.req.body
  /\ co.reply = "too large" => Size(ca) > MaxRequest

LocalOK(cl, ca, co, sv) ==
  /\ Typed(cl, ca, co, sv) /\ ClientOK(cl, ca, co, sv)
  /\ CallOK(ca, co) /\ ConnOK(ca, co, sv) /\ VerdictOK(ca, co, sv)

\* The handlers on the call stack are those of the connections that wait for one.
StackOK ==
  /\ stack \in Seq(Clients)
  /\ \A i, j \in DOMAIN stack : stack[i] = stack[j] => i = j
  /\ \A i \in DOMAIN stack : conn[stack[i]].st = "running"
  /\ \A c \in Clients : conn[c].st = "running" => \E i \in DOMAIN stack : stack[i] = c

\* A daemon that is gone has no connections.
GoneOK ==
  /\ daemon \in {"running", "stopped", "left"}
  /\ daemon = "left" => \A c \in Clients : conn[c].st \in {"none", "closed"}

AreFunctions ==
  /\ client = [c \in Clients |-> client[c]] /\ call = [c \in Clients |-> call[c]]
  /\ conn = [c \in Clients |-> conn[c]] /\ served = [c \in Clients |-> served[c]]

Inv == /\ AreFunctions /\ StackOK /\ GoneOK
       /\ \A c \in Clients : LocalOK(client[c], call[c], conn[c], served[c])

-----------------------------------------------------------------------------
(***************************************************************************)
(* A step of one client or of its connection.                              *)
(***************************************************************************)

\* The lengths of a request.
LEMMA CallFacts ==
  ASSUME NEW ca \in Calls
  PROVE  /\ ca.sent \in Nat /\ ca.req.body \in Nat /\ ca.req.declared \in Nat
         /\ ca.req.declared <= ca.req.body /\ Size(ca) \in Nat
         /\ ca # NoCall => ca.req.body > 0
         /\ ca # NoCall => ca \in [method : {"start", "stop"}, req : Requests, sent : Nat]
  <1>1. CASE ca = NoCall
    BY <1>1 DEF NoCall, Size
  <1>2. CASE ca # NoCall
    <2>1. ca \in [method : {"start", "stop"}, req : Requests, sent : Nat]
      BY <1>2 DEF Calls
    <2>2. ca.sent \in Nat /\ ca.req \in Requests
      BY <2>1
    <2>3. ca.req.body \in Nat \ {0} /\ ca.req.declared \in Nat /\ ca.req.declared <= ca.req.body
      BY <2>2, RequestsAssumption
    <2> QED
      BY <2>1, <2>2, <2>3 DEF Size
  <1> QED
    BY <1>1, <1>2

\* Only the values of one client change.
LEMMA LocalStep ==
  ASSUME Inv, NEW c \in Clients, NEW cl, NEW ca, NEW co, NEW sv, LocalOK(cl, ca, co, sv),
         client' = [client EXCEPT ![c] = cl], call' = [call EXCEPT ![c] = ca],
         conn' = [conn EXCEPT ![c] = co], served' = [served EXCEPT ![c] = sv],
         StackOK', GoneOK'
  PROVE  Inv'
  <1>1. AreFunctions'
    BY DEF Inv, AreFunctions
  <1>2. ASSUME NEW d \in Clients PROVE LocalOK(client[d], call[d], conn[d], served[d])'
    <2>1. CASE d = c
      <3>1. client'[d] = cl /\ call'[d] = ca /\ conn'[d] = co /\ served'[d] = sv
        BY <2>1 DEF Inv, AreFunctions
      <3> QED
        BY <3>1
    <2>2. CASE d # c
      <3>1. /\ client'[d] = client[d] /\ call'[d] = call[d]
            /\ conn'[d] = conn[d] /\ served'[d] = served[d]
        BY <2>2 DEF Inv, AreFunctions
      <3> QED
        BY <3>1 DEF Inv
    <2> QED
      BY <2>1, <2>2
  <1> QED
    BY <1>1, <1>2 DEF Inv

\* The same, when no handler begins or ends its wait.
LEMMA QuietStep ==
  ASSUME Inv, NEW c \in Clients, NEW cl, NEW ca, NEW co, NEW sv, LocalOK(cl, ca, co, sv),
         client' = [client EXCEPT ![c] = cl], call' = [call EXCEPT ![c] = ca],
         conn' = [conn EXCEPT ![c] = co], served' = [served EXCEPT ![c] = sv],
         co.st = "running" <=> conn[c].st = "running",
         daemon = "left" => co.st \in {"none", "closed"},
         stack' = stack, daemon' = daemon
  PROVE  Inv'
  <1>1. \A d \in Clients : conn'[d] = IF d = c THEN co ELSE conn[d]
    BY DEF Inv, AreFunctions
  <1>2. StackOK'
    <2>1. \A d \in Clients : conn'[d].st = "running" <=> conn[d].st = "running"
      BY <1>1
    <2>2. \A i \in DOMAIN stack : stack[i] \in Clients
      BY DEF Inv, StackOK
    <2> QED
      BY <2>1, <2>2 DEF Inv, StackOK
  <1>3. GoneOK'
    BY <1>1 DEF Inv, GoneOK
  <1> QED
    BY <1>2, <1>3, LocalStep

\* What the invariant says of one client.
LEMMA LocalFacts ==
  ASSUME Inv, NEW c \in Clients
  PROVE  /\ LocalOK(client[c], call[c], conn[c], served[c])
         /\ client = [client EXCEPT ![c] = client[c]] /\ call = [call EXCEPT ![c] = call[c]]
         /\ conn = [conn EXCEPT ![c] = conn[c]] /\ served = [served EXCEPT ![c] = served[c]]
         /\ Total(c) = Size(call[c])
         /\ Exact(c) <=> call[c].req.declared = call[c].req.body
  <1>1. /\ client = [client EXCEPT ![c] = client[c]] /\ call = [call EXCEPT ![c] = call[c]]
        /\ conn = [conn EXCEPT ![c] = conn[c]] /\ served = [served EXCEPT ![c] = served[c]]
    BY DEF Inv, AreFunctions
  <1> QED
    BY <1>1 DEF Inv, Total, Size, Exact

\* A connection that was just made, or is not there.
LEMMA NoConnFacts ==
  /\ NoConn \in Connections /\ NoConn.st = "none" /\ NoConn.reply = NoReply
  /\ [NoConn EXCEPT !.st = "queued"] \in Connections
  /\ [NoConn EXCEPT !.st = "queued"].st = "queued"
  /\ [NoConn EXCEPT !.st = "queued"].reply = NoReply
  BY DEF NoConn, Connections

\* The commands and what is left of them after a call.
LEMMA CommandFacts ==
  ASSUME NEW cmd \in Commands
  PROVE  /\ Head(cmd) \in {"start", "stop"}
         /\ Len(cmd) > 1 => Tail(cmd) \in Commands
         /\ ~(Len(cmd) > 1) => Tail(cmd) = <<>>
  <1>1. cmd = <<"start">> \/ cmd = <<"stop">> \/ cmd = <<"stop", "start">>
    BY DEF Commands
  <1>2. CASE cmd = <<"start">>
    BY <1>2
  <1>3. CASE cmd = <<"stop">>
    BY <1>3
  <1>4. CASE cmd = <<"stop", "start">>
    <2>1. Head(cmd) = "stop" /\ Tail(cmd) = <<"start">> /\ Len(cmd) = 2
      BY <1>4
    <2> QED
      BY <2>1 DEF Commands
  <1> QED
    BY <1>1, <1>2, <1>3, <1>4

\* A client that is at another place.
LEMMA PlaceFacts ==
  ASSUME NEW cl \in ClientStates, NEW place \in Busy \cup Ended
  PROVE  /\ [cl EXCEPT !.at = place] \in ClientStates
         /\ [cl EXCEPT !.at = place].at = place
         /\ [cl EXCEPT !.at = place].left = cl.left
         /\ [at |-> place, left |-> <<>>] \in ClientStates
  BY DEF ClientStates

\* execute_command.
LEMMA CommandInv ==
  ASSUME Inv, NEW c \in Clients, Command(c)
  PROVE  Inv'
  <1>1. PICK cmd \in Commands : client' = [client EXCEPT ![c] = [at |-> "connect", left |-> cmd]]
    BY DEF Command
  <1>2. PICK cl : cl = [at |-> "connect", left |-> cmd]
    OBVIOUS
  <1>3. cl \in ClientStates /\ cl.at = "connect" /\ cl.left \in Commands
    BY <1>2 DEF ClientStates, Busy
  <1>4. NoCall \in Calls /\ NoCall.sent <= Size(NoCall)
    BY DEF Calls, NoCall, Size
  <1>5. LocalOK(cl, NoCall, NoConn, 0)
    BY <1>3, <1>4, NoConnFacts
    DEF LocalOK, Typed, ClientOK, CallOK, ConnOK, VerdictOK, NoReply
  <1>6. conn[c].st # "running"
    BY DEF Command
  <1> QED
    BY <1>1, <1>2, <1>5, <1>6, NoConnFacts, QuietStep DEF Command

\* connect(2).
LEMMA ConnectInv ==
  ASSUME Inv, NEW c \in Clients, Connect(c)
  PROVE  Inv'
  <1>1. PICK cl, ca, co, sv : cl = client[c] /\ ca = call[c] /\ co = conn[c] /\ sv = served[c]
    OBVIOUS
  <1>2. LocalOK(cl, ca, co, sv) /\ cl.at = "connect"
    BY <1>1, LocalFacts DEF Connect
  <1>3. /\ served' = [served EXCEPT ![c] = 0] /\ stack' = stack /\ daemon' = daemon
    BY DEF Connect
  <1>4. CASE daemon = "left"
    <2>1. PICK dl : dl = [at |-> "error", left |-> <<>>]
      OBVIOUS
    <2>2. /\ client' = [client EXCEPT ![c] = dl]
          /\ call' = [call EXCEPT ![c] = ca] /\ conn' = [conn EXCEPT ![c] = co]
      BY <1>1, <1>4, <2>1, LocalFacts DEF Connect, End
    <2>3. co.st \in {"none", "closed"}
      BY <1>1, <1>4 DEF Inv, GoneOK
    <2>4. dl \in ClientStates /\ dl.at = "error"
      BY <2>1 DEF ClientStates, Ended
    <2>5. LocalOK(dl, ca, co, 0)
      <3>1. Typed(dl, ca, co, 0) /\ CallOK(ca, co)
        BY <1>2, <2>4 DEF LocalOK, Typed
      <3>2. ClientOK(dl, ca, co, 0)
        BY <2>3, <2>4 DEF ClientOK, Busy
      <3>3. ConnOK(ca, co, sv) /\ VerdictOK(ca, co, sv)
        BY <1>2 DEF LocalOK
      <3>4. ConnOK(ca, co, 0)
        BY <2>3, <3>3 DEF ConnOK
      <3>5. VerdictOK(ca, co, 0)
        <4>1. ~(0 > 0)
          OBVIOUS
        <4> QED
          BY <3>3, <4>1, Zenon DEF VerdictOK
      <3> QED
        BY <3>1, <3>2, <3>4, <3>5 DEF LocalOK
    <2> QED
      BY <1>1, <1>3, <2>2, <2>3, <2>5, QuietStep
  <1>5. CASE daemon # "left"
    <2>0. PICK req \in Requests :
            call' = [call EXCEPT ![c] = [method |-> Head(cl.left), req |-> req, sent |-> 0]]
      BY <1>1, <1>5 DEF Connect
    <2>1. PICK dl, da, do :
            /\ dl = [cl EXCEPT !.at = "write"] /\ client' = [client EXCEPT ![c] = dl]
            /\ da = [method |-> Head(cl.left), req |-> req, sent |-> 0]
            /\ call' = [call EXCEPT ![c] = da]
            /\ do = [NoConn EXCEPT !.st = "queued"] /\ conn' = [conn EXCEPT ![c] = do]
      <3>1. client' = [client EXCEPT ![c] = [client[c] EXCEPT !.at = "write"]]
        BY <1>5 DEF Connect, Goto
      <3> QED
        BY <1>1, <1>5, <2>0, <3>1 DEF Connect
    <2>2. cl.left \in Commands /\ cl \in ClientStates /\ co.st # "running"
      BY <1>2 DEF LocalOK, Typed, ClientOK, Busy
    <2>3. dl \in ClientStates /\ dl.at = "write" /\ dl.left \in Commands
      BY <2>1, <2>2, PlaceFacts DEF Busy
    <2>4. da \in Calls /\ da.sent = 0 /\ da # NoCall
      <3>1. Head(cl.left) \in {"start", "stop"}
        BY <2>2, CommandFacts
      <3> QED
        BY <2>1, <3>1 DEF Calls, NoCall
    <2>5. Size(da) \in Nat /\ da.sent < Size(da)
      BY <2>4, CallFacts DEF Size
    <2>6. do \in Connections /\ do.st = "queued" /\ do.reply = NoReply
      BY <2>1, NoConnFacts
    <2>7. LocalOK(dl, da, do, 0)
      BY <2>3, <2>4, <2>5, <2>6
      DEF LocalOK, Typed, ClientOK, CallOK, ConnOK, VerdictOK, NoReply
    <2> QED
      BY <1>1, <1>3, <1>5, <2>1, <2>2, <2>6, <2>7, QuietStep
  <1> QED
    BY <1>4, <1>5

\* write(2).  A client whose write fails has not sent all of its request.
LEMMA WriteInv ==
  ASSUME Inv, NEW c \in Clients, Write(c)
  PROVE  Inv'
  <1>1. PICK cl, ca, co, sv : cl = client[c] /\ ca = call[c] /\ co = conn[c] /\ sv = served[c]
    OBVIOUS
  <1>2. LocalOK(cl, ca, co, sv) /\ cl.at = "write" /\ Total(c) = Size(ca)
    BY <1>1, LocalFacts DEF Write
  <1>3. /\ conn' = [conn EXCEPT ![c] = co] /\ served' = [served EXCEPT ![c] = sv]
        /\ stack' = stack /\ daemon' = daemon
    BY <1>1, LocalFacts DEF Write
  <1>4. cl \in ClientStates /\ ca \in Calls /\ cl.left \in Commands
    BY <1>2 DEF LocalOK, Typed, ClientOK, Busy
  <1>5. ca.sent \in Nat /\ Size(ca) \in Nat
    BY <1>4, CallFacts
  <1>6. sv = 0
    BY <1>2, <1>5 DEF LocalOK, Typed, ClientOK, ConnOK
  <1>7. CASE co.st \in {"none", "closed"}
    <2>1. PICK dl : dl = [at |-> "error", left |-> <<>>]
      OBVIOUS
    <2>2. client' = [client EXCEPT ![c] = dl] /\ call' = [call EXCEPT ![c] = ca]
      BY <1>1, <1>7, <2>1, LocalFacts DEF Write, End
    <2>3. dl \in ClientStates /\ dl.at = "error"
      BY <2>1 DEF ClientStates, Ended
    <2>4. LocalOK(dl, ca, co, sv)
      BY <1>2, <1>6, <1>7, <2>3 DEF LocalOK, Typed, ClientOK, Busy
    <2> QED
      BY <1>1, <1>3, <1>7, <2>2, <2>4, QuietStep
  <1>8. CASE co.st \notin {"none", "closed"}
    <2>0. PICK k \in 1..(Size(ca) - ca.sent) :
            /\ call' = [call EXCEPT ![c] = [ca EXCEPT !.sent = ca.sent + k]]
            /\ IF ca.sent + k = Size(ca)
               THEN client' = [client EXCEPT ![c] = [cl EXCEPT !.at = "read"]]
               ELSE client' = client
      BY <1>1, <1>2, <1>8 DEF Write, Goto
    <2>1. PICK dl, da :
            /\ da = [ca EXCEPT !.sent = ca.sent + k] /\ call' = [call EXCEPT ![c] = da]
            /\ dl = IF ca.sent + k = Size(ca) THEN [cl EXCEPT !.at = "read"] ELSE cl
            /\ client' = [client EXCEPT ![c] = dl]
      <3>1. client = [client EXCEPT ![c] = cl]
        BY <1>1, LocalFacts
      <3> QED
        BY <2>0, <3>1
    <2>2. ca # NoCall
      BY <1>2, <1>8 DEF LocalOK, CallOK
    <2>3. da \in Calls /\ da.sent = ca.sent + k /\ da.req = ca.req /\ da # NoCall
      <3>1. ca \in [method : {"start", "stop"}, req : Requests, sent : Nat]
        BY <1>4, <2>2, CallFacts
      <3>2. ca.sent + k \in Nat /\ ca.sent + k # 0
        BY <1>5
      <3> QED
        BY <2>1, <3>1, <3>2 DEF Calls, NoCall
    <2>4. Size(da) = Size(ca)
      BY <2>3 DEF Size
    <2>5. da.sent \in Nat /\ da.sent <= Size(da)
      BY <1>5, <2>3, <2>4
    <2>6. dl \in ClientStates /\ dl.left \in Commands /\ dl.at \in {"write", "read"}
          /\ (dl.at = "write" => da.sent # Size(da))
      <3>1. CASE ca.sent + k = Size(ca)
        <4>1. dl = [cl EXCEPT !.at = "read"] /\ "read" \in Busy
          BY <2>1, <3>1 DEF Busy
        <4>2. dl \in ClientStates /\ dl.at = "read" /\ dl.left = cl.left
          BY <1>4, <4>1, PlaceFacts
        <4> QED
          BY <1>4, <4>2
      <3>2. CASE ca.sent + k # Size(ca)
        BY <1>2, <1>4, <2>1, <2>3, <2>4, <3>2
      <3> QED
        BY <3>1, <3>2
    <2>7. dl.at = "write" => da.sent < Size(da)
      BY <1>5, <2>4, <2>5, <2>6
    <2>8. LocalOK(dl, da, co, sv)
      <3>1. Typed(dl, da, co, sv)
        BY <1>2, <2>3, <2>6 DEF LocalOK, Typed
      <3>2. ClientOK(dl, da, co, sv)
        BY <2>6, <2>7 DEF ClientOK
      <3>3. CallOK(da, co)
        BY <2>3, <2>5 DEF CallOK
      <3>4. ConnOK(ca, co, sv) /\ VerdictOK(ca, co, sv)
        BY <1>2 DEF LocalOK
      <3>5. ConnOK(da, co, sv)
        BY <1>6, <3>4 DEF ConnOK
      <3>6. VerdictOK(da, co, sv)
        BY <2>3, <2>4, <3>4 DEF VerdictOK
      <3> QED
        BY <3>1, <3>2, <3>3, <3>5, <3>6 DEF LocalOK
    <2>9. daemon = "left" => co.st \in {"none", "closed"}
      BY <1>1 DEF Inv, GoneOK
    <2> QED
      BY <1>1, <1>3, <2>1, <2>8, <2>9, QuietStep
  <1> QED
    BY <1>7, <1>8

\* The client's command goes to another place, and nothing else changes.
LEMMA MoveStep ==
  ASSUME Inv, NEW c \in Clients, NEW dl,
         dl \in ClientStates, ClientOK(dl, call[c], conn[c], served[c]),
         client' = [client EXCEPT ![c] = dl],
         call' = call, conn' = conn, served' = served, stack' = stack, daemon' = daemon
  PROVE  Inv'
  <1>1. PICK ca, co, sv : ca = call[c] /\ co = conn[c] /\ sv = served[c]
    OBVIOUS
  <1>2. /\ LocalOK(client[c], ca, co, sv)
        /\ call' = [call EXCEPT ![c] = ca] /\ conn' = [conn EXCEPT ![c] = co]
        /\ served' = [served EXCEPT ![c] = sv]
    BY <1>1, LocalFacts
  <1>3. LocalOK(dl, ca, co, sv)
    BY <1>1, <1>2 DEF LocalOK, Typed
  <1>4. daemon = "left" => co.st \in {"none", "closed"}
    BY <1>1 DEF Inv, GoneOK
  <1>5. co.st = "running" <=> conn[c].st = "running"
    BY <1>1
  <1> QED
    BY <1>2, <1>3, <1>4, <1>5, QuietStep

\* The command is over, but not with an error.
LEMMA EndInv ==
  ASSUME Inv, NEW c \in Clients, End(c, "idle"),
         call' = call, conn' = conn, served' = served, stack' = stack, daemon' = daemon
  PROVE  Inv'
  <1>1. PICK dl : dl = [at |-> "idle", left |-> <<>>]
    OBVIOUS
  <1>2. dl \in ClientStates /\ dl.at = "idle"
    BY <1>1 DEF ClientStates, Ended
  <1>3. ClientOK(dl, call[c], conn[c], served[c])
    BY <1>2 DEF ClientOK, Busy
  <1> QED
    BY <1>1, <1>2, <1>3, MoveStep DEF End

\* The answer is read.  The end of the stream without one means that the request was
\* not dispatched.
LEMMA ReadInv ==
  ASSUME Inv, NEW c \in Clients, Read(c)
  PROVE  Inv'
  <1>1. PICK cl, ca, co, sv : cl = client[c] /\ ca = call[c] /\ co = conn[c] /\ sv = served[c]
    OBVIOUS
  <1>2. LocalOK(cl, ca, co, sv) /\ cl.at \in {"read", "cut"}
    BY <1>1, LocalFacts DEF Read
  <1>3. /\ call' = call /\ conn' = conn /\ served' = served /\ stack' = stack
        /\ daemon' = daemon
    BY DEF Read
  <1>4. cl \in ClientStates /\ cl.left \in Commands
    BY <1>2 DEF LocalOK, Typed, ClientOK, Busy
  <1>5. CASE End(c, "idle")
    BY <1>3, <1>5, EndInv
  <1>6. CASE co.reply # NoReply /\ ~End(c, "idle")
    <2>1. PICK dl : /\ dl = [at |-> IF Len(cl.left) > 1 THEN "connect" ELSE "idle",
                             left |-> Tail(cl.left)]
                    /\ client' = [client EXCEPT ![c] = dl]
      BY <1>1, <1>6 DEF Read
    <2>2. co.st \in {"replied", "closed"}
      BY <1>2, <1>6 DEF LocalOK, Typed, Connections, ConnOK
    <2>3. CASE Len(cl.left) > 1
      <3>1. dl.at = "connect" /\ dl.left \in Commands /\ dl \in ClientStates
        BY <1>4, <2>1, <2>3, CommandFacts DEF ClientStates, Busy
      <3>2. ClientOK(dl, ca, co, sv)
        BY <2>2, <3>1 DEF ClientOK
      <3> QED
        BY <1>1, <1>3, <2>1, <3>1, <3>2, MoveStep
    <2>4. CASE ~(Len(cl.left) > 1)
      <3>1. dl.at = "idle" /\ dl \in ClientStates
        BY <1>4, <2>1, <2>4, CommandFacts DEF ClientStates, Ended
      <3>2. ClientOK(dl, ca, co, sv)
        BY <3>1 DEF ClientOK, Busy
      <3> QED
        BY <1>1, <1>3, <2>1, <3>1, <3>2, MoveStep
    <2> QED
      BY <2>3, <2>4
  <1>7. CASE co.reply = NoReply
    <2>1. PICK dl : dl = [at |-> "error", left |-> <<>>]
      OBVIOUS
    <2>2. co.st \in {"none", "closed"} /\ client' = [client EXCEPT ![c] = dl]
      BY <1>1, <1>7, <2>1 DEF Read, End
    <2>3. sv = 0
      BY <1>2, <1>7, <2>2 DEF LocalOK, Typed, ConnOK
    <2>4. dl \in ClientStates /\ ClientOK(dl, ca, co, sv)
      BY <2>1, <2>2, <2>3 DEF ClientStates, Ended, ClientOK, Busy
    <2> QED
      BY <1>1, <1>3, <2>2, <2>4, MoveStep
  <1> QED
    BY <1>5, <1>6, <1>7

\* A system call of the client is interrupted.
LEMMA InterruptedInv ==
  ASSUME Inv, NEW c \in Clients, Interrupted(c)
  PROVE  Inv'
  <1>1. PICK cl, ca, co, sv : cl = client[c] /\ ca = call[c] /\ co = conn[c] /\ sv = served[c]
    OBVIOUS
  <1>2. LocalOK(cl, ca, co, sv) /\ cl.at \in Busy
    BY <1>1, LocalFacts DEF Interrupted, Busy
  <1>3. call' = call /\ stack' = stack /\ daemon' = daemon
    BY DEF Interrupted
  <1>4. cl \in ClientStates /\ cl.left \in Commands
    BY <1>2 DEF LocalOK, Typed, ClientOK
  <1>5. CASE cl.at = "connect"
    <2>1. PICK dl : /\ dl = [cl EXCEPT !.at = "write"] /\ client' = [client EXCEPT ![c] = dl]
      BY <1>1, <1>5 DEF Interrupted, Goto
    <2>2. /\ conn' = [conn EXCEPT ![c] = NoConn] /\ served' = [served EXCEPT ![c] = 0]
          /\ call' = [call EXCEPT ![c] = ca]
      BY <1>1, <1>5, LocalFacts DEF Interrupted
    <2>3. dl \in ClientStates /\ dl.at = "write" /\ dl.left \in Commands
      BY <1>4, <2>1, PlaceFacts DEF Busy
    <2>4. ca \in Calls /\ ca.sent <= Size(ca) /\ co.st # "running"
      BY <1>2, <1>5 DEF LocalOK, Typed, CallOK, ClientOK
    <2>5. LocalOK(dl, ca, NoConn, 0)
      BY <2>3, <2>4, NoConnFacts
      DEF LocalOK, Typed, ClientOK, CallOK, ConnOK, VerdictOK, NoReply
    <2> QED
      BY <1>1, <1>3, <2>1, <2>2, <2>4, <2>5, NoConnFacts, QuietStep
  <1>6. CASE cl.at = "write"
    <2>1. PICK dl : /\ dl = [cl EXCEPT !.at = "cut"] /\ client' = [client EXCEPT ![c] = dl]
                    /\ conn' = conn /\ served' = served
      BY <1>1, <1>6 DEF Interrupted, Goto
    <2>2. dl \in ClientStates /\ dl.at = "cut" /\ dl.left \in Commands
      BY <1>4, <2>1, PlaceFacts DEF Busy
    <2>3. ClientOK(dl, ca, co, sv)
      BY <2>2 DEF ClientOK
    <2> QED
      BY <1>1, <1>3, <2>1, <2>2, <2>3, MoveStep
  <1>7. CASE cl.at \in {"read", "cut"}
    BY <1>1, <1>3, <1>7, EndInv DEF Interrupted
  <1> QED
    BY <1>2, <1>5, <1>6, <1>7 DEF Busy

\* The connection changes, and neither the client nor its call.
LEMMA ServeStep ==
  ASSUME Inv, NEW c \in Clients, NEW co, NEW sv,
         co \in Connections, sv \in Nat, co.st # "none", co.st # "running",
         conn[c].st \notin {"none", "closed"}, conn[c].st # "running",
         client[c].at = "connect" => co.st \in {"replied", "closed"},
         ConnOK(call[c], co, sv), VerdictOK(call[c], co, sv),
         daemon # "left",
         client' = client, call' = call, stack' = stack, daemon' = daemon,
         conn' = [conn EXCEPT ![c] = co], served' = [served EXCEPT ![c] = sv]
  PROVE  Inv'
  <1>1. PICK cl, ca : cl = client[c] /\ ca = call[c]
    OBVIOUS
  <1>2. /\ LocalOK(cl, ca, conn[c], served[c])
        /\ client' = [client EXCEPT ![c] = cl] /\ call' = [call EXCEPT ![c] = ca]
    BY <1>1, LocalFacts
  <1>3. Typed(cl, ca, co, sv) /\ CallOK(ca, co)
    BY <1>2 DEF LocalOK, Typed, CallOK
  <1>4. ClientOK(cl, ca, co, sv)
    BY <1>1, <1>2 DEF LocalOK, ClientOK
  <1>5. LocalOK(cl, ca, co, sv)
    BY <1>1, <1>3, <1>4 DEF LocalOK
  <1> QED
    BY <1>1, <1>2, <1>5, QuietStep

\* Accept.
LEMMA AcceptInv ==
  ASSUME Inv, NEW c \in Clients, Accept(c)
  PROVE  Inv'
  <1>1. PICK cl, ca, co, sv, do :
          /\ cl = client[c] /\ ca = call[c] /\ co = conn[c] /\ sv = served[c]
          /\ do = [co EXCEPT !.st = "reading"]
    OBVIOUS
  <1>2. LocalOK(cl, ca, co, sv) /\ served = [served EXCEPT ![c] = sv] /\ co.st = "queued"
    BY <1>1, LocalFacts DEF Accept
  <1>3. /\ co \in Connections /\ sv \in Nat /\ cl.at # "connect"
        /\ ConnOK(ca, co, sv) /\ VerdictOK(ca, co, sv)
    BY <1>2 DEF LocalOK, Typed, ClientOK
  <1>4. do \in Connections /\ do.st = "reading" /\ do.reply = co.reply
    BY <1>1, <1>3 DEF Connections
  <1>5. ConnOK(ca, do, sv) /\ VerdictOK(ca, do, sv)
    BY <1>2, <1>3, <1>4 DEF ConnOK, VerdictOK
  <1>6. /\ client' = client /\ call' = call /\ stack' = stack /\ daemon' = daemon
        /\ served' = [served EXCEPT ![c] = sv] /\ conn' = [conn EXCEPT ![c] = do]
        /\ daemon # "left"
    BY <1>1, <1>2 DEF Accept, Serving
  <1> QED
    BY <1>1, <1>2, <1>3, <1>4, <1>5, <1>6, ServeStep

\* The end of the stream, and the end of a write.
LEMMA CloseInv ==
  ASSUME Inv, NEW c \in Clients, HandleEof(c) \/ HandleWrite(c)
  PROVE  Inv'
  <1>1. PICK cl, ca, co, sv, do :
          /\ cl = client[c] /\ ca = call[c] /\ co = conn[c] /\ sv = served[c]
          /\ do = Closed(co)
    OBVIOUS
  <1>2. /\ LocalOK(cl, ca, co, sv) /\ served = [served EXCEPT ![c] = sv]
        /\ co.st \in {"reading", "replied"}
    BY <1>1, LocalFacts DEF HandleEof, HandleWrite
  <1>3. /\ co \in Connections /\ sv \in Nat
        /\ ConnOK(ca, co, sv) /\ VerdictOK(ca, co, sv)
    BY <1>2 DEF LocalOK, Typed
  <1>4. do \in Connections /\ do.st = "closed" /\ do.reply = co.reply
    <2>1. 0 \in 0..MaxRequest
      OBVIOUS
    <2> QED
      BY <1>1, <1>3, <2>1 DEF Connections, Closed
  <1>5. VerdictOK(ca, do, sv)
    BY <1>3, <1>4 DEF VerdictOK
  <1>6. ConnOK(ca, do, sv)
    BY <1>2, <1>3, <1>4 DEF ConnOK
  <1>7. /\ client' = client /\ call' = call /\ stack' = stack /\ daemon' = daemon
        /\ served' = [served EXCEPT ![c] = sv] /\ conn' = [conn EXCEPT ![c] = do]
        /\ daemon # "left"
    BY <1>1, <1>2 DEF HandleEof, HandleWrite, Serving
  <1> QED
    BY <1>1, <1>2, <1>3, <1>4, <1>5, <1>6, <1>7, ServeStep

\* The smaller of two numbers.
LEMMA MinFact ==
  ASSUME NEW a \in Int, NEW b \in Int, b <= a
  PROVE  Min({a, b}) = b
  BY DEF Min

\* A piece is read.  The request is complete only when all that was declared is there,
\* and then it parses exactly when its headers declare the length of the body.
LEMMA PieceFacts ==
  ASSUME Inv, NEW c \in Clients, NEW n \in Nat, n <= call[c].sent
  PROVE  /\ n <= Size(call[c])
         /\ Complete(c, n) => (Parses(c, n) <=> call[c].req.declared = call[c].req.body)
         /\ Complete(c, n) /\ Parses(c, n) => n = Size(call[c]) /\ call[c].sent = n
  <1>1. PICK ca : ca = call[c]
    OBVIOUS
  <1>2. LocalOK(client[c], ca, conn[c], served[c])
    BY <1>1, LocalFacts
  <1>3. ca \in Calls /\ ca.sent <= Size(ca)
    BY <1>2 DEF LocalOK, Typed, CallOK
  <1>4. PICK body, declared, sent, size :
          body = ca.req.body /\ declared = ca.req.declared /\ sent = ca.sent /\ size = Size(ca)
    OBVIOUS
  <1>5. /\ sent \in Nat /\ body \in Nat /\ declared \in Nat /\ declared <= body
        /\ size \in Nat /\ n <= sent /\ sent <= size
    BY <1>1, <1>3, <1>4, CallFacts
  <1>6. size = HeadLen + body
    BY <1>4 DEF Size
  <1>7. Complete(c, n) <=> n >= HeadLen /\ n - HeadLen >= declared
    BY <1>1, <1>4 DEF Complete
  <1>8. Complete(c, n) => Min({n - HeadLen, declared}) = declared
    BY <1>5, <1>7, MinFact
  <1>9. Complete(c, n) => (Parses(c, n) <=> body = declared)
    BY <1>1, <1>4, <1>8 DEF Parses
  <1>10. Complete(c, n) /\ body = declared => n = size /\ sent = n
    BY <1>5, <1>6, <1>7
  <1> QED
    BY <1>1, <1>4, <1>5, <1>9, <1>10

\* An answer is given.
LEMMA RepliedFacts ==
  ASSUME NEW co \in Connections, NEW reply \in Replies
  PROVE  /\ Replied(co, reply) \in Connections /\ Replied(co, reply).st = "replied"
         /\ Replied(co, reply).reply = reply /\ reply # NoReply
  BY DEF Replied, Connections, Replies, Answers, NoReply

\* handle_read_ and process_request_.
LEMMA HandleReadInv ==
  ASSUME Inv, NEW c \in Clients, HandleRead(c)
  PROVE  Inv'
  <1>1. PICK cl, ca, co, sv : cl = client[c] /\ ca = call[c] /\ co = conn[c] /\ sv = served[c]
    OBVIOUS
  <1>2. LocalOK(cl, ca, co, sv) /\ served = [served EXCEPT ![c] = sv] /\ co.st = "reading"
    BY <1>1, LocalFacts DEF HandleRead
  <1>3. /\ co \in Connections /\ ca \in Calls /\ sv = 0 /\ cl.at # "connect"
        /\ co.reply = NoReply /\ co.rcvd \in Nat /\ cl.at # "error"
    BY <1>2 DEF LocalOK, Typed, ClientOK, ConnOK, Connections
  <1>4. /\ client' = client /\ call' = call /\ daemon' = daemon /\ daemon # "left"
    BY DEF HandleRead, Serving
  <1>5. PICK n \in Nat :
          /\ n <= ca.sent
          /\ IF TooLarge(n)
             THEN /\ conn' = [conn EXCEPT ![c] = Replied(co, "too large")]
                  /\ UNCHANGED <<stack, served>>
             ELSE IF Complete(c, n) THEN Process(c, n)
             ELSE conn' = [conn EXCEPT ![c] = [co EXCEPT !.rcvd = n]]
                  /\ UNCHANGED <<stack, served>>
    <2>1. PICK k \in 1..BufSize :
            LET n == co.rcvd + k
            IN  /\ n <= ca.sent
                /\ IF TooLarge(n)
                   THEN /\ conn' = [conn EXCEPT ![c] = Replied(co, "too large")]
                        /\ UNCHANGED <<stack, served>>
                   ELSE IF Complete(c, n) THEN Process(c, n)
                   ELSE conn' = [conn EXCEPT ![c] = [co EXCEPT !.rcvd = n]]
                        /\ UNCHANGED <<stack, served>>
      BY <1>1 DEF HandleRead
    <2>2. co.rcvd + k \in Nat
      BY <1>3
    <2> QED
      BY <2>1, <2>2
  <1>6. /\ n <= Size(ca)
        /\ Complete(c, n) => (Parses(c, n) <=> ca.req.declared = ca.req.body)
        /\ Complete(c, n) /\ Parses(c, n) => n = Size(ca) /\ ca.sent = n
    BY <1>1, <1>5, PieceFacts
  <1>7. Size(ca) \in Nat
    BY <1>3, CallFacts
  <1>8. CASE TooLarge(n)
    <2>1. PICK do : do = Replied(co, "too large")
      OBVIOUS
    <2>2. /\ conn' = [conn EXCEPT ![c] = do] /\ served' = [served EXCEPT ![c] = sv]
          /\ stack' = stack
      BY <1>2, <1>5, <1>8, <2>1
    <2>3. do \in Connections /\ do.st = "replied" /\ do.reply = "too large"
      BY <1>3, <2>1, RepliedFacts DEF Replies
    <2>4. ConnOK(ca, do, sv)
      <3>1. ~(sv > 0)
        BY <1>3
      <3>2. do.reply # NoReply
        BY <2>3, Zenon DEF NoReply
      <3> QED
        BY <1>3, <2>3, <3>1, <3>2, Zenon DEF ConnOK
    <2>5. VerdictOK(ca, do, sv)
      <3>1. Size(ca) > MaxRequest
        BY <1>6, <1>7, <1>8 DEF TooLarge
      <3>2. ~(sv > 0)
        BY <1>3
      <3>3. do.reply # "malformed"
        BY <2>3, Zenon
      <3> QED
        BY <3>1, <3>2, <3>3, Zenon DEF VerdictOK
    <2> QED
      BY <1>1, <1>2, <1>3, <1>4, <2>2, <2>3, <2>4, <2>5, ServeStep
  <1>9. CASE ~TooLarge(n) /\ ~Complete(c, n)
    <2>1. PICK do : do = [co EXCEPT !.rcvd = n]
      OBVIOUS
    <2>2. /\ conn' = [conn EXCEPT ![c] = do] /\ served' = [served EXCEPT ![c] = sv]
          /\ stack' = stack
      BY <1>2, <1>5, <1>9, <2>1
    <2>3. n \in 0..MaxRequest
      BY <1>9 DEF TooLarge
    <2>4. do \in Connections /\ do.st = "reading" /\ do.reply = NoReply
      BY <1>2, <1>3, <2>1, <2>3 DEF Connections
    <2>5. ConnOK(ca, do, sv) /\ VerdictOK(ca, do, sv)
      BY <1>3, <2>4 DEF ConnOK, VerdictOK, NoReply
    <2> QED
      BY <1>1, <1>2, <1>3, <1>4, <2>2, <2>4, <2>5, ServeStep
  <1>10. CASE ~TooLarge(n) /\ Complete(c, n)
    <2>1. PICK now : now = [co EXCEPT !.rcvd = n]
      OBVIOUS
    <2>2. n \in 0..MaxRequest
      BY <1>10 DEF TooLarge
    <2>3. now \in Connections /\ now.reply = NoReply /\ now.st = "reading"
      BY <1>2, <1>3, <2>1, <2>2 DEF Connections
    <2>4. CASE ~Parses(c, n)
      <3>1. PICK do : do = Replied(now, "malformed")
        OBVIOUS
      <3>2. /\ conn' = [conn EXCEPT ![c] = do] /\ served' = [served EXCEPT ![c] = sv]
            /\ stack' = stack
        BY <1>1, <1>2, <1>5, <1>10, <2>1, <2>4, <3>1 DEF Process
      <3>3. do \in Connections /\ do.st = "replied" /\ do.reply = "malformed"
        BY <2>3, <3>1, RepliedFacts DEF Replies
      <3>4. ConnOK(ca, do, sv)
        BY <1>3, <3>3 DEF ConnOK, NoReply
      <3>5. VerdictOK(ca, do, sv)
        BY <1>3, <1>6, <1>10, <2>4, <3>3 DEF VerdictOK
      <3> QED
        BY <1>1, <1>2, <1>3, <1>4, <3>2, <3>3, <3>4, <3>5, ServeStep
    <2>5. CASE Parses(c, n)
      <3>1. /\ ca.req.declared = ca.req.body /\ ca.sent = Size(ca) /\ Size(ca) <= MaxRequest
        BY <1>6, <1>10, <2>2, <2>5
      <3>2. served' = [served EXCEPT ![c] = 1]
        BY <1>1, <1>3, <1>5, <1>10, <2>5 DEF Process
      <3>3. ASSUME NEW reply \in Answers, conn' = [conn EXCEPT ![c] = Replied(now, reply)],
                   stack' = stack
            PROVE  Inv'
        <4>1. PICK do : do = Replied(now, reply)
          OBVIOUS
        <4>2. do \in Connections /\ do.st = "replied" /\ do.reply = reply /\ reply # NoReply
          BY <2>3, <4>1, RepliedFacts DEF Replies
        <4>3. ConnOK(ca, do, 1)
          BY <3>1, <4>2 DEF ConnOK
        <4>4. VerdictOK(ca, do, 1)
          BY <3>1, <4>2 DEF VerdictOK, Answers
        <4> QED
          BY <1>1, <1>2, <1>3, <1>4, <3>2, <3>3, <4>1, <4>2, <4>3, <4>4, ServeStep
      <3>4. ASSUME conn' = [conn EXCEPT ![c] = [now EXCEPT !.st = "running"]],
                   stack' = Append(stack, c)
            PROVE  Inv'
        <4>1. PICK do : do = [now EXCEPT !.st = "running"]
          OBVIOUS
        <4>2. do \in Connections /\ do.st = "running" /\ do.reply = NoReply
          BY <2>3, <4>1 DEF Connections
        <4>3. ConnOK(ca, do, 1)
          BY <3>1, <4>2 DEF ConnOK
        <4>4. VerdictOK(ca, do, 1)
          BY <3>1, <4>2 DEF VerdictOK, NoReply
        <4>5. LocalOK(cl, ca, do, 1)
          <5>1. Typed(cl, ca, do, 1)
            BY <1>2, <4>2 DEF LocalOK, Typed
          <5>2. ClientOK(cl, ca, do, 1)
            BY <1>2, <1>3, <4>2 DEF LocalOK, ClientOK
          <5>3. CallOK(ca, do)
            BY <1>2, <4>2 DEF LocalOK, CallOK
          <5> QED
            BY <4>3, <4>4, <5>1, <5>2, <5>3 DEF LocalOK
        <4>6. \A d \in Clients : conn'[d] = IF d = c THEN do ELSE conn[d]
          BY <3>4, <4>1 DEF Inv, AreFunctions
        <4>7. StackOK'
          <5>1. stack \in Seq(Clients) /\ \A i \in DOMAIN stack : stack[i] \in Clients
            BY DEF Inv, StackOK
          <5>2. /\ stack' \in Seq(Clients) /\ DOMAIN stack' = 1..(Len(stack) + 1)
                /\ DOMAIN stack = 1..Len(stack) /\ Len(stack) \in Nat
                /\ stack'[Len(stack) + 1] = c
                /\ \A i \in DOMAIN stack : stack'[i] = stack[i]
            BY <3>4, <5>1
          <5>3. \A i \in DOMAIN stack : stack[i] # c
            BY <1>1, <1>2 DEF Inv, StackOK
          <5>4. \A i \in DOMAIN stack' : i \in DOMAIN stack \/ i = Len(stack) + 1
            BY <5>2
          <5>5. DOMAIN stack \subseteq DOMAIN stack' /\ Len(stack) + 1 \in DOMAIN stack'
            BY <5>2
          <5>6. \A i, j \in DOMAIN stack' : stack'[i] = stack'[j] => i = j
            BY <5>2, <5>3, <5>4 DEF Inv, StackOK
          <5>7. \A i \in DOMAIN stack' : conn'[stack'[i]].st = "running"
            BY <4>2, <4>6, <5>1, <5>2, <5>3, <5>4 DEF Inv, StackOK
          <5>8. \A d \in Clients : conn'[d].st = "running" => \E i \in DOMAIN stack' : stack'[i] = d
            BY <4>6, <5>2, <5>5 DEF Inv, StackOK
          <5> QED
            BY <5>2, <5>6, <5>7, <5>8 DEF StackOK
        <4>8. GoneOK'
          BY <1>4 DEF Inv, GoneOK
        <4>9. client' = [client EXCEPT ![c] = cl] /\ call' = [call EXCEPT ![c] = ca]
          BY <1>1, <1>4, LocalFacts
        <4> QED
          BY <3>2, <3>4, <4>1, <4>5, <4>7, <4>8, <4>9, LocalStep
      <3>5. \/ \E reply \in Answers : /\ conn' = [conn EXCEPT ![c] = Replied(now, reply)]
                                      /\ stack' = stack
            \/ /\ conn' = [conn EXCEPT ![c] = [now EXCEPT !.st = "running"]]
               /\ stack' = Append(stack, c)
        BY <1>1, <1>5, <1>10, <2>1, <2>5 DEF Process, AnswersOf, Answers
      <3> QED
        BY <3>3, <3>4, <3>5
    <2> QED
      BY <2>4, <2>5
  <1> QED
    BY <1>8, <1>9, <1>10

\* The innermost handler answers.
LEMMA HandlerReturnsInv ==
  ASSUME Inv, HandlerReturns
  PROVE  Inv'
  <1>1. PICK m : m = Len(stack)
    OBVIOUS
  <1>2. /\ stack \in Seq(Clients) /\ m \in Nat /\ m > 0 /\ DOMAIN stack = 1..m
        /\ \A i \in 1..m : stack[i] \in Clients
    BY <1>1 DEF Inv, StackOK, HandlerReturns
  <1>3. PICK c \in Clients : c = stack[m]
    BY <1>2
  <1>4. PICK cl, ca, co, sv, do :
          /\ cl = client[c] /\ ca = call[c] /\ co = conn[c] /\ sv = served[c]
          /\ do = Replied(co, "true")
    OBVIOUS
  <1>5. /\ LocalOK(cl, ca, co, sv) /\ client = [client EXCEPT ![c] = cl]
        /\ call = [call EXCEPT ![c] = ca] /\ served = [served EXCEPT ![c] = sv]
    BY <1>4, LocalFacts
  <1>6. co.st = "running"
    BY <1>2, <1>3, <1>4 DEF Inv, StackOK
  <1>7. /\ conn' = [conn EXCEPT ![c] = do] /\ client' = client /\ call' = call
        /\ daemon' = daemon /\ served' = served
    BY <1>1, <1>3, <1>4 DEF HandlerReturns, Last, Returned
  <1>8. do \in Connections /\ do.st = "replied" /\ do.reply = "true" /\ do.reply # NoReply
    <2>1. co \in Connections /\ "true" \in Replies
      BY <1>5 DEF LocalOK, Typed, Replies, Answers
    <2> QED
      BY <1>4, <2>1, RepliedFacts
  <1>9. LocalOK(cl, ca, do, sv)
    <2>1. Typed(cl, ca, do, sv) /\ CallOK(ca, do)
      BY <1>5, <1>6, <1>8 DEF LocalOK, Typed, CallOK
    <2>2. ClientOK(cl, ca, do, sv)
      BY <1>5, <1>6, <1>8 DEF LocalOK, ClientOK
    <2>3. ConnOK(ca, do, sv)
      BY <1>5, <1>6, <1>8 DEF LocalOK, ConnOK
    <2>4. VerdictOK(ca, do, sv)
      BY <1>5, <1>8 DEF LocalOK, VerdictOK
    <2> QED
      BY <2>1, <2>2, <2>3, <2>4 DEF LocalOK
  <1>10. \A d \in Clients : conn'[d] = IF d = c THEN do ELSE conn[d]
    BY <1>7 DEF Inv, AreFunctions
  <1>11. StackOK'
    <2>1. stack' = [i \in 1..(m - 1) |-> stack[i]]
      BY <1>1 DEF HandlerReturns, Front
    <2>2. /\ DOMAIN stack' = 1..(m - 1) /\ \A i \in 1..(m - 1) : stack'[i] = stack[i]
          /\ \A i \in 1..(m - 1) : i \in 1..m /\ i # m
      BY <1>2, <2>1
    <2>3. stack' \in Seq(Clients)
      BY <1>2, <2>1, <2>2
    <2>4. \A i, j \in 1..m : stack[i] = stack[j] => i = j
      BY <1>2 DEF Inv, StackOK
    <2>5. \A i \in 1..(m - 1) : stack[i] # c
      BY <1>2, <1>3, <2>2, <2>4
    <2>6. \A i, j \in DOMAIN stack' : stack'[i] = stack'[j] => i = j
      BY <2>2, <2>4
    <2>7. \A i \in DOMAIN stack' : conn'[stack'[i]].st = "running"
      <3>1. \A i \in 1..m : conn[stack[i]].st = "running"
        BY <1>2 DEF Inv, StackOK
      <3> QED
        BY <1>2, <1>10, <2>2, <2>5, <3>1
    <2>8. ASSUME NEW d \in Clients, conn'[d].st = "running"
          PROVE  \E i \in DOMAIN stack' : stack'[i] = d
      <3>1. d # c /\ conn[d].st = "running"
        BY <1>8, <1>10, <2>8
      <3>2. PICK i \in 1..m : stack[i] = d
        BY <1>2, <3>1 DEF Inv, StackOK
      <3>3. i \in 1..(m - 1)
        BY <1>2, <1>3, <3>1, <3>2
      <3> QED
        BY <2>2, <3>2, <3>3
    <2> QED
      BY <2>3, <2>6, <2>7, <2>8 DEF StackOK
  <1>12. GoneOK'
    <2>1. daemon # "left"
      BY <1>4, <1>6 DEF Inv, GoneOK
    <2> QED
      BY <1>7, <2>1 DEF Inv, GoneOK
  <1> QED
    BY <1>5, <1>7, <1>9, <1>11, <1>12, LocalStep

\* run() returns, when no handler waits any more: a connection whose request was
\* dispatched has its answer.
LEMMA LeaveInv ==
  ASSUME Inv, Leave
  PROVE  Inv'
  <1>1. /\ client' = client /\ call' = call /\ served' = served /\ stack' = stack
        /\ stack = <<>> /\ daemon' = "left"
        /\ conn' = [c \in Clients |-> IF conn[c].st = "none" THEN conn[c] ELSE Closed(conn[c])]
    BY DEF Leave
  <1>2. ASSUME NEW c \in Clients
        PROVE  /\ LocalOK(client[c], call[c], conn[c], served[c])'
               /\ conn'[c].st \in {"none", "closed"}
    <2>1. PICK cl, ca, co, sv, do :
            /\ cl = client[c] /\ ca = call[c] /\ co = conn[c] /\ sv = served[c]
            /\ do = conn'[c]
      OBVIOUS
    <2>2. LocalOK(cl, ca, co, sv)
      BY <2>1, LocalFacts
    <2>3. co.st # "running"
      BY <1>1, <2>1 DEF Inv, StackOK
    <2>4. CASE co.st = "none"
      <3>1. do = co
        BY <1>1, <2>1, <2>4
      <3> QED
        BY <1>1, <2>1, <2>2, <2>4, <3>1
    <2>5. CASE co.st # "none"
      <3>1. do = Closed(co)
        BY <1>1, <2>1, <2>5
      <3>2. co \in Connections
        BY <2>2 DEF LocalOK, Typed
      <3>3. do \in Connections /\ do.st = "closed" /\ do.reply = co.reply
        <4>1. 0 \in 0..MaxRequest
          OBVIOUS
        <4> QED
          BY <3>1, <3>2, <4>1 DEF Connections, Closed
      <3>4. Typed(cl, ca, do, sv) /\ CallOK(ca, do)
        BY <2>2, <2>5, <3>3 DEF LocalOK, Typed, CallOK
      <3>5. ClientOK(cl, ca, do, sv)
        BY <2>2, <2>5, <3>3 DEF LocalOK, ClientOK
      <3>6. ConnOK(ca, do, sv)
        <4>1. sv = 0 \/ co.reply # NoReply
          BY <2>2, <2>3, <3>2 DEF LocalOK, ConnOK, Typed, Connections
        <4>2. sv \in Nat /\ (sv > 0 => ca.sent = Size(ca))
          BY <2>2 DEF LocalOK, ConnOK, Typed
        <4> QED
          BY <3>3, <4>1, <4>2 DEF ConnOK
      <3>7. VerdictOK(ca, do, sv)
        BY <2>2, <3>3 DEF LocalOK, VerdictOK
      <3>8. LocalOK(cl, ca, do, sv)
        BY <3>4, <3>5, <3>6, <3>7 DEF LocalOK
      <3> QED
        BY <1>1, <2>1, <3>3, <3>8
    <2> QED
      BY <2>4, <2>5
  <1>3. AreFunctions'
    BY <1>1 DEF Inv, AreFunctions
  <1>4. StackOK'
    <2>1. \A c \in Clients : conn'[c].st # "running"
      BY <1>2
    <2>2. stack' = <<>>
      BY <1>1
    <2> QED
      BY <2>1, <2>2 DEF StackOK
  <1>5. GoneOK'
    BY <1>1, <1>2 DEF GoneOK
  <1> QED
    BY <1>2, <1>3, <1>4, <1>5 DEF Inv

-----------------------------------------------------------------------------
\* The invariant holds initially.
LEMMA InitInv == Init => Inv
  <1> SUFFICES ASSUME Init PROVE Inv
    OBVIOUS
  <1>1. AreFunctions
    BY DEF Init, AreFunctions
  <1>2. StackOK /\ GoneOK
    BY DEF Init, StackOK, GoneOK, NoConn
  <1>3. ASSUME NEW c \in Clients
        PROVE  LocalOK(client[c], call[c], conn[c], served[c])
    <2>1. PICK cl : cl = [at |-> "idle", left |-> <<>>]
      OBVIOUS
    <2>2. cl \in ClientStates /\ cl.at = "idle"
      BY <2>1 DEF ClientStates, Ended
    <2>3. NoCall \in Calls /\ NoCall.sent <= Size(NoCall)
      BY DEF Calls, NoCall, Size
    <2>4. LocalOK(cl, NoCall, NoConn, 0)
      BY <2>2, <2>3, NoConnFacts
      DEF LocalOK, Typed, ClientOK, CallOK, ConnOK, VerdictOK, NoReply, Busy
    <2>5. client[c] = cl /\ call[c] = NoCall /\ conn[c] = NoConn /\ served[c] = 0
      BY <2>1 DEF Init
    <2> QED
      BY <2>4, <2>5
  <1> QED
    BY <1>1, <1>2, <1>3 DEF Inv

\* Every step keeps it.
LEMMA NextInv == Inv /\ [Next]_vars => Inv'
  <1> SUFFICES ASSUME Inv, [Next]_vars PROVE Inv'
    OBVIOUS
  <1>1. ASSUME NEW c \in Clients, Kill(c) PROVE Inv'
    BY <1>1, EndInv DEF Kill
  <1>2. CASE StopLoop
    BY <1>2 DEF StopLoop, Inv, AreFunctions, StackOK, GoneOK
  <1>3. CASE UNCHANGED vars
    BY <1>3 DEF vars, Inv, AreFunctions, StackOK, GoneOK
  <1> QED
    BY <1>1, <1>2, <1>3, CommandInv, ConnectInv, WriteInv, ReadInv, InterruptedInv, AcceptInv,
       CloseInv, HandleReadInv, HandlerReturnsInv, LeaveInv
    DEF Next, ClientStep, ServerStep

\* The inductive invariant, of every reachable state.
THEOREM Safety == Spec => []Inv
  BY InitInv, NextInv, PTL DEF Spec

\* Type correctness: what was received of a request never exceeds the limit.
THEOREM RpcTypeCorrect == Spec => []TypeOK
  <1>1. Inv => TypeOK
    <2> SUFFICES ASSUME Inv PROVE TypeOK
      OBVIOUS
    <2>1. \A c \in Clients : /\ client[c] \in ClientStates /\ call[c] \in Calls
                             /\ conn[c] \in Connections /\ served[c] \in Nat
      BY DEF Inv, LocalOK, Typed
    <2>2. /\ client \in [Clients -> ClientStates] /\ call \in [Clients -> Calls]
          /\ conn \in [Clients -> Connections] /\ served \in [Clients -> Nat]
      BY <2>1 DEF Inv, AreFunctions
    <2> QED
      BY <2>2 DEF Inv, StackOK, GoneOK, TypeOK, ClientStates, Calls, Connections
  <1> QED
    BY <1>1, Safety, PTL

\* handle_read_: however a request is cut into pieces, and whatever is served between
\* them, the verdict is that of the whole.
THEOREM VerdictIgnoresCutting == Spec => []VerdictOfWhole
  <1>1. Inv => VerdictOfWhole
    <2> SUFFICES ASSUME Inv, NEW c \in Clients
                 PROVE  /\ served[c] > 0 => served[c] = 1 /\ Exact(c) /\ Total(c) <= MaxRequest
                        /\ conn[c].reply = "malformed" => ~Exact(c)
                        /\ conn[c].reply = "too large" => Total(c) > MaxRequest
      BY DEF VerdictOfWhole
    <2>1. VerdictOK(call[c], conn[c], served[c])
      BY DEF Inv, LocalOK
    <2> QED
      BY <2>1, LocalFacts DEF VerdictOK
  <1> QED
    BY <1>1, Safety, PTL

\* A client that is told of a broken connection knows that its request was not
\* dispatched: the daemon leaves its event loop only when every handler has answered.
THEOREM BrokenMeansNotServed == Spec => []ServedIsAnswered
  <1>1. Inv => ServedIsAnswered
    BY DEF Inv, LocalOK, ClientOK, ServedIsAnswered
  <1> QED
    BY <1>1, Safety, PTL
=============================================================================
