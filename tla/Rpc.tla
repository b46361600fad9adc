--------------------------------- MODULE Rpc ---------------------------------
(***************************************************************************)
(* A remote call: supervisorctl (supervisor-app/src/ctl/supervisorctl.h)   *)
(* on one side of a stream socket, RpcServer and RpcConnection             *)
(* (supervisor-lib/src/rpc) on the other.                                  *)
(*                                                                         *)
(* Every call has a connection of its own.  The request arrives in pieces  *)
(* of any size, and the connection decides after each piece whether it has *)
(* the whole.  A handler that stops a child waits in a nested event loop,  *)
(* which serves the other connections meanwhile; the handlers on the call  *)
(* stack return from the innermost on.  What the handlers do to the        *)
(* programs is in ProcessManager and Supervisord: here a handler gives any *)
(* of the answers it can give.                                             *)
(*                                                                         *)
(* A request is a head of HeadLen characters, the last of which ends the   *)
(* headers, and a body.  An answer fits into the buffer of the socket.     *)
(***************************************************************************)
EXTENDS Integers, SequencesExt

CONSTANTS
  Clients,     \* the supervisorctl processes and other clients
  HeadLen,     \* the length of the headers
  Requests,    \* the requests a client may send: the length of the body, and the
               \* one its headers declare, 0 when there is no Content-Length
  BufSize,     \* the 8192 characters of buffer_
  MaxRequest   \* the 1 MB of MAX_REQUEST_SIZE

ASSUME SizesAssumption ==
  /\ HeadLen \in Nat \ {0} /\ BufSize \in Nat \ {0} /\ MaxRequest \in Nat
ASSUME RequestsAssumption ==
  /\ Requests \subseteq [body : Nat \ {0}, declared : Nat]
  /\ \A req \in Requests : req.declared <= req.body

VARIABLES
  client,  \* where each client is in its command
  call,    \* the request each client sends, and how much of it was sent
  conn,    \* the connection of each client: the RpcConnection
  stack,   \* the clients whose handlers wait in a nested loop, the innermost last
  daemon,  \* the event loop: running, stopped by stop(), or left for good
  served   \* history: how often the request of each client was dispatched

vars == <<client, call, conn, stack, daemon, served>>

(***************************************************************************)
(* The commands as the calls they make.  "stop" stands for the methods     *)
(* that may wait for a child (stopProcess, stopAllProcesses, reloadConfig) *)
(* and "start" for those that do not.  The last command is restart.        *)
(***************************************************************************)
Commands == {<<"start">>, <<"stop">>, <<"stop", "start">>}

\* What check_fault_ tells apart, and the two answers no handler gives.
Answers == {"true", "NOT_RUNNING", "fault"}
Replies == Answers \cup {"malformed", "too large"}
NoReply == "none"

\* What a handler answers when it does not wait.
AnswersOf(method) == IF method = "stop" THEN Answers ELSE {"true", "fault"}

(***************************************************************************)
(* Where a client is.  "cut": it reads, but its write was interrupted.     *)
(* "error": the last command has ended with a broken connection.  "idle":  *)
(* there was none, or it has ended in any other way (a result or a fault   *)
(* was printed, the answer was not XML, the client was killed).            *)
(***************************************************************************)
Busy  == {"connect", "write", "read", "cut"}
Ended == {"idle", "error"}

NoCall == [method |-> "none", req |-> [body |-> 0, declared |-> 0], sent |-> 0]
NoConn == [st |-> "none", rcvd |-> 0, reply |-> NoReply]

TypeOK ==
  /\ client \in [Clients -> [at : Busy \cup Ended, left : {<<>>} \cup Commands]]
  /\ call \in [Clients -> {NoCall} \cup [method : {"start", "stop"}, req : Requests, sent : Nat]]
  /\ conn \in [Clients -> [st : {"none", "queued", "reading", "running", "replied", "closed"},
                           rcvd : 0..MaxRequest, reply : Replies \cup {NoReply}]]
  /\ stack \in Seq(Clients)
  /\ daemon \in {"running", "stopped", "left"}
  /\ served \in [Clients -> Nat]

Init == /\ client = [c \in Clients |-> [at |-> "idle", left |-> <<>>]]
        /\ call = [c \in Clients |-> NoCall]
        /\ conn = [c \in Clients |-> NoConn]
        /\ stack = <<>> /\ daemon = "running"
        /\ served = [c \in Clients |-> 0]

-----------------------------------------------------------------------------
(***************************************************************************)
(* The client.  call_method_ connects, writes the whole request, and reads *)
(* the answer; a system error ends the command.                            *)
(***************************************************************************)
Goto(c, place) == client' = [client EXCEPT ![c].at = place]
End(c, place)  == client' = [client EXCEPT ![c] = [at |-> place, left |-> <<>>]]

\* execute_command.
Command(c) ==
  /\ client[c].at \in Ended /\ conn[c].st \in {"none", "closed"}
  /\ \E cmd \in Commands : client' = [client EXCEPT ![c] = [at |-> "connect", left |-> cmd]]
  /\ call' = [call EXCEPT ![c] = NoCall] /\ conn' = [conn EXCEPT ![c] = NoConn]
  /\ served' = [served EXCEPT ![c] = 0]
  /\ UNCHANGED <<stack, daemon>>

\* connect(2), and the request to send: supervisorctl declares the exact length.
Connect(c) ==
  /\ client[c].at = "connect"
  /\ served' = [served EXCEPT ![c] = 0]
  /\ IF daemon = "left"
     THEN End(c, "error") /\ UNCHANGED <<call, conn>>
     ELSE /\ Goto(c, "write")
          /\ \E req \in Requests :
               call' = [call EXCEPT ![c] =
                          [method |-> Head(client[c].left), req |-> req, sent |-> 0]]
          /\ conn' = [conn EXCEPT ![c] = [NoConn EXCEPT !.st = "queued"]]
  /\ UNCHANGED <<stack, daemon>>

Total(c) == HeadLen + call[c].req.body

\* write(2) takes some of what is left, or fails because the other end is closed.
Write(c) ==
  /\ client[c].at = "write"
  /\ IF conn[c].st \in {"none", "closed"}
     THEN End(c, "error") /\ UNCHANGED call
     ELSE \E k \in 1..(Total(c) - call[c].sent) :
            /\ call' = [call EXCEPT ![c].sent = @ + k]
            /\ IF call[c].sent + k = Total(c) THEN Goto(c, "read") ELSE UNCHANGED client
  /\ UNCHANGED <<conn, stack, daemon, served>>

\* The command goes on after this answer: restart takes NOT_RUNNING for a stop.
Tolerates(c, reply) ==
  reply = "true" \/ (reply = "NOT_RUNNING" /\ Len(client[c].left) > 1)

\* The answer, or the end of the stream, is read; check_fault_ throws for a fault.
Read(c) ==
  /\ client[c].at \in {"read", "cut"}
  /\ \/ /\ conn[c].reply # NoReply
        /\ IF ~Tolerates(c, conn[c].reply) THEN End(c, "idle")
           ELSE client' = [client EXCEPT ![c] =
                  [at |-> IF Len(@.left) > 1 THEN "connect" ELSE "idle", left |-> Tail(@.left)]]
     \/ conn[c].reply = NoReply /\ conn[c].st \in {"none", "closed"} /\ End(c, "error")
  /\ UNCHANGED <<call, conn, stack, daemon, served>>

(***************************************************************************)
(* A signal interrupts a system call of the client.  The continue of the   *)
(* do ... while (false) loop of retry_eintr_ leaves the loop, so that the  *)
(* operation is taken for one that has succeeded; the empty answer of an   *)
(* interrupted read is not XML.                                            *)
(***************************************************************************)
Interrupted(c) ==
  /\ \/ client[c].at = "connect" /\ Goto(c, "write") /\ served' = [served EXCEPT ![c] = 0]
        /\ conn' = [conn EXCEPT ![c] = NoConn]
     \/ client[c].at = "write" /\ Goto(c, "cut") /\ UNCHANGED <<conn, served>>
     \/ client[c].at \in {"read", "cut"} /\ End(c, "idle") /\ UNCHANGED <<conn, served>>
  /\ UNCHANGED <<call, stack, daemon>>

\* The client is killed; the kernel closes its end.
Kill(c) ==
  /\ client[c].at \in Busy
  /\ End(c, "idle")
  /\ UNCHANGED <<call, conn, stack, daemon, served>>

-----------------------------------------------------------------------------
(***************************************************************************)
(* The server.  Handlers are served by the outer loop or by the nested one *)
(* of the handler on top of the stack, until the event loop is stopped.    *)
(***************************************************************************)
Serving == daemon = "running"

\* handle_accept_ starts to read and accepts the next one.
Accept(c) ==
  /\ Serving /\ conn[c].st = "queued"
  /\ conn' = [conn EXCEPT ![c].st = "reading"]
  /\ UNCHANGED <<client, call, stack, daemon, served>>

\* Mutant: there is no limit.
TooLargeNever(n) == FALSE

TooLarge(n) == n > MaxRequest

\* Mutant: the first character of the body is enough.
CompleteEarly(c, n) == n > HeadLen

\* Mutant: one character more than the whole is waited for.
CompleteLate(c, n) == n >= HeadLen /\ n - HeadLen > call[c].req.declared

\* The headers have ended and the declared length is there.
Complete(c, n) == n >= HeadLen /\ n - HeadLen >= call[c].req.declared

\* What is left after the trim is the body the client meant, so read_xml can parse it.
Parses(c, n) == call[c].req.body = Min({n - HeadLen, call[c].req.declared})

\* The RpcConnection and its socket are destroyed.
Closed(state) == [state EXCEPT !.st = "closed", !.rcvd = 0]

\* send_response_ gives the whole answer to the socket.
Replied(state, reply) == [state EXCEPT !.st = "replied", !.reply = reply]

\* process_request_: an exception becomes a fault.
Process(c, n) ==
  LET now == [conn[c] EXCEPT !.rcvd = n]
  IN  IF ~Parses(c, n)
      THEN /\ conn' = [conn EXCEPT ![c] = Replied(now, "malformed")]
           /\ UNCHANGED <<stack, served>>
      ELSE /\ served' = [served EXCEPT ![c] = @ + 1]
           /\ \/ /\ \E reply \in AnswersOf(call[c].method) :
                      conn' = [conn EXCEPT ![c] = Replied(now, reply)]
                 /\ UNCHANGED stack
              \/ /\ call[c].method = "stop"
                 /\ conn' = [conn EXCEPT ![c] = [now EXCEPT !.st = "running"]]
                 /\ stack' = Append(stack, c)

\* handle_read_ gets a piece of what was sent.
HandleRead(c) ==
  /\ Serving /\ conn[c].st = "reading"
  /\ \E k \in 1..BufSize :
       LET n == conn[c].rcvd + k
       IN  /\ n <= call[c].sent
           /\ IF TooLarge(n)
              THEN /\ conn' = [conn EXCEPT ![c] = Replied(@, "too large")]
                   /\ UNCHANGED <<stack, served>>
              ELSE IF Complete(c, n) THEN Process(c, n)
              ELSE conn' = [conn EXCEPT ![c].rcvd = n] /\ UNCHANGED <<stack, served>>
  /\ UNCHANGED <<client, call, daemon>>

\* handle_read_ gets the end of the stream before the request is complete: the
\* connection is dropped without an answer.
HandleEof(c) ==
  /\ Serving /\ conn[c].st = "reading"
  /\ client[c].at \in Ended /\ conn[c].rcvd = call[c].sent
  /\ conn' = [conn EXCEPT ![c] = Closed(@)]
  /\ UNCHANGED <<client, call, stack, daemon, served>>

\* Mutant: the answer is dropped when the event loop was stopped meanwhile.
ReturnedUnlessStopped(state) ==
  IF Serving THEN Replied(state, "true") ELSE Closed(state)

\* The connection whose handler has returned from its wait.
Returned(state) == Replied(state, "true")

\* The wait of the innermost handler is over, and it answers.
HandlerReturns ==
  /\ stack # <<>>
  /\ conn' = [conn EXCEPT ![Last(stack)] = Returned(@)]
  /\ stack' = Front(stack)
  /\ UNCHANGED <<client, call, daemon, served>>

\* handle_write_ closes the connection.
HandleWrite(c) ==
  /\ Serving /\ conn[c].st = "replied"
  /\ conn' = [conn EXCEPT ![c] = Closed(@)]
  /\ UNCHANGED <<client, call, stack, daemon, served>>

\* A signal or the shutdown method has stopped the event loop.
StopLoop ==
  /\ Serving /\ daemon' = "stopped"
  /\ UNCHANGED <<client, call, conn, stack, served>>

\* run() returns: the server stops, and every connection is closed with it.
Leave ==
  /\ daemon = "stopped" /\ stack = <<>>
  /\ daemon' = "left"
  /\ conn' = [c \in Clients |-> IF conn[c].st = "none" THEN conn[c]
                                 ELSE Closed(conn[c])]
  /\ UNCHANGED <<client, call, stack, served>>

ClientStep(c) == Connect(c) \/ Write(c) \/ Read(c)
ServerStep(c) == Accept(c) \/ HandleRead(c) \/ HandleEof(c) \/ HandleWrite(c)

Next ==
  \/ \E c \in Clients : Command(c) \/ ClientStep(c) \/ Interrupted(c) \/ Kill(c)
  \/ \E c \in Clients : ServerStep(c)
  \/ HandlerReturns \/ StopLoop \/ Leave

Spec == Init /\ [][Next]_vars

(***************************************************************************)
(* Clients run, the event loop serves every connection that is ready, and  *)
(* a handler whose wait is over returns, whatever handlers were nested in  *)
(* it (the deadlines are in ProcessManager).  The loop stops only when it  *)
(* is told to.                                                             *)
(***************************************************************************)
Fairness ==
  /\ \A c \in Clients : WF_vars(ClientStep(c)) /\ WF_vars(ServerStep(c))
  /\ \A c \in Clients : SF_vars(stack # <<>> /\ Last(stack) = c /\ HandlerReturns)
  /\ WF_vars(Leave)

FairSpec == Spec /\ Fairness

-----------------------------------------------------------------------------
\* The headers declare the length of the body.
Exact(c) == call[c].req.declared = call[c].req.body

(***************************************************************************)
(* However the request is cut into pieces, the verdict is the same: one    *)
(* that declares its length and keeps to the limit is dispatched, once,    *)
(* and is never called malformed or too large.                             *)
(***************************************************************************)
VerdictOfWhole ==
  \A c \in Clients :
    /\ served[c] > 0 => /\ served[c] = 1
                        /\ Exact(c) /\ Total(c) <= MaxRequest
    /\ conn[c].reply = "malformed" => ~Exact(c)
    /\ conn[c].reply = "too large" => Total(c) > MaxRequest

\* A client that is told of a broken connection knows that nothing was done: what
\* was dispatched is answered, even when the daemon shuts down meanwhile.
ServedIsAnswered == \A c \in Clients : client[c].at = "error" => served[c] = 0

\* Every command ends, whatever other clients and handlers do, unless a signal has
\* cut its request short: retry_eintr_ does not send the rest, and both ends read.
CommandEnds ==
  \A c \in Clients : client[c].at \in Busy ~> client[c].at \in Ended \cup {"cut"}
=============================================================================
