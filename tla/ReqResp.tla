------------------------------- MODULE ReqResp ------------------------------
(***************************************************************************)
(* The request/response protocols: reqresp/reqresp.go registers a stream   *)
(* handler per topic, and reqresp/handler.go holds the handlers of both    *)
(* ends of a stream.  One stream is followed from NewStream to the Close   *)
(* of its handlers.  Handlers share nothing, so other streams run          *)
(* independently.                                                          *)
(*                                                                         *)
(* An end of the stream is run by a handler of this program or by a remote *)
(* peer that may do anything.  What is sent is a response code ("success"  *)
(* or "failure"), a payload that decodes ("data") or one that does not     *)
(* ("junk").                                                               *)
(***************************************************************************)
EXTENDS Integers, Sequences

CONSTANTS
  Window,  \* what a stream's end buffers before its writer blocks
  MaxSent  \* bound: what a remote end sends

ASSUME ReqRespAssumption == Window \in Nat \ {0} /\ MaxSent \in Nat

Ends == {"server", "client"}
Other(e) == IF e = "server" THEN "client" ELSE "server"
Items == {"success", "failure", "data", "junk"}

\* The topics in the order Serve registers them.
topics == <<"ping", "goodbye", "status", "metadata1", "metadata2">>
-----------------------------------------------------------------------------
(***************************************************************************)
(* The handlers, as the operations they perform on the stream.  The first  *)
(* operation that fails ends the handler, and its deferred Close follows.  *)
(***************************************************************************)
\* Mutant: no deadline is set.
readForEver == <<"read", "closeRead">>

readRequest == <<"readDeadline", "read", "closeRead">>

\* Mutant: the response code is left to the payload's decoder.
readPlain == <<"readDeadline", "read", "closeRead">>

readResponse == <<"readDeadline", "readCode", "read", "closeRead">>

writeRequest == <<"writeDeadline", "write", "closeWrite">>

writeResponse == <<"writeDeadline", "writeCode", "write", "closeWrite">>

InboundPingHandler == readRequest \o writeResponse

InboundGoodbyeHandler == readRequest

InboundMetadataHandler == writeResponse

InboundStatusHandler == readRequest \o writeResponse

\* Mutant: the answer is awaited before the request is written.
OutboundPingReads == readResponse \o writeRequest

OutboundPingHandler == writeRequest \o readResponse

OutboundMetadataHandler == readResponse

\* The default, a handler that does nothing, is reached by no topic of Serve.
mappingTopicToHandler(topic) ==
  CASE topic = "ping" -> InboundPingHandler
    [] topic = "goodbye" -> InboundGoodbyeHandler
    [] topic \in {"metadata1", "metadata2"} -> InboundMetadataHandler
    [] topic = "status" -> InboundStatusHandler

\* The protocols this program has a handler for at the client's end.
OutboundTopics == {"ping", "metadata2"}

Handler(e, topic) ==
  IF e = "server" THEN mappingTopicToHandler(topic)
  ELSE IF topic = "ping" THEN OutboundPingHandler
       ELSE OutboundMetadataHandler
-----------------------------------------------------------------------------
VARIABLES
  service,    \* "registering", "serving" or "returned": Serve
  registered, \* how many of the topics have their handler set
  topic,      \* of the stream, or "none"
  by,         \* who runs each end: "handler" or "remote"
  pc,         \* operation the handler of each end is at; 0: reading the text
              \* of an error response
  status,     \* of each end: "open", "failed", "ok" or "error"
  armed,      \* deadlines set at each end
  buf,        \* what each end has received and not read
  rclosed,    \* ends whose reading is closed
  wclosed,    \* ends whose writing is closed
  reset       \* whether the stream was reset

\* History.
VARIABLES
  sent,       \* what each end has sent
  decoded,    \* ends that decoded a payload
  disturbed   \* whether a deadline passed or the stream was reset

vars == <<service, registered, topic, by, pc, status, armed, buf, rclosed,
          wclosed, reset, sent, decoded, disturbed>>
serveVars == <<service, registered>>
wire == <<buf, rclosed, wclosed, sent>>
history == <<decoded, disturbed>>

Init ==
  /\ service = "registering"
  /\ registered = 0
  /\ topic = "none"
  /\ by = [e \in Ends |-> "remote"]
  /\ pc = [e \in Ends |-> 1]
  /\ status = [e \in Ends |-> "open"]
  /\ armed = [e \in Ends |-> {}]
  /\ buf = [e \in Ends |-> << >>]
  /\ rclosed = {}
  /\ wclosed = {}
  /\ reset = FALSE
  /\ sent = [e \in Ends |-> << >>]
  /\ decoded = {}
  /\ disturbed = FALSE

\* One round of Serve's loop: SetStreamHandler.
Register ==
  /\ service = "registering"
  /\ registered' = registered + 1
  /\ service' = IF registered' = Len(topics) THEN "serving" ELSE service
  /\ UNCHANGED <<topic, by, pc, status, armed, wire, reset, history>>

\* ctx.Done(): Serve returns and the handlers stay.
ServeReturns ==
  /\ service = "serving"
  /\ service' = "returned"
  /\ UNCHANGED <<registered, topic, by, pc, status, armed, wire, reset,
                 history>>

\* libp2p negotiates a protocol that the server's end supports.
NewStream(t, who) ==
  /\ topic = "none"
  /\ \E e \in Ends : who[e] = "handler"
  /\ who["server"] = "handler" => \E i \in 1..registered : topics[i] = t
  /\ who["client"] = "handler" => t \in OutboundTopics
  /\ topic' = t
  /\ by' = who
  /\ UNCHANGED <<serveVars, pc, status, armed, wire, reset, history>>
-----------------------------------------------------------------------------
Running(e) == topic # "none" /\ by[e] = "handler" /\ status[e] = "open"

Op(e) == IF pc[e] = 0 THEN "readAll"
         ELSE IF pc[e] <= Len(Handler(e, topic)) THEN Handler(e, topic)[pc[e]]
         ELSE "return"

Reads == {"read", "readCode", "readAll"}
Writes == {"writeCode", "write"}

\* Whether the operation can go on without waiting for the other end.
Ready(e) ==
  CASE Op(e) \in Reads -> buf[e] # << >> \/ Other(e) \in wclosed
    [] Op(e) \in Writes -> \/ Len(buf[Other(e)]) < Window
                           \/ Other(e) \in rclosed
    [] OTHER -> TRUE

\* The bytes e writes are buffered unless the other end no longer reads.
Send(e, item) ==
  /\ sent' = [sent EXCEPT ![e] = Append(@, item)]
  /\ buf' = IF Other(e) \in rclosed THEN buf
            ELSE [buf EXCEPT ![Other(e)] = Append(@, item)]
  /\ UNCHANGED <<rclosed, wclosed>>

Receive(e) ==
  /\ buf' = [buf EXCEPT ![e] = Tail(@)]
  /\ UNCHANGED <<rclosed, wclosed, sent>>

CloseRead(e) ==
  /\ rclosed' = rclosed \cup {e}
  /\ buf' = [buf EXCEPT ![e] = << >>]
  /\ UNCHANGED <<wclosed, sent>>

CloseWrite(e) ==
  /\ wclosed' = wclosed \cup {e}
  /\ UNCHANGED <<buf, rclosed, sent>>

Advance(e) ==
  /\ pc' = [pc EXCEPT ![e] = @ + 1]
  /\ UNCHANGED status

Fail(e) ==
  /\ status' = [status EXCEPT ![e] = "failed"]
  /\ UNCHANGED pc

SetDeadline(e) ==
  /\ Op(e) \in {"readDeadline", "writeDeadline"}
  /\ armed' = [armed EXCEPT ![e] = @ \cup {Op(e)}]
  /\ Advance(e)
  /\ UNCHANGED <<wire, decoded>>

\* DecodeWithMaxLength
Decode(e) ==
  /\ Op(e) = "read"
  /\ buf[e] # << >>
  /\ Receive(e)
  /\ IF Head(buf[e]) = "data"
     THEN Advance(e) /\ decoded' = decoded \cup {e}
     ELSE Fail(e) /\ UNCHANGED decoded
  /\ UNCHANGED armed

\* The first byte of a response.
ReadCode(e) ==
  /\ Op(e) = "readCode"
  /\ buf[e] # << >>
  /\ Receive(e)
  /\ pc' = [pc EXCEPT ![e] = IF Head(buf[e]) = "success" THEN @ + 1 ELSE 0]
  /\ UNCHANGED <<status, armed, decoded>>

\* io.ReadAll of the text of an error response.
ReadAll(e) ==
  /\ Op(e) = "readAll"
  /\ buf[e] # << >>
  /\ Receive(e)
  /\ UNCHANGED <<pc, status, armed, decoded>>

\* The other end has closed: an unexpected EOF, or the end of ReadAll.
Eof(e) ==
  /\ Op(e) \in Reads
  /\ buf[e] = << >>
  /\ Other(e) \in wclosed
  /\ Fail(e)
  /\ UNCHANGED <<armed, wire, decoded>>

Write(e) ==
  /\ Op(e) \in Writes
  /\ Ready(e)
  /\ Send(e, IF Op(e) = "writeCode" THEN "success" ELSE "data")
  /\ Advance(e)
  /\ UNCHANGED <<armed, decoded>>

CloseHalf(e) ==
  /\ \/ Op(e) = "closeRead" /\ CloseRead(e)
     \/ Op(e) = "closeWrite" /\ CloseWrite(e)
  /\ Advance(e)
  /\ UNCHANGED <<armed, decoded>>

\* The deadline of the operation passes, whether or not it had to wait.
TimeOut(e) ==
  /\ \/ Op(e) \in Reads /\ "readDeadline" \in armed[e]
     \/ Op(e) \in Writes /\ "writeDeadline" \in armed[e]
  /\ Fail(e)
  /\ disturbed' = TRUE
  /\ UNCHANGED <<armed, wire, decoded>>

\* Any operation on a stream that was reset fails.
Broken(e) ==
  /\ Op(e) # "return"
  /\ Fail(e)
  /\ UNCHANGED <<armed, wire, history>>

\* The deferred stream.Close, and the handler's return.
Close(e) ==
  /\ topic # "none" /\ by[e] = "handler"
  /\ \/ /\ status[e] = "failed"
        /\ status' = [status EXCEPT ![e] = "error"]
     \/ /\ status[e] = "open" /\ Op(e) = "return"
        /\ status' = [status EXCEPT ![e] = "ok"]
  /\ rclosed' = rclosed \cup {e}
  /\ wclosed' = wclosed \cup {e}
  /\ buf' = [buf EXCEPT ![e] = << >>]
  /\ UNCHANGED <<serveVars, topic, by, pc, armed, reset, sent, history>>

\* One operation of a handler.
Operation(e) ==
  /\ Running(e)
  /\ IF reset THEN Broken(e)
     ELSE \/ TimeOut(e)
          \/ /\ \/ SetDeadline(e) \/ Decode(e) \/ ReadCode(e) \/ ReadAll(e)
                \/ Eof(e) \/ Write(e) \/ CloseHalf(e)
             /\ UNCHANGED disturbed
  /\ UNCHANGED <<serveVars, topic, by, reset>>

HandlerStep(e) == Operation(e) \/ Close(e)
-----------------------------------------------------------------------------
\* What a remote end may do.
RemoteStep(e) ==
  /\ topic # "none" /\ by[e] = "remote" /\ ~ reset
  /\ \/ /\ e \notin wclosed /\ Len(sent[e]) < MaxSent
        /\ Len(buf[Other(e)]) < Window \/ Other(e) \in rclosed
        /\ \E item \in Items : Send(e, item)
     \/ e \notin rclosed /\ buf[e] # << >> /\ Receive(e)
     \/ e \notin wclosed /\ CloseWrite(e)
     \/ e \notin rclosed /\ CloseRead(e)
  /\ UNCHANGED <<serveVars, topic, by, pc, status, armed, reset, history>>

\* The remote peer resets the stream, or the connection is lost.
Reset ==
  /\ topic # "none" /\ ~ reset
  /\ reset' = TRUE
  /\ disturbed' = TRUE
  /\ buf' = [e \in Ends |-> << >>]
  /\ UNCHANGED <<serveVars, topic, by, pc, status, armed, rclosed, wclosed,
                 sent, decoded>>

Next ==
  \/ Register \/ ServeReturns
  \/ \E t \in {topics[i] : i \in 1..Len(topics)} :
       \E who \in [Ends -> {"handler", "remote"}] : NewStream(t, who)
  \/ \E e \in Ends : HandlerStep(e) \/ RemoteStep(e)
  \/ Reset

Spec == Init /\ [][Next]_vars

\* The goroutines of the handlers are scheduled and deadlines pass.  Nothing
\* is expected of a remote end.
FairSpec == Spec /\ \A e \in Ends : WF_vars(HandlerStep(e))
-----------------------------------------------------------------------------
IsPrefixOf(s, t) == Len(s) <= Len(t) /\ s = SubSeq(t, 1, Len(s))

TypeOK ==
  /\ service \in {"registering", "serving", "returned"}
  /\ registered \in 0..Len(topics)
  /\ topic \in {"none"} \cup {topics[i] : i \in 1..Len(topics)}
  /\ by \in [Ends -> {"handler", "remote"}]
  /\ pc \in [Ends -> 0..8]
  /\ status \in [Ends -> {"open", "failed", "ok", "error"}]
  /\ armed \in [Ends -> SUBSET {"readDeadline", "writeDeadline"}]
  /\ buf \in [Ends -> Seq(Items)]
  /\ \A e \in Ends : Len(buf[e]) <= Window
  /\ rclosed \subseteq Ends
  /\ wclosed \subseteq Ends
  /\ reset \in BOOLEAN
  /\ sent \in [Ends -> Seq(Items)]
  /\ decoded \subseteq Ends
  /\ disturbed \in BOOLEAN

\* Whatever a client sends and whenever it stops, all it can get from a
\* handler is a beginning of one success response, none at all to a goodbye,
\* and none to a ping or a status request that was not received whole
\* (the Inbound handlers).
ResponseProper ==
  by["server"] = "handler" =>
    /\ IsPrefixOf(sent["server"], <<"success", "data">>)
    /\ topic = "goodbye" => sent["server"] = << >>
    /\ topic \in {"ping", "status"} /\ sent["server"] # << >>
         => "server" \in decoded

\* An outbound call that returns nil has a success response with a payload
\* that decodes, and if the other end is a handler of this program, that
\* handler had the whole request and wrote the whole response (the Outbound
\* handlers with the Inbound ones).
SuccessMeansAnswered ==
  by["client"] = "handler" /\ status["client"] = "ok" =>
    /\ "client" \in decoded
    /\ IsPrefixOf(<<"success", "data">>, sent["server"])
    /\ by["server"] = "handler" /\ topic = "ping" => "server" \in decoded

\* Two handlers of this program never wait for each other, and neither gives
\* up, as long as no deadline passes and the stream is not reset.
HandlersFit ==
  /\ topic # "none" /\ \A e \in Ends : by[e] = "handler"
  /\ ~ disturbed
  => /\ \A e \in Ends : status[e] \notin {"failed", "error"}
     /\ \/ \E e \in Ends : status[e] = "open" /\ Ready(e)
        \/ \A e \in Ends : status[e] = "ok"

\* No remote end can hold a handler: once the stream is open the handler
\* returns with its end of the stream closed, even if the other end neither
\* reads, writes nor closes.
HandlerReturns ==
  \A e \in Ends :
    (topic # "none" /\ by[e] = "handler") ~>
      (status[e] \in {"ok", "error"} /\ e \in rclosed \cap wclosed)
=============================================================================
