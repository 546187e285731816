---------------------------- MODULE ReqRespProofs ---------------------------
(***************************************************************************)
(* Proofs about ReqResp, for every size of the streams' buffers and        *)
(* whatever a remote end sends.                                            *)
(***************************************************************************)
EXTENDS ReqResp, TLAPS

\* A handler at its n-th operation has performed the operation op.
Done(e, t, n, op) == \E i \in 1..(n - 1) : Handler(e, t)[i] = op

\* The operation it is at.
At(e, t, n) == IF n <= Len(Handler(e, t)) THEN Handler(e, t)[n] ELSE "return"

Past(e, op) == Done(e, topic, pc[e], op)

Returned(e) == status[e] \in {"ok", "error"}

\* What a handler has written when it has got so far.
Written(e, t, n) ==
  IF Done(e, t, n, "write")
  THEN IF e = "server" THEN <<"success", "data">> ELSE <<"data">>
  ELSE IF Done(e, t, n, "writeCode") THEN <<"success">> ELSE << >>

\* How much of the response an outbound handler has read.
Taken(t, n) ==
  IF Done("client", t, n, "read") THEN 2
  ELSE IF Done("client", t, n, "readCode") THEN 1 ELSE 0

\* The state of an end is that of its handler's progress.
HandlerInv(e) ==
  /\ pc[e] <= Len(Handler(e, topic)) + 1
  /\ pc[e] = 0 => e = "client"
  /\ status[e] = "ok" => pc[e] = Len(Handler(e, topic)) + 1
  /\ Returned(e) => e \in rclosed /\ e \in wclosed
  /\ pc[e] # 0 =>
       /\ sent[e] = Written(e, topic, pc[e])
       /\ e \in rclosed => Past(e, "closeRead") \/ Returned(e)
       /\ e \in wclosed => Past(e, "closeWrite") \/ Returned(e)
       /\ Past(e, "read") => e \in decoded

\* What it has read is a success response, and what it has not read yet is in
\* its buffer, in the order in which it was sent.
ResponseInv ==
  pc["client"] # 0 =>
    LET s == sent["server"]
        b == buf["client"]
        n == Taken(topic, pc["client"])
    IN  /\ n <= Len(s)
        /\ n > 0 => s[1] = "success"
        /\ n > 1 => s[2] = "data"
        /\ status["client"] = "open" /\ "client" \notin rclosed
             /\ reset = FALSE =>
             /\ Len(s) = n + Len(b)
             /\ \A i \in 1..Len(b) : b[i] = s[n + i]

\* Between two handlers of this program the request is on its way until it is
\* read, and nothing fails.
FitInv ==
  disturbed = FALSE =>
    /\ reset = FALSE
    /\ \A e \in Ends : status[e] \in {"open", "ok"}
    /\ pc["client"] # 0
    /\ "server" \notin rclosed =>
         buf["server"] = IF Past("server", "read") THEN << >>
                                                   ELSE sent["client"]
    /\ Past("server", "read") => Past("client", "write")

\* Before there is a stream nothing has happened to it.
NoStream ==
  /\ by = [e \in Ends |-> "remote"]
  /\ pc = [e \in Ends |-> 1]
  /\ status = [e \in Ends |-> "open"]
  /\ buf = [e \in Ends |-> << >>] /\ sent = [e \in Ends |-> << >>]
  /\ rclosed = {} /\ wclosed = {} /\ decoded = {}
  /\ reset = FALSE /\ disturbed = FALSE

\* The inductive invariant.
ReqRespInv ==
  /\ TypeOK
  /\ service = "registering" => registered < Len(topics)
  /\ topic = "none" => NoStream
  /\ by["client"] = "handler" => topic \in OutboundTopics
  /\ \A e \in Ends : by[e] = "handler" => HandlerInv(e)
  /\ by["client"] = "handler" => ResponseInv
  /\ by["server"] = "handler" /\ by["client"] = "handler" => FitInv
-----------------------------------------------------------------------------
(***************************************************************************)
(* The handlers written out, and how far each is when it has performed an  *)
(* operation.                                                              *)
(***************************************************************************)

\* The handler h performs the operations of t in their order.
Spells(h, t) == Len(h) = Len(t) /\ \A i \in 1..Len(t) : h[i] = t[i]

\* The sequences that the Inbound and Outbound handlers put together.
LEMMA HandlerTables ==
  /\ Spells(InboundPingHandler,
       <<"readDeadline", "read", "closeRead", "writeDeadline", "writeCode",
         "write", "closeWrite">>)
  /\ InboundStatusHandler = InboundPingHandler
  /\ Spells(OutboundPingHandler,
       <<"writeDeadline", "write", "closeWrite", "readDeadline", "readCode",
         "read", "closeRead">>)
<1>. USE DEF Spells, readRequest, readResponse, writeRequest, writeResponse
<1>1. Spells(InboundPingHandler,
        <<"readDeadline", "read", "closeRead", "writeDeadline", "writeCode",
          "write", "closeWrite">>)
  BY DEF InboundPingHandler
<1>2. Spells(OutboundPingHandler,
        <<"writeDeadline", "write", "closeWrite", "readDeadline", "readCode",
          "read", "closeRead">>)
  BY DEF OutboundPingHandler
<1>. QED
  BY <1>1, <1>2 DEF InboundPingHandler, InboundStatusHandler

\* The topics of the streams that e may have a handler for.
Spoken(e) == IF e = "client" THEN {"ping", "metadata2"}
  ELSE {"ping", "goodbye", "status", "metadata1", "metadata2"}

\* The inbound handler of a ping or of a status request.
LEMMA ServerAnswers ==
  ASSUME NEW t \in {"ping", "status"}, NEW n \in 1..8
  PROVE  /\ Len(Handler("server", t)) = 7
         /\ ~ Done("server", t, n, "readCode")
         /\ Done("server", t, n, "read") <=> n > 2
         /\ Done("server", t, n, "closeRead") <=> n > 3
         /\ Done("server", t, n, "writeCode") <=> n > 5
         /\ Done("server", t, n, "write") <=> n > 6
         /\ Done("server", t, n, "closeWrite") <=> n > 7
         /\ At("server", t, n) # "readCode"
         /\ At("server", t, n) = "read" <=> n = 2
         /\ At("server", t, n) = "closeRead" <=> n = 3
         /\ At("server", t, n) = "writeCode" <=> n = 5
         /\ At("server", t, n) = "write" <=> n = 6
         /\ At("server", t, n) = "closeWrite" <=> n = 7
         /\ At("server", t, n) = "return" <=> n = 8
         /\ At("server", t, n) # "readAll"
<1>. DEFINE h == Handler("server", t)
<1>1. Spells(h,
        <<"readDeadline", "read", "closeRead", "writeDeadline",
          "writeCode", "write", "closeWrite">>)
  BY HandlerTables DEF Handler, mappingTopicToHandler
<1>. HIDE DEF h
<1>2. /\ Len(h) = 7
      /\ h[1] = "readDeadline"
      /\ h[2] = "read"
      /\ h[3] = "closeRead"
      /\ h[4] = "writeDeadline"
      /\ h[5] = "writeCode"
      /\ h[6] = "write"
      /\ h[7] = "closeWrite"
  BY <1>1 DEF Spells
<1>3. /\ ~ Done("server", t, n, "readCode")
      /\ Done("server", t, n, "read") <=> n > 2
      /\ Done("server", t, n, "closeRead") <=> n > 3
      /\ Done("server", t, n, "writeCode") <=> n > 5
      /\ Done("server", t, n, "write") <=> n > 6
      /\ Done("server", t, n, "closeWrite") <=> n > 7
  <2>1. \A op : Done("server", t, n, op) <=> \E i \in 1..(n - 1) : h[i] = op
    BY DEF Done, h
  <2>. QED
    BY <1>2, <2>1
<1>4. /\ At("server", t, n) # "readCode"
      /\ At("server", t, n) = "read" <=> n = 2
      /\ At("server", t, n) = "closeRead" <=> n = 3
      /\ At("server", t, n) = "writeCode" <=> n = 5
      /\ At("server", t, n) = "write" <=> n = 6
      /\ At("server", t, n) = "closeWrite" <=> n = 7
      /\ At("server", t, n) = "return" <=> n = 8
      /\ At("server", t, n) # "readAll"
  <2>1. At("server", t, n) = IF n <= Len(h) THEN h[n] ELSE "return"
    BY DEF At, h
  <2>2. CASE n = 1
    BY <1>2, <2>1, <2>2
  <2>3. CASE n = 2
    BY <1>2, <2>1, <2>3
  <2>4. CASE n = 3
    BY <1>2, <2>1, <2>4
  <2>5. CASE n = 4
    BY <1>2, <2>1, <2>5
  <2>6. CASE n = 5
    BY <1>2, <2>1, <2>6
  <2>7. CASE n = 6
    BY <1>2, <2>1, <2>7
  <2>8. CASE n = 7
    BY <1>2, <2>1, <2>8
  <2>9. CASE n = 8
    BY <1>2, <2>1, <2>9
  <2>. QED
    BY <2>2, <2>3, <2>4, <2>5, <2>6, <2>7, <2>8, <2>9
<1>. QED
  BY <1>2, <1>3, <1>4 DEF h

\* The inbound handler of a goodbye.
LEMMA ServerHears ==
  ASSUME NEW t \in {"goodbye"}, NEW n \in 1..4
  PROVE  /\ Len(Handler("server", t)) = 3
         /\ ~ Done("server", t, n, "readCode")
         /\ Done("server", t, n, "read") <=> n > 2
         /\ Done("server", t, n, "closeRead") <=> n > 3
         /\ ~ Done("server", t, n, "writeCode")
         /\ ~ Done("server", t, n, "write")
         /\ ~ Done("server", t, n, "closeWrite")
         /\ At("server", t, n) # "readCode"
         /\ At("server", t, n) = "read" <=> n = 2
         /\ At("server", t, n) = "closeRead" <=> n = 3
         /\ At("server", t, n) # "writeCode"
         /\ At("server", t, n) # "write"
         /\ At("server", t, n) # "closeWrite"
         /\ At("server", t, n) = "return" <=> n = 4
         /\ At("server", t, n) # "readAll"
<1>. DEFINE h == Handler("server", t)
<1>1. Spells(h,
        <<"readDeadline", "read", "closeRead">>)
  BY DEF Handler, mappingTopicToHandler, InboundGoodbyeHandler, readRequest,
         Spells
<1>. HIDE DEF h
<1>2. /\ Len(h) = 3
      /\ h[1] = "readDeadline"
      /\ h[2] = "read"
      /\ h[3] = "closeRead"
  BY <1>1 DEF Spells
<1>3. /\ ~ Done("server", t, n, "readCode")
      /\ Done("server", t, n, "read") <=> n > 2
      /\ Done("server", t, n, "closeRead") <=> n > 3
      /\ ~ Done("server", t, n, "writeCode")
      /\ ~ Done("server", t, n, "write")
      /\ ~ Done("server", t, n, "closeWrite")
  <2>1. \A op : Done("server", t, n, op) <=> \E i \in 1..(n - 1) : h[i] = op
    BY DEF Done, h
  <2>. QED
    BY <1>2, <2>1
<1>4. /\ At("server", t, n) # "readCode"
      /\ At("server", t, n) = "read" <=> n = 2
      /\ At("server", t, n) = "closeRead" <=> n = 3
      /\ At("server", t, n) # "writeCode"
      /\ At("server", t, n) # "write"
      /\ At("server", t, n) # "closeWrite"
      /\ At("server", t, n) = "return" <=> n = 4
      /\ At("server", t, n) # "readAll"
  <2>1. At("server", t, n) = IF n <= Len(h) THEN h[n] ELSE "return"
    BY DEF At, h
  <2>2. CASE n = 1
    BY <1>2, <2>1, <2>2
  <2>3. CASE n = 2
    BY <1>2, <2>1, <2>3
  <2>4. CASE n = 3
    BY <1>2, <2>1, <2>4
  <2>5. CASE n = 4
    BY <1>2, <2>1, <2>5
  <2>. QED
    BY <2>2, <2>3, <2>4, <2>5
<1>. QED
  BY <1>2, <1>3, <1>4 DEF h

\* The inbound handler of a metadata request.
LEMMA ServerTells ==
  ASSUME NEW t \in {"metadata1", "metadata2"}, NEW n \in 1..5
  PROVE  /\ Len(Handler("server", t)) = 4
         /\ ~ Done("server", t, n, "readCode")
         /\ ~ Done("server", t, n, "read")
         /\ ~ Done("server", t, n, "closeRead")
         /\ Done("server", t, n, "writeCode") <=> n > 2
         /\ Done("server", t, n, "write") <=> n > 3
         /\ Done("server", t, n, "closeWrite") <=> n > 4
         /\ At("server", t, n) # "readCode"
         /\ At("server", t, n) # "read"
         /\ At("server", t, n) # "closeRead"
         /\ At("server", t, n) = "writeCode" <=> n = 2
         /\ At("server", t, n) = "write" <=> n = 3
         /\ At("server", t, n) = "closeWrite" <=> n = 4
         /\ At("server", t, n) = "return" <=> n = 5
         /\ At("server", t, n) # "readAll"
<1>. DEFINE h == Handler("server", t)
<1>1. Spells(h,
        <<"writeDeadline", "writeCode", "write", "closeWrite">>)
  BY DEF Handler, mappingTopicToHandler, InboundMetadataHandler,
         writeResponse, Spells
<1>. HIDE DEF h
<1>2. /\ Len(h) = 4
      /\ h[1] = "writeDeadline"
      /\ h[2] = "writeCode"
      /\ h[3] = "write"
      /\ h[4] = "closeWrite"
  BY <1>1 DEF Spells
<1>3. /\ ~ Done("server", t, n, "readCode")
      /\ ~ Done("server", t, n, "read")
      /\ ~ Done("server", t, n, "closeRead")
      /\ Done("server", t, n, "writeCode") <=> n > 2
      /\ Done("server", t, n, "write") <=> n > 3
      /\ Done("server", t, n, "closeWrite") <=> n > 4
  <2>1. \A op : Done("server", t, n, op) <=> \E i \in 1..(n - 1) : h[i] = op
    BY DEF Done, h
  <2>. QED
    BY <1>2, <2>1
<1>4. /\ At("server", t, n) # "readCode"
      /\ At("server", t, n) # "read"
      /\ At("server", t, n) # "closeRead"
      /\ At("server", t, n) = "writeCode" <=> n = 2
      /\ At("server", t, n) = "write" <=> n = 3
      /\ At("server", t, n) = "closeWrite" <=> n = 4
      /\ At("server", t, n) = "return" <=> n = 5
      /\ At("server", t, n) # "readAll"
  <2>1. At("server", t, n) = IF n <= Len(h) THEN h[n] ELSE "return"
    BY DEF At, h
  <2>2. CASE n = 1
    BY <1>2, <2>1, <2>2
  <2>3. CASE n = 2
    BY <1>2, <2>1, <2>3
  <2>4. CASE n = 3
    BY <1>2, <2>1, <2>4
  <2>5. CASE n = 4
    BY <1>2, <2>1, <2>5
  <2>6. CASE n = 5
    BY <1>2, <2>1, <2>6
  <2>. QED
    BY <2>2, <2>3, <2>4, <2>5, <2>6
<1>. QED
  BY <1>2, <1>3, <1>4 DEF h

\* The outbound handler of a ping.
LEMMA ClientPings ==
  ASSUME NEW t \in {"ping"}, NEW n \in 1..8
  PROVE  /\ Len(Handler("client", t)) = 7
         /\ Done("client", t, n, "readCode") <=> n > 5
         /\ Done("client", t, n, "read") <=> n > 6
         /\ Done("client", t, n, "closeRead") <=> n > 7
         /\ ~ Done("client", t, n, "writeCode")
         /\ Done("client", t, n, "write") <=> n > 2
         /\ Done("client", t, n, "closeWrite") <=> n > 3
         /\ At("client", t, n) = "readCode" <=> n = 5
         /\ At("client", t, n) = "read" <=> n = 6
         /\ At("client", t, n) = "closeRead" <=> n = 7
         /\ At("client", t, n) # "writeCode"
         /\ At("client", t, n) = "write" <=> n = 2
         /\ At("client", t, n) = "closeWrite" <=> n = 3
         /\ At("client", t, n) = "return" <=> n = 8
         /\ At("client", t, n) # "readAll"
<1>. DEFINE h == Handler("client", t)
<1>1. Spells(h,
        <<"writeDeadline", "write", "closeWrite", "readDeadline",
          "readCode", "read", "closeRead">>)
  BY HandlerTables DEF Handler
<1>. HIDE DEF h
<1>2. /\ Len(h) = 7
      /\ h[1] = "writeDeadline"
      /\ h[2] = "write"
      /\ h[3] = "closeWrite"
      /\ h[4] = "readDeadline"
      /\ h[5] = "readCode"
      /\ h[6] = "read"
      /\ h[7] = "closeRead"
  BY <1>1 DEF Spells
<1>3. /\ Done("client", t, n, "readCode") <=> n > 5
      /\ Done("client", t, n, "read") <=> n > 6
      /\ Done("client", t, n, "closeRead") <=> n > 7
      /\ ~ Done("client", t, n, "writeCode")
      /\ Done("client", t, n, "write") <=> n > 2
      /\ Done("client", t, n, "closeWrite") <=> n > 3
  <2>1. \A op : Done("client", t, n, op) <=> \E i \in 1..(n - 1) : h[i] = op
    BY DEF Done, h
  <2>. QED
    BY <1>2, <2>1
<1>4. /\ At("client", t, n) = "readCode" <=> n = 5
      /\ At("client", t, n) = "read" <=> n = 6
      /\ At("client", t, n) = "closeRead" <=> n = 7
      /\ At("client", t, n) # "writeCode"
      /\ At("client", t, n) = "write" <=> n = 2
      /\ At("client", t, n) = "closeWrite" <=> n = 3
      /\ At("client", t, n) = "return" <=> n = 8
      /\ At("client", t, n) # "readAll"
  <2>1. At("client", t, n) = IF n <= Len(h) THEN h[n] ELSE "return"
    BY DEF At, h
  <2>2. CASE n = 1
    BY <1>2, <2>1, <2>2
  <2>3. CASE n = 2
    BY <1>2, <2>1, <2>3
  <2>4. CASE n = 3
    BY <1>2, <2>1, <2>4
  <2>5. CASE n = 4
    BY <1>2, <2>1, <2>5
  <2>6. CASE n = 5
    BY <1>2, <2>1, <2>6
  <2>7. CASE n = 6
    BY <1>2, <2>1, <2>7
  <2>8. CASE n = 7
    BY <1>2, <2>1, <2>8
  <2>9. CASE n = 8
    BY <1>2, <2>1, <2>9
  <2>. QED
    BY <2>2, <2>3, <2>4, <2>5, <2>6, <2>7, <2>8, <2>9
<1>. QED
  BY <1>2, <1>3, <1>4 DEF h

\* The outbound handler of a metadata request.
LEMMA ClientAsks ==
  ASSUME NEW t \in {"metadata2"}, NEW n \in 1..5
  PROVE  /\ Len(Handler("client", t)) = 4
         /\ Done("client", t, n, "readCode") <=> n > 2
         /\ Done("client", t, n, "read") <=> n > 3
         /\ Done("client", t, n, "closeRead") <=> n > 4
         /\ ~ Done("client", t, n, "writeCode")
         /\ ~ Done("client", t, n, "write")
         /\ ~ Done("client", t, n, "closeWrite")
         /\ At("client", t, n) = "readCode" <=> n = 2
         /\ At("client", t, n) = "read" <=> n = 3
         /\ At("client", t, n) = "closeRead" <=> n = 4
         /\ At("client", t, n) # "writeCode"
         /\ At("client", t, n) # "write"
         /\ At("client", t, n) # "closeWrite"
         /\ At("client", t, n) = "return" <=> n = 5
         /\ At("client", t, n) # "readAll"
<1>. DEFINE h == Handler("client", t)
<1>1. Spells(h,
        <<"readDeadline", "readCode", "read", "closeRead">>)
  BY DEF Handler, OutboundMetadataHandler, readResponse, Spells
<1>. HIDE DEF h
<1>2. /\ Len(h) = 4
      /\ h[1] = "readDeadline"
      /\ h[2] = "readCode"
      /\ h[3] = "read"
      /\ h[4] = "closeRead"
  BY <1>1 DEF Spells
<1>3. /\ Done("client", t, n, "readCode") <=> n > 2
      /\ Done("client", t, n, "read") <=> n > 3
      /\ Done("client", t, n, "closeRead") <=> n > 4
      /\ ~ Done("client", t, n, "writeCode")
      /\ ~ Done("client", t, n, "write")
      /\ ~ Done("client", t, n, "closeWrite")
  <2>1. \A op : Done("client", t, n, op) <=> \E i \in 1..(n - 1) : h[i] = op
    BY DEF Done, h
  <2>. QED
    BY <1>2, <2>1
<1>4. /\ At("client", t, n) = "readCode" <=> n = 2
      /\ At("client", t, n) = "read" <=> n = 3
      /\ At("client", t, n) = "closeRead" <=> n = 4
      /\ At("client", t, n) # "writeCode"
      /\ At("client", t, n) # "write"
      /\ At("client", t, n) # "closeWrite"
      /\ At("client", t, n) = "return" <=> n = 5
      /\ At("client", t, n) # "readAll"
  <2>1. At("client", t, n) = IF n <= Len(h) THEN h[n] ELSE "return"
    BY DEF At, h
  <2>2. CASE n = 1
    BY <1>2, <2>1, <2>2
  <2>3. CASE n = 2
    BY <1>2, <2>1, <2>3
  <2>4. CASE n = 3
    BY <1>2, <2>1, <2>4
  <2>5. CASE n = 4
    BY <1>2, <2>1, <2>5
  <2>6. CASE n = 5
    BY <1>2, <2>1, <2>6
  <2>. QED
    BY <2>2, <2>3, <2>4, <2>5, <2>6
<1>. QED
  BY <1>2, <1>3, <1>4 DEF h

\* How many operations each handler has.
LEMMA HandlerLengths ==
  /\ \A t \in {"ping", "status"} : Len(Handler("server", t)) = 7
  /\ \A t \in {"goodbye"} : Len(Handler("server", t)) = 3
  /\ \A t \in {"metadata1", "metadata2"} : Len(Handler("server", t)) = 4
  /\ \A t \in {"ping"} : Len(Handler("client", t)) = 7
  /\ \A t \in {"metadata2"} : Len(Handler("client", t)) = 4
  /\ \A e \in Ends : \A t \in Spoken(e) : Len(Handler(e, t)) \in 3..7
<1>1. 1 \in 1..8 /\ 1 \in 1..5 /\ 1 \in 1..4
  OBVIOUS
<1>2. \A t \in {"ping", "status"} : Len(Handler("server", t)) = 7
  BY <1>1, ServerAnswers
<1>3. \A t \in {"goodbye"} : Len(Handler("server", t)) = 3
  BY <1>1, ServerHears
<1>4. \A t \in {"metadata1", "metadata2"} : Len(Handler("server", t)) = 4
  BY <1>1, ServerTells
<1>5. \A t \in {"ping"} : Len(Handler("client", t)) = 7
  BY <1>1, ClientPings
<1>6. \A t \in {"metadata2"} : Len(Handler("client", t)) = 4
  BY <1>1, ClientAsks
<1>. QED
  BY <1>2, <1>3, <1>4, <1>5, <1>6 DEF Ends, Spoken

\* In which order a handler does what it does, as far as it matters here.
LEMMA Order ==
  ASSUME NEW e \in Ends, NEW t \in Spoken(e),
         NEW n \in 1..(Len(Handler(e, t)) + 1)
  PROVE  /\ At(e, t, n) = "return" <=> n = Len(Handler(e, t)) + 1
         /\ At(e, t, n) # "readAll"
         /\ At(e, t, n) = "writeCode" => e = "server"
         /\ At(e, t, n) = "readCode" => e = "client"
         /\ At(e, t, n) \in Writes => ~ Done(e, t, n, "write")
         /\ At(e, t, n) = "writeCode" => ~ Done(e, t, n, "writeCode")
         /\ At(e, t, n) = "write" =>
              (Done(e, t, n, "writeCode") <=> e = "server")
         /\ e = "client" => ~ Done(e, t, n, "writeCode")
         /\ e = "server" => ~ Done(e, t, n, "readCode")
         /\ At(e, t, n) \in Reads =>
              ~ Done(e, t, n, "read") /\ ~ Done(e, t, n, "closeRead")
         /\ At(e, t, n) = "readCode" => ~ Done(e, t, n, "readCode")
         /\ At(e, t, n) = "read" =>
              (Done(e, t, n, "readCode") <=> e = "client")
         /\ Done(e, t, n, "read") /\ e = "client" => Done(e, t, n, "readCode")
         /\ Done(e, t, n, "write") /\ e = "server" =>
              Done(e, t, n, "writeCode")
         /\ n = Len(Handler(e, t)) + 1 /\ e = "client" => Done(e, t, n, "read")
         /\ e = "server" /\ t \in {"ping", "status"} =>
              (Done(e, t, n, "writeCode") => Done(e, t, n, "read"))
         /\ e = "server" /\ t = "goodbye" => ~ Done(e, t, n, "writeCode")
         /\ e = "server" /\ t \in {"ping", "metadata2"} =>
              (Done(e, t, n, "closeWrite") \/ n = Len(Handler(e, t)) + 1
                 => Done(e, t, n, "write"))
         /\ e = "server" /\ t = "metadata2" =>
              At(e, t, n) # "read" /\ ~ Done(e, t, n, "read")
         /\ e = "client" /\ t = "ping" =>
              /\ Done(e, t, n, "closeWrite") => Done(e, t, n, "write")
              /\ At(e, t, n) \in Reads => Done(e, t, n, "write")
              /\ n = Len(Handler(e, t)) + 1 => Done(e, t, n, "write")
<1>. USE DEF Reads, Writes
<1>1. CASE e = "server" /\ t \in {"ping", "status"}
  <2>1. Len(Handler(e, t)) = 7
    BY <1>1, HandlerLengths
  <2>2. n \in 1..8 /\ Len(Handler(e, t)) + 1 = 8
    BY <2>1
  <2>3. At(e, t, n) = "return" <=> n = 8
    BY <1>1, <2>2, ServerAnswers
  <2>4. At(e, t, n) = "return" <=> n = Len(Handler(e, t)) + 1
    BY <2>2, <2>3
  <2>. QED
    BY <1>1, <2>1, <2>2, <2>4, ServerAnswers
<1>2. CASE e = "server" /\ t \in {"goodbye"}
  <2>1. Len(Handler(e, t)) = 3
    BY <1>2, HandlerLengths
  <2>2. n \in 1..4 /\ Len(Handler(e, t)) + 1 = 4
    BY <2>1
  <2>3. At(e, t, n) = "return" <=> n = 4
    BY <1>2, <2>2, ServerHears
  <2>4. At(e, t, n) = "return" <=> n = Len(Handler(e, t)) + 1
    BY <2>2, <2>3
  <2>. QED
    BY <1>2, <2>1, <2>2, <2>4, ServerHears
<1>3. CASE e = "server" /\ t \in {"metadata1", "metadata2"}
  <2>1. Len(Handler(e, t)) = 4
    BY <1>3, HandlerLengths
  <2>2. n \in 1..5 /\ Len(Handler(e, t)) + 1 = 5
    BY <2>1
  <2>3. At(e, t, n) = "return" <=> n = 5
    BY <1>3, <2>2, ServerTells
  <2>4. At(e, t, n) = "return" <=> n = Len(Handler(e, t)) + 1
    BY <2>2, <2>3
  <2>. QED
    BY <1>3, <2>1, <2>2, <2>4, ServerTells
<1>4. CASE e = "client" /\ t \in {"ping"}
  <2>1. Len(Handler(e, t)) = 7
    BY <1>4, HandlerLengths
  <2>2. n \in 1..8 /\ Len(Handler(e, t)) + 1 = 8
    BY <2>1
  <2>3. At(e, t, n) = "return" <=> n = 8
    BY <1>4, <2>2, ClientPings
  <2>4. At(e, t, n) = "return" <=> n = Len(Handler(e, t)) + 1
    BY <2>2, <2>3
  <2>. QED
    BY <1>4, <2>1, <2>2, <2>4, ClientPings
<1>5. CASE e = "client" /\ t \in {"metadata2"}
  <2>1. Len(Handler(e, t)) = 4
    BY <1>5, HandlerLengths
  <2>2. n \in 1..5 /\ Len(Handler(e, t)) + 1 = 5
    BY <2>1
  <2>3. At(e, t, n) = "return" <=> n = 5
    BY <1>5, <2>2, ClientAsks
  <2>4. At(e, t, n) = "return" <=> n = Len(Handler(e, t)) + 1
    BY <2>2, <2>3
  <2>. QED
    BY <1>5, <2>1, <2>2, <2>4, ClientAsks
<1>. QED
  BY <1>1, <1>2, <1>3, <1>4, <1>5, Zenon DEF Ends, Spoken

\* The topic of a stream.
LEMMA TopicOfStream ==
  ASSUME TypeOK, topic # "none"
  PROVE  topic \in {"ping", "goodbye", "status", "metadata1", "metadata2"}
<1>1. Len(topics) = 5
  BY DEF topics
<1>2. PICK i \in 1..5 : topic = topics[i]
  BY <1>1 DEF TypeOK
<1>. QED
  BY <1>2 DEF topics

\* What appending to what was sent makes of it.
LEMMA Appended ==
  /\ Append(<< >>, "success") = <<"success">>
  /\ Append(<< >>, "data") = <<"data">>
  /\ Append(<<"success">>, "data") = <<"success", "data">>
<1>1. Append(<< >>, "success") = <<"success">>
  OBVIOUS
<1>2. Append(<< >>, "data") = <<"data">>
  OBVIOUS
<1>3. Append(<<"success">>, "data") = <<"success", "data">>
  <2>. DEFINE a == Append(<<"success">>, "data")
              b == <<"success", "data">>
  <2>1. a \in Seq(Items) /\ b \in Seq(Items) /\ Len(a) = 2 /\ Len(b) = 2
    BY DEF Items
  <2>2. a[1] = b[1] /\ a[2] = b[2]
    OBVIOUS
  <2>. HIDE DEF a, b
  <2>3. a = b
    BY <2>1, <2>2
  <2>. QED
    BY <2>3 DEF a, b
<1>. QED
  BY <1>1, <1>2, <1>3

\* One operation further.
LEMMA DoneNext ==
  ASSUME NEW e \in Ends, NEW t \in Spoken(e),
         NEW n \in 1..Len(Handler(e, t))
  PROVE  \A op : Done(e, t, n + 1, op) <=>
                   Done(e, t, n, op) \/ op = At(e, t, n)
<1>2. n \in Nat /\ (n + 1) - 1 = n /\ 1..n = 1..(n - 1) \cup {n}
  OBVIOUS
<1>3. At(e, t, n) = Handler(e, t)[n]
  BY DEF At
<1>. QED
  BY <1>2, <1>3 DEF Done

\* A first operation has nothing before it.
LEMMA DoneFirst ==
  ASSUME NEW e \in Ends, NEW t
  PROVE  /\ \A op : ~ Done(e, t, 1, op)
         /\ Written(e, t, 1) = << >>
         /\ Taken(t, 1) = 0
<1>1. \A x : \A op : ~ Done(x, t, 1, op)
  BY DEF Done
<1>. QED
  BY <1>1 DEF Written, Taken

\* A write adds what it writes to what was written, and nothing else does.
LEMMA WrittenNext ==
  ASSUME NEW e \in Ends, NEW t \in Spoken(e),
         NEW n \in 1..Len(Handler(e, t))
  PROVE  Written(e, t, n + 1) =
           IF At(e, t, n) \in Writes
           THEN Append(Written(e, t, n),
                  IF At(e, t, n) = "writeCode" THEN "success" ELSE "data")
           ELSE Written(e, t, n)
<1>1. n \in 1..(Len(Handler(e, t)) + 1)
  OBVIOUS
<1>. DEFINE op == At(e, t, n)
<1>2. /\ op \in Writes => ~ Done(e, t, n, "write")
      /\ op = "writeCode" => ~ Done(e, t, n, "writeCode") /\ e = "server"
      /\ op = "write" => (Done(e, t, n, "writeCode") <=> e = "server")
  BY <1>1, Order
<1>3. \A x : Done(e, t, n + 1, x) <=> Done(e, t, n, x) \/ x = op
  BY DoneNext
<1>. HIDE DEF op
<1>4. CASE op = "writeCode"
  BY <1>2, <1>3, <1>4, Appended DEF Written, Writes, op
<1>5. CASE op = "write"
  BY <1>2, <1>3, <1>5, Appended, Zenon DEF Written, Writes, op
<1>6. CASE op \notin Writes
  BY <1>3, <1>6 DEF Written, Writes, op
<1>. QED
  BY <1>4, <1>5, <1>6 DEF Writes

\* A read takes one thing more, and nothing else does.
LEMMA TakenNext ==
  ASSUME NEW t \in Spoken("client"),
         NEW n \in 1..Len(Handler("client", t))
  PROVE  LET op == At("client", t, n)
         IN  /\ op = "readCode" => Taken(t, n) = 0 /\ Taken(t, n + 1) = 1
             /\ op = "read" => Taken(t, n) = 1 /\ Taken(t, n + 1) = 2
             /\ op \notin Reads => Taken(t, n + 1) = Taken(t, n)
<1>1. n \in 1..(Len(Handler("client", t)) + 1) /\ "client" \in Ends
  BY DEF Ends
<1>. DEFINE op == At("client", t, n)
<1>2. /\ op \in Reads => ~ Done("client", t, n, "read")
      /\ op = "readCode" => ~ Done("client", t, n, "readCode")
      /\ op = "read" => Done("client", t, n, "readCode")
  BY <1>1, Order DEF Reads
<1>3. \A x : Done("client", t, n + 1, x) <=>
               Done("client", t, n, x) \/ x = op
  BY <1>1, DoneNext
<1>. HIDE DEF op
<1>. QED
  BY <1>2, <1>3 DEF Taken, Reads, op

\* Beginnings of a success response.
LEMMA Beginnings ==
  /\ IsPrefixOf(<< >>, <<"success", "data">>)
  /\ IsPrefixOf(<<"success">>, <<"success", "data">>)
  /\ IsPrefixOf(<<"success", "data">>, <<"success", "data">>)
  BY DEF IsPrefixOf
-----------------------------------------------------------------------------
(***************************************************************************)
(* The invariant is kept by every step.                                    *)
(***************************************************************************)

\* The position of a handler that is not reading the text of an error.
LEMMA Position ==
  ASSUME ReqRespInv, NEW e \in Ends, by[e] = "handler", pc[e] # 0
  PROVE  /\ topic \in Spoken(e) /\ topic # "none"
         /\ pc[e] \in 1..(Len(Handler(e, topic)) + 1)
         /\ Len(Handler(e, topic)) \in 3..7
         /\ Op(e) = At(e, topic, pc[e])
<1>1. topic # "none" /\ TypeOK /\ HandlerInv(e)
  BY DEF ReqRespInv, NoStream
<1>2. topic \in Spoken(e)
  BY <1>1, TopicOfStream DEF ReqRespInv, OutboundTopics, Spoken
<1>3. Len(Handler(e, topic)) \in 3..7
  BY <1>2, HandlerLengths
<1>4. pc[e] \in 0..8
  BY <1>1 DEF TypeOK
<1>5. pc[e] <= Len(Handler(e, topic)) + 1
  BY <1>1 DEF HandlerInv
<1>6. pc[e] \in 1..(Len(Handler(e, topic)) + 1)
  BY <1>3, <1>4, <1>5
<1>7. Op(e) = At(e, topic, pc[e])
  BY DEF Op, At
<1>. QED
  BY <1>1, <1>2, <1>3, <1>6, <1>7

\* A handler of this program knows what it reads, only an outbound one reads
\* a code, and a handler writes its message once.
LEMMA Operations ==
  ASSUME ReqRespInv, NEW e \in Ends, by[e] = "handler", pc[e] # 0
  PROVE  /\ Op(e) # "readAll"
         /\ Op(e) = "readCode" => e = "client"
         /\ Op(e) \in Writes => ~ Past(e, "write")
<1>1. /\ topic \in Spoken(e)
      /\ pc[e] \in 1..(Len(Handler(e, topic)) + 1)
      /\ Op(e) = At(e, topic, pc[e])
  BY Position
<1>. DEFINE o == At(e, topic, pc[e])
<1>2. /\ o # "readAll"
      /\ o = "readCode" => e = "client"
      /\ o \in Writes => ~ Done(e, topic, pc[e], "write")
  BY <1>1, Order
<1>. QED
  BY <1>1, <1>2 DEF Past

\* Short of the end.
LEMMA Within ==
  ASSUME NEW L \in 3..7, NEW n \in 1..(L + 1), n # L + 1
  PROVE  n \in 1..L /\ n \in 1..7
  OBVIOUS

\* A handler that goes on is within its operations.
LEMMA GoesOn ==
  ASSUME ReqRespInv, NEW e \in Ends, by[e] = "handler", pc[e] # 0,
         Op(e) # "return"
  PROVE  pc[e] \in 1..Len(Handler(e, topic)) /\ pc[e] \in 1..7
<1>1. pc[e] # Len(Handler(e, topic)) + 1
  BY Position, Order
<1>2. /\ pc[e] \in 1..(Len(Handler(e, topic)) + 1)
      /\ Len(Handler(e, topic)) \in 3..7
  BY Position
<1>. QED
  BY <1>1, <1>2, Within, Zenon

\* What is sent keeps the buffers within their size.
LEMMA SendType ==
  ASSUME TypeOK, NEW e \in Ends, NEW item \in Items, Send(e, item),
         Len(buf[Other(e)]) < Window \/ Other(e) \in rclosed
  PROVE  /\ buf' \in [Ends -> Seq(Items)]
         /\ \A x \in Ends : Len(buf'[x]) <= Window
         /\ sent' \in [Ends -> Seq(Items)]
         /\ rclosed' \subseteq Ends /\ wclosed' \subseteq Ends
<1>1. Other(e) \in Ends
  BY DEF Ends, Other
<1>2. /\ Append(sent[e], item) \in Seq(Items)
      /\ Append(buf[Other(e)], item) \in Seq(Items)
      /\ Len(buf[Other(e)]) < Window =>
           Len(Append(buf[Other(e)], item)) <= Window
  BY <1>1, ReqRespAssumption DEF TypeOK
<1>. QED
  BY <1>1, <1>2 DEF Send, TypeOK

\* An operation of a handler is one of these.
LEMMA OperationCases ==
  ASSUME TypeOK, NEW e \in Ends, Operation(e)
  PROVE  /\ topic # "none" /\ by[e] = "handler" /\ status[e] = "open"
         /\ UNCHANGED <<service, registered, topic, by, reset>>
         /\ \/ Broken(e) /\ reset = TRUE /\ UNCHANGED disturbed
            \/ TimeOut(e) /\ reset = FALSE
            \/ /\ \/ SetDeadline(e) \/ Decode(e) \/ ReadCode(e) \/ ReadAll(e)
                  \/ Eof(e) \/ Write(e) \/ CloseHalf(e)
               /\ UNCHANGED disturbed /\ reset = FALSE
<1>1. reset = TRUE \/ reset = FALSE
  BY DEF TypeOK
<1>. QED
  BY <1>1 DEF Operation, Running, serveVars, Broken, history

\* What a step of an end does to the types.
LEMMA OperationType ==
  ASSUME ReqRespInv, NEW e \in Ends, Operation(e)
  PROVE  TypeOK'
<1>. USE DEF Ends, Items
<1>1. TypeOK /\ by[e] = "handler" /\ Other(e) \in Ends
  BY DEF ReqRespInv, Operation, Running, Other
<1>2. /\ pc[e] = 0 => Op(e) = "readAll"
      /\ pc[e] # 0 /\ Op(e) # "return" => pc[e] + 1 \in 0..8
  <2>1. pc[e] # 0 /\ Op(e) # "return" => pc[e] \in 1..7
    BY <1>1, GoesOn
  <2>2. pc[e] \in 1..7 => pc[e] + 1 \in 0..8
    OBVIOUS
  <2>. QED
    BY <2>1, <2>2 DEF Op
<1>3. /\ buf[e] # << >> => /\ Tail(buf[e]) \in Seq(Items)
                           /\ Len(Tail(buf[e])) <= Window
      /\ << >> \in Seq(Items) /\ Len(<< >>) <= Window
  BY <1>1, ReqRespAssumption DEF TypeOK
<1>4. /\ UNCHANGED <<service, registered, topic, by, reset>>
      /\ service \in {"registering", "serving", "returned"}
      /\ registered \in 0..Len(topics)
      /\ topic \in {"none"} \cup {topics[i] : i \in 1..Len(topics)}
      /\ by \in [Ends -> {"handler", "remote"}]
      /\ reset \in BOOLEAN
  BY <1>1, OperationCases, Zenon DEF TypeOK
<1>5. /\ pc' \in [Ends -> 0..8]
      /\ status' \in [Ends -> {"open", "failed", "ok", "error"}]
      /\ armed' \in [Ends -> SUBSET {"readDeadline", "writeDeadline"}]
      /\ decoded' \subseteq Ends /\ disturbed' \in BOOLEAN
  <2>. USE DEF TypeOK, Advance, Fail
  <2>1. CASE Broken(e) /\ UNCHANGED disturbed
    BY <1>1, <2>1 DEF Broken, history
  <2>2. CASE TimeOut(e)
    BY <1>1, <2>2 DEF TimeOut
  <2>3. CASE Eof(e) /\ UNCHANGED disturbed
    BY <1>1, <2>3 DEF Eof
  <2>4. CASE SetDeadline(e) /\ UNCHANGED disturbed
    BY <1>1, <1>2, <2>4 DEF SetDeadline
  <2>5. CASE Decode(e) /\ UNCHANGED disturbed
    <3>1. CASE Head(buf[e]) = "data"
      <4>1. pc[e] + 1 \in 0..8
        BY <1>2, <2>5 DEF Decode
      <4>2. pc' = [pc EXCEPT ![e] = @ + 1] /\ status' = status
        BY <2>5, <3>1 DEF Decode
      <4>3. decoded' = decoded \cup {e} /\ armed' = armed
        BY <2>5, <3>1 DEF Decode
      <4>. QED
        BY <1>1, <2>5, <4>1, <4>2, <4>3
    <3>2. CASE Head(buf[e]) # "data"
      BY <1>1, <2>5, <3>2, ZenonT(30) DEF Decode
    <3>. QED
      BY <3>1, <3>2
  <2>6. CASE ReadCode(e) /\ UNCHANGED disturbed
    <3>1. 0 \in 0..8
      OBVIOUS
    <3>. QED
      BY <1>1, <1>2, <2>6, <3>1 DEF ReadCode
  <2>7. CASE ReadAll(e) /\ UNCHANGED disturbed
    BY <1>1, <2>7 DEF ReadAll
  <2>8. CASE Write(e) /\ UNCHANGED disturbed
    BY <1>1, <1>2, <2>8 DEF Write, Writes
  <2>9. CASE CloseHalf(e) /\ UNCHANGED disturbed
    BY <1>1, <1>2, <2>9 DEF CloseHalf
  <2>. QED
    BY <1>1, <2>1, <2>2, <2>3, <2>4, <2>5, <2>6, <2>7, <2>8, <2>9,
       OperationCases, Zenon
<1>6. /\ buf' \in [Ends -> Seq(Items)]
      /\ \A x \in Ends : Len(buf'[x]) <= Window
      /\ sent' \in [Ends -> Seq(Items)]
      /\ rclosed' \subseteq Ends /\ wclosed' \subseteq Ends
  <2>1. CASE UNCHANGED wire
    BY <1>1, <2>1 DEF wire, TypeOK
  <2>2. CASE Receive(e) /\ buf[e] # << >>
    BY <1>1, <1>3, <2>2 DEF Receive, TypeOK
  <2>3. CASE Write(e)
    <3>1. Len(buf[Other(e)]) < Window \/ Other(e) \in rclosed
      BY <2>3 DEF Write, Ready, Reads, Writes
    <3>. DEFINE item == IF Op(e) = "writeCode" THEN "success" ELSE "data"
    <3>2. item \in Items /\ Send(e, item)
      BY <2>3 DEF Write
    <3>. HIDE DEF item
    <3>. QED
      BY <1>1, <3>1, <3>2, SendType
  <2>4. CASE CloseRead(e)
    BY <1>1, <1>3, <2>4 DEF CloseRead, TypeOK
  <2>5. CASE CloseWrite(e)
    BY <1>1, <2>5 DEF CloseWrite, TypeOK
  <2>6. \/ UNCHANGED wire
        \/ Receive(e) /\ buf[e] # << >>
        \/ Write(e)
        \/ CloseRead(e)
        \/ CloseWrite(e)
    <3>1. Broken(e) \/ TimeOut(e) \/ Eof(e) \/ SetDeadline(e)
            => UNCHANGED wire
      BY DEF Broken, TimeOut, Eof, SetDeadline
    <3>2. Decode(e) \/ ReadCode(e) \/ ReadAll(e)
            => Receive(e) /\ buf[e] # << >>
      BY DEF Decode, ReadCode, ReadAll
    <3>3. CloseHalf(e) => CloseRead(e) \/ CloseWrite(e)
      BY DEF CloseHalf
    <3>4. \/ Broken(e) \/ TimeOut(e) \/ SetDeadline(e) \/ Decode(e)
          \/ ReadCode(e) \/ ReadAll(e) \/ Eof(e) \/ Write(e) \/ CloseHalf(e)
      BY <1>1, OperationCases, Zenon
    <3>. QED
      BY <3>1, <3>2, <3>3, <3>4
  <2>. QED
    BY <2>1, <2>2, <2>3, <2>4, <2>5, <2>6
<1>. QED
  BY <1>4, <1>5, <1>6 DEF TypeOK

\* What the other steps do to the types.
LEMMA OtherTypes ==
  ASSUME ReqRespInv,
         \/ Register
         \/ ServeReturns
         \/ \E t \in {topics[i] : i \in 1..Len(topics)} :
              \E who \in [Ends -> {"handler", "remote"}] : NewStream(t, who)
         \/ \E e \in Ends : Close(e)
         \/ \E e \in Ends : RemoteStep(e)
         \/ Reset
  PROVE  TypeOK'
<1>1. TypeOK
  BY DEF ReqRespInv
<1>. USE DEF serveVars, wire, history
<1>2. << >> \in Seq(Items) /\ Len(<< >>) <= Window
  BY ReqRespAssumption
<1>3. CASE Register
  <2>1. registered + 1 \in 0..Len(topics)
    BY <1>1, <1>3 DEF Register, ReqRespInv, TypeOK, topics
  <2>. QED
    BY <1>1, <1>3, <2>1 DEF Register, TypeOK
<1>4. CASE ServeReturns
  BY <1>1, <1>4 DEF ServeReturns, TypeOK
<1>5. CASE \E t \in {topics[i] : i \in 1..Len(topics)} :
             \E who \in [Ends -> {"handler", "remote"}] : NewStream(t, who)
  BY <1>1, <1>5 DEF NewStream, TypeOK
<1>6. ASSUME NEW e \in Ends, Close(e)
      PROVE  TypeOK'
  <2>1. /\ buf' \in [Ends -> Seq(Items)]
        /\ \A x \in Ends : Len(buf'[x]) <= Window
        /\ status' \in [Ends -> {"open", "failed", "ok", "error"}]
        /\ rclosed' \subseteq Ends /\ wclosed' \subseteq Ends
    BY <1>1, <1>2, <1>6, Zenon DEF Close, TypeOK
  <2>. QED
    BY <1>1, <1>6, <2>1 DEF Close, TypeOK
<1>7. ASSUME NEW e \in Ends, RemoteStep(e)
      PROVE  TypeOK'
  <2>. DEFINE Wire == /\ buf' \in [Ends -> Seq(Items)]
                      /\ \A x \in Ends : Len(buf'[x]) <= Window
                      /\ sent' \in [Ends -> Seq(Items)]
                      /\ rclosed' \subseteq Ends /\ wclosed' \subseteq Ends
  <2>1. ASSUME NEW item \in Items, Send(e, item),
               Len(buf[Other(e)]) < Window \/ Other(e) \in rclosed
        PROVE  Wire
    BY <1>1, <2>1, SendType
  <2>2. ASSUME Receive(e), buf[e] # << >>
        PROVE  Wire
    <3>1. Tail(buf[e]) \in Seq(Items) /\ Len(Tail(buf[e])) <= Window
      BY <1>1, <2>2, ReqRespAssumption DEF TypeOK
    <3>. QED
      BY <1>1, <2>2, <3>1 DEF Receive, TypeOK
  <2>3. ASSUME CloseWrite(e)
        PROVE  Wire
    BY <1>1, <2>3 DEF CloseWrite, TypeOK
  <2>4. ASSUME CloseRead(e)
        PROVE  Wire
    BY <1>1, <1>2, <2>4 DEF CloseRead, TypeOK
  <2>5. Wire
    BY <1>7, <2>1, <2>2, <2>3, <2>4, Zenon DEF RemoteStep
  <2>. QED
    BY <1>1, <1>7, <2>5 DEF RemoteStep, TypeOK
<1>8. CASE Reset
  BY <1>1, <1>2, <1>8 DEF Reset, TypeOK
<1>. QED
  BY <1>3, <1>4, <1>5, <1>6, <1>7, <1>8

\* A step that leaves a handler and its end of the stream alone, except that
\* it may have decoded more, keeps what is known of that handler.
LEMMA HandlerFrame ==
  ASSUME NEW e \in Ends, HandlerInv(e),
         topic' = topic, pc'[e] = pc[e], status'[e] = status[e],
         sent'[e] = sent[e], e \in rclosed' <=> e \in rclosed,
         e \in wclosed' <=> e \in wclosed, decoded \subseteq decoded'
  PROVE  HandlerInv(e)'
  BY DEF HandlerInv, Returned, Past

\* So does an operation that fails.
LEMMA HandlerFails ==
  ASSUME NEW e \in Ends, HandlerInv(e), status[e] = "open",
         topic' = topic, pc'[e] = pc[e], status'[e] = "failed",
         sent'[e] = sent[e], e \in rclosed' <=> e \in rclosed,
         e \in wclosed' <=> e \in wclosed, decoded \subseteq decoded'
  PROVE  HandlerInv(e)'
  BY DEF HandlerInv, Returned, Past

\* So does the deferred Close.
LEMMA HandlerCloses ==
  ASSUME ReqRespInv, NEW e \in Ends, Close(e)
  PROVE  HandlerInv(e)'
<1>1. HandlerInv(e) /\ TypeOK /\ by[e] = "handler"
  BY DEF ReqRespInv, Close
<1>2. pc[e] = 0 => Op(e) # "return"
  BY DEF Op
<1>3. Op(e) = "return" => pc[e] = Len(Handler(e, topic)) + 1
  BY <1>1, <1>2, Position, Order
<1>. QED
  BY <1>1, <1>2, <1>3
     DEF HandlerInv, Returned, Past, Close, TypeOK, history

\* And an operation that succeeds, if it has written what it is to write,
\* closed what it is to close and decoded what it is to read.
LEMMA HandlerAdvances ==
  ASSUME ReqRespInv, NEW e \in Ends, by[e] = "handler", pc[e] # 0,
         status[e] = "open", Op(e) # "return",
         topic' = topic, pc'[e] = pc[e] + 1, status'[e] = status[e],
         sent'[e] = IF Op(e) \in Writes
                    THEN Append(sent[e], IF Op(e) = "writeCode"
                                         THEN "success" ELSE "data")
                    ELSE sent[e],
         e \in rclosed' => e \in rclosed \/ Op(e) = "closeRead",
         e \in wclosed' => e \in wclosed \/ Op(e) = "closeWrite",
         decoded \subseteq decoded', Op(e) = "read" => e \in decoded'
  PROVE  HandlerInv(e)'
<1>1. HandlerInv(e)
  BY DEF ReqRespInv
<1>2. /\ topic \in Spoken(e) /\ pc[e] \in 1..Len(Handler(e, topic))
      /\ Op(e) = At(e, topic, pc[e])
  BY Position, GoesOn
<1>3. /\ pc[e] + 1 <= Len(Handler(e, topic)) + 1
      /\ pc[e] + 1 # 0
  BY <1>2
<1>4. \A op : Past(e, op)' <=> Past(e, op) \/ op = Op(e)
  BY <1>2, DoneNext DEF Past
<1>5. sent'[e] = Written(e, topic', pc'[e])
  BY <1>1, <1>2, WrittenNext DEF HandlerInv
<1>. QED
  BY <1>1, <1>3, <1>4, <1>5 DEF HandlerInv, Returned

\* Every operation keeps what is known of its own handler.
LEMMA OwnHandler ==
  ASSUME ReqRespInv, NEW e \in Ends, Operation(e)
  PROVE  HandlerInv(e)'
<1>1. TypeOK
  BY DEF ReqRespInv
<1>2. /\ by[e] = "handler" /\ status[e] = "open"
      /\ topic' = topic
      /\ \/ Broken(e) \/ TimeOut(e) \/ SetDeadline(e) \/ Decode(e)
         \/ ReadCode(e) \/ ReadAll(e) \/ Eof(e) \/ Write(e) \/ CloseHalf(e)
  BY <1>1, OperationCases, Zenon
<1>3. HandlerInv(e)
  BY <1>2 DEF ReqRespInv
<1>4. Op(e) # "readAll" <=> pc[e] # 0
  <2>1. pc[e] = 0 => Op(e) = "readAll"
    BY DEF Op
  <2>2. pc[e] # 0 => Op(e) # "readAll"
    BY <1>2, Position, Order
  <2>. QED
    BY <2>1, <2>2
<1>. USE DEF wire, history, Fail, Advance, Receive
<1>5. CASE Broken(e) \/ TimeOut(e) \/ Eof(e)
  <2>1. /\ pc'[e] = pc[e] /\ status'[e] = "failed" /\ sent'[e] = sent[e]
        /\ rclosed' = rclosed /\ wclosed' = wclosed /\ decoded' = decoded
    BY <1>1, <1>5 DEF Broken, TimeOut, Eof, TypeOK
  <2>. QED
    BY <1>2, <1>3, <2>1, HandlerFails, Zenon
<1>6. CASE SetDeadline(e)
  <2>1. /\ pc'[e] = pc[e] + 1 /\ status'[e] = status[e]
        /\ sent'[e] = sent[e] /\ rclosed' = rclosed /\ wclosed' = wclosed
        /\ decoded' = decoded
        /\ Op(e) \in {"readDeadline", "writeDeadline"}
    BY <1>1, <1>6 DEF SetDeadline, TypeOK
  <2>. QED
    BY <1>2, <1>4, <2>1, HandlerAdvances, Zenon DEF Writes
<1>7. CASE Decode(e)
  <2>1. /\ sent'[e] = sent[e] /\ rclosed' = rclosed /\ wclosed' = wclosed
        /\ Op(e) = "read"
    BY <1>1, <1>7 DEF Decode, TypeOK
  <2>2. CASE Head(buf[e]) = "data"
    <3>1. /\ pc'[e] = pc[e] + 1 /\ status'[e] = status[e]
          /\ decoded' = decoded \cup {e}
      BY <1>1, <1>7, <2>2 DEF Decode, TypeOK
    <3>. QED
      BY <1>2, <1>4, <2>1, <3>1, HandlerAdvances DEF Writes
  <2>3. CASE Head(buf[e]) # "data"
    <3>1. pc'[e] = pc[e] /\ status'[e] = "failed" /\ decoded' = decoded
      BY <1>1, <1>7, <2>3 DEF Decode, TypeOK
    <3>. QED
      BY <1>2, <1>3, <2>1, <3>1, HandlerFails
  <2>. QED
    BY <2>2, <2>3
<1>8. CASE ReadCode(e)
  <2>1. /\ sent'[e] = sent[e] /\ rclosed' = rclosed /\ wclosed' = wclosed
        /\ status' = status /\ decoded' = decoded /\ Op(e) = "readCode"
    BY <1>1, <1>8 DEF ReadCode, TypeOK
  <2>2. CASE Head(buf[e]) = "success"
    <3>1. pc'[e] = pc[e] + 1
      BY <1>1, <1>8, <2>2 DEF ReadCode, TypeOK
    <3>. QED
      BY <1>2, <1>4, <2>1, <3>1, HandlerAdvances DEF Writes
  <2>3. CASE Head(buf[e]) # "success"
    <3>1. pc'[e] = 0
      BY <1>1, <1>8, <2>3 DEF ReadCode, TypeOK
    <3>2. e = "client" /\ topic \in Spoken(e)
      BY <1>2, <1>4, <2>1, Position, Operations, Zenon
    <3>3. Len(Handler(e, topic)) \in 3..7
      BY <3>2, HandlerLengths
    <3>4. pc'[e] <= Len(Handler(e, topic)) + 1
      BY <3>1, <3>3
    <3>. QED
      BY <1>2, <2>1, <3>1, <3>2, <3>4 DEF HandlerInv, Returned
  <2>. QED
    BY <2>2, <2>3
<1>9. CASE ReadAll(e)
  <2>1. /\ pc' = pc /\ status' = status /\ sent' = sent
        /\ rclosed' = rclosed /\ wclosed' = wclosed /\ decoded' = decoded
    BY <1>9 DEF ReadAll
  <2>. QED
    BY <1>2, <1>3, <2>1, HandlerFrame, Zenon
<1>10. CASE Write(e)
  <2>1. /\ pc'[e] = pc[e] + 1 /\ status'[e] = status[e]
        /\ rclosed' = rclosed /\ wclosed' = wclosed /\ decoded' = decoded
        /\ Op(e) \in Writes
    BY <1>1, <1>10 DEF Write, Send, TypeOK
  <2>2. sent'[e] = Append(sent[e], IF Op(e) = "writeCode"
                                   THEN "success" ELSE "data")
    BY <1>1, <1>10 DEF Write, Send, TypeOK
  <2>3. Op(e) \notin {"readAll", "return", "read", "closeRead", "closeWrite"}
    BY <2>1 DEF Writes
  <2>. QED
    BY <1>2, <1>4, <2>1, <2>2, <2>3, HandlerAdvances, Zenon
<1>11. CASE CloseHalf(e)
  <2>1. /\ pc'[e] = pc[e] + 1 /\ status'[e] = status[e]
        /\ sent'[e] = sent[e] /\ decoded' = decoded
        /\ Op(e) \in {"closeRead", "closeWrite"}
        /\ e \in rclosed' => e \in rclosed \/ Op(e) = "closeRead"
        /\ e \in wclosed' => e \in wclosed \/ Op(e) = "closeWrite"
    BY <1>1, <1>11 DEF CloseHalf, CloseRead, CloseWrite, TypeOK
  <2>. QED
    BY <1>2, <1>4, <2>1, HandlerAdvances DEF Writes
<1>. QED
  BY <1>2, <1>5, <1>6, <1>7, <1>8, <1>9, <1>10, <1>11

\* Every operation keeps what is known of both ends' handlers.
LEMMA OperationHandlers ==
  ASSUME ReqRespInv, NEW e \in Ends, Operation(e),
         NEW x \in Ends, by[x] = "handler"
  PROVE  HandlerInv(x)'
<1>1. TypeOK /\ HandlerInv(x)
  BY DEF ReqRespInv
<1>2. /\ by[e] = "handler" /\ status[e] = "open"
      /\ topic' = topic
      /\ \/ Broken(e) \/ TimeOut(e) \/ SetDeadline(e) \/ Decode(e)
         \/ ReadCode(e) \/ ReadAll(e) \/ Eof(e) \/ Write(e) \/ CloseHalf(e)
  BY <1>1, OperationCases, Zenon
<1>. USE DEF wire, history, Fail, Advance, Receive
<1>3. CASE x # e
  <2>1. /\ pc'[x] = pc[x] /\ status'[x] = status[x] /\ sent'[x] = sent[x]
        /\ x \in rclosed' <=> x \in rclosed
        /\ x \in wclosed' <=> x \in wclosed
        /\ decoded \subseteq decoded'
    <3>1. CASE Broken(e) \/ TimeOut(e) \/ Eof(e) \/ SetDeadline(e)
      BY <1>1, <1>3, <3>1 DEF Broken, TimeOut, Eof, SetDeadline, TypeOK
    <3>2. CASE Decode(e)
      BY <1>1, <1>3, <3>2 DEF Decode, TypeOK
    <3>3. CASE ReadCode(e) \/ ReadAll(e)
      BY <1>1, <1>3, <3>3 DEF ReadCode, ReadAll, TypeOK
    <3>4. CASE Write(e)
      BY <1>1, <1>3, <3>4 DEF Write, Send, TypeOK
    <3>5. CASE CloseHalf(e)
      BY <1>1, <1>3, <3>5 DEF CloseHalf, CloseRead, CloseWrite, TypeOK
    <3>. QED
      BY <1>2, <3>1, <3>2, <3>3, <3>4, <3>5, Zenon
  <2>. QED
    BY <1>1, <1>2, <2>1, HandlerFrame, Zenon
<1>4. CASE x = e
  <2>1. HandlerInv(e)'
    BY OwnHandler
  <2>. QED
    BY <1>4, <2>1 DEF HandlerInv, Returned, Past
<1>. QED
  BY <1>3, <1>4

\* A step that takes nothing from the channel to the client and puts nothing
\* into it keeps what is known of the response.
LEMMA ResponseFrame ==
  ASSUME ResponseInv, pc'["client"] # 0 => pc["client"] # 0,
         pc'["client"] # 0 => Taken(topic', pc'["client"])
                                = Taken(topic, pc["client"]),
         sent'["server"] = sent["server"],
         status'["client"] = "open" /\ "client" \notin rclosed'
           /\ reset' = FALSE =>
           /\ status["client"] = "open" /\ "client" \notin rclosed
           /\ reset = FALSE /\ buf'["client"] = buf["client"]
  PROVE  ResponseInv'
  BY DEF ResponseInv

\* Arithmetic of the two lemmas below.
LEMMA LastOrNot ==
  ASSUME NEW k \in Nat, NEW i \in 1..(k + 1)
  PROVE  i = k + 1 \/ i \in 1..k
  OBVIOUS

\* Likewise.
LEMMA OneLess ==
  ASSUME NEW n \in {0, 1}, NEW k \in Nat, k > 0
  PROVE  n + 1 <= n + k /\ n + k = (n + 1) + (k - 1)
  OBVIOUS

\* Something more is sent to the client.
LEMMA ResponseSent ==
  ASSUME TypeOK, ResponseInv, NEW item \in Items, Send("server", item),
         UNCHANGED <<topic, reset>>, pc'["client"] = pc["client"],
         status'["client"] = status["client"]
  PROVE  ResponseInv'
<1>. DEFINE s == sent["server"]
            b == buf["client"]
            n == Taken(topic, pc["client"])
<1>1. s \in Seq(Items) /\ b \in Seq(Items) /\ n \in 0..2
  BY DEF TypeOK, Ends, Taken
<1>2. /\ sent'["server"] = Append(s, item)
      /\ "client" \notin rclosed => buf'["client"] = Append(b, item)
      /\ rclosed' = rclosed
  BY DEF Send, Other, TypeOK, Ends
<1>. HIDE DEF s, b, n
<1>3. /\ Len(Append(s, item)) = Len(s) + 1
      /\ \A i \in 1..Len(s) : Append(s, item)[i] = s[i]
      /\ Append(s, item)[Len(s) + 1] = item
      /\ Len(Append(b, item)) = Len(b) + 1
      /\ \A i \in 1..Len(b) : Append(b, item)[i] = b[i]
      /\ Append(b, item)[Len(b) + 1] = item
  BY <1>1
<1>4. ASSUME pc["client"] # 0
      PROVE  /\ n <= Len(s) + 1
             /\ n > 0 => Append(s, item)[1] = "success"
             /\ n > 1 => Append(s, item)[2] = "data"
  <2>1. /\ n <= Len(s) /\ Len(s) \in Nat
        /\ n > 0 => s[1] = "success"
        /\ n > 1 => s[2] = "data"
    BY <1>1, <1>4 DEF ResponseInv, s, n
  <2>2. (n > 0 => 1 \in 1..Len(s)) /\ (n > 1 => 2 \in 1..Len(s))
    BY <1>1, <2>1
  <2>3. n <= Len(s) + 1
    BY <1>1, <2>1
  <2>. QED
    BY <1>3, <2>1, <2>2, <2>3
<1>5. ASSUME pc["client"] # 0, Len(s) = n + Len(b),
             \A i \in 1..Len(b) : b[i] = s[n + i]
      PROVE  /\ Len(Append(s, item)) = n + Len(Append(b, item))
             /\ \A i \in 1..Len(Append(b, item)) :
                  Append(b, item)[i] = Append(s, item)[n + i]
  <2>1. Len(b) \in Nat /\ Len(s) \in Nat
    BY <1>1
  <2>2. Len(Append(s, item)) = n + Len(Append(b, item))
    BY <1>1, <1>3, <1>5, <2>1
  <2>3. ASSUME NEW i \in 1..(Len(b) + 1)
        PROVE  Append(b, item)[i] = Append(s, item)[n + i]
    <3>1. CASE i = Len(b) + 1
      <4>1. n + i = Len(s) + 1
        BY <1>1, <1>5, <2>1, <3>1
      <4>. QED
        BY <1>3, <3>1, <4>1
    <3>2. CASE i \in 1..Len(b)
      <4>1. n + i \in 1..Len(s)
        BY <1>1, <1>5, <2>1, <3>2
      <4>. QED
        BY <1>3, <1>5, <3>2, <4>1
    <3>. QED
      BY <2>1, <3>1, <3>2, LastOrNot, Zenon
  <2>. QED
    BY <1>3, <2>2, <2>3, Zenon
<1>6. Len(sent'["server"]) = Len(s) + 1
  BY <1>2, <1>3
<1>. QED
  BY <1>2, <1>4, <1>5, <1>6, Zenon DEF ResponseInv, s, b, n

\* The client reads what is next.
LEMMA ResponseTaken ==
  ASSUME TypeOK, ResponseInv, pc["client"] # 0, status["client"] = "open",
         "client" \notin rclosed, reset = FALSE, buf["client"] # << >>,
         sent'["server"] = sent["server"],
         buf'["client"] = Tail(buf["client"]),
         NEW n \in {0, 1}, Taken(topic, pc["client"]) = n,
         Taken(topic', pc'["client"]) = n + 1,
         Head(buf["client"]) = IF n = 0 THEN "success" ELSE "data"
  PROVE  ResponseInv'
<1>. DEFINE s == sent["server"]
            b == buf["client"]
<1>1. s \in Seq(Items) /\ b \in Seq(Items) /\ b # << >>
  BY DEF TypeOK, Ends
<1>2. /\ Len(s) = n + Len(b)
      /\ \A i \in 1..Len(b) : b[i] = s[n + i]
      /\ n > 0 => s[1] = "success"
  BY DEF ResponseInv
<1>. HIDE DEF s, b
<1>3. /\ Len(b) \in Nat /\ Len(b) > 0 /\ Head(b) = b[1]
      /\ Len(Tail(b)) = Len(b) - 1
      /\ \A i \in 1..(Len(b) - 1) : Tail(b)[i] = b[i + 1]
  BY <1>1
<1>4. Head(b) = s[n + 1]
  BY <1>2, <1>3
<1>5. n + 1 <= Len(s) /\ Len(s) = (n + 1) + Len(Tail(b))
  BY <1>2, <1>3, OneLess, Zenon
<1>6. ASSUME NEW i \in 1..Len(Tail(b))
      PROVE  Tail(b)[i] = s[(n + 1) + i]
  <2>1. i \in 1..(Len(b) - 1) /\ i + 1 \in 1..Len(b)
    BY <1>3
  <2>2. n + (i + 1) = (n + 1) + i
    BY <2>1
  <2>. QED
    BY <1>2, <1>3, <2>1, <2>2
<1>7. s[1] = "success" /\ (n + 1 > 1 => s[2] = "data")
  <2>1. CASE n = 0
    BY <1>4, <2>1 DEF b
  <2>2. CASE n = 1
    BY <1>2, <1>4, <2>2 DEF b
  <2>. QED
    BY <2>1, <2>2
<1>. QED
  BY <1>5, <1>6, <1>7, Zenon DEF ResponseInv, s, b

\* A handler that is at a read has its reading open.
LEMMA ReadsOpen ==
  ASSUME ReqRespInv, NEW e \in Ends, by[e] = "handler", status[e] = "open",
         pc[e] # 0, Op(e) \in Reads
  PROVE  e \notin rclosed
<1>1. HandlerInv(e)
  BY DEF ReqRespInv
<1>2. ~ Past(e, "closeRead")
  BY Position, Order DEF Past
<1>. QED
  BY <1>1, <1>2 DEF HandlerInv, Returned

\* Every operation of the client keeps what is known of the response.
LEMMA ClientResponse ==
  ASSUME ReqRespInv, Operation("client")
  PROVE  ResponseInv'
<1>1. TypeOK /\ "client" \in Ends
  BY DEF ReqRespInv, Ends
<1>2. /\ by["client"] = "handler" /\ status["client"] = "open"
      /\ UNCHANGED <<topic, reset>>
      /\ \/ Broken("client") \/ TimeOut("client") \/ Eof("client")
         \/ SetDeadline("client") \/ Write("client") \/ CloseHalf("client")
         \/ ReadAll("client")
         \/ Decode("client") /\ reset = FALSE
         \/ ReadCode("client") /\ reset = FALSE
  BY <1>1, OperationCases, Zenon
<1>3. ResponseInv
  BY <1>2 DEF ReqRespInv
<1>. USE DEF wire, history, Fail, Advance, Receive
<1>4. ASSUME pc["client"] # 0, Op("client") # "return"
      PROVE  LET t == Taken(topic, pc["client"])
                 u == Taken(topic, pc["client"] + 1)
             IN  /\ Op("client") = "readCode" => t = 0 /\ u = 1
                 /\ Op("client") = "read" => t = 1 /\ u = 2
                 /\ Op("client") \notin Reads => u = t
  <2>1. /\ topic \in Spoken("client")
        /\ pc["client"] \in 1..Len(Handler("client", topic))
        /\ Op("client") = At("client", topic, pc["client"])
    BY <1>1, <1>2, <1>4, Position, GoesOn
  <2>. QED
    BY <2>1, TakenNext
<1>5. Op("client") # "readAll" => pc["client"] # 0
  BY DEF Op
<1>6. CASE Broken("client") \/ TimeOut("client") \/ Eof("client")
  <2>1. /\ pc' = pc /\ sent' = sent /\ status'["client"] = "failed"
    BY <1>1, <1>6 DEF Broken, TimeOut, Eof, TypeOK
  <2>. QED
    BY <1>2, <1>3, <2>1, ResponseFrame
<1>7. CASE SetDeadline("client") \/ Write("client") \/ CloseHalf("client")
  <2>1. /\ pc["client"] # 0 /\ Op("client") # "return"
        /\ Op("client") \notin Reads
    BY <1>5, <1>7 DEF SetDeadline, Write, CloseHalf, Reads, Writes
  <2>2. /\ pc'["client"] = pc["client"] + 1 /\ status' = status
        /\ sent'["server"] = sent["server"]
        /\ "client" \notin rclosed' => "client" \notin rclosed
        /\ "client" \notin rclosed' => buf'["client"] = buf["client"]
    <3>1. CASE SetDeadline("client")
      BY <1>1, <3>1 DEF SetDeadline, TypeOK
    <3>2. CASE Write("client")
      BY <1>1, <3>2 DEF Write, Send, Other, TypeOK
    <3>3. CASE CloseHalf("client")
      BY <1>1, <3>3 DEF CloseHalf, CloseRead, CloseWrite, TypeOK
    <3>. QED
      BY <1>7, <3>1, <3>2, <3>3
  <2>3. Taken(topic, pc'["client"]) = Taken(topic, pc["client"])
    BY <1>4, <2>1, <2>2
  <2>. QED
    BY <1>2, <1>3, <2>1, <2>2, <2>3, ResponseFrame, Zenon
<1>8. CASE ReadAll("client")
  <2>1. pc["client"] = 0
    BY <1>1, <1>2, <1>8, Operations DEF ReadAll
  <2>. QED
    BY <1>8, <2>1 DEF ReadAll, ResponseInv
<1>9. ASSUME Decode("client") \/ ReadCode("client")
      PROVE  /\ pc["client"] # 0 /\ Op("client") # "return"
             /\ "client" \notin rclosed
             /\ buf["client"] # << >> /\ sent' = sent
             /\ buf'["client"] = Tail(buf["client"])
  <2>1. Op("client") \in {"read", "readCode"}
    BY <1>9 DEF Decode, ReadCode
  <2>2. "client" \notin rclosed
    BY <1>1, <1>2, <1>5, <2>1, ReadsOpen DEF Reads
  <2>. QED
    BY <1>1, <1>5, <1>9, <2>1, <2>2 DEF Decode, ReadCode, TypeOK
<1>10. CASE Decode("client") /\ reset = FALSE
  <2>1. CASE Head(buf["client"]) = "data"
    <3>1. pc'["client"] = pc["client"] + 1 /\ Op("client") = "read"
      BY <1>1, <1>10, <2>1 DEF Decode, TypeOK
    <3>2. /\ Taken(topic, pc["client"]) = 1
          /\ Taken(topic', pc'["client"]) = 1 + 1
      <4>1. pc["client"] # 0 /\ Op("client") # "return"
        BY <1>9, <1>10
      <4>. QED
        BY <1>2, <1>4, <3>1, <4>1
    <3>3. /\ 1 \in {0, 1}
          /\ Head(buf["client"]) = IF 1 = 0 THEN "success" ELSE "data"
      BY <2>1
    <3>. QED
      BY <1>1, <1>2, <1>3, <1>9, <1>10, <3>2, <3>3, ResponseTaken, Zenon
  <2>2. CASE Head(buf["client"]) # "data"
    <3>1. pc' = pc /\ sent' = sent /\ status'["client"] = "failed"
      BY <1>1, <1>10, <2>2 DEF Decode, TypeOK
    <3>. QED
      BY <1>2, <1>3, <3>1, ResponseFrame
  <2>. QED
    BY <2>1, <2>2
<1>11. CASE ReadCode("client") /\ reset = FALSE
  <2>1. CASE Head(buf["client"]) = "success"
    <3>1. pc'["client"] = pc["client"] + 1 /\ Op("client") = "readCode"
      BY <1>1, <1>11, <2>1 DEF ReadCode, TypeOK
    <3>2. /\ Taken(topic, pc["client"]) = 0
          /\ Taken(topic', pc'["client"]) = 0 + 1
      BY <1>2, <1>4, <1>9, <1>11, <3>1
    <3>3. /\ 0 \in {0, 1}
          /\ Head(buf["client"]) = IF 0 = 0 THEN "success" ELSE "data"
      BY <2>1
    <3>. QED
      BY <1>1, <1>2, <1>3, <1>9, <1>11, <3>2, <3>3, ResponseTaken, Zenon
  <2>2. CASE Head(buf["client"]) # "success"
    BY <1>1, <1>11, <2>2 DEF ReadCode, ResponseInv, TypeOK
  <2>. QED
    BY <2>1, <2>2
<1>. QED
  BY <1>2, <1>6, <1>7, <1>8, <1>10, <1>11, Zenon

\* Every operation keeps what is known of the response.
LEMMA OperationResponse ==
  ASSUME ReqRespInv, NEW e \in Ends, Operation(e), by["client"] = "handler"
  PROVE  ResponseInv'
<1>1. TypeOK /\ ResponseInv /\ "client" \in Ends
  BY DEF ReqRespInv, Ends
<1>2. /\ by[e] = "handler" /\ status[e] = "open"
      /\ UNCHANGED <<topic, reset>>
      /\ \/ Broken(e) \/ TimeOut(e) \/ SetDeadline(e) \/ Decode(e)
         \/ ReadCode(e) \/ ReadAll(e) \/ Eof(e) \/ Write(e) \/ CloseHalf(e)
      /\ reset = FALSE \/ Broken(e)
  BY <1>1, OperationCases, Zenon
<1>. USE DEF wire, history, Fail, Advance, Receive
<1>3. CASE e = "server"
  <2>1. pc'["client"] = pc["client"] /\ status'["client"] = status["client"]
    <3>1. CASE Broken(e) \/ TimeOut(e) \/ Eof(e) \/ SetDeadline(e)
      BY <1>1, <1>3, <3>1 DEF Broken, TimeOut, Eof, SetDeadline, TypeOK
    <3>2. CASE Decode(e)
      BY <1>1, <1>3, <3>2 DEF Decode, TypeOK
    <3>3. CASE ReadCode(e) \/ ReadAll(e)
      BY <1>1, <1>3, <3>3 DEF ReadCode, ReadAll, TypeOK
    <3>4. CASE Write(e) \/ CloseHalf(e)
      BY <1>1, <1>3, <3>4 DEF Write, CloseHalf, TypeOK
    <3>. QED
      BY <1>2, <3>1, <3>2, <3>3, <3>4
  <2>2. CASE Write(e)
    <3>. DEFINE item == IF Op(e) = "writeCode" THEN "success" ELSE "data"
    <3>1. item \in Items /\ Send("server", item)
      BY <1>3, <2>2 DEF Write, Items, Send
    <3>. HIDE DEF item
    <3>. QED
      BY <1>1, <1>2, <2>1, <3>1, ResponseSent
  <2>3. CASE ~ Write(e)
    <3>1. /\ sent'["server"] = sent["server"]
          /\ buf'["client"] = buf["client"]
          /\ "client" \in rclosed' <=> "client" \in rclosed
      <4>1. CASE Broken(e) \/ TimeOut(e) \/ Eof(e) \/ SetDeadline(e)
        BY <4>1 DEF Broken, TimeOut, Eof, SetDeadline
      <4>2. CASE Decode(e) \/ ReadCode(e) \/ ReadAll(e)
        BY <1>1, <1>3, <4>2 DEF Decode, ReadCode, ReadAll, TypeOK
      <4>3. CASE CloseHalf(e)
        BY <1>1, <1>3, <4>3 DEF CloseHalf, CloseRead, CloseWrite, TypeOK
      <4>. QED
        BY <1>2, <2>3, <4>1, <4>2, <4>3
    <3>. QED
      BY <1>1, <1>2, <2>1, <3>1, ResponseFrame, Zenon
  <2>. QED
    BY <2>2, <2>3
<1>4. CASE e = "client"
  <2>1. by["client"] = "handler" /\ status["client"] = "open"
    BY <1>2, <1>4
  <2>2. Operation("client")
    BY <1>4
  <2>. QED
    BY <2>2, ClientResponse
<1>. QED
  BY <1>3, <1>4 DEF Ends
-----------------------------------------------------------------------------
(***************************************************************************)
(* Two handlers of this program at the ends of an undisturbed stream.      *)
(***************************************************************************)
Undisturbed ==
  ReqRespInv /\ by["server"] = "handler" /\ by["client"] = "handler"
    /\ disturbed = FALSE

\* How far both are.
LEMMA Fits ==
  ASSUME Undisturbed
  PROVE  /\ reset = FALSE
         /\ \A e \in Ends : status[e] \in {"open", "ok"}
         /\ \A e \in Ends : pc[e] # 0 /\ HandlerInv(e)
         /\ topic \in {"ping", "metadata2"}
         /\ "server" \notin rclosed =>
              buf["server"] = IF Past("server", "read") THEN << >>
                                                        ELSE sent["client"]
         /\ Past("server", "read") => Past("client", "write")
<1>1. FitInv /\ \A e \in Ends : HandlerInv(e)
  BY DEF Undisturbed, ReqRespInv, Ends
<1>2. pc["client"] # 0 /\ pc["server"] # 0
  BY <1>1 DEF FitInv, HandlerInv, Ends, Undisturbed
<1>3. topic \in {"ping", "metadata2"}
  BY DEF Undisturbed, ReqRespInv, OutboundTopics
<1>. QED
  BY <1>1, <1>2, <1>3 DEF FitInv, Undisturbed, Ends

\* What each has sent.
LEMMA FitsSent ==
  ASSUME Undisturbed
  PROVE  /\ sent["client"] = IF Past("client", "write")
                             THEN <<"data">> ELSE << >>
         /\ sent["server"] \in {<< >>, <<"success">>, <<"success", "data">>}
         /\ "client" \in wclosed /\ topic = "ping" => Past("client", "write")
         /\ "server" \in wclosed => sent["server"] = <<"success", "data">>
<1>1. "client" \in Ends /\ "server" \in Ends
  BY DEF Ends
<1>2. /\ ReqRespInv /\ \A e \in Ends : by[e] = "handler" /\ pc[e] # 0
      /\ \A e \in Ends : HandlerInv(e)
      /\ \A e \in Ends : status[e] \in {"open", "ok"}
      /\ topic \in {"ping", "metadata2"}
  BY Fits, Zenon DEF Undisturbed, Ends
<1>3. \A e \in Ends : /\ topic \in Spoken(e)
                      /\ pc[e] \in 1..(Len(Handler(e, topic)) + 1)
  BY <1>2, Position
<1>4. ~ Done("client", topic, pc["client"], "writeCode")
  BY <1>1, <1>3, Order
<1>5. sent["client"] = IF Past("client", "write") THEN <<"data">> ELSE << >>
  BY <1>1, <1>2, <1>4 DEF HandlerInv, Written, Past
<1>6. sent["server"] = Written("server", topic, pc["server"])
  BY <1>1, <1>2 DEF HandlerInv
<1>7. ASSUME "client" \in wclosed, topic = "ping"
      PROVE  Past("client", "write")
  <2>1. \/ Done("client", topic, pc["client"], "closeWrite")
        \/ pc["client"] = Len(Handler("client", topic)) + 1
    BY <1>1, <1>2, <1>7 DEF HandlerInv, Returned, Past
  <2>. QED
    BY <1>1, <1>3, <1>7, <2>1, Order DEF Past
<1>8. ASSUME "server" \in wclosed
      PROVE  sent["server"] = <<"success", "data">>
  <2>1. \/ Done("server", topic, pc["server"], "closeWrite")
        \/ pc["server"] = Len(Handler("server", topic)) + 1
    BY <1>1, <1>2, <1>8 DEF HandlerInv, Returned, Past
  <2>2. Done("server", topic, pc["server"], "write")
    BY <1>1, <1>2, <1>3, <2>1, Order
  <2>. QED
    BY <1>6, <2>2 DEF Written
<1>. QED
  BY <1>5, <1>6, <1>7, <1>8 DEF Written

\* A server's handler that reads finds the request, or waits for a client
\* that has not closed.
LEMMA ServerReads ==
  ASSUME Undisturbed, status["server"] = "open", Op("server") \in Reads
  PROVE  /\ topic = "ping" /\ Op("server") = "read"
         /\ ~ Past("server", "read") /\ "server" \notin rclosed
         /\ buf["server"] = sent["client"]
         /\ buf["server"] # << >> => buf["server"] = <<"data">>
         /\ buf["server"] = << >> => ~ Past("client", "write")
         /\ buf["server"] = << >> => "client" \notin wclosed
<1>1. /\ "server" \in Ends /\ ReqRespInv /\ pc["server"] # 0
      /\ by["server"] = "handler" /\ topic \in {"ping", "metadata2"}
  BY Fits, Zenon DEF Undisturbed, Ends
<1>2. "server" \notin rclosed
  BY <1>1, ReadsOpen
<1>3. /\ topic \in Spoken("server")
      /\ pc["server"] \in 1..(Len(Handler("server", topic)) + 1)
      /\ Op("server") = At("server", topic, pc["server"])
  BY <1>1, Position
<1>4. /\ topic = "ping" /\ Op("server") = "read"
      /\ ~ Past("server", "read")
  BY <1>1, <1>3, Order DEF Reads, Past
<1>5. buf["server"] = sent["client"]
  BY <1>2, <1>4, Fits
<1>. QED
  BY <1>2, <1>4, <1>5, FitsSent

\* A client's handler that reads finds what it expects, or waits for a server
\* that has not closed, which has the request or can read it.
LEMMA ClientReads ==
  ASSUME Undisturbed, status["client"] = "open", Op("client") \in Reads
  PROVE  /\ Op("client") \in {"readCode", "read"}
         /\ topic = "ping" => Past("client", "write")
         /\ buf["client"] # << >> =>
              Head(buf["client"]) =
                IF Op("client") = "readCode" THEN "success" ELSE "data"
         /\ buf["client"] = << >> => "server" \notin wclosed
<1>1. /\ "client" \in Ends /\ "server" \in Ends /\ ReqRespInv
      /\ by["client"] = "handler" /\ pc["client"] # 0
      /\ TypeOK /\ ResponseInv /\ reset = FALSE
  BY Fits, Zenon DEF Undisturbed, Ends, ReqRespInv
<1>2. "client" \notin rclosed
  BY <1>1, ReadsOpen
<1>3. /\ topic \in Spoken("client")
      /\ pc["client"] \in 1..(Len(Handler("client", topic)) + 1)
      /\ Op("client") = At("client", topic, pc["client"])
  BY <1>1, Position
<1>4. /\ Op("client") \in {"readCode", "read"}
      /\ topic = "ping" => Past("client", "write")
  BY <1>1, <1>3, Order DEF Reads, Past
<1>5. pc["client"] \in 1..Len(Handler("client", topic))
  BY <1>1, <1>4, GoesOn
<1>6. Taken(topic, pc["client"]) = IF Op("client") = "readCode" THEN 0 ELSE 1
  BY <1>3, <1>4, <1>5, TakenNext
<1>. DEFINE s == sent["server"]
            b == buf["client"]
            n == Taken(topic, pc["client"])
<1>7. /\ Len(s) = n + Len(b)
      /\ \A i \in 1..Len(b) : b[i] = s[n + i]
  BY <1>1, <1>2 DEF ResponseInv
<1>8. s \in {<< >>, <<"success">>, <<"success", "data">>} /\ b \in Seq(Items)
  BY <1>1, FitsSent DEF TypeOK
<1>9. ASSUME b # << >>
      PROVE  Head(b) = IF n = 0 THEN "success" ELSE "data"
  <2>. HIDE DEF s, b, n
  <2>1. Len(b) \in Nat /\ Len(b) > 0 /\ Head(b) = b[1]
    BY <1>8, <1>9
  <2>2. n \in {0, 1}
    BY <1>6 DEF n
  <2>3. Head(b) = s[n + 1] /\ Len(s) >= n + 1
    BY <1>7, <2>1, <2>2
  <2>. QED
    BY <1>8, <2>2, <2>3
<1>10. ASSUME b = << >>
       PROVE  "server" \notin wclosed
  <2>. HIDE DEF s, b, n
  <2>1. Len(b) = 0 /\ n \in {0, 1}
    BY <1>6, <1>10 DEF n
  <2>2. Len(s) # 2
    BY <1>7, <2>1
  <2>3. Len(<<"success", "data">>) = 2
    OBVIOUS
  <2>. QED
    BY <2>2, <2>3, FitsSent DEF s
<1>. QED
  BY <1>4, <1>6, <1>9, <1>10

\* Which operations the handler performs on an undisturbed stream: none of
\* them fails.
LEMMA FitsOperation ==
  ASSUME Undisturbed, NEW e \in Ends, Operation(e), disturbed' = FALSE
  PROVE  /\ status[e] = "open" /\ UNCHANGED <<topic, by, reset>>
         /\ \/ SetDeadline(e)
            \/ Decode(e) /\ Head(buf[e]) = "data"
            \/ ReadCode(e) /\ Head(buf[e]) = "success" /\ e = "client"
            \/ Write(e)
            \/ CloseHalf(e)
<1>1. /\ TypeOK /\ ReqRespInv /\ reset = FALSE
      /\ pc[e] # 0 /\ by[e] = "handler"
  BY Fits, Zenon DEF Undisturbed, ReqRespInv, Ends
<1>2. status[e] = "open" /\ UNCHANGED <<topic, by, reset>>
  BY <1>1, OperationCases, Zenon
<1>3. ~ TimeOut(e)
  BY DEF TimeOut
<1>4. \/ SetDeadline(e) \/ Decode(e) \/ ReadCode(e) \/ ReadAll(e)
      \/ Eof(e) \/ Write(e) \/ CloseHalf(e)
  BY <1>1, <1>3, OperationCases, Zenon
<1>5. Op(e) # "readAll" /\ (Op(e) = "readCode" => e = "client")
  BY <1>1, Operations
<1>6. ~ ReadAll(e)
  BY <1>5 DEF ReadAll
<1>7. ~ Eof(e)
  <2>1. CASE e = "server"
    BY <1>2, <2>1, ServerReads DEF Eof, Other
  <2>2. CASE e = "client"
    BY <1>2, <2>2, ClientReads DEF Eof, Other
  <2>. QED
    BY <2>1, <2>2 DEF Ends
<1>8. Decode(e) => Head(buf[e]) = "data"
  <2>1. CASE e = "server"
    <3>1. Head(<<"data">>) = "data"
      OBVIOUS
    <3>. QED
      BY <1>2, <2>1, <3>1, ServerReads DEF Decode, Reads
  <2>2. CASE e = "client"
    BY <1>2, <2>2, ClientReads DEF Decode, Reads
  <2>. QED
    BY <2>1, <2>2 DEF Ends
<1>9. ReadCode(e) => Head(buf[e]) = "success" /\ e = "client"
  <2>1. ReadCode(e) => e = "client"
    BY <1>5 DEF ReadCode
  <2>2. CASE e = "client"
    BY <1>2, <2>2, ClientReads DEF ReadCode, Reads
  <2>. QED
    BY <2>1, <2>2
<1>. QED
  BY <1>2, <1>4, <1>6, <1>7, <1>8, <1>9

\* What such an operation does to what both have done.
LEMMA FitsPast ==
  ASSUME Undisturbed, NEW e \in Ends, Operation(e), disturbed' = FALSE
  PROVE  /\ pc' = [pc EXCEPT ![e] = @ + 1] /\ status' = status
         /\ pc'[e] # 0
         /\ \A op : Past(e, op)' <=> Past(e, op) \/ op = Op(e)
         /\ \A x \in Ends \ {e} : \A op : Past(x, op)' <=> Past(x, op)
<1>1. /\ TypeOK /\ ReqRespInv /\ pc[e] # 0 /\ by[e] = "handler"
  BY Fits, Zenon DEF Undisturbed, ReqRespInv, Ends
<1>2. pc' = [pc EXCEPT ![e] = @ + 1] /\ status' = status /\ topic' = topic
  <2>. USE DEF Advance
  <2>1. CASE SetDeadline(e)
    BY <2>1, FitsOperation, Zenon DEF SetDeadline
  <2>2. CASE Decode(e) /\ Head(buf[e]) = "data"
    BY <2>2, FitsOperation, Zenon DEF Decode
  <2>3. CASE ReadCode(e) /\ Head(buf[e]) = "success"
    BY <2>3, FitsOperation, Zenon DEF ReadCode
  <2>4. CASE Write(e) \/ CloseHalf(e)
    BY <2>4, FitsOperation, Zenon DEF Write, CloseHalf
  <2>. QED
    BY <2>1, <2>2, <2>3, <2>4, FitsOperation, Zenon
<1>3. Op(e) # "return"
  BY FitsOperation, Zenon
  DEF SetDeadline, Decode, ReadCode, Write, CloseHalf, Writes
<1>4. /\ topic \in Spoken(e) /\ pc[e] \in 1..Len(Handler(e, topic))
      /\ Op(e) = At(e, topic, pc[e])
  BY <1>1, <1>3, Position, GoesOn
<1>5. pc'[e] = pc[e] + 1 /\ \A x \in Ends \ {e} : pc'[x] = pc[x]
  BY <1>1, <1>2 DEF TypeOK
<1>6. pc[e] + 1 # 0
  BY <1>4
<1>7. \A op : Past(e, op)' <=> Past(e, op) \/ op = Op(e)
  BY <1>2, <1>4, <1>5, DoneNext DEF Past
<1>8. \A x \in Ends \ {e} : \A op : Past(x, op)' <=> Past(x, op)
  BY <1>2, <1>5 DEF Past
<1>. QED
  BY <1>2, <1>5, <1>6, <1>7, <1>8

\* What the server's operation does to the request.
LEMMA ServerFit ==
  ASSUME Undisturbed, Operation("server"), disturbed' = FALSE
  PROVE  /\ "server" \notin rclosed' =>
              buf'["server"] = IF Past("server", "read")' THEN << >>
                                                          ELSE sent'["client"]
         /\ Past("server", "read")' => Past("client", "write")'
<1>1. TypeOK /\ "client" \in Ends /\ "server" \in Ends
  BY DEF Undisturbed, ReqRespInv, Ends
<1>2. /\ Past("server", "read")' <=>
           Past("server", "read") \/ Op("server") = "read"
      /\ Past("client", "write")' <=> Past("client", "write")
  BY <1>1, FitsPast, Zenon DEF Ends
<1>3. /\ "server" \notin rclosed =>
           buf["server"] = IF Past("server", "read") THEN << >>
                                                     ELSE sent["client"]
      /\ Past("server", "read") => Past("client", "write")
  BY Fits
<1>. USE DEF wire, Receive
<1>4. CASE Decode("server") /\ Head(buf["server"]) = "data"
  <2>1. /\ Op("server") = "read" /\ buf["server"] # << >>
        /\ rclosed' = rclosed /\ sent' = sent
        /\ buf'["server"] = Tail(buf["server"])
    BY <1>1, <1>4 DEF Decode, TypeOK
  <2>2. buf["server"] = <<"data">> /\ buf["server"] = sent["client"]
    BY <1>1, <2>1, FitsOperation, ServerReads, Zenon DEF Reads
  <2>3. Tail(<<"data">>) = << >> /\ <<"data">> # << >>
    OBVIOUS
  <2>4. Past("client", "write")
    BY <2>2, <2>3, FitsSent
  <2>. QED
    BY <1>2, <2>1, <2>2, <2>3, <2>4
<1>5. CASE SetDeadline("server") \/ Write("server") \/ CloseHalf("server")
  <2>1. /\ Op("server") # "read" /\ sent'["client"] = sent["client"]
        /\ "server" \notin rclosed' =>
             "server" \notin rclosed /\ buf'["server"] = buf["server"]
    <3>1. CASE SetDeadline("server")
      BY <1>1, <3>1 DEF SetDeadline
    <3>2. CASE Write("server")
      BY <1>1, <3>2 DEF Write, Send, Other, TypeOK, Writes
    <3>3. CASE CloseHalf("server")
      BY <1>1, <3>3 DEF CloseHalf, CloseRead, CloseWrite, TypeOK
    <3>. QED
      BY <1>5, <3>1, <3>2, <3>3
  <2>. QED
    BY <1>2, <1>3, <2>1
<1>. QED
  BY <1>1, <1>4, <1>5, FitsOperation, Zenon

\* What the client's operation does to the request.
LEMMA ClientFit ==
  ASSUME Undisturbed, Operation("client"), disturbed' = FALSE
  PROVE  /\ "server" \notin rclosed' =>
              buf'["server"] = IF Past("server", "read")' THEN << >>
                                                          ELSE sent'["client"]
         /\ Past("server", "read")' => Past("client", "write")'
<1>1. TypeOK /\ "client" \in Ends /\ "server" \in Ends
  BY DEF Undisturbed, ReqRespInv, Ends
<1>2. /\ Past("server", "read")' <=> Past("server", "read")
      /\ Past("client", "write") => Past("client", "write")'
  BY <1>1, FitsPast, Zenon DEF Ends
<1>3. /\ "server" \notin rclosed =>
           buf["server"] = IF Past("server", "read") THEN << >>
                                                     ELSE sent["client"]
      /\ Past("server", "read") => Past("client", "write")
  BY Fits
<1>. USE DEF wire, Receive
<1>4. CASE Write("client")
  <2>1. ~ Past("client", "write")
    <3>1. /\ ReqRespInv /\ pc["client"] # 0 /\ by["client"] = "handler"
      BY <1>1, Fits, Zenon DEF Undisturbed
    <3>2. Op("client") \in Writes
      BY <1>4 DEF Write
    <3>. QED
      BY <1>1, <3>1, <3>2, Operations
  <2>2. "server" \notin rclosed => buf["server"] = sent["client"]
    BY <1>3, <2>1
  <2>3. /\ rclosed' = rclosed
        /\ "server" \notin rclosed /\ buf["server"] = sent["client"] =>
             buf'["server"] = sent'["client"]
    BY <1>1, <1>4 DEF Write, Send, Other, TypeOK
  <2>. QED
    BY <1>2, <1>3, <2>1, <2>2, <2>3
<1>5. CASE \/ SetDeadline("client") \/ CloseHalf("client")
           \/ Decode("client") \/ ReadCode("client")
  <2>1. /\ sent' = sent
        /\ "server" \notin rclosed' =>
             "server" \notin rclosed /\ buf'["server"] = buf["server"]
    <3>1. CASE SetDeadline("client")
      BY <1>1, <3>1 DEF SetDeadline
    <3>2. CASE Decode("client") \/ ReadCode("client")
      BY <1>1, <3>2 DEF Decode, ReadCode, TypeOK
    <3>3. CASE CloseHalf("client")
      BY <1>1, <3>3 DEF CloseHalf, CloseRead, CloseWrite, TypeOK
    <3>. QED
      BY <1>5, <3>1, <3>2, <3>3
  <2>. QED
    BY <1>2, <1>3, <2>1
<1>. QED
  BY <1>1, <1>4, <1>5, FitsOperation, Zenon

\* An operation keeps two handlers fit for each other.
LEMMA OperationFit ==
  ASSUME ReqRespInv, by["server"] = "handler", by["client"] = "handler",
         NEW e \in Ends, Operation(e)
  PROVE  FitInv'
<1>. SUFFICES ASSUME disturbed' = FALSE
              PROVE  FitInv'
  BY Zenon DEF FitInv
<1>1. TypeOK /\ "client" \in Ends /\ "server" \in Ends
  BY DEF ReqRespInv, Ends
<1>2. Undisturbed
  <2>1. disturbed = FALSE
    BY <1>1, OperationCases, Zenon DEF TimeOut
  <2>. QED
    BY <2>1 DEF Undisturbed
<1>. DEFINE BufferFits ==
       "server" \notin rclosed' =>
         buf'["server"] = IF Past("server", "read")' THEN << >>
                                                     ELSE sent'["client"]
            InTurn == Past("server", "read")' => Past("client", "write")'
<1>3. /\ reset' = FALSE
      /\ \A x \in Ends : status'[x] \in {"open", "ok"}
      /\ pc'["client"] # 0
  <2>1. reset' = FALSE /\ \A x \in Ends : status'[x] \in {"open", "ok"}
    BY <1>2, Fits, FitsOperation, FitsPast, Zenon
  <2>2. pc'["client"] # 0
    BY <1>1, <1>2, Fits, FitsPast, Zenon DEF TypeOK
  <2>. QED
    BY <2>1, <2>2
<1>4. BufferFits /\ InTurn
  <2>1. CASE e = "server"
    BY <1>2, <2>1, ServerFit, Zenon
  <2>2. CASE e = "client"
    BY <1>2, <2>2, ClientFit, Zenon
  <2>. QED
    BY <2>1, <2>2 DEF Ends
<1>. QED
  BY <1>3, <1>4 DEF FitInv

\* All but the types, which every kind of step keeps by a lemma of its own.
Streams ==
  /\ service = "registering" => registered < Len(topics)
  /\ topic = "none" => NoStream
  /\ by["client"] = "handler" => topic \in OutboundTopics
  /\ \A e \in Ends : by[e] = "handler" => HandlerInv(e)
  /\ by["client"] = "handler" => ResponseInv
  /\ by["server"] = "handler" /\ by["client"] = "handler" => FitInv

\* A handler's operation.
LEMMA OperationStep ==
  ASSUME ReqRespInv, NEW e \in Ends, Operation(e)
  PROVE  Streams'
<1>1. /\ TypeOK
      /\ topic # "none" /\ UNCHANGED <<service, registered, topic, by>>
  BY OperationCases, Zenon DEF ReqRespInv
<1>2. \A x \in Ends : by'[x] = "handler" => HandlerInv(x)'
  BY <1>1, OperationHandlers
<1>3. by'["client"] = "handler" => ResponseInv'
  BY <1>1, OperationResponse
<1>4. by'["server"] = "handler" /\ by'["client"] = "handler" => FitInv'
  BY <1>1, OperationFit
<1>. QED
  BY <1>1, <1>2, <1>3, <1>4 DEF Streams, ReqRespInv

\* The deferred Close.
LEMMA CloseStep ==
  ASSUME ReqRespInv, NEW e \in Ends, Close(e)
  PROVE  Streams'
<1>1. /\ TypeOK /\ "client" \in Ends /\ "server" \in Ends
      /\ topic # "none" /\ by[e] = "handler"
      /\ UNCHANGED <<service, registered, topic, by, pc, reset, sent,
                     decoded, disturbed>>
  BY DEF ReqRespInv, Close, serveVars, history, Ends
<1>2. /\ rclosed' = rclosed \cup {e} /\ wclosed' = wclosed \cup {e}
      /\ \A x \in Ends \ {e} : /\ status'[x] = status[x]
                               /\ buf'[x] = buf[x]
  BY <1>1, Zenon DEF Close, TypeOK
<1>3. ASSUME NEW x \in Ends, by'[x] = "handler"
      PROVE  HandlerInv(x)'
  <2>1. CASE x = e
    BY <2>1, HandlerCloses
  <2>2. CASE x # e
    <3>1. HandlerInv(x)
      BY <1>1, <1>3 DEF ReqRespInv
    <3>. QED
      BY <1>1, <1>2, <2>2, <3>1, HandlerFrame, Zenon
  <2>. QED
    BY <2>1, <2>2
<1>4. ASSUME by'["client"] = "handler"
      PROVE  ResponseInv'
  <2>1. ResponseInv
    BY <1>1, <1>4 DEF ReqRespInv
  <2>2. "client" \notin rclosed' =>
          /\ "client" \notin rclosed /\ status'["client"] = status["client"]
          /\ buf'["client"] = buf["client"]
    BY <1>1, <1>2
  <2>. QED
    BY <1>1, <2>1, <2>2, ResponseFrame, Zenon
<1>5. ASSUME by'["server"] = "handler", by'["client"] = "handler"
      PROVE  FitInv'
  <2>. SUFFICES ASSUME disturbed' = FALSE
                PROVE  FitInv'
    BY Zenon DEF FitInv
  <2>1. Undisturbed
    BY <1>1, <1>5 DEF Undisturbed
  <2>2. \A x \in Ends : status'[x] \in {"open", "ok"}
    BY <1>1, <1>2, <2>1, Fits, Zenon DEF Close, TypeOK
  <2>3. "server" \notin rclosed' =>
          "server" \notin rclosed /\ buf'["server"] = buf["server"]
    BY <1>1, <1>2
  <2>4. \A x, op : Past(x, op)' <=> Past(x, op)
    BY <1>1 DEF Past
  <2>. QED
    BY <1>1, <2>1, <2>2, <2>3, <2>4, Fits DEF FitInv
<1>. QED
  BY <1>1, <1>3, <1>4, <1>5 DEF Streams, ReqRespInv

\* A remote end.
LEMMA RemoteSteps ==
  ASSUME ReqRespInv, NEW e \in Ends, RemoteStep(e)
  PROVE  Streams'
<1>1. /\ TypeOK /\ "client" \in Ends /\ "server" \in Ends
      /\ topic # "none" /\ by[e] = "remote"
      /\ UNCHANGED <<service, registered, topic, by, pc, status, reset,
                     decoded, disturbed>>
  BY DEF ReqRespInv, RemoteStep, serveVars, history, Ends
<1>2. \/ \E item \in Items : Send(e, item)
      \/ Receive(e)
      \/ CloseWrite(e)
      \/ CloseRead(e)
  BY Zenon DEF RemoteStep
<1>3. ASSUME NEW x \in Ends, by'[x] = "handler"
      PROVE  HandlerInv(x)'
  <2>1. HandlerInv(x) /\ x # e
    BY <1>1, <1>3 DEF ReqRespInv
  <2>2. /\ sent'[x] = sent[x]
        /\ x \in rclosed' <=> x \in rclosed
        /\ x \in wclosed' <=> x \in wclosed
    BY <1>1, <1>2, <2>1 DEF Send, Receive, CloseWrite, CloseRead, TypeOK
  <2>. QED
    BY <1>1, <2>1, <2>2, HandlerFrame, Zenon
<1>4. ASSUME by'["client"] = "handler"
      PROVE  ResponseInv'
  <2>1. ResponseInv /\ e = "server"
    BY <1>1, <1>4 DEF ReqRespInv, Ends
  <2>2. ASSUME NEW item \in Items, Send(e, item)
        PROVE  ResponseInv'
    <3>1. Send("server", item)
      BY <2>1, <2>2 DEF Send
    <3>. QED
      BY <1>1, <2>1, <3>1, ResponseSent
  <2>3. CASE Receive(e) \/ CloseWrite(e) \/ CloseRead(e)
    <3>1. /\ sent' = sent /\ buf'["client"] = buf["client"]
          /\ "client" \in rclosed' <=> "client" \in rclosed
      BY <1>1, <2>1, <2>3 DEF Receive, CloseWrite, CloseRead, TypeOK
    <3>. QED
      BY <1>1, <2>1, <3>1, ResponseFrame, Zenon
  <2>. QED
    BY <1>2, <2>2, <2>3
<1>5. ~ (by'["server"] = "handler" /\ by'["client"] = "handler")
  BY <1>1 DEF Ends
<1>. QED
  BY <1>1, <1>3, <1>4, <1>5 DEF Streams, ReqRespInv

\* A reset.
LEMMA ResetStep ==
  ASSUME ReqRespInv, Reset
  PROVE  Streams'
<1>1. /\ topic # "none" /\ reset' = TRUE /\ disturbed' = TRUE
      /\ UNCHANGED <<service, registered, topic, by, pc, status, rclosed,
                     wclosed, sent, decoded>>
  BY DEF Reset, serveVars
<1>2. \A x \in Ends : by'[x] = "handler" => HandlerInv(x)'
  BY <1>1, HandlerFrame DEF ReqRespInv
<1>3. by'["client"] = "handler" => ResponseInv'
  BY <1>1, ResponseFrame DEF ReqRespInv
<1>4. FitInv'
  BY <1>1 DEF FitInv
<1>. QED
  BY <1>1, <1>2, <1>3, <1>4 DEF Streams, ReqRespInv

\* A stream is opened.
LEMMA NewStreamStep ==
  ASSUME ReqRespInv, NEW t \in {topics[i] : i \in 1..Len(topics)},
         NEW who \in [Ends -> {"handler", "remote"}], NewStream(t, who)
  PROVE  Streams'
<1>1. /\ NoStream /\ topic' = t /\ by' = who
      /\ UNCHANGED <<service, registered, pc, status, buf, rclosed, wclosed,
                     reset, sent, decoded, disturbed>>
      /\ who["client"] = "handler" => t \in OutboundTopics
  BY DEF ReqRespInv, NewStream, serveVars, wire, history
<1>2. t \in {"ping", "goodbye", "status", "metadata1", "metadata2"}
  <2>1. Len(topics) = 5
    BY DEF topics
  <2>2. PICK i \in 1..5 : t = topics[i]
    BY <2>1
  <2>. QED
    BY <2>2 DEF topics
<1>3. /\ \A x \in Ends : /\ pc'[x] = 1 /\ status'[x] = "open"
                         /\ buf'[x] = << >> /\ sent'[x] = << >>
      /\ "client" \in Ends /\ "server" \in Ends
      /\ rclosed' = {} /\ wclosed' = {} /\ decoded' = {}
      /\ reset' = FALSE /\ disturbed' = FALSE
  BY <1>1 DEF NoStream, Ends
<1>4. \A x \in Ends : /\ \A op : ~ Past(x, op)'
                      /\ Written(x, topic', pc'[x]) = << >>
                      /\ Taken(topic', pc'[x]) = 0
  BY <1>3, DoneFirst DEF Past
<1>5. ASSUME NEW x \in Ends, by'[x] = "handler"
      PROVE  HandlerInv(x)'
  <2>1. topic' \in Spoken(x)
    BY <1>1, <1>2, <1>5 DEF Spoken, OutboundTopics
  <2>2. 1 <= Len(Handler(x, topic')) + 1
    <3>1. Len(Handler(x, topic')) \in 3..7
      BY <2>1, HandlerLengths, Zenon
    <3>2. \A k \in 3..7 : 1 <= k + 1
      OBVIOUS
    <3>. QED
      BY <3>1, <3>2, Zenon
  <2>3. pc'[x] # 0
    BY <1>3
  <2>. QED
    BY <1>3, <1>4, <2>2, <2>3 DEF HandlerInv, Returned
<1>6. ResponseInv'
  <2>1. Len(<< >>) = 0 /\ 0 <= 0 /\ ~ (0 > 0) /\ ~ (0 > 1) /\ 0 = 0 + 0
        /\ 1..0 = {}
    OBVIOUS
  <2>. QED
    BY <1>3, <1>4, <2>1, Zenon DEF ResponseInv
<1>7. FitInv'
  BY <1>3, <1>4 DEF FitInv
<1>. QED
  BY <1>1, <1>2, <1>5, <1>6, <1>7 DEF Streams, ReqRespInv

\* Every step keeps the invariant.
LEMMA ReqRespStep ==
  ASSUME ReqRespInv, [Next]_vars
  PROVE  ReqRespInv'
<1>. SUFFICES TypeOK' /\ Streams'
  BY DEF ReqRespInv, Streams
<1>. USE DEF ReqRespInv
<1>1. CASE Register
  <2>1. TypeOK'
    BY <1>1, OtherTypes, Zenon
  <2>2. UNCHANGED <<topic, by, pc, status, buf, rclosed, wclosed, sent, reset,
                    decoded, disturbed>>
    BY <1>1 DEF Register, wire, history
  <2>3. service' = "registering" => registered' < Len(topics)
    <3>1. service' = "registering" => registered' # Len(topics)
      BY <1>1 DEF Register
    <3>2. registered' \in 0..Len(topics) /\ Len(topics) \in Nat
      BY <2>1, Zenon DEF TypeOK, topics
    <3>3. registered' # Len(topics) => registered' < Len(topics)
      BY <3>2
    <3>. QED
      BY <3>1, <3>3
  <2>4. (topic' = "none" => NoStream')
        /\ (by'["client"] = "handler" => topic' \in OutboundTopics)
    BY <2>2 DEF NoStream
  <2>5. \A x \in Ends : by'[x] = "handler" => HandlerInv(x)'
    BY <2>2, HandlerFrame
  <2>6. by'["client"] = "handler" => ResponseInv'
    BY <2>2, ResponseFrame, Zenon
  <2>7. by'["server"] = "handler" /\ by'["client"] = "handler" => FitInv'
    BY <2>2 DEF FitInv, Past
  <2>. QED
    BY <2>1, <2>3, <2>4, <2>5, <2>6, <2>7 DEF Streams
<1>2. CASE ServeReturns \/ UNCHANGED vars
  <2>1. TypeOK'
    BY <1>2, OtherTypes, Zenon DEF vars, TypeOK
  <2>2. /\ UNCHANGED <<topic, by, pc, status, buf, rclosed, wclosed, sent,
                       reset, decoded, disturbed, registered>>
        /\ service' = "registering" => service = "registering"
    BY <1>2 DEF ServeReturns, wire, history, vars
  <2>4. (topic' = "none" => NoStream')
        /\ (by'["client"] = "handler" => topic' \in OutboundTopics)
    BY <2>2, Zenon DEF NoStream
  <2>5. \A x \in Ends : by'[x] = "handler" => HandlerInv(x)'
    BY <2>2, HandlerFrame
  <2>6. by'["client"] = "handler" => ResponseInv'
    BY <2>2, ResponseFrame, Zenon
  <2>7. by'["server"] = "handler" /\ by'["client"] = "handler" => FitInv'
    BY <2>2 DEF FitInv, Past
  <2>. QED
    BY <2>1, <2>2, <2>4, <2>5, <2>6, <2>7 DEF Streams
<1>3. ASSUME NEW t \in {topics[i] : i \in 1..Len(topics)},
             NEW who \in [Ends -> {"handler", "remote"}], NewStream(t, who)
      PROVE  TypeOK' /\ Streams'
  BY <1>3, OtherTypes, NewStreamStep
<1>4. ASSUME NEW e \in Ends, Operation(e)
      PROVE  TypeOK' /\ Streams'
  BY <1>4, OperationType, OperationStep
<1>5. ASSUME NEW e \in Ends, Close(e)
      PROVE  TypeOK' /\ Streams'
  BY <1>5, OtherTypes, CloseStep, Zenon
<1>6. ASSUME NEW e \in Ends, RemoteStep(e)
      PROVE  TypeOK' /\ Streams'
  BY <1>6, OtherTypes, RemoteSteps, Zenon
<1>7. CASE Reset
  BY <1>7, OtherTypes, ResetStep
<1>. QED
  BY <1>1, <1>2, <1>3, <1>4, <1>5, <1>6, <1>7 DEF Next, HandlerStep

\* The inductive invariant holds in every reachable state.
THEOREM ReqRespInvariant == Spec => []ReqRespInv
<1>1. Init => ReqRespInv
  <2>. SUFFICES ASSUME Init
                PROVE  ReqRespInv
    OBVIOUS
  <2>1. TypeOK
    <3>1. 1 \in 0..8 /\ 0 \in 0..Len(topics) /\ << >> \in Seq(Items)
          /\ Len(<< >>) <= Window
      BY ReqRespAssumption DEF topics
    <3>. QED
      BY <3>1, Zenon DEF Init, TypeOK, Ends
  <2>2. 0 < Len(topics)
    BY DEF topics
  <2>3. NoStream /\ registered < Len(topics)
    BY <2>2 DEF Init, NoStream
  <2>4. \A x \in Ends : by[x] # "handler"
    BY DEF Init
  <2>. QED
    BY <2>1, <2>3, <2>4 DEF ReqRespInv, Ends
<1>2. ReqRespInv /\ [Next]_vars => ReqRespInv'
  BY ReqRespStep
<1>. QED
  BY <1>1, <1>2, PTL DEF Spec

\* What an inbound handler has got done, from how far it is.
LEMMA ServerSent ==
  ASSUME ReqRespInv, by["server"] = "handler"
  PROVE  /\ sent["server"] \in {<< >>, <<"success">>, <<"success", "data">>}
         /\ topic = "goodbye" => sent["server"] = << >>
         /\ topic \in {"ping", "status"} /\ sent["server"] # << >>
              => "server" \in decoded
<1>1. "server" \in Ends /\ HandlerInv("server")
  BY DEF ReqRespInv, Ends
<1>2. pc["server"] # 0
  BY <1>1 DEF HandlerInv
<1>3. /\ topic \in Spoken("server")
      /\ pc["server"] \in 1..(Len(Handler("server", topic)) + 1)
  BY <1>1, <1>2, Position
<1>. DEFINE D(op) == Done("server", topic, pc["server"], op)
<1>4. /\ D("write") => D("writeCode")
      /\ topic = "goodbye" => ~ D("writeCode")
      /\ topic \in {"ping", "status"} => (D("writeCode") => D("read"))
  BY <1>1, <1>3, Order
<1>5. /\ sent["server"] = Written("server", topic, pc["server"])
      /\ D("read") => "server" \in decoded
  BY <1>1, <1>2 DEF HandlerInv, Past
<1>. HIDE DEF D
<1>6. sent["server"] = IF D("write") THEN <<"success", "data">>
                       ELSE IF D("writeCode") THEN <<"success">> ELSE << >>
  BY <1>5 DEF Written, D
<1>. QED
  BY <1>4, <1>5, <1>6

\* ResponseProper, for every remote client: the Inbound handlers send a
\* beginning of one success response and nothing else, and they answer only
\* what they have received.
THEOREM ProperResponses == Spec => []ResponseProper
<1>1. ReqRespInv => ResponseProper
  BY ServerSent, Beginnings DEF ResponseProper
<1>. QED
  BY <1>1, ReqRespInvariant, PTL

\* Two things that were sent first are a beginning of what was sent.
LEMMA BeginsWith ==
  ASSUME NEW s \in Seq(Items), Len(s) >= 2, s[1] = "success", s[2] = "data"
  PROVE  IsPrefixOf(<<"success", "data">>, s)
<1>. DEFINE t == <<"success", "data">>
            u == SubSeq(s, 1, 2)
<1>1. t \in Seq(Items) /\ Len(t) = 2 /\ t[1] = "success" /\ t[2] = "data"
  BY DEF Items
<1>2. u \in Seq(Items) /\ Len(u) = 2 /\ u[1] = s[1] /\ u[2] = s[2]
  OBVIOUS
<1>. HIDE DEF t, u
<1>3. t = u
  BY <1>1, <1>2
<1>. QED
  BY <1>1, <1>3 DEF IsPrefixOf, t, u

\* SuccessMeansAnswered, for every remote server: an Outbound handler that
\* returns nil was answered.
THEOREM SuccessIsAnswered == Spec => []SuccessMeansAnswered
<1>1. ASSUME ReqRespInv, by["client"] = "handler", status["client"] = "ok"
      PROVE  /\ "client" \in decoded
             /\ IsPrefixOf(<<"success", "data">>, sent["server"])
             /\ by["server"] = "handler" /\ topic = "ping" =>
                  "server" \in decoded
  <2>1. /\ "client" \in Ends /\ TypeOK /\ ResponseInv
        /\ HandlerInv("client")
    BY <1>1 DEF ReqRespInv, Ends
  <2>2. /\ pc["client"] = Len(Handler("client", topic)) + 1
        /\ topic \in Spoken("client")
    BY <1>1, <2>1 DEF HandlerInv, ReqRespInv, Spoken, OutboundTopics
  <2>3. pc["client"] # 0
    BY <2>1, <2>2, HandlerLengths
  <2>4. Done("client", topic, pc["client"], "read")
    BY <1>1, <2>1, <2>2, <2>3, Position, Order, Zenon
  <2>5. "client" \in decoded
    BY <2>1, <2>3, <2>4 DEF HandlerInv, Past
  <2>6. Taken(topic, pc["client"]) = 2
    BY <2>4 DEF Taken
  <2>7. /\ Len(sent["server"]) >= 2 /\ sent["server"][1] = "success"
        /\ sent["server"][2] = "data" /\ sent["server"] \in Seq(Items)
    BY <2>1, <2>3, <2>6 DEF ResponseInv, TypeOK, Ends
  <2>8. sent["server"] # << >>
    BY <2>7
  <2>. QED
    BY <1>1, <2>5, <2>7, <2>8, BeginsWith, ServerSent
<1>2. ReqRespInv => SuccessMeansAnswered
  BY <1>1 DEF SuccessMeansAnswered
<1>. QED
  BY <1>2, ReqRespInvariant, PTL

\* An undisturbed pair of handlers is not stuck.
LEMMA SomeoneReady ==
  ASSUME Undisturbed
  PROVE  \/ \E e \in Ends : status[e] = "open" /\ Ready(e)
         \/ \A e \in Ends : status[e] = "ok"
<1>1. /\ "client" \in Ends /\ "server" \in Ends /\ ReqRespInv /\ TypeOK
      /\ \A e \in Ends : status[e] \in {"open", "ok"}
      /\ \A e \in Ends : HandlerInv(e)
      /\ Len(<< >>) < Window
  <2>1. Len(<< >>) < Window
    BY ReqRespAssumption
  <2>. QED
    BY <2>1, Fits, Zenon DEF Undisturbed, ReqRespInv, Ends
<1>2. \A e \in Ends : status[e] = "ok" => e \in rclosed /\ e \in wclosed
  BY <1>1 DEF HandlerInv, Returned
<1>3. CASE status["client"] = "ok" /\ status["server"] = "open"
  <2>1. Ready("server")
    BY <1>1, <1>2, <1>3 DEF Ready, Other
  <2>. QED
    BY <1>1, <1>3, <2>1
<1>4. CASE status["client"] = "open" /\ Op("client") \in Writes
  <2>1. /\ ReqRespInv /\ pc["client"] # 0 /\ by["client"] = "handler"
    BY <1>1, Fits, Zenon DEF Undisturbed
  <2>2. ~ Past("client", "write")
    BY <1>1, <1>4, <2>1, Operations
  <2>3. "server" \notin rclosed => buf["server"] = << >>
    BY <2>2, Fits, FitsSent
  <2>4. Ready("client")
    BY <1>1, <1>4, <2>3 DEF Ready, Other, Reads, Writes
  <2>. QED
    BY <1>1, <1>4, <2>4
<1>5. CASE status["client"] = "open" /\ Op("client") \in Reads
  <2>1. CASE buf["client"] # << >> \/ "server" \in wclosed
    <3>1. Ready("client")
      BY <1>5, <2>1 DEF Ready, Other, Reads, Writes
    <3>. QED
      BY <1>1, <1>5, <3>1
  <2>2. CASE buf["client"] = << >> /\ "server" \notin wclosed
    <3>1. status["server"] = "open"
      BY <1>1, <1>2, <2>2
    <3>2. Op("server") \in Reads => buf["server"] # << >>
      BY <1>5, <3>1, ServerReads, ClientReads
    <3>3. Ready("server")
      BY <1>1, <2>2, <3>2 DEF Ready, Other
    <3>. QED
      BY <1>1, <3>1, <3>3
  <2>. QED
    BY <2>1, <2>2
<1>6. CASE status["client"] = "open" /\ Op("client") \notin Reads \cup Writes
  <2>1. Ready("client")
    BY <1>6 DEF Ready
  <2>. QED
    BY <1>1, <1>6, <2>1
<1>. QED
  BY <1>1, <1>3, <1>4, <1>5, <1>6 DEF Ends

\* HandlersFit, for every size of the buffers: an Inbound and an Outbound
\* handler of the same topic neither block each other nor give up.
THEOREM HandlersAlwaysFit == Spec => []HandlersFit
<1>1. ASSUME ReqRespInv, \A e \in Ends : by[e] = "handler", ~ disturbed
      PROVE  /\ \A e \in Ends : status[e] \notin {"failed", "error"}
             /\ \/ \E e \in Ends : status[e] = "open" /\ Ready(e)
                \/ \A e \in Ends : status[e] = "ok"
  <2>1. disturbed = FALSE
    BY <1>1 DEF ReqRespInv, TypeOK
  <2>2. Undisturbed
    BY <1>1, <2>1 DEF Undisturbed, Ends
  <2>. QED
    BY <2>2, Fits, SomeoneReady
<1>2. ReqRespInv => HandlersFit
  BY <1>1 DEF HandlersFit
<1>. QED
  BY <1>2, ReqRespInvariant, PTL
=============================================================================
