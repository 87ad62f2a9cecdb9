-------------------------- MODULE MdsipExchange_proofs --------------------------
(***************************************************************************)
(* For any number of requests and arguments, any first message id and any   *)
(* number of faults: MdsipExchange is type correct, and a call gets the     *)
(* answer to its own request as long as nothing upset the connection.       *)
(*                                                                          *)
(* The argument accounts for every answer: between two calls none is on its *)
(* way and no request is about to be executed, since one that was given up  *)
(* lacks its last argument; during a call there is at most one, and it is   *)
(* either still to be made, or the server's response, or in the stream.     *)
(*                                                                          *)
(* What the server executes are whole requests, for at most 254 requests:   *)
(* the arguments on their way come in order, and the message ids, all       *)
(* different, tell the server which of them belong together.                *)
(***************************************************************************)
EXTENDS MdsipExchange, TLAPS, SequenceTheorems

(* The client holds the connection while it waits; what it read is a header. *)
ClientInv ==
  /\ pc # "idle" => inlist
  /\ pc = "body" => header # None
  /\ pc = "send" /\ arg > 0 => request
  /\ pc # "idle" /\ reading = "answer" => req \in Requests
  /\ pc \in {"idle", "send"} \/ ~upset => reading = "answer"

Last(m) == m.idx = nargs[m.of] - 1
HeaderOf(r) == [part |-> "header", of |-> r]
BodyOf(r) == [part |-> "body", of |-> r]

NoAnswer == down = <<>> /\ response = <<>>

(* The answer to r, or the rest of it, of which the last part may be lost. *)
InStream(r) ==
  \/ down = <<>> /\ response = Message(r)
  \/ down = <<HeaderOf(r)>> /\ response \in {<<BodyOf(r)>>, <<>>}
  \/ down = Message(r) /\ response = <<>>

BodyInStream(r) ==
  \/ down = <<>> /\ response = <<BodyOf(r)>>
  \/ down = <<BodyOf(r)>> /\ response = <<>>

StreamInv ==
  ~upset /\ inlist =>
    /\ pc # "more"
    /\ pc \in {"idle", "send"} => NoAnswer /\ \A k \in DOMAIN up : ~Last(up[k])
    /\ pc = "header" =>
         \/ NoAnswer /\ \A k \in DOMAIN up : Last(up[k]) => k = Len(up) /\ up[k].of = req
         \/ up = <<>> /\ InStream(req)
    /\ pc = "body" => up = <<>> /\ header = req /\ (NoAnswer \/ BodyInStream(req))

Inv == TypeOK /\ ClientInv /\ StreamInv

-----------------------------------------------------------------------------
(* Types. *)

LEMMA Constants ==
  /\ N \in Nat /\ MAX_ARGS \in Nat \ {0}
  /\ \A r \in Requests : nargs[r] \in 1 .. MAX_ARGS - 1
  /\ FirstId \in 0 .. 255 /\ MaxFaults \in Nat /\ MaxEvents \in Nat
  /\ None \notin Requests /\ None \notin Subjects /\ 0 \in Indices
  /\ Requests \subseteq Subjects
BY ExchangeConstants DEF Requests, Subjects, Event, Indices

LEMMA NoStream ==
  /\ <<>> \in Seq(Args) /\ <<>> \in Seq(Fragments)
  /\ <<>> \in Seq([Indices -> Requests \cup {None}])
  /\ NoArgs \in [Indices -> Requests \cup {None}]
BY EmptySeq DEF NoArgs

LEMMA FaultType ==
  ASSUME CountType, NEW kind, Fault(kind)
  PROVE  faults' \in 0 .. MaxFaults
BY Constants DEF CountType, Fault

(* The message id after this one is a valid one. *)
LEMMA NextId ==
  ASSUME ClientType
  PROVE  ConnectionIncMessageId \in 0 .. 255 \ {INVALID_MESSAGE_ID}
BY DEF ClientType, ConnectionIncMessageId, INVALID_MESSAGE_ID

LEMMA MessageType ==
  ASSUME NEW r \in Subjects
  PROVE  /\ Message(r) = <<HeaderOf(r), BodyOf(r)>>
         /\ HeaderOf(r) \in Fragments /\ BodyOf(r) \in Fragments
         /\ Message(r) \in Seq(Fragments)
<1>1. Message(r) = <<HeaderOf(r), BodyOf(r)>>
  BY DEF Message, HeaderOf, BodyOf
<1>2. HeaderOf(r) \in Fragments /\ BodyOf(r) \in Fragments
  BY DEF HeaderOf, BodyOf, Fragments
<1> QED BY <1>1, <1>2

(* Only the request of the client gets a result. *)
LEMMA ResultStep ==
  ASSUME ResultType, NEW x \in Results,
         result' = [result EXCEPT ![req] = x] \/ result' = result
  PROVE  ResultType'
BY DEF ResultType

LEMMA FailStep ==
  ASSUME ResultType, ClientType, Fail
  PROVE  ResultType'
<1>1. Failed \in Results
  BY DEF Results
<1> QED BY <1>1, ResultStep DEF Fail

-----------------------------------------------------------------------------
(* Every step keeps the types and what the client knows. *)

LEMMA InitTypes == Init => TypeOK /\ ClientInv /\ StreamInv
<1> SUFFICES ASSUME Init PROVE TypeOK /\ ClientInv /\ StreamInv
  OBVIOUS
<1>0. FlagType
  BY DEF Init, FlagType
<1>1. ClientType
  BY Constants DEF Init, ClientType, Event, INVALID_MESSAGE_ID
<1>2. ResultType
  BY DEF Init, ResultType, Results
<1>3. ServerType
  BY Constants, NoStream DEF Init, ServerType
<1>4. StreamType /\ CountType
  BY Constants, NoStream DEF Init, StreamType, CountType
<1>5. ClientInv /\ StreamInv
  BY EmptySeq DEF Init, ClientInv, StreamInv, NoAnswer
<1> QED BY <1>0, <1>1, <1>2, <1>3, <1>4, <1>5 DEF TypeOK

LEMMA ConnectToMdsTypes ==
  ASSUME TypeOK, ClientInv, ConnectToMds
  PROVE  TypeOK' /\ ClientInv'
<1>0. FlagType /\ ClientType /\ ResultType /\ ServerType /\ StreamType /\ CountType
  BY DEF TypeOK
<1>1. ClientType' /\ ResultType'
  BY <1>0 DEF ConnectToMds, ClientType, ResultType, INVALID_MESSAGE_ID
<1>5. FlagType'
  BY DEF ConnectToMds, FlagType
<1>2. ServerType'
  BY <1>0, NoStream DEF ConnectToMds, ServerType, INVALID_MESSAGE_ID
<1>3. StreamType' /\ CountType'
  BY <1>0, NoStream DEF ConnectToMds, StreamType, CountType
<1>4. ClientInv'
  BY DEF ConnectToMds, ClientInv
<1> QED BY <1>1, <1>2, <1>3, <1>4, <1>5 DEF TypeOK

LEMMA MdsValueTypes ==
  ASSUME TypeOK, ClientInv, MdsValue
  PROVE  TypeOK' /\ ClientInv'
<1>0. FlagType /\ ClientType /\ ResultType /\ ServerType /\ StreamType /\ CountType
  BY DEF TypeOK
<1>1. ClientType'
  <2>1. req' \in Requests /\ req' \in 0 .. N
    BY <1>0, Constants DEF MdsValue, ClientType, Requests
  <2> QED BY <1>0, <2>1, Constants DEF MdsValue, ClientType
<1>2. ResultType' /\ ServerType' /\ StreamType' /\ CountType'
  BY <1>0 DEF MdsValue, ResultType, ServerType, StreamType, CountType, serverVars
<1>3. ClientInv'
  BY <1>0, Constants DEF MdsValue, ClientInv, ClientType, Requests
<1>4. FlagType'
  BY <1>0 DEF MdsValue, FlagType, serverVars
<1> QED BY <1>1, <1>2, <1>3, <1>4 DEF TypeOK

LEMMA SendArgTypes ==
  ASSUME TypeOK, ClientInv, SendArg
  PROVE  TypeOK' /\ ClientInv'
<1> DEFINE id == IF arg = 0 THEN ConnectionIncMessageId ELSE message_id
           m == [id |-> id, of |-> req, idx |-> arg]
<1>0. FlagType /\ ClientType /\ ResultType /\ ServerType /\ StreamType /\ CountType
  BY DEF TypeOK
<1>1. req \in Requests /\ arg \in Indices /\ arg < nargs[req] /\ nargs[req] \in 1 .. MAX_ARGS - 1
  BY <1>0, Constants DEF SendArg, ClientType, Indices
<1>2. id \in 0 .. 255 \ {INVALID_MESSAGE_ID} /\ message_id' = id
  BY <1>0, NextId DEF SendArg, ClientInv, ClientType
<1>3. m \in Args
  BY <1>1, <1>2 DEF Args
<1> HIDE DEF id, m
<1>4. CASE /\ up' = IF serving THEN Append(up, m) ELSE up
           /\ request' = TRUE
           /\ IF arg + 1 < nargs[req]
                THEN arg' = arg + 1 /\ UNCHANGED pc
                ELSE pc' = "header" /\ UNCHANGED arg
           /\ UNCHANGED <<reading, req, header, result, inlist, faults>>
  <2>1. ClientType'
    BY <1>0, <1>1, <1>2, <1>4, Constants DEF ClientType
  <2>2. StreamType'
    BY <1>0, <1>3, <1>4, AppendProperties DEF StreamType, SendArg
  <2>3. ResultType' /\ ServerType' /\ CountType'
    BY <1>0, <1>4 DEF SendArg, ResultType, ServerType, CountType, serverVars
  <2>4. ClientInv'
    BY <1>0, <1>1, <1>4 DEF SendArg, ClientInv, ClientType
  <2>5. FlagType'
    BY <1>0, <1>4 DEF SendArg, FlagType, serverVars
  <2> QED BY <2>1, <2>2, <2>3, <2>4, <2>5 DEF TypeOK
<1>5. CASE /\ IF serving THEN Fault("send") ELSE UNCHANGED faults
           /\ Fail /\ UnlockConnection /\ UNCHANGED up
  <2>1. ClientType'
    BY <1>0, <1>2, <1>5 DEF ClientType, Fail, UnlockConnection
  <2>2. ResultType'
    BY <1>0, <1>5, FailStep
  <2>3. faults' \in 0 .. MaxFaults
    BY <1>0, <1>5, FaultType DEF CountType
  <2>4. ServerType' /\ StreamType' /\ CountType'
    BY <1>0, <1>5, <2>3 DEF SendArg, ServerType, StreamType, CountType, serverVars
  <2>5. ClientInv'
    BY <1>5 DEF SendArg, ClientInv, Fail
  <2>6. FlagType'
    BY <1>0, <1>5 DEF SendArg, FlagType, Fail, UnlockConnection, serverVars
  <2> QED BY <2>1, <2>2, <2>4, <2>5, <2>6 DEF TypeOK
<1> QED BY <1>2, <1>4, <1>5 DEF SendArg, id, m

LEMMA SendDsc_failsTypes ==
  ASSUME TypeOK, ClientInv, SendDsc_fails
  PROVE  TypeOK' /\ ClientInv'
<1>0. FlagType /\ ClientType /\ ResultType /\ ServerType /\ StreamType /\ CountType
  BY DEF TypeOK
<1>1. ResultType'
  <2>1. Unserialized \in Results
    BY DEF Results
  <2> QED BY <1>0, <2>1, ResultStep DEF SendDsc_fails
<1>2. CountType'
  BY <1>0, FaultType DEF SendDsc_fails, CountType
<1>3. FlagType' /\ ClientType' /\ ServerType' /\ StreamType'
  BY <1>0 DEF SendDsc_fails, FlagType, ClientType, ServerType, StreamType, serverVars
<1>4. ClientInv'
  BY DEF SendDsc_fails, ClientInv
<1> QED BY <1>1, <1>2, <1>3, <1>4 DEF TypeOK

(* What a read leaves of a part of a message is part of the stream. *)
LEMMA LeftType ==
  ASSUME NEW f, NEW left \in Left(f), NEW s \in Seq(Fragments)
  PROVE  left \o s \in Seq(Fragments)
<1>1. Rest \in Fragments /\ Scrap \in Fragments
  BY DEF Fragments
<1>2. left = <<>> \/ left = <<Scrap>> \/ left = <<Rest>>
  BY DEF Left
<1>3. <<>> \in Seq(Fragments) /\ <<Scrap>> \in Seq(Fragments) /\ <<Rest>> \in Seq(Fragments)
  BY <1>1
<1>4. left \in Seq(Fragments)
  BY <1>2, <1>3
<1> QED BY <1>4, ConcatProperties

LEMMA GetHeaderTypes ==
  ASSUME TypeOK, ClientInv, GetHeader
  PROVE  TypeOK' /\ ClientInv'
<1>0. FlagType /\ ClientType /\ ResultType /\ ServerType /\ StreamType /\ CountType
  BY DEF TypeOK
<1>1. down # <<>> => Head(down) \in Fragments /\ Tail(down) \in Seq(Fragments)
  BY <1>0, HeadTailProperties DEF StreamType
<1>2. \/ Fail /\ (CloseConnection \/ UnlockConnection)
      \/ /\ pc' = "more" /\ header' = header
         /\ UNCHANGED <<reading, req, arg, result, inlist, request, upset, faults>>
      \/ /\ pc' = "body" /\ header' \in Subjects \cup {Garbage}
         /\ UNCHANGED <<reading, req, arg, result, inlist, request, upset, faults>>
  <2>1. down # <<>> /\ Head(down).part = "header" => Head(down).of \in Subjects
    BY <1>1 DEF Fragments, Rest, Scrap
  <2> QED BY <2>1 DEF GetHeader, GetStray
<1>3. ClientType'
  BY <1>0, <1>2 DEF GetHeader, ClientType, Fail, CloseConnection, UnlockConnection
<1>4. ResultType'
  BY <1>0, <1>2, FailStep DEF ResultType
<1>5. StreamType'
  <2>1. \/ UNCHANGED down
        \/ down # <<>> /\ down' = Tail(down)
        \/ down # <<>> /\ \E left \in Left(Head(down)) : down' = left \o Tail(down)
    BY DEF GetHeader, GetStray
  <2>2. down' \in Seq(Fragments)
    BY <1>0, <1>1, <2>1, LeftType DEF StreamType
  <2> QED BY <1>0, <2>2 DEF GetHeader, StreamType
<1>6. CountType'
  <2>1. UNCHANGED faults \/ Fault("intr")
    BY DEF GetHeader
  <2> QED BY <1>0, <2>1, FaultType DEF GetHeader, CountType
<1>7. FlagType'
  <2>1. upset' \in BOOLEAN
    BY <1>0 DEF GetHeader, FlagType
  <2> QED BY <1>0, <1>2, <2>1 DEF GetHeader, FlagType, CloseConnection, UnlockConnection, serverVars
<1>8. ServerType'
  BY <1>0 DEF GetHeader, ServerType, serverVars
<1>9. ClientInv'
  <2>1. pc \notin {"idle", "send"}
    BY DEF GetHeader
  <2>2. None \notin Subjects \cup {Garbage}
    BY Constants, ExchangeConstants DEF Garbage
  <2> QED BY <1>2, <2>1, <2>2 DEF ClientInv, Fail
<1> QED BY <1>3, <1>4, <1>5, <1>6, <1>7, <1>8, <1>9 DEF TypeOK

LEMMA GetBodyTypes ==
  ASSUME TypeOK, ClientInv, GetBody
  PROVE  TypeOK' /\ ClientInv'
<1>0. FlagType /\ ClientType /\ ResultType /\ ServerType /\ StreamType /\ CountType
  BY DEF TypeOK
<1>1. down # <<>> => Head(down) \in Fragments /\ Tail(down) \in Seq(Fragments)
  BY <1>0, HeadTailProperties DEF StreamType
<1>2. \/ Fail /\ UnlockConnection
      \/ Complete(Stray) /\ UnlockConnection /\ UNCHANGED upset
      \/ /\ Complete(<<header, header>>) /\ UnlockConnection /\ UNCHANGED upset
         /\ down # <<>> /\ Head(down).part = "body" /\ Head(down).of = header
      \/ /\ pc' = "body" /\ header' = Garbage
         /\ UNCHANGED <<reading, req, arg, result, inlist, request, upset>>
  BY DEF GetBody, GetStrayBody, Fail, Complete
<1>3. ClientType'
  BY <1>0, <1>2 DEF GetBody, ClientType, Fail, Complete, UnlockConnection
<1>4. ResultType'
  <2>1. down # <<>> /\ Head(down).part = "body" => Head(down).of \in Subjects
    BY <1>1 DEF Fragments, Rest, Scrap
  <2>2. CASE Fail
    BY <1>0, <2>2, FailStep
  <2>3. CASE Complete(Stray)
    BY <1>0, <2>3, ResultStep DEF Complete, Results
  <2>4. CASE /\ Complete(<<header, header>>)
             /\ down # <<>> /\ Head(down).part = "body" /\ Head(down).of = header
    <3>1. <<header, header>> \in Results
      BY <2>1, <2>4 DEF Results
    <3> QED BY <1>0, <2>4, <3>1, ResultStep DEF Complete
  <2>5. CASE UNCHANGED result
    BY <1>0, <2>5 DEF ResultType
  <2> QED BY <1>2, <2>2, <2>3, <2>4, <2>5
<1>5. StreamType'
  <2>1. \/ UNCHANGED down
        \/ down # <<>> /\ down' = Tail(down)
        \/ down # <<>> /\ \E left \in Left(Head(down)) : down' = left \o Tail(down)
    BY DEF GetBody, GetStrayBody
  <2>2. down' \in Seq(Fragments)
    BY <1>0, <1>1, <2>1, LeftType DEF StreamType
  <2> QED BY <1>0, <2>2 DEF GetBody, StreamType
<1>6. CountType'
  <2>1. UNCHANGED faults \/ Fault("stall")
    BY DEF GetBody
  <2> QED BY <1>0, <2>1, FaultType DEF GetBody, CountType
<1>7. FlagType'
  <2>1. upset' \in BOOLEAN
    BY <1>0 DEF GetBody, FlagType
  <2> QED BY <1>0, <1>2, <2>1 DEF GetBody, FlagType, UnlockConnection, serverVars
<1>8. ServerType'
  BY <1>0 DEF GetBody, ServerType, serverVars
<1>9. ClientInv'
  <2>1. pc = "body" /\ None # Garbage
    BY ExchangeConstants DEF GetBody, Garbage
  <2> QED BY <1>2, <2>1 DEF ClientInv, Fail, Complete
<1> QED BY <1>3, <1>4, <1>5, <1>6, <1>7, <1>8, <1>9 DEF TypeOK

LEMMA MdsDispatchEventTypes ==
  ASSUME TypeOK, ClientInv, StreamInv, MdsDispatchEvent
  PROVE  TypeOK' /\ ClientInv'
<1>0. FlagType /\ ClientType /\ ResultType /\ ServerType /\ StreamType /\ CountType
  BY DEF TypeOK
<1>1. upset
  BY <1>0 DEF MdsDispatchEvent, StreamInv, NoAnswer
<1>2. ClientInv'
  BY <1>1 DEF MdsDispatchEvent, ClientInv
<1>3. FlagType' /\ ResultType' /\ ServerType' /\ StreamType' /\ CountType'
  BY <1>0 DEF MdsDispatchEvent, FlagType, ResultType, ServerType, StreamType, CountType, serverVars
<1>4. ClientType'
  BY <1>0 DEF MdsDispatchEvent, ClientType
<1> QED BY <1>2, <1>3, <1>4 DEF TypeOK

LEMMA DoMessageTypes ==
  ASSUME TypeOK, ClientInv, DoMessage
  PROVE  TypeOK' /\ ClientInv'
<1> DEFINE m == Head(up)
<1>0. FlagType /\ ClientType /\ ResultType /\ ServerType /\ StreamType /\ CountType
  BY DEF TypeOK
<1>1. m \in Args /\ Tail(up) \in Seq(Args)
  BY <1>0, HeadTailProperties DEF DoMessage, StreamType
<1>2. /\ m.id \in 0 .. 255 /\ m.of \in Requests /\ m.idx \in Indices
      /\ nargs[m.of] \in 0 .. MAX_ARGS /\ Message(m.of) \in Seq(Fragments)
  BY <1>1, Constants, MessageType DEF Args
<1>3. standard_command(m) /\ up' = Tail(up)
  BY DEF DoMessage
<1> HIDE DEF m
<1>4. collected(m) \in [Indices -> Requests \cup {None}]
  BY <1>0, NoStream DEF collected, ServerType
<1>5. filled(m) \in [Indices -> Requests \cup {None}]
  BY <1>2, <1>4 DEF filled
<1>6. ServerType'
  <2>1. CASE refuse_request(m)
    BY <1>0, <1>2, <2>1, NoStream DEF refuse_request, ServerType
  <2>2. CASE take_argument(m)
    <3>1. last_id' \in 0 .. 255 /\ last_nargs' \in 0 .. MAX_ARGS
      BY <1>0, <1>2, <2>2 DEF take_argument, ServerType
    <3>2. CASE /\ descrip' = [collected(m) EXCEPT ![m.idx] = None]
               /\ response' = Message(m.of) /\ UNCHANGED executed
      BY <1>0, <1>2, <1>4, <3>1, <3>2 DEF ServerType
    <3>3. CASE execute_message(m, filled(m), last_nargs')
      <4>1. PICK args : args = filled(m)
        OBVIOUS
      <4>2. [i \in Indices |-> IF i < last_nargs' THEN args[i] ELSE None]
              \in [Indices -> Requests \cup {None}]
        BY <1>5, <4>1
      <4>3. executed' \in Seq([Indices -> Requests \cup {None}])
        BY <1>0, <3>3, <4>1, <4>2, AppendProperties DEF execute_message, ServerType
      <4> QED BY <1>2, <3>1, <3>3, <4>3, NoStream DEF execute_message, ServerType
    <3>4. CASE descrip' = filled(m) /\ UNCHANGED <<response, executed, event>>
      BY <1>0, <1>5, <3>1, <3>4 DEF ServerType
    <3> QED BY <2>2, <3>2, <3>3, <3>4 DEF take_argument
  <2> QED BY <1>3, <2>1, <2>2 DEF standard_command
<1>7. FlagType'
  <2>1. event' \in BOOLEAN /\ upset' \in BOOLEAN
    <3>1. CASE refuse_request(m)
      BY <1>0, <3>1 DEF refuse_request, FlagType
    <3>2. CASE take_argument(m)
      BY <1>0, <3>2 DEF take_argument, execute_message, FlagType
    <3> QED BY <1>3, <3>1, <3>2 DEF standard_command
  <2> QED BY <1>0, <2>1 DEF DoMessage, FlagType, clientVars
<1>8. StreamType'
  BY <1>0, <1>1, <1>3 DEF DoMessage, StreamType
<1>9. ClientType' /\ ResultType' /\ CountType'
  BY <1>0 DEF DoMessage, ClientType, ResultType, CountType, clientVars
<1>10. ClientInv'
  <2>1. ~upset' => ~upset
    BY <1>3 DEF standard_command, refuse_request, take_argument
  <2> QED BY <2>1 DEF DoMessage, ClientInv, clientVars
<1> QED BY <1>6, <1>7, <1>8, <1>9, <1>10 DEF TypeOK

LEMMA ServerTypes ==
  ASSUME TypeOK, ClientInv, send_response \/ destroyConnection \/ lost \/ client_event_ast
  PROVE  TypeOK' /\ ClientInv'
<1>0. FlagType /\ ClientType /\ ResultType /\ ServerType /\ StreamType /\ CountType
  BY DEF TypeOK
<1>1. UNCHANGED clientVars /\ (~upset' => ~upset)
  BY DEF send_response, destroyConnection, lost, client_event_ast
<1>2. ClientInv' /\ ClientType' /\ ResultType'
  <2>1. ClientType'
    BY <1>0, <1>1 DEF ClientType, clientVars
  <2>2. ResultType'
    BY <1>0, <1>1 DEF ResultType, clientVars
  <2>3. ClientInv'
    BY <1>1 DEF ClientInv, clientVars
  <2> QED BY <2>1, <2>2, <2>3
<1>3. CountType'
  <2>1. CASE lost
    BY <1>0, <2>1, FaultType DEF lost, CountType
  <2>2. CASE client_event_ast
    BY <1>0, <2>2, Constants DEF client_event_ast, CountType
  <2>3. CASE send_response \/ destroyConnection
    BY <1>0, <2>3 DEF send_response, destroyConnection, CountType
  <2> QED BY <2>1, <2>2, <2>3
<1>4. FlagType'
  BY <1>0 DEF send_response, destroyConnection, lost, client_event_ast, FlagType, clientVars,
     serverVars
<1>5. ServerType' /\ StreamType'
  <2>1. CASE send_response
    <3>1. Head(response) \in Fragments /\ Tail(response) \in Seq(Fragments)
      BY <1>0, <2>1, HeadTailProperties DEF send_response, ServerType
    <3>2. Append(down, Head(response)) \in Seq(Fragments)
      BY <1>0, <3>1, AppendProperties DEF StreamType
    <3> QED BY <1>0, <2>1, <3>1, <3>2 DEF send_response, ServerType, StreamType
  <2>2. CASE destroyConnection
    BY <1>0, <2>2 DEF destroyConnection, ServerType, StreamType
  <2>3. CASE lost
    BY <1>0, <2>3, NoStream DEF lost, ServerType, StreamType
  <2>4. CASE client_event_ast
    <3>1. Message(Event) \in Seq(Fragments)
      BY MessageType DEF Subjects
    <3> QED BY <1>0, <2>4, <3>1, ConcatProperties DEF client_event_ast, ServerType, StreamType,
               serverVars
  <2> QED BY <2>1, <2>2, <2>3, <2>4
<1> QED BY <1>2, <1>3, <1>4, <1>5 DEF TypeOK
-----------------------------------------------------------------------------
(* Every step keeps the account of the answers. *)

LEMMA Parts ==
  ASSUME NEW r
  PROVE  /\ Message(r) = <<HeaderOf(r), BodyOf(r)>>
         /\ HeaderOf(r).part = "header" /\ HeaderOf(r).of = r
         /\ BodyOf(r).part = "body" /\ BodyOf(r).of = r
BY DEF Message, HeaderOf, BodyOf

(* An answer is read or sent from its first part on. *)
LEMMA AnswerRead ==
  ASSUME NEW r, InStream(r), down # <<>>
  PROVE  /\ Head(down) = HeaderOf(r)
         /\ \/ Tail(down) = <<>> /\ response \in {<<BodyOf(r)>>, <<>>}
            \/ Tail(down) = <<BodyOf(r)>> /\ response = <<>>
<1>1. CASE down = <<HeaderOf(r)>> /\ response \in {<<BodyOf(r)>>, <<>>}
  BY <1>1
<1>2. CASE down = <<HeaderOf(r), BodyOf(r)>> /\ response = <<>>
  BY <1>2
<1> QED BY <1>1, <1>2, Parts DEF InStream

LEMMA AnswerSent ==
  ASSUME NEW r, InStream(r), response # <<>>,
         response' = Tail(response), down' = Append(down, Head(response))
  PROVE  \/ down' = <<HeaderOf(r)>> /\ response' = <<BodyOf(r)>>
         \/ down' = <<HeaderOf(r), BodyOf(r)>> /\ response' = <<>>
<1>1. CASE down = <<>> /\ response = <<HeaderOf(r), BodyOf(r)>>
  BY <1>1
<1>2. CASE down = <<HeaderOf(r)>> /\ response = <<BodyOf(r)>>
  <2>1. PICK h, b : h = HeaderOf(r) /\ b = BodyOf(r)
    OBVIOUS
  <2>3. Head(response) = b /\ response' = <<>>
    BY <1>2, <2>1
  <2>4. Append(<<h>>, b) = <<h, b>>
    <3>1. <<h>> \in Seq({h, b}) /\ <<h, b>> \in Seq({h, b}) /\ Append(<<h>>, b) \in Seq({h, b})
      BY AppendProperties
    <3>2. Len(Append(<<h>>, b)) = 2 /\ Append(<<h>>, b)[1] = h /\ Append(<<h>>, b)[2] = b
      BY <3>1
    <3>3. PICK s : s = Append(<<h>>, b)
      OBVIOUS
    <3>4. PICK t : t = <<h, b>>
      OBVIOUS
    <3>5. Len(s) = 2 /\ Len(t) = 2 /\ \A i \in 1 .. Len(s) : s[i] = t[i]
      BY <3>2, <3>3, <3>4
    <3>6. s \in Seq({h, b}) /\ t \in Seq({h, b})
      BY <3>1, <3>3, <3>4
    <3> QED BY <3>3, <3>4, <3>5, <3>6, SeqEqual
  <2> QED BY <1>2, <2>1, <2>3, <2>4
<1>3. \/ down = <<>> /\ response = <<HeaderOf(r), BodyOf(r)>>
      \/ down = <<HeaderOf(r)>> /\ response = <<BodyOf(r)>>
  BY Parts DEF InStream
<1> QED BY <1>1, <1>2, <1>3

LEMMA TailElements ==
  ASSUME up \in Seq(Args), up # <<>>, up' = Tail(up)
  PROVE  /\ Len(up') = Len(up) - 1 /\ Len(up) \in Nat
         /\ \A k \in DOMAIN up' : k + 1 \in DOMAIN up /\ up'[k] = up[k + 1]
         /\ 1 \in DOMAIN up /\ Head(up) = up[1]
BY HeadTailProperties

LEMMA ConnectToMdsStream ==
  ASSUME ConnectToMds PROVE StreamInv'
BY EmptySeq DEF ConnectToMds, StreamInv, NoAnswer

LEMMA MdsValueStream ==
  ASSUME StreamInv, MdsValue PROVE StreamInv'
BY DEF MdsValue, StreamInv, NoAnswer, serverVars

(* The message that is the last of its request ends the sending. *)
LEMMA SendArgStream ==
  ASSUME TypeOK, ClientInv, StreamInv, SendArg PROVE StreamInv'
<1> DEFINE id == IF arg = 0 THEN ConnectionIncMessageId ELSE message_id
           m == [id |-> id, of |-> req, idx |-> arg]
<1> SUFFICES ASSUME ~upset', inlist' PROVE StreamInv'
  BY DEF StreamInv
<1>1. pc = "send" /\ ~upset /\ inlist
  BY DEF SendArg, ClientInv
<1>2. NoAnswer /\ NoAnswer' /\ \A k \in DOMAIN up : ~Last(up[k])
  BY <1>1 DEF StreamInv, SendArg, NoAnswer, serverVars
<1>3. up \in Seq(Args) /\ req \in Requests /\ arg \in Nat /\ nargs[req] \in Nat /\ arg < nargs[req]
  BY <1>1, Constants DEF TypeOK, StreamType, ClientType
<1>4. m.of = req /\ m.idx = arg
  OBVIOUS
<1> HIDE DEF m
<1>5. CASE /\ up' = IF serving THEN Append(up, m) ELSE up
           /\ IF arg + 1 < nargs[req]
                THEN arg' = arg + 1 /\ UNCHANGED pc
                ELSE pc' = "header" /\ UNCHANGED arg
           /\ UNCHANGED req
  <2>1. \A k \in DOMAIN up' : (up'[k] = m /\ k = Len(up')) \/ (k \in DOMAIN up /\ up'[k] = up[k])
    BY <1>3, <1>5
  <2>2. CASE arg + 1 < nargs[req]
    <3>1. ~Last(m)
      BY <1>3, <1>4, <2>2 DEF Last
    <3>2. \A k \in DOMAIN up' : ~Last(up'[k])
      BY <1>2, <2>1, <3>1
    <3> QED BY <1>1, <1>2, <1>5, <2>2, <3>2 DEF StreamInv
  <2>3. CASE ~(arg + 1 < nargs[req])
    <3>1. \A k \in DOMAIN up' : Last(up'[k]) => k = Len(up') /\ up'[k].of = req
      BY <1>2, <1>4, <2>1
    <3> QED BY <1>2, <1>5, <2>3, <3>1 DEF StreamInv, Last
  <2> QED BY <2>2, <2>3
<1>6. CASE Fail /\ UNCHANGED up
  BY <1>2, <1>6 DEF StreamInv, Fail
<1> QED BY <1>5, <1>6 DEF SendArg, m, id

LEMMA SendDsc_failsStream ==
  ASSUME StreamInv, SendDsc_fails PROVE StreamInv'
BY DEF SendDsc_fails, StreamInv, NoAnswer, serverVars

LEMMA GetHeaderStream ==
  ASSUME ClientInv, StreamInv, GetHeader PROVE StreamInv'
<1> SUFFICES ASSUME ~upset', inlist' PROVE StreamInv'
  BY DEF StreamInv
<1>1. ~upset /\ inlist /\ pc = "header" /\ down # <<>> /\ UNCHANGED <<up, response>>
  <2>1. ~upset /\ inlist /\ down # <<>>
    <3>1. pc # "idle"
      BY DEF GetHeader
    <3>2. \/ down # <<>> /\ UNCHANGED upset
          \/ inlist' = FALSE
          \/ upset' = TRUE
      BY DEF GetHeader, CloseConnection
    <3>3. ~upset /\ down # <<>>
      BY <3>2
    <3> QED BY <3>1, <3>3 DEF ClientInv
  <2> QED BY <2>1 DEF GetHeader, StreamInv, serverVars
<1>2. up = <<>> /\ InStream(req)
  BY <1>1 DEF StreamInv, NoAnswer
<1>3. Head(down) = HeaderOf(req)
  BY <1>1, <1>2, AnswerRead
<1>4. down' = Tail(down) /\ header' = req /\ pc' = "body" /\ UNCHANGED req
  BY <1>1, <1>3, Parts DEF GetHeader
<1>5. NoAnswer' \/ BodyInStream(req)'
  BY <1>1, <1>2, <1>4, AnswerRead DEF NoAnswer, BodyInStream, BodyOf
<1> QED BY <1>1, <1>2, <1>4, <1>5 DEF StreamInv, BodyInStream, BodyOf

(* Without an upset, what is read as a body is the body of the answer. *)
LEMMA OwnBody ==
  ASSUME TypeOK, ClientInv, StreamInv, GetBody, ~upset'
  PROVE  /\ ~upset /\ inlist /\ up = <<>> /\ header = req
         /\ down # <<>> /\ BodyInStream(req) /\ Head(down) = BodyOf(req)
         /\ Complete(<<header, header>>) /\ down' = Tail(down)
<1>1. ~upset /\ inlist /\ pc = "body"
  BY DEF GetBody, ClientInv
<1>2. up = <<>> /\ header = req /\ (NoAnswer \/ BodyInStream(req))
  BY <1>1 DEF StreamInv
<1>3. header # Garbage
  BY <1>1, <1>2, Constants DEF ClientInv, Requests, Garbage
<1>4. down # <<>>
  BY <1>3 DEF GetBody, GetStrayBody
<1>5. BodyInStream(req)
  BY <1>2, <1>4 DEF NoAnswer
<1>6. Head(down) = BodyOf(req)
  BY <1>4, <1>5 DEF BodyInStream
<1>7. Complete(<<header, header>>) /\ down' = Tail(down)
  BY <1>2, <1>4, <1>6, Parts DEF GetBody
<1> QED BY <1>1, <1>2, <1>4, <1>5, <1>6, <1>7

LEMMA GetBodyStream ==
  ASSUME TypeOK, ClientInv, StreamInv, GetBody PROVE StreamInv'
<1> SUFFICES ASSUME ~upset', inlist' PROVE StreamInv'
  BY DEF StreamInv
<1>1. up = <<>> /\ BodyInStream(req) /\ down # <<>> /\ down' = Tail(down) /\ pc' = "idle"
  BY OwnBody DEF Complete
<1>2. UNCHANGED <<up, response>>
  BY DEF GetBody, serverVars
<1>3. down = <<BodyOf(req)>> /\ response = <<>>
  BY <1>1 DEF BodyInStream
<1>4. NoAnswer'
  BY <1>1, <1>2, <1>3 DEF NoAnswer
<1> QED BY <1>1, <1>2, <1>4, EmptySeq DEF StreamInv

LEMMA MdsDispatchEventStream ==
  ASSUME StreamInv, MdsDispatchEvent PROVE StreamInv'
BY DEF MdsDispatchEvent, StreamInv, NoAnswer

(* Only the last argument of a request makes its answer. *)
LEMMA DoMessageStream ==
  ASSUME TypeOK, StreamInv, DoMessage PROVE StreamInv'
<1> DEFINE m == Head(up)
<1> SUFFICES ASSUME ~upset', inlist' PROVE StreamInv'
  BY DEF StreamInv
<1>1. /\ inlist /\ up # <<>> /\ up' = Tail(up) /\ response = <<>>
      /\ UNCHANGED <<pc, req, header, down>>
  BY DEF DoMessage, clientVars
<1>2. /\ up \in Seq(Args) /\ Len(up') = Len(up) - 1 /\ Len(up) \in Nat /\ DOMAIN up' = 1 .. Len(up')
      /\ \A k \in DOMAIN up' : k + 1 \in DOMAIN up /\ up'[k] = up[k + 1]
      /\ 1 \in DOMAIN up /\ m = up[1]
  BY <1>1, TailElements, HeadTailProperties DEF TypeOK, StreamType
<1>3. ~upset /\ take_argument(m)
  BY DEF DoMessage, standard_command, refuse_request, take_argument
<1> HIDE DEF m
<1>4. (~Last(m) => response' = <<>>) /\ (Last(m) => response' = Message(m.of))
  BY <1>1, <1>3 DEF take_argument, execute_message, Last
<1>5. CASE pc \in {"idle", "send"}
  BY <1>1, <1>2, <1>3, <1>4, <1>5 DEF StreamInv, NoAnswer
<1>6. CASE pc = "header"
  <2>1. NoAnswer /\ \A k \in DOMAIN up : Last(up[k]) => k = Len(up) /\ up[k].of = req
    BY <1>1, <1>3, <1>6 DEF StreamInv
  <2>2. CASE Last(m)
    <3>1. Len(up) = 1 /\ m.of = req
      BY <1>2, <2>1, <2>2
    <3>2. up' = <<>>
      BY <1>1, <1>2, <3>1, HeadTailProperties, EmptySeq
    <3>3. InStream(req)'
      BY <1>1, <1>4, <2>1, <2>2, <3>1 DEF InStream, NoAnswer, Message
    <3> QED BY <1>1, <1>6, <3>2, <3>3 DEF StreamInv
  <2>3. CASE ~Last(m)
    <3>1. NoAnswer'
      BY <1>1, <1>4, <2>1, <2>3 DEF NoAnswer
    <3>2. \A k \in DOMAIN up' : Last(up'[k]) => k = Len(up') /\ up'[k].of = req'
      BY <1>1, <1>2, <2>1
    <3> QED BY <1>1, <1>6, <3>1, <3>2 DEF StreamInv, Last
  <2> QED BY <2>2, <2>3
<1>7. CASE pc = "body"
  BY <1>1, <1>3, <1>7 DEF StreamInv
<1>8. pc # "more"
  BY <1>1, <1>3 DEF StreamInv
<1> QED BY <1>5, <1>6, <1>7, <1>8 DEF TypeOK, ClientType

LEMMA send_responseStream ==
  ASSUME StreamInv, send_response PROVE StreamInv'
<1> SUFFICES ASSUME ~upset', inlist' PROVE StreamInv'
  BY DEF StreamInv
<1>1. /\ ~upset /\ inlist /\ response # <<>>
      /\ response' = Tail(response) /\ down' = Append(down, Head(response))
      /\ UNCHANGED <<pc, req, header, up>>
  BY DEF send_response, clientVars
<1>2. pc \notin {"idle", "send"}
  BY <1>1 DEF StreamInv, NoAnswer
<1>3. CASE pc = "header"
  <2>1. up = <<>> /\ InStream(req)
    BY <1>1, <1>3 DEF StreamInv, NoAnswer
  <2>2. InStream(req)'
    BY <1>1, <2>1, AnswerSent DEF InStream, HeaderOf, BodyOf, Message
  <2> QED BY <1>1, <1>3, <2>1, <2>2 DEF StreamInv
<1>4. CASE pc = "body"
  <2>1. up = <<>> /\ header = req /\ BodyInStream(req)
    BY <1>1, <1>4 DEF StreamInv, NoAnswer
  <2>2. BodyInStream(req)'
    <3>1. response = <<BodyOf(req)>> /\ down = <<>>
      BY <1>1, <2>1 DEF BodyInStream
    <3>2. response' = <<>> /\ down' = <<BodyOf(req)>>
      BY <1>1, <3>1
    <3> QED BY <1>1, <3>2 DEF BodyInStream, BodyOf
  <2> QED BY <1>1, <1>4, <2>1, <2>2 DEF StreamInv
<1> QED BY <1>1, <1>2, <1>3, <1>4 DEF StreamInv

LEMMA lostStream ==
  ASSUME StreamInv, lost PROVE StreamInv'
<1> SUFFICES ASSUME ~upset', inlist' PROVE StreamInv'
  BY DEF StreamInv
<1>1. /\ ~upset /\ inlist /\ response' = <<>> /\ up' = <<>>
      /\ UNCHANGED <<pc, req, header, down>>
  BY DEF lost, clientVars
<1>2. DOMAIN up' = {}
  BY <1>1, EmptySeq
<1>3. CASE pc = "header"
  <2>1. NoAnswer' \/ InStream(req)'
    BY <1>1, <1>3 DEF StreamInv, NoAnswer, InStream, HeaderOf, BodyOf, Message
  <2> QED BY <1>1, <1>2, <1>3, <2>1 DEF StreamInv
<1>4. CASE pc = "body"
  BY <1>1, <1>4 DEF StreamInv, NoAnswer, BodyInStream, BodyOf
<1>5. CASE pc \notin {"header", "body"}
  BY <1>1, <1>2, <1>5 DEF StreamInv, NoAnswer
<1> QED BY <1>3, <1>4, <1>5

LEMMA OthersStream ==
  ASSUME StreamInv, destroyConnection \/ client_event_ast \/ UNCHANGED vars PROVE StreamInv'
<1>1. CASE destroyConnection
  BY <1>1 DEF destroyConnection, StreamInv, clientVars
<1>2. CASE client_event_ast
  BY <1>2 DEF client_event_ast, StreamInv
<1>3. CASE UNCHANGED vars
  BY <1>3 DEF vars, StreamInv, NoAnswer, InStream, BodyInStream, HeaderOf, BodyOf, Message, Last
<1> QED BY <1>1, <1>2, <1>3
-----------------------------------------------------------------------------
(* The invariant, and what follows from it. *)

LEMMA StutterTypes ==
  ASSUME TypeOK, ClientInv, UNCHANGED vars
  PROVE  TypeOK' /\ ClientInv'
<1>1. FlagType' /\ ClientType' /\ ResultType'
  BY DEF TypeOK, vars, FlagType, ClientType, ResultType
<1>2. ServerType' /\ StreamType' /\ CountType'
  BY DEF TypeOK, vars, ServerType, StreamType, CountType
<1> QED BY <1>1, <1>2 DEF TypeOK, vars, ClientInv

LEMMA NextInv ==
  ASSUME Inv, [Next]_vars
  PROVE  Inv'
<1>0. TypeOK /\ ClientInv /\ StreamInv
  BY DEF Inv
<1>1. CASE ConnectToMds
  BY <1>0, <1>1, ConnectToMdsTypes, ConnectToMdsStream DEF Inv
<1>2. CASE MdsValue
  BY <1>0, <1>2, MdsValueTypes, MdsValueStream DEF Inv
<1>3. CASE SendArg
  BY <1>0, <1>3, SendArgTypes, SendArgStream DEF Inv
<1>4. CASE SendDsc_fails
  BY <1>0, <1>4, SendDsc_failsTypes, SendDsc_failsStream DEF Inv
<1>5. CASE GetHeader
  BY <1>0, <1>5, GetHeaderTypes, GetHeaderStream DEF Inv
<1>6. CASE GetBody
  BY <1>0, <1>6, GetBodyTypes, GetBodyStream DEF Inv
<1>7. CASE MdsDispatchEvent
  BY <1>0, <1>7, MdsDispatchEventTypes, MdsDispatchEventStream DEF Inv
<1>8. CASE DoMessage
  BY <1>0, <1>8, DoMessageTypes, DoMessageStream DEF Inv
<1>9. CASE send_response
  BY <1>0, <1>9, ServerTypes, send_responseStream DEF Inv
<1>10. CASE lost
  BY <1>0, <1>10, ServerTypes, lostStream DEF Inv
<1>11. CASE destroyConnection \/ client_event_ast
  BY <1>0, <1>11, ServerTypes, OthersStream DEF Inv
<1>12. CASE UNCHANGED vars
  BY <1>0, <1>12, StutterTypes, OthersStream DEF Inv
<1> QED BY <1>1, <1>2, <1>3, <1>4, <1>5, <1>6, <1>7, <1>8, <1>9, <1>10, <1>11, <1>12
           DEF Next, ClientStep, ServerStep

LEMMA InvHolds == Spec => []Inv
<1>1. Init => Inv
  BY InitTypes DEF Inv
<1>2. Inv /\ [Next]_vars => Inv'
  BY NextInv
<1> QED BY <1>1, <1>2, PTL DEF Spec

(* A result that is neither kept nor an error was read from the stream. *)
LEMMA AnswerStep ==
  ASSUME Inv, [Next]_vars, NEW r \in Requests,
         result'[r] \notin {result[r], Failed, Unserialized}, ~upset
  PROVE  result'[r] = <<r, r>>
<1>0. result \in [Requests -> Results] /\ ClientInv /\ StreamInv
  BY DEF Inv, TypeOK, ResultType
<1>1. CASE UNCHANGED result
  BY <1>1
<1>2. CASE result' = [result EXCEPT ![req] = Failed] \/ result' = [result EXCEPT ![req] = Unserialized]
  BY <1>0, <1>2
<1>3. CASE GetBody
  <2>1. CASE Fail
    BY <1>0, <2>1 DEF Fail
  <2>2. CASE ~Fail
    <3>1. ~upset'
      BY <1>3, <2>2 DEF GetBody
    <3>2. header = req /\ Complete(<<header, header>>)
      BY <1>0, <1>3, <3>1, OwnBody DEF Inv
    <3> QED BY <1>0, <3>2 DEF Complete
  <2> QED BY <2>1, <2>2
<1>4. CASE GetHeader
  BY <1>0, <1>4 DEF GetHeader, GetStray, Fail
<1> QED BY <1>1, <1>2, <1>3, <1>4
        DEF Next, ClientStep, ServerStep, vars, ConnectToMds, MdsValue, SendArg, SendDsc_fails,
            MdsDispatchEvent, DoMessage, send_response, destroyConnection, lost,
            client_event_ast, Fail, clientVars

(***************************************************************************)
(* The variables of MdsipExchange keep their types: the client's state, the *)
(* message ids, the streams and what the server collects of a request.      *)
(***************************************************************************)
THEOREM TypeCorrect == Spec => []TypeOK
<1>1. Inv => TypeOK
  BY DEF Inv
<1> QED BY <1>1, InvHolds, PTL

(***************************************************************************)
(* GetAnswerInfoTS does not compare message ids, and still a call gets the  *)
(* answer to its own request, as long as nothing upset the connection.      *)
(***************************************************************************)
THEOREM AnswersOwn == Spec => OwnAnswer
<1>1. Inv /\ [Next]_vars =>
        [\A r \in Requests :
           result'[r] \notin {result[r], Failed, Unserialized} /\ ~upset => result'[r] = <<r, r>>]_vars
  BY AnswerStep
<1> QED BY <1>1, InvHolds, PTL DEF Spec, OwnAnswer
-----------------------------------------------------------------------------
(* What the server collects. *)

(* The request the message id of the client's connection belongs to. *)
Current == IF pc = "send" /\ arg = 0 THEN req - 1 ELSE req

(* A message id of this connection belongs to a request.  Ids count modulo  *)
(* 255, with 0, of a new connection, beside 255.                            *)
Named(id, r) ==
  id \in 0 .. 255 /\ id - r \in {message_id - Current, message_id - Current + 255}

Refused(r) == nargs[r] >= MAX_ARGS - 1

(* What comes after the first c arguments of request r. *)
After(r, c, s, i) ==
  \/ s = r /\ i = c
  \/ s > r /\ (i = 0 \/ Refused(s))

ClientAfter(r, c) == IF pc = "send" THEN After(r, c, req, arg) ELSE r <= req

(* The arguments on their way are in order, and none is left out. *)
OrderInv ==
  /\ ~serving => up = <<>>
  /\ \A k \in DOMAIN up :
       /\ up[k].id # INVALID_MESSAGE_ID /\ Named(up[k].id, up[k].of)
       /\ up[k].idx < nargs[up[k].of]
       /\ k > 1 => After(up[k - 1].of, up[k - 1].idx + 1, up[k].of, up[k].idx)
  /\ up # <<>> => ClientAfter(up[Len(up)].of, up[Len(up)].idx + 1)

(***************************************************************************)
(* The server took the first c arguments of request r and waits for the     *)
(* next one; c is MAX_ARGS when there is nothing left to wait for.          *)
(***************************************************************************)
Taken(r, c) ==
  /\ Named(last_id, r) /\ (last_id = INVALID_MESSAGE_ID => c = MAX_ARGS)
  /\ c # MAX_ARGS => /\ r \in Requests /\ c < nargs[r] /\ last_nargs = nargs[r]
                     /\ \A i \in Indices : i < c /\ descrip[i] = None => <<r, i>> \in Bad
  /\ \A i \in Indices : descrip[i] # None => descrip[i] = r /\ i < c
  /\ \A k \in DOMAIN executed :
       /\ executed[k][0] \in Requests /\ executed[k][0] <= r
       /\ c # MAX_ARGS => executed[k][0] < r
  /\ serving => IF up = <<>> THEN ClientAfter(r, c) ELSE After(r, c, up[1].of, up[1].idx)

IntactInv == OrderInv /\ RequestIntact /\ \E r \in 0 .. N, c \in 0 .. MAX_ARGS : Taken(r, c)

IdStep ==
  \/ message_id' = message_id /\ Current' = Current
  \/ message_id' = ConnectionIncMessageId /\ Current' = Current + 1

LEMMA CurrentType ==
  ASSUME TypeOK
  PROVE  Current \in 0 .. N /\ message_id \in 0 .. 255 /\ req \in 0 .. N
BY Constants DEF TypeOK, ClientType, Current, Requests

(* The ids of a connection tell its requests apart. *)
LEMMA NamedOnce ==
  ASSUME N <= 254, TypeOK, NEW r \in 0 .. N, NEW s \in 0 .. N, NEW a, NEW b, Named(a, r), Named(b, s)
  PROVE  /\ a = b => r = s
         /\ r = s /\ a # INVALID_MESSAGE_ID /\ b # INVALID_MESSAGE_ID => a = b
<1>1. PICK d : d = message_id - Current
  OBVIOUS
<1>2. /\ d \in Int /\ N \in Nat /\ a \in 0 .. 255 /\ b \in 0 .. 255
      /\ (a - r = d \/ a - r = d + 255) /\ (b - s = d \/ b - s = d + 255)
  BY <1>1, CurrentType, Constants DEF Named
<1> QED BY <1>2 DEF INVALID_MESSAGE_ID

(* They do so although they wrap around. *)
LEMMA NamedKept ==
  ASSUME N <= 254, TypeOK, IdStep, NEW r \in 0 .. N, NEW id, Named(id, r)
  PROVE  Named(id, r)'
<1>1. PICK old, new, cur : old = message_id /\ new = message_id' /\ cur = Current
  OBVIOUS
<1>2. /\ old \in 0 .. 255 /\ cur \in 0 .. N /\ N \in Nat /\ id \in 0 .. 255
      /\ (id - r = old - cur \/ id - r = old - cur + 255)
  BY <1>1, CurrentType, Constants DEF Named
<1>3. CASE new = old /\ Current' = cur
  BY <1>1, <1>2, <1>3 DEF Named
<1>4. CASE new = ConnectionIncMessageId /\ Current' = cur + 1
  <2>1. new = IF old = 255 \/ old = 0 THEN 1 ELSE old + 1
    BY <1>1, <1>2, <1>4 DEF ConnectionIncMessageId, INVALID_MESSAGE_ID
  <2>2. id - r = new - (cur + 1) \/ id - r = new - (cur + 1) + 255
    BY <1>2, <2>1
  <2> QED BY <1>1, <1>2, <1>4, <2>2 DEF Named
<1> QED BY <1>1, <1>3, <1>4 DEF IdStep

(* Where the elements of up are. *)
LEMMA UpType ==
  ASSUME TypeOK
  PROVE  /\ Len(up) \in Nat /\ DOMAIN up = 1 .. Len(up) /\ (up = <<>> <=> Len(up) = 0)
         /\ \A k \in DOMAIN up :
              /\ up[k].of \in Requests /\ up[k].of \in 0 .. N
              /\ up[k].idx \in Indices /\ up[k].idx + 1 \in 0 .. MAX_ARGS
<1>1. up \in Seq(Args)
  BY DEF TypeOK, StreamType
<1>2. Len(up) \in Nat /\ DOMAIN up = 1 .. Len(up) /\ (up = <<>> <=> Len(up) = 0)
  BY <1>1, LenProperties, EmptySeq
<1>3. ASSUME NEW k \in DOMAIN up
      PROVE  up[k].of \in Requests /\ up[k].idx \in Indices
  <2>1. up[k] \in Args
    BY <1>1, <1>2, <1>3, ElementOfSeq
  <2> QED BY <2>1 DEF Args
<1>4. (\A r \in Requests : r \in 0 .. N) /\ (\A i \in Indices : i + 1 \in 0 .. MAX_ARGS)
  <2>1. N \in Nat /\ MAX_ARGS \in Nat
    BY Constants
  <2> QED BY <2>1 DEF Requests, Indices
<1> QED BY <1>2, <1>3, <1>4

(***************************************************************************)
(* The server takes nothing, and the client at most goes on to its next     *)
(* request.                                                                 *)
(***************************************************************************)
LEMMA KeptIntact ==
  ASSUME N <= 254, TypeOK, IntactInv, IdStep,
         \A r \in 0 .. N, c \in 0 .. MAX_ARGS : ClientAfter(r, c) => ClientAfter(r, c)',
         UNCHANGED <<last_id, last_nargs, descrip, executed>>,
         UNCHANGED <<up, serving>> \/ (up' = <<>> /\ serving' = FALSE)
  PROVE  IntactInv'
<1>1. PICK r \in 0 .. N, c \in 0 .. MAX_ARGS : Taken(r, c)
  BY DEF IntactInv
<1>2. Named(last_id, r)'
  <2>1. PICK id : id = last_id /\ id = last_id'
    OBVIOUS
  <2>2. Named(id, r)'
    BY <1>1, <2>1, NamedKept DEF Taken
  <2> QED BY <2>1, <2>2 DEF Named
<1>3. OrderInv'
  <2>1. CASE up' = <<>> /\ serving' = FALSE
    BY <2>1, EmptySeq DEF OrderInv
  <2>2. CASE UNCHANGED <<up, serving>>
    <3> PICK u : u = up /\ u = up'
      BY <2>2
    <3>1. ASSUME NEW k \in DOMAIN u
          PROVE  Named(u[k].id, u[k].of)'
      <4>1. PICK id, s : id = u[k].id /\ s = u[k].of
        OBVIOUS
      <4>2. Named(id, s) /\ s \in 0 .. N
        BY <3>1, <4>1, UpType DEF IntactInv, OrderInv
      <4>3. Named(id, s)'
        BY <4>2, NamedKept
      <4> QED BY <4>1, <4>3 DEF Named
    <3>2. u # <<>> => ClientAfter(u[Len(u)].of, u[Len(u)].idx + 1)'
      <4>1. PICK s, i : s = u[Len(u)].of /\ i = u[Len(u)].idx + 1
        OBVIOUS
      <4>2. u # <<>> => ClientAfter(s, i) /\ s \in 0 .. N /\ i \in 0 .. MAX_ARGS
        BY <4>1, UpType DEF IntactInv, OrderInv
      <4>3. u # <<>> => ClientAfter(s, i)'
        BY <4>2
      <4> QED BY <4>1, <4>3 DEF ClientAfter, After
    <3> QED BY <2>2, <3>1, <3>2 DEF IntactInv, OrderInv, Named, ClientAfter, After
  <2> QED BY <2>1, <2>2
<1>4. serving' => IF up' = <<>> THEN ClientAfter(r, c)' ELSE After(r, c, up'[1].of, up'[1].idx)
  BY <1>1 DEF Taken
<1>5. Taken(r, c)'
  BY <1>1, <1>2, <1>4 DEF Taken, After
<1>6. RequestIntact'
  BY DEF IntactInv, RequestIntact
<1> QED BY <1>3, <1>5, <1>6 DEF IntactInv

LEMMA StopsIntact ==
  ASSUME N <= 254, TypeOK, IntactInv, IdStep, pc' # "send", req' = req,
         UNCHANGED <<last_id, last_nargs, descrip, executed>>,
         UNCHANGED <<up, serving>> \/ (up' = <<>> /\ serving' = FALSE)
  PROVE  IntactInv'
<1>1. ASSUME NEW r \in 0 .. N, NEW c \in 0 .. MAX_ARGS, ClientAfter(r, c)
      PROVE  ClientAfter(r, c)'
  BY <1>1, CurrentType, Constants DEF ClientAfter, After
<1> QED BY <1>1, KeptIntact

LEMMA MdsValueIntact ==
  ASSUME N <= 254, TypeOK, IntactInv, MdsValue
  PROVE  IntactInv'
<1>1. ASSUME NEW r \in 0 .. N, NEW c \in 0 .. MAX_ARGS, ClientAfter(r, c)
      PROVE  ClientAfter(r, c)'
  BY <1>1, CurrentType, Constants DEF MdsValue, ClientAfter, After
<1>2. IdStep
  BY CurrentType DEF IdStep, MdsValue, Current
<1> QED BY <1>1, <1>2, KeptIntact DEF MdsValue, serverVars

LEMMA ConnectToMdsIntact ==
  ASSUME TypeOK, ConnectToMds
  PROVE  IntactInv'
<1>1. req \in 0 .. N /\ N \in Nat /\ MAX_ARGS \in 0 .. MAX_ARGS
  BY CurrentType, Constants
<1>2. OrderInv' /\ RequestIntact'
  BY EmptySeq DEF ConnectToMds, OrderInv, RequestIntact
<1>3. Taken(req, MAX_ARGS)'
  <2>1. Named(last_id, req)'
    BY <1>1 DEF ConnectToMds, Named, Current, INVALID_MESSAGE_ID
  <2>2. \A i \in Indices : descrip'[i] = None
    BY DEF ConnectToMds, NoArgs
  <2>3. ClientAfter(req, MAX_ARGS)'
    BY <1>1 DEF ConnectToMds, ClientAfter
  <2>4. up' = <<>> /\ DOMAIN executed' = {}
    BY EmptySeq DEF ConnectToMds
  <2> QED BY <2>1, <2>2, <2>3, <2>4 DEF Taken
<1>4. req' = req
  BY DEF ConnectToMds
<1>5. \E r \in 0 .. N, c \in 0 .. MAX_ARGS : Taken(r, c)'
  BY <1>1, <1>3, <1>4 DEF Taken, Named, ClientAfter, After
<1> QED BY <1>2, <1>5 DEF IntactInv

LEMMA InitIntact ==
  ASSUME Init
  PROVE  IntactInv
<1>1. 0 \in 0 .. N /\ N \in Nat /\ MAX_ARGS \in 0 .. MAX_ARGS /\ FirstId \in 0 .. 255
  BY Constants
<1>2. OrderInv /\ RequestIntact
  BY EmptySeq DEF Init, OrderInv, RequestIntact
<1>3. Taken(0, MAX_ARGS)
  <2>1. Named(last_id, 0)
    BY <1>1 DEF Init, Named, Current
  <2>2. \A i \in Indices : descrip[i] = None
    BY DEF Init, NoArgs
  <2>3. ClientAfter(0, MAX_ARGS) /\ up = <<>> /\ DOMAIN executed = {}
    BY <1>1, EmptySeq DEF Init, ClientAfter
  <2> QED BY <2>1, <2>2, <2>3 DEF Taken
<1> QED BY <1>1, <1>2, <1>3 DEF IntactInv

(* The client sends the next argument. *)
LEMMA SendArgIntact ==
  ASSUME N <= 254, TypeOK, ClientInv, IntactInv, SendArg
  PROVE  IntactInv'
<1> PICK r, a : r = req /\ a = arg
  OBVIOUS
<1> PICK id : id = IF a = 0 THEN ConnectionIncMessageId ELSE message_id
  OBVIOUS
<1> PICK m : m = [id |-> id, of |-> r, idx |-> a]
  OBVIOUS
<1>1. /\ pc = "send" /\ r \in Requests /\ r \in 0 .. N /\ a \in Indices /\ a < nargs[r]
      /\ a + 1 \in 0 .. MAX_ARGS /\ nargs[r] \in 1 .. MAX_ARGS - 1 /\ MAX_ARGS \in Nat
      /\ UNCHANGED <<last_id, last_nargs, descrip, executed, serving>>
  BY Constants DEF SendArg, TypeOK, ClientType, Indices, Requests, serverVars
<1>2. id \in 0 .. 255 /\ id # INVALID_MESSAGE_ID /\ message_id' = id
  BY <1>1, NextId DEF SendArg, ClientInv, ClientType, TypeOK
<1>3. m.id = id /\ m.of = r /\ m.idx = a /\ m \in Args
  BY <1>1, <1>2 DEF Args
<1>4. req' = r /\ (pc' # "send" \/ (arg' = a + 1 /\ a + 1 < nargs[r])) /\ arg' \in Nat
  BY <1>1 DEF SendArg, Fail, Indices
<1>5. Current' = r /\ Current = (IF a = 0 THEN r - 1 ELSE r)
  BY <1>1, <1>4 DEF Current, Indices
<1>6. IdStep
  BY <1>1, <1>2, <1>5 DEF IdStep, Requests
<1>7. CASE Fail /\ UNCHANGED up
  BY <1>1, <1>4, <1>6, <1>7, StopsIntact DEF Fail
<1>8. CASE /\ up' = (IF serving THEN Append(up, m) ELSE up)
           /\ IF a + 1 < nargs[r] THEN arg' = a + 1 /\ UNCHANGED pc ELSE pc' = "header"
  <2>1. PICK r0 \in 0 .. N, c0 \in 0 .. MAX_ARGS : Taken(r0, c0)
    BY DEF IntactInv
  <2>2. Named(id, r)'
    BY <1>1, <1>2, <1>5 DEF Named
  <2>3. \A s, n : Named(n, s) /\ s \in 0 .. N => Named(n, s)'
    BY <1>6, NamedKept
  <2>4. Named(last_id, r0)'
    <3>1. PICK n : n = last_id /\ n = last_id'
      BY <1>1
    <3>2. Named(n, r0)'
      BY <2>1, <2>3, <3>1 DEF Taken
    <3> QED BY <3>1, <3>2 DEF Named
  <2>5. ClientAfter(r, a + 1)'
    BY <1>1, <1>4, <1>8 DEF ClientAfter, After, Requests
  <2>6. CASE ~serving
    <3>1. up = <<>> /\ up' = <<>>
      BY <1>8, <2>6 DEF IntactInv, OrderInv
    <3>2. OrderInv'
      BY <3>1, EmptySeq DEF OrderInv
    <3>3. Taken(r0, c0)'
      BY <1>1, <2>1, <2>4, <2>6 DEF Taken
    <3> QED BY <1>1, <3>2, <3>3 DEF IntactInv, RequestIntact
  <2>7. CASE serving
    <3> PICK u, v, n : u = up /\ v = up' /\ n = Len(up)
      OBVIOUS
    <3>1. /\ n \in Nat /\ Len(v) = n + 1 /\ DOMAIN v = 1 .. n + 1 /\ DOMAIN u = 1 .. n
          /\ v[n + 1] = m /\ \A k \in 1 .. n : v[k] = u[k]
          /\ v # <<>>
      <4>1. u \in Seq(Args) /\ v = Append(u, m)
        BY <1>8, <2>7 DEF TypeOK, StreamType
      <4>2. v \in Seq(Args) /\ Len(v) = n + 1 /\ v[n + 1] = m /\ \A k \in 1 .. n : v[k] = u[k]
        BY <1>3, <4>1, AppendProperties
      <4>3. n \in Nat /\ DOMAIN u = 1 .. n /\ DOMAIN v = 1 .. n + 1
        BY <4>1, <4>2, LenProperties
      <4> QED BY <4>2, <4>3, EmptySeq
    <3>2. (* What comes after the last argument on its way is this one. *)
          n > 0 => After(u[n].of, u[n].idx + 1, r, a)
      <4>1. u # <<>> => ClientAfter(u[n].of, u[n].idx + 1)
        BY DEF IntactInv, OrderInv
      <4>2. n > 0 => u # <<>>
        BY EmptySeq
      <4> QED BY <1>1, <4>1, <4>2 DEF ClientAfter
    <3>3. ASSUME NEW k \in DOMAIN v
          PROVE  /\ v[k].id # INVALID_MESSAGE_ID /\ Named(v[k].id, v[k].of)'
                 /\ v[k].idx < nargs[v[k].of]
                 /\ k > 1 => After(v[k - 1].of, v[k - 1].idx + 1, v[k].of, v[k].idx)
      <4> PICK e : e = v[k]
        OBVIOUS
      <4>1. CASE k = n + 1
        <5>1. e = m
          BY <3>1, <4>1
        <5>2. k > 1 => k - 1 = n /\ n > 0 /\ v[k - 1] = u[n]
          BY <3>1, <4>1
        <5> QED BY <1>1, <1>2, <1>3, <2>2, <3>2, <5>1, <5>2 DEF Named
      <4>2. CASE k \in 1 .. n
        <5>1. /\ e = u[k] /\ e.id # INVALID_MESSAGE_ID /\ Named(e.id, e.of) /\ e.idx < nargs[e.of]
              /\ k > 1 => After(u[k - 1].of, u[k - 1].idx + 1, e.of, e.idx)
          BY <3>1, <4>2 DEF IntactInv, OrderInv
        <5>2. Named(e.id, e.of)'
          BY <2>3, <3>1, <4>2, <5>1, UpType
        <5>3. k > 1 => v[k - 1] = u[k - 1]
          BY <3>1, <4>2
        <5> QED BY <5>1, <5>2, <5>3 DEF Named
      <4> QED BY <3>1, <3>3, <4>1, <4>2
    <3>4. ClientAfter(v[Len(v)].of, v[Len(v)].idx + 1)'
      <4>1. v[Len(v)] = m
        BY <3>1
      <4>2. v[Len(v)].of = r /\ v[Len(v)].idx + 1 = a + 1
        BY <1>3, <4>1
      <4> QED BY <2>5, <4>2 DEF ClientAfter, After
    <3>5. OrderInv'
      BY <1>1, <2>7, <3>3, <3>4 DEF OrderInv, Named, ClientAfter, After
    <3>6. After(r0, c0, v[1].of, v[1].idx)
      <4>1. CASE n = 0
        <5>1. up = <<>> /\ v[1] = m
          BY <3>1, <4>1, UpType
        <5>2. ClientAfter(r0, c0)
          BY <2>1, <2>7, <5>1 DEF Taken
        <5> QED BY <1>1, <1>3, <5>1, <5>2 DEF ClientAfter
      <4>2. CASE n # 0
        <5>1. up # <<>> /\ v[1] = u[1]
          BY <3>1, <4>2, UpType
        <5> QED BY <2>1, <2>7, <5>1 DEF Taken
      <4> QED BY <4>1, <4>2
    <3>7. Taken(r0, c0)'
      BY <1>1, <2>1, <2>4, <3>1, <3>6 DEF Taken, After
    <3> QED BY <1>1, <3>5, <3>7 DEF IntactInv, RequestIntact
  <2> QED BY <2>6, <2>7
<1> QED BY <1>3, <1>7, <1>8 DEF SendArg

(* The server takes an argument; what comes next follows it. *)
UpMoves ==
  /\ Len(up) \in Nat \ {0} /\ Len(up') = Len(up) - 1
  /\ DOMAIN up = 1 .. Len(up) /\ DOMAIN up' = 1 .. Len(up')
  /\ \A k \in DOMAIN up' : k + 1 \in DOMAIN up /\ up'[k] = up[k + 1]
  /\ (up = <<>> <=> Len(up) = 0) /\ (up' = <<>> <=> Len(up') = 0)

LEMMA TailUp ==
  ASSUME TypeOK, up # <<>>, up' = Tail(up)
  PROVE  UpMoves
<1>1. up \in Seq(Args) /\ up' \in Seq(Args)
  BY HeadTailProperties DEF TypeOK, StreamType
<1>2. /\ Len(up') = Len(up) - 1
      /\ \A k \in DOMAIN up' : k + 1 \in DOMAIN up /\ up'[k] = up[k + 1]
  BY <1>1, TailElements
<1>3. Len(up) \in Nat \ {0} /\ DOMAIN up = 1 .. Len(up) /\ (up = <<>> <=> Len(up) = 0)
  BY UpType
<1>4. DOMAIN up' = 1 .. Len(up') /\ (up' = <<>> <=> Len(up') = 0)
  BY <1>1, LenProperties, EmptySeq
<1> QED BY <1>2, <1>3, <1>4 DEF UpMoves

LEMMA OrderTaken ==
  ASSUME TypeOK, IntactInv, serving, UpMoves,
         UNCHANGED <<pc, req, arg, message_id, serving>>
  PROVE  OrderInv'
<1> PICK u, v : u = up /\ v = up'
  OBVIOUS
<1>1. /\ Len(u) \in Nat \ {0} /\ Len(v) = Len(u) - 1 /\ DOMAIN u = 1 .. Len(u) /\ DOMAIN v = 1 .. Len(v)
      /\ \A k \in DOMAIN v : k + 1 \in DOMAIN u /\ v[k] = u[k + 1]
      /\ (u = <<>> <=> Len(u) = 0) /\ (v = <<>> <=> Len(v) = 0)
  BY DEF UpMoves
<1>2. \A k \in DOMAIN u :
        /\ u[k].id # INVALID_MESSAGE_ID /\ Named(u[k].id, u[k].of) /\ u[k].idx < nargs[u[k].of]
        /\ k > 1 => After(u[k - 1].of, u[k - 1].idx + 1, u[k].of, u[k].idx)
  BY DEF IntactInv, OrderInv
<1>3. ClientAfter(u[Len(u)].of, u[Len(u)].idx + 1)
  BY <1>1 DEF IntactInv, OrderInv
<1>4. (* What was there before keeps its place. *)
      \A n, s : Named(n, s) => Named(n, s)'
  BY DEF Named, Current
<1>5. \A s, n : ClientAfter(s, n) => ClientAfter(s, n)'
  BY DEF ClientAfter, After
<1>6. ASSUME NEW k \in DOMAIN v
      PROVE  /\ v[k].id # INVALID_MESSAGE_ID /\ Named(v[k].id, v[k].of)'
             /\ v[k].idx < nargs[v[k].of]
             /\ k > 1 => After(v[k - 1].of, v[k - 1].idx + 1, v[k].of, v[k].idx)
  <2>1. PICK e, j : e = v[k] /\ j = k + 1
    OBVIOUS
  <2>2. /\ j \in DOMAIN u /\ e = u[j]
        /\ e.id # INVALID_MESSAGE_ID /\ Named(e.id, e.of) /\ e.idx < nargs[e.of]
        /\ j > 1 => After(u[j - 1].of, u[j - 1].idx + 1, e.of, e.idx)
    BY <1>1, <1>2, <1>6, <2>1
  <2>3. k > 1 => v[k - 1] = u[j - 1]
    BY <1>1, <1>6, <2>1
  <2>4. j > 1
    BY <1>1, <1>6, <2>1
  <2>5. Named(e.id, e.of)'
    BY <1>4, <2>2
  <2> QED BY <2>1, <2>2, <2>3, <2>4, <2>5 DEF Named
<1>7. v # <<>> => ClientAfter(v[Len(v)].of, v[Len(v)].idx + 1)'
  <2>1. v # <<>> => v[Len(v)] = u[Len(u)]
    BY <1>1
  <2>2. PICK s, n : s = u[Len(u)].of /\ n = u[Len(u)].idx + 1
    OBVIOUS
  <2>3. ClientAfter(s, n)'
    BY <1>3, <1>5, <2>2
  <2> QED BY <2>1, <2>2, <2>3 DEF ClientAfter, After
<1> QED BY <1>6, <1>7 DEF OrderInv, Named, ClientAfter, After

LEMMA NextTaken ==
  ASSUME TypeOK, IntactInv, serving, UpMoves,
         UNCHANGED <<pc, req, arg, message_id, serving>>,
         NEW r \in 0 .. N, NEW c, r <= up[1].of,
         \A s \in Requests, i \in Indices :
           After(up[1].of, up[1].idx + 1, s, i) /\ i < nargs[s] => After(r, c, s, i)
  PROVE  IF up' = <<>> THEN ClientAfter(r, c)' ELSE After(r, c, up'[1].of, up'[1].idx)
<1> PICK u, v : u = up /\ v = up'
  OBVIOUS
<1>1. /\ Len(u) \in Nat \ {0} /\ Len(v) = Len(u) - 1 /\ DOMAIN u = 1 .. Len(u) /\ DOMAIN v = 1 .. Len(v)
      /\ \A k \in DOMAIN v : k + 1 \in DOMAIN u /\ v[k] = u[k + 1]
      /\ (u = <<>> <=> Len(u) = 0) /\ (v = <<>> <=> Len(v) = 0)
  BY DEF UpMoves
<1>2. \A k \in DOMAIN u :
        /\ u[k].idx < nargs[u[k].of]
        /\ k > 1 => After(u[k - 1].of, u[k - 1].idx + 1, u[k].of, u[k].idx)
  BY DEF IntactInv, OrderInv
<1>3. ClientAfter(u[Len(u)].of, u[Len(u)].idx + 1)
  BY <1>1 DEF IntactInv, OrderInv
<1>4. u[1].of \in 0 .. N /\ u[1].idx + 1 \in 0 .. MAX_ARGS /\ N \in Nat
  BY <1>1, UpType, Constants
<1>5. CASE v = <<>>
  <2>1. ClientAfter(u[1].of, u[1].idx + 1)
    <3>1. Len(u) = 1
      BY <1>1, <1>5
    <3> QED BY <1>3, <3>1 DEF ClientAfter, After
  <2>2. CASE pc = "send"
    <3>1. req \in Requests /\ arg \in Indices /\ arg < nargs[req]
      <4>1. req \in Requests /\ arg \in Nat /\ arg < nargs[req] /\ nargs[req] \in 1 .. MAX_ARGS - 1
            /\ MAX_ARGS \in Nat
        BY <2>2, Constants DEF TypeOK, ClientType
      <4> QED BY <4>1 DEF Indices
    <3> QED BY <1>5, <2>1, <2>2, <3>1 DEF ClientAfter, After
  <2>3. CASE pc # "send"
    <3>1. u[1].of <= req /\ req \in 0 .. N
      BY <2>1, <2>3, CurrentType DEF ClientAfter
    <3>2. r <= req
      BY <1>4, <3>1
    <3> QED BY <1>5, <2>3, <3>2 DEF ClientAfter
  <2> QED BY <2>2, <2>3
<1>6. CASE v # <<>>
  <2>1. 1 \in DOMAIN v /\ 2 \in DOMAIN u /\ v[1] = u[2]
    BY <1>1, <1>6
  <2>2. After(u[1].of, u[1].idx + 1, u[2].of, u[2].idx) /\ u[2].idx < nargs[u[2].of]
    <3>1. PICK k : k = 2
      OBVIOUS
    <3>2. k > 1 /\ k - 1 = 1 /\ k \in DOMAIN u
      BY <2>1, <3>1
    <3> QED BY <1>2, <3>1, <3>2
  <2>3. u[2].of \in Requests /\ u[2].idx \in Indices
    BY <2>1, UpType
  <2> QED BY <1>6, <2>1, <2>2, <2>3
<1> QED BY <1>5, <1>6

(* A request is executed that is whole, and later than the ones before. *)
LEMMA AppendIntact ==
  ASSUME RequestIntact, NEW E, executed \in Seq(E), NEW e \in E, executed' = Append(executed, e),
         NEW r \in Requests, e[0] = r,
         \A i \in Indices : \/ e[i] = r /\ i < nargs[r]
                            \/ e[i] = None /\ (i < nargs[r] => <<r, i>> \in Bad),
         \A k \in DOMAIN executed : executed[k][0] \in Requests /\ executed[k][0] < r
  PROVE  /\ RequestIntact'
         /\ \A k \in DOMAIN executed' : executed'[k][0] \in Requests /\ executed'[k][0] <= r
<1> PICK x, y, n : x = executed /\ y = executed' /\ n = Len(x) + 1
  OBVIOUS
<1>1. /\ n \in Nat \ {0} /\ DOMAIN x = 1 .. n - 1 /\ DOMAIN y = 1 .. n
      /\ y[n] = e /\ \A k \in DOMAIN x : y[k] = x[k]
  <2>1. y \in Seq(E) /\ Len(y) = Len(x) + 1 /\ y[Len(x) + 1] = e /\ \A k \in 1 .. Len(x) : y[k] = x[k]
    BY AppendProperties
  <2>2. Len(x) \in Nat /\ DOMAIN x = 1 .. Len(x) /\ DOMAIN y = 1 .. Len(y)
    BY <2>1, LenProperties
  <2> QED BY <2>1, <2>2
<1>2. ASSUME NEW k \in DOMAIN y
      PROVE  (k \in DOMAIN x /\ y[k] = x[k]) \/ (k = n /\ y[k] = e)
  BY <1>1, <1>2
<1>3. r \in Nat /\ Requests \subseteq Nat
  BY DEF Requests
<1>4. ASSUME NEW k \in DOMAIN y
      PROVE  y[k][0] \in Requests /\ y[k][0] <= r
  <2>1. CASE k \in DOMAIN x /\ y[k] = x[k]
    <3>1. PICK q : q = x[k][0]
      OBVIOUS
    <3>2. q \in Requests /\ q < r
      BY <2>1, <3>1
    <3>3. q \in Requests /\ q <= r
      BY <1>3, <3>2
    <3> QED BY <2>1, <3>1, <3>3
  <2>2. CASE y[k] = e
    BY <1>3, <2>2
  <2> QED BY <1>2, <1>4, <2>1, <2>2
<1>5. ASSUME NEW k \in DOMAIN y, NEW i \in Indices
      PROVE  \/ y[k][i] = y[k][0] /\ i < nargs[y[k][0]]
             \/ y[k][i] = None /\ (i < nargs[y[k][0]] => <<y[k][0], i>> \in Bad)
  BY <1>2, <1>5 DEF RequestIntact
<1>6. ASSUME NEW j \in DOMAIN y, NEW k \in DOMAIN y, j < k
      PROVE  y[j][0] < y[k][0]
  <2>1. j \in DOMAIN x /\ y[j] = x[j]
    BY <1>1, <1>2, <1>6
  <2>2. CASE k \in DOMAIN x
    BY <1>1, <1>6, <2>1, <2>2 DEF RequestIntact
  <2>3. CASE y[k] = e
    BY <2>1, <2>3
  <2> QED BY <1>2, <2>2, <2>3
<1> QED BY <1>4, <1>5, <1>6 DEF RequestIntact

(***************************************************************************)
(* A message id says whether the argument is the next one of the request    *)
(* being collected; if not, it starts a later one.                          *)
(***************************************************************************)
LEMMA NextArgument ==
  ASSUME N <= 254, TypeOK, IntactInv, up # <<>>, serving,
         NEW r \in 0 .. N, NEW c \in 0 .. MAX_ARGS, Taken(r, c)
  PROVE  /\ up[1] \in Args /\ up[1].of \in Requests /\ up[1].of \in 0 .. N /\ up[1].idx \in Indices
         /\ up[1].id # INVALID_MESSAGE_ID /\ Named(up[1].id, up[1].of) /\ up[1].idx < nargs[up[1].of]
         /\ \/ up[1].id = last_id /\ up[1].of = r /\ up[1].idx = c /\ c # MAX_ARGS
            \/ up[1].id # last_id /\ up[1].of > r /\ (up[1].idx = 0 \/ Refused(up[1].of))
<1> PICK m : m = up[1]
  OBVIOUS
<1>1. 1 \in DOMAIN up /\ m \in Args
  BY UpType, ElementOfSeq DEF TypeOK, StreamType
<1>2. m.of \in Requests /\ m.of \in 0 .. N /\ m.idx \in Indices
  BY <1>1, UpType
<1>3. m.id # INVALID_MESSAGE_ID /\ Named(m.id, m.of) /\ m.idx < nargs[m.of]
  BY <1>1 DEF IntactInv, OrderInv
<1>4. After(r, c, m.of, m.idx) /\ Named(last_id, r) /\ (last_id = INVALID_MESSAGE_ID => c = MAX_ARGS)
  BY DEF Taken
<1>5. /\ m.id = last_id => m.of = r
      /\ m.of = r /\ last_id # INVALID_MESSAGE_ID => m.id = last_id
  BY <1>2, <1>3, <1>4, NamedOnce
<1>6. MAX_ARGS \in Nat /\ m.idx \in 0 .. MAX_ARGS - 1 /\ N \in Nat
  BY <1>2, Constants DEF Indices
<1>7. CASE m.of = r /\ m.idx = c
  BY <1>4, <1>5, <1>6, <1>7, <1>1, <1>2, <1>3
<1>8. CASE m.of > r /\ (m.idx = 0 \/ Refused(m.of))
  <2>1. m.of # r
    BY <1>2, <1>6, <1>8
  <2> QED BY <1>1, <1>2, <1>3, <1>5, <1>8, <2>1
<1> QED BY <1>4, <1>7, <1>8 DEF After

(* The arguments before it are there, unless they were refused. *)
LEMMA CollectedBefore ==
  ASSUME N <= 254, TypeOK, IntactInv, up # <<>>, serving, ~TooMany(up[1]),
         NEW r \in 0 .. N, NEW c \in 0 .. MAX_ARGS, Taken(r, c)
  PROVE  /\ collected(up[1]) \in [Indices -> Requests \cup {None}]
         /\ \A j \in Indices :
              /\ collected(up[1])[j] # None => collected(up[1])[j] = up[1].of /\ j < up[1].idx
              /\ j < up[1].idx /\ collected(up[1])[j] = None => <<up[1].of, j>> \in Bad
         /\ filled(up[1]) = [collected(up[1]) EXCEPT ![up[1].idx] = up[1].of]
         /\ (IF last_id # up[1].id THEN nargs[up[1].of] ELSE last_nargs) = nargs[up[1].of]
         /\ r <= up[1].of
         /\ \A k \in DOMAIN executed : executed[k][0] \in Requests /\ executed[k][0] < up[1].of
<1> PICK m, s, i, A : m = up[1] /\ s = m.of /\ i = m.idx /\ A = collected(m)
  OBVIOUS
<1>1. /\ m \in Args /\ s \in Requests /\ i \in Indices
      /\ \/ m.id = last_id /\ s = r /\ i = c /\ c # MAX_ARGS
         \/ m.id # last_id /\ s > r /\ (i = 0 \/ Refused(s))
  BY NextArgument
<1>2. /\ \A j \in Indices : descrip[j] # None => descrip[j] = r /\ j < c
      /\ c # MAX_ARGS => /\ last_nargs = nargs[r]
                         /\ \A j \in Indices : j < c /\ descrip[j] = None => <<r, j>> \in Bad
      /\ \A k \in DOMAIN executed :
           /\ executed[k][0] \in Requests /\ executed[k][0] <= r
           /\ c # MAX_ARGS => executed[k][0] < r
  BY DEF Taken
<1>3. Requests \subseteq Nat /\ Indices \subseteq Nat /\ s \in Nat /\ i \in Nat /\ r \in Nat /\ s # None
  <2>1. N \in Nat /\ MAX_ARGS \in Nat /\ None \notin Requests
    BY Constants
  <2> QED BY <1>1, <2>1 DEF Requests, Indices
<1>4. descrip \in [Indices -> Requests \cup {None}] /\ NoArgs \in [Indices -> Requests \cup {None}]
  BY DEF TypeOK, ServerType, NoArgs
<1>5. ~(last_id # m.id /\ Refused(s))
  BY <1>1 DEF TooMany, Refused
<1>6. CASE m.id = last_id /\ s = r /\ i = c /\ c # MAX_ARGS
  <2>1. A = descrip
    BY <1>6 DEF collected
  <2>2. A[i] = None
    BY <1>1, <1>2, <1>3, <1>6, <2>1
  <2>3. filled(m) = [A EXCEPT ![i] = s]
    BY <2>2 DEF filled
  <2>4. \A k \in DOMAIN executed : executed[k][0] \in Requests /\ executed[k][0] < s
    BY <1>2, <1>6
  <2>5. \A j \in Indices : /\ A[j] # None => A[j] = s /\ j < i
                           /\ j < i /\ A[j] = None => <<s, j>> \in Bad
    BY <1>2, <1>6, <2>1
  <2> QED BY <1>2, <1>3, <1>4, <1>6, <2>1, <2>3, <2>4, <2>5
<1>7. CASE m.id # last_id /\ s > r /\ i = 0
  <2>1. A = NoArgs
    BY <1>7 DEF collected
  <2>2. \A j \in Indices : A[j] = None /\ ~(j < i)
    BY <1>3, <1>7, <2>1 DEF NoArgs
  <2>3. filled(m) = [A EXCEPT ![i] = s]
    BY <1>1, <2>2 DEF filled
  <2>4. ASSUME NEW k \in DOMAIN executed
        PROVE  executed[k][0] \in Requests /\ executed[k][0] < s
    <3>1. PICK q : q = executed[k][0]
      OBVIOUS
    <3>2. q \in Nat /\ q \in Requests /\ q <= r
      BY <1>2, <1>3, <2>4, <3>1
    <3> QED BY <1>3, <1>7, <3>1, <3>2
  <2>5. r <= s
    BY <1>3, <1>7
  <2> QED BY <1>4, <1>7, <2>1, <2>2, <2>3, <2>4, <2>5
<1> QED BY <1>1, <1>5, <1>6, <1>7

(* The request is executed when its last argument is taken. *)
LEMMA ExecuteIntact ==
  ASSUME TypeOK, RequestIntact, NEW s \in Requests, NEW i \in Indices, i = nargs[s] - 1,
         NEW A \in [Indices -> Requests \cup {None}], NEW m, m.of = s,
         \A j \in Indices : /\ A[j] # None => A[j] = s /\ j < i
                            /\ j < i /\ A[j] = None => <<s, j>> \in Bad,
         \A k \in DOMAIN executed : executed[k][0] \in Requests /\ executed[k][0] < s,
         execute_message(m, [A EXCEPT ![i] = s], nargs[s])
  PROVE  /\ RequestIntact' /\ descrip' = NoArgs
         /\ \A k \in DOMAIN executed' : executed'[k][0] \in Requests /\ executed'[k][0] <= s
<1> PICK F : F = [A EXCEPT ![i] = s]
  OBVIOUS
<1> PICK e : e = [j \in Indices |-> IF j < nargs[s] THEN F[j] ELSE None]
  OBVIOUS
<1>1. /\ nargs[s] \in 1 .. MAX_ARGS - 1 /\ MAX_ARGS \in Nat /\ 0 \in Indices /\ Indices \subseteq Nat
      /\ i \in Nat /\ s \in Nat /\ s # None /\ Requests \subseteq Nat
  BY Constants DEF Indices, Requests
<1>2. F \in [Indices -> Requests \cup {None}] /\ F[i] = s /\ \A j \in Indices : j # i => F[j] = A[j]
  OBVIOUS
<1>3. e \in [Indices -> Requests \cup {None}] /\ e[0] = F[0]
  BY <1>1, <1>2
<1>4. descrip' = NoArgs
  BY DEF execute_message
<1>5. CASE F[0] = None
  <2>1. executed' = executed
    BY <1>5 DEF execute_message
  <2>2. ASSUME NEW k \in DOMAIN executed
        PROVE  executed[k][0] \in Requests /\ executed[k][0] <= s
    <3>1. PICK q : q = executed[k][0]
      OBVIOUS
    <3>2. q \in Requests /\ q < s
      BY <2>2, <3>1
    <3>3. q \in Requests /\ q <= s
      BY <1>1, <3>2
    <3> QED BY <3>1, <3>3
  <2> QED BY <1>4, <2>1, <2>2 DEF RequestIntact
<1>6. CASE F[0] # None
  <2>1. executed' = Append(executed, e)
    BY <1>6 DEF execute_message
  <2>2. e[0] = s
    BY <1>1, <1>2, <1>3, <1>6
  <2>3. ASSUME NEW j \in Indices
        PROVE  \/ e[j] = s /\ j < nargs[s]
               \/ e[j] = None /\ (j < nargs[s] => <<s, j>> \in Bad)
    <3>1. CASE j < nargs[s] /\ j # i
      <4>1. j < i /\ e[j] = A[j]
        BY <1>1, <1>2, <2>3, <3>1
      <4> QED BY <2>3, <3>1, <4>1
    <3>2. CASE j = i
      <4>1. e[j] = s /\ j < nargs[s]
        BY <1>1, <1>2, <3>2
      <4> QED BY <4>1
    <3>3. CASE ~(j < nargs[s])
      BY <2>3, <3>3
    <3> QED BY <3>1, <3>2, <3>3
  <2>4. PICK E : E = [Indices -> Requests \cup {None}]
    OBVIOUS
  <2>5. executed \in Seq(E) /\ e \in E
    BY <1>3, <2>4 DEF TypeOK, ServerType
  <2>6. /\ RequestIntact'
        /\ \A k \in DOMAIN executed' : executed'[k][0] \in Requests /\ executed'[k][0] <= s
    BY <2>1, <2>2, <2>3, <2>5, AppendIntact
  <2> QED BY <1>4, <2>6
<1> QED BY <1>5, <1>6

(* The server takes the next argument. *)
LEMMA DoMessageIntact ==
  ASSUME N <= 254, TypeOK, IntactInv, DoMessage
  PROVE  IntactInv'
<1> PICK r \in 0 .. N, c \in 0 .. MAX_ARGS : Taken(r, c)
  BY DEF IntactInv
<1> PICK m, s, i, A : m = up[1] /\ s = m.of /\ i = m.idx /\ A = collected(m)
  OBVIOUS
<1>1. /\ serving /\ up # <<>> /\ up' = Tail(up) /\ standard_command(m)
      /\ UNCHANGED <<pc, req, arg, message_id, serving>>
  <2>1. Head(up) = up[1]
    BY DEF TypeOK, StreamType, DoMessage
  <2> QED BY <2>1 DEF DoMessage, clientVars
<1>2. UpMoves
  BY <1>1, TailUp
<1>3. OrderInv' /\ RequestIntact
  BY <1>1, <1>2, OrderTaken DEF IntactInv
<1>4. /\ m \in Args /\ s \in Requests /\ s \in 0 .. N /\ i \in Indices /\ i < nargs[s]
      /\ m.id # INVALID_MESSAGE_ID /\ Named(m.id, s)
      /\ \/ m.id = last_id /\ s = r /\ i = c /\ c # MAX_ARGS
         \/ m.id # last_id /\ s > r /\ (i = 0 \/ Refused(s))
  BY <1>1, NextArgument
<1>5. /\ N \in Nat /\ MAX_ARGS \in Nat \ {0} /\ Indices \subseteq Nat /\ s \in Nat /\ i \in Nat /\ r \in Nat
      /\ nargs[s] \in 1 .. MAX_ARGS - 1 /\ s # None
  BY <1>4, Constants DEF Indices, Requests
<1>6. ASSUME NEW a, NEW b, Named(a, b)
      PROVE  Named(a, b)'
  BY <1>1, <1>6 DEF Named, Current
<1>7. CASE refuse_request(m)
  <2>1. last_id # m.id /\ Refused(s)
    BY <1>7 DEF refuse_request, TooMany, Refused
  <2>2. s > r
    BY <1>4, <2>1
  <2>3. ASSUME NEW t \in Requests, NEW j \in Indices, After(s, i + 1, t, j)
        PROVE  After(r, MAX_ARGS, t, j)
    <3>1. t \in Nat
      BY DEF Requests
    <3> QED BY <1>5, <2>1, <2>2, <2>3, <3>1 DEF After
  <2>4. IF up' = <<>> THEN ClientAfter(r, MAX_ARGS)' ELSE After(r, MAX_ARGS, up'[1].of, up'[1].idx)
    <3>1. /\ serving /\ UNCHANGED <<pc, req, arg, message_id, serving>>
          /\ up[1].of = s /\ up[1].idx = i /\ r <= up[1].of
      BY <1>1, <1>5, <2>2
    <3>2. \A t \in Requests, j \in Indices :
            After(up[1].of, up[1].idx + 1, t, j) /\ j < nargs[t] => After(r, MAX_ARGS, t, j)
      BY <2>3, <3>1
    <3> QED BY <1>2, <3>1, <3>2, NextTaken
  <2>5. UNCHANGED <<last_id, executed>> /\ descrip' = NoArgs
    BY <1>7 DEF refuse_request
  <2>6. Named(last_id, r)'
    <3>1. PICK a : a = last_id /\ a = last_id'
      BY <2>5
    <3>2. Named(a, r)'
      BY <1>6, <3>1 DEF Taken
    <3> QED BY <3>1, <3>2 DEF Named
  <2>7. \A k \in DOMAIN executed : executed[k][0] \in Requests /\ executed[k][0] <= r
    BY DEF Taken
  <2>8. Taken(r, MAX_ARGS)'
    BY <2>4, <2>5, <2>6, <2>7 DEF Taken, NoArgs
  <2>9. RequestIntact'
    BY <1>3, <2>5 DEF RequestIntact
  <2> QED BY <1>3, <1>5, <2>8, <2>9 DEF IntactInv
<1>8. CASE take_argument(m)
  <2> DEFINE next == IF i = nargs[s] - 1 THEN MAX_ARGS ELSE i + 1
  <2> PICK d : d = next
    OBVIOUS
  <2>1. ~TooMany(m) /\ last_id' = m.id
        /\ last_nargs' = IF last_id # m.id THEN nargs[s] ELSE last_nargs
    BY <1>8 DEF take_argument
  <2>2. /\ A \in [Indices -> Requests \cup {None}]
        /\ \A j \in Indices : /\ A[j] # None => A[j] = s /\ j < i
                              /\ j < i /\ A[j] = None => <<s, j>> \in Bad
        /\ filled(m) = [A EXCEPT ![i] = s]
        /\ last_nargs' = nargs[s] /\ r <= s
        /\ \A k \in DOMAIN executed : executed[k][0] \in Requests /\ executed[k][0] < s
    BY <1>1, <2>1, CollectedBefore
  <2>3. d \in 0 .. MAX_ARGS /\ (d # MAX_ARGS <=> i # nargs[s] - 1) /\ (d # MAX_ARGS => d = i + 1 /\ d < nargs[s])
    BY <1>4, <1>5
  <2>4. ASSUME NEW t \in Requests, NEW j \in Indices, After(s, i + 1, t, j), j < nargs[t]
        PROVE  After(s, d, t, j)
    BY <1>5, <2>4 DEF After
  <2>5. IF up' = <<>> THEN ClientAfter(s, d)' ELSE After(s, d, up'[1].of, up'[1].idx)
    <3>1. up[1].of <= up[1].of
      BY <1>5
    <3> QED BY <1>1, <1>2, <1>4, <2>4, <3>1, NextTaken
  <2>6. Named(last_id, s)'
    <3>1. PICK a : a = m.id
      OBVIOUS
    <3>2. Named(a, s)'
      BY <1>4, <1>6, <3>1
    <3> QED BY <2>1, <3>1, <3>2 DEF Named
  <2>7. (* What the request still lacks was refused. *)
        /\ \A j \in Indices : /\ descrip'[j] # None => descrip'[j] = s /\ j < d
                              /\ d # MAX_ARGS /\ j < d /\ descrip'[j] = None => <<s, j>> \in Bad
        /\ RequestIntact'
        /\ \A k \in DOMAIN executed' : /\ executed'[k][0] \in Requests /\ executed'[k][0] <= s
                                       /\ d # MAX_ARGS => executed'[k][0] < s
    <3>1. CASE <<s, i>> \in Bad /\ descrip' = [A EXCEPT ![i] = None] /\ UNCHANGED executed
      <4>1. \A j \in Indices : descrip'[j] = IF j = i THEN None ELSE A[j]
        BY <2>2, <3>1
      <4>2. ASSUME NEW j \in Indices
            PROVE  /\ descrip'[j] # None => descrip'[j] = s /\ j < d
                   /\ d # MAX_ARGS /\ j < d /\ descrip'[j] = None => <<s, j>> \in Bad
        BY <1>5, <2>2, <2>3, <3>1, <4>1, <4>2
      <4>3. ASSUME NEW k \in DOMAIN executed'
            PROVE  executed'[k][0] \in Requests /\ executed'[k][0] <= s /\ executed'[k][0] < s
        BY <1>5, <2>2, <3>1, <4>3 DEF Requests
      <4> QED BY <1>3, <3>1, <4>2, <4>3 DEF RequestIntact
    <3>2. CASE i = nargs[s] - 1 /\ execute_message(m, [A EXCEPT ![i] = s], nargs[s])
      <4>1. /\ RequestIntact' /\ descrip' = NoArgs
            /\ \A k \in DOMAIN executed' : executed'[k][0] \in Requests /\ executed'[k][0] <= s
        BY <1>3, <1>4, <2>2, <3>2, ExecuteIntact
      <4>2. d = MAX_ARGS
        BY <2>3, <3>2
      <4> QED BY <4>1, <4>2 DEF NoArgs
    <3>3. CASE i # nargs[s] - 1 /\ descrip' = [A EXCEPT ![i] = s] /\ UNCHANGED executed
      <4>1. \A j \in Indices : descrip'[j] = IF j = i THEN s ELSE A[j]
        BY <2>2, <3>3
      <4>2. ASSUME NEW j \in Indices
            PROVE  /\ descrip'[j] # None => descrip'[j] = s /\ j < d
                   /\ d # MAX_ARGS /\ j < d /\ descrip'[j] = None => <<s, j>> \in Bad
        BY <1>5, <2>2, <2>3, <3>3, <4>1, <4>2
      <4>3. ASSUME NEW k \in DOMAIN executed'
            PROVE  executed'[k][0] \in Requests /\ executed'[k][0] <= s /\ executed'[k][0] < s
        BY <1>5, <2>2, <3>3, <4>3 DEF Requests
      <4> QED BY <1>3, <3>3, <4>2, <4>3 DEF RequestIntact
    <3> QED BY <1>8, <2>2, <3>1, <3>2, <3>3 DEF take_argument
  <2>8. Taken(s, d)'
    BY <1>4, <2>1, <2>2, <2>3, <2>5, <2>6, <2>7 DEF Taken
  <2> QED BY <1>3, <1>4, <2>3, <2>7, <2>8 DEF IntactInv
<1> QED BY <1>1, <1>7, <1>8 DEF standard_command

(* The client gives up, reads or waits. *)
LEMMA ClientIntact ==
  ASSUME N <= 254, TypeOK, IntactInv, SendDsc_fails \/ GetHeader \/ GetBody \/ MdsDispatchEvent
  PROVE  IntactInv'
<1>1. /\ pc' # "send" /\ UNCHANGED <<message_id, req, last_id, last_nargs, descrip, executed, up, serving>>
  BY DEF SendDsc_fails, GetHeader, GetStray, GetBody, GetStrayBody, Complete, MdsDispatchEvent, Fail,
         serverVars
<1>2. Current' = Current
  <2>1. ~(pc = "send" /\ arg = 0)
    <3>1. arg \in Nat
      BY Constants DEF TypeOK, ClientType
    <3> QED BY <3>1 DEF SendDsc_fails, GetHeader, GetBody, MdsDispatchEvent
  <2> QED BY <1>1, <2>1 DEF Current
<1> QED BY <1>1, <1>2, StopsIntact DEF IdStep

(* The server sends or stops. *)
LEMMA ServerIntact ==
  ASSUME N <= 254, TypeOK, IntactInv,
         send_response \/ destroyConnection \/ lost \/ client_event_ast \/ UNCHANGED vars
  PROVE  IntactInv'
<1>1. UNCHANGED <<pc, req, arg, message_id, last_id, last_nargs, descrip, executed>>
  BY DEF send_response, destroyConnection, lost, client_event_ast, vars, clientVars, serverVars
<1>2. UNCHANGED <<up, serving>> \/ (up' = <<>> /\ serving' = FALSE)
  BY DEF send_response, destroyConnection, lost, client_event_ast, vars, clientVars, serverVars
<1>3. IdStep /\ \A r \in 0 .. N, c \in 0 .. MAX_ARGS : ClientAfter(r, c) => ClientAfter(r, c)'
  BY <1>1 DEF IdStep, Current, ClientAfter, After
<1> QED BY <1>1, <1>2, <1>3, KeptIntact

LEMMA IntactNext ==
  ASSUME N <= 254, Inv, IntactInv, [Next]_vars
  PROVE  IntactInv'
<1>1. TypeOK /\ ClientInv
  BY DEF Inv
<1>2. CASE ConnectToMds
  BY <1>1, <1>2, ConnectToMdsIntact
<1>3. CASE MdsValue
  BY <1>1, <1>3, MdsValueIntact
<1>4. CASE SendArg
  BY <1>1, <1>4, SendArgIntact
<1>5. CASE SendDsc_fails \/ GetHeader \/ GetBody \/ MdsDispatchEvent
  BY <1>1, <1>5, ClientIntact
<1>6. CASE DoMessage
  BY <1>1, <1>6, DoMessageIntact
<1>7. CASE send_response \/ destroyConnection \/ lost \/ client_event_ast \/ UNCHANGED vars
  BY <1>1, <1>7, ServerIntact
<1> QED BY <1>2, <1>3, <1>4, <1>5, <1>6, <1>7 DEF Next, ClientStep, ServerStep

(***************************************************************************)
(* What standard_command executes are whole requests, each at most once and *)
(* in their order, whatever the faults, the refused arguments and the first *)
(* message id, as long as a connection does not come to an id again: when   *)
(* the server saw none of the 254 requests in between, one that was given   *)
(* up is completed by the arguments of another.                             *)
(***************************************************************************)
THEOREM RequestsWhole ==
  ASSUME N <= 254
  PROVE  Spec => []RequestIntact
<1>1. Init => IntactInv
  BY InitIntact
<1>2. Inv /\ IntactInv /\ [Next]_vars => IntactInv'
  BY IntactNext
<1>3. IntactInv => RequestIntact
  BY DEF IntactInv
<1> QED BY <1>1, <1>2, <1>3, InvHolds, PTL DEF Spec
================================================================================
