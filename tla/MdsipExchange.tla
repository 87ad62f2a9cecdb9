----------------------------- MODULE MdsipExchange -----------------------------
(***************************************************************************)
(* The mdsip protocol between one client thread and the server thread that  *)
(* serves its connection: SendArg.c, SendMdsMsg.c, GetMdsMsg.c,             *)
(* GetAnswerInfo.c, MdsValue.c, Connections.c, DoMessage.c and the          *)
(* commands of ProcessMessage.c.                                            *)
(*                                                                          *)
(* A request is sent as one message per argument; the server collects the   *)
(* arguments by the message id and executes the request with the last one.  *)
(* Messages to the client are read in two parts, header and body.  When the *)
(* stream is out of step, what is read as a header is not one, and it may   *)
(* end within a part of a message.  An event the client asked for is sent   *)
(* by another thread of the server on the same connection.                  *)
(*                                                                          *)
(* A send that fails does so before its first byte.                         *)
(***************************************************************************)
EXTENDS Integers, Sequences

CONSTANTS
  N,          \* the client makes the requests 1 .. N, in this order
  nargs,      \* nargs[r]: number of arguments, the expression included
  Serial,     \* the requests of MdsIpGetDescriptor; _MdsValue makes the others
  Bad,        \* <<r, i>>: argument i of request r may not be deserialised
  Asks,       \* the requests that ask for events
  Short,      \* the messages to the client whose body is shorter than a header
  MAX_ARGS,   \* MDSIP_MAX_ARGS
  FirstId,    \* message id of the request before the first one
  Faults,     \* see FaultKinds
  MaxFaults,  \* bound on their number
  MaxEvents,  \* bound on the number of events
  None

(***************************************************************************)
(* "send": 10 interrupted attempts; "serialize": an argument cannot be      *)
(* serialised; "intr": the wait for a header is interrupted; "stall": the   *)
(* body comes more than a second after its header; "lost": the connection   *)
(* breaks.                                                                  *)
(***************************************************************************)
FaultKinds == {"send", "serialize", "intr", "stall", "lost"}

Requests == 1 .. N
INVALID_MESSAGE_ID == 0
Event == 0          \* stands for an event in place of a request
Subjects == Requests \cup {Event}
Garbage == -1       \* a header or a body made of something else
Unset == <<>>
Failed == <<Garbage>>
Stray == <<Garbage, Garbage>>
Unserialized == <<Event>>  \* an argument could not be serialised

ASSUME ExchangeConstants ==
  /\ N \in Nat /\ MAX_ARGS \in Nat \ {0}
  /\ nargs \in [Requests -> 1 .. MAX_ARGS - 1]
  /\ FirstId \in 0 .. 255
  /\ Faults \subseteq FaultKinds
  /\ MaxFaults \in Nat /\ MaxEvents \in Nat
  /\ None \notin Int
  /\ Asks \subseteq Requests /\ Serial \subseteq Requests
  /\ Bad \subseteq Serial \X Nat
  /\ Short \subseteq Subjects

VARIABLES
  \* the client
  pc,         \* "idle", or what it does: "send", "header", "body"; "more" in
              \* the middle of a header
  reading,    \* "answer" or "event": who reads
  req, arg,   \* the request and the argument to send
  header,     \* the header that was read
  result,     \* per request: Unset, Failed, Unserialized, Stray, or its header and body
  inlist,     \* CON_INLIST in the client's connection
  request,    \* CON_REQUEST in the client's connection
  message_id, \* of the client's connection
  \* the connection
  up, down,   \* what was sent and not read, to the server and to the client
  \* the server
  serving,    \* the thread of the connection runs
  last_id, last_nargs, descrip, \* message_id, nargs, descrip of its connection
  response,   \* what is left to send of a response
  event,      \* its connection has an event
  executed,   \* the argument lists that were executed on this connection
  \* bookkeeping
  upset,      \* more answers than requests may come, or other messages
  faults, events

clientVars == <<pc, reading, req, arg, header, result, inlist, request, message_id>>
serverVars == <<serving, last_id, last_nargs, descrip, response, event, executed>>
vars == <<pc, reading, req, arg, header, result, inlist, request, message_id, up, down, serving,
          last_id, last_nargs, descrip, response, event, executed, upset, faults, events>>

Indices == 0 .. MAX_ARGS - 1
NoArgs == [i \in Indices |-> None]

(* What was left of a part of a message when a read ended within it: at     *)
(* least the size of a header, or less.                                     *)
Rest == [part |-> "rest", of |-> Garbage]
Scrap == [part |-> "scrap", of |-> Garbage]
Fragments == [part : {"header", "body"}, of : Subjects] \cup {Rest, Scrap}
Args == [id : 0 .. 255, of : Requests, idx : Indices]

ClientType ==
  /\ pc \in {"idle", "send", "header", "more", "body"} /\ reading \in {"answer", "event"}
  /\ req \in 0 .. N
  /\ arg \in 0 .. MAX_ARGS /\ (pc = "send" => req \in Requests /\ arg < nargs[req])
  /\ header \in Subjects \cup {Garbage, None}
  /\ message_id \in 0 .. 255 /\ (request => message_id # INVALID_MESSAGE_ID)

Results == {Unset, Failed, Unserialized, Stray} \cup {<<s, s>> : s \in Subjects}
ResultType == result \in [Requests -> Results]

StreamType == up \in Seq(Args) /\ down \in Seq(Fragments)

ServerType ==
  /\ last_id \in 0 .. 255 /\ last_nargs \in 0 .. MAX_ARGS
  /\ descrip \in [Indices -> Requests \cup {None}]
  /\ response \in Seq(Fragments)
  /\ executed \in Seq([Indices -> Requests \cup {None}])

CountType == faults \in 0 .. MaxFaults /\ events \in 0 .. MaxEvents

FlagType ==
  /\ inlist \in BOOLEAN /\ request \in BOOLEAN
  /\ serving \in BOOLEAN /\ event \in BOOLEAN
  /\ upset \in BOOLEAN

TypeOK ==
  /\ FlagType
  /\ ClientType /\ ResultType /\ StreamType /\ ServerType /\ CountType

(* A connection that has served FirstId requests. *)
Init ==
  /\ pc = "idle" /\ reading = "answer" /\ req = 0 /\ arg = 0 /\ header = None
  /\ result = [r \in Requests |-> Unset]
  /\ inlist = TRUE /\ request = FALSE /\ message_id = FirstId
  /\ up = <<>> /\ down = <<>>
  /\ serving = TRUE /\ last_id = FirstId /\ last_nargs = 0 /\ descrip = NoArgs
  /\ response = <<>> /\ event = FALSE
  /\ executed = <<>>
  /\ upset = FALSE /\ faults = 0 /\ events = 0

Fault(kind) == kind \in Faults /\ faults < MaxFaults /\ faults' = faults + 1

-----------------------------------------------------------------------------
(* The client. *)

(***************************************************************************)
(* ConnectToMds, after a connection was closed: a new one on both sides.    *)
(* The thread of the old one, if it still runs, shares nothing with it.     *)
(***************************************************************************)
ConnectToMds ==
  /\ pc = "idle" /\ req < N
  /\ ~inlist
  /\ inlist' = TRUE /\ request' = FALSE /\ message_id' = INVALID_MESSAGE_ID
  /\ serving' = TRUE /\ last_id' = INVALID_MESSAGE_ID
  /\ descrip' = NoArgs /\ response' = <<>> /\ event' = FALSE
  /\ up' = <<>> /\ down' = <<>>
  /\ executed' = <<>>
  /\ upset' = FALSE
  /\ UNCHANGED <<pc, reading, req, arg, header, result, last_nargs, faults, events>>

MdsValue ==
  /\ pc = "idle" /\ req < N
  /\ inlist
  /\ req' = req + 1
  /\ arg' = 0
  /\ pc' = "send"
  /\ UNCHANGED <<reading, header, result, inlist, request, message_id, up, down, serverVars,
                 upset, faults, events>>

(* The call returns with an error. *)
Fail ==
  /\ pc' = "idle"
  /\ result' = IF reading = "answer" THEN [result EXCEPT ![req] = Failed] ELSE result
  /\ reading' = "answer"
  /\ UNCHANGED <<req, arg, header>>

CloseConnection == inlist' = FALSE /\ request' = FALSE
UnlockConnection == request' = FALSE /\ UNCHANGED inlist

(* Mutant: the invalid id is not left out. *)
ConnectionIncMessageId_wraps == (message_id + 1) % 256

(* uint8_t, and never the invalid id. *)
ConnectionIncMessageId ==
  LET id == (message_id + 1) % 256 IN IF id = INVALID_MESSAGE_ID THEN 1 ELSE id

(***************************************************************************)
(* SendArg: the first argument waits until the connection has no request;   *)
(* its lock is kept until the answer was read.  A message to a connection   *)
(* nobody serves may still be taken.                                        *)
(***************************************************************************)
SendArg ==
  /\ pc = "send"
  /\ arg = 0 => ~request
  /\ LET id == IF arg = 0 THEN ConnectionIncMessageId ELSE message_id
         m == [id |-> id, of |-> req, idx |-> arg]
     IN
     /\ message_id' = id
     /\ \/ /\ up' = IF serving THEN Append(up, m) ELSE up
           /\ request' = TRUE
           /\ IF arg + 1 < nargs[req]
                THEN arg' = arg + 1 /\ UNCHANGED pc
                ELSE pc' = "header" /\ UNCHANGED arg
           /\ UNCHANGED <<reading, req, header, result, inlist, faults>>
        \/ /\ IF serving THEN Fault("send") ELSE UNCHANGED faults
           /\ Fail
           /\ UnlockConnection
           /\ UNCHANGED up
  /\ UNCHANGED <<down, serverVars, upset, events>>

(* SendDsc: the call returns and the connection stays locked. *)
SendDsc_fails ==
  /\ pc = "send" /\ arg > 0 /\ req \in Serial
  /\ Fault("serialize")
  /\ pc' = "idle"
  /\ result' = [result EXCEPT ![req] = Unserialized]
  /\ UNCHANGED <<reading, req, arg, header, inlist, request, message_id, up, down, serverVars, upset, events>>

IsShort(f) == f = Scrap \/ (f.part = "body" /\ f.of \in Short)

(* What a read that ends within f, or with it, leaves of it. *)
Left(f) ==
  {<<>>, <<Scrap>>} \cup (IF f.part = "header" \/ IsShort(f) THEN {} ELSE {<<Rest>>})

(***************************************************************************)
(* get_bytes_to, for a header, without time-out: exactly as many bytes as a *)
(* header has are read from what is there instead, the first part of it     *)
(* whole if that is shorter.  What they make may pass as a header or not.   *)
(***************************************************************************)
GetStray ==
  \/ /\ IsShort(Head(down))
     /\ down' = Tail(down)
     /\ pc' = "more"
     /\ UNCHANGED <<reading, req, arg, header, result, inlist, request>>
  \/ /\ pc = "more" \/ ~IsShort(Head(down))
     /\ \E left \in Left(Head(down)) :
          /\ pc = "more" /\ ~IsShort(Head(down)) => left # <<>>
          /\ down' = left \o Tail(down)
     /\ \/ /\ header' = Garbage
           /\ pc' = "body"
           /\ UNCHANGED <<reading, req, arg, result, inlist, request>>
        \/ Fail /\ CloseConnection

(***************************************************************************)
(* The header of a message (GetMdsMsgTOC).  A bad one, or the end of the    *)
(* stream, closes the connection; an interrupt does not.                    *)
(***************************************************************************)
GetHeader ==
  /\ pc \in {"header", "more"}
  /\ \/ /\ down # <<>>
        /\ IF pc = "header" /\ Head(down).part = "header"
             THEN /\ down' = Tail(down)
                  /\ header' = Head(down).of
                  /\ pc' = "body"
                  /\ UNCHANGED <<reading, req, arg, result, inlist, request>>
             ELSE GetStray
        /\ UNCHANGED <<upset, faults>>
     \/ /\ down = <<>> /\ ~serving
        /\ Fail
        /\ CloseConnection
        /\ UNCHANGED <<down, upset, faults>>
     \/ /\ down = <<>>
        /\ Fault("intr")
        /\ Fail
        /\ UnlockConnection
        /\ upset' = TRUE
        /\ UNCHANGED down
  /\ UNCHANGED <<message_id, up, serverVars, events>>

(* The message is complete, and the call returns. *)
Complete(message) ==
  /\ result' = IF reading = "answer" THEN [result EXCEPT ![req] = message] ELSE result
  /\ header' = None
  /\ pc' = "idle"
  /\ reading' = "answer"
  /\ UNCHANGED <<req, arg>>

(* As many bytes as the header says, read from something else. *)
GetStrayBody ==
  \/ /\ header = Garbage
     /\ Complete(Stray)
     /\ UNCHANGED down
  \/ /\ down # <<>>
     /\ \E left \in Left(Head(down)) : down' = left \o Tail(down)
     /\ Complete(Stray)
  \/ /\ down # <<>>
     /\ down' = Tail(down)
     /\ header' = Garbage
     /\ UNCHANGED <<pc, reading, req, arg, result>>

(* Mutant: the body is waited for as long as the header. *)
GetBody_waits ==
  /\ pc = "body"
  /\ IF down # <<>> /\ Head(down).part = "body" /\ Head(down).of = header
       THEN Complete(<<header, header>>) /\ down' = Tail(down)
       ELSE GetStrayBody
  /\ IF pc' = "body" THEN UNCHANGED <<inlist, request>> ELSE UnlockConnection
  /\ UNCHANGED <<upset, faults, message_id, up, serverVars, events>>

(***************************************************************************)
(* The body: there may be none in time, because it is late (a fault) or     *)
(* none comes.  Then the message is dropped and the connection kept.        *)
(* Nobody compares the id in the header with the one of the request.        *)
(***************************************************************************)
GetBody ==
  /\ pc = "body"
  /\ \/ /\ IF down # <<>> /\ Head(down).part = "body" /\ Head(down).of = header
             THEN Complete(<<header, header>>) /\ down' = Tail(down)
             ELSE GetStrayBody
        /\ UNCHANGED <<upset, faults>>
     \/ /\ down = <<>>
        /\ IF response # <<>> \/ up # <<>> THEN Fault("stall") ELSE UNCHANGED faults
        /\ Fail
        /\ upset' = TRUE
        /\ UNCHANGED down
  /\ IF pc' = "body" THEN UNCHANGED <<inlist, request>> ELSE UnlockConnection
  /\ UNCHANGED <<message_id, up, serverVars, events>>

(***************************************************************************)
(* MdsDispatchEvent, which waits for the lock too: reads a message when     *)
(* there is something to read between two requests.                         *)
(***************************************************************************)
MdsDispatchEvent ==
  /\ pc = "idle"
  /\ inlist /\ ~request
  /\ down # <<>>
  /\ events > 0
  /\ pc' = "header"
  /\ reading' = "event"
  /\ UNCHANGED <<req, arg, header, result, inlist, request, message_id, up, down, serverVars,
                 upset, faults, events>>

-----------------------------------------------------------------------------
(* The server. *)

Message(of) == <<[part |-> "header", of |-> of], [part |-> "body", of |-> of]>>

(***************************************************************************)
(* execute_message, with the last argument: the request is executed unless  *)
(* its expression is missing, and answered in any case.                     *)
(***************************************************************************)
execute_message(m, args, n) ==
  /\ response' = Message(m.of)
  /\ executed' = IF args[0] = None THEN executed
                 ELSE Append(executed, [i \in Indices |-> IF i < n THEN args[i] ELSE None])
  /\ event' = (event \/ (args[0] # None /\ args[0] \in Asks))
  /\ descrip' = NoArgs

(* Mutant: what was collected is kept until it is executed. *)
collected_kept(m) == descrip

(***************************************************************************)
(* standard_command: an argument with a new message id starts a request,    *)
(* and what was collected of another one is dropped.  An argument that is   *)
(* refused is answered at once, and the next ones are taken all the same.   *)
(***************************************************************************)
collected(m) == IF last_id # m.id THEN NoArgs ELSE descrip

TooMany(m) == last_id # m.id /\ nargs[m.of] >= MAX_ARGS - 1

(* The message id is not kept: every argument starts a request again. *)
refuse_request(m) ==
  /\ TooMany(m)
  /\ descrip' = NoArgs
  /\ response' = Message(m.of)
  /\ upset' = TRUE
  /\ UNCHANGED <<last_id, last_nargs, executed, event>>

(***************************************************************************)
(* A descriptor that is there already keeps its type and size, those of the *)
(* request it was made for, unless the argument is serialised.              *)
(***************************************************************************)
filled(m) ==
  LET args == collected(m) IN
  IF m.of \in Serial \/ args[m.idx] = None THEN [args EXCEPT ![m.idx] = m.of] ELSE args

take_argument(m) ==
  LET n == nargs[m.of] IN
  /\ ~TooMany(m)
  /\ last_id' = m.id
  /\ last_nargs' = IF last_id # m.id THEN n ELSE last_nargs
  /\ \/ /\ <<m.of, m.idx>> \in Bad
        /\ descrip' = [collected(m) EXCEPT ![m.idx] = None]
        /\ response' = Message(m.of)
        /\ upset' = TRUE
        /\ UNCHANGED <<executed, event>>
     \/ /\ IF m.idx = n - 1
             THEN execute_message(m, filled(m), last_nargs')
             ELSE descrip' = filled(m) /\ UNCHANGED <<response, executed, event>>
        /\ UNCHANGED upset

(* Mutant: a request that was given up half-way is answered as well. *)
standard_command_acks(m) ==
  \/ refuse_request(m)
  \/ /\ ~(last_id # m.id /\ descrip[0] # None)
     /\ take_argument(m)
  \/ /\ last_id # m.id /\ descrip[0] # None
     /\ ~TooMany(m)
     /\ last_id' = m.id /\ last_nargs' = nargs[m.of]
     /\ descrip' = [NoArgs EXCEPT ![m.idx] = m.of]
     /\ response' = Message(descrip[0])
     /\ UNCHANGED <<upset, executed, event>>

standard_command(m) == refuse_request(m) \/ take_argument(m)

(* ConnectionDoMessage: the next message of the client. *)
DoMessage ==
  /\ serving /\ response = <<>>
  /\ up # <<>>
  /\ up' = Tail(up)
  /\ standard_command(Head(up))
  /\ UNCHANGED <<clientVars, down, serving, faults, events>>

(* send_response: the message may be long, and is not sent at once. *)
send_response ==
  /\ serving /\ response # <<>>
  /\ down' = IF inlist THEN Append(down, Head(response)) ELSE down
  /\ response' = Tail(response)
  /\ UNCHANGED <<clientVars, up, serving, last_id, last_nargs, descrip, event, executed,
                 upset, faults, events>>

(* The client closed the connection: the thread destroys it and ends. *)
destroyConnection ==
  /\ serving /\ response = <<>>
  /\ ~inlist /\ up = <<>>
  /\ serving' = FALSE
  /\ event' = FALSE
  /\ UNCHANGED <<clientVars, up, down, last_id, last_nargs, descrip, response, executed,
                 upset, faults, events>>

(* The connection breaks; what is on its way to the client may still come. *)
lost ==
  /\ serving
  /\ Fault("lost")
  /\ serving' = FALSE /\ event' = FALSE
  /\ response' = <<>>
  /\ up' = <<>>
  /\ UNCHANGED <<clientVars, down, last_id, last_nargs, descrip, executed, upset, events>>

(* The event thread does not wait for a response that is being sent. *)
client_event_ast ==
  /\ serving /\ event /\ inlist
  /\ events < MaxEvents
  /\ events' = events + 1
  /\ down' = down \o Message(Event)
  /\ upset' = TRUE
  /\ UNCHANGED <<clientVars, up, serverVars, faults>>

-----------------------------------------------------------------------------

ClientStep == ConnectToMds \/ MdsValue \/ SendArg \/ GetHeader \/ GetBody
ServerStep == DoMessage \/ send_response \/ destroyConnection

Next ==
  \/ ClientStep \/ SendDsc_fails \/ MdsDispatchEvent
  \/ ServerStep \/ lost \/ client_event_ast

Spec == Init /\ [][Next]_vars

(* Both ends go on; nobody has to make a mistake or to read events. *)
FairSpec == Spec /\ WF_vars(ClientStep) /\ WF_vars(ServerStep)

-----------------------------------------------------------------------------
(* Properties. *)

(***************************************************************************)
(* What the server executes are whole requests: all arguments are of one    *)
(* request, with their own type and size, and missing only if they were     *)
(* refused, although requests are given up half-way and message ids wrap    *)
(* around.  No request is executed twice or out of order.                   *)
(***************************************************************************)
RequestIntact ==
  /\ \A k \in DOMAIN executed :
       LET r == executed[k][0] IN
       \A i \in Indices :
         \/ executed[k][i] = r /\ i < nargs[r]
         \/ executed[k][i] = None /\ (i < nargs[r] => <<r, i>> \in Bad)
  /\ \A j, k \in DOMAIN executed : j < k => executed[j][0] < executed[k][0]

(***************************************************************************)
(* The answer of a call is the one to its own request, as long as no wait   *)
(* on the connection was cut short, no argument was refused and no event    *)
(* was sent: requests given up half-way and lost connections do no harm.    *)
(***************************************************************************)
OwnAnswer ==
  [][\A r \in Requests :
       result'[r] \notin {result[r], Failed, Unserialized} /\ ~upset => result'[r] = <<r, r>>]_vars

(* MdsDispatchEvent, inside the header of a message that has not been sent. *)
Stuck == reading = "event" /\ pc = "more" /\ down = <<>>

(***************************************************************************)
(* A call returns, whatever was lost, interrupted or mixed up before it:    *)
(* its request is answered, and no header ends later than the one of its    *)
(* answer.  But MdsDispatchEvent reads what need not be an event, and when  *)
(* that is a late body shorter than a header, it waits for a message nobody *)
(* sends and keeps the connection locked.  And SendDsc leaves it locked when *)
(* an argument cannot be serialised: the next call waits for ever.          *)
(***************************************************************************)
CallsReturn ==
  pc # "idle" ~>
    (pc = "idle" \/ Stuck \/ \E r \in 1 .. req - 1 : result[r] = Unserialized)
================================================================================
