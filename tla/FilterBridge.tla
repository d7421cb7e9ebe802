---------------------------- MODULE FilterBridge ----------------------------
(* The delivery-time filter: filter_client.py, which Maddy runs once for each  *)
(* message, and the threaded server of filter_bridge.py that it asks for a     *)
(* target mailbox.  The client sends one control line and the message over a   *)
(* stream that may cut them anywhere, closes its half, and copies an answer    *)
(* that is complete to Maddy; whatever goes wrong, Maddy gets nothing and      *)
(* delivers the message unfiltered.  Either side may fail or time out at any   *)
(* moment.                                                                     *)
EXTENDS Naturals, Sequences, FiniteSets

CONSTANTS Deliveries,       \* runs of the client
          Account, Message, \* what each is about: [Deliveries -> ...], bytes as symbols
          Trusted,          \* deliveries whose client holds the right token
          Connections,      \* MAX_FILTER_CONNECTIONS
          MaxLine, MaxMessage, MaxResponse,  \* the limits of the protocol
          NL,               \* the newline, in the line, the message and the answer
          Control,          \* the rest of the control line
          None

\* What every instance has to give; the MC modules assume it of theirs.
FilterBounds ==
    /\ Connections \in Nat \ {0} /\ MaxLine \in Nat \ {0}
    /\ MaxMessage \in Nat \ {0} /\ MaxResponse \in Nat \ {0}
    /\ Trusted \subseteq Deliveries /\ None \notin Deliveries
    /\ \A d \in Deliveries : Message[d] \in Seq({Message[d][i] : i \in DOMAIN Message[d]})
    /\ Control # NL /\ NL \notin Nat

VARIABLES client,    \* the stage of each client
          source,    \* what it has still to read of its message
          transferred, response, out,  \* its count, the answer so far, its output
          up, upEnd, down, downEnd,    \* the two directions of its connection
          thread,    \* the stage of the server's thread for it
          control, body,               \* what the thread has read
          permits,   \* _capacity
          lock       \* holder of _evaluation_lock

vars == <<client, source, transferred, response, out, up, upEnd, down, downEnd,
          thread, control, body, permits, lock>>
clientVars == <<client, source, transferred, response, out>>
serverVars == <<thread, control, body, permits, lock>>
streams == <<up, upEnd, down, downEnd>>

Active == {"header", "body", "queued", "evaluating", "respond"}
\* Sizes recv or read may return when it is asked for at most limit.
Pieces(available, limit) == 1..(IF Len(available) < limit THEN Len(available) ELSE limit)
Rest(s, k) == SubSeq(s, k + 1, Len(s))
Newlines(s) == {i \in DOMAIN s : s[i] = NL}

\* What evaluate_filter_message finds for an account and the bytes it is given,
\* as the bytes of the target mailbox; it may also find nothing.
Target(account, bytes) == <<account, Len(bytes)>>

Init ==
    /\ client = [d \in Deliveries |-> "start"]
    /\ source = [d \in Deliveries |-> Message[d]]
    /\ transferred = [d \in Deliveries |-> 0]
    /\ response = [d \in Deliveries |-> <<>>]
    /\ out = [d \in Deliveries |-> <<>>]
    /\ up = [d \in Deliveries |-> <<>>] /\ upEnd = [d \in Deliveries |-> FALSE]
    /\ down = [d \in Deliveries |-> <<>>] /\ downEnd = [d \in Deliveries |-> FALSE]
    /\ thread = [d \in Deliveries |-> "none"]
    /\ control = [d \in Deliveries |-> <<>>] /\ body = [d \in Deliveries |-> <<>>]
    /\ permits = Connections /\ lock = None

------------------------------------------------------------------------------
(* The client: run_filter_client.                                              *)

\* create_connection and the control line.
Connect(d) ==
    /\ client[d] = "start"
    /\ client' = [client EXCEPT ![d] = "sending"]
    /\ up' = [up EXCEPT ![d] = <<Control, NL>>]
    /\ UNCHANGED <<source, transferred, response, out, upEnd, down, downEnd, serverVars>>

SendChunk(d) ==
    /\ client[d] = "sending" /\ source[d] # <<>>
    /\ \E k \in Pieces(source[d], MaxMessage + 1 - transferred[d]) :
          /\ transferred' = [transferred EXCEPT ![d] = @ + k]
          /\ source' = [source EXCEPT ![d] = Rest(@, k)]
          /\ IF transferred[d] + k > MaxMessage
             THEN /\ client' = [client EXCEPT ![d] = "done"]
                  /\ upEnd' = [upEnd EXCEPT ![d] = TRUE]
                  /\ up' = up
             ELSE /\ up' = [up EXCEPT ![d] = @ \o SubSeq(source[d], 1, k)]
                  /\ UNCHANGED <<client, upEnd>>
    /\ UNCHANGED <<response, out, down, downEnd, serverVars>>

\* The message has been read, and the half of the connection is left open.
EndWithoutShutdown(d) ==
    /\ client[d] = "sending" /\ source[d] = <<>>
    /\ client' = [client EXCEPT ![d] = IF transferred[d] = 0 THEN "done" ELSE "waiting"]
    /\ upEnd' = [upEnd EXCEPT ![d] = transferred[d] = 0]
    /\ UNCHANGED <<source, transferred, response, out, up, down, downEnd, serverVars>>

\* The message has been read: an empty one is an error, else the half is closed.
EndOfInput(d) ==
    /\ client[d] = "sending" /\ source[d] = <<>>
    /\ client' = [client EXCEPT ![d] = IF transferred[d] = 0 THEN "done" ELSE "waiting"]
    /\ upEnd' = [upEnd EXCEPT ![d] = TRUE]
    /\ UNCHANGED <<source, transferred, response, out, up, down, downEnd, serverVars>>

Receive(d) ==
    /\ client[d] = "waiting" /\ down[d] # <<>> /\ Len(response[d]) <= MaxResponse
    /\ \E k \in Pieces(down[d], MaxResponse + 1 - Len(response[d])) :
          /\ response' = [response EXCEPT ![d] = @ \o SubSeq(down[d], 1, k)]
          /\ down' = [down EXCEPT ![d] = Rest(@, k)]
    /\ UNCHANGED <<client, source, transferred, out, up, upEnd, downEnd, serverVars>>

\* _validated_response: one complete line within the limit, or nothing.
ValidatedResponse(r) ==
    IF Len(r) \in 2..MaxResponse /\ Newlines(r) = {Len(r)} THEN r ELSE <<>>

EndOfResponse(d) ==
    /\ client[d] = "waiting"
    /\ (down[d] = <<>> /\ downEnd[d]) \/ Len(response[d]) > MaxResponse
    /\ out' = [out EXCEPT ![d] = ValidatedResponse(response[d])]
    /\ client' = [client EXCEPT ![d] = "done"]
    /\ UNCHANGED <<source, transferred, response, streams, serverVars>>

\* FilterClientError, OSError, TimeoutError or ValueError: nothing is written.
ClientFails(d) ==
    /\ client[d] # "done"
    /\ client' = [client EXCEPT ![d] = "done"]
    /\ upEnd' = [upEnd EXCEPT ![d] = TRUE]
    /\ UNCHANGED <<source, transferred, response, out, up, down, downEnd, serverVars>>

------------------------------------------------------------------------------
(* The server: _BoundedFilterServer and _FilterRequestHandler.handle.          *)

Opened(d) == client[d] # "start" /\ up[d] # <<>>

\* process_request: a connection beyond the capacity is closed at once.
Accept(d) ==
    /\ thread[d] = "none" /\ Opened(d)
    /\ IF permits > 0
       THEN /\ thread' = [thread EXCEPT ![d] = "header"]
            /\ permits' = permits - 1
            /\ downEnd' = downEnd
       ELSE /\ thread' = [thread EXCEPT ![d] = "closed"]
            /\ downEnd' = [downEnd EXCEPT ![d] = TRUE]
            /\ permits' = permits
    /\ UNCHANGED <<clientVars, up, upEnd, down, control, body, lock>>

\* The handler returns: the connection is closed and the permit given back.
Close(d) ==
    /\ thread' = [thread EXCEPT ![d] = "closed"]
    /\ downEnd' = [downEnd EXCEPT ![d] = TRUE]
    /\ permits' = permits + 1
    /\ lock' = IF lock = d THEN None ELSE lock

ReadsControl(d) == thread[d] = "header" /\ Newlines(control[d]) = {} /\ Len(control[d]) <= MaxLine

ReadControl(d) ==
    /\ ReadsControl(d)
    /\ \/ /\ up[d] = <<>> /\ upEnd[d]
          /\ Close(d)
          /\ UNCHANGED <<up, control>>
       \/ /\ \E k \in Pieces(up[d], MaxLine + 1 - Len(control[d])) :
                /\ control' = [control EXCEPT ![d] = @ \o SubSeq(up[d], 1, k)]
                /\ up' = [up EXCEPT ![d] = Rest(@, k)]
          /\ UNCHANGED <<thread, downEnd, permits, lock>>
    /\ UNCHANGED <<clientVars, upEnd, down, body>>

\* The control line without what was read after it.
BodyFromStream(d, line) == <<>>

\* What followed the control line in the bytes read so far.
InitialBody(d, line) == Rest(control[d], line + 1)

\* The control line ends at the first newline; what follows is message.
Authenticate(d) ==
    /\ thread[d] = "header" /\ ~ReadsControl(d)
    /\ LET newlines == Newlines(control[d])
           line == (CHOOSE i \in newlines : \A j \in newlines : i <= j) - 1
       IN  IF newlines # {} /\ line <= MaxLine /\ d \in Trusted
              /\ Len(InitialBody(d, line)) <= MaxMessage
           THEN /\ thread' = [thread EXCEPT ![d] = "body"]
                /\ body' = [body EXCEPT ![d] = InitialBody(d, line)]
                /\ UNCHANGED <<downEnd, permits, lock>>
           ELSE Close(d) /\ body' = body
    /\ UNCHANGED <<clientVars, up, upEnd, down, control>>

ReadBody(d) ==
    /\ thread[d] = "body"
    /\ \/ /\ up[d] = <<>> /\ upEnd[d]
          /\ IF body[d] = <<>> THEN Close(d)
             ELSE thread' = [thread EXCEPT ![d] = "queued"] /\ UNCHANGED <<downEnd, permits, lock>>
          /\ UNCHANGED <<up, body>>
       \/ \E k \in Pieces(up[d], MaxMessage + 1 - Len(body[d])) :
             /\ up' = [up EXCEPT ![d] = Rest(@, k)]
             /\ IF Len(body[d]) + k > MaxMessage
                THEN Close(d) /\ body' = body
                ELSE /\ body' = [body EXCEPT ![d] = @ \o SubSeq(up[d], 1, k)]
                     /\ UNCHANGED <<thread, downEnd, permits, lock>>
    /\ UNCHANGED <<clientVars, upEnd, down, control>>

TakeLock(d) ==
    /\ thread[d] = "queued" /\ lock = None
    /\ lock' = d
    /\ thread' = [thread EXCEPT ![d] = "evaluating"]
    /\ UNCHANGED <<clientVars, streams, control, body, permits>>

\* No target (no snapshot, no match, a failure) closes without an answer.
Evaluate(d) ==
    /\ thread[d] = "evaluating"
    /\ \/ Close(d)
       \/ /\ thread' = [thread EXCEPT ![d] = "respond"]
          /\ lock' = None
          /\ UNCHANGED <<downEnd, permits>>
    /\ UNCHANGED <<clientVars, up, upEnd, down, control, body>>

\* sendall and the end of the handler; it may fail after part of the answer.
Respond(d) ==
    /\ thread[d] = "respond"
    /\ LET answer == Append(Target(Account[d], body[d]), NL)
       IN  \E k \in 0..Len(answer) : down' = [down EXCEPT ![d] = SubSeq(answer, 1, k)]
    /\ Close(d)
    /\ UNCHANGED <<clientVars, up, upEnd, control, body>>

\* OSError or a time-out of the thread's socket: only where it uses the socket.
ThreadFails(d) ==
    /\ thread[d] \in {"header", "body", "respond"}
    /\ Close(d)
    /\ UNCHANGED <<clientVars, up, upEnd, down, control, body>>

------------------------------------------------------------------------------

ClientStep(d) == Connect(d) \/ SendChunk(d) \/ EndOfInput(d) \/ Receive(d) \/ EndOfResponse(d)
ServerStep(d) == Accept(d) \/ ReadControl(d) \/ Authenticate(d) \/ ReadBody(d) \/ TakeLock(d)
                 \/ Evaluate(d) \/ Respond(d)
Quiet == \A d \in Deliveries : client[d] = "done" /\ thread[d] \notin Active /\ ~(thread[d] = "none" /\ Opened(d))

Next == \/ \E d \in Deliveries : ClientStep(d) \/ ServerStep(d) \/ ClientFails(d) \/ ThreadFails(d)
        \/ Quiet /\ UNCHANGED vars

Spec == Init /\ [][Next]_vars

\* The client process and the server's threads run on; failures are never owed.
Fairness == \A d \in Deliveries : WF_vars(ClientStep(d)) /\ WF_vars(ServerStep(d))
FairSpec == Spec /\ Fairness

------------------------------------------------------------------------------
(* Properties.                                                                 *)

TypeOK ==
    /\ \A d \in Deliveries :
          /\ client[d] \in {"start", "sending", "waiting", "done"}
          /\ thread[d] \in Active \cup {"none", "closed"}
          /\ Len(control[d]) <= MaxLine + 1 /\ Len(body[d]) <= MaxMessage
          /\ Len(response[d]) <= MaxResponse + 1
    /\ permits \in 0..Connections /\ lock \in Deliveries \cup {None}

\* Maddy gets either nothing or the complete answer for this account to this
\* whole message: never one to a message that was cut, that grew by the control
\* line or lost a piece at it, that is above the limit, or half an answer.
OwnWholeAnswer ==
    \A d \in Deliveries :
        out[d] # <<>> => /\ out[d] = Append(Target(Account[d], Message[d]), NL)
                         /\ Len(Message[d]) <= MaxMessage /\ d \in Trusted

\* Every permit and the evaluation lock come back, whatever the threads met: a
\* server that leaks them would leave all later mail unfiltered.
CapacityRestored ==
    (\A d \in Deliveries : thread[d] \in {"none", "closed"}) => permits = Connections /\ lock = None

\* Every delivery goes on, filtered or not, without any time-out having to fire.
DeliveryGoesOn == \A d \in Deliveries : <>(client[d] = "done")

\* A delivery gets its own whole answer or none, and leaves the server as able
\* as it was.
FilterSound == TypeOK /\ OwnWholeAnswer /\ CapacityRestored
=============================================================================
