------------------------------ MODULE ToolCall ------------------------------
(***************************************************************************)
(* A tool call from the wire to the reply, src/obd_mcp/server.py: the HTTP  *)
(* body that is bounded and replayed, the call to the service (VehicleRead) *)
(* and what is published of its result or its error.                        *)
(*                                                                         *)
(* After the service has returned there is no await until the reply is      *)
(* built, but a driver may own threads: the metadata it handed over may     *)
(* change between any two steps.                                            *)
(***************************************************************************)
EXTENDS VehicleRead

CONSTANTS
  MaxBytes,     \* _MAX_HTTP_BODY_BYTES
  MaxMessages,  \* messages of a client before it disconnects (a bound of the model)
  MaxName,      \* longest prompt name
  NotANumber    \* a Content-Length that int() refuses

ASSUME MaxBytesAssumption == MaxBytes \in Nat

VARIABLES
  stage,     \* where the call is in the server
  heard,     \* messages the client sent (history)
  messages,  \* messages kept to be replayed
  total,     \* bytes of the body so far
  fed,       \* messages the application got (history)
  raised,    \* the ToolError on its way out, or None
  converted, \* the SDK's copy of the result, or None
  reply      \* what the client gets, or None

webVars == <<heard, messages, total, fed>>
outVars == <<raised, converted, reply>>
vars    == <<readVars, stage, webVars, outVars>>

ToolInit ==
  /\ Init
  /\ stage = "headers" /\ heard = <<>> /\ messages = <<>> /\ total = 0 /\ fed = <<>>
  /\ raised = None /\ converted = None /\ reply = None

-----------------------------------------------------------------------------
(* _RequestBodyLimitMiddleware.                                             *)

Body(bytes, more) == [type |-> "request", bytes |-> bytes, more |-> more]
Disconnect == [type |-> "disconnect", bytes |-> 0, more |-> FALSE]
OtherMessage == [type |-> "other", bytes |-> 0, more |-> FALSE]
ClientMessages == {Body(b, m) : b \in 0..MaxBytes + 1, m \in BOOLEAN} \cup {Disconnect, OtherMessage}

Rejects == stage' = "rejected"

\* Content-Length: absent, not a number, or a number.
CheckLength(length) ==
  /\ stage = "headers" /\ step = "idle"
  /\ IF length \in {None} \cup 0..MaxBytes THEN stage' = "buffering" ELSE Rejects
  /\ UNCHANGED <<readVars, webVars, outVars>>

LastOf(message) == message.type = "disconnect" \/ (message.type = "request" /\ ~message.more)

\* (Seeded fault: each message is measured by itself.)
EachMeasured(bytes, sum) == bytes > MaxBytes
TooMuch(bytes, sum)      == sum > MaxBytes

Receive(message) ==
  /\ stage = "buffering"
  /\ Len(heard) < MaxMessages \/ message = Disconnect
  /\ heard' = Append(heard, message)
  /\ messages' = Append(messages, message)
  /\ total' = total + message.bytes
  /\ IF message.type = "request" /\ TooMuch(message.bytes, total') THEN Rejects
     ELSE stage' = IF LastOf(message) THEN "app" ELSE "buffering"
  /\ UNCHANGED <<readVars, fed, outVars>>

\* The application asks once more after the end, to learn of a disconnection.
Replay ==
  /\ stage = "app" /\ Len(fed) <= Len(messages)
  /\ fed' = Append(fed, IF Len(fed) < Len(messages) THEN messages[Len(fed) + 1] ELSE Disconnect)
  /\ UNCHANGED <<readVars, stage, heard, messages, total, outVars>>

\* The application has the whole body: it is a request for a tool.  (The HTTP
\* exchange is forgotten, it plays no part in what follows.)
Dispatch ==
  /\ stage = "app" /\ fed # <<>> /\ fed[Len(fed)].type = "request" /\ ~fed[Len(fed)].more
  /\ stage' = "called"
  /\ heard' = <<>> /\ messages' = <<>> /\ total' = 0 /\ fed' = <<>>
  /\ UNCHANGED <<readVars, outVars>>

-----------------------------------------------------------------------------
(* The SDK calls the tool.                                                  *)

\* ToolError with its text and the classes of the errors behind it; every layer
\* puts a prefix before the text.
ToolError(text, causes) == [text |-> [text EXCEPT !.length = @ + 1], causes |-> <<"ToolError">> \o causes]
Fixed == Said("constant", FALSE, 0)

Raises(error) == raised' = error /\ stage' = "raised" /\ UNCHANGED <<converted, reply>>

\* No such tool, or arguments that its model refuses, with their text.
SdkRefuses ==
  /\ stage = "called" /\ request = None
  /\ \E vin \in BOOLEAN, length \in 1..MaxError + 1 :
       \/ Raises(ToolError(Said("sdk", vin, length), <<>>))
       \/ Raises(ToolError(Said("input", vin, length), <<"ValidationError">>))
  /\ UNCHANGED <<readVars, webVars>>

CallService ==
  /\ stage = "called" /\ request = None
  /\ \E r \in Requests : Begin(r)
  /\ UNCHANGED <<stage, webVars, outVars>>

\* The plugin changes an object it handed over.
Mutate ==
  /\ simulator = None /\ (status # None \/ request # None)
  /\ metadata' \in Metadata
  /\ UNCHANGED <<bound, declared, simulator, ecus, status, step, request, scope, asked, over,
                 outcome, stage, webVars, outVars>>

-----------------------------------------------------------------------------
(* _invoke: the text of a DriverError, or of what is not of the core, stays  *)
(* inside.                                                                   *)

SafeText(text) == ~text.vin /\ text.length <= MaxError

Mapped(error) ==
  ToolError(IF error.class = "core" /\ SafeText(error.text) THEN error.text ELSE Fixed,
            <<error.class>> \o error.causes)

\* What the request publishes of the driver's own: the metadata of a status.
Payload == IF request.op = "status" THEN metadata ELSE Plain

Invoke ==
  /\ stage = "called" /\ step = "done"
  /\ IF outcome.kind = "error" THEN Raises(ToolError(Mapped(outcome).text, Mapped(outcome).causes))
     ELSE IF ~PublicAccepted(Payload) THEN Raises(ToolError(Fixed, <<"ToolError">>))
     ELSE stage' = "returned" /\ UNCHANGED outVars
  /\ UNCHANGED <<readVars, webVars>>

\* The SDK renders the result as text and data of its own: two copies of one
\* value, of which one is kept here (ResultAccepted counts both).
Convert ==
  /\ stage = "returned"
  /\ IF Serializable(Payload)
     THEN converted' = Payload /\ stage' = "converted" /\ UNCHANGED <<raised, reply>>
     ELSE Raises(ToolError(Said("sdk", FALSE, 1), <<"ValueError">>))
  /\ UNCHANGED <<readVars, webVars>>

-----------------------------------------------------------------------------
(* call_tool.                                                               *)

Replies(kind, content) == reply' = [kind |-> kind, content |-> content] /\ stage' = "replied"

\* (Seeded fault: only the error that is caught is looked at.)
IsValidationError(error)  == error.causes[1] = "ValidationError"
HasValidationCause(error) == \E i \in DOMAIN error.causes : error.causes[i] = "ValidationError"

PublishError ==
  /\ stage = "raised" /\ raised' = None
  /\ Replies("error", IF HasValidationCause(raised) \/ ~SafeText(raised.text) THEN Fixed
                      ELSE raised.text)
  /\ UNCHANGED <<readVars, webVars, converted>>

PublishResult ==
  /\ stage = "converted" /\ converted' = None
  /\ IF ResultAccepted(converted) THEN Replies("result", converted) ELSE Replies("error", Fixed)
  /\ UNCHANGED <<readVars, webVars, raised>>

\* The SDK knows the prompt and its arguments, or its error names what it was
\* given: of that only a VIN and the length are looked at, not the cause.
GetPrompt ==
  /\ stage = "called" /\ request = None
  /\ \E vin \in BOOLEAN, length \in 0..MaxName + 1, arguments \in Metadata :
       IF length > MaxName \/ vin \/ ~PublicAccepted(arguments) THEN Replies("error", Fixed)
       ELSE \/ Replies("result", Plain)
            \/ \E hidden \in BOOLEAN, said \in 1..MaxError + 1 :
                 LET text == Said("prompt", hidden, said)
                 IN Replies("error", IF SafeText(text) THEN text ELSE Fixed)
  /\ UNCHANGED <<readVars, webVars, raised, converted>>

\* layers: how often the VIN in the URI is percent-encoded, or None.  Up to four
\* layers are taken off; the SDK's ResourceError, which names the URI, is replaced.
\* Its errors of other classes pass, taken for short and in its own words.
ReadResource ==
  /\ stage = "called" /\ request = None
  /\ \E layers \in {None} \cup 0..5 :
       IF layers \in 0..4 THEN Replies("error", Fixed)
       ELSE \/ Replies("result", Plain)
            \/ Replies("error", Fixed)
            \/ Replies("error", Said("sdk", FALSE, 0))
  /\ UNCHANGED <<readVars, webVars, raised, converted>>

\* The next call; its way over HTTP, which is the same for every call, is left
\* out, as it is over stdio.
NextCall ==
  /\ stage \in {"replied", "rejected"} \/ (stage = "app" /\ Len(fed) > Len(messages))
  /\ stage' = "called" /\ reply' = None
  /\ heard' = <<>> /\ messages' = <<>> /\ total' = 0 /\ fed' = <<>>
  /\ IF step = "done" THEN Finish ELSE UNCHANGED readVars
  /\ UNCHANGED <<raised, converted>>

Next ==
  \/ \E length \in {None, NotANumber} \cup -1..MaxBytes + 1 : CheckLength(length)
  \/ \E message \in ClientMessages : Receive(message)
  \/ Replay \/ Dispatch \/ SdkRefuses \/ CallService \/ Mutate
  \/ Invoke \/ Convert \/ PublishError \/ PublishResult \/ GetPrompt \/ ReadResource
  \/ NextCall
  \/ /\ StartUp \/ Change \/ Expire \/ CachedStatus \/ FetchStatus \/ Ask \/ Answer \/ DriverFails
     /\ UNCHANGED <<stage, webVars, outVars>>

Spec == ToolInit /\ [][Next]_vars

-----------------------------------------------------------------------------
(* Properties.                                                              *)

Sent == heard \o [i \in 1..Len(fed) |-> Disconnect]
\* Each byte is its message and its place there.
BytesIn(seen) == UNION {{i} \X (1..seen[i].bytes) : i \in DOMAIN seen}
BytesOf(seen) == Cardinality(BytesIn(seen))

\* The application sees what the client sent, in that order and nothing skipped,
\* then disconnections; no more than MaxBytes of it, and nothing of a request that
\* was turned away.  A request that fits its limit is never turned away for what
\* it sent.
BodyReplayed ==
  /\ fed = SubSeq(Sent, 1, Len(fed))
  /\ BytesOf(fed) <= MaxBytes
  /\ stage = "rejected" => fed = <<>> /\ (heard # <<>> => BytesOf(heard) > MaxBytes)

\* Whatever a driver answers, raises or changes behind the server's back, and
\* whatever the arguments were: a published result holds no VIN and no binary data,
\* and a published error is short, holds no VIN, and none of the words of a
\* DriverError, of a foreign exception or of the input that a tool refused.  (The
\* error of a prompt may repeat other words that the client asked with.)
NothingLeaks ==
  reply # None =>
    IF reply.kind = "result"
    THEN KindsIn(reply.content) \cap {"vin", "binary"} = {} /\ Serializable(reply.content)
    ELSE SafeText(reply.content) /\ reply.content.from \notin {"driver", "input"}

=============================================================================
