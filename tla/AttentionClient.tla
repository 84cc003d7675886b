--------------------------- MODULE AttentionClient ---------------------------
(***************************************************************************)
(* The PC side of the attention protocol: class AttentionClient of         *)
(* python/fpga_attention_client.py, which runs one request after another   *)
(* over one TCP connection, against a server that answers each request     *)
(* once but may answer early, late, wrongly or not at all.                 *)
(*                                                                         *)
(* TCP is a stream without boundaries.  What the server has put into it is *)
(* a sequence of frames, each with the position it starts at; written and  *)
(* read are positions in the stream, so that what recv_exact has collected *)
(* is what lies between start and read.  The server is external: the       *)
(* repository has its protocol header, not its program.                    *)
(***************************************************************************)
EXTENDS ProtocolHeader, Sequences

CONSTANTS
    Ids, Tokens,        \* request_id and valid_tokens the caller chooses from
    HeaderLength,       \* length of a response header, in units of the stream
    MaxRequests,        \* bound: requests of the caller
    MaxConnections      \* bound: connections

ASSUME ClientAssumption ==
    /\ Ids \subseteq Nat
    /\ Tokens \subseteq MIN_VALID_TOKENS .. MAX_VALID_TOKENS
    /\ HeaderLength \in Nat \ {0} /\ MaxRequests \in Nat /\ MaxConnections \in Nat

VARIABLES
    state,      \* READY, IN_FLIGHT, CLOSED
    pc,          \* where run_request is: idle, send, header, context
    request,     \* the request in work: its number, request_id, valid_tokens
    start,       \* where the recv_exact in work began
    read,        \* what the client has read of the stream
    outcome,     \* how the last run_request ended
    connections

VARIABLES
    sent,        \* parts of requests sent on this connection: header, Q, K, V
    answered,    \* requests answered on this connection
    frames,      \* what the server answered: [at, to, header, intact]
    written,     \* how much of it has arrived
    peer_closed,
    fault        \* history: on this connection something was not as it should be

clientVars == <<state, pc, request, start, read, outcome, connections>>
serverVars == <<answered, frames, written, peer_closed>>
vars == <<clientVars, sent, serverVars, fault>>

Parts == 4
NoRequest == [number |-> 0, id |-> 0, tokens |-> 0]
Outcome(kind, at) == [kind |-> kind, context |-> at]

StreamEnd ==
    IF frames = <<>> THEN 0
    ELSE LET last == frames[Len(frames)]
         IN  last.at + HeaderLength + last.header.context_bytes
-----------------------------------------------------------------------------
\* Mutant: a receive error is taken for the end of the request only.
StayReady(kind) ==
    /\ state' = "READY" /\ pc' = "idle"
    /\ outcome' = Outcome(kind, 0)
    /\ UNCHANGED <<request, start, read, connections>>

\* close() after an exception in run_request, which is passed on.
Raise(kind) ==
    /\ state' = "CLOSED" /\ pc' = "idle"
    /\ outcome' = Outcome(kind, 0)
    /\ UNCHANGED <<request, start, read, connections>>

\* A caller that keeps to the checks of _build_request; a request on a client
\* that is closed or in flight, or with inputs it refuses, changes nothing.
RunRequest(id, tokens) ==
    /\ state = "READY" /\ pc = "idle" /\ request.number < MaxRequests
    /\ state' = "IN_FLIGHT" /\ pc' = "send"
    /\ request' = [number |-> request.number + 1, id |-> id, tokens |-> tokens]
    /\ outcome' = Outcome("none", 0)
    /\ UNCHANGED <<start, read, connections, sent, serverVars, fault>>

SendPart ==
    /\ pc = "send"
    /\ sent' = sent + 1
    /\ pc' = IF sent' % Parts = 0 THEN "header" ELSE "send"
    /\ start' = read
    /\ UNCHANGED <<state, request, read, outcome, connections, serverVars, fault>>

\* sendall fails: the peer has closed, or does not read.
SendFails ==
    /\ pc = "send"
    /\ Raise("transport")
    /\ fault' = TRUE
    /\ UNCHANGED <<sent, serverVars>>

\* The size the recv_exact in work was called with.
size == IF pc = "header" THEN HeaderLength ELSE CONTEXT_BYTES
receiving == pc \in {"header", "context"}

\* recv returns what has arrived, or less.
Recv ==
    /\ receiving /\ read - start < size
    /\ \E n \in 1 .. size - (read - start) :
           read + n <= written /\ read' = read + n
    /\ UNCHANGED <<state, pc, request, start, outcome, connections, sent, serverVars, fault>>

\* recv waits for io_timeout, or returns nothing at once when the peer has
\* closed.
\* Mutant: an empty chunk is not taken for the end of the connection.
EmptyChunkIgnored == FALSE
empty_chunk == peer_closed
io_timeout == ~peer_closed

RecvFails ==
    /\ receiving /\ read - start < size
    /\ read = written /\ (io_timeout \/ empty_chunk)
    /\ Raise("transport")
    /\ fault' = TRUE
    /\ UNCHANGED <<sent, serverVars>>
-----------------------------------------------------------------------------
\* Mutant: what the first recv returned is taken for all of it.
FirstChunk == read > start
received == read - start = size

\* The header that begins where recv_exact began; anything else in the stream
\* has another magic.
OtherMagic == <<0, 0, 0, 0>>
Garbled == [ResponseHeader(0, OK, 1, CONTEXT_BYTES) EXCEPT !.magic = OtherMagic]
header ==
    IF received /\ \E k \in DOMAIN frames : frames[k].at = start
    THEN frames[CHOOSE k \in DOMAIN frames : frames[k].at = start].header
    ELSE Garbled

\* Mutant: the request_id of a success is not compared.
IdUnchecked(h) == h.valid_tokens = request.tokens
answers_request(h) == h.request_id = request.id /\ h.valid_tokens = request.tokens

\* The context of a success follows.
HeaderOk ==
    /\ pc = "header" /\ received
    /\ unpack_response_header(header) = OK
    /\ header.status_code = OK /\ answers_request(header)
    /\ pc' = "context" /\ start' = read
    /\ UNCHANGED <<state, request, read, outcome, connections, sent, serverVars, fault>>

\* An error of the server for this request, or for one it could not read.
ServerError ==
    /\ pc = "header" /\ received
    /\ unpack_response_header(header) = OK
    /\ header.status_code # OK
    /\ header.request_id \in {0, request.id} /\ header.valid_tokens \in {0, request.tokens}
    /\ Raise("server")
    /\ UNCHANGED <<sent, serverVars, fault>>

\* A header that is none, or not an answer to this request.
HeaderWrong ==
    /\ pc = "header" /\ received
    /\ \/ unpack_response_header(header) # OK
       \/ header.status_code = OK /\ ~answers_request(header)
       \/ /\ header.status_code # OK
          /\ \/ header.request_id \notin {0, request.id}
             \/ header.valid_tokens \notin {0, request.tokens}
    /\ Raise("transport")
    /\ UNCHANGED <<sent, serverVars, fault>>

\* The CRC of what was received is that of the header: it is the context of a
\* frame, and intact.
crc_matches ==
    received /\ \E k \in DOMAIN frames :
                    frames[k].at + HeaderLength = start /\ frames[k].intact

ContextOk ==
    /\ pc = "context" /\ received /\ crc_matches
    /\ state' = "READY" /\ pc' = "idle"
    /\ outcome' = Outcome("context", start)
    /\ UNCHANGED <<request, start, read, connections, sent, serverVars, fault>>

ContextWrong ==
    /\ pc = "context" /\ received /\ ~crc_matches
    /\ Raise("transport")
    /\ UNCHANGED <<sent, serverVars, fault>>
-----------------------------------------------------------------------------
\* A KeyboardInterrupt is no Exception: the request is left in flight.
Interrupt ==
    /\ pc # "idle"
    /\ pc' = "idle"
    /\ outcome' = Outcome("interrupted", 0)
    /\ UNCHANGED <<state, request, start, read, connections, sent, serverVars, fault>>

\* close(), or the end of the with block.
Close ==
    /\ pc = "idle" /\ state # "CLOSED"
    /\ state' = "CLOSED"
    /\ UNCHANGED <<pc, request, start, read, outcome, connections, sent, serverVars, fault>>

\* A new client on a new connection.
Connect ==
    /\ state = "CLOSED" /\ connections < MaxConnections
    /\ state' = "READY"
    /\ connections' = connections + 1
    /\ outcome' = Outcome("none", 0)
    /\ start' = 0 /\ read' = 0 /\ sent' = 0
    /\ answered' = 0 /\ frames' = <<>> /\ written' = 0
    /\ peer_closed' = FALSE /\ fault' = FALSE
    /\ UNCHANGED <<pc, request>>
-----------------------------------------------------------------------------
Put(to, h, intact) ==
    frames' = Append(frames, [at |-> StreamEnd, to |-> to, header |-> h, intact |-> intact])

serving == state # "CLOSED" /\ ~peer_closed

Success(id, tokens) == ResponseHeader(id, OK, tokens, CONTEXT_BYTES)
Failure(id, tokens) == ResponseHeader(id, FPGA_ERROR, tokens, 0)

\* The server has the whole request and answers it.
Answer ==
    /\ serving /\ sent = Parts * (answered + 1)
    /\ answered' = answered + 1
    /\ \E intact \in BOOLEAN :
           /\ Put(request.number, Success(request.id, request.tokens), intact)
           /\ fault' = (fault \/ ~intact)
    /\ UNCHANGED <<clientVars, sent, written, peer_closed>>

\* It refuses the request, as soon as it has its header.
Refuse ==
    /\ serving /\ sent > Parts * answered
    /\ answered' = answered + 1
    /\ \E id \in {0, request.id}, tokens \in {0, request.tokens} :
           Put(request.number, Failure(id, tokens), TRUE)
    /\ UNCHANGED <<clientVars, sent, written, peer_closed, fault>>

\* It has another connection, or had, and says so before it is asked, under
\* request_id 0, which a caller may use too.
AnswerBusy ==
    /\ serving /\ frames = <<>> /\ sent = 0
    /\ Put(0, ResponseHeader(0, BUSY, 0, 0), TRUE)
    /\ UNCHANGED <<clientVars, sent, answered, written, peer_closed, fault>>

\* An answer to somebody else's request, or one that breaks the protocol.
Crossed ==
    {h \in {Success(id, tokens) : id \in Ids, tokens \in Tokens}
           \cup {Failure(id, tokens) : id \in Ids, tokens \in Tokens} :
        h.request_id # request.id \/ h.valid_tokens # request.tokens}
Malformed ==
    LET success == Success(request.id, request.tokens)
        failure == Failure(request.id, request.tokens)
    IN  {[success EXCEPT !.magic = OtherMagic], [success EXCEPT !.version = VERSION + 1],
         [success EXCEPT !.command = RUN_ATTENTION],
         [success EXCEPT !.header_bytes = REQUEST_HEADER_BYTES],
         [success EXCEPT !.status_code = 13], [success EXCEPT !.detail_code = 1],
         [success EXCEPT !.valid_tokens = 0],
         [success EXCEPT !.context_bytes = CONTEXT_BYTES - 1],
         [failure EXCEPT !.context_bytes = 1],
         [failure EXCEPT !.valid_tokens = MAX_VALID_TOKENS + 1]}
AnswerWrongly ==
    /\ serving /\ sent = Parts * (answered + 1)
    /\ answered' = answered + 1
    /\ \E h \in Crossed \cup Malformed : Put(0, h, TRUE)
    /\ fault' = TRUE
    /\ UNCHANGED <<clientVars, sent, written, peer_closed>>

\* The network delivers the next bytes, cut and merged as it likes.
Deliver ==
    /\ serving
    /\ written' \in written + 1 .. StreamEnd
    /\ UNCHANGED <<clientVars, sent, answered, frames, peer_closed, fault>>

\* The server closes, or dies, perhaps in the middle of a frame.
PeerClose ==
    /\ serving
    /\ peer_closed' = TRUE
    /\ UNCHANGED <<clientVars, sent, answered, frames, written, fault>>
-----------------------------------------------------------------------------
Init ==
    /\ state = "CLOSED" /\ pc = "idle" /\ request = NoRequest
    /\ start = 0 /\ read = 0 /\ outcome = Outcome("none", 0) /\ connections = 0
    /\ sent = 0 /\ answered = 0 /\ frames = <<>> /\ written = 0
    /\ peer_closed = FALSE /\ fault = FALSE

ClientStep ==
    \/ SendPart \/ SendFails \/ Recv \/ RecvFails
    \/ HeaderOk \/ ServerError \/ HeaderWrong \/ ContextOk \/ ContextWrong
Caller ==
    \/ \E id \in Ids, tokens \in Tokens : RunRequest(id, tokens)
    \/ Interrupt \/ Close \/ Connect
Server ==
    Answer \/ Refuse \/ AnswerBusy \/ AnswerWrongly \/ Deliver \/ PeerClose

Next == ClientStep \/ Caller \/ Server

Spec == Init /\ [][Next]_vars

\* The client runs; a receive without data ends after io_timeout.  Nothing is
\* asked of the server.
FairSpec == Spec /\ WF_vars(ClientStep)
-----------------------------------------------------------------------------
\* A context run_request returns is the whole, intact context of the server's
\* answer to this very request, although the caller may use a request_id again
\* and answers may be cut, late, crossed or cut short.
ContextIsOwn ==
    outcome.kind = "context" =>
        \E k \in DOMAIN frames :
            /\ frames[k].to = request.number /\ frames[k].intact
            /\ frames[k].header = Success(request.id, request.tokens)
            /\ outcome.context = frames[k].at + HeaderLength
            /\ read = outcome.context + CONTEXT_BYTES

\* A client takes another request only where both streams are between frames:
\* every request was sent whole, answered and read to the end.  Only a refusal
\* nobody asked for may be waiting, and the next request fails with it.
ReuseAtBoundary ==
    state = "READY" =>
        /\ sent = Parts * answered
        /\ read = StreamEnd \/ (read = 0 /\ Len(frames) = 1 /\ frames[1].header.status_code = BUSY)

\* Whatever way the stream is cut, a request fails only if the server refused
\* it, the connection failed or the answer was wrong.
FailureHasCause ==
    /\ outcome.kind = "transport" => fault
    /\ outcome.kind = "server" => \E k \in DOMAIN frames : frames[k].header.status_code # OK

\* A request that is not interrupted ends, although the server may never answer
\* or close in the middle of a frame.
RequestEnds == (pc # "idle") ~> (pc = "idle")
=============================================================================
