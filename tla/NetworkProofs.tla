--------------------------- MODULE NetworkProofs ---------------------------
(***************************************************************************)
(* Proofs about what goes over the network: the client with the bytes of   *)
(* its headers, and the echo program.                                      *)
(*                                                                         *)
(* A context is the answer to its request, a connection is used again only *)
(* between frames, and no request fails without a cause: for every number  *)
(* of requests and connections, every length of header and context, and    *)
(* every server that answers each request at most once.                    *)
(*                                                                         *)
(* The invariant follows the frame of the request in work: it has not been *)
(* put yet (Waiting), it is the last one and begins where the client began *)
(* to read (Answered), or an unsolicited refusal stands before it          *)
(* (Refused).  Frames never share a position, so that a position names at  *)
(* most one frame.                                                         *)
(*                                                                         *)
(* Then come the bytes of the two headers (ProtocolBytes) and the echo.    *)
(***************************************************************************)
EXTENDS AttentionClient, ProtocolBytes, EchoServer, SequenceTheorems, TLAPS

Headers ==
    [magic : {MAGIC, OtherMagic}, version : Nat, command : Nat, header_bytes : Nat,
     request_id : Nat, status_code : Nat, valid_tokens : Nat, context_bytes : Nat,
     detail_code : Nat]
Frames == [at : Nat, to : Nat, header : Headers, intact : BOOLEAN]
Requests == [number : Nat, id : Nat, tokens : 0 .. MAX_VALID_TOKENS]

TypeOK ==
    /\ state \in {"READY", "IN_FLIGHT", "CLOSED"}
    /\ pc \in {"idle", "send", "header", "context"}
    /\ request \in Requests
    /\ start \in Nat /\ read \in Nat /\ written \in Nat
    /\ sent \in Nat /\ answered \in Nat
    /\ frames \in Seq(Frames)
    /\ fault \in BOOLEAN

EndOf(f) == f.at + HeaderLength + f.header.context_bytes

\* The frames follow one another, and the client is behind the server.
StreamInv ==
    /\ \A j, k \in 1 .. Len(frames) : j < k => EndOf(frames[j]) <= frames[k].at
    /\ start <= read /\ read <= written /\ written <= StreamEnd

\* Where the answer to the request in work begins.
Begin ==
    IF pc = "send" THEN read ELSE IF pc = "header" THEN start ELSE start - HeaderLength

BusyHeader == ResponseHeader(0, BUSY, 0, 0)

OwnContext(f) == f.to = request.number /\ f.header = Success(request.id, request.tokens)
OwnRefusal(f) ==
    \E id \in {0, request.id}, tokens \in {0, request.tokens} : f.header = Failure(id, tokens)
Reply(f) ==
    \/ OwnContext(f) /\ (f.intact \/ fault)
    \/ OwnRefusal(f)
    \/ f.header \in Crossed \cup Malformed /\ fault

Waiting ==
    /\ Len(frames) = answered /\ StreamEnd = Begin
    /\ pc = "send" => Parts * answered <= sent /\ sent < Parts * answered + Parts
    /\ pc # "send" => pc = "header" /\ sent = Parts * answered + Parts
Answered ==
    /\ answered > 0 /\ Len(frames) = answered
    /\ frames[answered].at = Begin
    /\ Reply(frames[answered])
    /\ pc = "send" => Parts * answered - Parts < sent /\ sent < Parts * answered
    /\ pc # "send" => sent = Parts * answered
    /\ pc = "context" => OwnContext(frames[answered])
Refused ==
    /\ Len(frames) = answered + 1
    /\ frames[1].at = 0 /\ frames[1].header = BusyHeader
    /\ Begin = 0 /\ pc # "context"

\* A request in work is in one of three situations.
WorkInv ==
    pc # "idle" =>
        /\ state = "IN_FLIGHT" /\ outcome.kind = "none" /\ request.tokens # 0
        /\ Waiting \/ Answered \/ Refused

\* A client that takes requests is between frames.
RestInv ==
    state = "READY" =>
        /\ sent = Parts * answered
        /\ \/ Len(frames) = answered /\ read = StreamEnd
           \/ /\ answered = 0 /\ read = 0 /\ Len(frames) = 1
              /\ frames[1].at = 0 /\ frames[1].header = BusyHeader

IInv == TypeOK /\ StreamInv /\ WorkInv /\ RestInv /\ ContextIsOwn /\ FailureHasCause

USE ProtocolAssumption, ClientAssumption
-----------------------------------------------------------------------------
\* What the server puts into the stream has the type of a header.
LEMMA HeaderTypes ==
    ASSUME request \in Requests
    PROVE  /\ BusyHeader \in Headers
           /\ \A id \in Nat, tokens \in Nat :
                  Success(id, tokens) \in Headers /\ Failure(id, tokens) \in Headers
           /\ Crossed \subseteq Headers /\ Malformed \subseteq Headers
<1>1. /\ BusyHeader \in Headers
      /\ \A id \in Nat, tokens \in Nat :
             Success(id, tokens) \in Headers /\ Failure(id, tokens) \in Headers
  BY DEF BusyHeader, Headers, ResponseHeader, Success, Failure, VERSION, ATTENTION_RESULT,
         RESPONSE_HEADER_BYTES, OK, BUSY, FPGA_ERROR
<1>2. request.id \in Nat /\ request.tokens \in Nat
  BY DEF Requests
<1>3. Ids \subseteq Nat /\ Tokens \subseteq Nat
  BY DEF MIN_VALID_TOKENS
<1>4. Crossed \subseteq Headers
  BY <1>1, <1>3 DEF Crossed
<1>5. Malformed \subseteq Headers
  <2> DEFINE success == Success(request.id, request.tokens)
             failure == Failure(request.id, request.tokens)
  <2>1. success \in Headers /\ failure \in Headers
    BY <1>1, <1>2
  <2>2. /\ VERSION + 1 \in Nat /\ RUN_ATTENTION \in Nat /\ REQUEST_HEADER_BYTES \in Nat
        /\ CONTEXT_BYTES - 1 \in Nat /\ MAX_VALID_TOKENS + 1 \in Nat
    BY DEF VERSION, RUN_ATTENTION, REQUEST_HEADER_BYTES
  <2> HIDE DEF success, failure
  <2>3. /\ [success EXCEPT !.magic = OtherMagic] \in Headers
        /\ [success EXCEPT !.version = VERSION + 1] \in Headers
        /\ [success EXCEPT !.command = RUN_ATTENTION] \in Headers
        /\ [success EXCEPT !.header_bytes = REQUEST_HEADER_BYTES] \in Headers
        /\ [success EXCEPT !.status_code = 13] \in Headers
        /\ [success EXCEPT !.detail_code = 1] \in Headers
        /\ [success EXCEPT !.valid_tokens = 0] \in Headers
        /\ [success EXCEPT !.context_bytes = CONTEXT_BYTES - 1] \in Headers
        /\ [failure EXCEPT !.context_bytes = 1] \in Headers
        /\ [failure EXCEPT !.valid_tokens = MAX_VALID_TOKENS + 1] \in Headers
    BY <2>1, <2>2 DEF Headers
  <2> QED
    BY <2>3 DEF Malformed, success, failure
<1> QED
  BY <1>1, <1>4, <1>5

\* What run_request finds no fault with.
Taken(h) ==
    /\ unpack_response_header(h) = OK
    /\ h.status_code = OK => answers_request(h)
    /\ h.status_code # OK =>
           h.request_id \in {0, request.id} /\ h.valid_tokens \in {0, request.tokens}

\* The client takes the answers it should, and no others for a success.
LEMMA OwnAccepted ==
    ASSUME request \in Requests, request.tokens # 0
    PROVE  /\ Taken(BusyHeader)
           /\ Taken(Success(request.id, request.tokens))
           /\ \A id \in {0, request.id}, tokens \in {0, request.tokens} :
                  Taken(Failure(id, tokens))
<1>1. request.id \in Nat /\ request.tokens \in 1 .. MAX_VALID_TOKENS
  BY DEF Requests
<1>2. /\ unpack_response_header(BusyHeader) = OK
      /\ unpack_response_header(Success(request.id, request.tokens)) = OK
      /\ \A id \in Nat, tokens \in {0, request.tokens} :
             unpack_response_header(Failure(id, tokens)) = OK
  BY <1>1 DEF BusyHeader, Success, Failure, ResponseHeader, unpack_response_header,
              validate_response_fields, OK, BUSY, FPGA_ERROR, StatusCode, MIN_VALID_TOKENS
<1>3. Taken(BusyHeader)
  <2>1. /\ BusyHeader.status_code # OK
        /\ BusyHeader.request_id = 0 /\ BusyHeader.valid_tokens = 0
    BY DEF BusyHeader, ResponseHeader, BUSY, OK
  <2> QED
    BY <1>2, <2>1 DEF Taken
<1>4. Taken(Success(request.id, request.tokens))
  <2>1. /\ Success(request.id, request.tokens).status_code = OK
        /\ answers_request(Success(request.id, request.tokens))
    BY DEF Success, ResponseHeader, answers_request
  <2> QED
    BY <1>2, <2>1 DEF Taken
<1>5. ASSUME NEW id \in {0, request.id}, NEW tokens \in {0, request.tokens}
      PROVE  Taken(Failure(id, tokens))
  <2>1. /\ Failure(id, tokens).status_code # OK
        /\ Failure(id, tokens).request_id = id /\ Failure(id, tokens).valid_tokens = tokens
    BY DEF Failure, ResponseHeader, FPGA_ERROR, OK
  <2>2. unpack_response_header(Failure(id, tokens)) = OK
    BY <1>1, <1>2
  <2> QED
    BY <2>1, <2>2 DEF Taken
<1> QED
  BY <1>3, <1>4, <1>5

LEMMA ForeignRefused ==
    ASSUME NEW h \in Crossed \cup Malformed,
           unpack_response_header(h) = OK, h.status_code = OK
    PROVE  ~answers_request(h)
<1>1. CASE h \in Crossed
  BY <1>1 DEF Crossed, Success, Failure, ResponseHeader, answers_request, OK, FPGA_ERROR
<1>2. CASE h \in Malformed
  <2> DEFINE success == Success(request.id, request.tokens)
             failure == Failure(request.id, request.tokens)
  <2>1. h # [success EXCEPT !.magic = OtherMagic]
    <3>1. MAGIC # OtherMagic
      BY DEF MAGIC, OtherMagic
    <3>2. h.magic = MAGIC
      BY DEF unpack_response_header, OK, BAD_MAGIC
    <3> QED
      BY <3>1, <3>2 DEF Success, ResponseHeader
  <2>4. /\ h # [success EXCEPT !.version = VERSION + 1]
        /\ h # [success EXCEPT !.command = RUN_ATTENTION]
        /\ h # [success EXCEPT !.header_bytes = REQUEST_HEADER_BYTES]
        /\ h # [success EXCEPT !.status_code = 13]
    BY DEF Success, ResponseHeader, unpack_response_header, VERSION, RUN_ATTENTION,
           ATTENTION_RESULT, REQUEST_HEADER_BYTES, RESPONSE_HEADER_BYTES, OK, BAD_MAGIC,
           BAD_VERSION, BAD_HEADER
  <2>2. /\ h # [success EXCEPT !.detail_code = 1]
        /\ h # [success EXCEPT !.valid_tokens = 0]
        /\ h # [success EXCEPT !.context_bytes = CONTEXT_BYTES - 1]
    BY DEF Success, ResponseHeader, unpack_response_header, validate_response_fields, OK,
           BAD_MAGIC, BAD_VERSION, BAD_HEADER, BAD_LENGTH, BAD_VALID_TOKENS, MIN_VALID_TOKENS
  <2>3. /\ h # [failure EXCEPT !.context_bytes = 1]
        /\ h # [failure EXCEPT !.valid_tokens = MAX_VALID_TOKENS + 1]
    BY DEF Failure, ResponseHeader, OK, FPGA_ERROR
  <2> QED
    BY <1>2, <2>1, <2>2, <2>3, <2>4 DEF Malformed
<1> QED
  BY <1>1, <1>2
-----------------------------------------------------------------------------
\* A frame more: it begins where the stream ended, the others stay.
LEMMA PutFacts ==
    ASSUME TypeOK, StreamInv, NEW to \in Nat, NEW h \in Headers, NEW intact \in BOOLEAN,
           Put(to, h, intact)
    PROVE  /\ frames' \in Seq(Frames) /\ Len(frames') = Len(frames) + 1
           /\ \A k \in 1 .. Len(frames) : frames'[k] = frames[k]
           /\ frames'[Len(frames) + 1]
                = [at |-> StreamEnd, to |-> to, header |-> h, intact |-> intact]
           /\ StreamEnd \in Nat /\ StreamEnd' \in Nat /\ StreamEnd <= StreamEnd'
           /\ \A j, k \in 1 .. Len(frames') : j < k => EndOf(frames'[j]) <= frames'[k].at
<1> DEFINE new == [at |-> StreamEnd, to |-> to, header |-> h, intact |-> intact]
<1>1. frames \in Seq(Frames) /\ Len(frames) \in Nat
  BY DEF TypeOK
<1>2. \A k \in 1 .. Len(frames) : frames[k] \in Frames
  BY <1>1
<1>3. \A f \in Frames : EndOf(f) \in Nat /\ f.at < EndOf(f)
  BY DEF Frames, Headers, EndOf
<1>4. StreamEnd = IF frames = <<>> THEN 0 ELSE EndOf(frames[Len(frames)])
  BY DEF StreamEnd, EndOf
<1>5. StreamEnd \in Nat
  BY <1>1, <1>2, <1>3, <1>4
<1>6. new \in Frames
  BY <1>5 DEF Frames
<1>7. \A k \in 1 .. Len(frames) : EndOf(frames[k]) <= StreamEnd
  <2>1. TAKE k \in 1 .. Len(frames)
  <2>2. frames # <<>> /\ StreamEnd = EndOf(frames[Len(frames)]) /\ Len(frames) \in 1 .. Len(frames)
    BY <1>1, <1>4
  <2>3. CASE k = Len(frames)
    BY <2>2, <2>3, <1>5
  <2>4. CASE k < Len(frames)
    <3>1. EndOf(frames[k]) <= frames[Len(frames)].at
      BY <2>2, <2>4 DEF StreamInv
    <3>2. EndOf(frames[k]) \in Nat /\ frames[Len(frames)].at \in Nat
      BY <1>2, <1>3, <2>2 DEF Frames
    <3> QED
      BY <3>1, <3>2, <2>2, <1>2, <1>3
  <2> QED
    BY <2>3, <2>4, <1>1
<1> HIDE DEF new
<1>8. frames' = Append(frames, new)
  BY DEF Put, new
<1>9. /\ frames' \in Seq(Frames) /\ Len(frames') = Len(frames) + 1
      /\ \A k \in 1 .. Len(frames) : frames'[k] = frames[k]
      /\ frames'[Len(frames) + 1] = new
  BY <1>1, <1>6, <1>8
<1>10. new.at = StreamEnd
  BY DEF new
<1>11. StreamEnd' = EndOf(new)
  <2>1. frames' # <<>>
    BY <1>1, <1>9
  <2>2. StreamEnd' = EndOf(frames'[Len(frames')])
    BY <2>1 DEF StreamEnd, EndOf
  <2> QED
    BY <2>2, <1>9
<1>12. StreamEnd' \in Nat /\ StreamEnd <= StreamEnd'
  BY <1>3, <1>5, <1>6, <1>10, <1>11
<1>13. \A j, k \in 1 .. Len(frames') : j < k => EndOf(frames'[j]) <= frames'[k].at
  <2>1. SUFFICES ASSUME NEW j \in 1 .. Len(frames'), NEW k \in 1 .. Len(frames'), j < k
                 PROVE  EndOf(frames'[j]) <= frames'[k].at
    OBVIOUS
  <2>2. j \in 1 .. Len(frames) /\ frames'[j] = frames[j]
    BY <1>1, <1>9, <2>1
  <2>3. CASE k = Len(frames) + 1
    BY <2>2, <2>3, <1>7, <1>9, <1>10
  <2>4. CASE k # Len(frames) + 1
    <3>1. k \in 1 .. Len(frames) /\ frames'[k] = frames[k]
      BY <1>1, <1>9, <2>4
    <3> QED
      BY <2>1, <2>2, <3>1 DEF StreamInv
  <2> QED
    BY <2>3, <2>4
<1> QED
  BY <1>5, <1>9, <1>12, <1>13 DEF new

\* A position names at most one frame.
LEMMA OneFrame ==
    ASSUME TypeOK, StreamInv, NEW j \in 1 .. Len(frames), NEW k \in 1 .. Len(frames),
           frames[j].at = frames[k].at
    PROVE  j = k
<1>0. \A f \in Frames : f.at \in Nat /\ EndOf(f) \in Nat /\ f.at < EndOf(f)
  BY SMTT(40) DEF Frames, Headers, EndOf
<1>1. /\ frames[j] \in Frames /\ frames[k] \in Frames
      /\ j \in Nat /\ k \in Nat
  BY DEF TypeOK
<1>2. CASE j < k
  <2>1. EndOf(frames[j]) <= frames[k].at
    BY <1>2 DEF StreamInv
  <2> QED
    BY <1>0, <1>1, <2>1
<1>3. CASE k < j
  <2>1. EndOf(frames[k]) <= frames[j].at
    BY <1>3 DEF StreamInv
  <2> QED
    BY <1>0, <1>1, <2>1
<1> QED
  BY <1>1, <1>2, <1>3

\* The header of the frame that begins where recv_exact began.
LEMMA HeaderAt ==
    ASSUME TypeOK, StreamInv, received, NEW k \in 1 .. Len(frames), frames[k].at = start
    PROVE  header = frames[k].header
<1>1. DOMAIN frames = 1 .. Len(frames)
  BY DEF TypeOK
<1>2. \A j \in DOMAIN frames : frames[j].at = start => j = k
  BY <1>1, OneFrame
<1> DEFINE which == CHOOSE j \in DOMAIN frames : frames[j].at = start
<1>3. which = k
  BY <1>1, <1>2
<1>4. header = frames[which].header
  BY <1>1 DEF header
<1> QED
  BY <1>3, <1>4
-----------------------------------------------------------------------------
\* In each situation the answer is not there, or it is the frame that begins
\* where the client reads.
LEMMA WaitingReceivesNothing ==
    ASSUME TypeOK, StreamInv, pc = "header", received, Waiting
    PROVE  FALSE
<1>1. StreamEnd = start
  BY DEF Waiting, Begin
<1>2. read = start + HeaderLength
  BY DEF received, size, TypeOK
<1> QED
  BY <1>1, <1>2 DEF StreamInv, TypeOK

LEMMA AnswerReceived ==
    ASSUME TypeOK, StreamInv, pc = "header", received, Answered
    PROVE  /\ answered \in 1 .. Len(frames)
           /\ header = frames[answered].header
<1>1. answered \in 1 .. Len(frames) /\ frames[answered].at = start
  BY DEF Answered, Begin, TypeOK
<1> QED
  BY <1>1, HeaderAt

LEMMA RefusalReceived ==
    ASSUME TypeOK, StreamInv, pc = "header", received, Refused
    PROVE  /\ 1 \in 1 .. Len(frames)
           /\ header = frames[1].header /\ header = BusyHeader
<1>1. 1 \in 1 .. Len(frames) /\ frames[1].at = start
  BY DEF Refused, Begin, TypeOK
<1> QED
  BY <1>1, HeaderAt DEF Refused

\* The frame in work while its context is read.
LEMMA ContextInWork ==
    ASSUME TypeOK, WorkInv, pc = "context"
    PROVE  /\ Answered /\ OwnContext(frames[answered])
           /\ answered \in 1 .. Len(frames)
           /\ frames[answered].at + HeaderLength = start
           /\ frames[answered].intact \/ fault
<1>1. Answered /\ OwnContext(frames[answered])
  BY DEF WorkInv, Waiting, Refused, Answered
<1>2. answered \in 1 .. Len(frames) /\ frames[answered].at = start - HeaderLength
  BY <1>1 DEF Answered, Begin, TypeOK
<1>3. frames[answered] \in Frames
  BY <1>2 DEF TypeOK
<1>4. frames[answered].at + HeaderLength = start
  BY <1>2, <1>3 DEF TypeOK, Frames
<1>5. ~OwnRefusal(frames[answered])
  BY <1>1 DEF OwnContext, OwnRefusal, Success, Failure, ResponseHeader, OK, FPGA_ERROR
<1>6. frames[answered].intact \/ fault
  BY <1>1, <1>5 DEF Answered, Reply
<1> QED
  BY <1>1, <1>2, <1>4, <1>6
-----------------------------------------------------------------------------
\* Nothing has happened yet.
LEMMA InitInv == Init => IInv
<1> SUFFICES ASSUME Init
             PROVE  IInv
  OBVIOUS
<1>1. frames = <<>> /\ frames \in Seq(Frames) /\ Len(frames) = 0 /\ StreamEnd = 0
  BY DEF Init, StreamEnd
<1>2. TypeOK
  <2>1. request \in Requests
    BY DEF Init, NoRequest, Requests
  <2> QED
    BY <1>1, <2>1 DEF Init, TypeOK
<1>3. StreamInv
  BY <1>1 DEF Init, StreamInv
<1>4. WorkInv /\ RestInv /\ ContextIsOwn /\ FailureHasCause
  BY DEF Init, WorkInv, RestInv, ContextIsOwn, FailureHasCause, Outcome
<1> QED
  BY <1>2, <1>3, <1>4 DEF IInv

\* A request that fails closes the client and leaves the streams alone.
LEMMA RaiseKeeps ==
    ASSUME IInv, NEW kind \in {"transport", "server"}, Raise(kind),
           UNCHANGED <<sent, serverVars>>, fault' \in {fault, TRUE},
           kind = "transport" => fault',
           kind = "server" => \E k \in DOMAIN frames : frames[k].header.status_code # OK
    PROVE  IInv'
<1>1. TypeOK' /\ StreamInv'
  BY DEF IInv, Raise, serverVars, TypeOK, StreamInv, StreamEnd
<1>2. WorkInv' /\ RestInv' /\ ContextIsOwn'
  BY DEF Raise, Outcome, WorkInv, RestInv, ContextIsOwn
<1>3. FailureHasCause'
  BY DEF Raise, Outcome, serverVars, FailureHasCause
<1> QED
  BY <1>1, <1>2, <1>3 DEF IInv

\* A request is begun between frames.
LEMMA RunRequestKeeps ==
    ASSUME IInv, NEW id \in Ids, NEW tokens \in Tokens, RunRequest(id, tokens)
    PROVE  IInv'
<1>1. id \in Nat /\ tokens \in 1 .. MAX_VALID_TOKENS
  BY DEF MIN_VALID_TOKENS
<1>2. TypeOK' /\ StreamInv'
  <2>1. request' \in Requests
    BY <1>1 DEF RunRequest, IInv, TypeOK, Requests
  <2> QED
    BY <2>1 DEF RunRequest, IInv, TypeOK, StreamInv, StreamEnd, serverVars
<1>3. WorkInv'
  <2>1. sent = Parts * answered
    BY DEF RunRequest, IInv, RestInv
  <2>2. CASE Len(frames) = answered /\ read = StreamEnd
    BY <2>1, <2>2, <1>1
       DEF RunRequest, WorkInv, Waiting, Begin, StreamEnd, serverVars, Outcome, Parts, IInv,
           TypeOK
  <2>3. CASE /\ answered = 0 /\ read = 0 /\ Len(frames) = 1
             /\ frames[1].at = 0 /\ frames[1].header = BusyHeader
    BY <2>3, <1>1 DEF RunRequest, WorkInv, Refused, Begin, BusyHeader, serverVars, Outcome
  <2> QED
    BY <2>2, <2>3 DEF RunRequest, IInv, RestInv
<1>4. RestInv' /\ ContextIsOwn' /\ FailureHasCause'
  BY DEF RunRequest, RestInv, ContextIsOwn, FailureHasCause, Outcome
<1> QED
  BY <1>2, <1>3, <1>4 DEF IInv

\* The fourth part is the last of a request, whatever was answered meanwhile.
LEMMA SendPartKeeps ==
    ASSUME IInv, SendPart
    PROVE  IInv'
<1>1. TypeOK' /\ StreamInv'
  BY DEF SendPart, IInv, TypeOK, StreamInv, StreamEnd, serverVars
<1>2. WorkInv'
  <2>1. /\ pc = "send" /\ state = "IN_FLIGHT" /\ outcome.kind = "none" /\ request.tokens # 0
        /\ Waiting \/ Answered \/ Refused
    BY DEF SendPart, IInv, WorkInv
  <2>2. /\ sent' = sent + 1 /\ sent \in Nat /\ answered \in Nat /\ answered' = answered
        /\ pc' = IF (sent + 1) % 4 = 0 THEN "header" ELSE "send"
        /\ start' = read /\ read' = read /\ frames' = frames /\ StreamEnd' = StreamEnd
        /\ request' = request /\ fault' = fault
    BY DEF SendPart, serverVars, Parts, StreamEnd, IInv, TypeOK
  <2>3. Begin = read /\ Begin' = read
    BY <2>1, <2>2 DEF Begin
  <2>4. CASE Waiting
    <3>1. 4 * answered <= sent /\ sent < 4 * answered + 4
      BY <2>1, <2>4 DEF Waiting, Parts
    <3>2. (sent + 1) % 4 = 0 <=> sent + 1 = 4 * answered + 4
      BY <2>2, <3>1
    <3>3. /\ pc' = "send" => 4 * answered <= sent' /\ sent' < 4 * answered + 4
          /\ pc' # "send" => pc' = "header" /\ sent' = 4 * answered + 4
      BY <2>2, <3>1, <3>2
    <3>4. Waiting'
      BY <2>2, <2>3, <2>4, <3>3 DEF Waiting, Parts
    <3> QED
      BY <2>1, <3>4 DEF WorkInv, SendPart
  <2>5. CASE Answered
    <3>1. 4 * answered - 4 < sent /\ sent < 4 * answered
      BY <2>1, <2>5 DEF Answered, Parts
    <3>2. (sent + 1) % 4 = 0 <=> sent + 1 = 4 * answered
      BY <2>2, <3>1
    <3>3. /\ pc' = "send" => 4 * answered - 4 < sent' /\ sent' < 4 * answered
          /\ pc' # "send" => sent' = 4 * answered
          /\ pc' # "context"
      BY <2>2, <3>1, <3>2
    <3>4. Reply(frames[answered])'
      <4>1. Reply(frames[answered])
        BY <2>5 DEF Answered
      <4>2. Crossed' = Crossed /\ Malformed' = Malformed
        BY <2>2 DEF Crossed, Malformed
      <4> QED
        BY <2>2, <4>1, <4>2 DEF Reply, OwnContext, OwnRefusal
    <3>5. Answered'
      BY <2>2, <2>3, <2>5, <3>3, <3>4 DEF Answered, Parts
    <3> QED
      BY <2>1, <3>5 DEF WorkInv, SendPart
  <2>6. CASE Refused
    <3>1. Refused'
      BY <2>2, <2>3, <2>6 DEF Refused, BusyHeader
    <3> QED
      BY <2>1, <3>1 DEF WorkInv, SendPart
  <2> QED
    BY <2>1, <2>4, <2>5, <2>6
<1>3. RestInv' /\ ContextIsOwn' /\ FailureHasCause'
  BY DEF SendPart, IInv, WorkInv, RestInv, ContextIsOwn, FailureHasCause, serverVars
<1> QED
  BY <1>1, <1>2, <1>3 DEF IInv

LEMMA SendFailsKeeps ==
    ASSUME IInv, SendFails
    PROVE  IInv'
  BY RaiseKeeps DEF SendFails

\* A receive moves the client, not the place its answer begins at.
LEMMA RecvKeeps ==
    ASSUME IInv, Recv
    PROVE  IInv'
<1>1. PICK n \in 1 .. size - (read - start) : read + n <= written /\ read' = read + n
  BY DEF Recv
<1>2. size \in Nat
  BY DEF size
<1>3. n \in Nat
  BY <1>1, <1>2 DEF IInv, TypeOK
<1>4. TypeOK' /\ StreamInv'
  BY <1>1, <1>3 DEF Recv, IInv, TypeOK, StreamInv, StreamEnd, serverVars
<1>5. pc \in {"header", "context"} /\ pc' = pc /\ state = "IN_FLIGHT" /\ outcome.kind = "none"
  BY SMTT(40) DEF Recv, receiving, IInv, WorkInv
<1>6. WorkInv'
  BY <1>5
     DEF Recv, IInv, WorkInv, Waiting, Answered, Refused, Begin, StreamEnd, serverVars, Reply,
         OwnContext, OwnRefusal, Crossed, Malformed, BusyHeader
<1>7. RestInv' /\ ContextIsOwn' /\ FailureHasCause'
  BY <1>5 DEF Recv, RestInv, ContextIsOwn, FailureHasCause
<1> QED
  BY <1>4, <1>6, <1>7 DEF IInv

LEMMA RecvFailsKeeps ==
    ASSUME IInv, RecvFails
    PROVE  IInv'
  BY RaiseKeeps DEF RecvFails
-----------------------------------------------------------------------------
\* A header taken for a success is the answer to the request in work.
LEMMA HeaderOkKeeps ==
    ASSUME IInv, HeaderOk
    PROVE  IInv'
<1>1. /\ TypeOK /\ StreamInv /\ pc = "header" /\ received /\ state = "IN_FLIGHT"
      /\ outcome.kind = "none" /\ request.tokens # 0
      /\ Waiting \/ Answered \/ Refused
  BY DEF HeaderOk, IInv, WorkInv
<1>2. Answered
  <2>1. ~Waiting
    BY <1>1, WaitingReceivesNothing
  <2>2. ~Refused
    <3>1. SUFFICES ASSUME Refused
                   PROVE  FALSE
      OBVIOUS
    <3>2. header = BusyHeader
      BY <1>1, <3>1, RefusalReceived
    <3> QED
      BY <3>2 DEF HeaderOk, BusyHeader, ResponseHeader, BUSY, OK
  <2> QED
    BY <1>1, <2>1, <2>2
<1>3. header = frames[answered].header
  BY <1>1, <1>2, AnswerReceived
<1>4. OwnContext(frames[answered])
  <2>1. ~OwnRefusal(frames[answered])
    BY <1>3 DEF HeaderOk, OwnRefusal, Failure, ResponseHeader, OK, FPGA_ERROR
  <2>2. frames[answered].header \notin Crossed \cup Malformed
    BY <1>3, ForeignRefused DEF HeaderOk
  <2> QED
    BY <1>2, <2>1, <2>2 DEF Answered, Reply
<1>5. read = start + HeaderLength
  BY <1>1 DEF received, size, TypeOK
<1>6. TypeOK' /\ StreamInv'
  BY <1>1 DEF HeaderOk, TypeOK, StreamInv, StreamEnd, serverVars
<1>7. Begin = start /\ Begin' = start
  BY <1>1, <1>5 DEF HeaderOk, Begin, TypeOK
<1>8. Answered'
  BY <1>1, <1>2, <1>4, <1>7
     DEF HeaderOk, Answered, Parts, serverVars, Reply, OwnContext, OwnRefusal, Crossed, Malformed
<1>9. /\ state' = "IN_FLIGHT" /\ outcome'.kind = "none" /\ request'.tokens # 0
  BY <1>1 DEF HeaderOk
<1>10. WorkInv'
  BY <1>8, <1>9 DEF WorkInv
<1>11. RestInv' /\ ContextIsOwn' /\ FailureHasCause'
  BY <1>9 DEF RestInv, ContextIsOwn, FailureHasCause
<1> QED
  BY <1>6, <1>10, <1>11 DEF IInv

\* An error is that of a frame the server put.
LEMMA ServerErrorKeeps ==
    ASSUME IInv, ServerError
    PROVE  IInv'
<1>1. /\ TypeOK /\ StreamInv /\ pc = "header" /\ received /\ header.status_code # OK
      /\ Waiting \/ Answered \/ Refused
  BY DEF ServerError, IInv, WorkInv
<1>2. \E k \in 1 .. Len(frames) : header = frames[k].header
  BY <1>1, WaitingReceivesNothing, AnswerReceived, RefusalReceived
<1>3. \E k \in DOMAIN frames : frames[k].header.status_code # OK
  BY <1>1, <1>2 DEF TypeOK
<1> QED
  BY <1>3, RaiseKeeps DEF ServerError

\* A header the client takes offence at was wrong.
LEMMA HeaderWrongKeeps ==
    ASSUME IInv, HeaderWrong
    PROVE  IInv'
<1>1. /\ TypeOK /\ StreamInv /\ pc = "header" /\ received /\ request.tokens # 0
      /\ request \in Requests
      /\ Waiting \/ Answered \/ Refused
  BY DEF HeaderWrong, IInv, WorkInv, TypeOK
<1>2. ~Taken(header)
  BY DEF HeaderWrong, Taken
<1>3. Taken(BusyHeader) /\ Taken(Success(request.id, request.tokens))
  BY <1>1, OwnAccepted
<1>4. \A id \in {0, request.id}, tokens \in {0, request.tokens} : Taken(Failure(id, tokens))
  BY <1>1, OwnAccepted
<1>5. fault
  <2>1. ~Waiting
    BY <1>1, WaitingReceivesNothing
  <2>2. ~Refused
    BY <1>1, <1>2, <1>3, RefusalReceived
  <2>3. Answered
    BY <1>1, <2>1, <2>2
  <2>4. header = frames[answered].header
    BY <1>1, <2>3, AnswerReceived
  <2>5. ~OwnContext(frames[answered])
    BY <1>2, <1>3, <2>4 DEF OwnContext
  <2>6. ~OwnRefusal(frames[answered])
    BY <1>2, <1>4, <2>4 DEF OwnRefusal
  <2> QED
    BY <2>3, <2>5, <2>6 DEF Answered, Reply
<1> QED
  BY <1>5, RaiseKeeps DEF HeaderWrong, IInv

\* The context that was received is the one of the last frame, and ends it.
LEMMA ContextOkKeeps ==
    ASSUME IInv, ContextOk
    PROVE  IInv'
<1>1. /\ TypeOK /\ StreamInv /\ WorkInv /\ pc = "context" /\ received /\ crc_matches
  BY DEF ContextOk, IInv
<1>2. /\ Answered /\ OwnContext(frames[answered]) /\ answered \in 1 .. Len(frames)
      /\ frames[answered].at + HeaderLength = start
  BY <1>1, ContextInWork
<1>3. DOMAIN frames = 1 .. Len(frames)
  BY <1>1 DEF TypeOK
<1>4. frames[answered].intact
  <2>1. PICK k \in 1 .. Len(frames) : frames[k].at + HeaderLength = start /\ frames[k].intact
    BY <1>1, <1>3 DEF crc_matches
  <2>2. frames[k] \in Frames /\ frames[answered] \in Frames
    BY <1>1, <1>2 DEF TypeOK
  <2>3. frames[k].at = frames[answered].at
    BY <1>2, <2>1, <2>2 DEF Frames
  <2>4. k = answered
    BY <1>1, <1>2, <2>3, OneFrame
  <2> QED
    BY <2>1, <2>4
<1>5. read = start + CONTEXT_BYTES
  BY <1>1 DEF received, size, TypeOK
<1>6. read = StreamEnd
  <2>1. frames # <<>> /\ answered = Len(frames)
    BY <1>1, <1>2 DEF Answered, TypeOK
  <2>2. frames[answered].header.context_bytes = CONTEXT_BYTES
    BY <1>2 DEF OwnContext, Success, ResponseHeader
  <2>3. StreamEnd = frames[answered].at + HeaderLength + CONTEXT_BYTES
    BY <2>1, <2>2 DEF StreamEnd
  <2> QED
    BY <1>2, <1>5, <2>3
<1>7. TypeOK' /\ StreamInv'
  BY <1>1 DEF ContextOk, TypeOK, StreamInv, StreamEnd, serverVars
<1>8. WorkInv' /\ FailureHasCause'
  BY DEF ContextOk, WorkInv, FailureHasCause, Outcome
<1>9. RestInv'
  <2>1. sent = Parts * answered /\ Len(frames) = answered
    BY <1>1, <1>2 DEF Answered
  <2> QED
    BY <1>6, <2>1 DEF ContextOk, RestInv, StreamEnd, serverVars
<1>10. ContextIsOwn'
  <2>1. /\ frames[answered].to = request.number /\ frames[answered].intact
        /\ frames[answered].header = Success(request.id, request.tokens)
        /\ start = frames[answered].at + HeaderLength
        /\ read = start + CONTEXT_BYTES
    BY <1>2, <1>4, <1>5 DEF OwnContext
  <2> QED
    BY <1>2, <1>3, <2>1 DEF ContextOk, ContextIsOwn, Outcome, serverVars
<1> QED
  BY <1>7, <1>8, <1>9, <1>10 DEF IInv

\* A context whose CRC differs was not intact.
LEMMA ContextWrongKeeps ==
    ASSUME IInv, ContextWrong
    PROVE  IInv'
<1>1. /\ TypeOK /\ WorkInv /\ pc = "context" /\ received /\ ~crc_matches
  BY DEF ContextWrong, IInv
<1>2. /\ answered \in 1 .. Len(frames) /\ frames[answered].at + HeaderLength = start
      /\ frames[answered].intact \/ fault
  BY <1>1, ContextInWork
<1>3. DOMAIN frames = 1 .. Len(frames)
  BY <1>1 DEF TypeOK
<1>4. fault
  BY <1>1, <1>2, <1>3 DEF crc_matches
<1> QED
  BY <1>4, RaiseKeeps DEF ContextWrong, IInv
-----------------------------------------------------------------------------
LEMMA InterruptKeeps ==
    ASSUME IInv, Interrupt
    PROVE  IInv'
<1>1. TypeOK' /\ StreamInv'
  BY DEF Interrupt, IInv, TypeOK, StreamInv, StreamEnd, serverVars
<1>2. WorkInv' /\ RestInv' /\ ContextIsOwn' /\ FailureHasCause'
  BY DEF Interrupt, IInv, WorkInv, RestInv, ContextIsOwn, FailureHasCause, Outcome
<1> QED
  BY <1>1, <1>2 DEF IInv

LEMMA CloseKeeps ==
    ASSUME IInv, Close
    PROVE  IInv'
<1>1. TypeOK' /\ StreamInv'
  BY DEF Close, IInv, TypeOK, StreamInv, StreamEnd, serverVars
<1>2. WorkInv' /\ RestInv' /\ ContextIsOwn' /\ FailureHasCause'
  BY DEF Close, IInv, WorkInv, RestInv, ContextIsOwn, FailureHasCause, serverVars
<1> QED
  BY <1>1, <1>2 DEF IInv

\* Both streams of a new connection are empty.
LEMMA ConnectKeeps ==
    ASSUME IInv, Connect
    PROVE  IInv'
<1>1. pc = "idle"
  BY DEF Connect, IInv, WorkInv
<1>2. frames' \in Seq(Frames) /\ Len(frames') = 0 /\ StreamEnd' = 0
  BY DEF Connect, StreamEnd
<1>3. TypeOK'
  BY <1>2 DEF Connect, IInv, TypeOK
<1>5. StreamInv'
  BY <1>2 DEF Connect, StreamInv
<1>4. WorkInv' /\ RestInv' /\ ContextIsOwn' /\ FailureHasCause'
  BY <1>1, <1>2
     DEF Connect, WorkInv, RestInv, ContextIsOwn, FailureHasCause, Outcome, Parts
<1> QED
  BY <1>3, <1>4, <1>5 DEF IInv
-----------------------------------------------------------------------------
\* A frame more disturbs neither what was returned nor why a request failed.
LEMMA PutKeeps ==
    ASSUME IInv, NEW to \in Nat, NEW h \in Headers, NEW intact \in BOOLEAN, Put(to, h, intact),
           UNCHANGED <<clientVars, sent, written>>, answered' \in Nat,
           fault' \in BOOLEAN, fault => fault'
    PROVE  TypeOK' /\ StreamInv' /\ ContextIsOwn' /\ FailureHasCause'
<1>1. TypeOK /\ StreamInv
  BY DEF IInv
<1>2. /\ frames' \in Seq(Frames) /\ Len(frames') = Len(frames) + 1
      /\ \A k \in 1 .. Len(frames) : frames'[k] = frames[k]
      /\ StreamEnd \in Nat /\ StreamEnd <= StreamEnd' /\ StreamEnd' \in Nat
      /\ \A j, k \in 1 .. Len(frames') : j < k => EndOf(frames'[j]) <= frames'[k].at
  BY <1>1, PutFacts
<1>3. TypeOK' /\ StreamInv'
  BY <1>1, <1>2 DEF clientVars, TypeOK, StreamInv
<1>4. DOMAIN frames = 1 .. Len(frames) /\ DOMAIN frames' = 1 .. Len(frames')
      /\ Len(frames) \in Nat
  BY <1>1, <1>2 DEF TypeOK
<1>5. \A k \in DOMAIN frames : k \in DOMAIN frames' /\ frames'[k] = frames[k]
  BY <1>2, <1>4
<1>6. ContextIsOwn' /\ FailureHasCause'
  BY <1>5 DEF IInv, ContextIsOwn, FailureHasCause, clientVars
<1> QED
  BY <1>3, <1>6

\* Waiting turns into Answered, an unsolicited refusal stays in front.
LEMMA ReplyKeeps ==
    ASSUME IInv, NEW to \in Nat, NEW h \in Headers, NEW intact \in BOOLEAN, Put(to, h, intact),
           UNCHANGED <<clientVars, sent, written>>, answered' = answered + 1,
           fault' \in BOOLEAN, fault => fault', sent > Parts * answered,
           pc # "idle" =>
               \/ /\ to = request.number /\ h = Success(request.id, request.tokens)
                  /\ intact \/ fault'
               \/ \E id \in {0, request.id}, tokens \in {0, request.tokens} :
                      h = Failure(id, tokens)
               \/ h \in Crossed \cup Malformed /\ fault'
    PROVE  IInv'
<1>1. TypeOK /\ StreamInv /\ WorkInv /\ RestInv /\ sent \in Nat /\ answered \in Nat
  BY DEF IInv, TypeOK
<1>2. /\ Len(frames') = Len(frames) + 1 /\ Len(frames) \in Nat
      /\ \A k \in 1 .. Len(frames) : frames'[k] = frames[k]
      /\ frames'[Len(frames) + 1]
           = [at |-> StreamEnd, to |-> to, header |-> h, intact |-> intact]
  BY <1>1, PutFacts DEF TypeOK
<1>3. TypeOK' /\ StreamInv' /\ ContextIsOwn' /\ FailureHasCause'
  BY <1>1, PutKeeps
<1>4. RestInv'
  BY <1>1 DEF RestInv, clientVars, Parts
<1>5. Begin' = Begin /\ pc' = pc /\ sent' = sent
  BY DEF Begin, clientVars
<1>6. ASSUME pc # "idle"
      PROVE  Answered' \/ Refused'
  <2>1. ~Answered
    BY <1>1, <1>6 DEF Answered, Parts, TypeOK
  <2>2. CASE Waiting
    <3>1. answered' > 0 /\ Len(frames') = answered'
      BY <1>1, <1>2, <2>2 DEF Waiting
    <3>2. frames'[answered'] = [at |-> StreamEnd, to |-> to, header |-> h, intact |-> intact]
      BY <1>2, <2>2 DEF Waiting
    <3>3. frames'[answered'].at = Begin
      BY <2>2, <3>2 DEF Waiting
    <3>4. Reply(frames[answered])'
      BY <1>6, <3>2
         DEF Reply, OwnContext, OwnRefusal, Crossed, Malformed, clientVars
    <3>5. /\ pc' = "send" => Parts * answered' - Parts < sent' /\ sent' < Parts * answered'
          /\ pc' # "send" => sent' = Parts * answered'
          /\ pc' # "context"
      BY <1>1, <1>5, <2>2 DEF Waiting, Parts
    <3> QED
      BY <1>5, <3>1, <3>3, <3>4, <3>5 DEF Answered
  <2>3. CASE Refused
    BY <1>1, <1>2, <1>5, <2>3 DEF Refused, BusyHeader
  <2> QED
    BY <1>1, <1>6, <2>1, <2>2, <2>3 DEF WorkInv
<1>7. WorkInv'
  BY <1>1, <1>6 DEF WorkInv, clientVars
<1> QED
  BY <1>3, <1>4, <1>7 DEF IInv

LEMMA AnswerKeeps ==
    ASSUME IInv, Answer
    PROVE  IInv'
<1>1. PICK intact \in BOOLEAN :
          /\ Put(request.number, Success(request.id, request.tokens), intact)
          /\ fault' = (fault \/ ~intact)
  BY DEF Answer
<1>2. /\ request \in Requests /\ fault \in BOOLEAN
      /\ sent \in Nat /\ answered \in Nat
  BY DEF IInv, TypeOK
<1>3. request.number \in Nat /\ Success(request.id, request.tokens) \in Headers
  <2>1. request.number \in Nat /\ request.id \in Nat /\ request.tokens \in Nat
    BY <1>2 DEF Requests
  <2> QED
    BY <1>2, <2>1, HeaderTypes
<1>4. /\ answered' = answered + 1 /\ UNCHANGED <<clientVars, sent, written>>
      /\ sent > Parts * answered
  BY <1>2 DEF Answer, Parts
<1>5. fault' \in BOOLEAN /\ (fault => fault') /\ (intact \/ fault')
  BY <1>1, <1>2
<1> QED
  BY <1>1, <1>3, <1>4, <1>5, ReplyKeeps

LEMMA RefuseKeeps ==
    ASSUME IInv, Refuse
    PROVE  IInv'
<1>1. PICK id \in {0, request.id}, tokens \in {0, request.tokens} :
          Put(request.number, Failure(id, tokens), TRUE)
  BY DEF Refuse
<1>2. request \in Requests /\ fault \in BOOLEAN
  BY DEF IInv, TypeOK
<1>3. request.number \in Nat /\ Failure(id, tokens) \in Headers
  <2>1. request.number \in Nat /\ id \in Nat /\ tokens \in Nat
    BY <1>2 DEF Requests
  <2> QED
    BY <1>2, <2>1, HeaderTypes
<1>4. /\ answered' = answered + 1 /\ UNCHANGED <<clientVars, sent, written>>
      /\ sent > Parts * answered /\ fault' = fault
  BY DEF Refuse
<1> QED
  BY <1>1, <1>2, <1>3, <1>4, ReplyKeeps

LEMMA AnswerWronglyKeeps ==
    ASSUME IInv, AnswerWrongly
    PROVE  IInv'
<1>1. PICK h \in Crossed \cup Malformed : Put(0, h, TRUE)
  BY DEF AnswerWrongly
<1>2. request \in Requests /\ sent \in Nat /\ answered \in Nat
  BY DEF IInv, TypeOK
<1>3. h \in Headers
  BY <1>2, HeaderTypes
<1>4. /\ answered' = answered + 1 /\ UNCHANGED <<clientVars, sent, written>>
      /\ sent > Parts * answered /\ fault' = TRUE
  BY <1>2 DEF AnswerWrongly, Parts
<1> QED
  BY <1>1, <1>3, <1>4, ReplyKeeps

\* The refusal nobody asked for is the first frame of its connection.
LEMMA AnswerBusyKeeps ==
    ASSUME IInv, AnswerBusy
    PROVE  IInv'
<1>1. /\ frames = <<>> /\ sent = 0 /\ Put(0, BusyHeader, TRUE)
      /\ UNCHANGED <<clientVars, sent, written>> /\ answered' = answered /\ fault' = fault
  BY DEF AnswerBusy, BusyHeader
<1>2. /\ TypeOK /\ StreamInv /\ request \in Requests /\ answered \in Nat /\ fault \in BOOLEAN
      /\ WorkInv /\ RestInv
  BY DEF IInv, TypeOK
<1>3. BusyHeader \in Headers
  BY <1>2, HeaderTypes
<1>4. Len(frames) = 0 /\ StreamEnd = 0
  BY <1>1 DEF StreamEnd
<1>5. /\ Len(frames') = 1
      /\ frames'[1].at = 0 /\ frames'[1].header = BusyHeader
  <2>1. /\ Len(frames') = Len(frames) + 1
        /\ frames'[Len(frames) + 1]
             = [at |-> StreamEnd, to |-> 0, header |-> BusyHeader, intact |-> TRUE]
    BY <1>1, <1>2, <1>3, PutFacts
  <2> QED
    BY <1>4, <2>1
<1>6. TypeOK' /\ StreamInv' /\ ContextIsOwn' /\ FailureHasCause'
  BY <1>1, <1>2, <1>3, PutKeeps
<1>7. WorkInv'
  <2>1. SUFFICES ASSUME pc # "idle"
                 PROVE  WorkInv'
    BY <1>1 DEF WorkInv, clientVars
  <2>2. Waiting /\ answered = 0
    <3>1. ~Answered /\ ~Refused
      BY <1>2, <1>4 DEF Answered, Refused
    <3> QED
      BY <1>2, <1>4, <2>1, <3>1 DEF WorkInv, Waiting
  <2>3. pc = "send" /\ Begin = 0
    BY <1>1, <1>4, <2>2 DEF Waiting, Parts
  <2>4. Refused'
    BY <1>1, <1>5, <2>2, <2>3 DEF Refused, Begin, BusyHeader, clientVars
  <2> QED
    BY <1>1, <1>2, <2>1, <2>4 DEF WorkInv, clientVars
<1>8. RestInv'
  <2>1. SUFFICES ASSUME state = "READY"
                 PROVE  RestInv'
    BY <1>1 DEF RestInv, clientVars
  <2>2. answered = 0 /\ read = 0 /\ sent = Parts * answered
    BY <1>2, <1>4, <2>1 DEF RestInv
  <2> QED
    BY <1>1, <1>5, <2>2 DEF RestInv, BusyHeader, clientVars
<1> QED
  BY <1>6, <1>7, <1>8 DEF IInv

\* What the client has read stays behind what has arrived.
LEMMA DeliverKeeps ==
    ASSUME IInv, Deliver
    PROVE  IInv'
<1>1. StreamEnd' = StreamEnd /\ written' \in written + 1 .. StreamEnd
  BY DEF Deliver, StreamEnd
<1>2. StreamEnd \in Int
  <2>1. CASE frames = <<>>
    BY <2>1 DEF StreamEnd
  <2>2. CASE frames # <<>>
    <3>1. frames[Len(frames)] \in Frames
      BY <2>2 DEF IInv, TypeOK
    <3> QED
      BY <2>2, <3>1 DEF StreamEnd, Frames, Headers
  <2> QED
    BY <2>1, <2>2
<1>3. written' \in Nat /\ written <= written' /\ written' <= StreamEnd
  BY <1>1, <1>2 DEF IInv, TypeOK
<1>4. TypeOK' /\ StreamInv'
  BY <1>1, <1>3 DEF Deliver, IInv, TypeOK, StreamInv, clientVars
<1>5. WorkInv' /\ RestInv'
  BY <1>1
     DEF Deliver, IInv, WorkInv, RestInv, Waiting, Answered, Refused, Begin, Reply, OwnContext,
         OwnRefusal, Crossed, Malformed, BusyHeader, clientVars
<1>6. ContextIsOwn' /\ FailureHasCause'
  BY DEF Deliver, IInv, ContextIsOwn, FailureHasCause, clientVars
<1> QED
  BY <1>4, <1>5, <1>6 DEF IInv

\* Steps that change none of the invariant's variables.
LEMMA QuietKeeps ==
    ASSUME IInv, UNCHANGED <<clientVars, sent, answered, frames, written, fault>>
    PROVE  IInv'
<1>1. TypeOK' /\ StreamInv'
  BY DEF IInv, TypeOK, StreamInv, StreamEnd, clientVars
<1>2. WorkInv' /\ RestInv'
  BY DEF IInv, WorkInv, RestInv, Waiting, Answered, Refused, Begin, StreamEnd, Reply, OwnContext,
         OwnRefusal, Crossed, Malformed, BusyHeader, clientVars
<1>3. ContextIsOwn' /\ FailureHasCause'
  BY DEF IInv, ContextIsOwn, FailureHasCause, clientVars
<1> QED
  BY <1>1, <1>2, <1>3 DEF IInv
-----------------------------------------------------------------------------
\* The three situations of a request and the two of a client at rest are all
\* there are.
LEMMA Invariance == Spec => []IInv
<1>1. Init => IInv
  BY InitInv
<1>2. IInv /\ [Next]_vars => IInv'
  <2> SUFFICES ASSUME IInv, [Next]_vars
               PROVE  IInv'
    OBVIOUS
  <2>1. CASE ClientStep
    BY <2>1, SendPartKeeps, SendFailsKeeps, RecvKeeps, RecvFailsKeeps, HeaderOkKeeps,
       ServerErrorKeeps, HeaderWrongKeeps, ContextOkKeeps, ContextWrongKeeps DEF ClientStep
  <2>2. CASE Caller
    BY <2>2, RunRequestKeeps, InterruptKeeps, CloseKeeps, ConnectKeeps DEF Caller
  <2>3. CASE PeerClose
    BY <2>3, QuietKeeps DEF PeerClose
  <2>4. CASE Answer \/ Refuse \/ AnswerBusy \/ AnswerWrongly \/ Deliver
    BY <2>4, AnswerKeeps, RefuseKeeps, AnswerBusyKeeps, AnswerWronglyKeeps, DeliverKeeps
  <2>5. CASE UNCHANGED vars
    BY <2>5, QuietKeeps DEF vars, serverVars
  <2> QED
    BY <2>1, <2>2, <2>3, <2>4, <2>5 DEF Next, Server
<1> QED
  BY <1>1, <1>2, PTL DEF Spec

\* A context run_request returns is the whole, intact context of the server's
\* answer to this very request (python/fpga_attention_client.py, run_request
\* and _read_response).
THEOREM ContextIsOwnAlways == Spec => []ContextIsOwn
<1>1. IInv => ContextIsOwn
  BY DEF IInv
<1> QED
  BY <1>1, Invariance, PTL

\* A request fails only for a cause: a failed connection, a wrong answer, or a
\* refusal of the server.  The way the stream is cut is none.
THEOREM FailureHasCauseAlways == Spec => []FailureHasCause
<1>1. IInv => FailureHasCause
  BY DEF IInv
<1> QED
  BY <1>1, Invariance, PTL

\* The state machine of the client is READY only where both streams are between
\* frames, so that the connection may be used again.
THEOREM ReuseAtBoundaryAlways == Spec => []ReuseAtBoundary
<1>1. IInv => ReuseAtBoundary
  BY DEF IInv, RestInv, ReuseAtBoundary, BusyHeader, ResponseHeader
<1> QED
  BY <1>1, Invariance, PTL
-----------------------------------------------------------------------------
\* Dividing by 256 splits a number into its lowest byte and the rest.
LEMMA Digit ==
    ASSUME NEW v \in Nat
    PROVE  /\ v % 256 \in Byte /\ v \div 256 \in Nat
           /\ v = (v % 256) + 256 * (v \div 256)
  BY SMT DEF Byte

\* The rest is smaller by a factor of 256.
LEMMA Quotient ==
    ASSUME NEW v \in Nat, NEW m \in Nat, v < 256 * m
    PROVE  v \div 256 \in Nat /\ v \div 256 < m
<1> DEFINE q == v \div 256
           r == v % 256
<1>1. q \in Nat /\ r \in 0 .. 255 /\ v = r + 256 * q
  BY Digit DEF Byte
<1> HIDE DEF q, r
<1>2. q \in Nat /\ q < m
  BY <1>1
<1> QED
  BY <1>2 DEF q

\* A byte is its own lowest byte.
LEMMA LastDigit ==
    ASSUME NEW v \in Byte
    PROVE  v % 256 = v
  BY SMT DEF Byte

\* A 16-bit field that fpt_write_le16 wrote is what fpt_read_le16 reads, for
\* every value, at every place of every buffer.
THEOREM Le16RoundTrip ==
    ASSUME NEW n \in Nat, NEW data \in Buffer(n), NEW off \in Nat, off + 1 < n, NEW value \in U16
    PROVE  /\ fpt_write_le16(data, off, value) \in Buffer(n)
           /\ fpt_read_le16(fpt_write_le16(data, off, value), off) = value
<1> DEFINE q == value \div 256
           r == value % 256
<1>1. value \in Nat /\ value < 256 * 256
  BY DEF U16
<1>2. q \in Nat /\ q < 256
  BY <1>1, Quotient
<1>3. q % 256 = q
  BY <1>2, LastDigit DEF Byte
<1>4. r \in Byte /\ value = r + 256 * q
  BY <1>1, Digit
<1>5. fpt_write_le16(data, off, value) = [data EXCEPT ![off] = r, ![off + 1] = q]
  BY <1>3 DEF fpt_write_le16
<1> DEFINE d == [data EXCEPT ![off] = r, ![off + 1] = q]
<1> HIDE DEF q, r
<1>6. q \in Byte
  BY <1>2, SMT DEF Byte
<1>7. d \in Buffer(n) /\ d[off] = r /\ d[off + 1] = q
  BY <1>4, <1>6, SMT DEF Buffer
<1> HIDE DEF d
<1>8. fpt_read_le16(d, off) = value
  BY <1>4, <1>7, Zenon DEF fpt_read_le16
<1> QED
  BY <1>5, <1>7, <1>8, Zenon DEF d

\* The same of a 32-bit field.
THEOREM Le32RoundTrip ==
    ASSUME NEW n \in Nat, NEW data \in Buffer(n), NEW off \in Nat, off + 3 < n, NEW value \in U32
    PROVE  /\ fpt_write_le32(data, off, value) \in Buffer(n)
           /\ fpt_read_le32(fpt_write_le32(data, off, value), off) = value
<1> DEFINE q1 == value \div 256
           q2 == q1 \div 256
           q3 == q2 \div 256
           b0 == value % 256
           b1 == q1 % 256
           b2 == q2 % 256
<1>1. value \in Nat /\ value < 256 * (256 * (256 * 256))
  BY Zenon DEF U32
<1>2. q1 \in Nat /\ q1 < 256 * (256 * 256)
  BY <1>1, Quotient, SMT
<1> HIDE DEF q1
<1>3. q2 \in Nat /\ q2 < 256 * 256
  BY <1>2, Quotient, SMT
<1> HIDE DEF q2
<1>4. q3 \in Nat /\ q3 < 256
  BY <1>3, Quotient, SMT
<1> HIDE DEF q3
<1>5. q3 % 256 = q3
  BY <1>4, LastDigit DEF Byte
<1>6. b0 \in Byte /\ value = b0 + 256 * q1
  BY <1>1, Digit DEF q1
<1>7. b1 \in Byte /\ q1 = b1 + 256 * q2
  BY <1>2, Digit DEF q2
<1>8. b2 \in Byte /\ q2 = b2 + 256 * q3
  BY <1>3, Digit DEF q3
<1>9. fpt_write_le32(data, off, value)
        = [data EXCEPT ![off] = b0, ![off + 1] = b1, ![off + 2] = b2, ![off + 3] = q3]
  BY <1>5, ZenonT(40) DEF fpt_write_le32, q1, q2, q3
<1> HIDE DEF b0, b1, b2
<1> DEFINE d == [data EXCEPT ![off] = b0, ![off + 1] = b1, ![off + 2] = b2, ![off + 3] = q3]
<1>10. q3 \in Byte
  BY <1>4, SMT DEF Byte
<1>11. d \in Buffer(n) /\ d[off] = b0 /\ d[off + 1] = b1 /\ d[off + 2] = b2 /\ d[off + 3] = q3
  BY <1>6, <1>7, <1>8, <1>10, SMT DEF Buffer
<1> HIDE DEF d
<1>12. fpt_read_le32(d, off) = value
  BY <1>6, <1>7, <1>8, <1>11, ZenonT(40) DEF fpt_read_le32
<1> QED
  BY <1>9, <1>11, <1>12, Zenon DEF d

\* What is written at four offsets leaves the others as they were.
LEMMA Elsewhere ==
    ASSUME NEW data, NEW i \in DOMAIN data,
           NEW o0, NEW o1, NEW o2, NEW o3, i # o0, i # o1, i # o2, i # o3,
           NEW b0, NEW b1, NEW b2, NEW b3
    PROVE  /\ [data EXCEPT ![o0] = b0, ![o1] = b1][i] = data[i]
           /\ [data EXCEPT ![o0] = b0, ![o1] = b1, ![o2] = b2, ![o3] = b3][i] = data[i]
  BY SMT

\* The magic that fpt_write_magic wrote is the one fpt_magic_matches expects,
\* and it still is after any field of the header, from byte 4 on, was written.
THEOREM MagicKept ==
    ASSUME NEW n \in Nat, NEW data \in Buffer(n), 4 <= n
    PROVE  /\ fpt_write_magic(data) \in Buffer(n)
           /\ fpt_magic_matches(fpt_write_magic(data))
           /\ \A off \in 4 .. n - 1, value \in Nat :
                  fpt_magic_matches(data) =>
                      /\ fpt_magic_matches(fpt_write_le16(data, off, value))
                      /\ fpt_magic_matches(fpt_write_le32(data, off, value))
<1>1. DOMAIN data = 0 .. n - 1
  BY DEF Buffer
<1>2. fpt_write_magic(data) \in Buffer(n)
  <2>1. \A i \in 0 .. 3 : FPT_MAGIC[i + 1] \in Byte
    BY SMT DEF FPT_MAGIC, Byte
  <2>2. \A i \in 0 .. n - 1 : data[i] \in Byte
    BY DEF Buffer
  <2> QED
    BY <1>1, <2>1, <2>2, Zenon DEF fpt_write_magic, Buffer
<1>3. fpt_magic_matches(fpt_write_magic(data))
  BY <1>1, SMT DEF fpt_write_magic, fpt_magic_matches
<1>4. ASSUME NEW off \in 4 .. n - 1, NEW value \in Nat, NEW i \in 0 .. 3
      PROVE  /\ fpt_write_le16(data, off, value)[i] = data[i]
             /\ fpt_write_le32(data, off, value)[i] = data[i]
  <2>1. i # off /\ i # off + 1 /\ i # off + 2 /\ i # off + 3
    OBVIOUS
  <2>2. i \in DOMAIN data
    BY <1>1
  <2> QED
    BY <2>1, <2>2, Elsewhere DEF fpt_write_le16, fpt_write_le32
<1> QED
  BY <1>2, <1>3, <1>4, Zenon DEF fpt_magic_matches

\* The offsets of the C header are those of the struct formats of the PC side,
\* for both headers, up to their last byte.
THEOREM LayoutsAgree ==
    /\ SameLayout(FPT_REQ_OFF, REQUEST_STRUCT, FPT_REQUEST_HEADER_BYTES)
    /\ SameLayout(FPT_RSP_OFF, RESPONSE_STRUCT, FPT_RESPONSE_HEADER_BYTES)
  BY SMT DEF SameLayout, FPT_REQ_OFF, REQUEST_STRUCT, FPT_REQUEST_HEADER_BYTES,
             FPT_RSP_OFF, RESPONSE_STRUCT, FPT_RESPONSE_HEADER_BYTES
-----------------------------------------------------------------------------
(***************************************************************************)
(* The echo program: a client with at most a send buffer on the way gets   *)
(* back exactly what it sent, for every window, send buffer and length of  *)
(* the stream, and however the stack cuts it into chains of pbufs.         *)
(*                                                                         *)
(* The invariant ties three counts together that belong to three parties.  *)
(* What a unit of the client acknowledges is at most a send buffer behind  *)
(* the unit itself (Budget), so that a chain that ends with this unit      *)
(* finds room for all of it: what is before it was echoed, and nothing but *)
(* that is in the buffer.                                                  *)
(***************************************************************************)
Counted(n) == [i \in 1 .. n |-> i]

\* The unit n was sent with at most SndBuf units not yet back.
Budget ==
    /\ ack_of \in Seq(Nat) /\ Len(ack_of) = transmitted
    /\ \A n \in 1 .. transmitted : n - ack_of[n] <= SndBuf

ClientType == excess \in BOOLEAN /\ transmitted \in Nat /\ returned \in Nat

Counts ==
    /\ consumed \in Nat /\ consumed <= transmitted
    /\ window \in Int /\ acked \in Nat

Served == echoed = Counted(consumed) /\ refused = NoChain

EchoInv == ClientType /\ (~excess => Counts /\ Budget /\ Served)

USE EchoAssumption
-----------------------------------------------------------------------------
\* The units echoed so far are a sequence.
LEMMA CountedSeq ==
    ASSUME NEW n \in Nat
    PROVE  Counted(n) \in Seq(Nat) /\ Len(Counted(n)) = n
<1>1. Counted(n) \in [1 .. n -> Nat]
  BY DEF Counted
<1> QED
  BY <1>1

\* The units that follow, one after the other, make the longer sequence.
LEMMA CountedConcat ==
    ASSUME NEW c \in Nat, NEW n \in Nat \ {0}
    PROVE  Counted(c) \o SubSeq([i \in 1 .. n |-> c + i], 1, n) = Counted(c + n)
<1> DEFINE data == [i \in 1 .. n |-> c + i]
           next == SubSeq(data, 1, n)
           all == Counted(c) \o next
<1>1. data \in [1 .. n -> Nat]
  OBVIOUS
<1>2. data \in Seq(Nat) /\ Len(data) = n /\ \A i \in 1 .. n : data[i] = c + i
  BY <1>1
<1> HIDE DEF data
<1>3. next \in Seq(Nat) /\ Len(next) = n
  BY <1>2, SubSeqFull
<1>4. \A i \in 1 .. n : next[i] = c + i
  BY <1>2, SubSeqFull
<1>5. Counted(c) \in Seq(Nat) /\ Len(Counted(c)) = c
  BY CountedSeq
<1> HIDE DEF next
<1>6. /\ all \in Seq(Nat) /\ Len(all) = c + n
      /\ \A i \in 1 .. c + n :
             all[i] = IF i <= c THEN Counted(c)[i] ELSE next[i - c]
  <2>1. /\ all \in Seq(Nat) /\ Len(all) = Len(Counted(c)) + Len(next)
        /\ \A i \in 1 .. Len(Counted(c)) + Len(next) :
               all[i] = IF i <= Len(Counted(c)) THEN Counted(c)[i]
                        ELSE next[i - Len(Counted(c))]
    BY <1>3, <1>5, ConcatProperties
  <2> QED
    BY <1>3, <1>5, <2>1
<1>7. Counted(c + n) \in Seq(Nat) /\ Len(Counted(c + n)) = c + n
  BY CountedSeq
<1>8. \A i \in 1 .. c + n : all[i] = i
  <2>1. TAKE i \in 1 .. c + n
  <2>2. CASE i <= c
    <3>1. i \in 1 .. c /\ Counted(c)[i] = i
      BY <2>2 DEF Counted
    <3> QED
      BY <1>6, <2>2, <3>1
  <2>3. CASE ~(i <= c)
    <3>1. i - c \in 1 .. n /\ next[i - c] = c + (i - c)
      BY <1>4, <2>3
    <3>2. all[i] = next[i - c]
      BY <1>6, <2>3
    <3>3. c + (i - c) = i
      OBVIOUS
    <3> QED
      BY <3>1, <3>2, <3>3
  <2> QED
    BY <2>2, <2>3
<1>9. \A i \in 1 .. c + n : Counted(c + n)[i] = i
  BY DEF Counted
<1> HIDE DEF all
<1>10. all = Counted(c + n)
  BY <1>6, <1>7, <1>8, <1>9, SeqEqual
<1> QED
  BY <1>10 DEF all, next, data

\* An acknowledgement that comes later leaves no less room.
LEMMA RoomLeft ==
    ASSUME NEW c \in Nat, NEW n \in Nat, NEW early \in Nat, NEW late \in Nat,
           early <= late, (c + n) - early <= SndBuf
    PROVE  (c - late) + n <= SndBuf
  OBVIOUS

\* A chain of n units whose last pbuf ends with the last unit.
LEMMA ChainEnd ==
    ASSUME NEW n \in Nat \ {0}, NEW ends \in SUBSET (1 .. n), n \in ends
    PROVE  Max(ends) = n
<1>1. \A y \in ends : n >= y
  OBVIOUS
<1>2. \A x \in ends : (\A y \in ends : x >= y) => x = n
  OBVIOUS
<1> QED
  BY <1>1, <1>2 DEF Max

\* If the whole chain fits, every pbuf of it is written.
LEMMA WholeChainWritten ==
    ASSUME NEW n \in Nat \ {0}, NEW ends \in SUBSET (1 .. n), n \in ends,
           unacked + n <= SndBuf
    PROVE  Written(ends) = n
<1> DEFINE fits == {0} \cup {e \in ends : unacked + e <= SndBuf}
<1>1. n \in fits /\ \A y \in fits : n >= y
  OBVIOUS
<1>2. \A x \in fits : (\A y \in fits : x >= y) => x = n
  BY <1>1
<1>3. Max(fits) = n
  BY <1>1, <1>2 DEF Max
<1> QED
  BY <1>3 DEF Written
-----------------------------------------------------------------------------
\* The step that matters: a chain is taken, and echoed to the end.
LEMMA DataKeeps ==
    ASSUME EchoInv, Data, ~excess, UNCHANGED <<pcVars, excess, returned>>
    PROVE  EchoInv'
<1>1. ClientType /\ Counts /\ Budget /\ Served /\ excess' = excess /\ ~excess
  BY DEF EchoInv
<1>2. PICK n \in 1 .. Smaller(transmitted - consumed, window) :
          /\ acked' = Larger(acked, ack_of[consumed + n])
          /\ \E ends \in SUBSET (1 .. n) :
                 /\ n \in ends
                 /\ EchoRecv([i \in 1 .. n |-> consumed + i], ends, consumed, window - n)
          /\ consumed' = consumed + n
  BY DEF Data
<1>3. PICK ends \in SUBSET (1 .. n) :
          /\ n \in ends
          /\ EchoRecv([i \in 1 .. n |-> consumed + i], ends, consumed, window - n)
  BY <1>2
<1>4. /\ n \in Nat \ {0} /\ consumed + n \in 1 .. transmitted /\ window - n \in Int
  BY <1>1 DEF ClientType, Counts, Smaller
<1> DEFINE behind == ack_of[consumed + n]
<1>5. behind \in Nat /\ (consumed + n) - behind <= SndBuf
  <2>1. \A m \in 1 .. transmitted : ack_of[m] \in Nat /\ m - ack_of[m] <= SndBuf
    BY <1>1 DEF Budget
  <2> DEFINE m == consumed + n
  <2>2. m \in 1 .. transmitted
    BY <1>4
  <2> HIDE DEF m
  <2>3. ack_of[m] \in Nat /\ m - ack_of[m] <= SndBuf
    BY <2>1, <2>2
  <2> QED
    BY <2>3 DEF m
<1> HIDE DEF behind
<1>6. acked' \in Nat /\ behind <= acked'
  <2>1. acked' = Larger(acked, behind)
    BY <1>2 DEF behind
  <2> QED
    BY <1>1, <1>5, <2>1 DEF Counts, Larger
<1>7. Len(echoed) = consumed
  BY <1>1, CountedSeq DEF Served, Counts
<1>8. unacked + n <= SndBuf
  <2>1. unacked = consumed - acked'
    BY <1>7 DEF unacked
  <2>2. consumed \in Nat /\ n \in Nat
    BY <1>1, <1>4 DEF Counts
  <2>3. (consumed - acked') + n <= SndBuf
    BY <1>5, <1>6, <2>2, RoomLeft
  <2> QED
    BY <2>1, <2>3
<1>9. Written(ends) = n /\ Max(ends) = n
  BY <1>3, <1>4, <1>8, ChainEnd, WholeChainWritten
<1>10. /\ window' = Recved(window - n, n) /\ refused' = NoChain
       /\ echoed' = Counted(consumed + n)
  <2>1. echoed' = echoed \o SubSeq([i \in 1 .. n |-> consumed + i], 1, n)
    BY <1>3, <1>9 DEF EchoRecv
  <2>2. echoed' = Counted(consumed + n)
    BY <1>1, <1>4, <2>1, CountedConcat DEF Served, Counts
  <2> QED
    BY <1>3, <1>9, <2>2 DEF EchoRecv
<1>11. window' \in Int
  BY <1>4, <1>10 DEF Recved, Smaller
<1>12. Counts'
  BY <1>1, <1>2, <1>4, <1>6, <1>11 DEF Counts, pcVars
<1>13. Budget' /\ Served'
  BY <1>1, <1>2, <1>10 DEF Budget, Served, pcVars
<1>14. ClientType'
  BY <1>1 DEF ClientType, pcVars, Data
<1> QED
  BY <1>12, <1>13, <1>14 DEF EchoInv

\* Another unit, sent within the budget.
LEMMA ClientSendKeeps ==
    ASSUME EchoInv, ClientSend
    PROVE  EchoInv'
<1>1. /\ ClientType /\ transmitted' = transmitted + 1 /\ ack_of' = Append(ack_of, returned)
      /\ returned' = returned
  BY DEF EchoInv, ClientSend, wireVars
<1>2. ClientType'
  <2>1. excess' \in BOOLEAN
    BY DEF ClientSend
  <2> QED
    BY <1>1, <2>1 DEF ClientType
<1> SUFFICES ASSUME ~excess'
             PROVE  Counts' /\ Budget' /\ Served'
  BY <1>2 DEF EchoInv
<1>3. ~excess /\ transmitted + 1 - returned <= SndBuf
  <2>1. ~excess /\ ~(transmitted' - returned > SndBuf)
    BY Zenon DEF ClientSend
  <2> QED
    BY <1>1, <2>1 DEF ClientType
<1>4. Counts /\ Budget /\ Served
  BY <1>3 DEF EchoInv
<1>5. Counts' /\ Served'
  BY <1>1, <1>4 DEF ClientSend, ClientType, Counts, Served, boardVars, wireVars
<1>6. /\ ack_of' \in Seq(Nat) /\ Len(ack_of') = transmitted + 1
      /\ ack_of'[transmitted + 1] = returned
      /\ \A n \in 1 .. transmitted : ack_of'[n] = ack_of[n]
  BY <1>1, <1>4 DEF ClientType, Budget
<1>7. Budget'
  BY <1>1, <1>3, <1>4, <1>6 DEF ClientType, Budget
<1> QED
  BY <1>5, <1>7

\* Nothing was refused, so nothing is delivered again.
LEMMA NeverRedelivered ==
    ASSUME EchoInv, ~excess
    PROVE  ~refused_pending
  BY DEF EchoInv, Served, refused_pending

\* Steps that leave the counts of the two parties alone.
LEMMA EchoQuietKeeps ==
    ASSUME EchoInv, UNCHANGED <<consumed, window, echoed, refused, transmitted, ack_of, excess>>,
           acked' \in {acked, returned}, returned' \in {returned, returned + 1}
    PROVE  EchoInv'
  BY DEF EchoInv, ClientType, Counts, Budget, Served

LEMMA MainLoopKeeps ==
    ASSUME EchoInv, MainLoop
    PROVE  EchoInv'
<1>2. UNCHANGED <<pcVars, excess>>
  BY DEF MainLoop, FastTimer, FastClear, SlowTimer, SlowClear, NoFrame, Connected, Data,
         Retried, Ack, Fin, Reset, Input
<1>8. returned' = returned
  BY DEF MainLoop, FastTimer, FastClear, SlowTimer, SlowClear, NoFrame, Connected, Data,
         Retried, Redeliver, Ack, Fin, EchoClose, Reset, NothingToDo, wireVars
<1>9. CASE excess
  BY <1>2, <1>8, <1>9 DEF EchoInv, ClientType, pcVars
<1>1. SUFFICES ASSUME ~excess
               PROVE  EchoInv'
  BY <1>9
<1>3. CASE Data
  BY <1>1, <1>2, <1>3, <1>8, DataKeeps
<1>4. CASE FastTimer \/ Retried
  BY <1>1, <1>2, <1>4, NeverRedelivered, EchoQuietKeeps
     DEF FastTimer, Retried, Redeliver, NothingToDo, pcVars, wireVars
<1>5. CASE FastClear \/ SlowTimer \/ SlowClear \/ NoFrame \/ Connected
  BY <1>2, <1>5, EchoQuietKeeps
     DEF FastClear, SlowTimer, SlowClear, NoFrame, Connected, NothingToDo, pcVars, wireVars
<1>6. CASE Ack
  BY <1>2, <1>6, EchoQuietKeeps DEF Ack, pcVars
<1>7. CASE Fin \/ Reset
  BY <1>2, <1>7, EchoQuietKeeps DEF Fin, EchoClose, Reset, pcVars, wireVars
<1> QED
  BY <1>3, <1>4, <1>5, <1>6, <1>7 DEF MainLoop

LEMMA EchoInvariance == EchoSpec => []EchoInv
<1>1. EchoInit => EchoInv
  <2>1. SUFFICES ASSUME EchoInit
                 PROVE  Counts /\ Budget /\ Served
    <3>1. EchoInit => excess \in BOOLEAN
      BY DEF EchoInit
    <3>2. EchoInit => ClientType
      BY <3>1 DEF EchoInit, ClientType
    <3> QED
      BY <3>2 DEF EchoInv
  <2>2. ack_of \in Seq(Nat) /\ Len(ack_of) = 0
    BY <2>1 DEF EchoInit
  <2>3. Counted(0) = <<>>
    BY DEF Counted
  <2> QED
    BY <2>1, <2>2, <2>3 DEF EchoInit, Counts, Budget, Served
<1>2. EchoInv /\ [EchoNext]_echoVars => EchoInv'
  <2> SUFFICES ASSUME EchoInv, [EchoNext]_echoVars
               PROVE  EchoInv'
    OBVIOUS
  <2>1. CASE MainLoop
    BY <2>1, MainLoopKeeps
  <2>2. CASE ClientSend
    BY <2>2, ClientSendKeeps
  <2>3. CASE ClientReceive
    BY <2>3, EchoQuietKeeps DEF ClientReceive, boardVars, pcVars
  <2>4. CASE Boot \/ Tick \/ ClientClose \/ Loss \/ UNCHANGED echoVars
    BY <2>4, EchoQuietKeeps
       DEF Boot, Tick, ClientClose, Loss, echoVars, boardVars, pcVars, wireVars
  <2> QED
    BY <2>1, <2>2, <2>3, <2>4 DEF EchoNext, Client
<1> QED
  BY <1>1, <1>2, PTL DEF EchoSpec

\* echo_recv writes every byte it acknowledges, in order and once, and never
\* leaves a chain with the stack, if the client has no more than the board's
\* send buffer on the way (vitis/eth_echo/echo_server.c, echo_recv).
THEOREM EchoIsExactAlways == EchoSpec => []EchoIsExact
<1>1. EchoInv => EchoIsExact
  BY DEF EchoInv, Served, Counted, EchoIsExact, EchoedAsSent
<1> QED
  BY <1>1, EchoInvariance, PTL
=============================================================================
