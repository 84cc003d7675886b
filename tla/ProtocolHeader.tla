--------------------------- MODULE ProtocolHeader ---------------------------
(***************************************************************************)
(* The headers of the attention protocol, version 1, as records of their   *)
(* fields, and the checks of python/attention_protocol.py, in their order. *)
(* vitis/attention_server/src/attention_protocol.h declares the same       *)
(* constants for the C side; ProtocolBytes has the bytes.                  *)
(***************************************************************************)
EXTENDS Integers

CONSTANTS
    CONTEXT_BYTES,       \* 1 MiB: the context of all heads
    MAX_VALID_TOKENS     \* 128

ASSUME ProtocolAssumption ==
    CONTEXT_BYTES \in Nat \ {0} /\ MAX_VALID_TOKENS \in Nat \ {0}

MAGIC == <<70, 80, 84, 65>>   \* FPTA
VERSION == 1
RUN_ATTENTION == 1
ATTENTION_RESULT == 2
REQUEST_HEADER_BYTES == 40
RESPONSE_HEADER_BYTES == 32
MIN_VALID_TOKENS == 1

OK == 0
BAD_MAGIC == 1
BAD_VERSION == 2
BAD_HEADER == 3
BAD_LENGTH == 4
BAD_VALID_TOKENS == 5
BUSY == 8
FPGA_ERROR == 11
StatusCode == 0 .. 12

ResponseHeader(id, status, tokens, context_bytes) ==
    [magic |-> MAGIC, version |-> VERSION, command |-> ATTENTION_RESULT,
     header_bytes |-> RESPONSE_HEADER_BYTES, request_id |-> id, status_code |-> status,
     valid_tokens |-> tokens, context_bytes |-> context_bytes, detail_code |-> 0]

\* The status of the ProtocolError a header's fields raise, OK for none.  The
\* CRC of an error is among the fields taken for its context length.
validate_response_fields(h) ==
    IF h.status_code = OK
    THEN IF h.detail_code # 0 THEN BAD_HEADER
         ELSE IF h.valid_tokens \notin MIN_VALID_TOKENS .. MAX_VALID_TOKENS
         THEN BAD_VALID_TOKENS
         ELSE IF h.context_bytes # CONTEXT_BYTES THEN BAD_LENGTH ELSE OK
    ELSE IF h.valid_tokens \notin 0 .. MAX_VALID_TOKENS THEN BAD_VALID_TOKENS
         ELSE IF h.context_bytes # 0 THEN BAD_LENGTH ELSE OK

unpack_response_header(h) ==
    IF h.magic # MAGIC THEN BAD_MAGIC
    ELSE IF h.version # VERSION THEN BAD_VERSION
    ELSE IF h.command # ATTENTION_RESULT \/ h.header_bytes # RESPONSE_HEADER_BYTES
    THEN BAD_HEADER
    ELSE IF h.status_code \notin StatusCode THEN BAD_HEADER
    ELSE validate_response_fields(h)
=============================================================================
