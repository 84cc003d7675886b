---------------------------- MODULE ProtocolBytes ----------------------------
(***************************************************************************)
(* The bytes of the protocol headers: the access functions and offsets of  *)
(* vitis/attention_server/src/attention_protocol.h on the C side, and the  *)
(* struct formats of python/attention_protocol.py on the PC side.  A       *)
(* buffer is a function from offsets to bytes.  Shifts and masks of        *)
(* unsigned values are divisions and remainders by 256, the bitwise or of  *)
(* disjoint bits is a sum.                                                 *)
(*                                                                         *)
(* The theorems about them (NetworkProofs) are what lets ProtocolHeader    *)
(* and AttentionClient take a header for the record of its fields.         *)
(***************************************************************************)
EXTENDS Integers, Sequences

Byte == 0 .. 255
U16 == {v \in Nat : v < 256 * 256}
U32 == {v \in Nat : v < 256 * (256 * (256 * 256))}
Buffer(n) == [0 .. n - 1 -> Byte]

fpt_read_le16(data, off) == data[off] + 256 * data[off + 1]
fpt_read_le32(data, off) ==
    data[off] + 256 * (data[off + 1] + 256 * (data[off + 2] + 256 * data[off + 3]))

fpt_write_le16(data, off, value) ==
    [data EXCEPT ![off] = value % 256, ![off + 1] = (value \div 256) % 256]
fpt_write_le32(data, off, value) ==
    [data EXCEPT ![off] = value % 256, ![off + 1] = (value \div 256) % 256,
                 ![off + 2] = ((value \div 256) \div 256) % 256,
                 ![off + 3] = (((value \div 256) \div 256) \div 256) % 256]

FPT_MAGIC == <<70, 80, 84, 65>>
fpt_magic_matches(data) == \A i \in 0 .. 3 : data[i] = FPT_MAGIC[i + 1]
fpt_write_magic(data) == [i \in DOMAIN data |-> IF i \in 0 .. 3 THEN FPT_MAGIC[i + 1] ELSE data[i]]

\* The fields of a header, in order: magic, version, command, header_bytes,
\* request_id, ...: their offsets in C, their widths in the struct formats
\* "<4sBBHIHHIIIIII" and "<4sBBHIHHIIII", which have no padding.
FPT_REQ_OFF == <<0, 4, 5, 6, 8, 12, 14, 16, 20, 24, 28, 32, 36>>
FPT_RSP_OFF == <<0, 4, 5, 6, 8, 12, 14, 16, 20, 24, 28>>
REQUEST_STRUCT == <<4, 1, 1, 2, 4, 2, 2, 4, 4, 4, 4, 4, 4>>
RESPONSE_STRUCT == <<4, 1, 1, 2, 4, 2, 2, 4, 4, 4, 4>>
FPT_REQUEST_HEADER_BYTES == 40
FPT_RESPONSE_HEADER_BYTES == 32

\* Every field begins where the one before it ends, the last ends the header.
SameLayout(offsets, widths, bytes) ==
    /\ Len(offsets) = Len(widths)
    /\ offsets[1] = 0
    /\ \A k \in 1 .. Len(offsets) - 1 : offsets[k + 1] = offsets[k] + widths[k]
    /\ bytes = offsets[Len(offsets)] + widths[Len(offsets)]
=============================================================================
