---------------------------- MODULE ContextWords ----------------------------
(***************************************************************************)
(* The words of the context, as the backend emits them                     *)
(* (flash_context_fusion_backend.sv) and the writer takes them             *)
(* (fpt_context_ddr_writer.sv): row after row, HEAD_DIM words to a row.    *)
(***************************************************************************)
EXTENDS Integers

CONSTANT HEAD_DIM

Row(w) == w \div HEAD_DIM
Col(w) == w % HEAD_DIM
=============================================================================
