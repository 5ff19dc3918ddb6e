-------------------------- MODULE TrustChainConsts --------------------------
(***************************************************************************)
(* The numeric codes shared by the trusted application (TA) and its        *)
(* callers, from ta/include/trust_chain_ta.h, and the TEE_Result values    *)
(* the TA returns.  Result codes are only compared, so they are strings.   *)
(***************************************************************************)
EXTENDS Integers

OP_ADD    == 0
OP_DELETE == 1
OP_PUSH   == 2
OP_PR     == 3

ROLE_ADMIN  == 1
ROLE_WRITER == 2

\* The two families of operations: what access_control and what commit accept.
AccessOps == {OP_ADD, OP_DELETE}
CommitOps == {OP_PUSH, OP_PR}

TEE_SUCCESS              == "TEE_SUCCESS"
TEE_ERROR_BAD_PARAMETERS == "TEE_ERROR_BAD_PARAMETERS"
TEE_ERROR_ITEM_NOT_FOUND == "TEE_ERROR_ITEM_NOT_FOUND"
TEE_ERROR_ACCESS_DENIED  == "TEE_ERROR_ACCESS_DENIED"
TEE_ERROR_SECURITY       == "TEE_ERROR_SECURITY"
TEE_ERROR_OUT_OF_MEMORY  == "TEE_ERROR_OUT_OF_MEMORY"
TEE_ERROR_SHORT_BUFFER   == "TEE_ERROR_SHORT_BUFFER"
TEE_ERROR_GENERIC        == "TEE_ERROR_GENERIC" \* any other code of a failed TEE call

TEE_Result ==
  {TEE_SUCCESS, TEE_ERROR_BAD_PARAMETERS, TEE_ERROR_ITEM_NOT_FOUND,
   TEE_ERROR_ACCESS_DENIED, TEE_ERROR_SECURITY, TEE_ERROR_OUT_OF_MEMORY,
   TEE_ERROR_SHORT_BUFFER, TEE_ERROR_GENERIC}
=============================================================================
