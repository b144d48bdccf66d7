-------------------------- MODULE MCChannelExecutor --------------------------
(***************************************************************************)
(* Small instances of ChannelExecutor: up to MaxExtra retries and repair   *)
(* prompts between them and every choice of conditions they react to.      *)
(***************************************************************************)
EXTENDS ChannelExecutor

CONSTANTS MaxExtra

SmallConfigs ==
  {c \in [retryAttempts : 0..2, retryOn  : SUBSET Transients,
          maxRepairs    : 0..2, repairOn : SUBSET Repairables] :
     c.retryAttempts + c.maxRepairs <= MaxExtra}
=============================================================================
