----------------------------- MODULE MCHostedRun -----------------------------
(* Small instances of HostedRun: every host, with and without a model, and *)
(* questions with choices and without.                                     *)
EXTENDS HostedRun

Setting(host, model, input, context, stop) ==
  [host |-> host, model |-> model, input |-> input, context |-> context,
   stopOnNoProbes |-> stop]

MCSetups ==
  {Setting("arm", TRUE, "choices", FALSE, TRUE),
   Setting("direct", TRUE, "choices", FALSE, TRUE),
   Setting("webui", TRUE, "open", FALSE, TRUE),
   Setting("webui", TRUE, "choices", FALSE, FALSE),
   Setting("webui", FALSE, "open", FALSE, TRUE),
   Setting("webui", FALSE, "choices", TRUE, TRUE),
   Setting("json", TRUE, "open", TRUE, FALSE)}
=============================================================================
