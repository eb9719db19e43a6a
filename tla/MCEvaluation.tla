----------------------------- MODULE MCEvaluation -----------------------------
(* Evaluation with any adapter, and with the one of the MNIST example.        *)
EXTENDS Evaluation

AnyAdapter == {"absent", "valid", "invalid"}
MnistAdapter == {"absent"}
==============================================================================
