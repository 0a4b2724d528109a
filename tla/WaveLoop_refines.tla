-------------------------- MODULE WaveLoop_refines --------------------------
(* The wave loop, read as the abstract ledger of waves.                    *)
EXTENDS WaveLoop

Ledger == INSTANCE WaveLedger WITH
  bought <- {batches[b].key : b \in 1..Len(batches)},
  paid <- Len(batches),
  recorded <- DOMAIN submitted

\* The loop buys, records and completes waves as WaveLedger says, through every
\* crash and resume (orchestrator.py:520 _reconcile_wave, 589 _run_remote_wave,
\* 653 _await_and_process_wave; resume.py:18).
BuysByTheLedger == Ledger!Spec
=============================================================================
