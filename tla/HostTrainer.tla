---------------------------- MODULE HostTrainer ----------------------------
(***************************************************************************)
(* HostTrainer: a model with its optimiser on the GPU, a data loader on    *)
(* the host, a counter in the object and one checkpoint file.  Each part   *)
(* is the number of iterations it has seen; `of` tells the run it is of.   *)
(***************************************************************************)
EXTENDS Integers

CONSTANTS
  WarmupIters,   (* iterations run right after a (re)build                 *)
  Chunk          (* iterations of one train_iters_count of a burst         *)

ASSUME TrainerAssumption == WarmupIters \in Nat /\ Chunk \in Nat \ {0}

None == -1
NoFile == [kind |-> "none"]
Torn == [kind |-> "torn"]

NewTrainer(r) ==
  [of |-> r, model |-> None, optim |-> None, loader |-> None, iters_done |-> 0]

Built(t) == [t EXCEPT !.model = 0, !.optim = 0]

WithLoader(t) == IF t.loader = None THEN [t EXCEPT !.loader = 0] ELSE t

Trained(t, n) ==
  [t EXCEPT !.model = @ + n, !.optim = @ + n, !.loader = @ + n, !.iters_done = @ + n]

ColdInit(t) == Trained(WithLoader(Built(t)), WarmupIters)

Saved(t) ==
  [kind |-> "saved", of |-> t.of, model |-> t.model, optim |-> t.optim,
   iters_done |-> t.iters_done]

Released(t, keep_dataloader) ==
  [t EXCEPT !.model = None, !.optim = None,
            !.loader = IF keep_dataloader THEN @ ELSE None]

\* Slip: the optimiser's state is not reloaded.
RestoredModel(t, file) ==
  [t EXCEPT !.of = file.of, !.model = file.model, !.iters_done = file.iters_done]

Restored(t, file) ==
  [t EXCEPT !.of = file.of, !.model = file.model, !.optim = file.optim,
            !.iters_done = file.iters_done]

Resumed(t, file) == Trained(WithLoader(Restored(t, file)), WarmupIters)
=============================================================================
