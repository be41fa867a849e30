------------------------ MODULE TypecheckEpochManager ------------------------
(***************************************************************************)
(* core/lsp/TypecheckEpochManager: three epochs, guarded by epochMutex,    *)
(* that say whether a cancelable slow path is running and whether somebody *)
(* asked for it to be canceled.  Every operation below is one critical     *)
(* section of epochMutex.  The code compares epochs for equality only, so  *)
(* an epoch is any value of Epoch.                                         *)
(***************************************************************************)
CONSTANTS
  Epoch,          \* the uint32 versions given out by LSPPreprocessor::nextVersion
  InitialEpoch    \* the epoch of the initial typecheck

ASSUME EpochAssumption == InitialEpoch \in Epoch

VARIABLES
  currentlyProcessingLSPEpoch,   \* bumped by the typechecking thread
  lspEpochInvalidator,           \* bumped by the processing thread to cancel
  lastCommittedLSPEpoch          \* epoch of the last committed slow path

epochVars ==
  <<currentlyProcessingLSPEpoch, lspEpochInvalidator, lastCommittedLSPEpoch>>

EpochTypeOK ==
  /\ currentlyProcessingLSPEpoch \in Epoch
  /\ lspEpochInvalidator \in Epoch
  /\ lastCommittedLSPEpoch \in Epoch

\* All three atomics start out equal; the initial typecheck is not cancelable
\* and never touches them.
EpochInit ==
  /\ currentlyProcessingLSPEpoch = InitialEpoch
  /\ lspEpochInvalidator = InitialEpoch
  /\ lastCommittedLSPEpoch = InitialEpoch

-----------------------------------------------------------------------------
(* TypecheckingStatus, as computed by getStatusInternal. *)

slowPathRunning == currentlyProcessingLSPEpoch # lastCommittedLSPEpoch

slowPathEpoch == currentlyProcessingLSPEpoch

slowPathWasCanceled == currentlyProcessingLSPEpoch # lspEpochInvalidator

\* Declares that a cancelable typecheck of epoch begins.
startCommitEpoch(epoch) ==
  /\ currentlyProcessingLSPEpoch' = epoch
  /\ lspEpochInvalidator' = epoch
  /\ UNCHANGED lastCommittedLSPEpoch

\* The condition on which tryCancelSlowPath returns true.
canCancelSlowPath(newEpoch) ==
  slowPathRunning /\ newEpoch # currentlyProcessingLSPEpoch

\* tryCancelSlowPath when it succeeds: bump the invalidator.
cancelSlowPath(newEpoch) ==
  /\ canCancelSlowPath(newEpoch)
  /\ lspEpochInvalidator' = newEpoch
  /\ UNCHANGED <<currentlyProcessingLSPEpoch, lastCommittedLSPEpoch>>

\* Mutants of commitOrForgetEpoch: commit without asking for a cancellation;
\* leave the invalidator as it is.
commitUnchecked ==
  /\ lastCommittedLSPEpoch' = currentlyProcessingLSPEpoch
  /\ UNCHANGED <<currentlyProcessingLSPEpoch, lspEpochInvalidator>>

invalidatorNotReset ==
  \/ /\ ~slowPathWasCanceled
     /\ lastCommittedLSPEpoch' = currentlyProcessingLSPEpoch
     /\ UNCHANGED <<currentlyProcessingLSPEpoch, lspEpochInvalidator>>
  \/ /\ slowPathWasCanceled
     /\ currentlyProcessingLSPEpoch' = lastCommittedLSPEpoch
     /\ UNCHANGED <<lspEpochInvalidator, lastCommittedLSPEpoch>>

\* The critical section at the end of tryCommitEpoch: commit unless the
\* invalidator moved, otherwise forget the canceled epoch.
commitOrForgetEpoch ==
  \/ /\ ~slowPathWasCanceled
     /\ lastCommittedLSPEpoch' = currentlyProcessingLSPEpoch
     /\ UNCHANGED <<currentlyProcessingLSPEpoch, lspEpochInvalidator>>
  \/ /\ slowPathWasCanceled
     /\ currentlyProcessingLSPEpoch' = lastCommittedLSPEpoch
     /\ lspEpochInvalidator' = lastCommittedLSPEpoch
     /\ UNCHANGED lastCommittedLSPEpoch

-----------------------------------------------------------------------------
(***************************************************************************)
(* The protocol the callers have to follow: what the ENFORCEs of the class *)
(* ask of them, as a specification.  The LSP scheduler is shown to         *)
(* implement it.                                                           *)
(***************************************************************************)
EpochNext ==
  \/ \E e \in Epoch : /\ ~slowPathRunning /\ ~slowPathWasCanceled
                      /\ e # currentlyProcessingLSPEpoch
                      /\ startCommitEpoch(e)
  \/ \E e \in Epoch : /\ ~slowPathWasCanceled
                      /\ cancelSlowPath(e)
  \/ slowPathRunning /\ commitOrForgetEpoch

EpochSpec == EpochInit /\ [][EpochNext]_epochVars
=============================================================================
