---------------------------- MODULE LatestEdits -----------------------------
(***************************************************************************)
(* What the LSP server promises about the files of the workspace.  The     *)
(* client sends edits.  The server's files are always the result of a      *)
(* prefix of them, in order; it may go back to an earlier prefix (a slow   *)
(* path was canceled) but never to before the edits that are settled, and  *)
(* once the client is quiet all edits become served and settled.           *)
(***************************************************************************)
EXTENDS Naturals, Sequences

CONSTANTS
  Start    \* the files before the first edit

VARIABLES
  edits,    \* the edits received so far: each a function on the files it changes
  served,   \* how many of them the server's files reflect
  settled,  \* how many of them will never be taken back
  view      \* the server's files

promiseVars == <<edits, served, settled, view>>

\* Those of the first n edits that change file f.
changing(es, n, f) == {i \in 1 .. n : f \in DOMAIN es[i]}

\* The files after the first n edits: each is as the last edit of it left it.
Replay(es, n) ==
  [f \in DOMAIN Start |->
     IF changing(es, n, f) = {} THEN Start[f]
     ELSE es[CHOOSE i \in changing(es, n, f) : \A j \in changing(es, n, f) : j <= i][f]]

PromiseInit ==
  /\ edits = <<>>
  /\ served = 0 /\ settled = 0
  /\ view = Start

Receive ==
  /\ Len(edits') = Len(edits) + 1
  /\ SubSeq(edits', 1, Len(edits)) = edits
  /\ UNCHANGED <<served, settled, view>>

Serve(n) ==
  /\ n \in settled .. Len(edits)
  /\ served' = n
  /\ settled' \in settled .. n
  /\ view' = Replay(edits, n)
  /\ UNCHANGED edits

PromiseNext == Receive \/ \E n \in 0 .. Len(edits) : Serve(n)

\* Once the client is quiet, every edit is served and stays so.
CatchesUp ==
  <>[][FALSE]_edits => <>[](served = Len(edits) /\ settled = Len(edits))

\* What holds of every step, and the whole promise.
PromiseSafety == PromiseInit /\ [][PromiseNext]_promiseVars

Promise == PromiseSafety /\ CatchesUp
=============================================================================
