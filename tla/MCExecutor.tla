----------------------------- MODULE MCExecutor -----------------------------
(***************************************************************************)
(* A small instance of Executor: four tasks on two connections.  Three of  *)
(* them carry a client order id, one of which is retried and one has no    *)
(* signer; the fourth relies on a generated id.                            *)
(***************************************************************************)
EXTENDS Executor, TLC

CONSTANTS plain, retried, generated, unsigned, id1, id2, id3

MCTasks == {plain, retried, generated, unsigned}
MCIdOf == (plain :> id1) @@ (retried :> id2) @@ (unsigned :> id3)
            @@ (generated :> NoId)
=============================================================================
