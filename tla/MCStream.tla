------------------------------ MODULE MCStream ------------------------------
(* StreamLifecycle on small sets, for TLC. *)
EXTENDS StreamLifecycle, FiniteSets, TLC

\* The clients run the same code and no safety property names one of them.
ClientSymmetry == Permutations(Clients)

\* What a command is never steers a goroutine: only NoStaleCommand looks at
\* it, and the run that checks the other invariants leaves it out of a state,
\* with the blocks nobody will take any more.
ControlState ==
    <<flagVars, sdr, rxVars, parentDone, streamMu, pc, op, call, ops,
      Len(cmdCh), drain, drainRx, loop, heldSdr, runVars,
      [r \in Runs |-> IF loop[r] = "done" THEN 0 ELSE blocks[r]]>>

\* main's Close is explored against setters only: the process is about to end.
ShutdownBound == parentDone => ops = 0

\* Two runs, the one that ends and the one that begins, can interfere; a
\* second setter does nothing the first does not, and what one queues while
\* the first lifecycle call is under way may stay queued during the second.
SafetyBound ==
    /\ ShutdownBound
    /\ Cardinality({c \in Clients : pc[c] \in EnqStages /\ op[c] = "none"})
           <= IF ops < 2 THEN 1 ELSE 0
    /\ Cardinality({r \in Runs : drain[r] # "none"}) <= 2

\* One client makes the lifecycle call, the other ones call setters.  Both
\* kinds of call begin without fairness, so the bound takes no progress away.
Caller == CHOOSE c \in Clients : TRUE

LiveBound ==
    /\ ShutdownBound
    /\ \A c \in Clients : IF c = Caller THEN pc[c] \in EnqStages => op[c] # "none"
                                        ELSE op[c] = "none"
=============================================================================
