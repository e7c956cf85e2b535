------------------------------- MODULE MCHub -------------------------------
(* Hub on small sets, for TLC. *)
EXTENDS Hub, TLC

\* The clients run the same code and no safety property names one of them.
ClientSymmetry == Permutations(Clients)

Told(m) == <<m.kind, m.cfg>>

\* The volume steers nothing and no property of a run reads it: it is left
\* out of a state, with what a writeLoop that has ended left unread.
ControlState ==
    <<clients, mutexVars, cfg, due, pc, [t \in Tasks |-> Told(out[t])], todo,
      [c \in Clients |-> IF writer[c] = "failed" THEN Len(send[c])
                         ELSE [i \in DOMAIN send[c] |-> Told(send[c][i])]],
      [c \in Clients |-> Told(hand[c])], sendOpen, conn, writer, seen, missed,
      served, boundVars>>

\* Two broadcasts can interfere.
SafetyBound == cmds + frames <= 2

\* One client stays, the other one may be lost; there is a command, with its
\* broadcast, or there are the two frames that can fill a client's only slot.
Patient == CHOOSE c \in Clients : TRUE

LiveBound == 2 * cmds + frames <= 2 /\ conn[Patient] = "up"
=============================================================================
