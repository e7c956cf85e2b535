------------------------------ MODULE MCTuning ------------------------------
(* Tuning on small sets, for TLC. *)
EXTENDS Tuning, FiniteSets, TLC

ClientSymmetry == Permutations(Clients)

\* Two bands of each plan, the first ones of the code and one with another rate.
ListPlan  == <<At(28300, 2048), At(137100, 1024)>>
SweepPlan == <<At(28000, 2048), At(30048, 2048)>>

\* GK-2A; the code's default center is that of Meteor-M2, 137.9 MHz.
Catalog == {At(1691000, 2048)}

\* The history that a property still reads: no scan looks back past its
\* beginning, and an overlap excludes what the other kinds would exclude.
History ==
    (odd \ IF fullScan THEN {} ELSE {"restart", "astray"})
    \cap IF "overlap" \in odd THEN {"overlap", "restart"}
         ELSE {"early", "foreign", "scan", "restart", "astray"}

\* What nothing reads any more is left out of a state: the configuration of an
\* openDevice that is over, a closed device's tuning (openDevice sets all of it),
\* the records of a scan that is over, the satellite nobody listens to; of a
\* report, all but what the property says of it.
Live ==
    <<config, enabled, running, live, sdr, block, cmdCh, listening, fullScan,
      sweep, bandIdx, active, ReportCoversSweep, out, then, stage, streamMu, msgs,
      History,
      IF sdr THEN <<dongle, tunedBy = "radio", directMode, appliedDirectMode>> ELSE <<>>,
      IF \E c \in Clients : stage[c] = "opening" THEN opening ELSE NoOne,
      IF fullScan THEN bandRecords ELSE <<>>,
      IF "meteor" \in active THEN satellite ELSE NoOne>>

\* Bound: with setters that overlap, at most MaxMsgs - 1 messages are handled
\* (a state beyond it is checked and not left).
OverlapBound == "overlap" \in odd => msgs < MaxMsgs
=============================================================================
