----------------------------- MODULE OneStream -----------------------------
(***************************************************************************)
(* What SetEnabled and reopenForReconfig promise of the dongle, whatever   *)
(* calls the clients make and however the calls overlap:                   *)
(*                                                                         *)
(*   - calls take turns, and only in a turn does anything change;          *)
(*   - a stream begins on an open device, while the receiver is wanted and *)
(*     no other stream is on;                                              *)
(*   - the device is neither closed nor opened anew under a stream;        *)
(*   - what the rest of the receiver goes by, the running flag, does not   *)
(*     change under a stream either, and outside a turn it says whether    *)
(*     there is one;                                                       *)
(*   - no turn leaves behind the stream of a receiver that is not wanted.  *)
(*                                                                         *)
(* The promise ends with the process.  StreamLifecycle, which has the      *)
(* goroutines of a run, and Tuning, which has what they do to the dongle,  *)
(* both implement it.                                                      *)
(***************************************************************************)
CONSTANTS
    Callers,   \* whoever calls SetEnabled or reopenForReconfig
    NoOne,     \* nobody's turn
    NoDevice   \* no device is open

VARIABLES
    turn,      \* whose call is being served
    wanted,    \* the receiver is switched on
    running,   \* the flag that setters look at
    device,    \* the open device, or NoDevice
    streams,   \* the streams that are on
    over       \* the process is being shut down

vars == <<turn, wanted, running, device, streams, over>>

Init ==
    /\ turn = NoOne /\ wanted = TRUE /\ running = TRUE /\ over = FALSE
    /\ device # NoDevice
    /\ \E s \in streams : streams = {s}

\* Nobody is switching: the flag is right, and a stream is on only if wanted.
Truthful == /\ running <=> streams # {}
            /\ streams # {} => wanted

\* A call gets its turn; SetEnabled says whether the receiver is wanted.
Take ==
    /\ turn = NoOne /\ turn' \in Callers \ {NoOne}
    /\ wanted' \in BOOLEAN
    /\ UNCHANGED <<running, device, streams, over>>

Open  == /\ wanted /\ device = NoDevice /\ device' # NoDevice
         /\ UNCHANGED streams
Begin == /\ wanted /\ device # NoDevice /\ streams = {} /\ running'
         /\ \E s \in streams' : streams' = {s}
         /\ UNCHANGED device
End   == streams' = {} /\ UNCHANGED device
Close == streams = {} /\ device' = NoDevice /\ UNCHANGED streams
Mark  == UNCHANGED <<device, streams>>

\* In its turn a call does one of these, and may end the turn with it.
Act ==
    /\ turn # NoOne /\ turn' \in {turn, NoOne}
    /\ Open \/ Begin \/ End \/ Close \/ Mark
    /\ running' \in BOOLEAN /\ (running' # running => streams = {})
    /\ turn' = NoOne => Truthful'
    /\ UNCHANGED <<wanted, over>>

\* A signal: main closes the device without waiting for its turn.
Shutdown == ~over /\ over' /\ UNCHANGED <<turn, wanted, running, device, streams>>
Ending == over /\ over'

Next == Take \/ Act \/ Shutdown \/ Ending

Spec == Init /\ [][Next]_vars

-----------------------------------------------------------------------------
\* What follows: one stream at most, and only with a device to stream from and
\* the flag set, so that no setter's command runs beside it on another
\* goroutine; and outside a turn the flag tells the truth.
SoundStream ==
    ~over =>
        /\ \A r, s \in streams : r = s
        /\ streams # {} => device # NoDevice /\ running
        /\ turn = NoOne => Truthful
=============================================================================
