------------------------------- MODULE MCScan -------------------------------
(* A sweep of four stops: the ADS-B channel, the AIS channels, a carrier    *)
(* that is shown or not by the type that comes first, and two at a stop of  *)
(* which one is taken, and just stands out with half of its blocks.  As     *)
(* many blocks can be in flight as are averaged.                            *)
EXTENDS Scan

MCAdsbRange == <<27, 28>>
MCAisRange == <<31, 32>>
MCTypeRanges == {[type |-> "cellular", range |-> <<35, 36>>], [type |-> "ism", range |-> <<36, 37>>],
                 [type |-> "broadcast", range |-> <<39, 41>>]}
MCCarriers == {[at |-> 36, db |-> 8, fits |-> {"cellular", "ism"}],
               [at |-> 40, db |-> 10, fits |-> {"broadcast"}],
               [at |-> 41, db |-> 6, fits |-> {"broadcast"}]}
=============================================================================
