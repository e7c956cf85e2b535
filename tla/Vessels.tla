------------------------------- MODULE Vessels ------------------------------
(***************************************************************************)
(* AIS messages (internal/ais/payload.go) and the vessel table             *)
(* (tracker.go), for one ship.  A message has a type and says, for each    *)
(* field it carries, a value or that it is not available.                  *)
(***************************************************************************)
EXTENDS Integers

CONSTANTS Values,        \* values of a field
          NA,            \* "not available": a sentinel, an empty text, a zero
          OutOfRange,    \* a position beyond a pole or the antimeridian
          VesselMaxAge,  \* bound: the 15 minutes of maybeEmitDecode
          MaxSilence     \* bound: how long the ship is silent

ASSUME VesselsAssumption == VesselMaxAge \in Nat /\ MaxSilence \in Nat

VARIABLES vessel,   \* t.vessels[mmsi], NoVessel if it is not there
          silent    \* time since v.lastSeen

vesselVars == <<vessel, silent>>

\* sog stands for cog and heading, which are read and kept as it is.
Fields == {"name", "callsign", "shipType", "pos", "sog"}
Types == {"1", "2", "3", "5", "18", "19", "24A", "24B", "other"}
Kinematics == {"pos", "sog"}

\* DecodePayload: what is read of a message of this type.  One cut short is
\* read not at all, one of type 19 up to its name.
Read(type, short) ==
    CASE type \in {"1", "2", "3", "18"} /\ ~short -> Kinematics
      [] type = "19" -> IF short THEN Kinematics ELSE Kinematics \cup {"name"}
      [] type = "5" /\ ~short -> {"name", "callsign", "shipType"}
      [] type = "24A" /\ ~short -> {"name"}
      [] type = "24B" /\ ~short -> {"callsign", "shipType"}
      [] OTHER -> {}

\* The name of a type 19 is read from six bits before it.
Shifted(v) == <<"shifted", v>>

\* fillKinematics: a position out of range is kept from the table.
Told(type, f, v) ==
    IF v = OutOfRange THEN NA ELSE IF type = "19" /\ f = "name" THEN Shifted(v) ELSE v

Reports(type, short) ==
    LET said == Read(type, short)
        Sayable(f) == Values \cup {NA} \cup (IF f = "pos" THEN {OutOfRange} ELSE {})
    IN {[f \in Fields |-> IF f \in said THEN Told(type, f, v[f]) ELSE NA] :
            v \in {w \in [said -> Values \cup {NA, OutOfRange}] : \A f \in said : w[f] \in Sayable(f)}}

NoVessel == <<>>
Unknown == [f \in Fields |-> NA]

Replace(old, r) == r
Merge(old, r) == [f \in Fields |-> IF r[f] = NA THEN old[f] ELSE r[f]]

\* feedAIS: a body is decoded and updates the table.
UpdateVessel ==
    \E type \in Types, short \in BOOLEAN :
        \E r \in Reports(type, short) :
            /\ vessel' = Merge(IF vessel = NoVessel THEN Unknown ELSE vessel, r)
            /\ silent' = 0

VesselSilent ==
    /\ vessel # NoVessel /\ silent < MaxSilence
    /\ silent' = silent + 1 /\ UNCHANGED vessel

SnapshotVessels ==
    /\ vessel # NoVessel /\ silent > VesselMaxAge
    /\ vessel' = NoVessel /\ silent' = 0

VesselsInit == vessel = NoVessel /\ silent = 0
VesselsNext == UpdateVessel \/ VesselSilent \/ SnapshotVessels

-----------------------------------------------------------------------------
\* What is known of a ship stays known as long as it is in the table: a report
\* without a field, cut short, of another type or with a sentinel in it takes
\* nothing away, and only a silent ship is forgotten.
KeepsKnown ==
    [][vessel # NoVessel =>
         \/ vessel' # NoVessel /\ \A f \in Fields : vessel[f] # NA => vessel'[f] # NA
         \/ vessel' = NoVessel /\ silent > VesselMaxAge]_vesselVars
=============================================================================
