------------------------------ MODULE Aircraft ------------------------------
(***************************************************************************)
(* The ADS-B decoder behind the demodulator (internal/adsb): the fields of *)
(* a message (decode.go), the compact position (cpr.go) and the aircraft   *)
(* table (tracker.go), for one aircraft that flies straight on.  An angle  *)
(* is an integer, so that the cells are exact: Circle units are 360        *)
(* degrees.  Time is counted in ticks of 5 s.                              *)
(***************************************************************************)
EXTENDS Integers, Sequences, FiniteSets

CONSTANTS CprMaxAge,    \* cprMaxAge, 10 s: 2 ticks
          MaxAge,       \* bound: the 60 s of maybeEmitDecode, in ticks
          MaxTick,      \* bound: ticks flown with the service on
          AwayTicks,    \* bound: ticks another service is on
          Starts,       \* [lat, lon, alt] at tick 0, [north, east, up] per tick, vel,
                        \* gnss: its height less its barometric altitude
          None

ASSUME AircraftAssumption ==
    /\ CprMaxAge \in Nat /\ MaxAge \in Nat /\ MaxTick \in Nat /\ AwayTicks \in Nat
    /\ MaxTick + MaxAge < AwayTicks

VARIABLES flight,    \* the aircraft's start
          tick,      \* time.Now()
          entry,     \* t.acs[icao]
          last       \* history: tick of the last position message; of the last height
                     \* told, and whether that was the GNSS one; whether the last velocity
                     \* had a vertical rate; whether the position is near a reference lost

aircraftVars == <<flight, tick, entry, last>>

CprN == 4096    \* bound: the code's fractions have 17 bits, these 12
Circle == 60 * 59 * CprN
AbsOf(a) == IF a < 0 THEN 0 - a ELSE a
AtLeast1(a) == IF a < 1 THEN 1 ELSE a

\* cprNL: the latitudes up to which there are 59, 58, ... and 2 zones.
ZoneEnds ==
    <<421722, 597239, 732494, 847007, 948331, 1040333, 1125307, 1204749, 1279695,
      1350899, 1418930, 1484229, 1547149, 1607974, 1666938, 1724238, 1780038,
      1834482, 1887691, 1939772, 1990818, 2040912, 2090128, 2138531, 2186180,
      2233127, 2279422, 2325108, 2370225, 2414811, 2458898, 2502517, 2545699,
      2588469, 2630853, 2672872, 2714549, 2755904, 2796955, 2837719, 2878212,
      2918449, 2958441, 2998201, 3037739, 3077061, 3116172, 3155074, 3193762,
      3232225, 3270439, 3308362, 3345918, 3382963, 3419209, 3453999, 3485413,
      3504128>>
NL(lat) == 1 + Cardinality({z \in 1 .. 58 : AbsOf(lat) <= ZoneEnds[z]})

\* The number of cells around the meridian and around the circle of latitude.
LatCells(odd) == IF odd THEN 59 ELSE 60
LonCells(odd, lat) == AtLeast1(IF odd THEN NL(lat) - 1 ELSE NL(lat))
LatCell(odd) == Circle \div LatCells(odd)

\* The flights, at speeds and heights a message can tell: no pole is crossed, and
\* no more than 5.2 km (or the angle that is at the equator) flown while a pair is
\* fresh, half a step of the two grids against each other.
ASSUME StartsAssumption ==
    \A f \in Starts :
        /\ {f.lat, f.lon, f.north, f.east, f.alt, f.up, f.gnss} \subseteq Int
        /\ \A t \in {0, MaxTick} : 4 * AbsOf(f.lat + f.north * t) < Circle
        /\ \A v \in {f.north, f.east} : CprMaxAge * AbsOf(v) <= 1900
        /\ f.alt % 25 = 0 /\ f.up % 25 = 0 /\ f.gnss % 25 = 0
        /\ f.vel \in Int \X Int \X Int
        /\ f.vel[1] % 4 = 0 /\ f.vel[2] % 4 = 0 /\ f.vel[3] % 64 = 0

-----------------------------------------------------------------------------
\* The aircraft and its transponder.
LatAt(t) == flight.lat + flight.north * t
LonAt(t) == flight.lon + flight.east * t
HeightAt(t, gnss) == flight.alt + flight.up * t + (IF gnss THEN flight.gnss ELSE 0)

\* Units of latitude from the rounding of the fraction: it picks the zones.
SentLat(odd) ==
    LET part == (2 * (LatAt(tick) % LatCell(odd)) + LatCells(~odd)) \div (2 * LatCells(~odd))
    IN (LatAt(tick) \div LatCell(odd)) * LatCell(odd) + part * LatCells(~odd)

LonFraction(odd) ==
    LET cells == LonCells(odd, SentLat(odd))
    IN ((((LonAt(tick) * cells) % Circle) + 1770) \div 3540) % CprN

\* Type codes 9-18 tell the barometric altitude, 20-22 the GNSS height.
PositionME(odd, gnss, gillham) ==
    LET n == (HeightAt(tick, gnss) + 1000) \div 25
    IN [tc |-> IF gnss THEN 20 ELSE 11, odd |-> odd,
        lat |-> (SentLat(odd) \div LatCells(~odd)) % CprN,
        lon |-> LonFraction(odd),
        ac |-> IF gillham THEN (n \div 16) * 32 + (n % 16) ELSE (n \div 16) * 32 + 16 + (n % 16)]

\* A field is the value + 1, or 0 if it is not known; subtype 1 is in knots, 2
\* in steps of four.
VelocityME(st, known, rated) ==
    LET step == IF st = 2 THEN 4 ELSE 1
        field(v) == AbsOf(v) \div step + 1
    IN [tc |-> 19, st |-> st,
        west |-> flight.vel[1] < 0, ew |-> field(flight.vel[1]),
        south |-> flight.vel[2] < 0, ns |-> IF known THEN field(flight.vel[2]) ELSE 0,
        down |-> flight.vel[3] < 0, vr |-> IF rated THEN AbsOf(flight.vel[3]) \div 64 + 1 ELSE 0]

-----------------------------------------------------------------------------
\* decode.go.  Decode takes the height of either kind for the altitude.
DecodeAltitude(ac) ==
    IF ac = 0 \/ (ac \div 16) % 2 = 0 THEN None
    ELSE ((ac \div 32) * 16 + (ac % 16)) * 25 - 1000

\* A rate that is not known is 0, in a velocity that is.
Signed(negative, v) == IF negative THEN 0 - v ELSE v
DecodeVelocity(me) ==
    IF me.st \notin {1, 2} \/ me.ew = 0 \/ me.ns = 0 THEN None
    ELSE LET mul == IF me.st = 2 THEN 4 ELSE 1
         IN <<Signed(me.west, (me.ew - 1) * mul), Signed(me.south, (me.ns - 1) * mul),
              IF me.vr = 0 THEN 0 ELSE Signed(me.down, (me.vr - 1) * 64)>>

-----------------------------------------------------------------------------
\* cprGlobal: the position from an even and an odd frame, at the newer one.
CprGlobal(even, odd, evenNewer) ==
    LET j == (59 * even.lat - 60 * odd.lat + CprN \div 2) \div CprN
        Low(lat) == IF 4 * lat >= 3 * Circle THEN lat - Circle ELSE lat
        rlatE == Low(LatCell(FALSE) * (j % 60) + 59 * even.lat)
        rlatO == Low(LatCell(TRUE) * (j % 59) + 60 * odd.lat)
        nl == NL(rlatE)
        m == (even.lon * (nl - 1) - odd.lon * nl + CprN \div 2) \div CprN
        newer == IF evenNewer THEN even ELSE odd
        ni == AtLeast1(IF evenNewer THEN nl ELSE nl - 1)
        lon == (Circle * (m % ni) + 3540 * newer.lon) \div ni
    IN IF nl # NL(rlatO) THEN None
       ELSE [lat |-> IF evenNewer THEN rlatE ELSE rlatO,
             lon |-> IF 2 * lon >= Circle THEN lon - Circle ELSE lon]

\* The multiple of the cell nearest to the reference, for this fraction.
Nearest(ref, cells, fraction) ==
    LET r == ref * cells
    IN (r \div Circle) + (2 * (r % Circle) - 7080 * fraction + Circle) \div (2 * Circle)

\* cprLocal: the position from one frame, near the last one.
CprLocal(f, odd, ref) ==
    LET lat == LatCell(odd) * Nearest(ref.lat, LatCells(odd), f.lat) + LatCells(~odd) * f.lat
        ni == LonCells(odd, lat)
    IN [lat |-> lat,
        lon |-> (Circle * Nearest(ref.lon, ni, f.lon) + 3540 * f.lon) \div ni]

-----------------------------------------------------------------------------
\* tracker.go.
NewEntry == [even |-> None, odd |-> None, pos |-> None, alt |-> None, vel |-> None, seen |-> tick]

Or(new, old) == IF new = None THEN old ELSE new

PairAny(a) == a.even # None /\ a.odd # None
Pair(a) == a.even # None /\ a.odd # None /\ AbsOf(a.even.t - a.odd.t) < CprMaxAge

WithFrame(a, me) ==
    LET f == [lat |-> me.lat, lon |-> me.lon, t |-> tick]
    IN IF me.odd THEN [a EXCEPT !.odd = f] ELSE [a EXCEPT !.even = f]

Global(b) == IF Pair(b) THEN CprGlobal(b.even, b.odd, b.even.t > b.odd.t) ELSE None
Local(a, me) == IF a.pos = None THEN None ELSE CprLocal(me, me.odd, a.pos)

UpdatePosition(a, me) ==
    LET b == WithFrame(a, me) IN [b EXCEPT !.pos = Or(Global(b), Local(a, me))]

Known == IF entry = None THEN NewEntry ELSE [entry EXCEPT !.seen = tick]

\* The aircraft may have left the half cell around its place at the last position
\* message: the message finds a place near it, or near one lost before.
HalfCell == 120000
Far == \/ AbsOf(LatAt(tick) - LatAt(last.pos)) > HalfCell
       \/ AbsOf(LonAt(tick) - LonAt(last.pos)) > HalfCell
Lost(a, me) == a.pos # None /\ Global(WithFrame(a, me)) = None /\ (last.lost \/ Far)

\* feedADSB: a frame decodes to a message and updates the table.
HearPosition(odd, gnss, gillham) ==
    LET me == PositionME(odd, gnss, gillham)
        alt == DecodeAltitude(me.ac)
        a == [Known EXCEPT !.alt = Or(alt, @)]
    IN /\ entry' = UpdatePosition(a, me)
       /\ last' = [last EXCEPT !.pos = tick, !.alt = IF alt = None THEN @ ELSE tick,
                               !.gnss = IF alt = None THEN @ ELSE gnss, !.lost = Lost(a, me)]

HearVelocity(st, known, rated) ==
    LET vel == DecodeVelocity(VelocityME(st, known, rated))
    IN /\ entry' = [Known EXCEPT !.vel = Or(vel, @)]
       /\ last' = [last EXCEPT !.rated = IF vel = None THEN @ ELSE rated]

\* A callsign or a type code Decode does not interpret.
HearOther == entry' = Known /\ UNCHANGED last

TickLeft == tick % AwayTicks < MaxTick

\* Bound: at most one message a tick, and none is repeated within it.
Hear ==
    /\ TickLeft /\ tick' = tick + 1
    /\ \/ \E odd, gnss, gillham \in BOOLEAN : HearPosition(odd, gnss, gillham)
       \/ \E st \in {1, 2, 3}, known, rated \in BOOLEAN : HearVelocity(st, known, rated)
       \/ HearOther
    /\ UNCHANGED flight

Silence ==
    /\ TickLeft /\ tick' = tick + 1
    /\ UNCHANGED <<flight, entry, last>>

\* The service is left and chosen again: the table stays as it is, and no
\* Snapshot sees it in between.
Away ==
    /\ tick < AwayTicks /\ tick' = tick + AwayTicks
    /\ 4 * AbsOf(LatAt(tick + AwayTicks + MaxTick)) < Circle
    /\ UNCHANGED <<flight, entry, last>>

Nothing == [pos |-> None, alt |-> None, gnss |-> FALSE, rated |-> FALSE, lost |-> FALSE]

\* Snapshot drops the aircraft not heard from for longer than maxAge.
Snapshot ==
    /\ entry # None /\ tick - entry.seen > MaxAge
    /\ entry' = None
    /\ last' = Nothing
    /\ UNCHANGED <<flight, tick>>

AircraftInit == flight \in Starts /\ tick = 0 /\ entry = None /\ last = Nothing

AircraftNext == Hear \/ Silence \/ Away \/ Snapshot

-----------------------------------------------------------------------------
\* Distances, the one in longitude around the circle; half a step of a fraction
\* bounds the error of an exact decoding.
LonDistance(a, b) == LET d == (a - b) % Circle IN IF 2 * d > Circle THEN Circle - d ELSE d
LonError(lat) == 1 + 1770 \div LonCells(TRUE, lat)

\* A position in the table is the aircraft's at its last position message:
\* never one decoded in the wrong cell, from a pair too far apart or across a
\* zone boundary, the equator, the antimeridian or the last zone.  (But one found
\* near a reference the aircraft has flown too far from, in an entry kept by other
\* messages or by no Snapshot, is lost until a pair of frames gives it again.)
PositionTrue ==
    entry # None /\ entry.pos # None /\ ~last.lost =>
        /\ AbsOf(entry.pos.lat - LatAt(last.pos)) <= 31
        /\ LonDistance(entry.pos.lon, LonAt(last.pos)) <= LonError(entry.pos.lat)

\* The altitude is the height told last in a form the decoder knows, barometric or
\* GNSS: an unknown form leaves the older one.  The velocity is the aircraft's but
\* for a vertical rate that the last message with a speed did not tell: it is then
\* 0, even if one was known before.
FieldsTrue ==
    entry # None =>
        /\ entry.alt # None => entry.alt = HeightAt(last.alt, last.gnss)
        /\ entry.vel # None =>
               entry.vel = <<flight.vel[1], flight.vel[2], IF last.rated THEN flight.vel[3] ELSE 0>>

TableTrue == PositionTrue /\ FieldsTrue
=============================================================================
