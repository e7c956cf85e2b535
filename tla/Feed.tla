-------------------------------- MODULE Feed --------------------------------
(***************************************************************************)
(* A channel from the read goroutine to a broadcast loop: audioCh, written *)
(* by flushAudio, and decodeCh, written by pushDecode in the same way.     *)
(* Each of the three selects is a step, since the broadcast loop takes     *)
(* frames at any time.  Frames are numbered in the order they are put.     *)
(***************************************************************************)
EXTENDS Integers, Sequences

CONSTANTS Cap,        \* capacity of the channel
          MaxFrames   \* bound: frames put

ASSUME FeedAssumption == Cap \in Nat \ {0} /\ MaxFrames \in Nat

VARIABLES put,        \* the frame put last, or being put
          ch,         \* the channel
          putStage,   \* the select the read goroutine has come to
          taken       \* the frame taken last

feedVars == <<put, ch, putStage, taken>>

FeedInit == put = 0 /\ ch = <<>> /\ putStage = "idle" /\ taken = 0

HasRoomLate == Len(ch) <= Cap
HasRoom == Len(ch) < Cap

\* The first select.
Offer ==
    /\ putStage = "idle" /\ put < MaxFrames
    /\ put' = put + 1
    /\ IF HasRoom
       THEN ch' = Append(ch, put + 1) /\ UNCHANGED putStage
       ELSE putStage' = "full" /\ UNCHANGED ch
    /\ UNCHANGED taken

\* The second: the oldest frame, if the broadcast loop has left one.
MakeRoomNot == putStage = "full" /\ putStage' = "retry" /\ UNCHANGED <<put, ch, taken>>
MakeRoom ==
    /\ putStage = "full"
    /\ ch' = IF ch = <<>> THEN ch ELSE Tail(ch)
    /\ putStage' = "retry"
    /\ UNCHANGED <<put, taken>>

\* The third: the frame is given up if there is no room.
Retry ==
    /\ putStage = "retry"
    /\ ch' = IF HasRoom THEN Append(ch, put) ELSE ch
    /\ putStage' = "idle"
    /\ UNCHANGED <<put, taken>>

\* The broadcast loop receives.
Take ==
    /\ ch # <<>>
    /\ taken' = Head(ch) /\ ch' = Tail(ch)
    /\ UNCHANGED <<put, putStage>>

Putter == Offer \/ MakeRoom \/ Retry

-----------------------------------------------------------------------------
(* Of the frame being put, the promise is kept as soon as room is made.     *)

LW == INSTANCE LatestWins WITH
          newest <- IF putStage = "full" THEN put - 1 ELSE put,
          queue  <- IF putStage = "retry" THEN Append(ch, put) ELSE ch,
          got    <- taken

FeedType == /\ put \in 0 .. MaxFrames /\ taken \in 0 .. MaxFrames
            /\ ch \in Seq(1 .. MaxFrames) /\ Len(ch) <= Cap
            /\ putStage \in {"idle", "full", "retry"}

\* The third select finds room: nobody else puts.
RoomMade == putStage = "retry" => HasRoom
=============================================================================
