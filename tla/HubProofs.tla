----------------------------- MODULE HubProofs -----------------------------
(***************************************************************************)
(* Proofs about Hub, for any clients, feeds and capacity: no send on a     *)
(* closed channel, and no announced change kept from a client that keeps   *)
(* up.                                                                     *)
(***************************************************************************)
EXTENDS Hub, TLAPS

USE HubAssumption
USE DEF mutexVars, sharedVars, taskVars, chanVars, writerVars, viewVars,
        boundVars

LEMMA LoopInit == Init => LoopInv
  BY DEF Init, LoopInv, Stages, Tasks

\* What HandleWS and writeLoop of one client do, except for broadcasting.
LEMMA ClientNext ==
  ASSUME LoopInv, NEW c \in Clients,
         \/ Connect(c) \/ WaitForReaders(c) \/ Register(c) \/ SetVolume(c)
         \/ SendStatus(c) \/ Cleanup(c) \/ Command(c) \/ LoseConn(c)
         \/ TakeMessage(c) \/ EndWriter(c) \/ WriteMessage(c) \/ WriteFails(c)
  PROVE  LoopInv'
  <1> USE DEF LoopInv, Tasks, Stages, LockStages
  <1>1. CASE Connect(c)
    BY <1>1 DEF Connect, Step
  <1>2. CASE WaitForReaders(c)
    BY <1>2 DEF WaitForReaders
  <1>3. CASE Register(c)
    BY <1>3 DEF Register, Step, Locked
  <1>4. CASE SetVolume(c)
    BY <1>4 DEF SetVolume, Step, Locked
  <1>5. CASE ReadConfig(c)
    BY <1>5 DEF ReadConfig, Step
  <1>6. CASE ReadVolume(c)
    BY <1>6 DEF ReadVolume, Step
  <1>7. CASE QueueFirst(c)
    BY <1>7 DEF QueueFirst, Step
  <1>8. CASE ReadError(c)
    BY <1>8 DEF ReadError, Step
  <1>9. CASE Unregister(c)
    BY <1>9 DEF Unregister, Step, Locked
  <1>10. CASE CloseClient(c)
    BY <1>10 DEF CloseClient, Step
  <1>11. CASE SetConfig(c)
    BY <1>11 DEF SetConfig, Step
  <1>12. CASE Tune(c)
    BY <1>12 DEF Tune
  <1>13. CASE ReadVolumeCmd(c)
    BY <1>13 DEF ReadVolumeCmd, Step
  <1>14. CASE LoseConn(c)
    BY <1>14 DEF LoseConn
  <1>15. CASE TakeMessage(c)
    BY <1>15 DEF TakeMessage
  <1>16. CASE EndWriter(c)
    BY <1>16 DEF EndWriter
  <1>17. CASE WriteMessage(c)
    BY <1>17 DEF WriteMessage
  <1>18. CASE WriteFails(c)
    BY <1>18 DEF WriteFails
  <1> QED  BY <1>1, <1>2, <1>3, <1>4, <1>5, <1>6, <1>7,
              <1>8, <1>9, <1>10, <1>11, <1>12, <1>13,
              <1>14, <1>15, <1>16, <1>17, <1>18
           DEF SendStatus, Cleanup, Command

\* broadcast, whoever calls it.
LEMMA BroadcastNext ==
  ASSUME LoopInv, NEW t \in Tasks, Broadcast(t)
  PROVE  LoopInv'
  <1> USE DEF LoopInv, Tasks, Stages
  <1>1. CASE BeginBroadcast(t)
    BY <1>1 DEF BeginBroadcast, Step
  <1>2. ASSUME NEW c \in Clients, BroadcastTo(t, c) PROVE LoopInv'
    BY <1>2 DEF BroadcastTo
  <1>3. CASE EndBroadcast(t)
    BY <1>3 DEF EndBroadcast, Step
  <1> QED  BY <1>1, <1>2, <1>3 DEF Broadcast

LEMMA LoopNext == LoopInv /\ [Next]_vars => LoopInv'
  <1> SUFFICES ASSUME LoopInv, [Next]_vars PROVE LoopInv'
    OBVIOUS
  <1>1. CASE UNCHANGED vars
    BY <1>1 DEF vars, LoopInv
  <1>2. ASSUME NEW f \in Feeds, TakeFrame(f) PROVE LoopInv'
    BY <1>2 DEF TakeFrame, Step, LoopInv, Tasks, Stages
  <1> QED  BY <1>1, <1>2, ClientNext, BroadcastNext DEF Next, HandlerStep, Tasks

\* No goroutine ever sends on the channel of a client that was cleaned up,
\* which would panic, however many clients come and go while others broadcast.
THEOREM NoPanicOnSend == Spec => []NoSendOnClosed
  <1>1. LoopInv => NoSendOnClosed
    BY DEF LoopInv, NoSendOnClosed, Tasks
  <1> QED  BY <1>1, LoopInit, LoopNext, PTL DEF Spec

-----------------------------------------------------------------------------
(* Types                                                                    *)

LEMMA StatusType ==
  ASSUME NEW n \in 0 .. MaxCmds, NEW v \in 0 .. 100
  PROVE  Status(n, v) \in Messages
  BY DEF Status, Messages

LEMMA FrameType == Frame \in Messages
  BY DEF Frame, Messages

LEMMA VolumeType ==
  ASSUME NEW m \in Messages, NEW v \in 0 .. 100
  PROVE  [m EXCEPT !.vol = v] \in Messages
  BY DEF Messages

LEMMA FieldTypes ==
  ASSUME NEW m \in Messages
  PROVE  m.cfg \in 0 .. MaxCmds /\ m.vol \in 0 .. 100
  BY DEF Messages

LEMMA TypeInit == Init => TypeOK
  <1> SUFFICES ASSUME Init PROVE TypeOK
    OBVIOUS
  <1>1. /\ out \in [Tasks -> Messages] /\ hand \in [Clients -> Messages]
        /\ send \in [Clients -> Seq(Messages)] /\ \A c \in Clients : Len(send[c]) <= SendCap
    BY FrameType DEF Init
  <1>2. pc \in [Tasks -> Stages] /\ todo \in [Tasks -> SUBSET Clients]
    BY DEF Init, Stages, Tasks
  <1>3. /\ sendOpen \in [Clients -> BOOLEAN] /\ conn \in [Clients -> {"up", "lost", "closed"}]
        /\ writer \in [Clients -> {"none", "take", "write", "failed", "done"}]
        /\ seen \in [Clients -> 0 .. MaxCmds] /\ shown \in [Clients -> 0 .. 100]
    BY DEF Init
  <1>4. vol \in 0 .. 100 /\ cfg \in 0 .. cmds /\ due \in 0 .. cmds
    BY DEF Init
  <1>5. clients \subseteq Clients /\ readers \subseteq Tasks /\ waiting \in Clients \cup {NoOne}
    BY DEF Init
  <1>6. missed \subseteq Clients /\ served \subseteq Clients /\ volSet \in BOOLEAN
    BY DEF Init
  <1>7. cmds \in 0 .. MaxCmds /\ frames \in 0 .. MaxFrames
    BY DEF Init
  <1> QED  BY <1>1, <1>2, <1>3, <1>4, <1>5, <1>6, <1>7 DEF TypeOK

LEMMA ClientType ==
  ASSUME TypeOK, NEW c \in Clients,
         \/ Connect(c) \/ WaitForReaders(c) \/ Register(c) \/ SetVolume(c)
         \/ SendStatus(c) \/ Cleanup(c) \/ Command(c) \/ LoseConn(c)
         \/ TakeMessage(c) \/ EndWriter(c) \/ WriteMessage(c) \/ WriteFails(c)
  PROVE  TypeOK'
  <1> USE DEF Tasks
  <1> DEFINE PcType == pc' \in [Tasks -> Stages]
  <1>1. CASE Connect(c)
    <2>1. PcType  BY <1>1 DEF Connect, Step, TypeOK, Stages, LockStages
    <2> QED  BY <1>1, <2>1 DEF Connect, TypeOK
  <1>2. CASE WaitForReaders(c)
    BY <1>2 DEF WaitForReaders, TypeOK
  <1>3. CASE Register(c)
    <2>1. PcType  BY <1>3 DEF Register, Step, TypeOK, Stages, LockStages
    <2>2. writer' \in [Clients -> {"none", "take", "write", "failed", "done"}]
      BY <1>3 DEF Register, TypeOK
    <2>3. clients' \subseteq Clients /\ waiting' \in Clients \cup {NoOne}
      BY <1>3 DEF Register, Locked, TypeOK
    <2> QED  BY <1>3, <2>1, <2>2, <2>3 DEF Register, TypeOK
  <1>4. CASE SetVolume(c)
    <2>1. PcType  BY <1>4 DEF SetVolume, Step, TypeOK, Stages, LockStages
    <2>2. vol' \in 0 .. 100
      BY <1>4, FieldTypes DEF SetVolume, TypeOK
    <2> QED  BY <1>4, <2>1, <2>2 DEF SetVolume, Locked, TypeOK
  <1>5. CASE ReadConfig(c)
    <2>1. PcType  BY <1>5 DEF ReadConfig, Step, TypeOK, Stages, LockStages
    <2>2. Status(cfg, 0) \in Messages
      BY StatusType DEF TypeOK
    <2>3. out' \in [Tasks -> Messages]
      BY <1>5, <2>2 DEF ReadConfig, TypeOK
    <2> QED  BY <1>5, <2>1, <2>3 DEF ReadConfig, TypeOK
  <1>6. CASE ReadVolume(c)
    <2>1. PcType  BY <1>6 DEF ReadVolume, Step, TypeOK, Stages, LockStages
    <2>2. ReportedVolume(vol) \in 0 .. 100
      BY DEF ReportedVolume, TypeOK
    <2>3. [out[c] EXCEPT !.vol = ReportedVolume(vol)] \in Messages
      BY <2>2, VolumeType DEF TypeOK
    <2>4. out' = [out EXCEPT ![c] = [out[c] EXCEPT !.vol = ReportedVolume(vol)]]
      BY <1>6 DEF ReadVolume
    <2>5. out' \in [Tasks -> Messages]
      BY <2>3, <2>4 DEF TypeOK
    <2> QED  BY <1>6, <2>1, <2>5 DEF ReadVolume, TypeOK
  <1>7. CASE QueueFirst(c)
    <2>1. PcType  BY <1>7 DEF QueueFirst, Step, TypeOK, Stages, LockStages
    <2>2. out' \in [Tasks -> Messages]
      BY <1>7, FrameType DEF QueueFirst, TypeOK
    <2>3. Append(send[c], out[c]) \in Seq(Messages) /\ Len(Append(send[c], out[c])) <= SendCap
      BY <1>7 DEF QueueFirst, TypeOK
    <2>4. send' \in [Clients -> Seq(Messages)] /\ \A d \in Clients : Len(send'[d]) <= SendCap
      BY <1>7, <2>3 DEF QueueFirst, TypeOK
    <2> QED  BY <1>7, <2>1, <2>2, <2>4 DEF QueueFirst, TypeOK
  <1>8. CASE ReadError(c)
    <2>1. PcType  BY <1>8 DEF ReadError, Step, TypeOK, Stages, LockStages
    <2> QED  BY <1>8, <2>1 DEF ReadError, TypeOK
  <1>9. CASE Unregister(c)
    <2>1. PcType  BY <1>9 DEF Unregister, Step, TypeOK, Stages, LockStages
    <2> QED  BY <1>9, <2>1 DEF Unregister, Locked, TypeOK
  <1>10. CASE CloseClient(c)
    <2>1. PcType  BY <1>10 DEF CloseClient, Step, TypeOK, Stages, LockStages
    <2> QED  BY <1>10, <2>1 DEF CloseClient, TypeOK
  <1>11. CASE SetConfig(c)
    <2>1. PcType  BY <1>11 DEF SetConfig, Step, TypeOK, Stages, LockStages
    <2>2. cfg' \in 0 .. cmds' /\ due' \in 0 .. cmds' /\ cmds' \in 0 .. MaxCmds
      BY <1>11 DEF SetConfig, ReadsCommand, TypeOK
    <2> QED  BY <1>11, <2>1, <2>2 DEF SetConfig, TypeOK
  <1>12. CASE Tune(c)
    <2>1. cfg' \in 0 .. cmds' /\ due' \in 0 .. cmds' /\ cmds' \in 0 .. MaxCmds
      BY <1>12 DEF Tune, ReadsCommand, TypeOK
    <2> QED  BY <1>12, <2>1 DEF Tune, TypeOK
  <1>13. CASE ReadVolumeCmd(c)
    <2>1. PcType  BY <1>13 DEF ReadVolumeCmd, Step, TypeOK, Stages, LockStages
    <2>2. cfg' \in 0 .. cmds' /\ due' \in 0 .. cmds' /\ cmds' \in 0 .. MaxCmds
      BY <1>13 DEF ReadVolumeCmd, ReadsCommand, TypeOK
    <2>3. PICK v \in Volumes : out' = [out EXCEPT ![c] = Status(0, v)]
      BY <1>13 DEF ReadVolumeCmd
    <2>4. Status(0, v) \in Messages
      BY StatusType
    <2>5. out' \in [Tasks -> Messages]
      BY <2>3, <2>4 DEF TypeOK
    <2> QED  BY <1>13, <2>1, <2>2, <2>5 DEF ReadVolumeCmd, TypeOK
  <1>14. CASE LoseConn(c)
    BY <1>14 DEF LoseConn, TypeOK
  <1>15. CASE TakeMessage(c)
    <2>1. Head(send[c]) \in Messages /\ Tail(send[c]) \in Seq(Messages) /\ Len(Tail(send[c])) <= SendCap
      BY <1>15 DEF TakeMessage, TypeOK
    <2>2. send' \in [Clients -> Seq(Messages)] /\ \A d \in Clients : Len(send'[d]) <= SendCap
      BY <1>15, <2>1 DEF TakeMessage, TypeOK
    <2>3. hand' \in [Clients -> Messages]
      BY <1>15, <2>1 DEF TakeMessage, TypeOK
    <2> QED  BY <1>15, <2>2, <2>3 DEF TakeMessage, WriterStep, TypeOK
  <1>16. CASE EndWriter(c)
    BY <1>16 DEF EndWriter, WriterStep, TypeOK
  <1>17. CASE WriteMessage(c)
    <2>1. hand' \in [Clients -> Messages]
      BY <1>17, FrameType DEF WriteMessage, TypeOK
    <2>2. hand[c].cfg \in 0 .. MaxCmds /\ hand[c].vol \in 0 .. 100
      BY FieldTypes DEF TypeOK
    <2>3. seen' \in [Clients -> 0 .. MaxCmds] /\ shown' \in [Clients -> 0 .. 100]
      <3>1. CASE UNCHANGED <<seen, shown>>
        BY <3>1 DEF TypeOK
      <3>2. CASE /\ seen' = [seen EXCEPT ![c] = IF hand[c].cfg > @ THEN hand[c].cfg ELSE @]
                 /\ shown' = [shown EXCEPT ![c] = hand[c].vol]
        <4>1. seen' \in [Clients -> 0 .. MaxCmds]
          BY <2>2, <3>2 DEF TypeOK
        <4>2. shown' \in [Clients -> 0 .. 100]
          BY <2>2, <3>2 DEF TypeOK
        <4> QED  BY <4>1, <4>2
      <3> QED  BY <1>17, <3>1, <3>2 DEF WriteMessage
    <2> QED  BY <1>17, <2>1, <2>3 DEF WriteMessage, WriterStep, TypeOK
  <1>18. CASE WriteFails(c)
    <2>1. hand' \in [Clients -> Messages]
      BY <1>18, FrameType DEF WriteFails, TypeOK
    <2> QED  BY <1>18, <2>1 DEF WriteFails, WriterStep, TypeOK
  <1> QED  BY <1>1, <1>2, <1>3, <1>4, <1>5, <1>6, <1>7,
              <1>8, <1>9, <1>10, <1>11, <1>12, <1>13,
              <1>14, <1>15, <1>16, <1>17, <1>18
           DEF SendStatus, Cleanup, Command

LEMMA BroadcastType ==
  ASSUME TypeOK, NEW t \in Tasks, Broadcast(t)
  PROVE  TypeOK'
  <1>1. CASE BeginBroadcast(t)
    <2>1. pc' \in [Tasks -> Stages]
      BY <1>1 DEF BeginBroadcast, Step, TypeOK, Stages
    <2> QED  BY <1>1, <2>1 DEF BeginBroadcast, TypeOK
  <1>2. ASSUME NEW c \in Clients, BroadcastTo(t, c) PROVE TypeOK'
    <2>1. todo' \in [Tasks -> SUBSET Clients]
      BY <1>2 DEF BroadcastTo, TypeOK
    <2>2. missed' \subseteq Clients
      BY <1>2 DEF BroadcastTo, TypeOK
    <2>3. send' \in [Clients -> Seq(Messages)] /\ \A d \in Clients : Len(send'[d]) <= SendCap
      <3>1. CASE send' = send
        BY <3>1 DEF TypeOK
      <3>2. CASE HasRoom(c) /\ send' = [send EXCEPT ![c] = Append(@, out[t])]
        <4>1. Append(send[c], out[t]) \in Seq(Messages) /\ Len(Append(send[c], out[t])) <= SendCap
          BY <3>2 DEF HasRoom, TypeOK
        <4> QED  BY <3>2, <4>1 DEF TypeOK
      <3> QED  BY <1>2, <3>1, <3>2 DEF BroadcastTo
    <2> QED  BY <1>2, <2>1, <2>2, <2>3 DEF BroadcastTo, TypeOK
  <1>3. CASE EndBroadcast(t)
    <2>1. pc' \in [Tasks -> Stages]
      BY <1>3 DEF EndBroadcast, Step, TypeOK, Stages
    <2>2. out' \in [Tasks -> Messages]
      BY <1>3, FrameType DEF EndBroadcast, TypeOK
    <2> QED  BY <1>3, <2>1, <2>2 DEF EndBroadcast, TypeOK
  <1> QED  BY <1>1, <1>2, <1>3 DEF Broadcast

LEMMA TypeNext == TypeOK /\ [Next]_vars => TypeOK'
  <1> SUFFICES ASSUME TypeOK, [Next]_vars PROVE TypeOK'
    OBVIOUS
  <1>1. CASE UNCHANGED vars
    BY <1>1 DEF vars, TypeOK
  <1>2. ASSUME NEW f \in Feeds, TakeFrame(f) PROVE TypeOK'
    <2>1. pc' \in [Tasks -> Stages]
      BY <1>2 DEF TakeFrame, Step, TypeOK, Stages, Tasks
    <2> QED  BY <1>2, <2>1 DEF TakeFrame, TypeOK
  <1> QED  BY <1>1, <1>2, ClientType, BroadcastType DEF Next, HandlerStep, Tasks

\* Every variable of the hub has its type, for any clients, feeds and capacity;
\* above all no channel ever holds more than its capacity.
THEOREM TypeCorrect == Spec => []TypeOK
  BY TypeInit, TypeNext, PTL DEF Spec

-----------------------------------------------------------------------------
(* Announced changes                                                        *)

\* A message that tells the latest announced configuration, or a later one.
Current(m) == m.kind = "status" /\ m.cfg >= due

\* It is on its way to c: written, queued, the first status of c, or the
\* status that HandleWS of t broadcasts.
InHand(c) == writer[c] = "write" /\ Current(hand[c])
Queued(c) == \E i \in 1 .. Len(send[c]) : Current(send[c][i])
First(c)  == \/ pc[c] = "status" /\ c \notin served
             \/ pc[c] = "statusVol" /\ c \notin served /\ Current(out[c])
             \/ pc[c] = "first" /\ Current(out[c])
FromTask(t, c) ==
    \/ pc[t] = "status" /\ t \in served
    \/ pc[t] = "statusVol" /\ t \in served /\ Current(out[t])
    \/ pc[t] = "bcast" /\ Current(out[t])
    \/ pc[t] = "send" /\ c \in todo[t] /\ Current(out[t])

\* The stages at which a goroutine has a status to hand on.
Carrying == {"status", "statusVol", "first", "bcast", "send"}

Coming(c) ==
    \/ seen[c] >= due \/ InHand(c) \/ Queued(c) \/ First(c)
    \/ \E t \in Clients : FromTask(t, c)

Reading(c) == c \in clients /\ c \notin missed /\ writer[c] \in {"take", "write"}

ServedInv ==
    \A c \in Clients :
        /\ pc[c] \in {"new", "register"} => c \notin served
        /\ pc[c] \in {"read", "setVolume", "bcast", "send"} => c \in served

UpdateInv ==
    /\ due <= cfg
    /\ ServedInv
    /\ \A c \in Clients : Reading(c) => Coming(c)

LEMMA UpdateInit == Init => UpdateInv
  BY DEF Init, UpdateInv, ServedInv, Reading, Tasks

\* What writeLoop does leaves the statuses that HandleWS goroutines carry.
LEMMA TasksKept ==
  ASSUME UNCHANGED <<pc, out, todo, due, served>>, NEW d \in Clients,
         First(d) \/ \E t \in Clients : FromTask(t, d)
  PROVE  Coming(d)'
  <1>1. ASSUME NEW m PROVE Current(m)' = Current(m)
    BY DEF Current
  <1>2. CASE First(d)
    BY <1>1, <1>2 DEF First, Coming, Current
  <1>3. ASSUME NEW t \in Clients, FromTask(t, d) PROVE Coming(d)'
    BY <1>1, <1>3 DEF FromTask, Coming, Current
  <1> QED  BY <1>2, <1>3

\* Nor does what HandleWS does disturb what is queued and written.
LEMMA WritingKept ==
  ASSUME UNCHANGED <<send, writer, hand, seen, due>>, NEW d \in Clients,
         seen[d] >= due \/ InHand(d) \/ Queued(d)
  PROVE  Coming(d)'
  BY DEF InHand, Queued, Current, Coming

\* A step of c that carries no status, and takes none away.
LEMMA StepAside ==
  ASSUME TypeOK, UpdateInv, UNCHANGED <<out, todo, send, writer, hand, seen, missed, served, due>>,
         clients' \subseteq clients, due <= cfg', ServedInv',
         NEW c \in Clients,
         \A t \in Clients : pc'[t] = pc[t] \/ (t = c /\ pc[c] \notin Carrying)
  PROVE  UpdateInv'
  <1> SUFFICES ASSUME NEW d \in Clients, Reading(d)' PROVE Coming(d)'
    BY DEF UpdateInv
  <1>1. Coming(d)
    BY DEF UpdateInv, Reading
  <1>2. ASSUME NEW m PROVE Current(m)' = Current(m)
    BY DEF Current
  <1>3. CASE First(d)
    BY <1>2, <1>3 DEF First, Coming, Current, Carrying
  <1>4. ASSUME NEW t \in Clients, FromTask(t, d) PROVE Coming(d)'
    BY <1>2, <1>4 DEF FromTask, Coming, Current, Carrying
  <1> QED  BY <1>1, <1>3, <1>4, WritingKept DEF Coming

LEMMA ClientUpdate ==
  ASSUME TypeOK, UpdateInv, NEW c \in Clients,
         \/ Connect(c) \/ WaitForReaders(c) \/ Register(c) \/ SetVolume(c)
         \/ SendStatus(c) \/ Cleanup(c) \/ Command(c) \/ LoseConn(c)
         \/ TakeMessage(c) \/ EndWriter(c) \/ WriteMessage(c) \/ WriteFails(c)
  PROVE  UpdateInv'
  <1> ServedInv /\ due <= cfg /\ cfg \in Nat /\ due \in Nat /\ pc \in [Tasks -> Stages]
    BY DEF TypeOK, UpdateInv
  <1>1. CASE Connect(c)
    <2>1. /\ \A t \in Clients : pc'[t] = pc[t] \/ (t = c /\ pc[c] \notin Carrying)
          /\ ServedInv'
      BY <1>1 DEF Connect, Step, ServedInv, Carrying, Tasks
    <2> QED  BY <1>1, <2>1, StepAside DEF Connect
  <1>2. CASE WaitForReaders(c)
    <2>1. ServedInv'
      BY <1>2 DEF WaitForReaders, ServedInv
    <2> QED  BY <1>2, <2>1, StepAside DEF WaitForReaders
  <1>8. CASE ReadError(c)
    <2>1. /\ \A t \in Clients : pc'[t] = pc[t] \/ (t = c /\ pc[c] \notin Carrying)
          /\ ServedInv'
      BY <1>8 DEF ReadError, Step, ServedInv, Carrying, Tasks
    <2> QED  BY <1>8, <2>1, StepAside DEF ReadError
  <1>9. CASE Unregister(c)
    <2>1. /\ \A t \in Clients : pc'[t] = pc[t] \/ (t = c /\ pc[c] \notin Carrying)
          /\ ServedInv'
      BY <1>9 DEF Unregister, Step, ServedInv, Carrying, Tasks
    <2> QED  BY <1>9, <2>1, StepAside DEF Unregister
  <1>10. CASE CloseClient(c)
    <2>1. /\ \A t \in Clients : pc'[t] = pc[t] \/ (t = c /\ pc[c] \notin Carrying)
          /\ ServedInv'
      BY <1>10 DEF CloseClient, Step, ServedInv, Carrying, Tasks
    <2> QED  BY <1>10, <2>1, StepAside DEF CloseClient
  <1>12. CASE Tune(c)
    <2>1. ServedInv'
      BY <1>12 DEF Tune, ServedInv
    <2> QED  BY <1>12, <2>1, StepAside DEF Tune
  <1>14. CASE LoseConn(c)
    <2>1. ServedInv'
      BY <1>14 DEF LoseConn, ServedInv
    <2> QED  BY <1>14, <2>1, StepAside DEF LoseConn
  <1> USE DEF TypeOK, Tasks, LockStages
  <1> USE DEF UpdateInv, ServedInv, Reading, Coming, InHand, Queued, First, FromTask, Current
  <1>3. CASE Register(c)
    <2>1. due' <= cfg' /\ ServedInv'
      BY <1>3 DEF Register, Step
    <2>2. First(c)'
      BY <1>3 DEF Register, Step
    <2>3. ASSUME NEW d \in Clients, d # c, Reading(d)' PROVE Coming(d)'
      <3>1. Reading(d) /\ Coming(d)
        <4>1. Reading(d)
          BY <1>3, <2>3 DEF Register
        <4> QED  BY <4>1
      <3>2. CASE seen[d] >= due \/ InHand(d) \/ Queued(d)
        BY <1>3, <2>3, <3>2 DEF Register
      <3>3. CASE First(d)
        BY <1>3, <2>3, <3>3 DEF Register, Step
      <3>4. ASSUME NEW t \in Clients, FromTask(t, d) PROVE Coming(d)'
        BY <1>3, <3>4 DEF Register, Step
      <3> QED  BY <3>1, <3>2, <3>3, <3>4
    <2> QED  BY <2>1, <2>2, <2>3
  <1>4. CASE SetVolume(c)
    BY <1>4 DEF SetVolume, Step
  <1>5. CASE ReadConfig(c)
    <2>1. ServedInv' /\ cfg' = cfg /\ due' = due
      BY <1>5 DEF ReadConfig, Step
    <2>2. /\ out'[c].kind = "status" /\ out'[c].cfg = cfg
          /\ \A t \in Clients \ {c} : out'[t] = out[t] /\ pc'[t] = pc[t]
      BY <1>5 DEF ReadConfig, Step, Status
    <2>3. pc[c] = "status" /\ pc'[c] = "statusVol"
      BY <1>5 DEF ReadConfig, Step
    <2>4. ASSUME NEW d \in Clients, Reading(d)' PROVE Coming(d)'
      <3>1. Reading(d) /\ Coming(d)
        <4>1. Reading(d)
          BY <1>5, <2>4 DEF ReadConfig
        <4> QED  BY <4>1
      <3>2. CASE seen[d] >= due \/ InHand(d) \/ Queued(d)
        BY <1>5, <3>2, WritingKept DEF ReadConfig
      <3>3. CASE First(d)
        BY <1>5, <2>1, <2>2, <2>3, <3>3 DEF ReadConfig
      <3>4. ASSUME NEW t \in Clients, FromTask(t, d) PROVE Coming(d)'
        <4>1. CASE t # c
          <5>1. out'[t] = out[t] /\ pc'[t] = pc[t] /\ due' = due
            BY <2>1, <2>2, <4>1
          <5>2. served' = served /\ todo' = todo
            BY <1>5 DEF ReadConfig
          <5>3. FromTask(t, d)'
            BY <5>1, <5>2, <3>4
          <5> QED  BY <5>3
        <4>2. CASE t = c
          BY <2>1, <2>2, <2>3, <3>4, <4>2, <1>5 DEF ReadConfig
        <4> QED  BY <4>1, <4>2
      <3> QED  BY <3>1, <3>2, <3>3, <3>4
    <2> QED  BY <2>1, <2>4
  <1>6. CASE ReadVolume(c)
    <2>1. due' <= cfg' /\ ServedInv'
      BY <1>6 DEF ReadVolume, Step
    <2>2. ASSUME NEW d \in Clients, Reading(d)' PROVE Coming(d)'
      <3>1. Reading(d) /\ Coming(d)
        <4>1. Reading(d)
          BY <1>6, <2>2 DEF ReadVolume
        <4> QED  BY <4>1
      <3>2. CASE seen[d] >= due \/ InHand(d) \/ Queued(d)
        BY <1>6, <3>2, WritingKept DEF ReadVolume
      <3>5. /\ out'[c].kind = out[c].kind /\ out'[c].cfg = out[c].cfg
            /\ \A t \in Clients \ {c} : out'[t] = out[t]
        <4>1. out' = [out EXCEPT ![c] = [out[c] EXCEPT !.vol = ReportedVolume(vol)]]
          BY <1>6 DEF ReadVolume
        <4>2. out[c] \in Messages
          OBVIOUS
        <4> QED  BY <4>1, <4>2 DEF Messages
      <3>3. CASE First(d)
        BY <1>6, <3>3, <3>5 DEF ReadVolume, Step
      <3>4. ASSUME NEW t \in Clients, FromTask(t, d) PROVE Coming(d)'
        BY <1>6, <3>4, <3>5 DEF ReadVolume, Step
      <3> QED  BY <3>1, <3>2, <3>3, <3>4
    <2> QED  BY <2>1, <2>2
  <1>7. CASE QueueFirst(c)
    <2>1. due' <= cfg' /\ ServedInv'
      BY <1>7 DEF QueueFirst, Step
    <2>2. ASSUME NEW d \in Clients, Reading(d)' PROVE Coming(d)'
      <3>1. Reading(d) /\ Coming(d)
        <4>1. Reading(d)
          BY <1>7, <2>2 DEF QueueFirst
        <4> QED  BY <4>1
      <3>2. /\ Len(send'[c]) = Len(send[c]) + 1 /\ send'[c][Len(send[c]) + 1] = out[c]
            /\ \A i \in 1 .. Len(send[c]) : send'[c][i] = send[c][i]
            /\ \A e \in Clients \ {c} : send'[e] = send[e]
        BY <1>7 DEF QueueFirst
      <3>3. CASE seen[d] >= due \/ InHand(d)
        BY <1>7, <3>3 DEF QueueFirst
      <3>4. CASE Queued(d)
        BY <1>7, <3>2, <3>4 DEF QueueFirst
      <3>5. CASE First(d) /\ d = c
        BY <1>7, <3>2, <3>5 DEF QueueFirst, Step
      <3>6. CASE First(d) /\ d # c
        BY <1>7, <3>6 DEF QueueFirst, Step
      <3>7. ASSUME NEW t \in Clients, FromTask(t, d) PROVE Coming(d)'
        BY <1>7, <3>7 DEF QueueFirst, Step
      <3> QED  BY <3>1, <3>3, <3>4, <3>5, <3>6, <3>7
    <2> QED  BY <2>1, <2>2
  <1>11. CASE SetConfig(c)
    BY <1>11 DEF SetConfig, Step
  <1>13. CASE ReadVolumeCmd(c)
    <2>1. due' <= cfg' /\ ServedInv'
      BY <1>13 DEF ReadVolumeCmd, Step
    <2>2. ASSUME NEW d \in Clients, Reading(d)' PROVE Coming(d)'
      <3>1. Reading(d) /\ Coming(d)
        <4>1. Reading(d)
          BY <1>13, <2>2 DEF ReadVolumeCmd
        <4> QED  BY <4>1
      <3>2. CASE seen[d] >= due \/ InHand(d) \/ Queued(d)
        BY <1>13, <3>2, WritingKept DEF ReadVolumeCmd
      <3>3. CASE First(d)
        BY <1>13, <3>3 DEF ReadVolumeCmd, Step
      <3>4. ASSUME NEW t \in Clients, FromTask(t, d) PROVE Coming(d)'
        BY <1>13, <3>4 DEF ReadVolumeCmd, Step
      <3> QED  BY <3>1, <3>2, <3>3, <3>4
    <2> QED  BY <2>1, <2>2
  <1>15. CASE TakeMessage(c)
    <2>1. due' <= cfg' /\ ServedInv'
      BY <1>15 DEF TakeMessage
    <2>2. ASSUME NEW d \in Clients, Reading(d)' PROVE Coming(d)'
      <3>1. Reading(d) /\ Coming(d)
        <4>1. Reading(d)
          BY <1>15, <2>2 DEF TakeMessage, WriterStep
        <4> QED  BY <4>1
      <3>2. CASE First(d) \/ \E t \in Clients : FromTask(t, d)
        BY <1>15, <3>2, TasksKept DEF TakeMessage
      <3>3. CASE seen[d] >= due
        BY <1>15, <3>3 DEF TakeMessage
      <3>4. CASE InHand(d)
        BY <1>15, <3>4 DEF TakeMessage, WriterStep
      <3>5. ASSUME NEW i \in 1 .. Len(send[d]), Current(send[d][i]) PROVE Coming(d)'
        <4>1. CASE d # c
          BY <1>15, <3>5, <4>1 DEF TakeMessage
        <4>2. CASE d = c /\ i = 1
          <5>1. hand'[c] = send[c][1] /\ writer'[c] = "write" /\ due' = due
            BY <1>15 DEF TakeMessage, WriterStep
          <5>2. Current(send[c][1])
            BY <3>5, <4>2
          <5>3. InHand(d)'
            BY <4>2, <5>1, <5>2
          <5> QED  BY <5>3
        <4>3. CASE d = c /\ i > 1
          <5>1. Len(Tail(send[c])) = Len(send[c]) - 1 /\ Tail(send[c])[i - 1] = send[c][i]
            <6>1. send[c] \in Seq(Messages)
              OBVIOUS
            <6> HIDE DEF TypeOK, UpdateInv
            <6> QED  BY <6>1, <3>5, <4>3
          <5>2. send'[c] = Tail(send[c]) /\ due' = due
            BY <1>15 DEF TakeMessage
          <5>3. i - 1 \in 1 .. Len(send'[c]) /\ Current(send[c][i - 1])'
            BY <3>5, <4>3, <5>1, <5>2
          <5> QED  BY <4>3, <5>3
        <4> QED  BY <4>1, <4>2, <4>3
      <3> QED  BY <3>1, <3>2, <3>3, <3>4, <3>5
    <2> QED  BY <2>1, <2>2
  <1>16. CASE EndWriter(c)
    <2>1. due' <= cfg' /\ ServedInv'
      BY <1>16 DEF EndWriter
    <2>2. ASSUME NEW d \in Clients, Reading(d)' PROVE Coming(d)'
      <3>1. Reading(d) /\ Coming(d)
        <4>1. Reading(d)
          BY <1>16, <2>2 DEF EndWriter, WriterStep
        <4> QED  BY <4>1
      <3>2. CASE First(d) \/ \E t \in Clients : FromTask(t, d)
        BY <1>16, <3>2, TasksKept DEF EndWriter
      <3>3. CASE seen[d] >= due
        BY <1>16, <3>3 DEF EndWriter
      <3>4. CASE InHand(d) \/ Queued(d)
        BY <1>16, <2>2, <3>4 DEF EndWriter, WriterStep
      <3> QED  BY <3>1, <3>2, <3>3, <3>4
    <2> QED  BY <2>1, <2>2
  <1>17. CASE WriteMessage(c)
    <2>1. due' <= cfg' /\ ServedInv'
      BY <1>17 DEF WriteMessage
    <2>2. ASSUME NEW d \in Clients, Reading(d)' PROVE Coming(d)'
      <3>1. Reading(d) /\ Coming(d)
        <4>1. Reading(d)
          BY <1>17, <2>2 DEF WriteMessage, WriterStep
        <4> QED  BY <4>1
      <3>2. CASE First(d) \/ \E t \in Clients : FromTask(t, d)
        BY <1>17, <3>2, TasksKept DEF WriteMessage
      <3>3. hand[c].cfg \in 0 .. MaxCmds
        BY FieldTypes
      <3>4. CASE seen[d] >= due
        BY <1>17, <3>3, <3>4 DEF WriteMessage
      <3>5. CASE InHand(d) /\ d = c
        BY <1>17, <3>3, <3>5 DEF WriteMessage
      <3>6. CASE InHand(d) /\ d # c
        BY <1>17, <3>6 DEF WriteMessage, WriterStep
      <3>7. CASE Queued(d)
        BY <1>17, <3>7 DEF WriteMessage
      <3> QED  BY <3>1, <3>2, <3>4, <3>5, <3>6, <3>7
    <2> QED  BY <2>1, <2>2
  <1>18. CASE WriteFails(c)
    <2>1. due' <= cfg' /\ ServedInv'
      BY <1>18 DEF WriteFails
    <2>2. ASSUME NEW d \in Clients, Reading(d)' PROVE Coming(d)'
      <3>1. Reading(d) /\ Coming(d)
        <4>1. Reading(d)
          BY <1>18, <2>2 DEF WriteFails, WriterStep
        <4> QED  BY <4>1
      <3>2. CASE First(d) \/ \E t \in Clients : FromTask(t, d)
        BY <1>18, <3>2, TasksKept DEF WriteFails
      <3>3. CASE seen[d] >= due
        BY <1>18, <3>3 DEF WriteFails
      <3>4. CASE InHand(d) \/ Queued(d)
        BY <1>18, <2>2, <3>4 DEF WriteFails, WriterStep
      <3> QED  BY <3>1, <3>2, <3>3, <3>4
    <2> QED  BY <2>1, <2>2
  <1> QED  BY <1>1, <1>2, <1>3, <1>4, <1>5, <1>6, <1>7,
              <1>8, <1>9, <1>10, <1>11, <1>12, <1>13,
              <1>14, <1>15, <1>16, <1>17, <1>18
           DEF SendStatus, Cleanup, Command

LEMMA BroadcastUpdate ==
  ASSUME TypeOK, UpdateInv, NEW t \in Tasks, Broadcast(t)
  PROVE  UpdateInv'
  <1> USE DEF TypeOK, Tasks
  <1> USE DEF UpdateInv, ServedInv, Reading, Coming, InHand, Queued, First, FromTask, Current
  <1>1. CASE BeginBroadcast(t)
    <2>1. due' <= cfg' /\ ServedInv'
      BY <1>1 DEF BeginBroadcast, Step
    <2>2. ASSUME NEW d \in Clients, Reading(d)' PROVE Coming(d)'
      <3>1. Reading(d) /\ Coming(d)
        <4>1. Reading(d)
          BY <1>1, <2>2 DEF BeginBroadcast
        <4> QED  BY <4>1
      <3>2. CASE seen[d] >= due \/ InHand(d) \/ Queued(d)
        BY <1>1, <3>2, WritingKept DEF BeginBroadcast
      <3>3. CASE First(d)
        BY <1>1, <3>3 DEF BeginBroadcast, Step
      <3>4. ASSUME NEW u \in Clients, FromTask(u, d) PROVE Coming(d)'
        <4>1. CASE u # t
          BY <1>1, <3>4, <4>1 DEF BeginBroadcast, Step
        <4>2. CASE u = t
          BY <1>1, <2>2, <3>4, <4>2 DEF BeginBroadcast, Step
        <4> QED  BY <4>1, <4>2
      <3> QED  BY <3>1, <3>2, <3>3, <3>4
    <2> QED  BY <2>1, <2>2
  <1>2. ASSUME NEW c \in Clients, BroadcastTo(t, c) PROVE UpdateInv'
    <2>1. due' <= cfg' /\ ServedInv'
      BY <1>2 DEF BroadcastTo
    <2>2. ASSUME NEW d \in Clients, Reading(d)' PROVE Coming(d)'
      <3>1. Reading(d) /\ Coming(d)
        <4>1. Reading(d)
          BY <1>2, <2>2 DEF BroadcastTo
        <4> QED  BY <4>1
      <3>2. CASE seen[d] >= due \/ InHand(d)
        BY <1>2, <3>2 DEF BroadcastTo
      <3>3. Queued(d) => Queued(d)'
        <4>1. CASE send' = send
          BY <1>2, <4>1 DEF BroadcastTo
        <4>2. CASE send' = [send EXCEPT ![c] = Append(@, out[t])]
          <5>1. \A i \in 1 .. Len(send[d]) : i \in 1 .. Len(send'[d]) /\ send'[d][i] = send[d][i]
            BY <4>2
          <5> QED  BY <1>2, <5>1 DEF BroadcastTo
        <4> QED  BY <1>2, <4>1, <4>2 DEF BroadcastTo
      <3>4. CASE First(d)
        BY <1>2, <3>4 DEF BroadcastTo
      <3>5. ASSUME NEW u \in Clients, FromTask(u, d) PROVE Coming(d)'
        <4>1. CASE u # t \/ d # c
          BY <1>2, <3>5, <4>1 DEF BroadcastTo
        <4>2. CASE u = t /\ d = c /\ send' = [send EXCEPT ![c] = Append(@, out[t])]
          <5>1. Len(send'[c]) = Len(send[c]) + 1 /\ send'[c][Len(send[c]) + 1] = out[t]
            BY <4>2
          <5> QED  BY <1>2, <3>5, <4>2, <5>1 DEF BroadcastTo
        <4>3. CASE u = t /\ d = c /\ missed' = IF out[t].kind = "status" THEN missed \cup {c} ELSE missed
          BY <1>2, <2>2, <3>5, <4>3 DEF BroadcastTo
        <4> QED  BY <1>2, <4>1, <4>2, <4>3 DEF BroadcastTo
      <3> QED  BY <3>1, <3>2, <3>3, <3>4, <3>5
    <2> QED  BY <2>1, <2>2
  <1>3. CASE EndBroadcast(t)
    <2>1. due' <= cfg' /\ ServedInv'
      BY <1>3 DEF EndBroadcast, Step
    <2>2. ASSUME NEW d \in Clients, Reading(d)' PROVE Coming(d)'
      <3>1. Reading(d) /\ Coming(d)
        <4>1. Reading(d)
          BY <1>3, <2>2 DEF EndBroadcast
        <4> QED  BY <4>1
      <3>2. CASE seen[d] >= due \/ InHand(d) \/ Queued(d)
        BY <1>3, <3>2, WritingKept DEF EndBroadcast
      <3>3. CASE First(d)
        BY <1>3, <3>3 DEF EndBroadcast, Step
      <3>4. ASSUME NEW u \in Clients, FromTask(u, d) PROVE Coming(d)'
        <4>1. CASE u # t
          BY <1>3, <3>4, <4>1 DEF EndBroadcast, Step
        <4>2. CASE u = t
          BY <1>3, <3>4, <4>2 DEF EndBroadcast, Step
        <4> QED  BY <4>1, <4>2
      <3> QED  BY <3>1, <3>2, <3>3, <3>4
    <2> QED  BY <2>1, <2>2
  <1> QED  BY <1>1, <1>2, <1>3 DEF Broadcast

LEMMA UpdateNext == TypeOK /\ UpdateInv /\ [Next]_vars => UpdateInv'
  <1> SUFFICES ASSUME TypeOK, UpdateInv, [Next]_vars PROVE UpdateInv'
    OBVIOUS
  <1>1. CASE UNCHANGED vars
    BY <1>1 DEF vars, UpdateInv, ServedInv, Reading, Coming, InHand, Queued, First, FromTask, Current
  <1>2. ASSUME NEW f \in Feeds, TakeFrame(f) PROVE UpdateInv'
    <2>1. \A c \in Clients : pc'[c] = pc[c]
      BY <1>2 DEF TakeFrame, Step, TypeOK, Tasks
    <2>2. due' <= cfg' /\ ServedInv'
      BY <1>2, <2>1 DEF TakeFrame, UpdateInv, ServedInv
    <2>3. ASSUME NEW d \in Clients, Reading(d)' PROVE Coming(d)'
      <3>1. Reading(d) /\ Coming(d)
        BY <1>2, <2>3 DEF TakeFrame, Reading, UpdateInv
      <3>2. CASE seen[d] >= due \/ InHand(d) \/ Queued(d)
        BY <1>2, <3>2, WritingKept DEF TakeFrame
      <3>3. CASE First(d)
        BY <1>2, <2>1, <3>3 DEF TakeFrame, First, Coming, Current
      <3>4. ASSUME NEW t \in Clients, FromTask(t, d) PROVE Coming(d)'
        BY <1>2, <2>1, <3>4 DEF TakeFrame, FromTask, Coming, Current
      <3> QED  BY <3>1, <3>2, <3>3, <3>4 DEF Coming
    <2> QED  BY <2>2, <2>3 DEF UpdateInv
  <1> QED  BY <1>1, <1>2, ClientUpdate, BroadcastUpdate DEF Next, HandlerStep, Tasks

\* However commands, connections and broadcasts interleave, a client that keeps
\* up is told every announced change, also one that is registered while the
\* status is broadcast to those before it.
THEOREM EveryChangeTold == Spec => []NoUpdateMissed
  <1>1. TypeOK /\ UpdateInv => NoUpdateMissed
    <2> SUFFICES ASSUME TypeOK, UpdateInv, Quiet,
                        NEW c \in Clients, CaughtUp(c), c \notin missed
                 PROVE  seen[c] >= due
      BY DEF NoUpdateMissed
    <2>1. Coming(c)
      BY DEF UpdateInv, Reading, CaughtUp
    <2>2. ~InHand(c) /\ ~First(c)
      BY DEF CaughtUp, InHand, First
    <2>3. ~Queued(c)
      BY DEF CaughtUp, Queued, Current, TypeOK
    <2>4. \A t \in Clients : ~FromTask(t, c)
      BY DEF Quiet, FromTask
    <2> QED  BY <2>1, <2>2, <2>3, <2>4 DEF Coming
  <1> QED  BY <1>1, TypeInit, TypeNext, UpdateInit, UpdateNext, PTL DEF Spec
=============================================================================
