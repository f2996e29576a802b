---------------------------- MODULE SessionProofs ----------------------------
(* What the TLA+ proof system proves of Session, for any channels, adapters, *)
(* keys and error limit.                                                     *)
EXTENDS Session, TLAPS

-----------------------------------------------------------------------------
(* Types. *)

\* Each part of the type invariant is about one group of variables.
LEMMA Same ==
  /\ TypeCtx /\ UNCHANGED ctxVars => TypeCtx'
  /\ TypeBox /\ UNCHANGED boxVars => TypeBox'
  /\ TypeDev /\ UNCHANGED devVars => TypeDev'
  /\ TypeSup /\ UNCHANGED supVars => TypeSup'
  /\ TypeCap /\ UNCHANGED capVars => TypeCap'
  /\ TypeSrv /\ UNCHANGED srvVars => TypeSrv'
  /\ TypeAsked /\ UNCHANGED asked => TypeAsked'
<1>1. TypeCtx /\ UNCHANGED ctxVars => TypeCtx'
  BY DEF TypeCtx, ctxVars
<1>2. TypeBox /\ UNCHANGED boxVars => TypeBox'
  BY DEF TypeBox, boxVars
<1>3. TypeDev /\ UNCHANGED devVars => TypeDev'
  BY DEF TypeDev, devVars
<1>4. TypeSup /\ UNCHANGED supVars => TypeSup'
  BY DEF TypeSup, supVars, runVars
<1>5. TypeCap /\ UNCHANGED capVars => TypeCap'
  BY DEF TypeCap, capVars
<1>6. TypeSrv /\ UNCHANGED srvVars => TypeSrv'
  BY DEF TypeSrv, srvVars
<1>7. TypeAsked /\ UNCHANGED asked => TypeAsked'
  BY DEF TypeAsked
<1> QED
  BY <1>1, <1>2, <1>3, <1>4, <1>5, <1>6, <1>7

\* What main() starts with is well typed.
LEMMA TypeInit == Init => TypeOK
<1> SUFFICES ASSUME Init PROVE TypeOK
  OBVIOUS
<1> USE SessionAssumption DEF SessionAssumption, Init
<1>1. TypeCtx /\ TypeSup /\ TypeAsked
  BY DEF TypeCtx, SessionStates, TypeSup, SupPcs, TypeAsked
<1>2. TypeBox
  BY DEF TypeBox
<1>3. TypeDev
  BY DEF TypeDev, UsbClosed
<1>4. TypeCap
  <2>1. joinable \in BOOLEAN /\ capPc \in CapPcs /\ capChannel = NoChannel
    BY DEF CapPcs
  <2>2. usbErrors \in 0..MaxUsbErrors /\ usbErrors < MaxUsbErrors
    OBVIOUS
  <2> QED
    BY <2>1, <2>2 DEF TypeCap
<1>5. TypeSrv
  BY DEF TypeSrv, SrvPcs, Patches, NoPatch
<1> QED
  BY <1>1, <1>2, <1>3, <1>4, <1>5 DEF TypeOK

\* The libusb steps of Start.
LEMMA TypeHandles ==
  ASSUME TypeDev, NEW pc
  PROVE  /\ \A h \in {"ctx", "dev", "claimed"} : Acquire(h, pc) => TypeDev'
         /\ StartFails => TypeDev'
<1>1. ASSUME NEW h \in {"ctx", "dev", "claimed"}, Acquire(h, pc)
      PROVE  TypeDev'
  BY <1>1 DEF Acquire, TypeDev
<1>2. ASSUME StartFails PROVE TypeDev'
  BY <1>2 DEF StartFails, TypeDev, UsbClosed
<1> QED
  BY <1>1, <1>2

\* Every step of the supervisor keeps the types.
LEMMA TypeSupervisor == TypeOK /\ Supervisor => TypeOK'
<1> SUFFICES ASSUME TypeOK, Supervisor PROVE TypeOK'
  OBVIOUS
<1> USE DEF TypeOK
<1>1. CASE Boot
  <2>1. TypeBox'
    BY <1>1, SessionAssumption DEF SessionAssumption, Boot, TypeBox, boxVars,
          Configs
  <2>2. TypeSup'
    BY <1>1, SessionAssumption DEF SessionAssumption, Boot, TypeSup, runVars,
          SupPcs
  <2>3. TypeAsked'
    BY <1>1, SessionAssumption DEF SessionAssumption, Boot, TypeAsked
  <2> QED
    BY <1>1, <2>1, <2>2, <2>3, Same DEF Boot, TypeOK
<1>2. CASE LoopTop
  <2>1. TypeSup'
    BY <1>2, SessionAssumption DEF SessionAssumption, LoopTop, TypeSup,
          runVars, SupPcs
  <2> QED
    BY <1>2, <2>1, Same DEF LoopTop, TypeOK
<1>3. CASE Reap
  <2>1. TypeSup'
    BY <1>3, SessionAssumption DEF SessionAssumption, Reap, Goto, TypeSup,
          runVars, SupPcs
  <2> QED
    BY <1>3, <2>1, Same DEF Reap, Goto, TypeOK
<1>4. CASE Join
  <2>1. TypeSup'
    BY <1>4, SessionAssumption DEF SessionAssumption, Join, TypeSup, runVars,
          SupPcs
  <2>2. TypeCap'
    BY <1>4, SessionAssumption DEF SessionAssumption, Join, TypeCap, capVars,
          CapPcs, Listening
  <2> QED
    BY <1>4, <2>1, <2>2, Same DEF Join, TypeOK
<1>5. CASE Unflag
  <2>1. TypeCtx'
    BY <1>5, SessionAssumption DEF SessionAssumption, Unflag, TypeCtx,
          ctxVars, SessionStates
  <2>2. TypeSup'
    BY <1>5, SessionAssumption DEF SessionAssumption, Unflag, TypeSup,
          runVars, SupPcs
  <2> QED
    BY <1>5, <2>1, <2>2, Same DEF Unflag, TypeOK
<1>6. CASE TakeStop
  <2>1. TypeBox'
    BY <1>6, SessionAssumption DEF SessionAssumption, TakeStop, TypeBox,
          boxVars, Configs
  <2>2. TypeSup'
    BY <1>6, SessionAssumption DEF SessionAssumption, TakeStop, TypeSup,
          runVars, SupPcs
  <2> QED
    BY <1>6, <2>1, <2>2, Same DEF TakeStop, TypeOK
<1>7. CASE StopLoad
  <2>1. TypeSup'
    BY <1>7, SessionAssumption DEF SessionAssumption, StopLoad, Goto, TypeSup,
          runVars, SupPcs
  <2> QED
    BY <1>7, <2>1, Same DEF StopLoad, Goto, TypeOK
<1>8. CASE StopStore
  <2>1. TypeCtx'
    BY <1>8, SessionAssumption DEF SessionAssumption, StopStore, TypeCtx,
          ctxVars, SessionStates
  <2>2. TypeSup'
    BY <1>8, SessionAssumption DEF SessionAssumption, StopStore, TypeSup,
          runVars, SupPcs
  <2> QED
    BY <1>8, <2>1, <2>2, Same DEF StopStore, TypeOK
<1>9. CASE StopFlag
  <2>1. TypeCtx'
    BY <1>9, SessionAssumption DEF SessionAssumption, StopFlag, TypeCtx,
          ctxVars, SessionStates
  <2>2. TypeSup'
    BY <1>9, SessionAssumption DEF SessionAssumption, StopFlag, TypeSup,
          runVars, SupPcs
  <2> QED
    BY <1>9, <2>1, <2>2, Same DEF StopFlag, TypeOK
<1>10. CASE TakeStart
  <2>1. TypeBox'
    BY <1>10, SessionAssumption DEF SessionAssumption, TakeStart, TypeBox,
          boxVars, Configs
  <2>2. TypeSup'
    BY <1>10, SessionAssumption DEF SessionAssumption, TakeStart, TypeSup,
          runVars, SupPcs
  <2> QED
    BY <1>10, <2>1, <2>2, Same DEF TakeStart, TypeOK
<1>11. CASE StartReady
  <2>1. TypeSup'
    BY <1>11, SessionAssumption DEF SessionAssumption, StartReady, Goto,
          TypeSup, runVars, SupPcs
  <2> QED
    BY <1>11, <2>1, Same DEF StartReady, Goto, TypeOK
<1>12. CASE Restage
  <2>1. TypeBox'
    BY <1>12, SessionAssumption DEF SessionAssumption, Restage, TypeBox,
          boxVars, Configs
  <2>2. TypeSup'
    BY <1>12, SessionAssumption DEF SessionAssumption, Restage, TypeSup,
          runVars, SupPcs
  <2> QED
    BY <1>12, <2>1, <2>2, Same DEF Restage, TypeOK
<1>13. CASE StartConfig
  <2>1. TypeCtx'
    BY <1>13, SessionAssumption DEF SessionAssumption, StartConfig, TypeCtx,
          ctxVars, SessionStates
  <2>2. TypeSup'
    BY <1>13, SessionAssumption DEF SessionAssumption, StartConfig, TypeSup,
          runVars, SupPcs, TypeBox, Configs
  <2> QED
    BY <1>13, <2>1, <2>2, Same DEF StartConfig, TypeOK
<1>14. CASE StartGuard
  <2>1. TypeCtx'
    BY <1>14, SessionAssumption DEF SessionAssumption, StartGuard, TypeCtx,
          ctxVars, SessionStates
  <2>2. TypeSup'
    BY <1>14, SessionAssumption DEF SessionAssumption, StartGuard, TypeSup,
          runVars, SupPcs
  <2> QED
    BY <1>14, <2>1, <2>2, Same DEF StartGuard, TypeOK
<1>15. CASE StartReset
  <2>1. TypeCtx'
    BY <1>15, SessionAssumption DEF SessionAssumption, StartReset, TypeCtx,
          ctxVars, SessionStates
  <2>2. TypeBox'
    BY <1>15, SessionAssumption DEF SessionAssumption, StartReset, TypeBox,
          boxVars, Configs
  <2>3. TypeSup'
    BY <1>15, SessionAssumption DEF SessionAssumption, StartReset, TypeSup,
          runVars, SupPcs
  <2>4. TypeAsked'
    BY <1>15, SessionAssumption DEF SessionAssumption, StartReset, TypeAsked,
          TypeSup
  <2> QED
    BY <1>15, <2>1, <2>2, <2>3, <2>4, Same DEF StartReset, TypeOK
<1>16. CASE UsbInit
  <2>1. TypeCtx'
    BY <1>16, SessionAssumption DEF SessionAssumption, UsbInit, Acquire,
          StartFails, TypeCtx, ctxVars, SessionStates
  <2>2. TypeDev'
    BY <1>16, TypeHandles DEF UsbInit
  <2>3. TypeSup'
    BY <1>16, SessionAssumption DEF SessionAssumption, UsbInit, Acquire,
          StartFails, TypeSup, runVars, SupPcs
  <2> QED
    BY <1>16, <2>1, <2>2, <2>3, Same DEF UsbInit, Acquire, StartFails, TypeOK
<1>17. CASE UsbOpen
  <2>1. TypeCtx'
    BY <1>17, SessionAssumption DEF SessionAssumption, UsbOpen, Acquire,
          StartFails, TypeCtx, ctxVars, SessionStates
  <2>2. TypeDev'
    BY <1>17, TypeHandles DEF UsbOpen
  <2>3. TypeSup'
    BY <1>17, SessionAssumption DEF SessionAssumption, UsbOpen, Acquire,
          StartFails, TypeSup, runVars, SupPcs
  <2> QED
    BY <1>17, <2>1, <2>2, <2>3, Same DEF UsbOpen, Acquire, StartFails, TypeOK
<1>18. CASE UsbClaim
  <2>1. TypeCtx'
    BY <1>18, SessionAssumption DEF SessionAssumption, UsbClaim, Acquire,
          StartFails, TypeCtx, ctxVars, SessionStates
  <2>2. TypeDev'
    BY <1>18, TypeHandles DEF UsbClaim
  <2>3. TypeSup'
    BY <1>18, SessionAssumption DEF SessionAssumption, UsbClaim, Acquire,
          StartFails, TypeSup, runVars, SupPcs
  <2> QED
    BY <1>18, <2>1, <2>2, <2>3, Same DEF UsbClaim, Acquire, StartFails, TypeOK
<1>19. CASE BuildAggregator
  <2>1. TypeCtx'
    BY <1>19, SessionAssumption DEF SessionAssumption, BuildAggregator,
          StartFails, TypeCtx, ctxVars, SessionStates
  <2>2. TypeDev'
    BY <1>19, TypeHandles DEF BuildAggregator, TypeDev
  <2>3. TypeSup'
    BY <1>19, SessionAssumption DEF SessionAssumption, BuildAggregator,
          StartFails, TypeSup, runVars, SupPcs
  <2> QED
    BY <1>19, <2>1, <2>2, <2>3, Same DEF BuildAggregator, StartFails, TypeOK
<1>20. CASE Publish
  <2>1. TypeCtx'
    BY <1>20, SessionAssumption DEF SessionAssumption, Publish, TypeCtx,
          ctxVars, SessionStates
  <2>2. TypeSup'
    BY <1>20, SessionAssumption DEF SessionAssumption, Publish, TypeSup,
          runVars, SupPcs
  <2> QED
    BY <1>20, <2>1, <2>2, Same DEF Publish, TypeOK
<1>21. CASE Spawn
  <2>1. TypeSup'
    BY <1>21, SessionAssumption DEF SessionAssumption, Spawn, TypeSup,
          runVars, SupPcs
  <2>2. TypeCap'
    BY <1>21, SessionAssumption DEF SessionAssumption, Spawn, TypeCap,
          capVars, CapPcs, Listening, TypeSup
  <2> QED
    BY <1>21, <2>1, <2>2, Same DEF Spawn, TypeOK
<1>22. CASE StopServer
  <2>1. TypeSup'
    BY <1>22, SessionAssumption DEF SessionAssumption, StopServer, Goto,
          TypeSup, runVars, SupPcs
  <2> QED
    BY <1>22, <2>1, Same DEF StopServer, Goto, TypeOK
<1>23. CASE Exit
  <2>1. TypeSup'
    BY <1>23, SessionAssumption DEF SessionAssumption, Exit, Goto, TypeSup,
          runVars, SupPcs
  <2> QED
    BY <1>23, <2>1, Same DEF Exit, Goto, TypeOK
<1> QED
  BY <1>1, <1>2, <1>3, <1>4, <1>5, <1>6, <1>7, <1>8, <1>9, <1>10, <1>11,
     <1>12, <1>13, <1>14, <1>15, <1>16, <1>17, <1>18, <1>19, <1>20, <1>21,
     <1>22, <1>23 DEF Supervisor

\* Every step of the capture thread keeps the types.
LEMMA TypeCapture == TypeOK /\ Capture => TypeOK'
<1> SUFFICES ASSUME TypeOK, Capture PROVE TypeOK'
  OBVIOUS
<1> USE DEF TypeOK
<1>1. CASE BringUp
  <2>1. TypeDev'
    BY <1>1, SessionAssumption DEF SessionAssumption, BringUp, TypeDev,
          devVars, UsbClosed, TypeCap
  <2>2. TypeCap'
    BY <1>1, SessionAssumption DEF SessionAssumption, BringUp, TypeCap,
          capVars, CapPcs, Listening
  <2> QED
    BY <1>1, <2>1, <2>2, Same DEF BringUp, TypeOK
<1>2. CASE LoopHead
  <2>1. TypeCap'
    BY <1>2, SessionAssumption DEF SessionAssumption, LoopHead, Move, TypeCap,
          capVars, CapPcs, Listening
  <2> QED
    BY <1>2, <2>1, Same DEF LoopHead, Move, TypeOK
<1>3. CASE ApplyTune
  <2>1. TypeBox'
    BY <1>3, SessionAssumption DEF SessionAssumption, ApplyTune, TypeBox,
          boxVars, Configs
  <2>2. TypeDev'
    BY <1>3, SessionAssumption DEF SessionAssumption, ApplyTune, TypeDev,
          devVars, UsbClosed, TypeBox
  <2>3. TypeCap'
    BY <1>3, SessionAssumption DEF SessionAssumption, ApplyTune, TypeCap,
          capVars, CapPcs, Listening
  <2> QED
    BY <1>3, <2>1, <2>2, <2>3, Same DEF ApplyTune, TypeOK
<1>4. CASE ApplyKey
  <2>1. TypeBox'
    BY <1>4, SessionAssumption DEF SessionAssumption, ApplyKey, TypeBox,
          boxVars, Configs
  <2>2. TypeDev'
    BY <1>4, SessionAssumption DEF SessionAssumption, ApplyKey, TypeDev,
          devVars, UsbClosed, TypeBox
  <2>3. TypeCap'
    BY <1>4, SessionAssumption DEF SessionAssumption, ApplyKey, TypeCap,
          capVars, CapPcs, Listening
  <2> QED
    BY <1>4, <2>1, <2>2, <2>3, Same DEF ApplyKey, TypeOK
<1>5. CASE KeyFailed
  <2>1. TypeCtx'
    BY <1>5, SessionAssumption DEF SessionAssumption, KeyFailed, TypeCtx,
          ctxVars, SessionStates
  <2>2. TypeCap'
    BY <1>5, SessionAssumption DEF SessionAssumption, KeyFailed, TypeCap,
          capVars, CapPcs, Listening
  <2> QED
    BY <1>5, <2>1, <2>2, Same DEF KeyFailed, TypeOK
<1>6. CASE ReadOnce
  <2>1. TypeCap'
    BY <1>6, SessionAssumption DEF SessionAssumption, ReadOnce, TypeCap,
          capVars, CapPcs, Listening
  <2> QED
    BY <1>6, <2>1, Same DEF ReadOnce, TypeOK
<1>7. CASE Fault
  <2>1. TypeCtx'
    BY <1>7, SessionAssumption DEF SessionAssumption, Fault, TypeCtx, ctxVars,
          SessionStates
  <2>2. TypeCap'
    BY <1>7, SessionAssumption DEF SessionAssumption, Fault, TypeCap, capVars,
          CapPcs, Listening
  <2> QED
    BY <1>7, <2>1, <2>2, Same DEF Fault, TypeOK
<1>8. CASE Release
  <2>1. TypeDev'
    BY <1>8, SessionAssumption DEF SessionAssumption, Release, TypeDev,
          devVars, UsbClosed
  <2>2. TypeCap'
    BY <1>8, SessionAssumption DEF SessionAssumption, Release, TypeCap,
          capVars, CapPcs, Listening
  <2> QED
    BY <1>8, <2>1, <2>2, Same DEF Release, TypeOK
<1>9. CASE FinalLoad
  <2>1. TypeCap'
    BY <1>9, SessionAssumption DEF SessionAssumption, FinalLoad, Move,
          TypeCap, capVars, CapPcs, Listening
  <2> QED
    BY <1>9, <2>1, Same DEF FinalLoad, Move, TypeOK
<1>10. CASE ToIdle
  <2>1. TypeCtx'
    BY <1>10, SessionAssumption DEF SessionAssumption, ToIdle, TypeCtx,
          ctxVars, SessionStates
  <2>2. TypeCap'
    BY <1>10, SessionAssumption DEF SessionAssumption, ToIdle, TypeCap,
          capVars, CapPcs, Listening
  <2> QED
    BY <1>10, <2>1, <2>2, Same DEF ToIdle, TypeOK
<1>11. CASE Finish
  <2>1. TypeCtx'
    BY <1>11, SessionAssumption DEF SessionAssumption, Finish, TypeCtx,
          ctxVars, SessionStates
  <2>2. TypeCap'
    BY <1>11, SessionAssumption DEF SessionAssumption, Finish, TypeCap,
          capVars, CapPcs, Listening
  <2> QED
    BY <1>11, <2>1, <2>2, Same DEF Finish, TypeOK
<1> QED
  BY <1>1, <1>2, <1>3, <1>4, <1>5, <1>6, <1>7, <1>8, <1>9, <1>10, <1>11
  DEF Capture

\* Every step of the control server, and a signal, keeps the types.
LEMMA TypeServer == TypeOK /\ (Accept \/ Server \/ Signal) => TypeOK'
<1> SUFFICES ASSUME TypeOK, Accept \/ Server \/ Signal PROVE TypeOK'
  OBVIOUS
<1> USE DEF TypeOK
<1>1. CASE Accept
  <2>1. TypeSrv'
    BY <1>1, SessionAssumption DEF SessionAssumption, Accept, Serve, TypeSrv,
          srvVars, SrvPcs
  <2> QED
    BY <1>1, <2>1, Same DEF Accept, Serve, TypeOK
<1>2. CASE Answer
  <2>1. TypeSrv'
    BY <1>2, SessionAssumption DEF SessionAssumption, Answer, Serve, TypeSrv,
          srvVars, SrvPcs
  <2> QED
    BY <1>2, <2>1, Same DEF Answer, Serve, TypeOK
<1>3. CASE HandleStop
  <2>1. TypeBox'
    BY <1>3, SessionAssumption DEF SessionAssumption, HandleStop, TypeBox,
          boxVars, Configs
  <2>2. TypeSrv'
    BY <1>3, SessionAssumption DEF SessionAssumption, HandleStop, TypeSrv,
          srvVars, SrvPcs
  <2>3. TypeAsked'
    BY <1>3, SessionAssumption DEF SessionAssumption, HandleStop, TypeAsked
  <2> QED
    BY <1>3, <2>1, <2>2, <2>3, Same DEF HandleStop, TypeOK
<1>4. CASE StartMerge
  <2>1. TypeBox'
    BY <1>4, SessionAssumption DEF SessionAssumption, StartMerge, Merge,
          TypeBox, boxVars, Configs, TypeSrv, Patches
  <2>2. TypeSrv'
    BY <1>4, SessionAssumption DEF SessionAssumption, StartMerge, Merge,
          TypeSrv, srvVars, SrvPcs, Patches, NoPatch
  <2> QED
    BY <1>4, <2>1, <2>2, Same DEF StartMerge, Merge, TypeOK
<1>5. CASE StartStage
  <2>1. TypeBox'
    BY <1>5, SessionAssumption DEF SessionAssumption, StartStage, TypeBox,
          boxVars, Configs
  <2>2. TypeSrv'
    BY <1>5, SessionAssumption DEF SessionAssumption, StartStage, TypeSrv,
          srvVars, SrvPcs
  <2>3. TypeAsked'
    BY <1>5, SessionAssumption DEF SessionAssumption, StartStage, TypeAsked
  <2> QED
    BY <1>5, <2>1, <2>2, <2>3, Same DEF StartStage, TypeOK
<1>6. CASE TuneStage
  <2>1. TypeBox'
    BY <1>6, SessionAssumption DEF SessionAssumption, TuneStage, TypeBox,
          boxVars, Configs, TypeSrv
  <2>2. TypeSrv'
    BY <1>6, SessionAssumption DEF SessionAssumption, TuneStage, TypeSrv,
          srvVars, SrvPcs
  <2>3. TypeAsked'
    BY <1>6, SessionAssumption DEF SessionAssumption, TuneStage, TypeAsked,
          TypeSrv
  <2> QED
    BY <1>6, <2>1, <2>2, <2>3, Same DEF TuneStage, TypeOK
<1>7. CASE ServerLeaves
  <2>1. TypeSrv'
    BY <1>7, SessionAssumption DEF SessionAssumption, ServerLeaves, Serve,
          TypeSrv, srvVars, SrvPcs
  <2> QED
    BY <1>7, <2>1, Same DEF ServerLeaves, Serve, TypeOK
<1>8. ASSUME NEW p \in StartBodies, HandleStart(p) PROVE TypeOK'
  <2>1. TypeSrv'
    BY <1>8, SessionAssumption DEF SessionAssumption, HandleStart, TypeSrv,
          srvVars, SrvPcs, Patches
  <2> QED
    BY <1>8, <2>1, Same DEF HandleStart, TypeOK
<1>9. ASSUME NEW ch \in Channels, HandleTune(ch) PROVE TypeOK'
  <2>1. TypeSrv'
    BY <1>9, SessionAssumption DEF SessionAssumption, HandleTune, TypeSrv,
          srvVars, SrvPcs
  <2> QED
    BY <1>9, <2>1, Same DEF HandleTune, TypeOK
<1>10. ASSUME NEW k \in Keys, HandleKey(k) PROVE TypeOK'
  <2>1. TypeBox'
    BY <1>10, SessionAssumption DEF SessionAssumption, HandleKey, TypeBox,
          boxVars, Configs
  <2>2. TypeSrv'
    BY <1>10, SessionAssumption DEF SessionAssumption, HandleKey, TypeSrv,
          srvVars, SrvPcs
  <2> QED
    BY <1>10, <2>1, <2>2, Same DEF HandleKey, TypeOK
<1>11. CASE Signal
  <2>1. TypeSup'
    BY <1>11, SessionAssumption DEF SessionAssumption, Signal, TypeSup,
          runVars, SupPcs
  <2> QED
    BY <1>11, <2>1, Same DEF Signal, TypeOK
<1> QED
  BY <1>1, <1>2, <1>3, <1>4, <1>5, <1>6, <1>7, <1>8, <1>9, <1>10, <1>11
  DEF Server

\* No step of any thread breaks a type.
LEMMA TypeStep == TypeOK /\ [Next]_vars => TypeOK'
<1> SUFFICES ASSUME TypeOK, [Next]_vars PROVE TypeOK'
  OBVIOUS
<1>1. CASE UNCHANGED vars
  BY <1>1, Same DEF TypeOK, vars
<1>2. CASE Next
  BY <1>1, <1>2, TypeSupervisor, TypeCapture, TypeServer DEF Next, Terminated
<1> QED
  BY <1>1, <1>2

\* Every variable keeps its type; in the capture loop the streak of read
\* errors is below the limit.
THEOREM TypeCorrect == Spec => []TypeOK
BY TypeInit, TypeStep, PTL DEF Spec

-----------------------------------------------------------------------------
(* Life and death of the capture thread. *)

Life == Ownership /\ Reaping /\ Stopped /\ StreamingIsLive

\* The facts about the capture thread support each other and nothing else.
LEMMA LifeStep ==
  ASSUME Life, [Next]_vars
  PROVE  Life'
<1> USE DEF Life, Ownership, Reaping, Stopped, StreamingIsLive, StartSection,
    DeviceSection, ctxVars, boxVars, devVars, supVars, runVars, capVars,
    srvVars
<1>1. CASE Boot
  BY <1>1 DEF Boot
<1>2. CASE LoopTop
  BY <1>2 DEF LoopTop
<1>3. CASE Reap
  BY <1>3 DEF Reap, Goto
<1>4. CASE Join
  BY <1>4 DEF Join
<1>5. CASE Unflag
  BY <1>5 DEF Unflag
<1>6. CASE TakeStop
  BY <1>6 DEF TakeStop
<1>7. CASE StopLoad
  BY <1>7 DEF StopLoad, Goto
<1>8. CASE StopStore
  BY <1>8 DEF StopStore
<1>9. CASE StopFlag
  BY <1>9 DEF StopFlag
<1>10. CASE TakeStart
  BY <1>10 DEF TakeStart
<1>11. CASE StartReady
  BY <1>11 DEF StartReady, Goto
<1>12. CASE Restage
  BY <1>12 DEF Restage
<1>13. CASE StartConfig
  BY <1>13 DEF StartConfig
<1>14. CASE StartGuard
  BY <1>14 DEF StartGuard
<1>15. CASE StartReset
  BY <1>15 DEF StartReset
<1>16. CASE UsbInit
  BY <1>16 DEF UsbInit, Acquire, StartFails
<1>17. CASE UsbOpen
  BY <1>17 DEF UsbOpen, Acquire, StartFails
<1>18. CASE UsbClaim
  BY <1>18 DEF UsbClaim, Acquire, StartFails
<1>19. CASE BuildAggregator
  BY <1>19 DEF BuildAggregator, StartFails
<1>20. CASE Publish
  BY <1>20 DEF Publish
<1>21. CASE Spawn
  BY <1>21 DEF Spawn
<1>22. CASE StopServer
  BY <1>22 DEF StopServer, Goto
<1>23. CASE Exit
  BY <1>23 DEF Exit, Goto
<1>24. CASE BringUp
  BY <1>24 DEF BringUp
<1>25. CASE LoopHead
  BY <1>25 DEF LoopHead, Move
<1>26. CASE ApplyTune
  BY <1>26 DEF ApplyTune
<1>27. CASE ApplyKey
  BY <1>27 DEF ApplyKey
<1>28. CASE KeyFailed
  BY <1>28 DEF KeyFailed
<1>29. CASE ReadOnce
  BY <1>29 DEF ReadOnce
<1>30. CASE Fault
  BY <1>30 DEF Fault
<1>31. CASE Release
  BY <1>31 DEF Release
<1>32. CASE FinalLoad
  BY <1>32 DEF FinalLoad, Move
<1>33. CASE ToIdle
  BY <1>33 DEF ToIdle
<1>34. CASE Finish
  BY <1>34 DEF Finish
<1>35. CASE Accept
  BY <1>35 DEF Accept, Serve
<1>36. CASE Answer
  BY <1>36 DEF Answer, Serve
<1>37. CASE HandleStop
  BY <1>37 DEF HandleStop
<1>38. CASE StartMerge
  BY <1>38 DEF StartMerge, Merge
<1>39. CASE StartStage
  BY <1>39 DEF StartStage
<1>40. CASE TuneStage
  BY <1>40 DEF TuneStage
<1>41. CASE ServerLeaves
  BY <1>41 DEF ServerLeaves, Serve
<1>42. ASSUME NEW p \in StartBodies, HandleStart(p) PROVE Life'
  BY <1>42 DEF HandleStart
<1>43. ASSUME NEW ch \in Channels, HandleTune(ch) PROVE Life'
  BY <1>43 DEF HandleTune
<1>44. ASSUME NEW k \in Keys, HandleKey(k) PROVE Life'
  BY <1>44 DEF HandleKey
<1>45. CASE Signal
  BY <1>45 DEF Signal
<1>46. CASE UNCHANGED vars
  BY <1>46 DEF vars
<1> QED
  BY <1>1, <1>2, <1>3, <1>4, <1>5, <1>6, <1>7, <1>8, <1>9, <1>10, <1>11,
     <1>12, <1>13, <1>14, <1>15, <1>16, <1>17, <1>18, <1>19, <1>20, <1>21,
     <1>22, <1>23, <1>24, <1>25, <1>26, <1>27, <1>28, <1>29, <1>30, <1>31,
     <1>32, <1>33, <1>34, <1>35, <1>36, <1>37, <1>38, <1>39, <1>40, <1>41,
     <1>42, <1>43, <1>44, <1>45, <1>46
  DEF Next, Supervisor, Capture, Server, Terminated

-----------------------------------------------------------------------------
(* The handles. *)

\* libusb_open_device_with_vid_pid adds the device to the open context.
LEMMA OpenDevice ==
  ASSUME usb = [ctx |-> TRUE, dev |-> FALSE, claimed |-> FALSE],
         usb' = [usb EXCEPT !["dev"] = TRUE]
  PROVE  usb' = [ctx |-> TRUE, dev |-> TRUE, claimed |-> FALSE]
  OBVIOUS

\* Every step leaves open exactly the handles its owner still needs.
LEMMA HandlesStep ==
  ASSUME HandleStages, Ownership, [Next]_vars
  PROVE  HandleStages'
<1> USE DEF HandleStages, Ownership, UsbOpened, UsbClosed, StartSection,
    DeviceSection, ctxVars, boxVars, devVars, supVars, runVars, capVars,
    srvVars
<1>1. CASE Boot
  BY <1>1 DEF Boot
<1>2. CASE LoopTop
  BY <1>2 DEF LoopTop
<1>3. CASE Reap
  BY <1>3 DEF Reap, Goto
<1>4. CASE Join
  BY <1>4 DEF Join
<1>5. CASE Unflag
  BY <1>5 DEF Unflag
<1>6. CASE TakeStop
  BY <1>6 DEF TakeStop
<1>7. CASE StopLoad
  BY <1>7 DEF StopLoad, Goto
<1>8. CASE StopStore
  BY <1>8 DEF StopStore
<1>9. CASE StopFlag
  BY <1>9 DEF StopFlag
<1>10. CASE TakeStart
  BY <1>10 DEF TakeStart
<1>11. CASE StartReady
  BY <1>11 DEF StartReady, Goto
<1>12. CASE Restage
  BY <1>12 DEF Restage
<1>13. CASE StartConfig
  BY <1>13 DEF StartConfig
<1>14. CASE StartGuard
  BY <1>14 DEF StartGuard
<1>15. CASE StartReset
  BY <1>15 DEF StartReset
<1>16. CASE UsbInit
  BY <1>16 DEF UsbInit, Acquire, StartFails
<1>17. CASE UsbOpen
  <2>1. ASSUME Acquire("dev", "usbClaim") PROVE HandleStages'
    <3>1. usb = [ctx |-> TRUE, dev |-> FALSE, claimed |-> FALSE]
      BY <1>17 DEF UsbOpen
    <3>2. usb' = [ctx |-> TRUE, dev |-> TRUE, claimed |-> FALSE]
      BY <2>1, <3>1, OpenDevice DEF Acquire
    <3>3. supPc' = "usbClaim" /\ capPc' \notin DeviceSection
      BY <1>17, <2>1 DEF UsbOpen, Acquire
    <3> QED
      BY <3>2, <3>3
  <2>2. CASE StartFails
    BY <1>17, <2>2 DEF UsbOpen, StartFails
  <2> QED
    BY <1>17, <2>1, <2>2 DEF UsbOpen
<1>18. CASE UsbClaim
  BY <1>18 DEF UsbClaim, Acquire, StartFails
<1>19. CASE BuildAggregator
  BY <1>19 DEF BuildAggregator, StartFails
<1>20. CASE Publish
  BY <1>20 DEF Publish
<1>21. CASE Spawn
  BY <1>21 DEF Spawn
<1>22. CASE StopServer
  BY <1>22 DEF StopServer, Goto
<1>23. CASE Exit
  BY <1>23 DEF Exit, Goto
<1>24. CASE BringUp
  BY <1>24 DEF BringUp
<1>25. CASE LoopHead
  BY <1>25 DEF LoopHead, Move
<1>26. CASE ApplyTune
  BY <1>26 DEF ApplyTune
<1>27. CASE ApplyKey
  BY <1>27 DEF ApplyKey
<1>28. CASE KeyFailed
  BY <1>28 DEF KeyFailed
<1>29. CASE ReadOnce
  BY <1>29 DEF ReadOnce
<1>30. CASE Fault
  BY <1>30 DEF Fault
<1>31. CASE Release
  BY <1>31 DEF Release
<1>32. CASE FinalLoad
  BY <1>32 DEF FinalLoad, Move
<1>33. CASE ToIdle
  BY <1>33 DEF ToIdle
<1>34. CASE Finish
  BY <1>34 DEF Finish
<1>35. CASE Accept
  BY <1>35 DEF Accept, Serve
<1>36. CASE Answer
  BY <1>36 DEF Answer, Serve
<1>37. CASE HandleStop
  BY <1>37 DEF HandleStop
<1>38. CASE StartMerge
  BY <1>38 DEF StartMerge, Merge
<1>39. CASE StartStage
  BY <1>39 DEF StartStage
<1>40. CASE TuneStage
  BY <1>40 DEF TuneStage
<1>41. CASE ServerLeaves
  BY <1>41 DEF ServerLeaves, Serve
<1>42. ASSUME NEW p \in StartBodies, HandleStart(p) PROVE HandleStages'
  BY <1>42 DEF HandleStart
<1>43. ASSUME NEW ch \in Channels, HandleTune(ch) PROVE HandleStages'
  BY <1>43 DEF HandleTune
<1>44. ASSUME NEW k \in Keys, HandleKey(k) PROVE HandleStages'
  BY <1>44 DEF HandleKey
<1>45. CASE Signal
  BY <1>45 DEF Signal
<1>46. CASE UNCHANGED vars
  BY <1>46 DEF vars
<1> QED
  BY <1>1, <1>2, <1>3, <1>4, <1>5, <1>6, <1>7, <1>8, <1>9, <1>10, <1>11,
     <1>12, <1>13, <1>14, <1>15, <1>16, <1>17, <1>18, <1>19, <1>20, <1>21,
     <1>22, <1>23, <1>24, <1>25, <1>26, <1>27, <1>28, <1>29, <1>30, <1>31,
     <1>32, <1>33, <1>34, <1>35, <1>36, <1>37, <1>38, <1>39, <1>40, <1>41,
     <1>42, <1>43, <1>44, <1>45, <1>46
  DEF Next, Supervisor, Capture, Server, Terminated

-----------------------------------------------------------------------------
(* The channels. *)

Tuned == ChannelSources /\ ChannelHonored

\* A channel reaches the radio from the configuration or from a staged tune.
LEMMA TunedStep ==
  ASSUME Tuned, TypeBox, TypeAsked, Ownership, [Next]_vars
  PROVE  Tuned'
<1> USE DEF Tuned, ChannelSources, ChannelHonored, Ownership, TypeBox,
    TypeAsked, StartSection, Listening, ctxVars, boxVars,
    devVars, supVars, runVars, capVars, srvVars
<1>1. CASE Boot
  BY <1>1 DEF Boot
<1>2. CASE LoopTop
  BY <1>2 DEF LoopTop
<1>3. CASE Reap
  BY <1>3 DEF Reap, Goto
<1>4. CASE Join
  BY <1>4 DEF Join
<1>5. CASE Unflag
  BY <1>5 DEF Unflag
<1>6. CASE TakeStop
  BY <1>6 DEF TakeStop
<1>7. CASE StopLoad
  BY <1>7 DEF StopLoad, Goto
<1>8. CASE StopStore
  BY <1>8 DEF StopStore
<1>9. CASE StopFlag
  BY <1>9 DEF StopFlag
<1>10. CASE TakeStart
  BY <1>10 DEF TakeStart
<1>11. CASE StartReady
  BY <1>11 DEF StartReady, Goto
<1>12. CASE Restage
  BY <1>12 DEF Restage
<1>13. CASE StartConfig
  BY <1>13 DEF StartConfig
<1>14. CASE StartGuard
  BY <1>14 DEF StartGuard
<1>15. CASE StartReset
  BY <1>15 DEF StartReset
<1>16. CASE UsbInit
  BY <1>16 DEF UsbInit, Acquire, StartFails
<1>17. CASE UsbOpen
  BY <1>17 DEF UsbOpen, Acquire, StartFails
<1>18. CASE UsbClaim
  BY <1>18 DEF UsbClaim, Acquire, StartFails
<1>19. CASE BuildAggregator
  BY <1>19 DEF BuildAggregator, StartFails
<1>20. CASE Publish
  BY <1>20 DEF Publish
<1>21. CASE Spawn
  BY <1>21 DEF Spawn
<1>22. CASE StopServer
  BY <1>22 DEF StopServer, Goto
<1>23. CASE Exit
  BY <1>23 DEF Exit, Goto
<1>24. CASE BringUp
  BY <1>24 DEF BringUp
<1>25. CASE LoopHead
  BY <1>25 DEF LoopHead, Move
<1>26. CASE ApplyTune
  BY <1>26 DEF ApplyTune
<1>27. CASE ApplyKey
  BY <1>27 DEF ApplyKey
<1>28. CASE KeyFailed
  BY <1>28 DEF KeyFailed
<1>29. CASE ReadOnce
  BY <1>29 DEF ReadOnce
<1>30. CASE Fault
  BY <1>30 DEF Fault
<1>31. CASE Release
  BY <1>31 DEF Release
<1>32. CASE FinalLoad
  BY <1>32 DEF FinalLoad, Move
<1>33. CASE ToIdle
  BY <1>33 DEF ToIdle
<1>34. CASE Finish
  BY <1>34 DEF Finish
<1>35. CASE Accept
  BY <1>35 DEF Accept, Serve
<1>36. CASE Answer
  BY <1>36 DEF Answer, Serve
<1>37. CASE HandleStop
  BY <1>37 DEF HandleStop
<1>38. CASE StartMerge
  BY <1>38 DEF StartMerge, Merge
<1>39. CASE StartStage
  BY <1>39 DEF StartStage
<1>40. CASE TuneStage
  BY <1>40 DEF TuneStage
<1>41. CASE ServerLeaves
  BY <1>41 DEF ServerLeaves, Serve
<1>42. ASSUME NEW p \in StartBodies, HandleStart(p) PROVE Tuned'
  BY <1>42 DEF HandleStart
<1>43. ASSUME NEW ch \in Channels, HandleTune(ch) PROVE Tuned'
  BY <1>43 DEF HandleTune
<1>44. ASSUME NEW k \in Keys, HandleKey(k) PROVE Tuned'
  BY <1>44 DEF HandleKey
<1>45. CASE Signal
  BY <1>45 DEF Signal
<1>46. CASE UNCHANGED vars
  BY <1>46 DEF vars
<1> QED
  BY <1>1, <1>2, <1>3, <1>4, <1>5, <1>6, <1>7, <1>8, <1>9, <1>10, <1>11,
     <1>12, <1>13, <1>14, <1>15, <1>16, <1>17, <1>18, <1>19, <1>20, <1>21,
     <1>22, <1>23, <1>24, <1>25, <1>26, <1>27, <1>28, <1>29, <1>30, <1>31,
     <1>32, <1>33, <1>34, <1>35, <1>36, <1>37, <1>38, <1>39, <1>40, <1>41,
     <1>42, <1>43, <1>44, <1>45, <1>46
  DEF Next, Supervisor, Capture, Server, Terminated

-----------------------------------------------------------------------------
(* The refinement of AdapterLease. *)

\* The daemon starts with nothing on lease.
LEMMA LeaseInit == Init => Lease!Init
  BY DEF Init, Lease!Init, owner, held, UsbClosed, DeviceSection, StartSection

\* Opening a handle adds it to those held.
LEMMA LeaseAcquire ==
  ASSUME usb \in [ctx : BOOLEAN, dev : BOOLEAN, claimed : BOOLEAN],
         NEW h \in {"ctx", "dev", "claimed"}, ~usb[h],
         usb' = [usb EXCEPT ![h] = TRUE]
  PROVE  held' = held \cup {h} /\ h \notin held
  BY DEF held

\* Closing leaves nothing held.
LEMMA LeaseClosed == (usb' = UsbClosed => held' = {})
  BY DEF held, UsbClosed

\* Every step of a thread is a step of the lease or leaves it alone.
LEMMA LeaseStep ==
  ASSUME Ownership, HandleStages, TypeDev, [Next]_vars
  PROVE  [Lease!Next]_(Lease!leaseVars)
<1> USE DEF Ownership, StartSection, DeviceSection, owner, ctxVars, boxVars,
    devVars, supVars, runVars, capVars, srvVars, Lease!Next, Lease!leaseVars
<1>1. CASE Boot
  BY <1>1 DEF Boot, held
<1>2. CASE LoopTop
  BY <1>2 DEF LoopTop, held
<1>3. CASE Reap
  BY <1>3 DEF Reap, Goto, held
<1>4. CASE Join
  BY <1>4 DEF Join, held
<1>5. CASE Unflag
  BY <1>5 DEF Unflag, held
<1>6. CASE TakeStop
  BY <1>6 DEF TakeStop, held
<1>7. CASE StopLoad
  BY <1>7 DEF StopLoad, Goto, held
<1>8. CASE StopStore
  BY <1>8 DEF StopStore, held
<1>9. CASE StopFlag
  BY <1>9 DEF StopFlag, held
<1>10. CASE TakeStart
  BY <1>10 DEF TakeStart, held
<1>11. CASE StartReady
  BY <1>11 DEF StartReady, Goto, held
<1>12. CASE Restage
  BY <1>12 DEF Restage, held
<1>13. CASE StartConfig
  BY <1>13 DEF StartConfig, held
<1>14. CASE StartGuard
  <2>1. CASE joinable
    BY <1>14, <2>1 DEF StartGuard, held
  <2>2. ASSUME ~joinable PROVE Lease!Take
    BY <1>14, <2>2 DEF StartGuard, held, Lease!Take
  <2> QED
    BY <2>1, <2>2
<1>15. CASE StartReset
  BY <1>15 DEF StartReset, held
<1>16. CASE UsbInit
  <2>1. ASSUME Acquire("ctx", "usbOpen") PROVE Lease!Acquire("ctx")
    <3>1. ~usb["ctx"]
      BY <1>16 DEF UsbInit, HandleStages, UsbOpened, UsbClosed
    <3>2. held' = held \cup {"ctx"} /\ "ctx" \notin held
      BY <2>1, <3>1, LeaseAcquire DEF Acquire, TypeDev
    <3>3. owner = "starter" /\ UNCHANGED owner
      BY <1>16, <2>1 DEF UsbInit, Acquire
    <3> QED
      BY <3>2, <3>3 DEF Lease!Acquire
  <2>2. ASSUME StartFails PROVE Lease!GiveBack
    BY <1>16, <2>2, LeaseClosed DEF UsbInit, StartFails, Lease!GiveBack
  <2> QED
    BY <1>16, <2>1, <2>2 DEF UsbInit, Lease!Handles
<1>17. CASE UsbOpen
  <2>1. ASSUME Acquire("dev", "usbClaim") PROVE Lease!Acquire("dev")
    <3>1. ~usb["dev"]
      BY <1>17 DEF UsbOpen, HandleStages, UsbOpened, UsbClosed
    <3>2. held' = held \cup {"dev"} /\ "dev" \notin held
      BY <2>1, <3>1, LeaseAcquire DEF Acquire, TypeDev
    <3>3. owner = "starter" /\ UNCHANGED owner
      BY <1>17, <2>1 DEF UsbOpen, Acquire
    <3> QED
      BY <3>2, <3>3 DEF Lease!Acquire
  <2>2. ASSUME StartFails PROVE Lease!GiveBack
    BY <1>17, <2>2, LeaseClosed DEF UsbOpen, StartFails, Lease!GiveBack
  <2> QED
    BY <1>17, <2>1, <2>2 DEF UsbOpen, Lease!Handles
<1>18. CASE UsbClaim
  <2>1. ASSUME Acquire("claimed", "aggregator") PROVE Lease!Acquire("claimed")
    <3>1. ~usb["claimed"]
      BY <1>18 DEF UsbClaim, HandleStages, UsbOpened, UsbClosed
    <3>2. held' = held \cup {"claimed"} /\ "claimed" \notin held
      BY <2>1, <3>1, LeaseAcquire DEF Acquire, TypeDev
    <3>3. owner = "starter" /\ UNCHANGED owner
      BY <1>18, <2>1 DEF UsbClaim, Acquire
    <3> QED
      BY <3>2, <3>3 DEF Lease!Acquire
  <2>2. ASSUME StartFails PROVE Lease!GiveBack
    BY <1>18, <2>2, LeaseClosed DEF UsbClaim, StartFails, Lease!GiveBack
  <2> QED
    BY <1>18, <2>1, <2>2 DEF UsbClaim, Lease!Handles
<1>19. CASE BuildAggregator
  <2>1. ASSUME StartFails PROVE Lease!GiveBack
    BY <1>19, <2>1, LeaseClosed
    DEF BuildAggregator, StartFails, Lease!GiveBack
  <2>2. ASSUME ~StartFails PROVE UNCHANGED <<owner, held>>
    BY <1>19, <2>2 DEF BuildAggregator, held
  <2> QED
    BY <2>1, <2>2
<1>20. CASE Publish
  BY <1>20 DEF Publish, held
<1>21. ASSUME Spawn PROVE Lease!HandOver
  <2>1. held = Lease!Handles
    BY <1>21 DEF Spawn, HandleStages, UsbOpened, held, Lease!Handles
  <2> QED
    BY <1>21, <2>1 DEF Spawn, held, Lease!HandOver
<1>22. CASE StopServer
  BY <1>22 DEF StopServer, Goto, held
<1>23. CASE Exit
  BY <1>23 DEF Exit, Goto, held
<1>24. CASE BringUp
  BY <1>24 DEF BringUp, held
<1>25. CASE LoopHead
  BY <1>25 DEF LoopHead, Move, held
<1>26. CASE ApplyTune
  BY <1>26 DEF ApplyTune, held
<1>27. CASE ApplyKey
  BY <1>27 DEF ApplyKey, held
<1>28. CASE KeyFailed
  BY <1>28 DEF KeyFailed, held
<1>29. CASE ReadOnce
  BY <1>29 DEF ReadOnce, held
<1>30. CASE Fault
  BY <1>30 DEF Fault, held
<1>31. ASSUME Release PROVE Lease!GiveBack
  BY <1>31, LeaseClosed DEF Release, Lease!GiveBack
<1>32. CASE FinalLoad
  BY <1>32 DEF FinalLoad, Move, held
<1>33. CASE ToIdle
  BY <1>33 DEF ToIdle, held
<1>34. CASE Finish
  BY <1>34 DEF Finish, held
<1>35. CASE Accept
  BY <1>35 DEF Accept, Serve, held
<1>36. CASE Answer
  BY <1>36 DEF Answer, Serve, held
<1>37. CASE HandleStop
  BY <1>37 DEF HandleStop, held
<1>38. CASE StartMerge
  BY <1>38 DEF StartMerge, Merge, held
<1>39. CASE StartStage
  BY <1>39 DEF StartStage, held
<1>40. CASE TuneStage
  BY <1>40 DEF TuneStage, held
<1>41. CASE ServerLeaves
  BY <1>41 DEF ServerLeaves, Serve, held
<1>42. ASSUME NEW p \in StartBodies, HandleStart(p)
      PROVE  UNCHANGED <<owner, held>>
  BY <1>42 DEF HandleStart, held
<1>43. ASSUME NEW ch \in Channels, HandleTune(ch)
      PROVE  UNCHANGED <<owner, held>>
  BY <1>43 DEF HandleTune, held
<1>44. ASSUME NEW k \in Keys, HandleKey(k)
      PROVE  UNCHANGED <<owner, held>>
  BY <1>44 DEF HandleKey, held
<1>45. CASE Signal
  BY <1>45 DEF Signal, held
<1>46. CASE UNCHANGED vars
  BY <1>46 DEF vars, held
<1> QED
  BY <1>1, <1>2, <1>3, <1>4, <1>5, <1>6, <1>7, <1>8, <1>9, <1>10, <1>11,
     <1>12, <1>13, <1>14, <1>15, <1>16, <1>17, <1>18, <1>19, <1>20, <1>21,
     <1>22, <1>23, <1>24, <1>25, <1>26, <1>27, <1>28, <1>29, <1>30, <1>31,
     <1>32, <1>33, <1>34, <1>35, <1>36, <1>37, <1>38, <1>39, <1>40, <1>41,
     <1>42, <1>43, <1>44, <1>45, <1>46
  DEF Next, Supervisor, Capture, Server, Terminated

-----------------------------------------------------------------------------
(* The theorems. *)

\* Before the run loop nothing is open, nobody streams, nothing is staged.
LEMMA SessionInit == Init => Life /\ HandleStages /\ Tuned
<1> SUFFICES ASSUME Init PROVE Life /\ HandleStages /\ Tuned
  OBVIOUS
<1> USE DEF Init, StartSection, DeviceSection, Listening
<1>1. Life
  BY DEF Life, Ownership, Reaping, Stopped, StreamingIsLive
<1>2. HandleStages
  BY DEF HandleStages
<1>3. Tuned
  BY DEF Tuned, ChannelSources, ChannelHonored
<1> QED
  BY <1>1, <1>2, <1>3

\* The inductive invariant: thread, flags and state (Life) support each other,
\* the handles follow the owner (HandleStages), the channels their requests.
THEOREM SessionInvariant == Spec => []SessionInv
<1>1. TypeOK /\ [Next]_vars => TypeOK'
  BY TypeStep
<1>2. Life /\ [Next]_vars => Life'
  BY LifeStep
<1>3. HandleStages /\ Life /\ [Next]_vars => HandleStages'
  BY HandlesStep DEF Life
<1>4. Tuned /\ TypeOK /\ Life /\ [Next]_vars => Tuned'
  BY TunedStep DEF Life, TypeOK
<1>5. TypeOK /\ Life /\ HandleStages /\ Tuned => SessionInv
  BY DEF Life, Tuned, SessionInv
<1> QED
  BY TypeInit, SessionInit, <1>1, <1>2, <1>3, <1>4, <1>5, PTL DEF Spec

\* While Start writes the receiver's unguarded members there is no capture
\* thread (the joinable guard of WFBReceiver::Start).
THEOREM Exclusive == Spec => []ExclusiveReceiver
<1>1. SessionInv => ExclusiveReceiver
  BY DEF SessionInv, Ownership, ExclusiveReceiver
<1> QED
  BY <1>1, SessionInvariant, PTL

\* The adapter is open while it is owned and closed otherwise: no path of
\* Start or of the capture thread leaks a handle.
THEOREM Handles == Spec => []HandleDiscipline
<1>1. SessionInv => HandleDiscipline
  <2> SUFFICES ASSUME SessionInv PROVE HandleDiscipline
    OBVIOUS
  <2>1. CASE capPc \in DeviceSection
    <3>1. usb = UsbOpened
      BY <2>1
      DEF SessionInv, Ownership, HandleStages, StartSection, DeviceSection
    <3> QED
      BY <2>1, <3>1 DEF HandleDiscipline, UsbOpened
  <2>2. CASE capPc \notin DeviceSection
    <3>1. supPc \notin StartSection => usb = UsbClosed
      BY <2>2 DEF SessionInv, HandleStages, StartSection
    <3> QED
      BY <2>2, <3>1 DEF HandleDiscipline
  <2> QED
    BY <2>1, <2>2
<1> QED
  BY <1>1, SessionInvariant, PTL

\* The supervisor's reaping Join finds the capture thread at its end.
THEOREM Reaped == Spec => []ReapDoesNotBlock
<1>1. SessionInv => ReapDoesNotBlock
  BY DEF SessionInv, Reaping, ReapDoesNotBlock
<1> QED
  BY <1>1, SessionInvariant, PTL

\* "streaming" always has a capture thread behind it.
THEOREM Live == Spec => []StreamingIsLive
<1>1. SessionInv => StreamingIsLive
  BY DEF SessionInv
<1> QED
  BY <1>1, SessionInvariant, PTL

\* The capture loop is on a channel somebody asked this session for.
THEOREM Channel == Spec => []ChannelHonored
<1>1. SessionInv => ChannelHonored
  BY DEF SessionInv
<1> QED
  BY <1>1, SessionInvariant, PTL

\* The three threads implement the adapter lease: each step takes, extends,
\* hands over or gives back the lease, or has nothing to do with it.
THEOREM ImplementsLease == Spec => LeaseSpec
<1>1. SessionInv /\ [Next]_vars => [Lease!Next]_(Lease!leaseVars)
  BY LeaseStep DEF SessionInv, TypeOK
<1> QED
  BY <1>1, LeaseInit, SessionInvariant, PTL DEF Spec, LeaseSpec, Lease!Spec

=============================================================================
