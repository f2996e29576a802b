------------------------------ MODULE Session ------------------------------
(***************************************************************************)
(* The capture-session lifecycle of the OpenPRLX daemon: three threads     *)
(* that share OpenPrlxContext (src/src/Context.h).                          *)
(*                                                                         *)
(*   supervisor  main()'s run loop: reaps the capture thread, drains the   *)
(*               stop and start requests, runs WFBReceiver::Start and      *)
(*               WFBReceiver::Stop, and shuts the process down.            *)
(*   capture     the std::thread that Start spawns: it owns the adapter,   *)
(*               drains tune and key requests, reads USB, tears down.      *)
(*   server      ControlServer::loop: checks the session state, then       *)
(*               stages a request in the mailbox.                          *)
(*                                                                         *)
(* A step is one access to memory another thread can write: an atomic      *)
(* load, an atomic store, or one critical section of sessMutex. What a     *)
(* thread does between two such accesses to data only it can reach belongs *)
(* to the step before. A request the server refuses (401, 404, 405, 409,   *)
(* 400) changes nothing and is a stuttering step.                          *)
(***************************************************************************)
EXTENDS Naturals

CONSTANTS
  Channels,      \* radio channels that pass isValidChannel
  Adapters,      \* non-empty vid:pid strings
  Keys,          \* wfb keys that arrive sealed through POST /key
  NoAdapter,     \* the empty vid:pid string
  NoChannel,     \* no channel yet, no tune staged, a local out of scope
  NoKey,         \* no key staged, no aggregator built
  FileKey,       \* the key read from the --key file
  Absent,        \* a field a POST /start body does not carry
  StartBodies,   \* the POST /start bodies clients send
  MaxUsbErrors   \* read errors that fail the session (10 in the code)

ASSUME SessionAssumption ==
  /\ NoAdapter \notin Adapters
  /\ Absent \notin Adapters \cup {NoAdapter} \cup Channels
  /\ NoChannel \notin Channels
  /\ NoKey \notin Keys \cup {FileKey}
  /\ FileKey \notin Keys
  /\ StartBodies \subseteq [vidpid : Adapters \cup {NoAdapter, Absent},
                            channel : Channels \cup {Absent}]
  /\ MaxUsbErrors \in Nat \ {0}

VARIABLES
  \* OpenPrlxContext atomics
  state, shouldStop, captureFinished,
  \* guarded by sessMutex: ControlRequests and SessionConfig
  reqs, cfg,
  \* WFBReceiver members: libusb handles, aggregator_, curChannel_, usbThread_
  usb, aggKey, curChannel, joinable,
  \* supervisor: program counter, g_run, left the run loop, Start's channel
  supPc, gRun, exiting, startChannel,
  \* capture thread: program counter, captured channel, error streak
  capPc, capChannel, usbErrors,
  \* server: program counter and the arguments of the request in hand
  srvPc, srvPatch, srvChannel,
  \* history: the channels this session was started with or tuned to; those of
  \* tunes checked in an earlier session and staged in this one; such a tune
  \* is in the server's hands
  asked

ctxVars == <<state, shouldStop, captureFinished>>
boxVars == <<reqs, cfg>>
devVars == <<usb, aggKey, curChannel>>
runVars == <<gRun, exiting, startChannel>>
supVars == <<supPc, runVars>>
capVars == <<joinable, capPc, capChannel, usbErrors>>
srvVars == <<srvPc, srvPatch, srvChannel>>
vars == <<ctxVars, boxVars, devVars, supVars, capVars, srvVars, asked>>

-----------------------------------------------------------------------------
(* The data. *)

SessionStates == {"idle", "starting", "streaming", "error", "stopping"}

\* The states in which handleStart answers 409 and the supervisor postpones
\* a start.
Busy == {"starting", "streaming", "stopping"}

Configs == [vidpid : Adapters \cup {NoAdapter}, channel : Channels]

\* A POST /start body: any field may be left out.
Patches == [vidpid : Adapters \cup {NoAdapter, Absent},
            channel : Channels \cup {Absent}]

NoPatch == [vidpid |-> Absent, channel |-> Absent]

Merge(c, p) ==
  [vidpid  |-> IF p.vidpid = Absent THEN c.vidpid ELSE p.vidpid,
   channel |-> IF p.channel = Absent THEN c.channel ELSE p.channel]

\* Session handles: libusb context, opened device, claimed interface.
UsbClosed == [ctx |-> FALSE, dev |-> FALSE, claimed |-> FALSE]

SupPcs == {"bootIdle", "bootStart", "top", "reap", "reapState", "join",
           "unflag", "takeStop", "stopLoad", "stopStore", "stopFlag",
           "takeStart", "startState", "startFinished", "startConfig",
           "restage", "startGuard", "startReset", "usbInit", "usbOpen",
           "usbClaim", "aggregator", "publish", "spawn", "finalJoin",
           "stopServer", "awaitServer", "exited"}

CapPcs == {"none", "bringUp", "loop", "tune", "key", "keyFailed", "read",
           "fault", "release", "final", "toIdle", "finish", "done"}

SrvPcs == {"accept", "request", "startMerge", "startStage", "tuneStage",
           "down"}

\* From the joinable guard of Start to the spawn: the supervisor owns the
\* receiver's unguarded members.
StartSection == {"startReset", "usbInit", "usbOpen", "usbClaim",
                 "aggregator", "publish", "spawn"}

\* From the spawn to libusb_exit: the capture thread owns them.
DeviceSection == {"bringUp", "loop", "tune", "key", "keyFailed", "read",
                  "fault", "release"}

\* The capture loop.
Listening == {"loop", "tune", "key", "keyFailed", "read"}

-----------------------------------------------------------------------------
(* main() once the signal handlers are installed and the control server     *)
(* started; the server may have failed to bind its port: the daemon then   *)
(* runs without it. The supervisor's first program counter keeps whether   *)
(* --vidpid was given: cfg may have been merged into by the time of Boot.  *)

Init ==
  /\ state = "idle" /\ shouldStop = FALSE /\ captureFinished = FALSE
  /\ reqs = [start |-> FALSE, stop |-> FALSE, tune |-> NoChannel,
             key |-> NoKey]
  /\ cfg \in Configs
  /\ usb = UsbClosed /\ aggKey = NoKey /\ curChannel = NoChannel
  /\ joinable = FALSE
  /\ supPc = IF cfg.vidpid = NoAdapter THEN "bootIdle" ELSE "bootStart"
  /\ gRun = TRUE /\ exiting = FALSE
  /\ startChannel = NoChannel
  /\ capPc = "none" /\ capChannel = NoChannel /\ usbErrors = 0
  /\ srvPc \in {"accept", "down"}
  /\ srvPatch = NoPatch /\ srvChannel = NoChannel
  /\ asked = [channels |-> {}, late |-> {}, stale |-> FALSE]

\* With --vidpid the daemon stages its own start.
Boot ==
  /\ supPc \in {"bootIdle", "bootStart"}
  /\ supPc' = "top"
  /\ reqs' = [reqs EXCEPT !.start = @ \/ supPc = "bootStart"]
  /\ UNCHANGED <<ctxVars, cfg, devVars, runVars, capVars, srvVars, asked>>

\* SIGINT or SIGTERM.
Signal ==
  /\ gRun
  /\ gRun' = FALSE
  /\ UNCHANGED <<ctxVars, boxVars, devVars, supPc, exiting, startChannel,
                 capVars, srvVars, asked>>

-----------------------------------------------------------------------------
(* The supervisor. *)

\* A supervisor step that only moves to pc.
Goto(pc) ==
  /\ supPc' = pc
  /\ UNCHANGED <<ctxVars, boxVars, devVars, runVars, capVars, srvVars, asked>>

\* Variant: main() joins without a last Stop().
LoopTopNoStop ==
  /\ supPc = "top"
  /\ supPc' = IF gRun THEN "reap" ELSE "finalJoin"
  /\ exiting' = ~gRun
  /\ UNCHANGED <<ctxVars, boxVars, devVars, gRun, startChannel, capVars,
                 srvVars, asked>>

\* The loop condition. Leaving the loop, main() calls Stop() once more.
LoopTop ==
  /\ supPc = "top"
  /\ supPc' = IF gRun THEN "reap" ELSE "stopLoad"
  /\ exiting' = ~gRun
  /\ UNCHANGED <<ctxVars, boxVars, devVars, gRun, startChannel, capVars,
                 srvVars, asked>>

Reap ==
  \/ /\ supPc = "reap"
     /\ Goto(IF captureFinished THEN "reapState" ELSE "takeStop")
  \/ /\ supPc = "reapState"
     /\ Goto(IF state \in {"idle", "error"} THEN "join" ELSE "takeStop")

\* WFBReceiver::Join: returns at once if there is no thread, else waits for
\* it to end.
Join ==
  /\ supPc \in {"join", "finalJoin"}
  /\ joinable => capPc = "done"
  /\ joinable' = FALSE
  /\ capPc' = "none"
  /\ supPc' = IF supPc = "join" THEN "unflag" ELSE "stopServer"
  /\ UNCHANGED <<ctxVars, boxVars, devVars, runVars, capChannel, usbErrors,
                 srvVars, asked>>

Unflag ==
  /\ supPc = "unflag"
  /\ captureFinished' = FALSE
  /\ supPc' = "takeStop"
  /\ UNCHANGED <<state, shouldStop, boxVars, devVars, runVars, capVars,
                 srvVars, asked>>

TakeStop ==
  /\ supPc = "takeStop"
  /\ reqs' = [reqs EXCEPT !.stop = FALSE]
  /\ supPc' = IF reqs.stop THEN "stopLoad" ELSE "takeStart"
  /\ UNCHANGED <<ctxVars, cfg, devVars, runVars, capVars, srvVars, asked>>

\* WFBReceiver::Stop: the state is loaded, compared and stored in two steps,
\* then the capture loop is told to leave.
StopLoad ==
  /\ supPc = "stopLoad"
  /\ Goto(IF state \in {"streaming", "starting"} THEN "stopStore"
                                                 ELSE "stopFlag")

StopStore ==
  /\ supPc = "stopStore"
  /\ state' = "stopping"
  /\ supPc' = "stopFlag"
  /\ UNCHANGED <<shouldStop, captureFinished, boxVars, devVars, runVars,
                 capVars, srvVars, asked>>

\* Variant: shouldStop is raised only in the branch that stores Stopping.
StopFlagInBranch ==
  /\ supPc = "stopFlag"
  /\ shouldStop' = (shouldStop \/ state = "stopping")
  /\ supPc' = IF exiting THEN "finalJoin" ELSE "takeStart"
  /\ UNCHANGED <<state, captureFinished, boxVars, devVars, runVars, capVars,
                 srvVars, asked>>

StopFlag ==
  /\ supPc = "stopFlag"
  /\ shouldStop' = TRUE
  /\ supPc' = IF exiting THEN "finalJoin" ELSE "takeStart"
  /\ UNCHANGED <<state, captureFinished, boxVars, devVars, runVars, capVars,
                 srvVars, asked>>

TakeStart ==
  /\ supPc = "takeStart"
  /\ reqs' = [reqs EXCEPT !.start = FALSE]
  /\ supPc' = IF reqs.start THEN "startState" ELSE "top"
  /\ UNCHANGED <<ctxVars, cfg, devVars, runVars, capVars, srvVars, asked>>

\* Only once not busy and any previous thread is reaped, else next tick.
StartReady ==
  \/ /\ supPc = "startState"
     /\ Goto(IF state \in Busy THEN "restage" ELSE "startFinished")
  \/ /\ supPc = "startFinished"
     /\ Goto(IF captureFinished THEN "restage" ELSE "startConfig")

Restage ==
  /\ supPc = "restage"
  /\ reqs' = [reqs EXCEPT !.start = TRUE]
  /\ supPc' = "top"
  /\ UNCHANGED <<ctxVars, cfg, devVars, runVars, capVars, srvVars, asked>>

StartConfig ==
  /\ supPc = "startConfig"
  /\ IF cfg.vidpid = NoAdapter
     THEN state' = "error" /\ supPc' = "top" /\ UNCHANGED startChannel
     ELSE UNCHANGED state /\ supPc' = "startGuard"
          /\ startChannel' = cfg.channel
  /\ UNCHANGED <<shouldStop, captureFinished, boxVars, devVars, gRun, exiting,
                 capVars, srvVars, asked>>

\* Variant: Start without its joinable guard.
StartGuardUnchecked ==
  /\ supPc = "startGuard"
  /\ supPc' = "startReset" /\ state' = "starting"
  /\ UNCHANGED <<shouldStop, captureFinished, boxVars, devVars, runVars,
                 capVars, srvVars, asked>>

\* WFBReceiver::Start. With a thread still joinable it returns false, and
\* the request that was taken is gone.
StartGuard ==
  /\ supPc = "startGuard"
  /\ IF joinable
     THEN supPc' = "top" /\ startChannel' = NoChannel /\ UNCHANGED state
     ELSE supPc' = "startReset" /\ state' = "starting"
          /\ UNCHANGED startChannel
  /\ UNCHANGED <<shouldStop, captureFinished, boxVars, devVars, gRun, exiting,
                 capVars, srvVars, asked>>

\* Variant: Start without clearTune().
StartResetKeepingTune ==
  /\ supPc = "startReset"
  /\ captureFinished' = FALSE
  /\ shouldStop' = FALSE
  /\ asked' = [asked EXCEPT !.channels = {startChannel}, !.late = {},
                            !.stale = (srvPc = "tuneStage")]
  /\ supPc' = "usbInit"
  /\ UNCHANGED <<state, boxVars, devVars, runVars, capVars, srvVars>>

\* Fresh flags, and clearTune() drops a tune left from an earlier session.
StartReset ==
  /\ supPc = "startReset"
  /\ captureFinished' = FALSE
  /\ shouldStop' = FALSE
  /\ reqs' = [reqs EXCEPT !.tune = NoChannel]
  /\ asked' = [asked EXCEPT !.channels = {startChannel}, !.late = {},
                            !.stale = (srvPc = "tuneStage")]
  /\ supPc' = "usbInit"
  /\ UNCHANGED <<state, cfg, devVars, runVars, capVars, srvVars>>

\* Variant: an early return of Start that forgets to close.
StartFailsLeaking ==
  /\ state' = "error"
  /\ supPc' = "top" /\ startChannel' = NoChannel
  /\ UNCHANGED <<shouldStop, captureFinished, boxVars, devVars, gRun, exiting,
                 capVars, srvVars, asked>>

\* A step of Start that fails releases what it holds and sets Error.
StartFails ==
  /\ state' = "error"
  /\ usb' = UsbClosed
  /\ supPc' = "top" /\ startChannel' = NoChannel
  /\ UNCHANGED <<shouldStop, captureFinished, boxVars, aggKey, curChannel,
                 gRun, exiting, capVars, srvVars, asked>>

\* The libusb call of this step succeeds: the handle h is held.
Acquire(h, pc) ==
  /\ usb' = [usb EXCEPT ![h] = TRUE]
  /\ supPc' = pc
  /\ UNCHANGED <<ctxVars, boxVars, aggKey, curChannel, runVars, capVars,
                 srvVars, asked>>

UsbInit  == supPc = "usbInit"  /\ (Acquire("ctx", "usbOpen") \/ StartFails)
UsbOpen  == supPc = "usbOpen"  /\ (Acquire("dev", "usbClaim") \/ StartFails)
UsbClaim == supPc = "usbClaim" /\ (Acquire("claimed", "aggregator")
                                   \/ StartFails)

\* The aggregator's constructor throws on a missing or short key file.
BuildAggregator ==
  /\ supPc = "aggregator"
  /\ \/ /\ aggKey' = FileKey
        /\ supPc' = "publish"
        /\ UNCHANGED <<ctxVars, boxVars, usb, curChannel, runVars, capVars,
                       srvVars, asked>>
     \/ StartFails

\* Variant: the thread is spawned first, Streaming stored afterwards.
PublishAfterSpawn ==
  /\ supPc = "publish"
  /\ \/ /\ ~joinable
        /\ joinable' = TRUE /\ capPc' = "bringUp"
        /\ capChannel' = startChannel /\ usbErrors' = 0
        /\ UNCHANGED <<state, supPc, startChannel>>
     \/ /\ joinable
        /\ state' = "streaming"
        /\ supPc' = "top" /\ startChannel' = NoChannel
        /\ UNCHANGED capVars
  /\ UNCHANGED <<shouldStop, captureFinished, boxVars, devVars, gRun, exiting,
                 srvVars, asked>>

\* Streaming is stored before the thread exists.
Publish ==
  /\ supPc = "publish"
  /\ state' = "streaming"
  /\ supPc' = "spawn"
  /\ UNCHANGED <<shouldStop, captureFinished, boxVars, devVars, runVars,
                 capVars, srvVars, asked>>

Spawn ==
  /\ supPc = "spawn"
  /\ joinable' = TRUE
  /\ capPc' = "bringUp"
  /\ capChannel' = startChannel
  /\ usbErrors' = 0
  /\ supPc' = "top" /\ startChannel' = NoChannel
  /\ UNCHANGED <<ctxVars, boxVars, devVars, gRun, exiting, srvVars, asked>>

\* ControlServer::stop: run_ becomes false and the listening socket closes;
\* the server thread is joined, then main() returns.
StopServer ==
  /\ supPc = "stopServer"
  /\ Goto("awaitServer")

Exit ==
  /\ supPc = "awaitServer"
  /\ srvPc = "down"
  /\ Goto("exited")

Supervisor ==
  \/ Boot \/ LoopTop \/ Reap \/ Join \/ Unflag
  \/ TakeStop \/ StopLoad \/ StopStore \/ StopFlag
  \/ TakeStart \/ StartReady \/ Restage \/ StartConfig \/ StartGuard
  \/ StartReset \/ UsbInit \/ UsbOpen \/ UsbClaim \/ BuildAggregator
  \/ Publish \/ Spawn \/ StopServer \/ Exit

-----------------------------------------------------------------------------
(* The capture thread. *)

\* A capture step that only moves to pc.
Move(pc) ==
  /\ capPc' = pc
  /\ UNCHANGED <<ctxVars, boxVars, devVars, supVars, joinable, capChannel,
                 usbErrors, srvVars, asked>>

\* CreateRtlDevice and BringUp. An exception goes to the catch clauses.
BringUp ==
  /\ capPc = "bringUp"
  /\ \/ curChannel' = capChannel /\ capPc' = "loop"
     \/ UNCHANGED curChannel /\ capPc' = "fault"
  /\ capChannel' = NoChannel
  /\ UNCHANGED <<ctxVars, boxVars, usb, aggKey, supVars, joinable, usbErrors,
                 srvVars, asked>>

LoopHead ==
  /\ capPc = "loop"
  /\ Move(IF shouldStop THEN "release" ELSE "tune")

\* A tune the driver throws on is ignored: the channel stays.
ApplyTune ==
  /\ capPc = "tune"
  /\ reqs' = [reqs EXCEPT !.tune = NoChannel]
  /\ IF reqs.tune # NoChannel
     THEN curChannel' \in {reqs.tune, curChannel}
     ELSE UNCHANGED curChannel
  /\ capPc' = "key"
  /\ UNCHANGED <<ctxVars, cfg, usb, aggKey, supVars, joinable, capChannel,
                 usbErrors, srvVars, asked>>

\* The aggregator is rebuilt with the staged key, or its construction throws.
ApplyKey ==
  /\ capPc = "key"
  /\ reqs' = [reqs EXCEPT !.key = NoKey]
  /\ \/ /\ aggKey' = IF reqs.key # NoKey THEN reqs.key ELSE aggKey
        /\ capPc' = "read"
     \/ /\ reqs.key # NoKey
        /\ capPc' = "keyFailed"
        /\ UNCHANGED aggKey
  /\ UNCHANGED <<ctxVars, cfg, usb, curChannel, supVars, joinable, capChannel,
                 usbErrors, srvVars, asked>>

\* Variant: a failed reseed is only logged, as a failed tune is.
KeyFailedLogged ==
  /\ capPc = "keyFailed"
  /\ capPc' = "read"
  /\ UNCHANGED <<ctxVars, boxVars, devVars, supVars, joinable, capChannel,
                 usbErrors, srvVars, asked>>

\* A failed reseed sets Error, and the capture loop goes on.
KeyFailed ==
  /\ capPc = "keyFailed"
  /\ state' = "error"
  /\ capPc' = "read"
  /\ UNCHANGED <<shouldStop, captureFinished, boxVars, devVars, supVars,
                 joinable, capChannel, usbErrors, srvVars, asked>>

\* Variant: one read error too many is tolerated.
ReadOncePatient ==
  /\ capPc = "read"
  /\ \/ usbErrors' = 0 /\ capPc' = "loop"
     \/ usbErrors' = usbErrors /\ capPc' \in {"loop", "fault"}
     \/ /\ usbErrors' = usbErrors + 1
        /\ capPc' = IF usbErrors' > MaxUsbErrors THEN "fault" ELSE "loop"
  /\ UNCHANGED <<ctxVars, boxVars, devVars, supVars, joinable, capChannel,
                 srvVars, asked>>

\* ReadOnce returned: packets (the streak ends), a timeout (it stays), the
\* device is gone (fatal), or another error (fatal at MaxUsbErrors in a row).
ReadOnce ==
  /\ capPc = "read"
  /\ \/ usbErrors' = 0 /\ capPc' = "loop"
     \/ usbErrors' = usbErrors /\ capPc' \in {"loop", "fault"}
     \/ /\ usbErrors' = usbErrors + 1
        /\ capPc' = IF usbErrors' >= MaxUsbErrors THEN "fault" ELSE "loop"
  /\ UNCHANGED <<ctxVars, boxVars, devVars, supVars, joinable, capChannel,
                 srvVars, asked>>

\* Variant: an error path of the thread that skips the teardown.
FaultWithoutRelease ==
  /\ capPc = "fault"
  /\ state' = "error"
  /\ capPc' = "final"
  /\ UNCHANGED <<shouldStop, captureFinished, boxVars, devVars, supVars,
                 joinable, capChannel, usbErrors, srvVars, asked>>

\* The catch clauses.
Fault ==
  /\ capPc = "fault"
  /\ state' = "error"
  /\ capPc' = "release"
  /\ UNCHANGED <<shouldStop, captureFinished, boxVars, devVars, supVars,
                 joinable, capChannel, usbErrors, srvVars, asked>>

\* Variant: captureFinished is raised before the terminal state is stored.
ReleaseFinished ==
  /\ capPc = "release"
  /\ usb' = UsbClosed
  /\ captureFinished' = TRUE
  /\ capPc' = "final"
  /\ UNCHANGED <<state, shouldStop, boxVars, aggKey, curChannel, supVars,
                 joinable, capChannel, usbErrors, srvVars, asked>>

Release ==
  /\ capPc = "release"
  /\ usb' = UsbClosed
  /\ capPc' = "final"
  /\ UNCHANGED <<ctxVars, boxVars, aggKey, curChannel, supVars, joinable,
                 capChannel, usbErrors, srvVars, asked>>

\* A clean exit returns the session to idle: load, compare, store.
FinalLoad ==
  /\ capPc = "final"
  /\ Move(IF state # "error" THEN "toIdle" ELSE "finish")

ToIdle ==
  /\ capPc = "toIdle"
  /\ state' = "idle"
  /\ capPc' = "finish"
  /\ UNCHANGED <<shouldStop, captureFinished, boxVars, devVars, supVars,
                 joinable, capChannel, usbErrors, srvVars, asked>>

\* The thread's last action.
Finish ==
  /\ capPc = "finish"
  /\ captureFinished' = TRUE
  /\ capPc' = "done"
  /\ UNCHANGED <<state, shouldStop, boxVars, devVars, supVars, joinable,
                 capChannel, usbErrors, srvVars, asked>>

Capture ==
  \/ BringUp \/ LoopHead \/ ApplyTune \/ ApplyKey \/ KeyFailed \/ ReadOnce
  \/ Fault \/ Release \/ FinalLoad \/ ToIdle \/ Finish

-----------------------------------------------------------------------------
(* The control server answers one request at a time. Its handlers look at  *)
(* the state first and stage afterwards.                                   *)

\* A server step that only moves to pc.
Serve(pc) ==
  /\ srvPc' = pc
  /\ UNCHANGED <<ctxVars, boxVars, devVars, supVars, capVars, srvPatch,
                 srvChannel, asked>>

\* run_ is tested before accept; a connection accepted just before run_
\* becomes false is still handled.
Accept ==
  /\ srvPc = "accept"
  /\ supPc \notin {"awaitServer", "exited"}
  /\ Serve("request")

ServerLeaves ==
  /\ srvPc = "accept"
  /\ supPc = "awaitServer"
  /\ Serve("down")

\* A request that stages nothing: GET, or one refused with 4xx or 503.
Answer ==
  /\ srvPc = "request"
  /\ Serve("accept")

\* POST /start that passes the 409 check and the range checks.
HandleStart(p) ==
  /\ srvPc = "request"
  /\ state \notin Busy
  /\ srvPc' = "startMerge" /\ srvPatch' = p
  /\ UNCHANGED <<ctxVars, boxVars, devVars, supVars, capVars, srvChannel,
                 asked>>

StartMerge ==
  /\ srvPc = "startMerge"
  /\ cfg' = Merge(cfg, srvPatch)
  /\ srvPc' = "startStage" /\ srvPatch' = NoPatch
  /\ UNCHANGED <<ctxVars, reqs, devVars, supVars, capVars, srvChannel, asked>>

StartStage ==
  /\ srvPc = "startStage"
  /\ reqs' = [reqs EXCEPT !.start = TRUE]
  /\ srvPc' = "accept"
  /\ UNCHANGED <<ctxVars, cfg, devVars, supVars, capVars, srvPatch,
                 srvChannel, asked>>

\* POST /stop is always accepted.
HandleStop ==
  /\ srvPc = "request"
  /\ reqs' = [reqs EXCEPT !.stop = TRUE]
  /\ srvPc' = "accept"
  /\ UNCHANGED <<ctxVars, cfg, devVars, supVars, capVars, srvPatch,
                 srvChannel, asked>>

\* POST /tune that passes the 409 check and the range checks.
HandleTune(ch) ==
  /\ srvPc = "request"
  /\ state = "streaming"
  /\ srvPc' = "tuneStage" /\ srvChannel' = ch
  /\ UNCHANGED <<ctxVars, boxVars, devVars, supVars, capVars, srvPatch,
                 asked>>

TuneStage ==
  /\ srvPc = "tuneStage"
  /\ reqs' = [reqs EXCEPT !.tune = srvChannel]
  /\ asked' = IF asked.stale
              THEN [asked EXCEPT !.late = @ \cup {srvChannel}, !.stale = FALSE]
              ELSE [asked EXCEPT !.channels = @ \cup {srvChannel}]
  /\ srvPc' = "accept" /\ srvChannel' = NoChannel
  /\ UNCHANGED <<ctxVars, cfg, devVars, supVars, capVars, srvPatch>>

\* POST /key whose sealed box opens: accepted in every state.
HandleKey(k) ==
  /\ srvPc = "request"
  /\ reqs' = [reqs EXCEPT !.key = k]
  /\ srvPc' = "accept"
  /\ UNCHANGED <<ctxVars, cfg, devVars, supVars, capVars, srvPatch,
                 srvChannel, asked>>

Server ==
  \/ Answer \/ HandleStop
  \/ \E p \in StartBodies : HandleStart(p)
  \/ \E ch \in Channels : HandleTune(ch)
  \/ \E k \in Keys : HandleKey(k)
  \/ StartMerge \/ StartStage \/ TuneStage \/ ServerLeaves

-----------------------------------------------------------------------------
(* main() has returned. *)
Terminated == supPc = "exited" /\ UNCHANGED vars

Next == Supervisor \/ Capture \/ Accept \/ Server \/ Signal \/ Terminated

Spec == Init /\ [][Next]_vars

\* Each thread that can take its next step takes it: the run loop sleeps at
\* most 200 ms, ReadOnce returns within its USB timeout, and a handler ends.
\* Nothing makes a client send a request or a user send a signal.
FairSpec == Spec /\ WF_vars(Supervisor) /\ WF_vars(Capture) /\ WF_vars(Server)

-----------------------------------------------------------------------------
(* Types. *)

TypeCtx == /\ state \in SessionStates
           /\ shouldStop \in BOOLEAN /\ captureFinished \in BOOLEAN
TypeBox == /\ reqs \in [start : BOOLEAN, stop : BOOLEAN,
                        tune : Channels \cup {NoChannel},
                        key : Keys \cup {NoKey}]
           /\ cfg \in Configs
TypeDev == /\ usb \in [ctx : BOOLEAN, dev : BOOLEAN, claimed : BOOLEAN]
           /\ aggKey \in Keys \cup {FileKey, NoKey}
           /\ curChannel \in Channels \cup {NoChannel}
TypeSup == /\ supPc \in SupPcs
           /\ gRun \in BOOLEAN /\ exiting \in BOOLEAN
           /\ startChannel \in Channels \cup {NoChannel}
TypeCap == /\ joinable \in BOOLEAN /\ capPc \in CapPcs
           /\ capChannel \in Channels \cup {NoChannel}
           /\ usbErrors \in 0..MaxUsbErrors
           /\ capPc \in Listening \cup {"bringUp"} => usbErrors < MaxUsbErrors
TypeSrv == /\ srvPc \in SrvPcs /\ srvPatch \in Patches
           /\ srvChannel \in Channels \cup {NoChannel}
TypeAsked == asked \in [channels : SUBSET (Channels \cup {NoChannel}),
                       late : SUBSET (Channels \cup {NoChannel}),
                       stale : BOOLEAN]

TypeOK == TypeCtx /\ TypeBox /\ TypeDev /\ TypeSup /\ TypeCap /\ TypeSrv
          /\ TypeAsked

-----------------------------------------------------------------------------
(* Safety. *)

\* While Start writes the members no lock guards (usbCtx_, devHandle_,
\* aggregator_, usbThread_) there is no capture thread that could use them.
ExclusiveReceiver == supPc \in StartSection => capPc = "none"

\* The adapter is held exactly when somebody is there to give it back: a
\* capture thread in its device section holds context, device and interface,
\* and when neither it nor Start owns them nothing is left open (every error
\* path of Start, of the capture thread, of shutdown).
HandleDiscipline ==
  /\ capPc \in DeviceSection => usb.ctx /\ usb.dev /\ usb.claimed
  /\ capPc \notin DeviceSection /\ supPc \notin StartSection
       => usb = UsbClosed

\* The supervisor never blocks in the reaping Join: captureFinished and a
\* terminal state are seen only after the thread's last action.
ReapDoesNotBlock == supPc = "join" => capPc = "done"

\* "streaming" is never the state of a dead session: a capture thread that
\* still reads, or is about to be spawned, stands behind it. This is what
\* storing Streaming before the spawn is for (WFBReceiver::Start).
StreamingIsLive ==
  state = "streaming" =>
     \/ supPc = "spawn"
     \/ capPc \in DeviceSection \ {"release"}

\* The capture loop listens on the channel its session was started with or on
\* one a request staged since: never on a channel left in the mailbox by an
\* earlier session.
ChannelHonored ==
  capPc \in Listening => curChannel \in asked.channels \cup asked.late

-----------------------------------------------------------------------------
(* Why these hold: an inductive invariant.                                 *)

\* A thread object stands for a capture thread, and Start has none.
Ownership ==
  /\ joinable <=> capPc # "none"
  /\ supPc \in StartSection => ~joinable

\* Which handles are open at which step.
UsbOpened == [ctx |-> TRUE, dev |-> TRUE, claimed |-> TRUE]
HandleStages ==
  usb = CASE capPc \in DeviceSection -> UsbOpened
          [] supPc \in {"aggregator", "publish", "spawn"} -> UsbOpened
          [] supPc = "usbClaim" -> [UsbOpened EXCEPT !.claimed = FALSE]
          [] supPc = "usbOpen" -> [UsbClosed EXCEPT !.ctx = TRUE]
          [] OTHER -> UsbClosed

\* captureFinished outlives the thread only until it is cleared or for good.
Reaping ==
  /\ captureFinished =>
       capPc = "done"
       \/ supPc \in {"unflag", "stopServer", "awaitServer", "exited"}
  /\ supPc \in {"reapState", "join"} => capPc = "done"

\* Between a stop and the next start nothing streams.
Stopped ==
  /\ shouldStop \/ supPc = "stopFlag" => state # "streaming"
  /\ supPc \in StartSection \ {"startReset"} => ~shouldStop

\* Every channel the capture thread may come to is one asked for.
ChannelSources ==
  /\ supPc \in StartSection \ {"startReset"} => startChannel \in asked.channels
  /\ capPc = "bringUp" => capChannel \in asked.channels
  /\ reqs.tune # NoChannel => reqs.tune \in asked.channels \cup asked.late

SessionInv ==
  /\ TypeOK /\ Ownership /\ HandleStages /\ Reaping
  /\ Stopped /\ StreamingIsLive
  /\ ChannelSources /\ ChannelHonored

-----------------------------------------------------------------------------
(* The adapter lease. *)

owner == IF capPc \in DeviceSection THEN "capture"
         ELSE IF supPc \in StartSection THEN "starter" ELSE "nobody"
held == {h \in {"ctx", "dev", "claimed"} : usb[h]}
Lease == INSTANCE AdapterLease WITH owner <- owner, held <- held

\* The three threads implement the lease: the adapter goes from Start to one
\* capture thread complete, and comes back closed before it is taken again.
LeaseSpec == Lease!Spec

-----------------------------------------------------------------------------
(* Liveness. *)

\* A stop request ends the capture, whatever else is staged and whatever
\* state the session is in.
StopEndsCapture ==
  reqs.stop /\ capPc \in DeviceSection ~> capPc \notin DeviceSection

\* SIGINT or SIGTERM ends the process: no thread waits for ever for another.
SignalEndsProcess == ~gRun ~> supPc = "exited"

\* A key staged for a streaming session gets into force, unless a newer one
\* replaces it: takeKey empties the mailbox before the aggregator is rebuilt,
\* so a key whose rebuild throws is in neither place, and then the session
\* must not go on as streaming under the old key.
KeyTakesEffect ==
  \A k \in Keys :
     reqs.key = k /\ state = "streaming"
       ~> aggKey = k \/ reqs.key \in Keys \ {k} \/ state # "streaming"

-----------------------------------------------------------------------------
(* What the code's own comments say, and the code does not                   *)
(* keep in every interleaving.                                             *)

\* A start is run "only once not busy and any previous thread is reaped"
\* (openprlx_main.cpp:236): Start is never called with a thread to join.
StartOnlyReaped == supPc = "startGuard" => ~joinable

\* The terminal state of a capture thread always wins, so the supervisor
\* reaps it (WFBReceiver.cpp:150-154).
FinishedIsReaped == capPc = "done" ~> capPc = "none"

=============================================================================
