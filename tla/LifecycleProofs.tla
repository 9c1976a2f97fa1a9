--------------------------- MODULE LifecycleProofs ----------------------------
(***************************************************************************)
(* Theorems about one backend process, for any number of connections and   *)
(* signals.                                                                *)
(***************************************************************************)
EXTENDS Lifecycle, TLAPS

USE LifecycleAssumption

LEMMA InitInv == Init => IndInv
<1> SUFFICES ASSUME Init PROVE IndInv
  OBVIOUS
<1>1. TypeOK
  <2>1. signals \in 0..MaxSignals
    BY DEF Init
  <2>2. phase \in [Conns -> {"none", "idle", "running", "query", "closed"}]
    BY DEF Init
  <2>3. err \in BOOLEAN /\ closing \in BOOLEAN
    BY DEF Init
  <2> QED  BY <2>1, <2>2, <2>3 DEF Init, TypeOK, Ended
<1>2. StoresHeld /\ ResultOnce /\ StoresOutliveRequests
  BY DEF Init, StoresHeld, ResultOnce, StoresOutliveRequests, Starting, Draining, Leaving
<1>3. LeftBehind
  BY DEF Init, LeftBehind, Starting, Draining, Leaving, Busy
<1> QED  BY <1>1, <1>2, <1>3 DEF IndInv

(* Startup fails or moves on; there is no request yet. *)
LEMMA StartupStep ==
    ASSUME IndInv, Startup
    PROVE  IndInv'
<1>1. CASE LoadConfig
  BY <1>1 DEF IndInv, TypeOK, StoresHeld, ResultOnce, LeftBehind, StoresOutliveRequests,
     Starting, Draining, Leaving, Ended, Busy, LoadConfig, Fail, Unwind, stores, http
<1>2. CASE ConnectPostgres
  BY <1>2 DEF IndInv, TypeOK, StoresHeld, ResultOnce, LeftBehind, StoresOutliveRequests,
     Starting, Draining, Leaving, Ended, Busy, ConnectPostgres, Fail, Unwind, stores, http
<1>3. CASE RunMigrations
  BY <1>3 DEF IndInv, TypeOK, StoresHeld, ResultOnce, LeftBehind, StoresOutliveRequests,
     Starting, Draining, Leaving, Ended, Busy, RunMigrations, UseDatabase, Fail, Unwind, stores, http
<1>4. CASE VerifyEmbedding
  BY <1>4 DEF IndInv, TypeOK, StoresHeld, ResultOnce, LeftBehind, StoresOutliveRequests,
     Starting, Draining, Leaving, Ended, Busy, VerifyEmbedding, UseDatabase, Fail, Unwind, stores, http
<1>5. CASE ConnectRedis
  BY <1>5 DEF IndInv, TypeOK, StoresHeld, ResultOnce, LeftBehind, StoresOutliveRequests,
     Starting, Draining, Leaving, Ended, Busy, ConnectRedis, Fail, Unwind, stores, http
<1>6. CASE Wire
  BY <1>6 DEF IndInv, TypeOK, StoresHeld, ResultOnce, LeftBehind, StoresOutliveRequests,
     Starting, Draining, Leaving, Ended, Busy, Wire, Fail, Unwind, stores, http
<1>7. CASE Listen
  BY <1>7 DEF IndInv, TypeOK, StoresHeld, ResultOnce, LeftBehind, StoresOutliveRequests,
     Starting, Draining, Leaving, Ended, Busy, Listen, Fail, Unwind, stores, http
<1> QED  BY <1>1, <1>2, <1>3, <1>4, <1>5, <1>6, <1>7 DEF Startup

(* The accepting goroutine sends its result once, before main may leave. *)
LEMMA AcceptorStep ==
    ASSUME IndInv, Acceptor \/ AcceptFails
    PROVE  IndInv'
<1>1. CASE AcceptorStarts
  BY <1>1 DEF IndInv, TypeOK, StoresHeld, ResultOnce, LeftBehind, StoresOutliveRequests,
     Starting, Draining, Leaving, Ended, Busy, AcceptorStarts, main, stores
<1>2. CASE AcceptorStops
  BY <1>2 DEF IndInv, TypeOK, StoresHeld, ResultOnce, LeftBehind, StoresOutliveRequests,
     Starting, Draining, Leaving, Ended, Busy, AcceptorStops, main, stores
<1>3. CASE AcceptFails
  BY <1>3 DEF IndInv, TypeOK, StoresHeld, ResultOnce, LeftBehind, StoresOutliveRequests,
     Starting, Draining, Leaving, Ended, Busy, AcceptFails, main, stores
<1> QED  BY <1>1, <1>2, <1>3 DEF Acceptor

(* Main, from select to the last defer. *)
LEMMA ShutdownStep ==
    ASSUME IndInv,
           \/ ServeReturned \/ BeginShutdown \/ Drained \/ GraceExpires
           \/ ForceClose \/ Await \/ CloseRedis \/ ClosePool
    PROVE  IndInv'
<1>1. CASE ServeReturned
  BY <1>1 DEF IndInv, TypeOK, StoresHeld, ResultOnce, LeftBehind, StoresOutliveRequests,
     Starting, Draining, Leaving, Ended, Busy, ServeReturned, Unwind, stores
<1>2. CASE BeginShutdown
  BY <1>2 DEF IndInv, TypeOK, StoresHeld, ResultOnce, LeftBehind, StoresOutliveRequests,
     Starting, Draining, Leaving, Ended, Busy, BeginShutdown, stores
<1>3. CASE Drained
  BY <1>3 DEF IndInv, TypeOK, StoresHeld, ResultOnce, LeftBehind, StoresOutliveRequests,
     Starting, Draining, Leaving, Ended, Busy, Drained, Closed, stores, http
<1>4. CASE GraceExpires
  BY <1>4 DEF IndInv, TypeOK, StoresHeld, ResultOnce, LeftBehind, StoresOutliveRequests,
     Starting, Draining, Leaving, Ended, Busy, GraceExpires, stores, http
<1>5. CASE ForceClose
  BY <1>5 DEF IndInv, TypeOK, StoresHeld, ResultOnce, LeftBehind, StoresOutliveRequests,
     Starting, Draining, Leaving, Ended, Busy, ForceClose, Closed, stores, http
<1>6. CASE Await
  BY <1>6 DEF IndInv, TypeOK, StoresHeld, ResultOnce, LeftBehind, StoresOutliveRequests,
     Starting, Draining, Leaving, Ended, Busy, Await, Unwind, stores
<1>7. CASE CloseRedis
  BY <1>7 DEF IndInv, TypeOK, StoresHeld, ResultOnce, LeftBehind, StoresOutliveRequests,
     Starting, Draining, Leaving, Ended, Busy, CloseRedis, http
<1>8. CASE ClosePool
  BY <1>8 DEF IndInv, TypeOK, StoresHeld, ResultOnce, LeftBehind, StoresOutliveRequests,
     Starting, Draining, Leaving, Ended, Busy, ClosePool, Exit, http
<1> QED  BY <1>1, <1>2, <1>3, <1>4, <1>5, <1>6, <1>7, <1>8

(* A request meets a closed store only if it was cut off, or the listener  *)
(* had failed.                                                             *)
LEMMA HandlerStep ==
    ASSUME IndInv, NEW c \in Conns, Handler(c)
    PROVE  IndInv'
<1>1. CASE Connect(c)
  BY <1>1 DEF IndInv, TypeOK, StoresHeld, ResultOnce, LeftBehind, StoresOutliveRequests,
     Starting, Draining, Leaving, Ended, Busy, Connect, main, stores, http
<1>2. CASE Arrive(c)
  BY <1>2 DEF IndInv, TypeOK, StoresHeld, ResultOnce, LeftBehind, StoresOutliveRequests,
     Starting, Draining, Leaving, Ended, Busy, Arrive, main, stores, http
<1>3. CASE Acquire(c)
  BY <1>3 DEF IndInv, TypeOK, StoresHeld, ResultOnce, LeftBehind, StoresOutliveRequests,
     Starting, Draining, Leaving, Ended, Busy, Acquire, main, stores, http
<1>4. CASE Release(c)
  BY <1>4 DEF IndInv, TypeOK, StoresHeld, ResultOnce, LeftBehind, StoresOutliveRequests,
     Starting, Draining, Leaving, Ended, Busy, Release, main, stores, http
<1>5. CASE Starve(c)
  BY <1>5 DEF Handler, IndInv, TypeOK, StoresHeld, ResultOnce, LeftBehind, StoresOutliveRequests,
     Starting, Draining, Leaving, Ended, Busy, Starve, main, stores, http
<1>6. CASE Answer(c)
  BY <1>6 DEF IndInv, TypeOK, StoresHeld, ResultOnce, LeftBehind, StoresOutliveRequests,
     Starting, Draining, Leaving, Ended, Busy, Answer, main, stores, http
<1> QED  BY <1>1, <1>2, <1>3, <1>4, <1>5, <1>6 DEF Handler

LEMMA NextInv == IndInv /\ [Next]_vars => IndInv'
<1> SUFFICES ASSUME IndInv, [Next]_vars PROVE IndInv'
  OBVIOUS
<1>1. CASE Main
  BY <1>1, StartupStep, ShutdownStep DEF Main
<1>2. CASE Acceptor \/ AcceptFails
  BY <1>2, AcceptorStep
<1>3. CASE \E c \in Conns : Handler(c)
  BY <1>3, HandlerStep
<1>4. CASE Signal
  BY <1>4 DEF IndInv, TypeOK, StoresHeld, ResultOnce, LeftBehind, StoresOutliveRequests,
     Starting, Draining, Leaving, Ended, Busy, Signal, main, stores, http
<1>5. CASE Kill
  BY <1>5 DEF IndInv, TypeOK, StoresHeld, ResultOnce, LeftBehind, StoresOutliveRequests,
     Starting, Draining, Leaving, Ended, Busy, Kill, Exit, stores, http
<1>6. CASE UNCHANGED vars
  BY <1>6 DEF IndInv, TypeOK, StoresHeld, ResultOnce, LeftBehind, StoresOutliveRequests,
     Starting, Draining, Leaving, Ended, Busy, vars, main, stores, http
<1> QED  BY <1>1, <1>2, <1>3, <1>4, <1>5, <1>6 DEF Next

(* The inductive invariant holds of every process. *)
THEOREM Invariance == Spec => []IndInv
BY InitInv, NextInv, PTL DEF Spec

(* Until the listener fails, a request whose connection is open finds the  *)
(* pool and the Redis client open.                                         *)
THEOREM StoresStayOpen == Spec => []StoresOutliveRequests
<1>1. IndInv => StoresOutliveRequests
  BY DEF IndInv
<1> QED  BY <1>1, Invariance, PTL

(* Exit status 0 means that no request in flight was dropped. *)
THEOREM CleanExit == Spec => []CleanExitDropsNothing
<1>1. IndInv => CleanExitDropsNothing
  BY DEF IndInv, CleanExitDropsNothing, LeftBehind, StoresOutliveRequests, Leaving
<1> QED  BY <1>1, Invariance, PTL

(* A failed listener is never reported as a clean stop. *)
THEOREM FailureReported == Spec => []ListenerFailureReported
<1>1. IndInv => ListenerFailureReported
  BY DEF IndInv, ListenerFailureReported, LeftBehind, Leaving
<1> QED  BY <1>1, Invariance, PTL

(* run leaves nothing open on any path. *)
THEOREM AllClosed == Spec => []NothingLeftOpen
<1>1. IndInv => NothingLeftOpen
  BY DEF IndInv, NothingLeftOpen, TypeOK, StoresHeld, ResultOnce, Leaving, Ended
<1> QED  BY <1>1, Invariance, PTL
===============================================================================
