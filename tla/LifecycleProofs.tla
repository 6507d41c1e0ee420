--------------------------- MODULE LifecycleProofs ---------------------------
(***************************************************************************)
(* For any number of requests: LifecycleInv is inductive, so a stop cuts   *)
(* nobody off before the shutdown timeout.                                 *)
(***************************************************************************)
EXTENDS Lifecycle, TLAPS

LEMMA LifecycleInit == Init => LifecycleInv
BY DEF Init, LifecycleInv, TypeOK, Main, Handler, ServesWithPools, DrainedInTime,
    NobodyCutInTime

LEMMA LifecycleNext ==
    ASSUME LifecycleInv, [Next]_vars
    PROVE  LifecycleInv'
<1> USE DEF LifecycleInv, TypeOK, Main, Handler, ServesWithPools, DrainedInTime,
    NobodyCutInTime
<1>1. CASE OpenStorage
  BY <1>1 DEF OpenStorage
<1>2. CASE OpenLocker
  BY <1>2 DEF OpenLocker
<1>3. CASE Serve
  BY <1>3 DEF Serve
<1>4. CASE CloseListener
  BY <1>4 DEF CloseListener
<1>5. CASE Drain
  BY <1>5 DEF Drain
<1>6. CASE CloseStorage
  BY <1>6 DEF CloseStorage
<1>7. CASE CloseLocker
  BY <1>7 DEF CloseLocker
<1>8. CASE ListenerFails
  BY <1>8 DEF ListenerFails
<1>9. CASE StopRequested
  BY <1>9 DEF StopRequested
<1>10. ASSUME NEW r \in Req, Accept(r)
      PROVE  LifecycleInv'
  BY <1>10 DEF Accept
<1>11. ASSUME NEW r \in Req, Complete(r)
       PROVE  LifecycleInv'
  BY <1>11 DEF Complete
<1>12. CASE UNCHANGED vars
  BY <1>12 DEF vars
<1> QED BY <1>1, <1>2, <1>3, <1>4, <1>5, <1>6, <1>7, <1>8, <1>9, <1>10, <1>11, <1>12
    DEF Next, MainStep, Stop

\* The invariant of the argument: connections are held only while both pools are
\* open, and a drain that met no timeout leaves nobody running.
THEOREM LifecycleHolds == Spec => []LifecycleInv
  BY LifecycleInit, LifecycleNext, PTL DEF Spec

\* A request loses its pools or its process only after the shutdown timeout.
THEOREM ShutdownIsGraceful == Spec => []NobodyCutInTime
<1>1. LifecycleInv => NobodyCutInTime
  BY DEF LifecycleInv
<1> QED BY <1>1, LifecycleInit, LifecycleNext, PTL DEF Spec
=============================================================================
