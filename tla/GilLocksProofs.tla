---------------------------- MODULE GilLocksProofs ----------------------------
(***************************************************************************)
(* Theorems about GilLocks, for any number of threads: one conversion per  *)
(* record, and, under the GIL, no tracing flag without its provider.  That *)
(* the second needs the GIL shows in the invariant: a shutdown that waits  *)
(* for the mutex keeps the GIL, and with it every init from the flag.      *)
(***************************************************************************)
EXTENDS GilLocks, TLAPS

\* Which threads get where.
Roles ==
  \A t \in Threads :
    /\ pc[t] \in {"enter", "exporter", "installed"} => t \in Inits
    /\ pc[t] \in {"lock", "logging"} => t \in Inits \union Shutdowns
    /\ pc[t] \in {"block_on", "reattach"} => t \in Calls
    /\ pc[t] = "building" => t \in Inits \union Calls
    /\ pc[t] \in {"lock_cell", "converting"} => t \in Reads

\* init keeps its provider until it unlocks, and a shutdown that waits for the
\* mutex has cleared the flag.
Installed ==
  \A t \in Threads :
    /\ pc[t] = "installed" => provider # NoOne
    /\ build = "gil" /\ t \in Shutdowns /\ pc[t] = "lock" => ~active

\* Whatever a reader was given is what the cell holds; it is filled once, and
\* never after a conversion has panicked.
CellFilledOnce ==
  /\ \A t \in Reads : got[t] \in {NoOne, cached}
  /\ poisoned => cached = NoOne
  /\ \A t \in Reads : pc[t] = "converting" => cached = NoOne /\ ~poisoned

IInv ==
  /\ TypeOK
  /\ Roles
  /\ Installed
  /\ ActiveHasProvider
  /\ CellFilledOnce

-------------------------------------------------------------------------------
(* Types, locks and roles *)

LEMMA InitIInv == Init => IInv
  BY GilLocksAssumption
  DEF Init, IInv, TypeOK, Labels, InPython, Roles, Installed, ActiveHasProvider,
      CellFilledOnce, Threads

LEMMA AdvanceTypeOK ==
  ASSUME TypeOK, Roles, NEW t \in Threads, Advance(t)
  PROVE  TypeOK' /\ Roles'
<1> USE GilLocksAssumption
    DEF TypeOK, Roles, Labels, InPython, Threads, Goto, TakeGil, GilFree, LetGo,
        tracingVars, cellVars
<1>1. CASE ForceRuntime(t)
  BY <1>1 DEF ForceRuntime
<1>2. CASE RuntimeBuilt(t)
  BY <1>2 DEF RuntimeBuilt
<1>3. CASE CallDetached(t)
  BY <1>3 DEF CallDetached
<1>4. CASE CallReturned(t)
  BY <1>4 DEF CallReturned
<1>5. CASE InitStarted(t)
  BY <1>5 DEF InitStarted
<1>6. CASE ExporterFailed(t)
  BY <1>6 DEF ExporterFailed
<1>7. CASE ExporterBuilt(t)
  BY <1>7 DEF ExporterBuilt
<1>8. CASE ProviderInstalled(t)
  BY <1>8 DEF ProviderInstalled
<1>9. CASE TracingActivated(t)
  BY <1>9 DEF TracingActivated
<1>10. CASE TracingLogged(t)
  BY <1>10 DEF TracingLogged
<1>11. CASE ShutdownStarted(t)
  BY <1>11 DEF ShutdownStarted
<1>12. CASE ProviderShutDown(t)
  BY <1>12 DEF ProviderShutDown
<1>13. CASE NothingToShutDown(t)
  BY <1>13 DEF NothingToShutDown
<1>14. CASE ReadStarted(t)
  BY <1>14 DEF ReadStarted
<1>15. CASE ReadCached(t)
  BY <1>15 DEF ReadCached
<1>16. CASE ConversionStarted(t)
  BY <1>16 DEF ConversionStarted
<1>17. CASE Converted(t)
  BY <1>17 DEF Converted
<1>18. CASE ConversionFailed(t)
  BY <1>18 DEF ConversionFailed
<1> QED
  BY <1>1, <1>2, <1>3, <1>4, <1>5, <1>6, <1>7, <1>8, <1>9,
     <1>10, <1>11, <1>12, <1>13, <1>14, <1>15, <1>16, <1>17, <1>18 DEF Advance

-------------------------------------------------------------------------------
(* The provider and its flag *)

\* Only the thread that holds the mutex changes the provider, and under the GIL
\* only the one that holds the GIL reaches for the flag.
LEMMA AdvanceInstalled ==
  ASSUME TypeOK, Roles, Installed, ActiveHasProvider, NEW t \in Threads, Advance(t)
  PROVE  Installed' /\ ActiveHasProvider'
<1> USE DEF Installed, ActiveHasProvider, Goto
<1> USE GilLocksAssumption DEF TypeOK
<1>1. CASE ProviderInstalled(t)
  BY <1>1 DEF ProviderInstalled, Threads
<1>2. CASE TracingActivated(t)
  <2>1. build = "gil" => gil = t
    BY <1>2 DEF TracingActivated, InPython
  <2>2. build = "gil" => \A s \in Threads : pc[s] = "lock" => gil = s
    BY DEF InPython
  <2> QED BY <1>2, <2>1, <2>2 DEF TracingActivated
<1>3. CASE ShutdownStarted(t)
  BY <1>3 DEF ShutdownStarted
<1>4. CASE ProviderShutDown(t)
  <2>1. \A s \in Threads : pc[s] # "installed"
    BY <1>4 DEF ProviderShutDown, Threads
  <2>2. build = "gil" => ~active
    BY <1>4 DEF ProviderShutDown, Threads
  <2> QED BY <1>4, <2>1, <2>2 DEF ProviderShutDown
<1>5. CASE ExporterBuilt(t)
  BY <1>5 DEF ExporterBuilt, Roles, Threads, tracingVars
<1>6. CASE ForceRuntime(t) \/ RuntimeBuilt(t) \/ CallDetached(t) \/ CallReturned(t)
  BY <1>6 DEF ForceRuntime, RuntimeBuilt, CallDetached, CallReturned, tracingVars
<1>7. CASE InitStarted(t) \/ ExporterFailed(t) \/ NothingToShutDown(t)
  BY <1>7 DEF InitStarted, ExporterFailed, NothingToShutDown, tracingVars
<1>8. CASE TracingLogged(t)
  BY <1>8 DEF TracingLogged
<1>9. CASE ReadStarted(t) \/ ReadCached(t) \/ ConversionStarted(t)
           \/ Converted(t) \/ ConversionFailed(t)
  BY <1>9 DEF ReadStarted, ReadCached, ConversionStarted, Converted,
              ConversionFailed, tracingVars
<1> QED
  BY <1>1, <1>2, <1>3, <1>4, <1>5, <1>6, <1>7, <1>8, <1>9 DEF Advance

-------------------------------------------------------------------------------
(* The record cell *)

LEMMA AdvanceCell ==
  ASSUME TypeOK, Roles, CellFilledOnce, NEW t \in Threads, Advance(t)
  PROVE  CellFilledOnce'
<1> USE GilLocksAssumption DEF TypeOK, CellFilledOnce, Goto
<1>1. CASE ReadCached(t)
  <2>1. t \in Reads
    BY <1>1 DEF ReadCached, Roles
  <2> QED BY <1>1, <2>1 DEF ReadCached, Threads
<1>2. CASE ConversionStarted(t)
  BY <1>2 DEF ConversionStarted, Threads
<1>3. CASE Converted(t) \/ ConversionFailed(t)
  <2>1. t \in Reads /\ cached = NoOne /\ ~poisoned
    BY <1>3 DEF Converted, ConversionFailed, Roles
  <2>2. \A s \in Reads : got[s] = NoOne
    BY <2>1
  <2>3. \A s \in Reads : s # t => pc[s] # "converting"
    BY <1>3 DEF Converted, ConversionFailed, Threads
  <2> QED BY <1>3, <2>1, <2>2, <2>3 DEF Converted, ConversionFailed, Threads
<1>4. CASE ReadStarted(t)
  BY <1>4 DEF ReadStarted, cellVars, Threads
<1>5. CASE ForceRuntime(t) \/ RuntimeBuilt(t) \/ CallDetached(t) \/ CallReturned(t)
  BY <1>5 DEF ForceRuntime, RuntimeBuilt, CallDetached, CallReturned, cellVars, Threads
<1>6. CASE InitStarted(t) \/ ExporterFailed(t) \/ ExporterBuilt(t) \/ ProviderInstalled(t)
           \/ TracingActivated(t) \/ TracingLogged(t)
  BY <1>6 DEF InitStarted, ExporterFailed, ExporterBuilt, ProviderInstalled,
              TracingActivated, TracingLogged, cellVars, Threads
<1>7. CASE ShutdownStarted(t) \/ ProviderShutDown(t) \/ NothingToShutDown(t)
  BY <1>7 DEF ShutdownStarted, ProviderShutDown, NothingToShutDown, cellVars, Threads
<1> QED BY <1>1, <1>2, <1>3, <1>4, <1>5, <1>6, <1>7 DEF Advance

-------------------------------------------------------------------------------
(* The invariant and what follows from it *)

LEMMA NextIInv == IInv /\ [Next]_vars => IInv'
<1> SUFFICES ASSUME IInv, [Next]_vars PROVE IInv'
  OBVIOUS
<1>1. CASE UNCHANGED vars
  BY <1>1 DEF IInv, TypeOK, Roles, Installed, ActiveHasProvider, CellFilledOnce, vars,
              tracingVars, cellVars
<1>2. ASSUME NEW t \in Threads, Advance(t) PROVE IInv'
  BY <1>2, AdvanceTypeOK, AdvanceInstalled, AdvanceCell DEF IInv
<1> QED BY <1>1, <1>2 DEF Next

\* The inductive invariant: who holds which lock where, what the provider is
\* then, and what the record cell has given out.
THEOREM Invariance == Spec => []IInv
  BY InitIInv, NextIInv, PTL DEF Spec

\* Under the GIL the fast-path flag is set only while there is a provider.
THEOREM FlagHasProvider == Spec => []ActiveHasProvider
<1>1. IInv => ActiveHasProvider
  BY DEF IInv
<1> QED BY <1>1, Invariance, PTL

\* Every reader of one BatchRecord is given the same object.
THEOREM ReadersShareOneObject == Spec => []OneConversion
<1>1. IInv => OneConversion
  BY GilLocksAssumption DEF IInv, TypeOK, CellFilledOnce, OneConversion
<1> QED BY <1>1, Invariance, PTL
===============================================================================
