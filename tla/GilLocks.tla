------------------------------- MODULE GilLocks -------------------------------
(***************************************************************************)
(* The Rust locks that are taken by threads attached to Python, against    *)
(* the GIL: the once-lock of RUNTIME (runtime.rs), the mutex around        *)
(* TRACER_PROVIDER (tracing.rs) and the one around a BatchRecord's lazily  *)
(* converted record (batch_types.rs).                                      *)
(*                                                                         *)
(* Every log line of the Rust side runs Python code (logging.rs), and      *)
(* Python code can lose the GIL at any bytecode, so a thread that logs     *)
(* inside a lock may have to get the GIL back before it can unlock.  On a  *)
(* free-threaded interpreter there is no GIL (the module declares          *)
(* gil_used = false).                                                      *)
(***************************************************************************)
EXTENDS FiniteSets

CONSTANTS Inits,      \* threads that call init_tracing()
          Shutdowns,  \* threads that call shutdown_tracing()
          Calls,      \* threads that make a call on a synchronous client
          Reads,      \* threads that read `record` of one BatchRecord
          Builds,     \* the interpreters: "gil", "free-threaded"
          NoOne       \* no thread

ASSUME GilLocksAssumption ==
  /\ {NoOne, "empty", "ready"} \intersect (Inits \union Shutdowns \union Calls \union Reads) = {}
  /\ Inits \intersect (Shutdowns \union Calls \union Reads) = {}
  /\ Shutdowns \intersect (Calls \union Reads) = {}
  /\ Calls \intersect Reads = {}
  /\ Builds \subseteq {"gil", "free-threaded"}

VARIABLES
  build,     \* the interpreter the program runs on
  pc,        \* where each thread is
  gil,       \* who holds the GIL
  once,      \* RUNTIME: the thread that initialises it, "empty" or "ready"
  mutex,     \* who holds the mutex of TRACER_PROVIDER
  provider,  \* whose provider TRACER_PROVIDER holds
  active,    \* OTEL_ACTIVE
  cell,      \* who holds the mutex of the record cell
  poisoned,  \* a conversion panicked under that mutex
  cached,    \* the Python object in the cell, named by the thread that built it
  got        \* the object each reader was given

tracingVars == <<mutex, provider, active>>
cellVars == <<cell, poisoned, cached, got>>
vars == <<build, pc, gil, once, tracingVars, cellVars>>

Threads == Inits \union Shutdowns \union Calls \union Reads

Init ==
  /\ build \in Builds
  /\ pc = [t \in Threads |-> "idle"]
  /\ gil = NoOne
  /\ once = "empty"
  /\ mutex = NoOne
  /\ provider = NoOne
  /\ active = FALSE
  /\ cell = NoOne
  /\ poisoned = FALSE
  /\ cached = NoOne
  /\ got = [t \in Reads |-> NoOne]

Goto(t, label) == pc' = [pc EXCEPT ![t] = label]

-------------------------------------------------------------------------------
(* The GIL *)

\* In Python code, a log line included, a thread does not keep the GIL: it may
\* be switched out at any bytecode.  It needs the GIL to go on, and holds it
\* for as long as the native code it goes on to stays attached.
InPython == {"idle", "building", "logging", "reattach", "converting"}

GilFree == gil = NoOne
TakeGil(t) == GilFree /\ gil' = IF build = "gil" THEN t ELSE NoOne
LetGo(t) == gil' = IF gil = t THEN NoOne ELSE gil

-------------------------------------------------------------------------------
(* RUNTIME *)

\* LazyLock::force: the first thread runs the initializer, the others block
\* where they are, with what they hold.
ForceRuntime(t) ==
  /\ pc[t] \in {"enter", "block_on"}
  /\ \/ /\ once = "empty"
        /\ once' = t
        /\ Goto(t, "building")
        /\ LetGo(t)
     \/ /\ once = "ready"
        /\ Goto(t, IF pc[t] = "enter" THEN "exporter" ELSE "reattach")
        /\ UNCHANGED <<once, gil>>
  /\ UNCHANGED <<build, tracingVars, cellVars>>

\* The initializer's log line, then the runtime is there.  A synchronous call
\* was detached and is again.
RuntimeBuilt(t) ==
  /\ pc[t] = "building"
  /\ once' = "ready"
  /\ IF t \in Inits
       THEN Goto(t, "enter") /\ TakeGil(t)
       ELSE Goto(t, "block_on") /\ GilFree /\ UNCHANGED gil
  /\ UNCHANGED <<build, tracingVars, cellVars>>

-------------------------------------------------------------------------------
(* A call on a synchronous client: py.detach(|| RUNTIME.block_on(..)) *)

CallDetached(t) ==
  /\ t \in Calls
  /\ pc[t] = "idle"
  /\ GilFree
  /\ Goto(t, "block_on")
  /\ UNCHANGED <<build, gil, once, tracingVars, cellVars>>

CallReturned(t) ==
  /\ pc[t] = "reattach"
  /\ GilFree
  /\ Goto(t, "returned")
  /\ UNCHANGED <<build, gil, once, tracingVars, cellVars>>

-------------------------------------------------------------------------------
(* init_tracing and shutdown_tracing: neither detaches *)

InitStarted(t) ==
  /\ t \in Inits
  /\ pc[t] = "idle"
  /\ TakeGil(t)
  /\ Goto(t, "enter")
  /\ UNCHANGED <<build, once, tracingVars, cellVars>>

\* The exporter cannot be built: a warning, and tracing stays as it was.
ExporterFailed(t) ==
  /\ pc[t] = "exporter"
  /\ Goto(t, "returned")
  /\ LetGo(t)
  /\ UNCHANGED <<build, once, tracingVars, cellVars>>

ExporterBuilt(t) ==
  /\ pc[t] = "exporter"
  /\ Goto(t, "lock")
  /\ UNCHANGED <<build, gil, once, tracingVars, cellVars>>

ProviderInstalled(t) ==
  /\ t \in Inits
  /\ pc[t] = "lock"
  /\ mutex = NoOne
  /\ mutex' = t
  /\ provider' = t
  /\ Goto(t, "installed")
  /\ UNCHANGED <<build, gil, once, active, cellVars>>

TracingActivated(t) ==
  /\ pc[t] = "installed"
  /\ active' = TRUE
  /\ Goto(t, "logging")
  /\ LetGo(t)
  /\ UNCHANGED <<build, once, mutex, provider, cellVars>>

\* Mutant: the mutex guard is leaked.
TracingLoggedLocked(t) ==
  /\ pc[t] = "logging"
  /\ GilFree
  /\ Goto(t, "returned")
  /\ UNCHANGED <<build, gil, once, tracingVars, cellVars>>

\* The last log line, after which the mutex guard goes out of scope.
TracingLogged(t) ==
  /\ pc[t] = "logging"
  /\ GilFree
  /\ mutex' = NoOne
  /\ Goto(t, "returned")
  /\ UNCHANGED <<build, gil, once, provider, active, cellVars>>

\* Mutant: shutdown leaves the fast-path flag set.
ShutdownStartedActive(t) ==
  /\ t \in Shutdowns
  /\ pc[t] = "idle"
  /\ TakeGil(t)
  /\ Goto(t, "lock")
  /\ UNCHANGED <<build, once, tracingVars, cellVars>>

ShutdownStarted(t) ==
  /\ t \in Shutdowns
  /\ pc[t] = "idle"
  /\ TakeGil(t)
  /\ active' = FALSE
  /\ Goto(t, "lock")
  /\ UNCHANGED <<build, once, mutex, provider, cellVars>>

\* The provider is taken out, flushed and shut down, and that is logged.
ProviderShutDown(t) ==
  /\ t \in Shutdowns
  /\ pc[t] = "lock"
  /\ mutex = NoOne
  /\ provider # NoOne
  /\ mutex' = t
  /\ provider' = NoOne
  /\ Goto(t, "logging")
  /\ LetGo(t)
  /\ UNCHANGED <<build, once, active, cellVars>>

NothingToShutDown(t) ==
  /\ t \in Shutdowns
  /\ pc[t] = "lock"
  /\ mutex = NoOne
  /\ provider = NoOne
  /\ Goto(t, "returned")
  /\ LetGo(t)
  /\ UNCHANGED <<build, once, tracingVars, cellVars>>

-------------------------------------------------------------------------------
(* BatchRecord.record *)

ReadStarted(t) ==
  /\ t \in Reads
  /\ pc[t] = "idle"
  /\ TakeGil(t)
  /\ Goto(t, "lock_cell")
  /\ UNCHANGED <<build, once, tracingVars, cellVars>>

\* A reader that finds the mutex poisoned raises, one that finds the cached
\* object returns it.
ReadCached(t) ==
  /\ pc[t] = "lock_cell"
  /\ cell = NoOne
  /\ poisoned \/ cached # NoOne
  /\ got' = [got EXCEPT ![t] = IF poisoned THEN NoOne ELSE cached]
  /\ Goto(t, "returned")
  /\ LetGo(t)
  /\ UNCHANGED <<build, once, tracingVars, cell, poisoned, cached>>

\* The first reader converts, and the conversion logs, inside the mutex.
ConversionStarted(t) ==
  /\ pc[t] = "lock_cell"
  /\ cell = NoOne
  /\ ~poisoned /\ cached = NoOne
  /\ cell' = t
  /\ Goto(t, "converting")
  /\ LetGo(t)
  /\ UNCHANGED <<build, once, tracingVars, poisoned, cached, got>>

\* Mutant: the converted object is not kept.
ConvertedUncached(t) ==
  /\ pc[t] = "converting"
  /\ GilFree
  /\ got' = [got EXCEPT ![t] = t]
  /\ cell' = NoOne
  /\ Goto(t, "returned")
  /\ UNCHANGED <<build, gil, once, tracingVars, poisoned, cached>>

Converted(t) ==
  /\ pc[t] = "converting"
  /\ GilFree
  /\ cached' = t
  /\ got' = [got EXCEPT ![t] = t]
  /\ cell' = NoOne
  /\ Goto(t, "returned")
  /\ UNCHANGED <<build, gil, once, tracingVars, poisoned>>

\* The conversion raises, or panics and poisons the mutex.
ConversionFailed(t) ==
  /\ pc[t] = "converting"
  /\ GilFree
  /\ poisoned' \in BOOLEAN
  /\ cell' = NoOne
  /\ Goto(t, "returned")
  /\ UNCHANGED <<build, gil, once, tracingVars, cached, got>>

-------------------------------------------------------------------------------
Advance(t) ==
  \/ ForceRuntime(t)
  \/ RuntimeBuilt(t)
  \/ CallDetached(t)
  \/ CallReturned(t)
  \/ InitStarted(t)
  \/ ExporterFailed(t)
  \/ ExporterBuilt(t)
  \/ ProviderInstalled(t)
  \/ TracingActivated(t)
  \/ TracingLogged(t)
  \/ ShutdownStarted(t)
  \/ ProviderShutDown(t)
  \/ NothingToShutDown(t)
  \/ ReadStarted(t)
  \/ ReadCached(t)
  \/ ConversionStarted(t)
  \/ Converted(t)
  \/ ConversionFailed(t)

Next == \E t \in Threads : Advance(t)

Spec == Init /\ [][Next]_vars

\* A thread that can go on does, one after the other; every thread makes one
\* call, so no thread is overtaken for ever.
FairSpec == Spec /\ \A t \in Threads : WF_vars(Advance(t))

-------------------------------------------------------------------------------
(* Properties *)

Labels == {"idle", "building", "block_on", "reattach", "enter", "exporter",
           "lock", "installed", "logging", "lock_cell", "converting", "returned"}

\* Types, and who holds which lock where.
TypeOK ==
  /\ build \in Builds
  /\ pc \in [Threads -> Labels]
  /\ gil \in Threads \union {NoOne}
  /\ once \in Threads \union {"empty", "ready"}
  /\ provider \in Inits \union {NoOne}
  /\ active \in BOOLEAN
  /\ poisoned \in BOOLEAN
  /\ cached \in Reads \union {NoOne}
  /\ got \in [Reads -> Reads \union {NoOne}]
  /\ \A t \in Threads :
       /\ build = "gil" =>
            (gil = t <=> pc[t] \notin InPython \union {"block_on", "returned"})
       /\ pc[t] = "building" <=> once = t
       /\ pc[t] \in {"installed", "logging"} <=> mutex = t
       /\ pc[t] = "converting" <=> cell = t

\* OTEL_ACTIVE, the "fast-path flag: true only when tracer provider is
\* successfully initialized", however init and shutdown interleave under the GIL.
ActiveHasProvider == build = "gil" /\ active => provider # NoOne

\* One BatchRecord gives every reader the same Python object, and none once its
\* conversion panicked before it succeeded.
OneConversion ==
  \A s, t \in Reads :
    got[s] # NoOne /\ got[t] # NoOne => got[s] = got[t] /\ ~poisoned

\* Without a GIL every call returns: no cycle of locks, no lock left behind.
FreeThreadedCallsReturn ==
  \A t \in Threads :
    build = "free-threaded" /\ pc[t] # "idle" ~> pc[t] = "returned"

\* "Both are thread-safe and idempotent"
\* (docs/docs/integrations/observability/tracing.md): every call returns.
TracingCallsReturn ==
  \A t \in Inits \union Shutdowns : pc[t] # "idle" ~> pc[t] = "returned"

===============================================================================
