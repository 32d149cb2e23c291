----------------------------- MODULE PolicyBoot -----------------------------
(***************************************************************************)
(* Where a process gets its policy bundle: build_default_interceptor of    *)
(* bootstrap.py with the PolicyLoader of policy_pac/loader.py and the      *)
(* LocalPolicyCache of core/cache.py.                                      *)
(*                                                                         *)
(* Server processes start, crash and restart, each on its own; they share  *)
(* the policy file, which operators edit, and the cache directory.         *)
(* write_bytes opens the cached bundle's file, which empties it, and then  *)
(* writes it: a crash, a full disk or another process may come in between. *)
(* A bundle is its version number.  The meta file is written, never read.  *)
(***************************************************************************)
EXTENDS Integers

CONSTANTS
  Processes,    \* server processes that share the files
  MaxVersion,   \* bound on the versions operators publish
  MaxCrashes    \* bound on the crashes

ASSUME BootAssumption == MaxVersion \in Nat \ {0} /\ MaxCrashes \in Nat

Versions == 1 .. MaxVersion

\* What a file may hold instead of a bundle.
Absent == 0
Empty == -1
Garbled == -2

VARIABLES
  policy,       \* the policy file
  published,    \* the latest version published
  cache,        \* the cache's bundle file
  step,         \* where each process is in its start
  bundle,       \* the bundle a process has loaded, and runs once it is up
  sourceBad,    \* history: processes whose policy file did not load
  fromCache,    \* history: processes whose bundle is the cached one
  interrupted,  \* history: a write of the cache was cut short or overlapped
  crashes

startVars == <<step, bundle, sourceBad, fromCache>>
vars == <<policy, published, cache, step, bundle, sourceBad, fromCache,
          interrupted, crashes>>

Writing == {p \in Processes : step[p] = "writing"}

Init ==
  /\ policy = 1 /\ published = 1
  /\ cache = Absent
  /\ step = [p \in Processes |-> "down"]
  /\ bundle = [p \in Processes |-> Absent]
  /\ sourceBad = {} /\ fromCache = {}
  /\ interrupted = FALSE
  /\ crashes = 0

-----------------------------------------------------------------------------
\* Operators: a new version, an edit that does not parse, and its repair.
Publish ==
  /\ published < MaxVersion
  /\ published' = published + 1
  /\ policy' = published + 1
  /\ UNCHANGED <<cache, startVars, interrupted, crashes>>

Spoil ==
  /\ policy \in Versions
  /\ policy' = Garbled
  /\ UNCHANGED <<published, cache, startVars, interrupted, crashes>>

Repair ==
  /\ policy = Garbled
  /\ policy' = published
  /\ UNCHANGED <<published, cache, startVars, interrupted, crashes>>

-----------------------------------------------------------------------------
\* loader.load(): the file parses and validates, or an exception is raised.
Load(p) ==
  /\ step[p] = "down"
  /\ \/ /\ policy \in Versions
        /\ step' = [step EXCEPT ![p] = "saving"]
        /\ bundle' = [bundle EXCEPT ![p] = policy]
        /\ sourceBad' = sourceBad \ {p}
     \/ /\ policy \notin Versions
        /\ step' = [step EXCEPT ![p] = "falling"]
        /\ sourceBad' = sourceBad \cup {p}
        /\ UNCHANGED bundle
  /\ fromCache' = fromCache \ {p}
  /\ UNCHANGED <<policy, published, cache, interrupted, crashes>>

\* cache.save() that leaves the cached file empty until the process ends.
Mutant_WriteAtClose(p) ==
  /\ step[p] = "saving"
  /\ cache' = Empty
  /\ step' = [step EXCEPT ![p] = "meta"]
  /\ UNCHANGED <<policy, published, bundle, sourceBad, fromCache, interrupted, crashes>>

\* cache.save(): the bundle's file is opened for writing.
OpenCache(p) ==
  /\ step[p] = "saving"
  /\ cache' = Empty
  /\ step' = [step EXCEPT ![p] = "writing"]
  /\ interrupted' = (interrupted \/ Writing # {})
  /\ UNCHANGED <<policy, published, bundle, sourceBad, fromCache, crashes>>

\* The bundle is written from the start of the file; over another version,
\* a shorter one leaves the end of that behind.
WriteCache(p) ==
  /\ step[p] = "writing"
  /\ \/ cache' = bundle[p]
     \/ cache \notin {Empty, bundle[p]} /\ cache' = Garbled
  /\ step' = [step EXCEPT ![p] = "meta"]
  /\ UNCHANGED <<policy, published, bundle, sourceBad, fromCache, interrupted, crashes>>

\* The meta file is written and the engine gets the loaded bundle.
WriteMeta(p) ==
  /\ step[p] = "meta"
  /\ step' = [step EXCEPT ![p] = "up"]
  /\ UNCHANGED <<policy, published, cache, bundle, sourceBad, fromCache,
                 interrupted, crashes>>

\* A save that ends here: a write it was in may have written a part.
CutShort(p) ==
  /\ interrupted' = (interrupted \/ step[p] = "writing")
  /\ \/ UNCHANGED cache
     \/ step[p] = "writing" /\ cache' = Garbled

\* cache.save() raises: the directory or the disk refuses a write.
SaveFails(p) ==
  /\ step[p] \in {"saving", "writing", "meta"}
  /\ step' = [step EXCEPT ![p] = "falling"]
  /\ CutShort(p)
  /\ UNCHANGED <<policy, published, bundle, sourceBad, fromCache, crashes>>

\* A cached file is taken as it is.
Mutant_LoadUnparsed(p) ==
  /\ step[p] = "falling"
  /\ cache # Absent
  /\ step' = [step EXCEPT ![p] = "up"]
  /\ bundle' = [bundle EXCEPT ![p] = cache]
  /\ fromCache' = fromCache \cup {p}
  /\ UNCHANGED <<policy, published, cache, sourceBad, interrupted, crashes>>

\* The cache is trusted only when it holds the latest version.
Mutant_FreshCacheOnly(p) ==
  /\ step[p] = "falling"
  /\ cache \in Versions /\ cache = published
  /\ step' = [step EXCEPT ![p] = "up"]
  /\ bundle' = [bundle EXCEPT ![p] = cache]
  /\ fromCache' = fromCache \cup {p}
  /\ UNCHANGED <<policy, published, cache, sourceBad, interrupted, crashes>>

\* Any exception so far: the cached bundle, where it loads.
FallBack(p) ==
  /\ step[p] = "falling"
  /\ cache \in Versions
  /\ step' = [step EXCEPT ![p] = "up"]
  /\ bundle' = [bundle EXCEPT ![p] = cache]
  /\ fromCache' = fromCache \cup {p}
  /\ UNCHANGED <<policy, published, cache, sourceBad, interrupted, crashes>>

\* No cache, or one that does not load: the exception ends the process.
GiveUp(p) ==
  /\ step[p] = "falling"
  /\ cache \notin Versions
  /\ step' = [step EXCEPT ![p] = "down"]
  /\ UNCHANGED <<policy, published, cache, bundle, sourceBad, fromCache,
                 interrupted, crashes>>

\* A process is killed, at any point of its start or its work.
Crash(p) ==
  /\ step[p] # "down"
  /\ crashes < MaxCrashes
  /\ crashes' = crashes + 1
  /\ step' = [step EXCEPT ![p] = "down"]
  /\ CutShort(p)
  /\ UNCHANGED <<policy, published, bundle, sourceBad, fromCache>>

Save(p) == OpenCache(p) \/ WriteCache(p) \/ WriteMeta(p) \/ SaveFails(p)

Next ==
  \/ Publish \/ Spoil \/ Repair
  \/ \E p \in Processes :
       \/ Load(p) \/ OpenCache(p) \/ WriteCache(p) \/ WriteMeta(p) \/ SaveFails(p)
       \/ FallBack(p) \/ GiveUp(p) \/ Crash(p)

Spec == Init /\ [][Next]_vars

\* A process that is down is started again, and a start takes its course.
Fairness ==
  \A p \in Processes :
    WF_vars(Load(p)) /\ WF_vars(Save(p)) /\ WF_vars(FallBack(p) \/ GiveUp(p))

LiveSpec == Spec /\ Fairness

-----------------------------------------------------------------------------
TypeOK ==
  /\ published \in Versions
  /\ policy \in Versions \cup {Garbled}
  /\ cache \in Versions \cup {Absent, Empty, Garbled}
  /\ step \in [Processes ->
                 {"down", "saving", "writing", "meta", "falling", "up"}]
  /\ bundle \in [Processes -> Versions \cup {Absent}]
  /\ sourceBad \in SUBSET Processes
  /\ fromCache \in SUBSET Processes
  /\ interrupted \in BOOLEAN
  /\ crashes \in 0 .. MaxCrashes

(***************************************************************************)
(* A process that is up runs a bundle that was published, however the      *)
(* cache file was left by crashes, full disks and concurrent starts.       *)
(***************************************************************************)
RunsPublishedBundle ==
  \A p \in Processes : step[p] = "up" => bundle[p] \in 1 .. published

(***************************************************************************)
(* Only an interrupted or overlapping write leaves a cache that does not   *)
(* load.                                                                   *)
(***************************************************************************)
CacheLoadsUnlessInterrupted ==
  ~interrupted /\ Writing = {} => cache \in Versions \cup {Absent}

(***************************************************************************)
(* Where the cache stays loadable, every process comes up, whether or not  *)
(* the policy file loads and the cache can be written.                     *)
(***************************************************************************)
StartsFromCache ==
  \A p \in Processes : <>[](cache \in Versions) => []<>(step[p] = "up")

(***************************************************************************)
(* "When the upstream policy source is unreachable, the cache supplies the *)
(* last known-good signed bundle" (core/cache.py:3-4): a process runs the  *)
(* cached bundle only if the policy file did not load.                     *)
(***************************************************************************)
CacheOnlyOnOutage ==
  \A p \in Processes : step[p] = "up" /\ p \in fromCache => p \in sourceBad

=============================================================================
