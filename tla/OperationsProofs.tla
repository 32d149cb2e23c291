-------------------------- MODULE OperationsProofs --------------------------
(***************************************************************************)
(* What the operators of a server rely on, proved without bounds.  First   *)
(* PolicyBoot: a start, for every number of processes, versions and        *)
(* crashes.  Then Tooling: the guard checker on any source tree, the       *)
(* red-team report on any number of scenarios, and signatures under every  *)
(* set of keys and JSON values.                                            *)
(***************************************************************************)
EXTENDS PolicyBoot, Tooling, FiniteSetTheorems, SequenceTheorems, TLAPS

\* Every bundle anybody has is one that was published.
Known == 1 .. published

Provenance ==
  /\ policy \in Versions => policy \in Known
  /\ cache \in Versions => cache \in Known
  /\ \A p \in Processes :
       step[p] \in {"saving", "writing", "meta", "up"} => bundle[p] \in Known

\* As long as no write was disturbed, there is one writer at a time, and it
\* finds the file it emptied.
OneWriter ==
  ~interrupted =>
    /\ \A p, q \in Writing : p = q
    /\ Writing # {} => cache = Empty

IInv == TypeOK /\ Provenance /\ OneWriter /\ CacheLoadsUnlessInterrupted

-----------------------------------------------------------------------------
(***************************************************************************)
(* Init satisfies the inductive invariant.                                 *)
(***************************************************************************)
LEMMA InitHolds == Init => IInv
<1> SUFFICES ASSUME Init PROVE IInv
  OBVIOUS
<1> USE BootAssumption DEF BootAssumption, Init, Versions, Absent, Empty, Garbled
<1>1. TypeOK
  <2>1. interrupted \in BOOLEAN
    BY Zenon
  <2>2. step \in [Processes -> {"down", "saving", "writing", "meta", "falling", "up"}]
    OBVIOUS
  <2>3. bundle \in [Processes -> Versions \cup {Absent}]
    OBVIOUS
  <2>4. /\ published \in Versions
        /\ policy \in Versions \cup {Garbled}
        /\ cache \in Versions \cup {Absent, Empty, Garbled}
        /\ crashes \in 0 .. MaxCrashes
    OBVIOUS
  <2> QED BY <2>1, <2>2, <2>3, <2>4 DEF TypeOK
<1>2. Provenance
  BY DEF Provenance, Known
<1>3. Writing = {}
  BY DEF Writing
<1> QED BY <1>1, <1>2, <1>3 DEF IInv, OneWriter, CacheLoadsUnlessInterrupted

(***************************************************************************)
(* The operators change the policy file alone.                             *)
(***************************************************************************)
LEMMA OperatorsKeep ==
  ASSUME IInv, Publish \/ Spoil \/ Repair
  PROVE  IInv'
<1> USE BootAssumption DEF BootAssumption, Versions, Absent, Empty, Garbled, startVars
<1>1. TypeOK'
  BY DEF IInv, TypeOK, Publish, Spoil, Repair
<1>2. Provenance'
  BY DEF IInv, TypeOK, Provenance, Known, Publish, Spoil, Repair
<1>3. UNCHANGED <<cache, step, interrupted>>
  BY DEF Publish, Spoil, Repair
<1>4. (OneWriter /\ CacheLoadsUnlessInterrupted)'
  BY <1>3 DEF IInv, OneWriter, CacheLoadsUnlessInterrupted, Writing
<1> QED BY <1>1, <1>2, <1>4 DEF IInv

(***************************************************************************)
(* A step that neither enters nor leaves the write, and leaves the cache   *)
(* file alone, keeps the writers apart.                                    *)
(***************************************************************************)
LEMMA QuietSteps ==
  ASSUME IInv, UNCHANGED <<cache, interrupted>>, Writing' = Writing
  PROVE  (OneWriter /\ CacheLoadsUnlessInterrupted)'
BY DEF IInv, OneWriter, CacheLoadsUnlessInterrupted, Versions

(***************************************************************************)
(* A save that is cut short, by an exception or a crash.                   *)
(***************************************************************************)
LEMMA CutShortKeeps ==
  ASSUME IInv, NEW p \in Processes, NEW s \in {"falling", "down"}, step[p] # "down",
         CutShort(p), step' = [step EXCEPT ![p] = s],
         UNCHANGED <<policy, published, bundle, sourceBad, fromCache>>,
         crashes' \in 0 .. MaxCrashes
  PROVE  IInv'
<1> USE BootAssumption DEF BootAssumption, Versions, Absent, Empty, Garbled
<1>1. TypeOK'
  BY DEF IInv, TypeOK, CutShort
<1>2. Provenance'
  BY DEF IInv, TypeOK, Provenance, Known, CutShort
<1>3. (OneWriter /\ CacheLoadsUnlessInterrupted)'
  <2>1. CASE step[p] = "writing"
    BY <2>1 DEF CutShort, OneWriter, CacheLoadsUnlessInterrupted
  <2>2. CASE step[p] # "writing"
    <3>1. UNCHANGED <<cache, interrupted>>
      BY <2>2 DEF CutShort, IInv, TypeOK
    <3>2. Writing' = Writing
      BY <2>2 DEF Writing, IInv, TypeOK
    <3> QED BY <3>1, <3>2, QuietSteps
  <2> QED BY <2>1, <2>2
<1> QED BY <1>1, <1>2, <1>3 DEF IInv

(***************************************************************************)
(* Every step of a process keeps the inductive invariant.                  *)
(***************************************************************************)
LEMMA ProcessKeeps ==
  ASSUME IInv, NEW p \in Processes,
         \/ Load(p) \/ OpenCache(p) \/ WriteCache(p) \/ WriteMeta(p) \/ SaveFails(p)
         \/ FallBack(p) \/ GiveUp(p) \/ Crash(p)
  PROVE  IInv'
<1> USE BootAssumption DEF BootAssumption, Versions, Absent, Empty, Garbled
<1>1. CASE Load(p)
  <2>1. TypeOK'
    BY <1>1 DEF IInv, TypeOK, Load
  <2>2. Provenance'
    BY <1>1 DEF IInv, TypeOK, Provenance, Known, Load
  <2>3. Writing' = Writing /\ UNCHANGED <<cache, interrupted>>
    BY <1>1 DEF IInv, TypeOK, Load, Writing
  <2> QED BY <2>1, <2>2, <2>3, QuietSteps DEF IInv
<1>2. CASE OpenCache(p)
  <2>1. TypeOK'
    BY <1>2 DEF IInv, TypeOK, OpenCache
  <2>2. Provenance'
    BY <1>2 DEF IInv, TypeOK, Provenance, Known, OpenCache
  <2>3. Writing' = Writing \cup {p} /\ cache' = Empty
    BY <1>2 DEF IInv, TypeOK, OpenCache, Writing
  <2>4. ~interrupted' => Writing = {}
    BY <1>2 DEF OpenCache
  <2> QED BY <2>1, <2>2, <2>3, <2>4 DEF IInv, OneWriter, CacheLoadsUnlessInterrupted
<1>3. CASE WriteCache(p)
  <2>1. p \in Writing /\ bundle[p] \in Known
    BY <1>3 DEF IInv, WriteCache, Writing, Provenance
  <2>2. TypeOK'
    BY <1>3, <2>1 DEF IInv, TypeOK, WriteCache, Known
  <2>3. Provenance'
    BY <1>3, <2>1 DEF IInv, TypeOK, Provenance, Known, WriteCache
  <2>4. Writing' = Writing \ {p}
    BY <1>3 DEF IInv, TypeOK, WriteCache, Writing
  <2>5. ~interrupted' => Writing = {p} /\ cache = Empty
    BY <1>3, <2>1 DEF IInv, OneWriter, WriteCache
  <2>6. ~interrupted' => cache' = bundle[p]
    BY <1>3, <2>5 DEF WriteCache
  <2>7. (OneWriter /\ CacheLoadsUnlessInterrupted)'
    BY <2>1, <2>4, <2>5, <2>6, <2>2 
    DEF IInv, TypeOK, OneWriter, CacheLoadsUnlessInterrupted, Known
  <2> QED BY <2>2, <2>3, <2>7 DEF IInv
<1>4. CASE WriteMeta(p) \/ FallBack(p) \/ GiveUp(p)
  <2>1. TypeOK'
    BY <1>4 DEF IInv, TypeOK, WriteMeta, FallBack, GiveUp
  <2>2. Provenance'
    BY <1>4 DEF IInv, TypeOK, Provenance, Known, WriteMeta, FallBack, GiveUp
  <2>3. Writing' = Writing /\ UNCHANGED <<cache, interrupted>>
    BY <1>4 DEF IInv, TypeOK, WriteMeta, FallBack, GiveUp, Writing
  <2> QED BY <2>1, <2>2, <2>3, QuietSteps DEF IInv
<1>5. CASE SaveFails(p)
  BY <1>5, CutShortKeeps DEF SaveFails, IInv, TypeOK
<1>6. CASE Crash(p)
  <2>1. crashes' \in 0 .. MaxCrashes
    BY <1>6 DEF Crash, IInv, TypeOK
  <2> QED BY <1>6, <2>1, CutShortKeeps DEF Crash
<1> QED BY <1>1, <1>2, <1>3, <1>4, <1>5, <1>6

(***************************************************************************)
(* IInv is an invariant of the starts.                                     *)
(***************************************************************************)
LEMMA Invariance == Spec => []IInv
<1>1. IInv /\ [Next]_vars => IInv'
  <2>1. ASSUME IInv, UNCHANGED vars PROVE IInv'
    BY <2>1 DEF vars, IInv, TypeOK, Provenance, OneWriter,
                CacheLoadsUnlessInterrupted, Writing, Known
  <2> QED BY <2>1, OperatorsKeep, ProcessKeeps DEF Next
<1> QED BY <1>1, InitHolds, PTL DEF Spec

(***************************************************************************)
(* The variables keep their types.                                         *)
(***************************************************************************)
THEOREM TypeCorrect == Spec => []TypeOK
<1>1. IInv => TypeOK
  BY DEF IInv
<1> QED BY <1>1, Invariance, PTL

(***************************************************************************)
(* A process that build_default_interceptor has brought up runs a bundle   *)
(* that was published, whatever crashes, failed writes and concurrent      *)
(* starts did to the cache file.                                           *)
(***************************************************************************)
THEOREM OnlyPublishedBundles == Spec => []RunsPublishedBundle
<1>1. IInv => RunsPublishedBundle
  BY DEF IInv, Provenance, Known, RunsPublishedBundle
<1> QED BY <1>1, Invariance, PTL

(***************************************************************************)
(* cache.save leaves a bundle that cache.load accepts, unless a write of   *)
(* it was cut short or two processes wrote at a time.                      *)
(***************************************************************************)
THEOREM CacheLoads == Spec => []CacheLoadsUnlessInterrupted
<1>1. IInv => CacheLoadsUnlessInterrupted
  BY DEF IInv
<1> QED BY <1>1, Invariance, PTL

-----------------------------------------------------------------------------
Constructs == GuardedFunction \cup {"function", "other"}

\* pos says in which construct each entry of the stack was pushed; the first
\* entry belongs to the module.
Pushed(pos) ==
  /\ pos \in [1 .. Len(stack) - 1 -> 1 .. Len(nest)]
  /\ \A i, j \in 1 .. Len(stack) - 1 : i < j => pos[i] < pos[j]
  /\ \A i \in 1 .. Len(stack) - 1 :
       nest[pos[i]] # "other" /\ (stack[i + 1] <=> nest[pos[i]] \in GuardedFunction)
  /\ \A n \in 1 .. Len(nest) :
       nest[n] # "other" => \E i \in 1 .. Len(stack) - 1 : pos[i] = n

(***************************************************************************)
(* The visitor's stack has an entry for each function it is in, in their   *)
(* order; a scan and a red-team run are never mixed, and a program that    *)
(* has exited is not in the middle of a file.                              *)
(***************************************************************************)
ScanInv ==
  /\ files \in Nat /\ exit \in {0, 1, Running}
  /\ stack \in Seq(BOOLEAN) /\ nest \in Seq(Constructs)
  /\ stack = <<>> => nest = <<>>
  /\ stack # <<>> => exit = Running /\ files > 0 /\ stack[1] = FALSE /\ \E pos : Pushed(pos)
  /\ outcomes # <<>> => files = 0
  /\ seen \in Nat /\ due \subseteq 1 .. seen /\ headers \subseteq 1 .. seen
  /\ GuardReportTrue

(***************************************************************************)
(* What the stack says of the functions around a call.                     *)
(***************************************************************************)
LEMMA StackTells ==
  ASSUME ScanInv, stack # <<>>
  PROVE  AnyGuarded(stack) <=> Around \cap GuardedFunction # {}
<1>1. PICK pos : Pushed(pos)
  BY DEF ScanInv
<1>2. /\ stack \in Seq(BOOLEAN) /\ DOMAIN stack = 1 .. Len(stack) /\ Len(stack) \in Nat
      /\ nest \in Seq(Constructs) /\ DOMAIN nest = 1 .. Len(nest) /\ Len(nest) \in Nat
      /\ stack[1] = FALSE
  BY DEF ScanInv
<1>3. ASSUME NEW i \in DOMAIN stack, stack[i]
      PROVE  \E n \in DOMAIN nest : nest[n] \in GuardedFunction
  <2>1. i # 1
    BY <1>2, <1>3
  <2>2. i - 1 \in 1 .. Len(stack) - 1 /\ (i - 1) + 1 = i
    BY <1>2, <2>1
  <2>3. pos[i - 1] \in DOMAIN nest /\ nest[pos[i - 1]] \in GuardedFunction
    BY <1>1, <1>2, <1>3, <2>2 DEF Pushed
  <2> QED BY <2>3
<1>4. ASSUME NEW n \in DOMAIN nest, nest[n] \in GuardedFunction PROVE AnyGuarded(stack)
  <2>1. nest[n] # "other"
    BY <1>4 DEF GuardedFunction, Header
  <2>2. PICK i \in 1 .. Len(stack) - 1 : pos[i] = n
    BY <1>1, <1>2, <2>1 DEF Pushed
  <2>3. i + 1 \in DOMAIN stack
    BY <1>2
  <2>4. stack[i + 1]
    BY <1>1, <1>4, <2>2 DEF Pushed
  <2> QED BY <2>3, <2>4 DEF AnyGuarded
<1> QED BY <1>3, <1>4 DEF AnyGuarded, Around

(***************************************************************************)
(* A function on its way in adds an entry, any other construct none.       *)
(***************************************************************************)
LEMMA EnterKeeps ==
  ASSUME ScanInv, stack # <<>>,
         \/ \E guarded \in BOOLEAN :
              /\ stack' = Append(stack, guarded)
              /\ nest' = Append(nest, IF guarded THEN "arguments" ELSE "function")
         \/ stack' = stack /\ nest' = Append(nest, "other")
  PROVE  /\ stack' \in Seq(BOOLEAN) /\ nest' \in Seq(Constructs) /\ stack' # <<>>
         /\ stack'[1] = FALSE /\ \E pos : Pushed(pos)'
<1> DEFINE L == Len(stack)
           N == Len(nest)
<1>1. PICK pos : Pushed(pos)
  BY DEF ScanInv
<1>2. /\ stack \in Seq(BOOLEAN) /\ L \in Nat /\ L > 0 /\ stack[1] = FALSE
      /\ nest \in Seq(Constructs) /\ N \in Nat
  BY DEF ScanInv
<1>3. ASSUME NEW guarded \in BOOLEAN, stack' = Append(stack, guarded),
             nest' = Append(nest, IF guarded THEN "arguments" ELSE "function")
      PROVE  /\ stack' \in Seq(BOOLEAN) /\ nest' \in Seq(Constructs) /\ stack' # <<>>
             /\ stack'[1] = FALSE /\ \E p : Pushed(p)'
  <2> DEFINE c == IF guarded THEN "arguments" ELSE "function"
  <2>1. c \in Constructs /\ c # "other" /\ (guarded <=> c \in GuardedFunction)
    BY DEF Constructs, GuardedFunction, Header
  <2>2. nest' = Append(nest, c)
    BY <1>3
  <2> HIDE DEF c
  <2>3. /\ stack' \in Seq(BOOLEAN) /\ Len(stack') = L + 1 /\ stack'[L + 1] = guarded
        /\ \A i \in 1 .. L : stack'[i] = stack[i]
    BY <1>2, <1>3
  <2>4. /\ nest' \in Seq(Constructs) /\ Len(nest') = N + 1 /\ nest'[N + 1] = c
        /\ \A i \in 1 .. N : nest'[i] = nest[i]
    BY <1>2, <2>1, <2>2
  <2>5. /\ pos \in [1 .. L - 1 -> 1 .. N]
        /\ \A i, j \in 1 .. L - 1 : i < j => pos[i] < pos[j]
        /\ \A i \in 1 .. L - 1 :
             nest[pos[i]] # "other" /\ (stack[i + 1] <=> nest[pos[i]] \in GuardedFunction)
        /\ \A n \in 1 .. N : nest[n] # "other" => \E i \in 1 .. L - 1 : pos[i] = n
    BY <1>1 DEF Pushed
  <2>6. Len(stack') - 1 = L
    BY <1>2, <2>3
  <2>7. PICK q : q \in [1 .. L -> 1 .. N + 1] /\ q[L] = N + 1
                 /\ \A i \in 1 .. L - 1 : q[i] = pos[i]
    <3> DEFINE f == [i \in 1 .. L |-> IF i = L THEN N + 1 ELSE pos[i]]
    <3>1. f \in [1 .. L -> 1 .. N + 1] /\ f[L] = N + 1 /\ \A i \in 1 .. L - 1 : f[i] = pos[i]
      BY <1>2, <2>5
    <3> QED BY <3>1
  <2>8. \A i, j \in 1 .. L : i < j => q[i] < q[j]
    <3> SUFFICES ASSUME NEW i \in 1 .. L, NEW j \in 1 .. L, i < j PROVE q[i] < q[j]
      OBVIOUS
    <3>0. i \in 1 .. L - 1
      BY <1>2
    <3>1. i \in 1 .. L - 1 /\ q[i] = pos[i] /\ pos[i] \in 1 .. N
      BY <2>5, <2>7, <3>0
    <3>2. CASE j = L
      BY <1>2, <2>7, <3>1, <3>2
    <3>3. CASE j # L
      <4>1. j \in 1 .. L - 1 /\ q[j] = pos[j]
        BY <1>2, <2>7, <3>3
      <4> QED BY <2>5, <3>1, <4>1
    <3> QED BY <3>2, <3>3
  <2>9. ASSUME NEW i \in 1 .. L
        PROVE  nest'[q[i]] # "other" /\ (stack'[i + 1] <=> nest'[q[i]] \in GuardedFunction)
    <3>1. CASE i = L
      BY <2>1, <2>3, <2>4, <2>7, <3>1
    <3>2. CASE i # L
      <4>0. i \in 1 .. L - 1 /\ i + 1 \in 1 .. L
        BY <1>2, <3>2
      <4>1. q[i] = pos[i] /\ pos[i] \in 1 .. N
        BY <2>5, <2>7, <4>0
      <4>2. stack'[i + 1] = stack[i + 1] /\ nest'[q[i]] = nest[pos[i]]
        BY <2>3, <2>4, <4>0, <4>1
      <4> QED BY <2>5, <4>0, <4>2
    <3> QED BY <3>1, <3>2
  <2>10. ASSUME NEW n \in 1 .. N + 1, nest'[n] # "other" PROVE \E i \in 1 .. L : q[i] = n
    <3>1. CASE n = N + 1
      BY <1>2, <2>7, <3>1
    <3>2. CASE n # N + 1
      <4>1. n \in 1 .. N /\ nest[n] # "other"
        BY <1>2, <2>4, <2>10, <3>2
      <4>2. PICK i \in 1 .. L - 1 : pos[i] = n
        BY <2>5, <4>1
      <4> QED BY <1>2, <2>7, <4>2
    <3> QED BY <3>1, <3>2
  <2>11. Pushed(q)'
    BY <2>4, <2>6, <2>7, <2>8, <2>9, <2>10 DEF Pushed
  <2>12. stack' # <<>> /\ stack'[1] = FALSE
    BY <1>2, <2>3
  <2> QED BY <2>3, <2>4, <2>11, <2>12
<1>4. CASE stack' = stack /\ nest' = Append(nest, "other")
  <2>1. /\ nest' \in Seq(Constructs) /\ Len(nest') = N + 1 /\ nest'[N + 1] = "other"
        /\ \A i \in 1 .. N : nest'[i] = nest[i]
    BY <1>2, <1>4 DEF Constructs
  <2>2. Pushed(pos)'
    <3>1. pos \in [1 .. L - 1 -> 1 .. N] /\ pos \in [1 .. L - 1 -> 1 .. N + 1]
      BY <1>1, <1>2 DEF Pushed
    <3>2. \A n \in 1 .. N + 1 : nest'[n] # "other" => n \in 1 .. N /\ nest[n] # "other"
      BY <1>2, <2>1
    <3>3. \A i \in 1 .. L - 1 : nest'[pos[i]] = nest[pos[i]]
      BY <2>1, <3>1
    <3> QED BY <1>1, <1>4, <2>1, <3>1, <3>2, <3>3 DEF Pushed
  <2> QED BY <1>2, <1>4, <2>1, <2>2
<1> QED BY <1>3, <1>4

(***************************************************************************)
(* A function on 1 .. m is a sequence of length m.                         *)
(***************************************************************************)
LEMMA FunctionIsSeq ==
  ASSUME NEW S, NEW m \in Nat, NEW f \in [1 .. m -> S]
  PROVE  f \in Seq(S) /\ Len(f) = m
OBVIOUS

(***************************************************************************)
(* The next part of a guarded function is still that function's.           *)
(***************************************************************************)
LEMMA NextPartKeeps ==
  ASSUME ScanInv, stack # <<>>, NextPart
  PROVE  nest' \in Seq(Constructs) /\ \E pos : Pushed(pos)'
<1> DEFINE N == Len(nest)
<1>1. PICK pos : Pushed(pos)
  BY DEF ScanInv
<1>2. nest \in Seq(Constructs) /\ N \in Nat /\ N \in 1 .. Len(nest)
  <2>1. nest \in Seq(Constructs)
    BY DEF ScanInv
  <2>2. nest # <<>>
    BY DEF NextPart
  <2> QED BY <2>1, <2>2
<1>3. PICK part \in {"guarded body", "decorators"} :
        nest' = [nest EXCEPT ![N] = part] /\ nest[N] \in {"arguments", "guarded body"}
  BY DEF NextPart
<1>4. /\ part \in Constructs \cap GuardedFunction /\ part # "other"
      /\ nest[N] \in GuardedFunction /\ nest[N] # "other"
  BY <1>3 DEF Constructs, GuardedFunction, Header
<1>5. stack' = stack
  BY DEF NextPart
<1>6. /\ nest' \in Seq(Constructs) /\ Len(nest') = N
      /\ \A n \in 1 .. N : nest'[n] = IF n = N THEN part ELSE nest[n]
  <2>1. part \in Constructs
    BY <1>4
  <2>2. nest' = [nest EXCEPT ![N] = part]
    BY <1>3
  <2>3. nest \in [1 .. N -> Constructs]
    BY <1>2, LenProperties
  <2>4. nest' \in [1 .. N -> Constructs]
    BY <1>2, <2>1, <2>2, <2>3
  <2>5. nest' \in Seq(Constructs) /\ Len(nest') = N
    BY <1>2, <2>4, FunctionIsSeq
  <2>6. \A n \in 1 .. N : nest'[n] = IF n = N THEN part ELSE nest[n]
    BY <2>2, <2>3
  <2> QED BY <2>5, <2>6
<1>7. ASSUME NEW n \in 1 .. N
      PROVE  /\ nest'[n] = "other" <=> nest[n] = "other"
             /\ nest'[n] \in GuardedFunction <=> nest[n] \in GuardedFunction
  <2>1. nest'[n] = IF n = N THEN part ELSE nest[n]
    BY <1>6
  <2>2. CASE n = N
    BY <1>4, <2>1, <2>2
  <2>3. CASE n # N
    BY <2>1, <2>3
  <2> QED BY <2>2, <2>3
<1>8. Pushed(pos)'
  BY <1>1, <1>2, <1>5, <1>6, <1>7 DEF Pushed
<1> QED BY <1>6, <1>8

(***************************************************************************)
(* Leaving a construct takes exactly its own entry off the stack.          *)
(***************************************************************************)
LEMMA LeaveKeeps ==
  ASSUME ScanInv, nest # <<>>, LeaveConstruct
  PROVE  /\ stack' \in Seq(BOOLEAN) /\ nest' \in Seq(Constructs) /\ stack' # <<>>
         /\ stack'[1] = FALSE /\ \E pos : Pushed(pos)'
<1> DEFINE L == Len(stack)
           N == Len(nest)
<1>1. PICK pos : Pushed(pos)
  BY DEF ScanInv
<1>2. /\ stack \in Seq(BOOLEAN) /\ L \in Nat /\ L > 0 /\ stack[1] = FALSE
      /\ nest \in Seq(Constructs) /\ N \in Nat /\ N > 0
  BY DEF ScanInv
<1>3. /\ nest' \in Seq(Constructs) /\ Len(nest') = N - 1
      /\ \A i \in 1 .. N - 1 : nest'[i] = nest[i]
  <2>1. nest' = SubSeq(nest, 1, N - 1)
    BY DEF LeaveConstruct
  <2>2. ASSUME NEW s \in Seq(Constructs), NEW n \in Nat, n <= Len(s)
        PROVE  /\ SubSeq(s, 1, n) \in Seq(Constructs) /\ Len(SubSeq(s, 1, n)) = n
               /\ \A i \in 1 .. n : SubSeq(s, 1, n)[i] = s[i]
    BY <2>2
  <2>3. N - 1 \in Nat /\ N - 1 <= N
    BY <1>2
  <2> QED BY <1>2, <2>1, <2>2, <2>3
<1>4. /\ pos \in [1 .. L - 1 -> 1 .. N]
      /\ \A i, j \in 1 .. L - 1 : i < j => pos[i] < pos[j]
      /\ \A i \in 1 .. L - 1 :
           nest[pos[i]] # "other" /\ (stack[i + 1] <=> nest[pos[i]] \in GuardedFunction)
      /\ \A n \in 1 .. N : nest[n] # "other" => \E i \in 1 .. L - 1 : pos[i] = n
  BY <1>1 DEF Pushed
<1>5. CASE nest[N] = "other"
  <2>1. stack' = stack
    BY <1>5 DEF LeaveConstruct
  <2>2. ASSUME NEW i \in 1 .. L - 1 PROVE pos[i] \in 1 .. N - 1
    <3>1. pos[i] \in 1 .. N /\ pos[i] # N
      BY <1>4, <1>5
    <3> QED BY <1>2, <3>1
  <2>3. pos \in [1 .. L - 1 -> 1 .. N - 1]
    BY <1>4, <2>2
  <2>4. \A n \in 1 .. N - 1 : n \in 1 .. N
    BY <1>2
  <2>5. Pushed(pos)'
    BY <1>3, <1>4, <2>1, <2>2, <2>3, <2>4 DEF Pushed
  <2> QED BY <1>2, <1>3, <2>1, <2>5
<1>6. CASE nest[N] # "other"
  <2>1. stack' = SubSeq(stack, 1, L - 1)
    BY <1>6 DEF LeaveConstruct
  <2>2. N \in 1 .. N
    BY <1>2
  <2>3. PICK last \in 1 .. L - 1 : pos[last] = N
    BY <1>4, <1>6, <2>2
  <2>4. last = L - 1
    <3> SUFFICES ASSUME last < L - 1 PROVE FALSE
      BY <1>2
    <3>0. L - 1 \in 1 .. L - 1
      BY <1>2, <2>3
    <3>1. L - 1 \in 1 .. L - 1 /\ pos[L - 1] \in 1 .. N
      BY <1>4, <3>0
    <3>2. pos[last] < pos[L - 1]
      BY <1>4, <3>1
    <3> QED BY <1>2, <2>3, <3>1, <3>2
  <2>5. L > 1
    BY <1>2, <2>3
  <2>6. /\ stack' \in Seq(BOOLEAN) /\ Len(stack') = L - 1
        /\ \A i \in 1 .. L - 1 : stack'[i] = stack[i]
    BY <1>2, <2>1, <2>5
  <2>7. ASSUME NEW i \in 1 .. L - 2 PROVE i \in 1 .. L - 1 /\ pos[i] \in 1 .. N - 1
    <3>1. i \in 1 .. L - 1 /\ L - 1 \in 1 .. L - 1 /\ i < L - 1
      BY <1>2, <2>5
    <3>2. pos[i] < pos[L - 1] /\ pos[i] \in 1 .. N
      BY <1>4, <3>1
    <3> QED BY <1>2, <2>3, <2>4, <3>1, <3>2
  <2>8. PICK q : q \in [1 .. L - 2 -> 1 .. N - 1] /\ \A i \in 1 .. L - 2 : q[i] = pos[i]
    <3> DEFINE f == [i \in 1 .. L - 2 |-> pos[i]]
    <3>1. f \in [1 .. L - 2 -> 1 .. N - 1] /\ \A i \in 1 .. L - 2 : f[i] = pos[i]
      BY <2>7
    <3> QED BY <3>1
  <2>9. ASSUME NEW i \in 1 .. L - 2
        PROVE  nest'[q[i]] # "other" /\ (stack'[i + 1] <=> nest'[q[i]] \in GuardedFunction)
    <3>1. i + 1 \in 1 .. L - 1
      BY <1>2
    <3>2. stack'[i + 1] = stack[i + 1] /\ nest'[q[i]] = nest[pos[i]]
      BY <1>3, <2>6, <2>7, <2>8, <3>1
    <3> QED BY <1>4, <2>7, <3>2
  <2>10. ASSUME NEW n \in 1 .. N - 1, nest'[n] # "other" PROVE \E i \in 1 .. L - 2 : q[i] = n
    <3>1. n \in 1 .. N /\ n # N /\ nest[n] # "other"
      BY <1>2, <1>3, <2>10
    <3>2. PICK i \in 1 .. L - 1 : pos[i] = n
      BY <1>4, <3>1
    <3>3. i # L - 1
      BY <2>3, <2>4, <3>1, <3>2
    <3>4. i \in 1 .. L - 2
      BY <1>2, <3>3
    <3> QED BY <2>8, <3>2, <3>4
  <2>11. \A i, j \in 1 .. L - 2 : i < j => q[i] < q[j]
    BY <1>4, <2>7, <2>8
  <2>12. Len(stack') - 1 = L - 2
    BY <1>2, <2>6
  <2>13. Pushed(q)'
    BY <1>3, <2>8, <2>9, <2>10, <2>11, <2>12 DEF Pushed
  <2>14. stack' # <<>> /\ stack'[1] = FALSE
    BY <1>2, <2>5, <2>6
  <2> QED BY <1>3, <2>6, <2>13, <2>14
<1> QED BY <1>5, <1>6

(***************************************************************************)
(* Every step keeps ScanInv.                                               *)
(***************************************************************************)
LEMMA ScanInvariant == ToolingSpec => []ScanInv
<1>1. ToolingInit => ScanInv
  BY DEF ToolingInit, ToolsInit, ScanInv, GuardReportTrue, Running, Constructs
<1>2. ScanInv /\ [ToolingNext]_toolingVars => ScanInv'
  <2> SUFFICES ASSUME ScanInv, [ToolingNext]_toolingVars PROVE ScanInv'
    OBVIOUS
  <2>1. ASSUME UNCHANGED toolVars PROVE ScanInv'
    <3>1. \A pos : Pushed(pos)' <=> Pushed(pos)
      BY <2>1 DEF toolVars, Pushed
    <3> QED BY <2>1, <3>1 DEF toolVars, ScanInv, GuardReportTrue
  <2>2. ASSUME NEW kind \in {"tree", "unparsable", "unreadable", "skipped"}, ScanFile(kind)
        PROVE  ScanInv'
    <3>1. /\ exit = Running /\ exit' \in {1, Running} /\ (stack' # <<>> => exit' = Running)
          /\ files' = files + 1 /\ outcomes' = outcomes
          /\ outcomes = <<>> /\ stack = <<>> /\ nest' = nest /\ headers' = headers
          /\ \/ reported' = reported /\ due' = due /\ seen' = seen
             \/ /\ reported' = reported \cup {seen + 1} /\ due' = due \cup {seen + 1}
                /\ seen' = seen + 1
          /\ stack' = <<>> \/ stack' = <<FALSE>>
      BY <2>2 DEF ScanFile, teamVars
    <3>2. nest' = <<>>
      BY <3>1 DEF ScanInv
    <3>3. /\ seen' \in Nat /\ due' \subseteq 1 .. seen' /\ headers' \subseteq 1 .. seen'
          /\ reported' = due' \ headers'
      <4>1. /\ seen \in Nat /\ due \subseteq 1 .. seen /\ headers \subseteq 1 .. seen
            /\ reported = due \ headers
        BY DEF ScanInv, GuardReportTrue
      <4>2. seen + 1 \notin headers /\ 1 .. seen \subseteq 1 .. (seen + 1)
            /\ seen + 1 \in 1 .. (seen + 1) /\ seen + 1 \in Nat
        BY <4>1
      <4>3. CASE reported' = reported /\ due' = due /\ seen' = seen
        BY <3>1, <4>1, <4>3
      <4>4. CASE reported' = reported \cup {seen + 1} /\ due' = due \cup {seen + 1}
                 /\ seen' = seen + 1
        <5>1. reported' = due' \ headers'
          BY <3>1, <4>1, <4>2, <4>4
        <5>2. due' \subseteq 1 .. seen' /\ headers' \subseteq 1 .. seen' /\ seen' \in Nat
          BY <3>1, <4>1, <4>2, <4>4
        <5> QED BY <5>1, <5>2
      <4> QED BY <3>1, <4>3, <4>4
    <3>4. ASSUME stack' = <<FALSE>> PROVE \E pos : Pushed(pos)'
      <4>1. PICK pos : pos \in [1 .. 0 -> 1 .. 0]
        <5>1. [i \in 1 .. 0 |-> 0] \in [1 .. 0 -> 1 .. 0]
          OBVIOUS
        <5> QED BY <5>1
      <4>2. Len(stack') - 1 = 0 /\ Len(nest') = 0
        BY <3>2, <3>4
      <4>3. Pushed(pos)'
        <5>1. 1 .. 0 = {}
          OBVIOUS
        <5> QED BY <4>1, <4>2, <5>1 DEF Pushed
      <4> QED BY <4>3
    <3>5. files' \in Nat /\ files' > 0
      BY <3>1 DEF ScanInv
    <3>6. stack' \in Seq(BOOLEAN) /\ nest' \in Seq(Constructs)
          /\ (stack' # <<>> => stack' = <<FALSE>> /\ stack'[1] = FALSE)
      <4>1. <<>> \in Seq(BOOLEAN) /\ <<>> \in Seq(Constructs) /\ <<FALSE>> \in Seq(BOOLEAN)
            /\ <<FALSE>>[1] = FALSE
        OBVIOUS
      <4> QED BY <3>1, <3>2, <4>1
    <3>7. exit' \in {1, Running} /\ exit' # 0
      BY <3>1 DEF Running
    <3> QED BY <3>1, <3>2, <3>3, <3>4, <3>5, <3>6, <3>7 DEF ScanInv, GuardReportTrue
  <2>3. ASSUME (\E guarded \in BOOLEAN : EnterFunction(guarded)) \/ EnterOther \/ LeaveConstruct
               \/ NextPart
        PROVE  ScanInv'
    <3>1. stack # <<>> /\ UNCHANGED <<files, seen, reported, due, headers, outcomes, exit>>
      BY <2>3 DEF EnterFunction, EnterOther, NextPart, LeaveConstruct, teamVars, ScanInv
    <3>2. /\ stack' \in Seq(BOOLEAN) /\ nest' \in Seq(Constructs) /\ stack' # <<>>
          /\ stack'[1] = FALSE /\ \E pos : Pushed(pos)'
      <4>1. CASE LeaveConstruct
        BY <4>1, LeaveKeeps DEF LeaveConstruct
      <4>2. CASE (\E guarded \in BOOLEAN : EnterFunction(guarded)) \/ EnterOther
        <5>1. \/ \E guarded \in BOOLEAN :
                   /\ stack' = Append(stack, guarded)
                   /\ nest' = Append(nest, IF guarded THEN "arguments" ELSE "function")
              \/ stack' = stack /\ nest' = Append(nest, "other")
          BY <4>2 DEF EnterFunction, EnterOther
        <5> QED BY <3>1, <5>1, EnterKeeps
      <4>3. CASE NextPart
        BY <3>1, <4>3, NextPartKeeps DEF NextPart, ScanInv
      <4> QED BY <2>3, <4>1, <4>2, <4>3
    <3> QED BY <3>1, <3>2 DEF ScanInv, GuardReportTrue
  <2>4. ASSUME NEW sensitive \in BOOLEAN, VisitCall(sensitive) PROVE ScanInv'
    <3>1. /\ stack # <<>> /\ UNCHANGED <<stack, nest, files, outcomes, exit>>
          /\ seen' = seen + 1
          /\ reported' = IF sensitive /\ ~AnyGuarded(stack) THEN reported \cup {seen + 1}
                         ELSE reported
          /\ due' = IF sensitive /\ "guarded body" \notin Around
                    THEN due \cup {seen + 1} ELSE due
          /\ headers' = IF sensitive /\ "guarded body" \notin Around /\ Around \cap Header # {}
                        THEN headers \cup {seen + 1} ELSE headers
      BY <2>4 DEF VisitCall, teamVars
    <3>2. stack # <<>> /\ seen' = seen + 1
      BY <2>4 DEF VisitCall
    <3>3. /\ seen + 1 \notin headers /\ seen + 1 \notin due
          /\ 1 .. seen \subseteq 1 .. (seen + 1) /\ seen + 1 \in 1 .. (seen + 1)
      BY DEF ScanInv
    <3>4. ~AnyGuarded(stack) <=> "guarded body" \notin Around /\ Around \cap Header = {}
      BY <3>1, StackTells DEF GuardedFunction
    <3>5. /\ seen' \in Nat /\ due' \subseteq 1 .. seen' /\ headers' \subseteq 1 .. seen'
          /\ reported' = due' \ headers'
      <4>1. /\ seen \in Nat /\ due \subseteq 1 .. seen /\ headers \subseteq 1 .. seen
            /\ reported = due \ headers
        BY DEF ScanInv, GuardReportTrue
      <4>2. CASE ~(sensitive /\ "guarded body" \notin Around)
        <5>1. reported' = reported /\ due' = due /\ headers' = headers
          BY <3>1, <3>4, <4>2
        <5> QED BY <3>2, <3>3, <4>1, <5>1
      <4>3. CASE sensitive /\ "guarded body" \notin Around /\ Around \cap Header = {}
        <5>1. /\ reported' = reported \cup {seen + 1} /\ due' = due \cup {seen + 1}
              /\ headers' = headers
          BY <3>1, <3>4, <4>3
        <5> QED BY <3>2, <3>3, <4>1, <5>1
      <4>4. CASE sensitive /\ "guarded body" \notin Around /\ Around \cap Header # {}
        <5>1. /\ reported' = reported /\ due' = due \cup {seen + 1}
              /\ headers' = headers \cup {seen + 1}
          BY <3>1, <3>4, <4>4
        <5> QED BY <3>2, <3>3, <4>1, <5>1
      <4> QED BY <4>2, <4>3, <4>4
    <3>6. exit = Running /\ Running # 0
      <4>1. stack # <<>> => exit = Running
        BY DEF ScanInv
      <4> QED BY <3>2, <4>1 DEF Running
    <3>7. \A pos : Pushed(pos)' <=> Pushed(pos)
      BY <3>1 DEF Pushed
    <3> QED BY <3>1, <3>5, <3>6, <3>7 DEF ScanInv, GuardReportTrue
  <2>5. CASE EndFile
    <3>1. /\ stack' = <<>> /\ nest' = <<>>
          /\ UNCHANGED <<files, seen, reported, due, headers, outcomes, exit>>
      BY <2>5 DEF EndFile, teamVars
    <3> QED BY <3>1 DEF ScanInv, GuardReportTrue
  <2>6. CASE ScanExits
    BY <2>6 DEF ScanExits, scanVars, teamVars, ScanInv, GuardReportTrue
  <2>7. ASSUME NEW expected \in Expectable, NEW verdict \in Expectable,
               RunScenario(expected, verdict)
        PROVE  ScanInv'
    <3>1. /\ files = 0 /\ exit = Running
          /\ UNCHANGED <<stack, nest, files, seen, reported, due, headers, exit>>
      BY <2>7 DEF RunScenario, scanVars
    <3>2. stack = <<>>
      BY <3>1 DEF ScanInv
    <3> QED BY <3>1, <3>2 DEF ScanInv, GuardReportTrue
  <2>8. CASE ScenarioRaises \/ TeamExits
    <3>1. /\ files = 0 /\ UNCHANGED <<stack, nest, files, seen, reported, due, headers, outcomes>>
          /\ exit' \in {0, 1}
      BY <2>8 DEF ScenarioRaises, TeamExits, scanVars, teamVars, ScanInv
    <3>2. stack = <<>>
      BY <3>1 DEF ScanInv
    <3> QED BY <3>1, <3>2 DEF ScanInv, GuardReportTrue
  <2>9. CASE Restart
    BY <2>9 DEF Restart, ScanInv, GuardReportTrue, Running
  <2>10. CASE UNCHANGED toolingVars
    BY <2>1, <2>10 DEF toolingVars, toolVars
  <2>11. ToolingNext => UNCHANGED toolVars \/ ToolsNext
    BY DEF ToolingNext
  <2> QED BY <2>1, <2>2, <2>3, <2>4, <2>5, <2>6, <2>7, <2>8, <2>9, <2>10, <2>11
          DEF ToolsNext, RedTeamRunExits, RedTeamMainExits
<1> QED BY <1>1, <1>2, PTL DEF ToolingSpec

(***************************************************************************)
(* The guard checker raises no false alarm, and misses nothing but what    *)
(* stands in the header of a guarded function, in source trees of any      *)
(* depth and any number of files and calls.                                *)
(***************************************************************************)
THEOREM GuardReportIsTrue == ToolingSpec => []GuardReportTrue
<1>1. ScanInv => GuardReportTrue
  BY DEF ScanInv
<1> QED BY <1>1, ScanInvariant, PTL

-----------------------------------------------------------------------------
Report == [total : Nat, passed : Nat, falseNegatives : Nat, falsePositives : Nat]

(***************************************************************************)
(* RedTeamReportTrue with the types of the report and of the outcomes; a   *)
(* program that has exited as a scan has run no scenario.                  *)
(***************************************************************************)
TeamInv ==
  /\ report \in Report
  /\ outcomes \in Seq(Expectable \X Expectable)
  /\ RedTeamReportTrue

\* What RedTeamHarness.run does with a scenario's counter.
Counted(r, c) == [r EXCEPT !.total = @ + 1, ![c] = @ + 1]

(***************************************************************************)
(* A scenario counts once in the total and once in one of the others.      *)
(***************************************************************************)
LEMMA CounterUp ==
  ASSUME NEW r \in Report, NEW c \in {"passed", "falseNegatives", "falsePositives"},
         NEW q, q = Counted(r, c)
  PROVE  /\ q \in Report /\ q.total = r.total + 1
         /\ q.passed = IF c = "passed" THEN r.passed + 1 ELSE r.passed
         /\ q.falseNegatives = IF c = "falseNegatives" THEN r.falseNegatives + 1
                               ELSE r.falseNegatives
         /\ q.falsePositives = IF c = "falsePositives" THEN r.falsePositives + 1
                               ELSE r.falsePositives
<1>1. PICK s : s = [r EXCEPT !.total = @ + 1]
  OBVIOUS
<1>2. s \in Report /\ s.total = r.total + 1 /\ s.passed = r.passed
      /\ s.falseNegatives = r.falseNegatives /\ s.falsePositives = r.falsePositives
  BY <1>1 DEF Report
<1>3. q = [s EXCEPT ![c] = @ + 1]
  BY <1>1 DEF Report, Counted
<1>4. CASE c = "passed"
  BY <1>2, <1>3, <1>4 DEF Report
<1>5. CASE c = "falseNegatives"
  BY <1>2, <1>3, <1>5 DEF Report
<1>6. CASE c = "falsePositives"
  BY <1>2, <1>3, <1>6 DEF Report
<1> QED BY <1>4, <1>5, <1>6

(***************************************************************************)
(* One scenario more: the list of the slips grows with the counter of the  *)
(* false negatives.                                                        *)
(***************************************************************************)
LEMMA ScenarioCounted ==
  ASSUME TeamInv, exit # 0, exit' = exit,
         NEW expected \in Expectable, NEW verdict \in Expectable,
         report' = [report EXCEPT !.total = @ + 1, ![Counter(expected, verdict)] = @ + 1],
         outcomes' = Append(outcomes, <<expected, verdict>>)
  PROVE  TeamInv'
<1> DEFINE n == Len(outcomes)
           slips == expected # "allow" /\ verdict = "allow"
           Pair == Expectable \X Expectable
<1>1. <<expected, verdict>> \in Pair
  OBVIOUS
<1>2. outcomes \in Seq(Pair) /\ n \in Nat
  BY DEF TeamInv
<1>3. /\ outcomes' \in Seq(Pair) /\ Len(outcomes') = n + 1 /\ DOMAIN outcomes' = 1 .. n + 1
      /\ outcomes'[n + 1] = <<expected, verdict>>
      /\ \A i \in 1 .. n : outcomes'[i] = outcomes[i]
  <2> HIDE DEF Pair
  <2> QED BY <1>1, <1>2
<1>4. Slips \in SUBSET (1 .. n) /\ n + 1 \notin Slips
  BY <1>2 DEF Slips
<1>5. Slips' = IF slips THEN Slips \cup {n + 1} ELSE Slips
  <2>1. ASSUME NEW i \in 1 .. n PROVE i \in Slips' <=> i \in Slips
    BY <1>2, <1>3 DEF Slips
  <2>2. n + 1 \in Slips' <=> slips
    BY <1>2, <1>3 DEF Slips
  <2>3. Slips' \subseteq 1 .. n + 1
    BY <1>3 DEF Slips
  <2>4. \A i \in 1 .. n + 1 : i \in 1 .. n \/ i = n + 1
    BY <1>2
  <2> HIDE DEF slips
  <2>5. \A i : i \in Slips' <=> (i \in Slips \/ (slips /\ i = n + 1))
    BY <1>4, <2>1, <2>2, <2>3, <2>4
  <2> QED BY <2>5
<1>6. /\ IsFiniteSet(Slips) /\ Cardinality(Slips) \in Nat
      /\ Cardinality(Slips') = IF slips THEN Cardinality(Slips) + 1 ELSE Cardinality(Slips)
  <2>1. IsFiniteSet(1 .. n)
    <3>1. \A a, b \in Int : IsFiniteSet(a .. b)
      BY FS_Interval
    <3>2. 1 \in Int /\ n \in Int
      BY <1>2
    <3> HIDE DEF n
    <3> QED BY <3>1, <3>2
  <2>2. IsFiniteSet(Slips) /\ Cardinality(Slips) \in Nat
    BY <1>4, <2>1, FS_Subset, FS_CardinalityType
  <2>3. Cardinality(Slips \cup {n + 1}) = Cardinality(Slips) + 1
    BY <1>4, <2>2, FS_AddElement
  <2> QED BY <1>5, <2>2, <2>3
<1> HIDE DEF n
<1> DEFINE k == Counter(expected, verdict)
<1>7. k \in {"passed", "falseNegatives", "falsePositives"} /\ (slips <=> k = "falseNegatives")
  BY DEF Counter
<1> HIDE DEF k, slips
<1>8. PICK t \in Nat, p \in Nat, fn \in Nat, fp \in Nat :
        /\ t = report.total /\ p = report.passed
        /\ fn = report.falseNegatives /\ fp = report.falsePositives
        /\ t = n /\ t = p + fn + fp /\ fn = Cardinality(Slips)
  BY DEF TeamInv, RedTeamReportTrue, Report, n
<1>9. /\ report' \in Report /\ report'.total = t + 1
      /\ report'.passed = IF k = "passed" THEN p + 1 ELSE p
      /\ report'.falseNegatives = IF k = "falseNegatives" THEN fn + 1 ELSE fn
      /\ report'.falsePositives = IF k = "falsePositives" THEN fp + 1 ELSE fp
  <2>1. report \in Report
    BY DEF TeamInv
  <2>2. report' = [report EXCEPT !.total = @ + 1, ![k] = @ + 1]
    BY DEF k
  <2>3. PICK r, q : r = report /\ q = report'
    OBVIOUS
  <2>4. r \in Report /\ q = Counted(r, k)
    BY <2>1, <2>2, <2>3 DEF Counted
  <2>5. /\ q \in Report /\ q.total = r.total + 1
        /\ q.passed = IF k = "passed" THEN r.passed + 1 ELSE r.passed
        /\ q.falseNegatives = IF k = "falseNegatives" THEN r.falseNegatives + 1
                              ELSE r.falseNegatives
        /\ q.falsePositives = IF k = "falsePositives" THEN r.falsePositives + 1
                              ELSE r.falsePositives
    BY <1>7, <2>4, CounterUp
  <2> QED BY <1>8, <2>3, <2>5
<1>10. /\ report'.falseNegatives = Cardinality(Slips')
       /\ report'.total = report'.passed + report'.falseNegatives + report'.falsePositives
       /\ report'.total = Len(outcomes')
  <2>1. PICK c : c = Cardinality(Slips)
    OBVIOUS
  <2>2. Cardinality(Slips') = IF slips THEN c + 1 ELSE c
    BY <1>6, <2>1
  <2>3. c = fn /\ Len(outcomes') = t + 1
    BY <1>3, <1>8, <2>1
  <2>4. report'.falseNegatives = Cardinality(Slips') /\ report'.total = Len(outcomes')
    BY <1>7, <1>9, <2>2, <2>3
  <2>5. t + 1 = p + fn + (fp + 1) /\ t + 1 = p + (fn + 1) + fp /\ t + 1 = (p + 1) + fn + fp
    BY <1>8
  <2>6. report'.total = report'.passed + report'.falseNegatives + report'.falsePositives
    BY <1>7, <1>9, <2>5
  <2> QED BY <2>4, <2>6
<1> QED BY <1>3, <1>9, <1>10 DEF TeamInv, RedTeamReportTrue

(***************************************************************************)
(* Every step keeps TeamInv.                                               *)
(***************************************************************************)
LEMMA TeamInvariant == ToolingSpec => []TeamInv
<1>1. ASSUME report = NoReport, outcomes = <<>> PROVE TeamInv
  <2>1. Slips = {} /\ Len(outcomes) = 0
    BY <1>1 DEF Slips
  <2>2. Cardinality(Slips) = 0
    BY <2>1, FS_EmptySet
  <2> QED BY <1>1, <2>1, <2>2 DEF TeamInv, RedTeamReportTrue, NoReport, Report
<1>2. ToolingInit => TeamInv
  BY <1>1 DEF ToolingInit, ToolsInit
<1>3. ScanInv /\ TeamInv /\ [ToolingNext]_toolingVars => TeamInv'
  <2> SUFFICES ASSUME ScanInv, TeamInv, [ToolingNext]_toolingVars PROVE TeamInv'
    OBVIOUS
  <2>1. ASSUME UNCHANGED <<report, outcomes>>, exit' = 0 /\ outcomes # <<>> => Slips = {}
        PROVE  TeamInv'
    <3>1. Slips' = Slips
      BY <2>1 DEF Slips
    <3> QED BY <2>1, <3>1 DEF TeamInv, RedTeamReportTrue
  <2>2. ASSUME UNCHANGED <<report, outcomes, exit>> PROVE TeamInv'
    BY <2>1, <2>2 DEF TeamInv, RedTeamReportTrue
  <2>3. CASE ScanExits
    <3>1. UNCHANGED <<report, outcomes>> /\ outcomes = <<>>
      BY <2>3 DEF ScanExits, teamVars, ScanInv
    <3> QED BY <2>1, <3>1
  <2>4. ASSUME NEW expected \in Expectable, NEW verdict \in Expectable,
               RunScenario(expected, verdict)
        PROVE  TeamInv'
    <3>1. exit # 0 /\ exit' = exit
      BY <2>4 DEF RunScenario, Running
    <3> QED BY <2>4, <3>1, ScenarioCounted DEF RunScenario
  <2>5. CASE ScenarioRaises
    BY <2>1, <2>5 DEF ScenarioRaises, teamVars
  <2>6. CASE TeamExits
    <3>1. UNCHANGED <<report, outcomes>> /\ (exit' = 0 => report.falseNegatives = 0)
      BY <2>6 DEF TeamExits, teamVars
    <3>2. Slips \in SUBSET (1 .. Len(outcomes)) /\ Len(outcomes) \in Nat
      BY DEF Slips, TeamInv
    <3>3. IsFiniteSet(Slips)
      <4>1. \A a, b \in Int : IsFiniteSet(a .. b)
        BY FS_Interval
      <4>2. IsFiniteSet(1 .. Len(outcomes))
        BY <3>2, <4>1
      <4> QED BY <3>2, <4>2, FS_Subset
    <3>4. exit' = 0 => Slips = {}
      BY <3>1, <3>3, FS_EmptySet DEF TeamInv, RedTeamReportTrue
    <3> QED BY <2>1, <3>1, <3>4
  <2>7. CASE Restart
    <3>1. Slips' = {} /\ Len(outcomes') = 0
      BY <2>7 DEF Slips, Restart
    <3>2. Cardinality(Slips') = 0
      BY <3>1, FS_EmptySet
    <3> QED BY <2>7, <3>1, <3>2 DEF Restart, TeamInv, RedTeamReportTrue, NoReport, Report
  <2>8. ASSUME (\E guarded \in BOOLEAN : EnterFunction(guarded)) \/ EnterOther
                 \/ NextPart \/ LeaveConstruct \/ EndFile
                 \/ (\E sensitive \in BOOLEAN : VisitCall(sensitive))
        PROVE  UNCHANGED <<report, outcomes, exit>>
    BY <2>8
       DEF EnterFunction, EnterOther, NextPart, LeaveConstruct, EndFile, VisitCall, teamVars
  <2>9. ASSUME NEW kind \in {"tree", "unparsable", "unreadable", "skipped"}, ScanFile(kind)
        PROVE  TeamInv'
    <3>1. UNCHANGED <<report, outcomes>> /\ outcomes = <<>>
      BY <2>9 DEF ScanFile, teamVars
    <3> QED BY <2>1, <3>1
  <2>10. CASE UNCHANGED toolingVars
    BY <2>2, <2>10 DEF toolingVars
  <2>11. ToolingNext => UNCHANGED <<report, outcomes, exit>> \/ ToolsNext
    BY DEF ToolingNext, toolVars
  <2> QED BY <2>2, <2>3, <2>4, <2>5, <2>6, <2>7, <2>8, <2>9, <2>10, <2>11
          DEF ToolsNext, RedTeamRunExits, RedTeamMainExits
<1> QED BY <1>2, <1>3, ScanInvariant, PTL DEF ToolingSpec

(***************************************************************************)
(* The red-team report is true of runs of any number of scenarios.         *)
(***************************************************************************)
THEOREM RedTeamReportIsTrue == ToolingSpec => []RedTeamReportTrue
<1>1. TeamInv => RedTeamReportTrue
  BY DEF TeamInv
<1> QED BY <1>1, TeamInvariant, PTL

-----------------------------------------------------------------------------
\* What signatures and digests are made of.
Texts == Keys \cup Subjects \cup Values \cup {"null", "damaged", "sha256"}

(***************************************************************************)
(* One text in front of others can be told from them.                      *)
(***************************************************************************)
LEMMA Prefixed ==
  ASSUME NEW k \in Texts, NEW j \in Texts, NEW p \in Seq(Texts), NEW q \in Seq(Texts)
  PROVE  /\ <<k>> \o p \in Seq(Texts) /\ Len(<<k>> \o p) = Len(p) + 1
         /\ <<k>> \o p = <<j>> \o q => k = j /\ p = q
<1>1. ASSUME NEW x \in Texts, NEW s \in Seq(Texts)
      PROVE  /\ <<x>> \o s \in Seq(Texts) /\ Len(<<x>> \o s) = Len(s) + 1
             /\ (<<x>> \o s)[1] = x /\ \A i \in 1 .. Len(s) : (<<x>> \o s)[i + 1] = s[i]
  <2>1. <<x>> \in Seq(Texts) /\ Len(<<x>>) = 1 /\ <<x>>[1] = x /\ Len(s) \in Nat
    OBVIOUS
  <2>2. ASSUME NEW r \in Seq(Texts), Len(r) = 1
        PROVE  /\ r \o s \in Seq(Texts) /\ Len(r \o s) = Len(s) + 1
               /\ (r \o s)[1] = r[1] /\ \A i \in 1 .. Len(s) : (r \o s)[i + 1] = s[i]
    <3>1. r \o s \in Seq(Texts) /\ Len(r \o s) = Len(r) + Len(s)
      OBVIOUS
    <3>2. Len(r \o s) = Len(s) + 1
      BY <2>1, <2>2, <3>1
    <3>3. (r \o s)[1] = r[1]
      <4>1. 1 \in 1 .. Len(r) + Len(s) /\ 1 <= Len(r)
        BY <2>1, <2>2
      <4> QED BY <4>1
    <3>4. ASSUME NEW i \in 1 .. Len(s) PROVE (r \o s)[i + 1] = s[i]
      <4>1. i + 1 \in 1 .. Len(r) + Len(s) /\ i + 1 > Len(r) /\ (i + 1) - Len(r) = i
        BY <2>1, <2>2
      <4> QED BY <4>1
    <3> QED BY <3>1, <3>2, <3>3, <3>4
  <2> QED BY <2>1, <2>2
<1>2. ASSUME <<k>> \o p = <<j>> \o q PROVE k = j /\ p = q
  <2>1. k = j /\ Len(p) = Len(q)
    BY <1>1, <1>2
  <2>2. \A i \in 1 .. Len(q) : p[i] = q[i]
    BY <1>1, <1>2, <2>1
  <2> QED BY <2>1, <2>2
<1> QED BY <1>1, <1>2

(***************************************************************************)
(* The canonical form is a list of three texts, the first of them what the *)
(* object is about.                                                        *)
(***************************************************************************)
LEMMA CanonicalOK ==
  ASSUME NEW body \in Bodies
  PROVE  /\ Canonical(body) \in Seq(Texts) /\ Len(Canonical(body)) = 3
         /\ Canonical(body)[1] = body.about /\ body.about \in Texts
<1>1. body.about \in Texts /\ body.data \in Values \X Values
  BY DEF Bodies, Texts
<1>2. body.data[1] \in Texts /\ body.data[2] \in Texts /\ "null" \in Texts
  BY <1>1 DEF Texts
<1>3. PICK x \in Texts, y \in Texts : Canonical(body) = <<body.about, x, y>>
  BY <1>2 DEF Canonical
<1> QED BY <1>1, <1>3

(***************************************************************************)
(* Signing is ideal: a signature is longer than what is signed, and no two *)
(* keys or payloads have the same.                                         *)
(***************************************************************************)
LEMMA SignOK ==
  ASSUME NEW k \in Keys, NEW j \in Keys, NEW p \in Seq(Texts), NEW q \in Seq(Texts)
  PROVE  /\ Sign(k, p) \in Seq(Texts) /\ Len(Sign(k, p)) = Len(p) + 1
         /\ Sign(k, p) = Sign(j, q) => k = j /\ p = q
BY Prefixed DEF Sign, Texts

(***************************************************************************)
(* A digest is as long as any other and tells the canonical forms apart.   *)
(***************************************************************************)
LEMMA DigestOK ==
  ASSUME NEW b \in Bodies, NEW c \in Bodies
  PROVE  /\ Digest(b) \in Seq(Texts) /\ Len(Digest(b)) = 4
         /\ Digest(b) = Digest(c) <=> Canonical(b) = Canonical(c)
<1>1. "sha256" \in Texts
  BY DEF Texts
<1>2. Canonical(b) \in Seq(Texts) /\ Canonical(c) \in Seq(Texts) /\ Len(Canonical(b)) = 3
  BY CanonicalOK
<1>3. PICK p \in Seq(Texts), q \in Seq(Texts) :
        p = Canonical(b) /\ q = Canonical(c) /\ Len(p) = 3
  BY <1>2
<1>4. /\ <<"sha256">> \o p \in Seq(Texts) /\ Len(<<"sha256">> \o p) = Len(p) + 1
      /\ <<"sha256">> \o p = <<"sha256">> \o q => p = q
  BY <1>1, Prefixed
<1> QED BY <1>3, <1>4 DEF Digest

(***************************************************************************)
(* What a receipt's signature is over.                                     *)
(***************************************************************************)
LEMMA ReceiptOK ==
  ASSUME NEW b \in Bodies, NEW c \in Bodies, NEW d \in Seq(Texts), NEW e \in Seq(Texts)
  PROVE  /\ ReceiptPayload(b, d) \in Seq(Texts) /\ Len(ReceiptPayload(b, d)) = Len(d) + 1
         /\ ReceiptPayload(b, d) = ReceiptPayload(c, e) <=> b.about = c.about /\ d = e
<1>1. PICK x \in Texts, y \in Texts : x = b.about /\ y = c.about
  BY CanonicalOK
<1>2. /\ <<x>> \o d \in Seq(Texts) /\ Len(<<x>> \o d) = Len(d) + 1
      /\ <<x>> \o d = <<y>> \o e => x = y /\ d = e
  BY Prefixed
<1> QED BY <1>1, <1>2 DEF ReceiptPayload

(***************************************************************************)
(* A signature in a bundle's file lengthens what is signed.                *)
(***************************************************************************)
LEMMA OverOK ==
  ASSUME NEW p \in Seq(Texts), NEW s \in Seq(Texts)
  PROVE  /\ p \o s \in Seq(Texts) /\ Len(p \o s) = Len(p) + Len(s)
         /\ s = <<>> => p \o s = p
         /\ Len(s) = 0 => s = <<>>
<1>1. p \o s \in Seq(Texts) /\ Len(p \o s) = Len(p) + Len(s)
  OBVIOUS
<1>2. p \o <<>> = p
  OBVIOUS
<1>3. Len(s) = 0 => s = <<>>
  OBVIOUS
<1> QED BY <1>1, <1>2, <1>3

(***************************************************************************)
(* A signature over a canonical form, made over an older signature or not, *)
(* lost or damaged since: it is the one that a key gives another canonical *)
(* form only when nothing has changed and there was no older signature.    *)
(***************************************************************************)
LEMMA PlainSignature ==
  ASSUME NEW key \in Keys, NEW k \in Keys, NEW b \in Bodies, NEW c \in Bodies,
         NEW over \in Seq(Texts), NEW given, given = Sign(k, Canonical(c) \o over),
         NEW s \in {given, <<>>, <<"damaged">>}
  PROVE  /\ s = Sign(key, Canonical(b))
              <=> s = given /\ k = key /\ over = <<>> /\ Canonical(b) = Canonical(c)
         /\ Sign(key, Canonical(b)) # <<>> /\ Canonical(b) \o <<>> = Canonical(b)
<1>1. PICK p \in Seq(Texts), q \in Seq(Texts) :
        p = Canonical(b) /\ q = Canonical(c) /\ Len(p) = 3 /\ Len(q) = 3
  BY CanonicalOK
<1>2. /\ q \o over \in Seq(Texts) /\ Len(q \o over) = Len(q) + Len(over)
      /\ (over = <<>> => q \o over = q) /\ (Len(over) = 0 => over = <<>>)
      /\ p \o <<>> = p /\ Len(over) \in Nat
  BY OverOK
<1>3. PICK r \in Seq(Texts) : r = q \o over
  BY <1>2
<1>4. /\ Len(Sign(key, p)) = Len(p) + 1
      /\ Sign(key, p) = Sign(k, r) => key = k /\ p = r
  BY SignOK
<1>5. Sign(key, p) # <<>> /\ Sign(key, p) # <<"damaged">>
  <2>1. Len(<<>>) = 0 /\ Len(<<"damaged">>) = 1
    OBVIOUS
  <2>2. Len(Sign(key, p)) # 0 /\ Len(Sign(key, p)) # 1
    BY <1>1, <1>4
  <2> QED BY <2>1, <2>2
<1>6. p = r => over = <<>> /\ p = q
  BY <1>1, <1>2, <1>3
<1>7. given = Sign(k, r)
  BY <1>1, <1>3
<1>8. s = Sign(key, p) <=> s = given /\ k = key /\ over = <<>> /\ p = q
  BY <1>2, <1>3, <1>4, <1>5, <1>6, <1>7
<1> QED BY <1>1, <1>2, <1>5, <1>8

(***************************************************************************)
(* The same of a receipt, which is refused for its digest first.           *)
(***************************************************************************)
LEMMA ReceiptSignature ==
  ASSUME NEW key \in Keys, NEW k \in Keys, NEW b \in Bodies, NEW c \in Bodies,
         NEW d \in Seq(Texts), NEW given, given = Sign(k, ReceiptPayload(c, Digest(c))),
         NEW s \in {given, <<>>, <<"damaged">>}
  PROVE  d = Digest(b) /\ s = Sign(key, ReceiptPayload(b, d))
           <=> k = key /\ s = given /\ d = Digest(c) /\ Canonical(b) = Canonical(c)
<1>1. PICK e \in Seq(Texts) : e = Digest(c) /\ (Digest(b) = e <=> Canonical(b) = Canonical(c))
  BY DigestOK
<1>2. PICK p \in Seq(Texts), q \in Seq(Texts) :
        /\ p = ReceiptPayload(b, d) /\ q = ReceiptPayload(c, e)
        /\ Len(p) = Len(d) + 1 /\ (p = q <=> b.about = c.about /\ d = e)
  BY ReceiptOK
<1>3. /\ Len(Sign(key, p)) = Len(p) + 1
      /\ Sign(key, p) = Sign(k, q) => key = k /\ p = q
  BY SignOK
<1>4. Sign(key, p) # <<>> /\ Sign(key, p) # <<"damaged">>
  <2>1. Len(<<>>) = 0 /\ Len(<<"damaged">>) = 1 /\ Len(d) \in Nat
    OBVIOUS
  <2>2. Len(Sign(key, p)) # 0 /\ Len(Sign(key, p)) # 1
    BY <1>2, <1>3, <2>1
  <2> QED BY <2>1, <2>2
<1>5. Canonical(b) = Canonical(c) => b.about = c.about
  BY CanonicalOK
<1>6. given = Sign(k, q)
  BY <1>1, <1>2
<1>7. d = Digest(b) /\ s = Sign(key, p)
        <=> k = key /\ s = given /\ d = e /\ Canonical(b) = Canonical(c)
  BY <1>1, <1>2, <1>3, <1>4, <1>5, <1>6
<1> QED BY <1>1, <1>2, <1>7

-----------------------------------------------------------------------------
Kinds == {"action", "envelope", "receipt", "bundle"}

Objects == [kind : Kinds, body : Bodies, digest : Seq(Texts), sig : Seq(Texts),
            unsigned : {"original", "changed"},
            named : {"yaml", "json"}, written : {"yaml", "json"}]

Origins == [key : Keys, object : Objects, over : Seq(Texts), signings : Nat]

\* What is signed of an object over a signature it already had.
Payload(o, over) ==
  IF o.kind = "receipt" THEN ReceiptPayload(o.body, o.digest)
  ELSE Canonical(o.body) \o over

Unsigned ==
  /\ origin = NoOrigin /\ object.kind = "bundle"
  /\ object.sig = <<>> /\ object.digest = <<>>

SignedBefore ==
  /\ origin \in Origins
  /\ object.kind = origin.object.kind
  /\ origin.object.sig = Sign(origin.key, Payload(origin.object, origin.over))
  /\ origin.object.digest
       = IF object.kind = "receipt" THEN Digest(origin.object.body) ELSE <<>>
  /\ object.sig \in {origin.object.sig, <<>>, <<"damaged">>}
  /\ object.digest \in {origin.object.digest, <<>>, <<"damaged">>}
  /\ object.kind # "receipt" => object.digest = <<>>
  /\ object.kind # "bundle" => origin.over = <<>>

(***************************************************************************)
(* Whatever has happened to an object, its signature and its digest are    *)
(* those it was given, or damaged or gone, and what was signed is the      *)
(* object as it was then.                                                  *)
(***************************************************************************)
SealInv ==
  \/ object = NoObject /\ origin = NoOrigin
  \/ object \in Objects /\ (Unsigned \/ SignedBefore)

(***************************************************************************)
(* Two bodies have one canonical form if they are the same or confusable.  *)
(***************************************************************************)
LEMMA CanonicalTells ==
  ASSUME NEW b \in Bodies, NEW c \in Bodies
  PROVE  Canonical(b) = Canonical(c) <=> b = c \/ Confusable(b, c)
<1> DEFINE text(v, fallback) == IF v = "nan" /\ ~fallback THEN "null" ELSE v
           fb == "huge" \in {b.data[1], b.data[2]}
           fc == "huge" \in {c.data[1], c.data[2]}
<1>1. PICK a, u, v : b = [about |-> a, data |-> <<u, v>>]
  BY DEF Bodies
<1>2. PICK d, x, y : c = [about |-> d, data |-> <<x, y>>]
  BY DEF Bodies
<1>3. /\ Canonical(b) = <<a, text(u, fb), text(v, fb)>>
      /\ Canonical(c) = <<d, text(x, fc), text(y, fc)>>
  BY <1>1, <1>2 DEF Canonical
<1>4. b = c <=> a = d /\ u = x /\ v = y
  BY <1>1, <1>2
<1>5. fb <=> u = "huge" \/ v = "huge"
  BY <1>1
<1>6. fc <=> x = "huge" \/ y = "huge"
  BY <1>2
<1>7. Confusable(b, c) <=>
        /\ b # c /\ a = d /\ ~fb /\ ~fc
        /\ u = x \/ {u, x} = {"nan", "null"}
        /\ v = y \/ {v, y} = {"nan", "null"}
  BY <1>1, <1>2, <1>5, <1>6 DEF Confusable
<1> HIDE DEF fb, fc
<1>8. Canonical(b) = Canonical(c) <=>
        a = d /\ text(u, fb) = text(x, fc) /\ text(v, fb) = text(y, fc)
  BY <1>3
<1>9. CASE fb \/ fc
  BY <1>4, <1>5, <1>6, <1>7, <1>8, <1>9
<1>10. CASE ~fb /\ ~fc
  BY <1>4, <1>5, <1>6, <1>7, <1>8, <1>10
<1> QED BY <1>9, <1>10

(***************************************************************************)
(* With the invariant, exactly the objects verify of which nothing signed  *)
(* has changed but a NaN for a null.                                       *)
(***************************************************************************)
LEMMA SealInvSuffices == SealInv => VerifiesIffIntact
<1> SUFFICES ASSUME SealInv, NEW key \in Keys
             PROVE  Verifies(key, object)
                      <=> origin.key = key /\ (Intact \/ Confused) /\ ~Spoilt
  BY DEF VerifiesIffIntact
<1> USE ToolingAssumption DEF ToolingAssumption
<1>1. CASE object = NoObject /\ origin = NoOrigin
  <2>1. object.kind = "none" /\ origin.key = "none"
    BY <1>1 DEF NoObject, NoOrigin
  <2>2. ~Verifies(key, object)
    BY <2>1 DEF Verifies
  <2> QED BY <2>1, <2>2
<1>2. CASE object \in Objects /\ Unsigned
  <2>1. origin.key = "none" /\ object.sig = NoSignature /\ object.kind = "bundle"
    BY <1>2 DEF Unsigned, NoOrigin, NoSignature
  <2>2. ~Verifies(key, object)
    BY <2>1 DEF Verifies, PolicyVerify, LoadBundle
  <2> QED BY <2>1, <2>2
<1>3. CASE object \in Objects /\ SignedBefore
  <2> DEFINE k == origin.key
             b == object.body
             c == origin.object.body
             s == object.sig
             d == object.digest
             e == origin.object.digest
             over == origin.over
             kind == object.kind
  <2>1. /\ k \in Keys /\ b \in Bodies /\ c \in Bodies /\ over \in Seq(Texts) /\ kind \in Kinds
        /\ s \in Seq(Texts) /\ d \in Seq(Texts) /\ e \in Seq(Texts) /\ origin.object \in Objects
    BY <1>3 DEF SignedBefore, Origins, Objects
  <2>2. origin # NoOrigin
    BY <2>1 DEF NoOrigin
  <2>3. Intact \/ Confused <=> s = origin.object.sig /\ d = e /\ Canonical(b) = Canonical(c)
    BY <2>1, <2>2, CanonicalTells DEF Intact, Confused, SealKept
  <2>4. /\ s \in {origin.object.sig, <<>>, <<"damaged">>} /\ kind = origin.object.kind
        /\ origin.object.sig = Sign(k, Payload(origin.object, over))
        /\ e = IF kind = "receipt" THEN Digest(c) ELSE <<>>
        /\ kind # "receipt" => d = <<>>
        /\ kind # "bundle" => over = <<>>
    BY <1>3 DEF SignedBefore
  <2> HIDE DEF k, b, c, s, d, e, over, kind
  <2>5. CASE kind # "receipt"
    <3>1. origin.object.sig = Sign(k, Canonical(c) \o over) /\ d = e
      BY <2>4, <2>5 DEF Payload, kind, c
    <3>2. /\ s = Sign(key, Canonical(b))
               <=> s = origin.object.sig /\ k = key /\ over = <<>> /\ Canonical(b) = Canonical(c)
          /\ Sign(key, Canonical(b)) # <<>> /\ Canonical(b) \o <<>> = Canonical(b)
      BY <2>1, <2>4, <3>1, PlainSignature
    <3>3. CASE kind = "bundle"
      <4>1. Spoilt <=> over # <<>> \/ ~Readable(object)
        BY <3>3 DEF Spoilt, NoSignature, kind, over
      <4>2. Verifies(key, object) <=> Readable(object) /\ s = Sign(key, Canonical(b))
        BY <3>2, <3>3 DEF Verifies, PolicyVerify, LoadBundle, Verify, NoSignature, kind, s, b
      <4> QED BY <2>3, <3>1, <3>2, <4>1, <4>2 DEF k
    <3>4. CASE kind # "bundle"
      <4>1. ~Spoilt
        BY <3>4 DEF Spoilt, kind
      <4>2. kind = "action" \/ kind = "envelope"
        BY <2>1, <2>5, <3>4 DEF Kinds
      <4>3. Verifies(key, object) <=> s = Sign(key, Canonical(b))
        BY <3>2, <4>2 DEF Verifies, VerifyAction, VerifyEnvelope, Verify, NoSignature, kind, s, b
      <4> QED BY <2>3, <2>4, <3>1, <3>2, <3>4, <4>1, <4>3 DEF k
    <3> QED BY <3>3, <3>4
  <2>6. CASE kind = "receipt"
    <3>1. origin.object.sig = Sign(k, ReceiptPayload(c, Digest(c))) /\ e = Digest(c)
      BY <2>4, <2>6 DEF Payload, kind, c, e
    <3>2. ~Spoilt
      BY <2>6 DEF Spoilt, kind
    <3>3. d = Digest(b) /\ s = Sign(key, ReceiptPayload(b, d))
            <=> k = key /\ s = origin.object.sig /\ d = e /\ Canonical(b) = Canonical(c)
      BY <2>1, <2>4, <3>1, ReceiptSignature
    <3>4. Verifies(key, object) <=> d = Digest(b) /\ s = Sign(key, ReceiptPayload(b, d))
      BY <2>6 DEF Verifies, VerifyReceipt, Verify, kind, s, b, d
    <3> QED BY <2>3, <3>2, <3>3, <3>4 DEF k
  <2> QED BY <2>5, <2>6
<1> QED BY <1>1, <1>2, <1>3 DEF SealInv

\* An object as one of the signers makes it.
Made(kind, body, digest, sig) ==
  [kind |-> kind, body |-> body, unsigned |-> "original", digest |-> digest, sig |-> sig,
   named |-> "yaml", written |-> "yaml"]

(***************************************************************************)
(* A new object is signed over no older signature.                         *)
(***************************************************************************)
LEMMA MadeKeeps ==
  ASSUME NEW key \in Keys, NEW kind \in {"action", "envelope", "receipt"}, NEW body \in Bodies,
         NEW digest, digest = (IF kind = "receipt" THEN Digest(body) ELSE <<>>),
         NEW sig, sig = Sign(key, IF kind = "receipt" THEN ReceiptPayload(body, digest)
                                  ELSE Canonical(body)),
         object' = Made(kind, body, digest, sig),
         origin' = [key |-> key, object |-> Made(kind, body, digest, sig),
                    over |-> <<>>, signings |-> 1]
  PROVE  SealInv'
<1> DEFINE o == Made(kind, body, digest, sig)
<1>1. /\ o.kind = kind /\ o.body = body /\ o.digest = digest /\ o.sig = sig
  BY DEF Made
<1>2. digest \in Seq(Texts) /\ sig \in Seq(Texts)
  <2>1. digest \in Seq(Texts)
    <3>1. Digest(body) \in Seq(Texts) /\ <<>> \in Seq(Texts)
      BY DigestOK
    <3> QED BY <3>1
  <2>2. ReceiptPayload(body, digest) \in Seq(Texts) /\ Canonical(body) \in Seq(Texts)
    BY <2>1, ReceiptOK, CanonicalOK
  <2>3. ASSUME NEW p \in Seq(Texts) PROVE Sign(key, p) \in Seq(Texts)
    BY SignOK
  <2> QED BY <2>1, <2>2, <2>3
<1>3. o \in Objects
  BY <1>2 DEF Objects, Made, Kinds
<1>4. origin'.key = key /\ origin'.object = o /\ origin'.over = <<>> /\ origin' \in Origins
  <2>1. 1 \in Nat /\ <<>> \in Seq(Texts)
    OBVIOUS
  <2> HIDE DEF o
  <2> QED BY <1>3, <2>1 DEF Origins, o
<1>5. sig = Sign(key, Payload(o, <<>>))
  <2>1. Canonical(body) \o <<>> = Canonical(body)
    BY CanonicalOK, OverOK
  <2> QED BY <1>1, <2>1 DEF Payload
<1>6. kind # "bundle"
  OBVIOUS
<1> HIDE DEF o
<1>7. object' = o
  BY DEF o
<1>8. SignedBefore'
  BY <1>1, <1>4, <1>5, <1>6, <1>7 DEF SignedBefore, Payload
<1> QED BY <1>3, <1>7, <1>8 DEF SealInv

(***************************************************************************)
(* A policy file that is signed, whatever its signature was.               *)
(***************************************************************************)
LEMMA PolicySignKeeps ==
  ASSUME SealInv, NEW key \in Keys, NEW format \in Formats, PolicySign(key, format)
  PROVE  SealInv'
<1> USE ToolingAssumption DEF ToolingAssumption
<1>1. object \in Objects /\ object.kind = "bundle" /\ (Unsigned \/ SignedBefore)
  BY DEF SealInv, PolicySign, NoObject
<1>2. object.digest = <<>> /\ object.sig \in Seq(Texts) /\ object.body \in Bodies
  BY <1>1 DEF Unsigned, SignedBefore, Objects
<1>3. origin.signings \in Nat
  BY <1>1 DEF Unsigned, SignedBefore, Origins, NoOrigin
<1> DEFINE sig == Sign(key, Canonical(object.body) \o object.sig)
           o == [object EXCEPT !.named = format, !.written = "yaml", !.sig = sig]
<1>4. object' = o /\ origin' = [key |-> key, object |-> o, over |-> object.sig,
                                signings |-> origin.signings + 1]
  BY DEF PolicySign, Signed
<1>5. sig \in Seq(Texts)
  <2>1. PICK p \in Seq(Texts) : p = Canonical(object.body) \o object.sig
    BY <1>2, CanonicalOK, OverOK
  <2>2. Sign(key, p) \in Seq(Texts)
    BY SignOK
  <2> QED BY <2>1, <2>2
<1> HIDE DEF sig
<1>6. /\ o.kind = "bundle" /\ o.body = object.body /\ o.digest = <<>> /\ o.sig = sig
  BY <1>1, <1>2 DEF Objects
<1>7. o \in Objects
  <2>1. PICK x : x = [object EXCEPT !.named = format]
    OBVIOUS
  <2>2. x \in Objects
    BY <1>1, <2>1 DEF Objects
  <2>3. PICK y : y = [x EXCEPT !.written = "yaml"]
    OBVIOUS
  <2>4. y \in Objects
    BY <2>2, <2>3 DEF Objects
  <2>5. o = [y EXCEPT !.sig = sig]
    BY <2>1, <2>3
  <2> HIDE DEF o
  <2> QED BY <1>5, <2>4, <2>5 DEF Objects
<1> HIDE DEF o
<1>8. /\ origin'.key = key /\ origin'.object = o /\ origin'.over = object.sig
      /\ origin' \in Origins
  BY <1>2, <1>3, <1>4, <1>7 DEF Origins
<1>9. sig = Sign(key, Payload(o, object.sig))
  BY <1>6 DEF sig, Payload
<1>10. SignedBefore'
  BY <1>4, <1>6, <1>8, <1>9 DEF SignedBefore, Payload
<1> QED BY <1>4, <1>7, <1>10 DEF SealInv

(***************************************************************************)
(* Every step keeps SealInv.                                               *)
(***************************************************************************)
LEMMA SealInvariant == ToolingSpec => []SealInv
<1> USE ToolingAssumption DEF ToolingAssumption
<1>1. ToolingInit => SealInv
  BY DEF ToolingInit, SealedInit, SealInv
<1>2. SealInv /\ [ToolingNext]_toolingVars => SealInv'
  <2> SUFFICES ASSUME SealInv, [ToolingNext]_toolingVars PROVE SealInv'
    OBVIOUS
  <2>1. ASSUME UNCHANGED sealedVars PROVE SealInv'
    BY <2>1 DEF sealedVars, SealInv, Unsigned, SignedBefore
  <2>2. ASSUME object.kind # "none"
        PROVE  object \in Objects /\ (Unsigned \/ SignedBefore)
    BY <2>2 DEF SealInv, NoObject
  <2>3. ASSUME NEW key \in Keys, NEW body \in Bodies,
               SignAction(key, body) \/ Seal(key, body) \/ Issue(key, body)
        PROVE  SealInv'
    <3>1. object = NoObject /\ origin = NoOrigin
      <4>1. object = NoObject
        BY <2>3 DEF SignAction, Seal, Issue
      <4> QED BY <4>1 DEF SealInv, Objects, Kinds, NoObject
    <3>2. origin.signings + 1 = 1 /\ object.sig = <<>>
      BY <3>1 DEF NoOrigin, NoObject, NoSignature
    <3>3. PICK kind, digest, sig :
            /\ kind \in {"action", "envelope", "receipt"}
            /\ digest = (IF kind = "receipt" THEN Digest(body) ELSE <<>>)
            /\ sig = Sign(key, IF kind = "receipt" THEN ReceiptPayload(body, digest)
                               ELSE Canonical(body))
            /\ Signed(key, Made(kind, body, digest, sig))
      <4>1. CASE SignAction(key, body)
        <5>1. Signed(key, Made("action", body, <<>>, Sign(key, Canonical(body))))
          <6>1. ASSUME NEW x, NEW q,
                       q = [NoObject EXCEPT !.kind = "action", !.body = body, !.sig = x]
                PROVE  q = Made("action", body, <<>>, x)
            BY <6>1 DEF Made, NoObject, NoDigest
          <6> QED BY <4>1, <6>1 DEF SignAction
        <5> QED BY <5>1
      <4>2. CASE Seal(key, body)
        <5>1. Signed(key, Made("envelope", body, <<>>, Sign(key, Canonical(body))))
          <6>1. ASSUME NEW x, NEW q,
                       q = [NoObject EXCEPT !.kind = "envelope", !.body = body, !.sig = x]
                PROVE  q = Made("envelope", body, <<>>, x)
            BY <6>1 DEF Made, NoObject, NoDigest
          <6> QED BY <4>2, <6>1 DEF Seal
        <5> QED BY <5>1
      <4>3. CASE Issue(key, body)
        <5>1. Signed(key, Made("receipt", body, Digest(body),
                               Sign(key, ReceiptPayload(body, Digest(body)))))
          <6>1. ASSUME NEW x, NEW y, NEW q,
                       q = [NoObject EXCEPT !.kind = "receipt", !.body = body,
                                            !.digest = y, !.sig = x]
                PROVE  q = Made("receipt", body, y, x)
            BY <6>1 DEF Made, NoObject
          <6> QED BY <4>3, <6>1 DEF Issue
        <5> QED BY <5>1
      <4> QED BY <2>3, <4>1, <4>2, <4>3
    <3>4. /\ object' = Made(kind, body, digest, sig)
          /\ origin' = [key |-> key, object |-> Made(kind, body, digest, sig),
                        over |-> <<>>, signings |-> 1]
      BY <3>2, <3>3 DEF Signed
    <3> QED BY <3>3, <3>4, MadeKeeps
  <2>4. ASSUME NEW body \in Bodies, NEW format \in Formats, WriteBundle(body, format)
        PROVE  SealInv'
    <3>1. object = NoObject /\ origin' = origin
      BY <2>4 DEF WriteBundle
    <3>2. origin = NoOrigin
      BY <3>1 DEF SealInv, Objects, Kinds, NoObject
    <3>3. object' = [kind |-> "bundle", body |-> body, unsigned |-> "original",
                     digest |-> <<>>, sig |-> <<>>, named |-> format, written |-> format]
      BY <2>4 DEF WriteBundle, NoObject, NoDigest, NoSignature
    <3>4. object' \in Objects
      <4>1. <<>> \in Seq(Texts)
        OBVIOUS
      <4> QED BY <3>3, <4>1 DEF Objects, Kinds
    <3> QED BY <3>1, <3>2, <3>3, <3>4 DEF SealInv, Unsigned
  <2>5. ASSUME NEW key \in Keys, NEW format \in Formats, PolicySign(key, format)
        PROVE  SealInv'
    BY <2>5, PolicySignKeeps
  <2>6. ASSUME NEW body \in Bodies, Alter(body) PROVE SealInv'
    <3>1. object' = [object EXCEPT !.body = body] /\ origin' = origin /\ object.kind # "none"
      BY <2>6 DEF Alter
    <3>2. object \in Objects
      BY <2>2, <3>1
    <3>3. object' \in Objects /\ object'.kind = object.kind /\ object'.sig = object.sig
          /\ object'.digest = object.digest
      BY <3>1, <3>2 DEF Objects
    <3>4. Unsigned' \/ SignedBefore'
      BY <2>2, <3>1, <3>3 DEF Unsigned, SignedBefore
    <3> QED BY <3>3, <3>4 DEF SealInv
  <2>7. ASSUME NEW field \in {"sig", "digest"}, Damage(field) PROVE SealInv'
    <3>1. PICK bytes \in {<<>>, <<"damaged">>} : object' = [object EXCEPT ![field] = bytes]
      BY <2>7 DEF Damage
    <3>2. origin' = origin /\ object.kind # "none" /\ object[field] # <<>>
      BY <2>7 DEF Damage
    <3>3. object \in Objects
      BY <2>2, <3>2
    <3>4. bytes \in Seq(Texts)
      <4>1. "damaged" \in Texts
        BY DEF Texts
      <4>2. <<>> \in Seq(Texts) /\ <<"damaged">> \in Seq(Texts)
        BY <4>1
      <4> QED BY <4>2
    <3>5. CASE field = "sig"
      <4>1. object' \in Objects /\ object'.kind = object.kind /\ object'.sig = bytes
            /\ object'.digest = object.digest
        BY <3>1, <3>3, <3>4, <3>5 DEF Objects
      <4>2. object.sig # <<>>
        BY <3>2, <3>5
      <4>3. SignedBefore
        BY <2>2, <3>2, <4>2 DEF Unsigned
      <4>4. SignedBefore'
        BY <3>2, <4>1, <4>3 DEF SignedBefore
      <4> QED BY <4>1, <4>4 DEF SealInv
    <3>6. CASE field = "digest"
      <4>1. object' \in Objects /\ object'.kind = object.kind /\ object'.sig = object.sig
            /\ object'.digest = bytes
        BY <3>1, <3>3, <3>4, <3>6 DEF Objects
      <4>2. object.digest # <<>>
        BY <3>2, <3>6
      <4>3. SignedBefore
        BY <2>2, <3>2, <4>2 DEF Unsigned
      <4>4. SignedBefore'
        BY <3>2, <4>1, <4>2, <4>3 DEF SignedBefore
      <4> QED BY <4>1, <4>4 DEF SealInv
    <3> QED BY <3>5, <3>6
  <2>8. ASSUME NEW label \in {"original", "changed"}, Relabel(label) PROVE SealInv'
    <3>1. /\ object' = [object EXCEPT !.unsigned = label] /\ origin' = origin
          /\ object.kind # "none" /\ object.kind # "bundle"
      BY <2>8 DEF Relabel
    <3>2. object \in Objects /\ SignedBefore
      BY <2>2, <3>1 DEF Unsigned
    <3>3. object' \in Objects /\ object'.kind = object.kind /\ object'.sig = object.sig
          /\ object'.digest = object.digest
      BY <3>1, <3>2 DEF Objects
    <3>4. SignedBefore'
      BY <3>1, <3>2, <3>3 DEF SignedBefore
    <3> QED BY <3>3, <3>4 DEF SealInv
  <2>9. CASE Discard
    BY <2>9 DEF Discard, SealInv
  <2>10. CASE UNCHANGED toolingVars
    BY <2>1, <2>10 DEF toolingVars, sealedVars
  <2>11. ToolingNext => UNCHANGED sealedVars \/ SealedNext
    BY DEF ToolingNext
  <2> QED BY <2>1, <2>3, <2>4, <2>5, <2>6, <2>7, <2>8, <2>9, <2>10, <2>11 DEF SealedNext
<1> QED BY <1>1, <1>2, PTL DEF ToolingSpec

(***************************************************************************)
(* An object verifies exactly with the key that signed it and as long as   *)
(* what was signed is intact or has only NaN and null exchanged, after any *)
(* number of changes, with any set of JSON values; but for the bundles     *)
(* that policy_sign itself spoils.                                         *)
(***************************************************************************)
THEOREM OnlyIntactVerifies == ToolingSpec => []VerifiesIffIntact
BY SealInvariant, SealInvSuffices, PTL

=============================================================================
