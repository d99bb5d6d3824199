--------------------------- MODULE Network_proofs ---------------------------
(***************************************************************************)
(* Theorems about what comes over the network and how it is played, a part *)
(* for each component: the lookup of a host (HostLookup), the clocks of a  *)
(* connection (KeepAlive), the messages of a connection (Transport), the   *)
(* playing of a channel (Playout), the frames on their way to the screen   *)
(* (VideoPump), the recordings of a session (SessionList), the downloads   *)
(* (Downloads).                                                            *)
(***************************************************************************)
EXTENDS HostLookup, KeepAlive, Transport, Playout, VideoPump, SessionList,
        Downloads, SequenceTheorems, WellFoundedInduction, TLAPS
-----------------------------------------------------------------------------
(***************************************************************************)
(* The resolver's cache is there as long as its thread uses it             *)
(* (CacheOutlives), for any number of attempts and of threads that could   *)
(* not be created.                                                         *)
(*                                                                         *)
(* The cache is freed in EndDelete only, which waits for the thread; what  *)
(* has to be carried along is that nothing begins a thread without a cache:*)
(* threads are begun while the connection resolves, and it resolves only   *)
(* with a resolver.                                                        *)
(***************************************************************************)

(* A connection that looks its host up has a resolver (JNL_Connection).    *)
ResolverThere == state = "resolving" => entry # Freed

(* An entry holds what the name stands for, or that nobody knows it, as    *)
(* soon as the thread has looked at it.                                    *)
EntryHolds == entry.resolved \/ thread \in {"lookup", "answer"} => entry.addr \in HostHas

LookupInv == LookupTypeOK /\ CacheOutlives /\ ResolverThere /\ EntryHolds

LEMMA LookupInitially == LookupInit => LookupInv
<1>1. Freed \in [addr : HostHas \union {UNSET, FREED}, resolved : BOOLEAN] /\ ~Freed.resolved
  BY DEF Freed
<1>2. ASSUME LookupInit PROVE LookupTypeOK
  <2>1. kill \in BOOLEAN /\ joined \in BOOLEAN
    BY <1>2, Zenon DEF LookupInit
  <2>2. {attempts, refusals} \subseteq Nat
    BY <1>2 DEF LookupInit
  <2> QED BY <1>1, <1>2, <2>1, <2>2 DEF LookupInit, LookupTypeOK, HostHas
<1>3. ASSUME LookupInit PROVE CacheOutlives /\ ResolverThere /\ EntryHolds
  BY <1>1, <1>3 DEF LookupInit, CacheOutlives, ResolverThere, EntryHolds
<1> QED BY <1>2, <1>3 DEF LookupInv

(* What a lookup stores is an address, or that there is none: never what   *)
(* stands for a freed entry.                                               *)
LEMMA AddressIsNotFreed == ASSUME NEW h \in HostHas PROVE h # FREED /\ h # UNSET
  BY AddressAssumption DEF HostHas, FREED, UNSET, NONE

LEMMA ThreadKeeps == ASSUME LookupInv, ThreadSteps PROVE LookupInv'
<1>1. CASE ThreadScan
  <2>1. ASSUME thread' = "lookup" PROVE entry.addr \in HostHas
    BY <1>1, <2>1 DEF ThreadScan, LookupInv, LookupTypeOK, CacheOutlives, Freed
  <2> QED
    BY <1>1, <2>1 DEF ThreadScan, LookupInv, LookupTypeOK, CacheOutlives, ResolverThere, EntryHolds
<1>2. CASE ThreadLookup
  <2>1. entry' \in [addr : HostHas \union {UNSET, FREED}, resolved : BOOLEAN]
    BY <1>2 DEF ThreadLookup, LookupInv, LookupTypeOK
  <2>2. entry # Freed
    BY <1>2 DEF ThreadLookup, LookupInv, CacheOutlives
  <2>3. entry' # Freed
    BY <1>2, <2>2, AddressIsNotFreed DEF ThreadLookup, LookupInv, LookupTypeOK, Freed
  <2> QED
    BY <1>2, <2>1, <2>3 DEF ThreadLookup, LookupInv, LookupTypeOK, CacheOutlives, ResolverThere, EntryHolds
<1>3. CASE ThreadAnswer
  BY <1>3 DEF ThreadAnswer, LookupInv, LookupTypeOK, CacheOutlives, ResolverThere, EntryHolds, Freed
<1>4. CASE ThreadLeave
  BY <1>4 DEF ThreadLeave, LookupInv, LookupTypeOK, CacheOutlives, ResolverThere, EntryHolds
<1> QED BY <1>1, <1>2, <1>3, <1>4 DEF ThreadSteps

LEMMA CreateThreadTypes ==
  ASSUME LookupInv, CreateThread
  PROVE  /\ kill' \in BOOLEAN /\ refusals' \in Nat
         /\ thread' \in {"none", "scan"}
<1>1. refusals \in Nat
  BY DEF LookupInv, LookupTypeOK
<1>2. refusals' \in Nat /\ thread' \in {"none", "scan"}
  BY <1>1 DEF CreateThread
<1>3. kill' \in BOOLEAN
  BY Zenon DEF CreateThread
<1> QED BY <1>2, <1>3

LEMMA ResolvingKeeps == ASSUME LookupInv, RunResolving PROVE LookupInv'
<1> USE DEF RunResolving
<1>0. entry # Freed
  BY DEF LookupInv, ResolverThere
<1>1. CASE addr = NONE /\ ResolveFirst
  <2>1. entry' # Freed /\ entry' \in [addr : HostHas \union {UNSET, FREED}, resolved : BOOLEAN]
    BY <1>1, AddressIsNotFreed DEF ResolveFirst, Freed, HostHas
  <2>2. CASE ~kill
    BY <1>1, <2>1, <2>2 DEF ResolveFirst, LookupInv, LookupTypeOK, CacheOutlives, ResolverThere, EntryHolds
  <2>3. CASE kill
    BY <1>1, <2>1, <2>3, CreateThreadTypes
    DEF ResolveFirst, LookupInv, LookupTypeOK, CacheOutlives, ResolverThere, EntryHolds
  <2> QED BY <2>2, <2>3
<1>2. CASE addr = NONE /\ ResolveWait
  <2>1. CASE ~kill
    BY <1>0, <1>2, <2>1
    DEF ResolveWait, EnsureThread, LookupInv, LookupTypeOK, CacheOutlives, ResolverThere, EntryHolds
  <2>2. CASE kill
    BY <1>0, <1>2, <2>2, CreateThreadTypes
    DEF ResolveWait, EnsureThread, LookupInv, LookupTypeOK, CacheOutlives, ResolverThere, EntryHolds
  <2> QED BY <2>1, <2>2
<1>3. CASE addr = NONE /\ ResolveDone
  <2>1. addr' \in HostHas
    <3>1. CASE entry.addr = NONE
      BY <1>3, <3>1 DEF ResolveDone, LookupInv, LookupTypeOK
    <3>2. CASE entry.addr # NONE
      BY <1>0, <1>3, <3>2 DEF ResolveDone, LookupInv, LookupTypeOK, EntryHolds
    <3> QED BY <3>1, <3>2
  <2> QED
    BY <1>0, <1>3, <2>1
    DEF ResolveDone, LookupInv, LookupTypeOK, CacheOutlives, ResolverThere, EntryHolds
<1>4. CASE addr # NONE
  BY <1>0, <1>4 DEF LookupInv, LookupTypeOK, CacheOutlives, ResolverThere, EntryHolds
<1> QED BY <1>1, <1>2, <1>3, <1>4

LEMMA DeletingKeeps ==
  ASSUME LookupInv, BeginAttempt \/ BeginDelete \/ EndDelete PROVE LookupInv'
<1>1. CASE BeginAttempt
  <2>1. Unused # Freed /\ Unused \in [addr : HostHas \union {UNSET, FREED}, resolved : BOOLEAN]
    BY DEF Unused, Freed, UNSET, FREED
  <2>2. addr' \in HostHas /\ host' \in HostHas /\ state' \in {"resolving", "error"}
    BY <1>1 DEF BeginAttempt, LookupInv, LookupTypeOK, HostHas
  <2> QED
    BY <1>1, <2>1, <2>2, LookupAssumption
    DEF BeginAttempt, LookupInv, LookupTypeOK, CacheOutlives, ResolverThere, EntryHolds, Unused
<1>2. CASE BeginDelete
  BY <1>2 DEF BeginDelete, LookupInv, LookupTypeOK, CacheOutlives, ResolverThere, EntryHolds
<1>3. CASE EndDelete
  BY <1>3 DEF EndDelete, MayFree, LookupInv, LookupTypeOK, CacheOutlives, ResolverThere, EntryHolds, Freed
<1> QED BY <1>1, <1>2, <1>3

LEMMA LookupStep == ASSUME LookupInv, [LookupNext]_lookupVars PROVE LookupInv'
<1>1. CASE ThreadSteps
  BY <1>1, ThreadKeeps
<1>2. CASE RunConnection /\ RunResolving
  BY <1>2, ResolvingKeeps
<1>3. CASE RunConnection /\ RunConnecting
  BY <1>3 DEF RunConnecting, LookupInv, LookupTypeOK, CacheOutlives, ResolverThere, EntryHolds
<1>4. CASE BeginAttempt \/ BeginDelete \/ EndDelete
  BY <1>4, DeletingKeeps
<1>5. CASE UNCHANGED lookupVars
  BY <1>5 DEF lookupVars, LookupInv, LookupTypeOK, CacheOutlives, ResolverThere, EntryHolds
<1> QED BY <1>1, <1>2, <1>3, <1>4, <1>5 DEF LookupNext, RunConnection

(* The thread of a resolver uses its cache only while that is there,       *)
(* whenever the attempt is given up (~JNL_AsyncDNS).                       *)
THEOREM CacheIsThere == LookupSpec => []CacheOutlives
<1>1. LookupInv => CacheOutlives
  BY DEF LookupInv
<1> QED BY <1>1, LookupInitially, LookupStep, PTL DEF LookupSpec
-----------------------------------------------------------------------------
(***************************************************************************)
(* A connection of two ends that run is never taken for dead               *)
(* (HealthyStays), for every pair of keep-alive times, delay and number of *)
(* messages under way that KeepAliveAssumption allows.                     *)
(*                                                                         *)
(* The argument bounds an end's silence by its peer's clock.  With nothing *)
(* outstanding from the peer, what it sent last has been heard, so the     *)
(* silence is no longer than the peer's quiet, which a poll ends after     *)
(* m_keepalive seconds; with something outstanding, it is no longer than   *)
(* that and the age of the first message to be read, which is at most      *)
(* Delay.  Three keep-alive times are more than both together.             *)
(***************************************************************************)

Ages == 0 .. Delay

ClocksOK ==
  /\ quiet \in [Ends -> Nat] /\ silence \in [Ends -> Nat]
  /\ waiting \in [Ends -> Seq(Ages)] /\ underway \in [Ends -> Seq(Ages)]
  /\ polled \in [Ends -> BOOLEAN] /\ alive \in [Ends -> BOOLEAN]
  /\ gaveup \in [Ends -> {0, -3}]

(* A poll leaves no end quiet for longer than its keep-alive time.         *)
QuietBound ==
  \A e \in Ends : /\ quiet[e] <= keepalive[e] + 1
                  /\ polled[e] => quiet[e] <= keepalive[e]

(* The first message that the peer will read, and the bound on its silence.*)
NoBytes(e)   == underway[e] = <<>> /\ waiting[e] = <<>>
FirstAge(e)  == IF underway[e] # <<>> THEN underway[e][1] ELSE waiting[e][1]
HeardOf(o, s) == IF NoBytes(o) THEN s <= quiet[o] ELSE s <= keepalive[o] + 1 + FirstAge(o)
Healthy      == \A e \in Ends : Runs(e)
SilenceBound == Healthy => \A e, o \in Ends : e # o => HeardOf(o, silence[e])

AliveInv == ClocksOK /\ QuietBound /\ SilenceBound /\ HealthyStays
-----------------------------------------------------------------------------
(* Two ends: the peer of one is the other.                                 *)
LEMMA Peers ==
  ASSUME NEW e \in Ends
  PROVE  /\ Peer(e) \in Ends /\ Peer(e) # e
         /\ \A o \in Ends : o # e => o = Peer(e)
<1>1. PICK a, b \in Ends : a # b /\ Ends = {a, b}
  BY KeepAliveAssumption
<1>2. \E o \in Ends : o # e
  BY <1>1
<1>3. Peer(e) \in Ends /\ Peer(e) # e
  BY <1>2 DEF Peer
<1> QED BY <1>1, <1>3

LEMMA FirstOf == ASSUME NEW q \in Seq(Ages), q # <<>> PROVE q[1] \in Ages
<1>1. Len(q) \in Nat \ {0}
  BY EmptySeq
<1> QED BY <1>1, ElementOfSeq

LEMMA FirstIsAge ==
  ASSUME ClocksOK, NEW e \in Ends, ~NoBytes(e) PROVE FirstAge(e) \in Ages
  BY FirstOf DEF ClocksOK, NoBytes, FirstAge

LEMMA Timings ==
  /\ Delay \in Nat /\ Ages \subseteq Nat /\ \A e \in Ends : keepalive[e] \in Nat /\ keepalive[e] >= 1
  /\ \A e, o \in Ends : e # o => keepalive[o] + 1 + Delay <= 3 * keepalive[e]
  BY KeepAliveAssumption DEF Ages

(* So no end has been silent for three keep-alive times.                   *)
LEMMA NoneSilent ==
  ASSUME AliveInv, Healthy, NEW e \in Ends PROVE silence[e] <= 3 * keepalive[e]
<1> DEFINE o == Peer(e)
<1>1. o \in Ends /\ o # e
  BY Peers
<1> HIDE DEF o
<1>2. silence[e] \in Nat /\ quiet[o] \in Nat /\ quiet[o] <= keepalive[o] + 1
  BY <1>1 DEF AliveInv, ClocksOK, QuietBound
<1>3. HeardOf(o, silence[e])
  BY <1>1 DEF AliveInv, SilenceBound
<1>4. keepalive[e] \in Nat /\ keepalive[o] \in Nat /\ keepalive[o] + 1 + Delay <= 3 * keepalive[e] /\ Delay \in Nat
  BY <1>1, Timings
<1>5. CASE NoBytes(o)
  BY <1>2, <1>3, <1>4, <1>5 DEF HeardOf
<1>6. CASE ~NoBytes(o)
  <2>1. FirstAge(o) \in Nat /\ FirstAge(o) <= Delay
    BY <1>1, <1>4, <1>6, FirstIsAge DEF AliveInv, Ages
  <2> QED BY <1>2, <1>3, <1>4, <1>6, <2>1 DEF HeardOf
<1> QED BY <1>5, <1>6
-----------------------------------------------------------------------------
LEMMA AliveInitially == KeepAliveInit => AliveInv
<1> SUFFICES ASSUME KeepAliveInit PROVE AliveInv
  OBVIOUS
<1>1. ClocksOK
  <2>1. polled \in [Ends -> BOOLEAN] /\ alive \in [Ends -> BOOLEAN]
    BY DEF KeepAliveInit
  <2>2. waiting \in [Ends -> Seq(Ages)] /\ underway \in [Ends -> Seq(Ages)]
    BY EmptySeq DEF KeepAliveInit
  <2>3. quiet \in [Ends -> Nat] /\ silence \in [Ends -> Nat] /\ gaveup \in [Ends -> {0, -3}]
    BY DEF KeepAliveInit
  <2> QED BY <2>1, <2>2, <2>3 DEF ClocksOK
<1>2. QuietBound
  <2>1. \A e \in Ends : quiet[e] = 0
    BY DEF KeepAliveInit
  <2>2. ASSUME NEW e \in Ends PROVE quiet[e] <= keepalive[e] + 1 /\ quiet[e] <= keepalive[e]
    <3>1. quiet[e] = 0 /\ keepalive[e] \in Nat
      BY <2>1, Timings
    <3> QED BY <3>1
  <2> QED BY <2>2, Zenon DEF QuietBound
<1>3. SilenceBound
  BY DEF KeepAliveInit, SilenceBound, HeardOf, NoBytes
<1>4. HealthyStays
  BY DEF KeepAliveInit, HealthyStays
<1> QED BY <1>1, <1>2, <1>3, <1>4 DEF AliveInv

(* What is sent meanwhile comes after what is to be read first.            *)
LEMMA SendKeeps == ASSUME AliveInv, NEW k \in Ends, SendMessage(k) PROVE AliveInv'
<1>0. 0 \in Ages
  BY Timings DEF Ages
<1>1. waiting[k] \in Seq(Ages) /\ underway[k] \in Seq(Ages)
  BY DEF AliveInv, ClocksOK
<1>2. /\ Append(waiting[k], 0) \in Seq(Ages) /\ Append(waiting[k], 0) # <<>>
      /\ Append(waiting[k], 0)[1] = IF waiting[k] = <<>> THEN 0 ELSE waiting[k][1]
  BY <1>0, <1>1, AppendProperties, EmptySeq
<1>3. ClocksOK'
  BY <1>2 DEF SendMessage, AliveInv, ClocksOK
<1>4. QuietBound'
  BY DEF SendMessage, AliveInv, QuietBound
<1>5. SilenceBound'
  <2> SUFFICES ASSUME Healthy', NEW e \in Ends, NEW o \in Ends, e # o
               PROVE  HeardOf(o, silence[e])'
    BY DEF SilenceBound
  <2>1. HeardOf(o, silence[e])
    BY DEF AliveInv, SilenceBound, Healthy, Runs, SendMessage
  <2>2. CASE o # k
    BY <2>1, <2>2 DEF SendMessage, HeardOf, NoBytes, FirstAge, AliveInv, ClocksOK
  <2>3. CASE o = k
    <3>1. waiting'[o] = Append(waiting[o], 0)
      BY <2>3 DEF SendMessage, AliveInv, ClocksOK
    <3>2. ~NoBytes(o)' /\ FirstAge(o)' = IF NoBytes(o) THEN 0 ELSE FirstAge(o)
      BY <1>2, <2>3, <3>1 DEF SendMessage, NoBytes, FirstAge
    <3>3. quiet[o] \in Nat /\ silence[e] \in Nat /\ quiet[o] <= keepalive[o] + 1
      BY DEF AliveInv, ClocksOK, QuietBound
    <3>4. keepalive[o] \in Nat
      BY Timings
    <3> QED BY <2>1, <3>2, <3>3, <3>4 DEF HeardOf, SendMessage
  <2> QED BY <2>2, <2>3
<1>6. HealthyStays'
  BY DEF SendMessage, AliveInv, HealthyStays, Runs
<1> QED BY <1>3, <1>4, <1>5, <1>6 DEF AliveInv

LEMMA DieKeeps == ASSUME AliveInv, NEW k \in Ends, Die(k) PROVE AliveInv'
<1>1. ClocksOK' /\ QuietBound'
  BY DEF Die, AliveInv, ClocksOK, QuietBound
<1>2. alive'[k] = FALSE
  BY DEF Die, AliveInv, ClocksOK
<1>3. SilenceBound'
  BY <1>2 DEF SilenceBound, Healthy, Runs
<1>4. \A e \in Ends : Runs(e)' => Runs(e)
  BY DEF Die, AliveInv, ClocksOK, Runs
<1>5. HealthyStays'
  BY <1>4, Peers DEF Die, AliveInv, HealthyStays, Peer
<1> QED BY <1>1, <1>3, <1>5 DEF AliveInv
-----------------------------------------------------------------------------
(* What a poll of end k does: how many messages it writes and whether it   *)
(* reads one.                                                              *)
Polls(k, queue, written, message) ==
  /\ polled' = [polled EXCEPT ![k] = TRUE]
  /\ quiet' = [quiet EXCEPT ![k] = IF queue # <<>> THEN 0 ELSE @]
  /\ message => underway[Peer(k)] # <<>>
  /\ waiting' = [waiting EXCEPT ![k] = SubSeq(queue, written + 1, Len(queue))]
  /\ underway' = [underway EXCEPT ![k] = @ \o SubSeq(queue, 1, written),
                                 ![Peer(k)] = IF message THEN Tail(@) ELSE @]
  /\ silence' = [silence EXCEPT ![k] = IF message THEN 0 ELSE @]
  /\ gaveup' = [gaveup EXCEPT ![k] =
                  IF ~message /\ silence[k] > 3 * keepalive[k] THEN -3 ELSE @]
  /\ alive' = alive

(* Writing from queue q, after u, keeps what comes first.                  *)
KeepsFirst(u, q, u1, q1) ==
  /\ u1 \in Seq(Ages) /\ q1 \in Seq(Ages)
  /\ u # <<>> => u1 # <<>> /\ u1[1] = u[1]
  /\ u = <<>> /\ q # <<>> =>
       /\ u1 # <<>> => u1[1] = q[1]
       /\ u1 = <<>> => q1 # <<>> /\ q1[1] = q[1]
  /\ u = <<>> /\ q = <<>> => u1 = <<>> /\ q1 = <<>>

LEMMA FirstStays ==
  ASSUME NEW u \in Seq(Ages), NEW q \in Seq(Ages), NEW n \in 0 .. Len(q)
  PROVE  KeepsFirst(u, q, u \o SubSeq(q, 1, n), SubSeq(q, n + 1, Len(q)))
<1> DEFINE w  == SubSeq(q, 1, n)
           u1 == u \o w
           q1 == SubSeq(q, n + 1, Len(q))
<1>1. Len(q) \in Nat /\ Len(u) \in Nat /\ n \in Nat
  BY LenProperties
<1>2. w \in Seq(Ages) /\ Len(w) = n /\ (n > 0 => w[1] = q[1])
  <2>1. \A i \in 1 .. n : q[i] \in Ages
    BY <1>1, ElementOfSeq
  <2> QED BY <1>1, <2>1, SubSeqProperties
<1>3. q1 \in Seq(Ages) /\ Len(q1) = Len(q) - n /\ (n = 0 /\ q # <<>> => q1[1] = q[1])
  <2>1. \A i \in n + 1 .. Len(q) : q[i] \in Ages
    BY <1>1, ElementOfSeq
  <2>2. q1 \in Seq(Ages) /\ Len(q1) = IF n + 1 <= Len(q) THEN Len(q) - (n + 1) + 1 ELSE 0
    BY <1>1, <2>1, SubSeqProperties
  <2>3. n = 0 => q1 = q
    BY SubSeqFull
  <2> QED BY <1>1, <2>2, <2>3
<1>4. u1 \in Seq(Ages) /\ Len(u1) = Len(u) + n
      /\ \A i \in 1 .. Len(u) + n : u1[i] = IF i <= Len(u) THEN u[i] ELSE w[i - Len(u)]
  BY <1>2, ConcatProperties
<1> HIDE DEF w, u1, q1
<1>5. u # <<>> => u1 # <<>> /\ u1[1] = u[1]
  BY <1>1, <1>4, EmptySeq
<1>6. ASSUME u = <<>>, q # <<>> PROVE (u1 # <<>> => u1[1] = q[1]) /\ (u1 = <<>> => q1 # <<>> /\ q1[1] = q[1])
  <2>1. Len(u) = 0 /\ Len(q) > 0 /\ Len(u1) = n
    BY <1>1, <1>4, <1>6, EmptySeq
  <2>2. ASSUME u1 # <<>> PROVE u1[1] = q[1]
    <3>1. n > 0
      BY <1>1, <1>4, <2>1, <2>2, EmptySeq
    <3> QED BY <1>1, <1>2, <1>4, <2>1, <3>1
  <2>3. ASSUME u1 = <<>> PROVE q1 # <<>> /\ q1[1] = q[1]
    <3>1. n = 0
      BY <2>1, <2>3, EmptySeq
    <3> QED BY <1>1, <1>3, <1>6, <2>1, <3>1, EmptySeq
  <2> QED BY <2>2, <2>3
<1>7. ASSUME u = <<>>, q = <<>> PROVE u1 = <<>> /\ q1 = <<>>
  BY <1>1, <1>3, <1>4, <1>7, EmptySeq
<1>8. KeepsFirst(u, q, u1, q1)
  BY <1>3, <1>4, <1>5, <1>6, <1>7 DEF KeepsFirst
<1> QED BY <1>8 DEF u1, q1, w

LEMMA RunKeeps == ASSUME AliveInv, NEW k \in Ends, Run(k) PROVE AliveInv'
<1> DEFINE o == Peer(k)
           queue == IF Due(k) THEN <<0>> ELSE waiting[k]
<1>1. o \in Ends /\ o # k /\ \A e \in Ends : e # k => e = o
  BY Peers
<1>2. PICK written \in 0 .. Len(queue), message \in BOOLEAN : Polls(k, queue, written, message)
  BY DEF Run, Polls, Heard
<1>3. Runs(k)
  BY DEF Run
<1>4. waiting[k] \in Seq(Ages) /\ underway[k] \in Seq(Ages) /\ underway[o] \in Seq(Ages)
  BY <1>1 DEF AliveInv, ClocksOK
<1>5. queue \in Seq(Ages) /\ (Due(k) => queue # <<>> /\ queue[1] = 0)
  <2>1. 0 \in Ages
    BY Timings DEF Ages
  <2>2. <<0>> \in Seq(Ages) /\ <<0>> # <<>> /\ <<0>>[1] = 0
    BY <2>1
  <2> QED BY <1>4, <2>2
<1>6. Due(k) => waiting[k] = <<>>
  BY DEF Due
<1>7. waiting[k] = <<>> /\ ~Due(k) => quiet[k] <= keepalive[k]
  BY Timings DEF Due, AliveInv, ClocksOK
<1>8. ~Due(k) => queue = waiting[k]
  OBVIOUS
<1> HIDE DEF o, queue
<1>9. /\ waiting'[k] \in Seq(Ages) /\ underway'[k] \in Seq(Ages)
      /\ NoBytes(k)' <=> underway[k] = <<>> /\ queue = <<>>
      /\ ~NoBytes(k)' => FirstAge(k)' = IF underway[k] # <<>> THEN underway[k][1] ELSE queue[1]
  <2>1. /\ waiting'[k] = SubSeq(queue, written + 1, Len(queue))
        /\ underway'[k] = underway[k] \o SubSeq(queue, 1, written)
    BY <1>1, <1>2 DEF Polls, o, AliveInv, ClocksOK
  <2>2. KeepsFirst(underway[k], queue, underway[k] \o SubSeq(queue, 1, written),
                   SubSeq(queue, written + 1, Len(queue)))
    BY <1>4, <1>5, FirstStays
  <2>3. KeepsFirst(underway[k], queue, underway'[k], waiting'[k])
    BY <2>1, <2>2
  <2> QED BY <2>3 DEF KeepsFirst, NoBytes, FirstAge
<1>10. /\ underway'[o] = IF message THEN Tail(underway[o]) ELSE underway[o]
       /\ waiting'[o] = waiting[o] /\ quiet'[o] = quiet[o] /\ underway'[o] \in Seq(Ages)
  <2>1. underway'[o] = IF message THEN Tail(underway[o]) ELSE underway[o]
    BY <1>1, <1>2 DEF Polls, o, AliveInv, ClocksOK
  <2>2. message => underway[o] # <<>>
    BY <1>2 DEF Polls, o
  <2>3. underway'[o] \in Seq(Ages)
    BY <1>4, <2>1, <2>2, HeadTailProperties
  <2> QED BY <1>1, <1>2, <2>1, <2>3 DEF Polls, AliveInv, ClocksOK
<1>11. ClocksOK'
  <2>1. polled' \in [Ends -> BOOLEAN] /\ alive' \in [Ends -> BOOLEAN]
    BY <1>2 DEF Polls, AliveInv, ClocksOK
  <2>2. quiet' \in [Ends -> Nat] /\ silence' \in [Ends -> Nat] /\ gaveup' \in [Ends -> {0, -3}]
    BY <1>2 DEF Polls, AliveInv, ClocksOK
  <2>3. waiting' \in [Ends -> Seq(Ages)]
    BY <1>2, <1>9 DEF Polls, AliveInv, ClocksOK
  <2>4. underway' \in [Ends -> Seq(Ages)]
    <3>1. DOMAIN underway' = Ends /\ underway' = [e \in Ends |-> underway'[e]]
      BY <1>2 DEF Polls, AliveInv, ClocksOK
    <3>2. \A e \in Ends : underway'[e] \in Seq(Ages)
      BY <1>1, <1>9, <1>10
    <3> QED BY <3>1, <3>2
  <2> QED BY <2>1, <2>2, <2>3, <2>4 DEF ClocksOK
<1>12. queue = <<>> => quiet'[k] = quiet[k] /\ quiet[k] <= keepalive[k] /\ waiting[k] = <<>>
  BY <1>2, <1>5, <1>7, <1>8 DEF Polls, AliveInv, ClocksOK
<1>13. queue # <<>> => quiet'[k] = 0
  BY <1>2 DEF Polls, AliveInv, ClocksOK
<1>14. QuietBound'
  <2> SUFFICES ASSUME NEW e \in Ends
               PROVE  quiet'[e] <= keepalive[e] + 1 /\ (polled'[e] => quiet'[e] <= keepalive[e])
    BY DEF QuietBound
  <2>1. CASE e = k
    BY <1>12, <1>13, <2>1, Timings DEF AliveInv, ClocksOK, QuietBound
  <2>2. CASE e # k
    BY <1>2, <2>2 DEF Polls, AliveInv, ClocksOK, QuietBound
  <2> QED BY <2>1, <2>2
<1>15. SilenceBound'
  <2> SUFFICES ASSUME Healthy' PROVE HeardOf(o, silence[k])' /\ HeardOf(k, silence[o])'
    BY <1>1 DEF SilenceBound
  <2>1. Healthy
    BY <1>2 DEF Polls, Healthy, Runs, AliveInv, ClocksOK
  <2>2. HeardOf(o, silence[k]) /\ HeardOf(k, silence[o])
    BY <1>1, <2>1 DEF AliveInv, SilenceBound
  <2>3. silence'[k] = (IF message THEN 0 ELSE silence[k]) /\ silence'[o] = silence[o]
    BY <1>1, <1>2 DEF Polls, AliveInv, ClocksOK
  <2>4. HeardOf(o, silence[k])'
    <3>1. CASE message
      <4>1. ~NoBytes(o)' => FirstAge(o)' \in Nat
        <5>1. underway'[o] \in Seq(Ages) /\ waiting'[o] \in Seq(Ages)
          BY <1>1, <1>11 DEF ClocksOK
        <5>2. \A q \in Seq(Ages) : q # <<>> => q[1] \in Nat
          BY Timings, FirstOf
        <5> QED BY <5>1, <5>2 DEF NoBytes, FirstAge
      <4>2. silence'[k] = 0 /\ quiet'[o] \in Nat /\ keepalive[o] \in Nat
        BY <1>1, <1>11, <2>3, <3>1, Timings DEF ClocksOK
      <4> QED BY <4>1, <4>2 DEF HeardOf
    <3>2. CASE ~message
      BY <1>10, <2>2, <2>3, <3>2 DEF HeardOf, NoBytes, FirstAge
    <3> QED BY <3>1, <3>2
  <2>5. HeardOf(k, silence[o])'
    <3>1. /\ silence[o] \in Nat /\ quiet[k] \in Nat /\ keepalive[k] \in Nat
          /\ quiet[k] <= keepalive[k] + 1
      BY <1>1, Timings DEF AliveInv, ClocksOK, QuietBound
    <3>2. CASE underway[k] = <<>> /\ queue = <<>>
      BY <1>9, <1>12, <2>2, <2>3, <3>2 DEF HeardOf, NoBytes
    <3>3. CASE underway[k] # <<>>
      BY <1>9, <2>2, <2>3, <3>3 DEF HeardOf, NoBytes, FirstAge
    <3>4. CASE underway[k] = <<>> /\ queue # <<>> /\ Due(k)
      BY <1>5, <1>6, <1>9, <2>2, <2>3, <3>1, <3>4 DEF HeardOf, NoBytes
    <3>5. CASE underway[k] = <<>> /\ queue # <<>> /\ ~Due(k)
      BY <1>8, <1>9, <2>2, <2>3, <3>5 DEF HeardOf, NoBytes, FirstAge
    <3> QED BY <3>2, <3>3, <3>4, <3>5
  <2> QED BY <2>4, <2>5
<1>16. HealthyStays'
  <2>1. gaveup[o] = 0
    BY <1>1, <1>3, Peers DEF AliveInv, HealthyStays, ClocksOK
  <2>2. alive[o] => gaveup'[k] = 0
    <3>1. ASSUME alive[o] PROVE Healthy
      BY <1>1, <1>3, <2>1, <3>1 DEF Healthy, Runs
    <3>2. ASSUME alive[o] PROVE silence[k] <= 3 * keepalive[k]
      BY <3>1, <3>2, NoneSilent
    <3>3. silence[k] \in Nat /\ keepalive[k] \in Nat /\ gaveup[k] = 0
      BY <1>3, Timings DEF AliveInv, ClocksOK, Runs
    <3> QED BY <1>2, <3>2, <3>3 DEF Polls, AliveInv, ClocksOK
  <2>3. gaveup'[o] = 0 /\ alive' = alive
    BY <1>1, <1>2, <2>1 DEF Polls, AliveInv, ClocksOK
  <2> QED BY <1>1, <2>2, <2>3 DEF HealthyStays, Runs, o
<1> QED BY <1>11, <1>14, <1>15, <1>16 DEF AliveInv
-----------------------------------------------------------------------------
(* Messages that may age by a second, and what they are then.              *)
Young(q)  == \A i \in DOMAIN q : q[i] < Delay
Aged(q, r) == /\ r \in Seq(Ages) /\ (r = <<>> <=> q = <<>>)
              /\ q # <<>> => r[1] = q[1] + 1

LEMMA OlderStays ==
  ASSUME NEW q \in Seq(Ages), Young(q) PROVE Aged(q, Older(q))
<1>1. Len(q) \in Nat /\ DOMAIN q = 1 .. Len(q) /\ \A i \in 1 .. Len(q) : q[i] \in Ages
  BY LenProperties, ElementOfSeq
<1>2. \A i \in 1 .. Len(q) : q[i] + 1 \in Ages
  <2> SUFFICES ASSUME NEW i \in 1 .. Len(q) PROVE q[i] + 1 \in Ages
    OBVIOUS
  <2> DEFINE a == q[i]
  <2>1. a \in Ages /\ a < Delay
    BY <1>1 DEF Young
  <2>2. Delay \in Nat
    BY Timings
  <2> HIDE DEF a
  <2>3. a + 1 \in Ages
    BY <2>1, <2>2 DEF Ages
  <2> QED BY <2>3 DEF a
<1>3. Older(q) = [i \in 1 .. Len(q) |-> q[i] + 1]
  BY <1>1 DEF Older
<1>4. Older(q) \in [1 .. Len(q) -> Ages]
  BY <1>2, <1>3
<1>5. Older(q) \in Seq(Ages) /\ Len(Older(q)) = Len(q)
  BY <1>1, <1>3, <1>4
<1>6. Older(q) = <<>> <=> q = <<>>
  BY <1>1, <1>5, EmptySeq
<1>7. q # <<>> => Older(q)[1] = q[1] + 1
  BY <1>1, <1>3, EmptySeq
<1> QED BY <1>5, <1>6, <1>7 DEF Aged

(* The clock does not tick while a message of Delay seconds is outstanding.*)
LEMMA YoungerThanDelay ==
  ASSUME ClocksOK, NEW e \in Ends,
         \A i \in DOMAIN Outstanding(e) : Outstanding(e)[i] < Delay
  PROVE  Young(underway[e]) /\ Young(waiting[e])
<1> DEFINE u == underway[e]
           w == waiting[e]
<1>1. u \in Seq(Ages) /\ w \in Seq(Ages)
  BY DEF ClocksOK
<1> HIDE DEF u, w
<1>2. u \o w \in Seq(Ages) /\ Len(u \o w) = Len(u) + Len(w)
      /\ \A i \in 1 .. Len(u) + Len(w) : (u \o w)[i] = IF i <= Len(u) THEN u[i] ELSE w[i - Len(u)]
  BY <1>1, ConcatProperties
<1>3. Len(u) \in Nat /\ DOMAIN u = 1 .. Len(u) /\ Len(w) \in Nat /\ DOMAIN w = 1 .. Len(w)
      /\ DOMAIN (u \o w) = 1 .. Len(u) + Len(w)
  BY <1>1, <1>2, LenProperties
<1>4. \A i \in 1 .. Len(u) + Len(w) : (u \o w)[i] < Delay
  BY <1>3 DEF Outstanding, u, w
<1>5. ASSUME NEW i \in DOMAIN u PROVE u[i] < Delay
  BY <1>2, <1>3, <1>4
<1>6. ASSUME NEW i \in DOMAIN w PROVE w[i] < Delay
  <2>1. i + Len(u) \in 1 .. Len(u) + Len(w) /\ ~(i + Len(u) <= Len(u)) /\ i + Len(u) - Len(u) = i
    BY <1>3
  <2> QED BY <1>2, <1>4, <2>1
<1> QED BY <1>5, <1>6 DEF u, w, Young

LEMMA TickKeeps == ASSUME AliveInv, Tick PROVE AliveInv'
<1>1. ASSUME NEW e \in Ends
      PROVE  /\ quiet[e] \in Nat /\ silence[e] \in Nat /\ quiet[e] <= keepalive[e] + 1
             /\ keepalive[e] \in Nat /\ 3 * keepalive[e] \in Nat
  <2>1. quiet[e] \in Nat /\ silence[e] \in Nat /\ quiet[e] <= keepalive[e] + 1
    BY DEF AliveInv, ClocksOK, QuietBound
  <2>2. keepalive[e] \in Nat
    BY Timings
  <2> QED BY <2>1, <2>2
<1>2. ASSUME NEW e \in Ends
      PROVE  /\ quiet'[e] \in Nat /\ quiet'[e] <= keepalive[e] + 1
             /\ quiet[e] <= keepalive[e] => quiet'[e] = quiet[e] + 1
             /\ silence'[e] \in Nat /\ silence'[e] <= silence[e] + 1
  <2>1. quiet'[e] = Second(quiet[e], keepalive[e]) /\ silence'[e] = Second(silence[e], 3 * keepalive[e])
    BY DEF Tick
  <2> QED BY <1>1, <2>1 DEF Second
<1>3. ASSUME NEW e \in Ends, Healthy
      PROVE  Aged(waiting[e], waiting'[e]) /\ Aged(underway[e], underway'[e])
  <2>1. waiting'[e] = Older(waiting[e]) /\ underway'[e] = Older(underway[e])
    BY <1>3 DEF Tick, Healthy
  <2>2. Runs(e) /\ Runs(Peer(e))
    BY <1>3, Peers DEF Healthy
  <2>3. \A i \in DOMAIN Outstanding(e) : Outstanding(e)[i] < Delay
    BY <2>2 DEF Tick
  <2>4. Young(underway[e]) /\ Young(waiting[e])
    BY <2>3, YoungerThanDelay DEF AliveInv
  <2>5. waiting[e] \in Seq(Ages) /\ underway[e] \in Seq(Ages)
    BY DEF AliveInv, ClocksOK
  <2> QED BY <2>1, <2>4, <2>5, OlderStays
<1>5. ClocksOK'
  <2>1. quiet' \in [Ends -> Nat] /\ silence' \in [Ends -> Nat] /\ gaveup' \in [Ends -> {0, -3}]
    BY <1>2 DEF Tick, AliveInv, ClocksOK
  <2>2. polled' \in [Ends -> BOOLEAN] /\ alive' \in [Ends -> BOOLEAN]
    BY DEF Tick, AliveInv, ClocksOK
  <2>3. waiting' \in [Ends -> Seq(Ages)] /\ underway' \in [Ends -> Seq(Ages)]
    <3>1. CASE Healthy
      <4>1. waiting' = [e \in Ends |-> Older(waiting[e])] /\ underway' = [e \in Ends |-> Older(underway[e])]
        BY <3>1 DEF Tick, Healthy
      <4>2. \A e \in Ends : waiting'[e] \in Seq(Ages) /\ underway'[e] \in Seq(Ages)
        BY <1>3, <3>1 DEF Aged
      <4> QED BY <4>1, <4>2
    <3>2. CASE ~Healthy
      BY <3>2 DEF Tick, Healthy, AliveInv, ClocksOK
    <3> QED BY <3>1, <3>2
  <2> QED BY <2>1, <2>2, <2>3 DEF ClocksOK
<1>6. QuietBound'
  <2>1. ASSUME NEW e \in Ends PROVE quiet'[e] <= keepalive[e] + 1
    BY <1>2, <2>1
  <2>2. \A e \in Ends : polled'[e] = FALSE
    BY DEF Tick
  <2> QED BY <2>1, <2>2, Zenon DEF QuietBound
<1>7. SilenceBound'
  <2> SUFFICES ASSUME Healthy', NEW e \in Ends, NEW o \in Ends, e # o
               PROVE  HeardOf(o, silence[e])'
    BY DEF SilenceBound
  <2>1. Healthy
    BY DEF Tick, Healthy, Runs
  <2>2. HeardOf(o, silence[e])
    BY <2>1 DEF AliveInv, SilenceBound
  <2>3. polled[o]
    BY <2>1 DEF Tick, Healthy
  <2>4. silence'[e] <= silence[e] + 1 /\ quiet'[o] = quiet[o] + 1
    <3>1. quiet[o] <= keepalive[o]
      BY <2>3 DEF AliveInv, QuietBound
    <3> QED BY <1>2, <3>1
  <2>5. Aged(waiting[o], waiting'[o]) /\ Aged(underway[o], underway'[o])
    BY <1>3, <2>1
  <2>6. NoBytes(o)' <=> NoBytes(o)
    BY <2>5 DEF NoBytes, Aged
  <2>7. ~NoBytes(o) => FirstAge(o)' = FirstAge(o) + 1 /\ FirstAge(o) \in Nat
    <3> SUFFICES ASSUME ~NoBytes(o) PROVE FirstAge(o)' = FirstAge(o) + 1 /\ FirstAge(o) \in Nat
      OBVIOUS
    <3>1. FirstAge(o) \in Nat
      BY FirstIsAge, Timings DEF AliveInv
    <3>2. CASE underway[o] # <<>>
      BY <2>5, <3>1, <3>2 DEF FirstAge, Aged
    <3>3. CASE underway[o] = <<>>
      BY <2>5, <3>1, <3>3 DEF FirstAge, NoBytes, Aged
    <3> QED BY <3>1, <3>2, <3>3
  <2>8. CASE NoBytes(o)
    BY <1>1, <1>2, <2>2, <2>4, <2>6, <2>8 DEF HeardOf
  <2>9. CASE ~NoBytes(o)
    BY <1>1, <1>2, <2>2, <2>4, <2>6, <2>7, <2>9 DEF HeardOf
  <2> QED BY <2>8, <2>9
<1>8. HealthyStays'
  BY DEF Tick, AliveInv, HealthyStays, Runs, Peer
<1> QED BY <1>5, <1>6, <1>7, <1>8 DEF AliveInv

LEMMA AliveStep == ASSUME AliveInv, [KeepAliveNext]_aliveVars PROVE AliveInv'
<1>1. ASSUME NEW e \in Ends, SendMessage(e) \/ Run(e) \/ Die(e) PROVE AliveInv'
  BY <1>1, SendKeeps, RunKeeps, DieKeeps
<1>2. CASE Tick
  BY <1>2, TickKeeps
<1>3. CASE UNCHANGED aliveVars
  BY <1>3 DEF aliveVars, AliveInv, ClocksOK, QuietBound, SilenceBound, Healthy, HeardOf, NoBytes,
     FirstAge, Runs, HealthyStays, Peer
<1> QED BY <1>1, <1>2, <1>3 DEF KeepAliveNext

(* Two ends that run never take each other for dead, whatever they send, as*)
(* long as nothing is under way for more than Delay seconds                *)
(* (Net_Connection::Run).                                                  *)
THEOREM HealthyNeverDropped == KeepAliveSpec => []HealthyStays
<1>1. AliveInv => HealthyStays
  BY DEF AliveInv
<1> QED BY <1>1, AliveInitially, AliveStep, PTL DEF KeepAliveSpec
-----------------------------------------------------------------------------
(***************************************************************************)
(* All frames of an interval that was whole in time are shown by its end   *)
(* (AllShown), for any number of frames and of samples, and any blocks.    *)
(*                                                                         *)
(* A clip that was whole when the last block began still is, and at the end*)
(* of the interval the time of each of its frames has come.                *)
(***************************************************************************)

LEMMA LeastOfNat ==
  ASSUME NEW T, T \subseteq Nat, T # {}
  PROVE  Min(T) \in T /\ \A y \in T : Min(T) <= y
<1>1. PICK x \in T : \A y \in T : ~ (<<y, x>> \in OpToRel(<, Nat))
  BY NatLessThanWellFounded, WFMin
<1>2. \A y \in T : x <= y
  <2>1. ASSUME NEW y \in T, y < x PROVE FALSE
    <3>1. <<y, x>> \in OpToRel(<, Nat)
      BY <2>1 DEF OpToRel
    <3>2. QED BY <1>1, <3>1
  <2>2. QED BY <2>1
<1>3. QED BY <1>1, <1>2 DEF Min

PumpInv ==
  /\ clip \in [ready : 0 .. MaxFrames, total : 0 .. MaxFrames]
  /\ clip.total \in {0, clip.ready}
  /\ frame_idx \in Nat /\ frame_idx <= clip.ready
  /\ place \in 0 .. Samples
  /\ punctual => clip.total > 0
  /\ AllShown

(* What a block delivers stays among the frames that are there ...         *)
LEMMA NextFrameIs ==
  ASSUME PumpInv, NEW at
  PROVE  NextFrame(at) \in frame_idx .. clip.ready
<1> DEFINE T == {f \in frame_idx .. clip.ready : f = clip.ready \/ Threshold(f) > at}
<1>1. clip.ready \in Nat /\ frame_idx \in Nat /\ frame_idx <= clip.ready
  BY VideoPumpAssumption DEF PumpInv
<1>2. T \subseteq Nat /\ clip.ready \in T
  BY <1>1
<1>3. Min(T) \in T
  BY <1>2, LeastOfNat
<1>4. QED BY <1>3 DEF NextFrame

(* ... and at the end of the interval it is all of a clip that is whole.   *)
LEMMA ShareOf ==
  ASSUME NEW a \in Nat, NEW b \in Nat, a < b, NEW s \in Nat
  PROVE  (a * s) \div b <= s
<1>1. b > 0 /\ a * s <= b * s
  OBVIOUS
<1>2. QED BY <1>1

LEMMA LastFrameIs ==
  ASSUME PumpInv, clip.total > 0
  PROVE  NextFrame(Samples) = clip.ready
<1>1. clip.ready \in Nat /\ frame_idx \in Nat /\ frame_idx <= clip.ready /\ Samples \in Nat
      /\ clip.total = clip.ready /\ Expected = clip.ready
  BY VideoPumpAssumption DEF PumpInv, Expected
<1>2. ASSUME NEW f \in frame_idx .. clip.ready, f # clip.ready
      PROVE  ~(Threshold(f) > Samples)
  <2>1. CASE f <= 2
    BY <1>1, <2>1 DEF Threshold
  <2>2. CASE f > 2
    <3>1. f - 2 \in Nat /\ clip.ready - 2 \in Nat /\ f - 2 < clip.ready - 2
      BY <1>1, <1>2, <2>2
    <3>2. Threshold(f) = ((f - 2) * Samples) \div (clip.ready - 2)
      BY <1>1, <1>2, <2>2 DEF Threshold
    <3>3. ((f - 2) * Samples) \div (clip.ready - 2) <= Samples
      BY <1>1, <3>1, ShareOf
    <3>4. ((f - 2) * Samples) \div (clip.ready - 2) \in Int
      BY <1>1, <3>1
    <3>5. QED BY <1>1, <3>2, <3>3, <3>4
  <2>3. QED BY <1>1, <1>2, <2>1, <2>2
<1>3. {f \in frame_idx .. clip.ready : f = clip.ready \/ Threshold(f) > Samples} = {clip.ready}
  BY <1>1, <1>2
<1>4. {clip.ready} \subseteq Nat
  BY <1>1
<1>5. Min({clip.ready}) = clip.ready
  BY <1>4, LeastOfNat
<1>6. QED BY <1>3, <1>5 DEF NextFrame

LEMMA PumpInitially == VideoPumpInit => PumpInv
  BY VideoPumpAssumption DEF VideoPumpInit, PumpInv, NoClip, AllShown

LEMMA PumpStep == ASSUME PumpInv, [VideoPumpNext]_pumpVars PROVE PumpInv'
<1> USE VideoPumpAssumption
<1>1. CASE UNCHANGED pumpVars
  BY <1>1 DEF PumpInv, AllShown, pumpVars
<1>2. CASE FrameComes
  BY <1>2 DEF FrameComes, PumpInv, AllShown
<1>3. CASE ClipEnds
  BY <1>3 DEF ClipEnds, PumpInv, AllShown
<1>4. CASE OtherEnds \/ LiveFrame \/ Wait
  BY <1>4 DEF OtherEnds, LiveFrame, Wait, PumpInv, AllShown
<1>5. CASE ResetVideo
  BY <1>5 DEF ResetVideo, NoClip, PumpInv, AllShown
<1>6. ASSUME NEW len \in 1 .. Samples, Block(len) PROVE PumpInv'
  <2>1. /\ place' = place + len /\ place + len <= Samples /\ clip' = clip
        /\ frame_idx' = NextFrame(place + len) /\ punctual' = (clip.total > 0)
    BY <1>6 DEF Block
  <2>2. frame_idx' \in frame_idx .. clip.ready
    BY <2>1, NextFrameIs
  <2>3. AllShown'
    BY <2>1, LastFrameIs DEF AllShown
  <2>4. /\ clip' \in [ready : 0 .. MaxFrames, total : 0 .. MaxFrames]
        /\ clip'.total \in {0, clip'.ready}
        /\ place' \in 0 .. Samples
    BY <2>1 DEF PumpInv
  <2>5. frame_idx' \in Nat /\ frame_idx' <= clip'.ready
    BY <2>1, <2>2 DEF PumpInv
  <2>6. punctual' => clip'.total > 0
    BY <2>1
  <2>7. QED BY <2>3, <2>4, <2>5, <2>6 DEF PumpInv
<1>7. CASE NextClip
  <2>1. place' = 0 /\ punctual' = FALSE
    BY <1>7 DEF NextClip
  <2>2. (UNCHANGED <<clip, frame_idx>>) \/ (clip' \in Clips /\ frame_idx' = 0)
    BY <1>7 DEF NextClip
  <2>3. QED BY <2>1, <2>2 DEF PumpInv, AllShown, Clips
<1>8. QED BY <1>1, <1>2, <1>3, <1>4, <1>5, <1>6, <1>7 DEF VideoPumpNext

(* No frame of an interval that was whole when its last block began is left*)
(* over at its end, whatever was delivered, ended or reset before.         *)
THEOREM AllIsShown == VideoPumpSpec => []AllShown
<1>1. PumpInv => AllShown
  BY DEF PumpInv
<1>2. PumpInv /\ [VideoPumpNext]_pumpVars => PumpInv'
  BY PumpStep
<1>3. QED BY <1>1, <1>2, PumpInitially, PTL DEF VideoPumpSpec
-----------------------------------------------------------------------------
(***************************************************************************)
(* What is heard of a remote channel (HeardInPlace), for any lengths, any  *)
(* buffers and any number of intervals.                                    *)
(*                                                                         *)
(* On the grid the samples taken and those still to be dropped add up to   *)
(* the place in the interval; a decoder that is held has taken none.  In   *)
(* voice chat the intervals wait in the order they were sent, and all but  *)
(* the newest have come to their end.                                      *)
(***************************************************************************)

LEMMA LesserOf ==
  ASSUME NEW a \in Int, NEW b \in Int
  PROVE  Min({a, b}) = IF a <= b THEN a ELSE b
<1> DEFINE m == IF a <= b THEN a ELSE b
<1>1. m \in {a, b} /\ \A y \in {a, b} : m <= y
  OBVIOUS
<1>2. \A x \in {a, b} : (\A y \in {a, b} : x <= y) => x = m
  OBVIOUS
<1>3. QED BY <1>1, <1>2 DEF Min

PlayDecoders == [iv : Nat, taken : Nat, decoded : Nat, first : BOOLEAN]
(* A decoder has decoded what has come, and gives what it has decoded.     *)
Sound(d, c) == d.iv \in Intervals /\ d.taken <= d.decoded /\ d.decoded <= c[d.iv]

PlayTypeOK ==
  /\ position \in Nat /\ owed \in Nat /\ dump_samples \in Nat /\ hold_swaps \in Nat
  /\ voice \in BOOLEAN /\ (owed > 0 => voice)
  /\ newest \in Intervals /\ come \in [Intervals -> Nat]
  /\ playing \in PlayDecoders /\ (playing.iv # 0 => Sound(playing, come))

(* What waits is in order, later than what plays, and not yet begun.       *)
Lined(queue, low) ==
  /\ queue \in Seq(PlayDecoders)
  /\ \A i \in 1 .. Len(queue) :
       /\ queue[i].taken = 0 /\ Sound(queue[i], come)
       /\ low < queue[i].iv /\ queue[i].iv <= newest
  /\ \A i \in 1 .. Len(queue), j \in 1 .. Len(queue) : i < j => queue[i].iv < queue[j].iv

(* The intervals come one after the other, and each is queued once.        *)
InTurn ==
  /\ \A iv \in Intervals : iv < newest => iv \in ended
  /\ playing.iv <= newest
  /\ newest \notin ended /\ come[newest] <= Prebuffer =>
       playing.iv < newest /\ \A i \in 1 .. Len(upcoming) : upcoming[i].iv < newest

OnTheGrid ==
  ~voice /\ playing.iv # 0 =>
    IF hold_swaps > 0 THEN playing.taken = 0 /\ dump_samples = 0
                      ELSE playing.taken + dump_samples = position

PlayInv == PlayTypeOK /\ Lined(upcoming, playing.iv) /\ InTurn /\ OnTheGrid /\ HeardInPlace

LEMMA PlayInitially == PlayoutInit => PlayInv
<1> SUFFICES ASSUME PlayoutInit PROVE PlayInv
  OBVIOUS
<1> USE PlayoutAssumption
<1>1. PlayTypeOK
  BY DEF PlayoutInit, PlayTypeOK, PlayDecoders, NoDecoder, Intervals
<1>2. Lined(upcoming, playing.iv)
  BY DEF PlayoutInit, Lined
<1>3. InTurn
  BY DEF PlayoutInit, InTurn, NoDecoder, Intervals
<1>4. OnTheGrid /\ HeardInPlace
  BY DEF PlayoutInit, OnTheGrid, NoDecoder, HeardInPlace, Silence
<1>5. QED BY <1>1, <1>2, <1>3, <1>4 DEF PlayInv

(* The first of a line, and the line behind it.                            *)
LEMMA LineHead ==
  ASSUME NEW queue, NEW low \in Nat, Lined(queue, low), queue # <<>>
  PROVE  /\ Head(queue) \in PlayDecoders /\ Sound(Head(queue), come) /\ Head(queue).taken = 0
         /\ low < Head(queue).iv /\ Head(queue).iv <= newest
         /\ Lined(Tail(queue), Head(queue).iv)
         /\ Head(queue) = queue[1] /\ 1 \in 1 .. Len(queue)
         /\ \A i \in 1 .. Len(Tail(queue)) : Tail(queue)[i] = queue[i + 1] /\ i + 1 \in 1 .. Len(queue)
<1>1. queue \in Seq(PlayDecoders)
  BY DEF Lined
<1>2. /\ Len(queue) \in Nat /\ Len(queue) >= 1 /\ Head(queue) = queue[1] /\ queue[1] \in PlayDecoders
      /\ Tail(queue) \in Seq(PlayDecoders) /\ Len(Tail(queue)) = Len(queue) - 1
      /\ \A i \in 1 .. Len(Tail(queue)) : Tail(queue)[i] = queue[i + 1]
  BY <1>1, HeadTailProperties
<1>3. \A i \in 1 .. Len(Tail(queue)) : i + 1 \in 1 .. Len(queue) /\ 1 < i + 1
  BY <1>2
<1>4. 1 \in 1 .. Len(queue)
  BY <1>2
<1>5. \A i \in 1 .. Len(Tail(queue)) : queue[1].iv < queue[i + 1].iv
  BY <1>3, <1>4 DEF Lined
<1>6. ASSUME NEW i \in 1 .. Len(Tail(queue)), NEW j \in 1 .. Len(Tail(queue)), i < j
      PROVE  Tail(queue)[i].iv < Tail(queue)[j].iv
  <2>1. i + 1 \in 1 .. Len(queue) /\ j + 1 \in 1 .. Len(queue) /\ i + 1 < j + 1
    BY <1>2, <1>3, <1>6
  <2>2. QED BY <1>2, <2>1 DEF Lined
<1>7. Lined(Tail(queue), queue[1].iv)
  BY <1>2, <1>3, <1>5, <1>6 DEF Lined
<1>8. QED BY <1>2, <1>3, <1>4, <1>7 DEF Lined

(* What is behind the first n of a line.                                   *)
LEMMA LineGoesOn ==
  ASSUME NEW queue, NEW low \in Nat, Lined(queue, low), NEW n \in 0 .. Len(queue),
         NEW rest, rest = SubSeq(queue, n + 1, Len(queue))
  PROVE  /\ Lined(rest, low)
         /\ \A i \in 1 .. Len(rest) : rest[i] = queue[n + i] /\ n + i \in 1 .. Len(queue)
<1>1. queue \in Seq(PlayDecoders) /\ Len(queue) \in Nat
  BY DEF Lined
<1>2. /\ rest \in Seq(PlayDecoders) /\ Len(rest) = Len(queue) - n
      /\ \A i \in 1 .. Len(rest) : rest[i] = queue[n + i]
  <2>1. n + 1 \in 1 .. Len(queue) + 1 /\ Len(queue) \in n .. Len(queue)
    BY <1>1
  <2>2. /\ rest \in Seq(PlayDecoders)
        /\ Len(rest) = IF n + 1 <= Len(queue) THEN Len(queue) - (n + 1) + 1 ELSE 0
        /\ \A i \in 1 .. Len(queue) - (n + 1) + 1 : rest[i] = queue[n + 1 + i - 1]
    BY <1>1, <2>1, SubSeqProperties
  <2>3. QED BY <1>1, <2>1, <2>2
<1>3. \A i \in 1 .. Len(rest) : n + i \in 1 .. Len(queue)
  BY <1>1, <1>2
<1>4. ASSUME NEW i \in 1 .. Len(rest), NEW j \in 1 .. Len(rest), i < j
      PROVE  rest[i].iv < rest[j].iv
  <2>1. n + i \in 1 .. Len(queue) /\ n + j \in 1 .. Len(queue) /\ n + i < n + j
    BY <1>1, <1>2, <1>3, <1>4
  <2>2. queue[n + i].iv < queue[n + j].iv
    BY <2>1 DEF Lined
  <2>3. QED BY <1>2, <2>2
<1>5. QED BY <1>2, <1>3, <1>4 DEF Lined

(* A line stays one as more of its intervals come.                         *)
LEMMA LineStays ==
  ASSUME NEW queue, NEW low \in Nat, Lined(queue, low),
         come \in [Intervals -> Nat], come' \in [Intervals -> Nat],
         \A iv \in Intervals : come[iv] <= come'[iv],
         newest \in Nat, newest' \in Nat, newest <= newest'
  PROVE  /\ queue \in Seq(PlayDecoders)
         /\ \A i \in 1 .. Len(queue) :
              /\ queue[i].taken = 0 /\ Sound(queue[i], come')
              /\ low < queue[i].iv /\ queue[i].iv <= newest'
         /\ \A i \in 1 .. Len(queue), j \in 1 .. Len(queue) : i < j => queue[i].iv < queue[j].iv
<1>1. queue \in Seq(PlayDecoders) /\ \A i \in 1 .. Len(queue) : queue[i] \in PlayDecoders
  BY DEF Lined
<1>2. ASSUME NEW d \in PlayDecoders, Sound(d, come) PROVE Sound(d, come')
  BY <1>2 DEF Sound, PlayDecoders
<1>3. ASSUME NEW i \in 1 .. Len(queue)
      PROVE  /\ queue[i].taken = 0 /\ Sound(queue[i], come')
             /\ low < queue[i].iv /\ queue[i].iv <= newest'
  <2> DEFINE d == queue[i]
  <2>1. d \in PlayDecoders /\ d.taken = 0 /\ Sound(d, come) /\ low < d.iv /\ d.iv <= newest
    BY <1>1 DEF Lined
  <2> HIDE DEF d
  <2>2. d.iv \in Nat
    BY <2>1 DEF PlayDecoders
  <2>3. d.taken = 0 /\ Sound(d, come') /\ low < d.iv /\ d.iv <= newest'
    BY <1>2, <2>1, <2>2
  <2>4. QED BY <2>3 DEF d
<1>4. \A i \in 1 .. Len(queue), j \in 1 .. Len(queue) : i < j => queue[i].iv < queue[j].iv
  BY DEF Lined
<1>5. QED BY <1>1, <1>3, <1>4

(* A sequence and one more.                                                *)
LEMMA Appended ==
  ASSUME NEW S, NEW s \in Seq(S), NEW e \in S, NEW t, t = Append(s, e)
  PROVE  /\ t \in Seq(S) /\ Len(t) = Len(s) + 1
         /\ \A i \in 1 .. Len(s) : t[i] = s[i]
         /\ t[Len(s) + 1] = e
<1>1. /\ Append(s, e) \in Seq(S) /\ Len(Append(s, e)) = Len(s) + 1
      /\ \A i \in 1 .. Len(s) : Append(s, e)[i] = s[i]
      /\ Append(s, e)[Len(s) + 1] = e
  BY AppendProperties, SMT
<1>2. QED BY <1>1

(* The newest interval is queued behind the one that is next.              *)
LEMMA QueueHolds ==
  ASSUME PlayTypeOK, Lined(upcoming, playing.iv), playing' = playing,
         come' \in [Intervals -> Nat], \A iv \in Intervals : come[iv] <= come'[iv],
         newest' \in Nat, newest <= newest',
         playing.iv < newest, \A i \in 1 .. Len(upcoming) : upcoming[i].iv < newest,
         Queue(newest, come'[newest])
  PROVE  Lined(upcoming, playing.iv)' /\ \A i \in 1 .. Len(upcoming') : upcoming'[i].iv <= newest
<1>1. PICK d \in Min({1, come'[newest]}) .. come'[newest] :
        upcoming' = Append(IF upcoming = <<>> THEN <<>> ELSE <<Head(upcoming)>>,
                           [iv |-> newest, taken |-> 0, decoded |-> d, first |-> voice])
  BY DEF Queue
<1> DEFINE new == [iv |-> newest, taken |-> 0, decoded |-> d, first |-> voice]
<1>2. newest \in Intervals /\ newest \in Nat /\ come'[newest] \in Nat /\ come \in [Intervals -> Nat]
      /\ playing.iv \in Nat /\ voice \in BOOLEAN
  BY DEF PlayTypeOK, Intervals, PlayDecoders
<1>3. d \in Nat /\ d <= come'[newest]
  BY <1>2, LesserOf
<1>4. new \in PlayDecoders /\ Sound(new, come') /\ new.taken = 0 /\ new.iv = newest
  BY <1>2, <1>3 DEF PlayDecoders, Sound
<1> HIDE DEF new
<1>5. /\ upcoming \in Seq(PlayDecoders)
      /\ \A i \in 1 .. Len(upcoming) :
           /\ upcoming[i] \in PlayDecoders
           /\ upcoming[i].taken = 0 /\ Sound(upcoming[i], come')
           /\ playing.iv < upcoming[i].iv /\ upcoming[i].iv <= newest'
  BY <1>2, LineStays
<1>6. CASE upcoming = <<>>
  <2>1. upcoming' = <<new>>
    BY <1>1, <1>6 DEF new
  <2>2. Len(upcoming') = 1 /\ upcoming'[1] = new /\ upcoming' \in Seq(PlayDecoders)
    BY <1>4, <2>1
  <2>3. \A i \in 1 .. Len(upcoming') : i = 1
    BY <2>2
  <2>4. Lined(upcoming, playing.iv)'
    BY <1>2, <1>4, <2>2, <2>3 DEF Lined
  <2>5. \A i \in 1 .. Len(upcoming') : upcoming'[i].iv <= newest
    <3>1. ASSUME NEW i \in 1 .. Len(upcoming') PROVE upcoming'[i].iv <= newest
      <4>1. upcoming'[i] = new
        BY <2>2, <2>3
      <4>2. QED BY <1>2, <1>4, <4>1
    <3>2. QED BY <3>1
  <2>6. QED BY <2>4, <2>5
<1>7. CASE upcoming # <<>>
  <2>1. upcoming' = Append(<<Head(upcoming)>>, new)
    BY <1>1, <1>7 DEF new
  <2>2. Head(upcoming) = upcoming[1] /\ 1 \in 1 .. Len(upcoming) /\ upcoming[1] \in PlayDecoders
    BY <1>5, <1>7
  <2>3. /\ Len(upcoming') = 2 /\ upcoming'[1] = upcoming[1] /\ upcoming'[2] = new
        /\ upcoming' \in Seq(PlayDecoders)
    <3> DEFINE s == <<Head(upcoming)>>
    <3>1. s \in Seq(PlayDecoders) /\ Len(s) = 1 /\ s[1] = upcoming[1]
      BY <2>2
    <3> HIDE DEF s
    <3>2. upcoming' = Append(s, new)
      BY <2>1 DEF s
    <3>3. /\ upcoming' \in Seq(PlayDecoders) /\ Len(upcoming') = Len(s) + 1
          /\ \A i \in 1 .. Len(s) : upcoming'[i] = s[i]
          /\ upcoming'[Len(s) + 1] = new
      <4>1. s \in Seq(PlayDecoders)
        BY <3>1
      <4>2. new \in PlayDecoders
        BY <1>4
      <4>3. QED BY <3>2, <4>1, <4>2, Appended
    <3>4. 1 \in 1 .. Len(s) /\ Len(s) + 1 = 2
      BY <3>1
    <3>5. upcoming'[1] = upcoming[1] /\ upcoming'[2] = new /\ Len(upcoming') = 2
      BY <3>1, <3>3, <3>4
    <3>6. QED BY <3>3, <3>5
  <2>4. \A i \in 1 .. Len(upcoming') : i \in {1, 2}
    BY <2>3
  <2>5. \A i \in 1 .. Len(upcoming') :
           /\ upcoming'[i].taken = 0 /\ Sound(upcoming'[i], come')
           /\ playing.iv < upcoming'[i].iv /\ upcoming'[i].iv <= newest'
    BY <1>2, <1>4, <1>5, <2>2, <2>3, <2>4
  <2>6. \A i \in 1 .. Len(upcoming'), j \in 1 .. Len(upcoming') : i < j => upcoming'[i].iv < upcoming'[j].iv
    BY <1>4, <2>2, <2>3, <2>4
  <2>7. Lined(upcoming, playing.iv)'
    BY <2>3, <2>5, <2>6 DEF Lined
  <2>8. upcoming[1].iv < newest /\ upcoming[1].iv \in Nat
    BY <1>5, <2>2 DEF PlayDecoders
  <2>9. \A i \in 1 .. Len(upcoming') : upcoming'[i].iv <= newest
    BY <1>2, <1>4, <2>3, <2>4, <2>8
  <2>10. QED BY <2>7, <2>9
<1>8. QED BY <1>6, <1>7

(* What comes leaves the decoders as they are, but for the one it queues.  *)
LEMMA ComingHolds ==
  ASSUME PlayInv, Arrive \/ End
  PROVE  PlayInv'
<1>1. PlayTypeOK /\ Lined(upcoming, playing.iv) /\ InTurn /\ OnTheGrid /\ HeardInPlace
  BY DEF PlayInv
<1>2. /\ UNCHANGED <<position, voice, playing, dump_samples, hold_swaps, owed, heard, cut>>
      /\ newest \notin ended
  BY DEF Arrive, End
<1>3. newest \in Intervals /\ come \in [Intervals -> Nat] /\ Intervals \subseteq Nat
      /\ playing \in PlayDecoders /\ playing.iv \in Nat /\ newest \in Nat
  BY <1>1 DEF PlayTypeOK, Intervals, PlayDecoders
<1>4. /\ come' \in [Intervals -> Nat] /\ \A iv \in Intervals : come[iv] <= come'[iv]
      /\ newest' \in Intervals /\ newest <= newest' /\ newest' \in Nat
  <2>1. CASE Arrive
    BY <1>3, <2>1 DEF Arrive
  <2>2. CASE End
    BY <1>3, <2>2, PlayoutAssumption DEF End, Intervals
  <2>3. QED BY <2>1, <2>2
<1>5. PlayTypeOK'
  BY <1>1, <1>2, <1>3, <1>4 DEF PlayTypeOK, Sound, PlayDecoders
<1>6. Lined(upcoming, playing.iv)'
  <2>1. CASE upcoming' = upcoming
    <3>1. /\ upcoming \in Seq(PlayDecoders)
          /\ \A i \in 1 .. Len(upcoming) :
              /\ upcoming[i].taken = 0 /\ Sound(upcoming[i], come')
              /\ playing.iv < upcoming[i].iv /\ upcoming[i].iv <= newest'
          /\ \A i \in 1 .. Len(upcoming), j \in 1 .. Len(upcoming) : i < j => upcoming[i].iv < upcoming[j].iv
      BY <1>1, <1>3, <1>4, LineStays
    <3>2. QED BY <1>2, <2>1, <3>1 DEF Lined
  <2>2. CASE Queue(newest, come'[newest]) /\ come[newest] <= Prebuffer
    BY <1>1, <1>2, <1>3, <1>4, <2>2, QueueHolds DEF InTurn
  <2>3. CASE Arrive
    <3>1. come'[newest] = come[newest] + 1
      BY <1>3, <2>3 DEF Arrive
    <3>2. come'[newest] = Prebuffer + 1 => come[newest] <= Prebuffer
      BY <1>3, <3>1, PlayoutAssumption
    <3>3. QED BY <2>1, <2>2, <2>3, <3>2 DEF Arrive
  <2>4. CASE End
    BY <2>1, <2>2, <2>4 DEF End
  <2>5. QED BY <2>3, <2>4
<1>7. InTurn'
  <2>1. playing'.iv <= newest'
    BY <1>1, <1>2, <1>3, <1>4 DEF InTurn
  <2>2. CASE Arrive
    <3>1. come'[newest] = come[newest] + 1 /\ newest' = newest /\ ended' = ended
      BY <1>3, <2>2 DEF Arrive
    <3>2. come'[newest] <= Prebuffer => come[newest] <= Prebuffer /\ upcoming' = upcoming
      BY <1>3, <2>2, <3>1, PlayoutAssumption DEF Arrive
    <3>3. QED BY <1>1, <1>2, <2>1, <3>1, <3>2 DEF InTurn
  <2>3. CASE End
    <3>1. ended' = ended \union {newest} /\ newest' = IF newest < MaxIntervals THEN newest + 1 ELSE newest
      BY <2>3 DEF End
    <3>2. \A iv \in Intervals : iv < newest' => iv \in ended'
      BY <1>1, <1>3, <3>1 DEF InTurn, Intervals
    <3>3. CASE newest' = newest
      BY <1>1, <2>1, <3>1, <3>2, <3>3 DEF InTurn
    <3>4. CASE newest' = newest + 1
      <4>1. playing'.iv < newest'
        BY <1>1, <1>2, <1>3, <3>4 DEF InTurn
      <4>2. \A i \in 1 .. Len(upcoming') : upcoming'[i].iv < newest'
        <5>1. CASE upcoming' = upcoming
          <6>1. \A i \in 1 .. Len(upcoming) : upcoming[i] \in PlayDecoders /\ upcoming[i].iv <= newest
            BY <1>1 DEF Lined
          <6>2. QED BY <1>3, <3>4, <5>1, <6>1 DEF PlayDecoders
        <5>2. CASE Queue(newest, come'[newest]) /\ come[newest] <= Prebuffer
          <6>1. \A i \in 1 .. Len(upcoming') : upcoming'[i].iv <= newest
            BY <1>1, <1>2, <1>3, <1>4, <5>2, QueueHolds DEF InTurn
          <6>2. \A i \in 1 .. Len(upcoming') : upcoming'[i].iv \in Nat
            <7>1. upcoming' \in Seq(PlayDecoders)
              BY <1>6 DEF Lined
            <7>2. \A i \in 1 .. Len(upcoming') : upcoming'[i] \in PlayDecoders
              BY <7>1
            <7>3. QED BY <7>2 DEF PlayDecoders
          <6>3. ASSUME NEW i \in 1 .. Len(upcoming') PROVE upcoming'[i].iv < newest'
            <7>1. upcoming'[i].iv <= newest /\ upcoming'[i].iv \in Nat
              BY <6>1, <6>2
            <7>2. QED BY <1>3, <3>4, <7>1
          <6>4. QED BY <6>3
        <5>3. QED BY <2>3, <5>1, <5>2 DEF End
      <4>3. QED BY <2>1, <3>2, <4>1, <4>2 DEF InTurn
    <3>5. QED BY <3>1, <3>3, <3>4
  <2>4. QED BY <2>2, <2>3
<1>8. OnTheGrid' /\ HeardInPlace'
  BY <1>1, <1>2 DEF OnTheGrid, HeardInPlace
<1>9. QED BY <1>5, <1>6, <1>7, <1>8 DEF PlayInv

(* A change of mode flushes the channel.                                   *)
LEMMA ModeHolds == ASSUME PlayInv, ChangeMode PROVE PlayInv'
<1>1. PlayTypeOK /\ InTurn /\ HeardInPlace
  BY DEF PlayInv
<1>2. /\ playing' = NoDecoder /\ upcoming' = <<>> /\ hold_swaps' = 0 /\ heard' = Silence
      /\ owed = 0 /\ voice' = ~voice
      /\ UNCHANGED <<position, dump_samples, owed, come, ended, newest, cut>>
  BY DEF ChangeMode
<1>3. PlayTypeOK'
  BY <1>1, <1>2 DEF PlayTypeOK, PlayDecoders, NoDecoder
<1>4. Lined(upcoming, playing.iv)'
  BY <1>2 DEF Lined
<1>5. InTurn'
  BY <1>1, <1>2 DEF InTurn, NoDecoder, PlayTypeOK, Intervals
<1>6. OnTheGrid' /\ HeardInPlace'
  BY <1>1, <1>2 DEF OnTheGrid, HeardInPlace, NoDecoder, Silence
<1>7. QED BY <1>3, <1>4, <1>5, <1>6 DEF PlayInv

(* Of the decoder that plays, only how much it has decoded and given.      *)
LEMMA PlayingHolds ==
  ASSUME PlayInv, playing' \in PlayDecoders, playing'.iv = playing.iv, Sound(playing', come),
         position' \in Nat, owed' \in Nat, dump_samples' \in Nat, owed' > 0 => voice,
         UNCHANGED <<voice, upcoming, hold_swaps, come, ended, newest>>,
         OnTheGrid', HeardInPlace'
  PROVE  PlayInv'
<1>1. PlayTypeOK /\ Lined(upcoming, playing.iv) /\ InTurn
  BY DEF PlayInv
<1>2. PlayTypeOK'
  BY <1>1 DEF PlayTypeOK
<1>3. Lined(upcoming, playing.iv)'
  BY <1>1 DEF Lined
<1>4. InTurn'
  BY <1>1 DEF InTurn
<1>5. QED BY <1>2, <1>3, <1>4 DEF PlayInv

(* What is decoded, and what of it is dropped.                             *)
LEMMA DecodedIs ==
  ASSUME PlayTypeOK, playing.iv # 0, NEW need \in Nat, NEW d \in Decoded(need)
  PROVE  /\ d \in Nat /\ playing.decoded <= d /\ d <= come[playing.iv]
         /\ Dropped(d) = IF dump_samples <= d - playing.taken THEN dump_samples ELSE d - playing.taken
         /\ Dropped(d) \in Nat
         /\ Ready(d) = d - playing.taken - Dropped(d) /\ Ready(d) \in Nat
         /\ (Ready(d) > need \/ d = come[playing.iv])
<1>1. /\ playing.taken \in Nat /\ playing.decoded \in Nat /\ dump_samples \in Nat
      /\ come[playing.iv] \in Nat
      /\ playing.taken <= playing.decoded /\ playing.decoded <= come[playing.iv]
  BY DEF PlayTypeOK, PlayDecoders, Sound
<1>2. /\ d \in Nat /\ playing.decoded <= d /\ d <= come[playing.iv]
      /\ (Ready(d) > need \/ d = come[playing.iv])
  BY <1>1 DEF Decoded
<1>3. /\ Dropped(d) = IF dump_samples <= d - playing.taken THEN dump_samples ELSE d - playing.taken
      /\ Dropped(d) \in Nat
  BY <1>1, <1>2, LesserOf DEF Dropped
<1>4. Ready(d) = d - playing.taken - Dropped(d) /\ Ready(d) \in Nat
  BY <1>1, <1>2, <1>3 DEF Ready
<1>5. QED BY <1>2, <1>3, <1>4

LEMMA GridHolds ==
  ASSUME PlayInv, NEW len \in 1 .. Length, GridBlock(len)
  PROVE  PlayInv'
<1>1. PlayTypeOK /\ OnTheGrid /\ HeardInPlace
  BY DEF PlayInv
<1>2. /\ ~voice /\ position' = position + len /\ len \in Nat
      /\ UNCHANGED <<voice, upcoming, hold_swaps, owed, come, ended, newest, cut>>
  BY PlayoutAssumption DEF GridBlock
<1>3. position \in Nat /\ dump_samples \in Nat /\ owed \in Nat /\ playing \in PlayDecoders
  BY <1>1 DEF PlayTypeOK
<1>4. CASE hold_swaps > 0 \/ playing.iv = 0
  <2>1. UNCHANGED <<playing, dump_samples>> /\ heard' = Silence
    BY <1>4 DEF GridBlock
  <2>2. OnTheGrid' /\ HeardInPlace'
    BY <1>1, <1>2, <1>4, <2>1 DEF OnTheGrid, HeardInPlace, Silence
  <2>3. PlayTypeOK' /\ Lined(upcoming, playing.iv)' /\ InTurn'
    BY <1>2, <1>3, <2>1 DEF PlayInv, PlayTypeOK, Lined, InTurn
  <2>4. QED BY <2>2, <2>3 DEF PlayInv
<1>5. CASE ~(hold_swaps > 0) /\ playing.iv # 0
  <2>1. MixInterval(len)
    BY <1>5 DEF GridBlock
  <2>2. PICK d \in Decoded(len) :
          LET begin == playing.taken + Dropped(d) IN
          IF Ready(d) > 0 /\ Ready(d) >= len
            THEN /\ playing' = [playing EXCEPT !.decoded = d, !.taken = begin + len]
                 /\ dump_samples' = dump_samples - Dropped(d)
                 /\ heard' = [from |-> begin, at |-> position]
            ELSE /\ playing' = [playing EXCEPT !.decoded = d, !.taken = d]
                 /\ dump_samples' = dump_samples - Dropped(d) + len - Ready(d)
                 /\ heard' = Silence
    BY <2>1 DEF MixInterval
  <2>3. /\ d \in Nat /\ playing.decoded <= d /\ d <= come[playing.iv]
        /\ Dropped(d) = IF dump_samples <= d - playing.taken THEN dump_samples ELSE d - playing.taken
        /\ Dropped(d) \in Nat
        /\ Ready(d) = d - playing.taken - Dropped(d) /\ Ready(d) \in Nat
    BY <1>1, <1>2, <1>5, DecodedIs
  <2>4. /\ playing.taken \in Nat /\ playing.iv \in Intervals /\ playing.iv \in Nat /\ playing.first \in BOOLEAN
        /\ playing.taken + dump_samples = position
    BY <1>1, <1>2, <1>3, <1>5 DEF PlayTypeOK, PlayDecoders, Sound, OnTheGrid
  <2>5. CASE Ready(d) > 0 /\ Ready(d) >= len
    <3>1. /\ Dropped(d) = dump_samples /\ playing.taken + Dropped(d) = position
          /\ position + len \in Nat /\ position + len <= d
      BY <1>2, <1>3, <2>3, <2>4, <2>5
    <3>2. /\ playing' = [playing EXCEPT !.decoded = d, !.taken = position + len]
          /\ dump_samples' = 0 /\ heard' = [from |-> position, at |-> position]
      <4>1. /\ playing' = [playing EXCEPT !.decoded = d, !.taken = playing.taken + Dropped(d) + len]
            /\ dump_samples' = dump_samples - Dropped(d)
            /\ heard' = [from |-> playing.taken + Dropped(d), at |-> position]
        BY <2>2, <2>5
      <4>2. dump_samples - Dropped(d) = 0
        BY <1>3, <3>1
      <4>3. QED BY <3>1, <4>1, <4>2
    <3>3. playing' \in PlayDecoders /\ playing'.iv = playing.iv /\ Sound(playing', come)
          /\ playing'.taken = position + len
      BY <1>3, <2>3, <2>4, <3>1, <3>2 DEF PlayDecoders, Sound
    <3>4. OnTheGrid' /\ HeardInPlace'
      BY <1>1, <1>2, <1>3, <1>5, <3>2, <3>3 DEF OnTheGrid, HeardInPlace
    <3>5. position' \in Nat /\ owed' \in Nat /\ dump_samples' \in Nat
      BY <1>2, <1>3, <3>2
    <3>6. owed' > 0 => voice
      BY <1>1, <1>2 DEF PlayTypeOK
    <3>7. QED BY <1>2, <3>3, <3>4, <3>5, <3>6, PlayingHolds
  <2>6. CASE ~(Ready(d) > 0 /\ Ready(d) >= len)
    <3>1. Ready(d) <= len
      BY <1>2, <2>3, <2>6
    <3>2. /\ playing' = [playing EXCEPT !.decoded = d, !.taken = d]
          /\ dump_samples' = dump_samples - Dropped(d) + len - Ready(d) /\ heard' = Silence
      BY <2>2, <2>6
    <3>3. playing' \in PlayDecoders /\ playing'.iv = playing.iv /\ Sound(playing', come)
          /\ playing'.taken = d
      <4>1. /\ playing' \in PlayDecoders /\ playing'.iv = playing.iv
            /\ playing'.taken = d /\ playing'.decoded = d
        BY <1>3, <2>3, <3>2 DEF PlayDecoders
      <4>2. QED BY <2>3, <2>4, <4>1 DEF Sound
    <3>4. dump_samples' \in Nat /\ d + dump_samples' = position + len
      BY <1>2, <1>3, <2>3, <2>4, <3>1, <3>2
    <3>5. OnTheGrid' /\ HeardInPlace'
      BY <1>1, <1>2, <1>5, <3>2, <3>3, <3>4 DEF OnTheGrid, HeardInPlace, Silence
    <3>6. position' \in Nat /\ owed' \in Nat
      BY <1>2, <1>3
    <3>7. owed' > 0 => voice
      BY <1>1, <1>2 DEF PlayTypeOK
    <3>8. QED BY <1>2, <3>3, <3>4, <3>5, <3>6, <3>7, PlayingHolds
  <2>7. QED BY <2>5, <2>6
<1>6. QED BY <1>4, <1>5

LEMMA SwapHolds ==
  ASSUME PlayInv, NewInterval
  PROVE  PlayInv'
<1>1. PlayTypeOK /\ Lined(upcoming, playing.iv) /\ InTurn /\ OnTheGrid /\ HeardInPlace
  BY DEF PlayInv
<1>2. /\ position = Length /\ position' = 0 /\ heard' = Silence
      /\ UNCHANGED <<voice, owed, come, ended, newest, cut>>
  BY DEF NewInterval
<1>3. HeardInPlace'
  BY <1>1, <1>2 DEF HeardInPlace, Silence
<1>4. CASE UNCHANGED <<playing, upcoming, dump_samples>> /\ (voice \/ hold_swaps > 0)
           /\ hold_swaps' \in {0, hold_swaps}
  <2>1. PlayTypeOK' /\ Lined(upcoming, playing.iv)' /\ InTurn'
    BY <1>1, <1>2, <1>4 DEF PlayTypeOK, Lined, InTurn
  <2>2. OnTheGrid'
    BY <1>1, <1>2, <1>4 DEF OnTheGrid
  <2>3. QED BY <1>3, <2>1, <2>2 DEF PlayInv
<1>5. CASE hold_swaps = 0 /\ playing' = NoDecoder /\ UNCHANGED <<upcoming, dump_samples, hold_swaps>>
  <2>1. playing' \in PlayDecoders /\ playing'.iv = 0
    BY <1>5 DEF NoDecoder, PlayDecoders
  <2>2. PlayTypeOK'
    BY <1>1, <1>2, <1>5, <2>1 DEF PlayTypeOK
  <2>3. newest \in Nat /\ playing.iv \in Nat
    BY <1>1 DEF PlayTypeOK, PlayDecoders, Intervals
  <2>4. Lined(upcoming, playing.iv)'
    <3>1. \A i \in 1 .. Len(upcoming) : upcoming[i] \in PlayDecoders /\ playing.iv < upcoming[i].iv
      BY <1>1 DEF Lined
    <3>2. \A i \in 1 .. Len(upcoming) : 0 < upcoming[i].iv
      BY <2>3, <3>1 DEF PlayDecoders
    <3>3. QED BY <1>1, <1>2, <1>5, <2>1, <3>2 DEF Lined
  <2>5. InTurn'
    BY <1>1, <1>2, <1>5, <2>1, <2>3 DEF InTurn, PlayTypeOK, Intervals
  <2>6. OnTheGrid'
    BY <2>1 DEF OnTheGrid
  <2>7. QED BY <1>3, <2>2, <2>4, <2>5, <2>6 DEF PlayInv
<1>6. CASE /\ hold_swaps = 0 /\ dump_samples' = 0 /\ hold_swaps' \in {0, 1}
           /\ \E skip \in 0 .. Len(upcoming) :
                LET rest == SubSeq(upcoming, skip + 1, Len(upcoming)) IN
                /\ playing' = IF rest = <<>> THEN NoDecoder ELSE Head(rest)
                /\ upcoming' = IF rest = <<>> THEN <<>> ELSE Tail(rest)
  <2>0. hold_swaps = 0 /\ dump_samples' = 0 /\ hold_swaps' \in {0, 1}
    BY <1>6
  <2>1. PICK skip \in 0 .. Len(upcoming) :
          LET rest == SubSeq(upcoming, skip + 1, Len(upcoming)) IN
          /\ playing' = IF rest = <<>> THEN NoDecoder ELSE Head(rest)
          /\ upcoming' = IF rest = <<>> THEN <<>> ELSE Tail(rest)
    BY <1>6
  <2> DEFINE rest == SubSeq(upcoming, skip + 1, Len(upcoming))
  <2>2. /\ playing' = IF rest = <<>> THEN NoDecoder ELSE Head(rest)
        /\ upcoming' = IF rest = <<>> THEN <<>> ELSE Tail(rest)
    BY <2>1
  <2>3. playing.iv \in Nat /\ newest \in Nat /\ newest \in Intervals
    BY <1>1 DEF PlayTypeOK, PlayDecoders, Intervals
  <2>4. /\ Lined(rest, playing.iv)
        /\ \A i \in 1 .. Len(rest) : rest[i] = upcoming[skip + i] /\ skip + i \in 1 .. Len(upcoming)
    BY <1>1, <2>3, LineGoesOn
  <2> HIDE DEF rest
  <2>5. CASE rest = <<>>
    <3>1. playing' = NoDecoder /\ upcoming' = <<>>
      BY <2>2, <2>5
    <3>2. playing' \in PlayDecoders /\ playing'.iv = 0
      BY <3>1 DEF NoDecoder, PlayDecoders
    <3>3. PlayTypeOK'
      BY <1>1, <1>2, <2>0, <3>2 DEF PlayTypeOK
    <3>4. Lined(upcoming, playing.iv)'
      BY <3>1 DEF Lined
    <3>5. InTurn'
      BY <1>1, <1>2, <2>3, <3>1, <3>2 DEF InTurn, Intervals
    <3>6. OnTheGrid'
      BY <3>2 DEF OnTheGrid
    <3>7. QED BY <1>3, <3>3, <3>4, <3>5, <3>6 DEF PlayInv
  <2>6. CASE rest # <<>>
    <3>1. playing' = Head(rest) /\ upcoming' = Tail(rest)
      BY <2>2, <2>6
    <3>2. /\ Head(rest) \in PlayDecoders /\ Sound(Head(rest), come) /\ Head(rest).taken = 0
          /\ Head(rest).iv <= newest /\ Lined(Tail(rest), Head(rest).iv)
          /\ Head(rest) = rest[1] /\ 1 \in 1 .. Len(rest)
          /\ \A i \in 1 .. Len(Tail(rest)) : Tail(rest)[i] = rest[i + 1] /\ i + 1 \in 1 .. Len(rest)
      BY <2>3, <2>4, <2>6, LineHead
    <3>3. PlayTypeOK'
      <4>1. playing' \in PlayDecoders /\ Sound(playing', come')
        BY <1>2, <3>1, <3>2, Zenon
      <4>2. QED BY <1>1, <1>2, <2>0, <4>1 DEF PlayTypeOK
    <3>4. Lined(upcoming, playing.iv)'
      BY <1>2, <3>1, <3>2 DEF Lined
    <3>5. InTurn'
      <4>1. newest \notin ended /\ come[newest] <= Prebuffer =>
              \A i \in 1 .. Len(rest) : rest[i].iv < newest
        BY <1>1, <2>4 DEF InTurn
      <4>2. QED BY <1>1, <1>2, <3>1, <3>2, <4>1 DEF InTurn
    <3>6. OnTheGrid'
      BY <1>2, <2>0, <3>1, <3>2 DEF OnTheGrid
    <3>7. QED BY <1>3, <3>3, <3>4, <3>5, <3>6 DEF PlayInv
  <2>7. QED BY <2>5, <2>6
<1>7. QED
  <2>1. CASE voice
    BY <1>4, <2>1 DEF NewInterval
  <2>2. CASE SwapGrid
    BY <1>4, <1>5, <1>6, <2>2 DEF SwapGrid, FreshDump
  <2>3. QED BY <2>1, <2>2 DEF NewInterval

(* In voice chat the download that is next takes over.                     *)
LEMMA NextPlays ==
  ASSUME PlayInv, voice, upcoming # <<>>, playing' = Head(upcoming), upcoming' = Tail(upcoming),
         owed' \in Nat, dump_samples' \in Nat, HeardInPlace',
         UNCHANGED <<position, voice, hold_swaps, come, ended, newest>>
  PROVE  PlayInv'
<1>1. PlayTypeOK /\ Lined(upcoming, playing.iv) /\ InTurn
  BY DEF PlayInv
<1>2. /\ playing' \in PlayDecoders /\ Sound(playing', come) /\ playing'.iv <= newest
      /\ Lined(upcoming', playing'.iv)
      /\ playing' = upcoming[1] /\ 1 \in 1 .. Len(upcoming)
      /\ \A i \in 1 .. Len(upcoming') : upcoming'[i] = upcoming[i + 1] /\ i + 1 \in 1 .. Len(upcoming)
  <2>1. playing.iv \in Nat
    BY <1>1 DEF PlayTypeOK, PlayDecoders
  <2>2. QED BY <1>1, <2>1, LineHead
<1>3. PlayTypeOK'
  BY <1>1, <1>2 DEF PlayTypeOK
<1>4. Lined(upcoming, playing.iv)'
  BY <1>2 DEF Lined
<1>5. InTurn'
  BY <1>1, <1>2 DEF InTurn
<1>6. OnTheGrid'
  BY DEF OnTheGrid
<1>7. QED BY <1>3, <1>4, <1>5, <1>6 DEF PlayInv

LEMMA VoiceBeginsHolds ==
  ASSUME PlayInv, (\E len \in 1 .. Length : VoiceBlock(len)) \/ TakeNext
  PROVE  PlayInv'
<1>1. PlayTypeOK /\ Lined(upcoming, playing.iv) /\ InTurn /\ OnTheGrid /\ HeardInPlace
  BY DEF PlayInv
<1>2. CASE UNCHANGED playing /\ UNCHANGED upcoming
  <2>1. /\ position' \in Nat /\ owed' \in Nat /\ voice
        /\ UNCHANGED <<voice, dump_samples, hold_swaps, come, ended, newest, heard, cut>>
    <3>1. CASE TakeNext
      BY <1>1, <3>1 DEF TakeNext, PlayTypeOK
    <3>2. CASE \E len \in 1 .. Length : VoiceBlock(len)
      BY <1>1, <3>2, PlayoutAssumption DEF VoiceBlock, PlayTypeOK
    <3>3. QED BY <3>1, <3>2
  <2>2. PlayTypeOK' /\ Lined(upcoming, playing.iv)' /\ InTurn'
    BY <1>1, <1>2, <2>1 DEF PlayTypeOK, Lined, InTurn
  <2>3. OnTheGrid' /\ HeardInPlace'
    BY <1>1, <2>1 DEF OnTheGrid, HeardInPlace
  <2>4. QED BY <2>2, <2>3 DEF PlayInv
<1>3. CASE TakeNext /\ upcoming # <<>>
  <2>1. /\ voice /\ playing' = Head(upcoming) /\ upcoming' = Tail(upcoming)
        /\ UNCHANGED <<position, voice, dump_samples, hold_swaps, owed, come, ended, newest, heard, cut>>
    BY <1>1, <1>3 DEF TakeNext, PlayTypeOK
  <2>2. owed' \in Nat /\ dump_samples' \in Nat /\ HeardInPlace'
    BY <1>1, <2>1 DEF PlayTypeOK, HeardInPlace
  <2>3. QED BY <1>3, <2>1, <2>2, NextPlays
<1>4. QED BY <1>2, <1>3 DEF TakeNext, VoiceBlock

LEMMA VoiceHolds ==
  ASSUME PlayInv, MixVoice
  PROVE  PlayInv'
<1>1. PlayTypeOK /\ Lined(upcoming, playing.iv) /\ InTurn /\ HeardInPlace
  BY DEF PlayInv
<1>2. /\ owed > 0 /\ voice /\ playing.iv # 0
      /\ UNCHANGED <<position, voice, hold_swaps, come, ended, newest, heard>>
  BY <1>1 DEF MixVoice, PlayTypeOK
<1>3. PICK more \in Decoded(owed) :
       LET check == playing.first /\ Ready(playing.decoded) <= owed /\ more > playing.taken
           d     == IF check THEN come[playing.iv] ELSE more
           late  == d - playing.taken - dump_samples - VoiceBuffer - owed
           drop  == dump_samples + (IF check /\ late > VoiceSlack THEN late ELSE 0)
           begin == playing.taken + Min({drop, d - playing.taken})
           n     == Min({owed, d - begin})
           left  == owed - n
       IN /\ dump_samples' = drop - (begin - playing.taken)
          /\ owed' = IF upcoming = <<>> THEN 0 ELSE left
          /\ IF left > 0 /\ upcoming # <<>>
               THEN /\ playing' = Head(upcoming) /\ upcoming' = Tail(upcoming)
                    /\ cut' = (cut \/ playing.iv \notin ended \/ d # come[playing.iv])
               ELSE /\ playing' = [playing EXCEPT !.taken = begin + n, !.decoded = d,
                                                  !.first = @ /\ ~check]
                    /\ UNCHANGED <<upcoming, cut>>
  BY DEF MixVoice
<1> DEFINE check == playing.first /\ Ready(playing.decoded) <= owed /\ more > playing.taken
           d     == IF check THEN come[playing.iv] ELSE more
           late  == d - playing.taken - dump_samples - VoiceBuffer - owed
           drop  == dump_samples + (IF check /\ late > VoiceSlack THEN late ELSE 0)
           begin == playing.taken + Min({drop, d - playing.taken})
           n     == Min({owed, d - begin})
           left  == owed - n
<1>4. /\ dump_samples' = drop - (begin - playing.taken)
      /\ owed' = IF upcoming = <<>> THEN 0 ELSE left
      /\ left > 0 /\ upcoming # <<>> =>
           /\ playing' = Head(upcoming) /\ upcoming' = Tail(upcoming)
           /\ cut' = (cut \/ playing.iv \notin ended \/ d # come[playing.iv])
      /\ ~(left > 0 /\ upcoming # <<>>) =>
           /\ playing' = [playing EXCEPT !.taken = begin + n, !.decoded = d, !.first = @ /\ ~check]
           /\ UNCHANGED <<upcoming, cut>>
  BY <1>3
<1>5. /\ playing.taken \in Nat /\ playing.iv \in Intervals /\ playing.iv \in Nat /\ playing.first \in BOOLEAN
      /\ playing \in PlayDecoders /\ playing.decoded \in Nat
      /\ dump_samples \in Nat /\ owed \in Nat /\ come[playing.iv] \in Nat
      /\ playing.taken <= playing.decoded /\ newest \in Nat
  BY <1>1, <1>2 DEF PlayTypeOK, PlayDecoders, Sound, Intervals
<1>6. /\ more \in Nat /\ Dropped(more) \in Nat /\ playing.decoded <= more /\ more <= come[playing.iv]
      /\ Ready(more) = more - playing.taken - Dropped(more)
      /\ (Ready(more) > owed \/ more = come[playing.iv])
  BY <1>1, <1>2, <1>5, DecodedIs
<1>7. /\ check \in BOOLEAN
      /\ d \in Nat /\ playing.taken <= d /\ d <= come[playing.iv]
      /\ ~check => d = more
      /\ check => d = come[playing.iv]
  BY <1>5, <1>6
<1>8. drop \in Nat /\ (~check => drop = dump_samples)
  BY <1>5, <1>7, PlayoutAssumption
<1>9. ~check => begin = playing.taken + Dropped(more)
  BY <1>7, <1>8 DEF Dropped
<1> HIDE DEF check, d, drop
<1>10. /\ begin = playing.taken + (IF drop <= d - playing.taken THEN drop ELSE d - playing.taken)
       /\ begin \in Nat /\ begin <= d /\ drop - (begin - playing.taken) \in Nat
  <2>1. Min({drop, d - playing.taken}) = IF drop <= d - playing.taken THEN drop ELSE d - playing.taken
    BY <1>5, <1>7, <1>8, LesserOf
  <2>2. QED BY <1>5, <1>7, <1>8, <2>1
<1> HIDE DEF begin
<1>11. /\ n = (IF owed <= d - begin THEN owed ELSE d - begin)
       /\ n \in Nat /\ begin + n <= d /\ left \in Nat
  <2>1. n = IF owed <= d - begin THEN owed ELSE d - begin
    BY <1>5, <1>7, <1>10, LesserOf
  <2>2. QED BY <1>5, <1>7, <1>10, <2>1
<1> HIDE DEF n
<1>12. left > 0 => d = come[playing.iv]
  <2>1. left > 0 => d - begin < owed
    BY <1>5, <1>7, <1>10, <1>11
  <2>2. ~check => d - begin = Ready(more)
    BY <1>5, <1>6, <1>7, <1>9
  <2>3. QED BY <1>5, <1>6, <1>7, <1>10, <2>1, <2>2
<1> HIDE DEF left
<1>13. dump_samples' \in Nat /\ owed' \in Nat
  BY <1>4, <1>10, <1>11
<1>14. CASE left > 0 /\ upcoming # <<>>
  <2>1. playing.iv \in ended
    <3>1. playing.iv < upcoming[1].iv /\ upcoming[1].iv <= newest /\ upcoming[1] \in PlayDecoders
      BY <1>1, <1>5, <1>14, LineHead
    <3>2. playing.iv < newest
      BY <1>5, <3>1 DEF PlayDecoders
    <3>3. QED BY <1>1, <1>5, <3>2 DEF InTurn
  <2>2. HeardInPlace'
    BY <1>1, <1>2, <1>4, <1>12, <1>14, <2>1 DEF HeardInPlace
  <2>3. playing' = Head(upcoming) /\ upcoming' = Tail(upcoming)
    BY <1>4, <1>14
  <2>4. QED BY <1>2, <1>13, <1>14, <2>2, <2>3, NextPlays
<1>15. CASE ~(left > 0 /\ upcoming # <<>>)
  <2>1. /\ playing' = [playing EXCEPT !.taken = begin + n, !.decoded = d, !.first = @ /\ ~check]
        /\ UNCHANGED <<upcoming, cut>>
    BY <1>4, <1>15
  <2>2. /\ playing' \in PlayDecoders /\ playing'.iv = playing.iv
        /\ playing'.taken = begin + n /\ playing'.decoded = d
    <3> DEFINE f == playing.first /\ ~check
    <3>1. playing' = [playing EXCEPT !.taken = begin + n, !.decoded = d, !.first = f]
      BY <2>1
    <3>2. f \in BOOLEAN
      OBVIOUS
    <3>3. begin + n \in Nat
      BY <1>10, <1>11
    <3> HIDE DEF f
    <3>4. QED BY <1>5, <1>7, <3>1, <3>2, <3>3 DEF PlayDecoders
  <2>3. Sound(playing', come)
    BY <1>5, <1>7, <1>11, <2>2 DEF Sound
  <2>4. OnTheGrid' /\ HeardInPlace' /\ position' \in Nat
    BY <1>1, <1>2, <2>1 DEF OnTheGrid, HeardInPlace, PlayTypeOK
  <2>5. QED BY <1>2, <1>13, <2>1, <2>2, <2>3, <2>4, PlayingHolds
<1>16. QED BY <1>14, <1>15

LEMMA PlayStep == PlayInv /\ [PlayoutNext]_playVars => PlayInv'
<1> SUFFICES ASSUME PlayInv, [PlayoutNext]_playVars PROVE PlayInv'
  OBVIOUS
<1>1. CASE Arrive \/ End
  BY <1>1, ComingHolds
<1>2. CASE ChangeMode
  BY <1>2, ModeHolds
<1>3. ASSUME NEW len \in 1 .. Length, GridBlock(len) PROVE PlayInv'
  BY <1>3, GridHolds
<1>4. CASE (\E len \in 1 .. Length : VoiceBlock(len)) \/ TakeNext
  BY <1>4, VoiceBeginsHolds
<1>5. CASE NewInterval
  BY <1>5, SwapHolds
<1>6. CASE MixVoice
  BY <1>6, VoiceHolds
<1>7. CASE UNCHANGED playVars
  <2>1. UNCHANGED <<position, voice, playing, upcoming, dump_samples, hold_swaps, owed, come, ended,
                    newest, heard, cut>>
    BY <1>7 DEF playVars
  <2>2. QED BY <2>1 DEF PlayInv, PlayTypeOK, Lined, InTurn, OnTheGrid, HeardInPlace
<1>8. QED BY <1>1, <1>2, <1>3, <1>4, <1>5, <1>6, <1>7 DEF PlayoutNext

(* On the interval grid every sample that is heard belongs where it is     *)
(* heard, whatever came too late, was held, skipped or dropped, and in     *)
(* voice chat no download gives way before its end has been heard: of      *)
(* every length of an interval, every prebuffer and every buffer.          *)
THEOREM HeardIsInPlace == PlayoutSpec => []HeardInPlace
<1>1. PlayoutInit => PlayInv
  BY PlayInitially
<1>2. PlayInv /\ [PlayoutNext]_playVars => PlayInv'
  BY PlayStep
<1>3. PlayInv => HeardInPlace
  BY DEF PlayInv
<1>4. QED BY <1>1, <1>2, <1>3, PTL DEF PlayoutSpec
-----------------------------------------------------------------------------
(***************************************************************************)
(* Messages over a socket (Transport): the connection is a channel         *)
(* (Channel), step by step, and a connection is reported lost when every   *)
(* whole message has been handled (HandledBeforeLost); for any rings, any  *)
(* sizes, any messages and any cuts of the socket.                         *)
(*                                                                         *)
(* What is unread in the receiving ring, under way, and not yet sent makes *)
(* one line of bytes: it begins where the parser is, each byte follows the *)
(* one before, and, as long as the stream flows, it ends where the sending *)
(* loop is.  A step adds bytes at the end, takes them from the front, cuts *)
(* the line where the connection breaks, or moves bytes along it.          *)
(***************************************************************************)

Bytes == Nat \X Nat

(* The place after a byte, with messages of sizes z.                       *)
Place(z, m, k) == IF k = Header + z[m] THEN <<m + 1, 0>> ELSE <<m, k>>
Next1(z, b)    == Place(z, b[1], b[2] + 1)

(* s begins at a, and each byte of it follows the one before; all are bytes*)
(* of messages up to n.                                                    *)
Linked(z, a, s) ==
  /\ s # <<>> => s[1] = a
  /\ \A i \in 1 .. Len(s) - 1 : s[i + 1] = Next1(z, s[i])
Genuine(z, n, s) ==
  \A i \in 1 .. Len(s) : s[i][1] \in 1 .. n /\ s[i][2] < Header + z[s[i][1]]
OnLine(z, n, a, s) == s \in Seq(Bytes) /\ Linked(z, a, s) /\ Genuine(z, n, s)
AfterAll(z, a, s)  == IF s = <<>> THEN a ELSE Next1(z, s[Len(s)])

LEMMA LineCut ==
  ASSUME NEW z, NEW n, NEW a, NEW s \in Seq(Bytes), NEW t \in Seq(Bytes), OnLine(z, n, a, s \o t)
  PROVE  OnLine(z, n, a, s)
<1>1. Len(s) \in Nat /\ Len(t) \in Nat /\ Len(s \o t) = Len(s) + Len(t)
      /\ \A i \in 1 .. Len(s) : (s \o t)[i] = s[i]
  BY ConcatProperties, LenProperties
<1>2. s # <<>> => Len(s) >= 1 /\ s \o t # <<>>
  BY <1>1, EmptySeq, ConcatEqualIffEmpty
<1>3. Linked(z, a, s)
  <2>1. s # <<>> => s[1] = a
    BY <1>1, <1>2 DEF OnLine, Linked
  <2>2. ASSUME NEW i \in 1 .. Len(s) - 1 PROVE s[i + 1] = Next1(z, s[i])
    <3>1. i \in 1 .. Len(s \o t) - 1 /\ i \in 1 .. Len(s) /\ i + 1 \in 1 .. Len(s)
      BY <1>1
    <3>2. (s \o t)[i + 1] = Next1(z, (s \o t)[i])
      BY <3>1 DEF OnLine, Linked
    <3>3. QED BY <1>1, <3>1, <3>2
  <2>3. QED BY <2>1, <2>2 DEF Linked
<1>4. Genuine(z, n, s)
  <2>1. ASSUME NEW i \in 1 .. Len(s) PROVE s[i][1] \in 1 .. n /\ s[i][2] < Header + z[s[i][1]]
    <3>1. i \in 1 .. Len(s \o t)
      BY <1>1
    <3>2. QED BY <1>1, <3>1 DEF OnLine, Genuine
  <2>2. QED BY <2>1 DEF Genuine
<1>5. QED BY <1>3, <1>4 DEF OnLine

LEMMA LineJoin ==
  ASSUME NEW z, NEW n, NEW a, NEW s, NEW t,
         OnLine(z, n, a, s), OnLine(z, n, AfterAll(z, a, s), t)
  PROVE  OnLine(z, n, a, s \o t) /\ AfterAll(z, a, s \o t) = AfterAll(z, AfterAll(z, a, s), t)
<1>1. s \in Seq(Bytes) /\ t \in Seq(Bytes)
  BY DEF OnLine
<1>2. CASE s = <<>>
  <2>1. s \o t = t /\ AfterAll(z, a, s) = a
    BY <1>1, <1>2, ConcatEmptySeq DEF AfterAll
  <2>2. QED BY <2>1
<1>3. CASE t = <<>>
  <2>1. s \o t = s
    BY <1>1, <1>3, ConcatEmptySeq
  <2>2. AfterAll(z, AfterAll(z, a, s), t) = AfterAll(z, a, s)
    BY <1>3 DEF AfterAll
  <2>3. QED BY <2>1, <2>2
<1>4. CASE s # <<>> /\ t # <<>>
  <2>1. /\ s \o t \in Seq(Bytes) /\ Len(s) \in Nat /\ Len(t) \in Nat
        /\ Len(s \o t) = Len(s) + Len(t) /\ Len(s) >= 1 /\ Len(t) >= 1
        /\ \A i \in 1 .. Len(s) + Len(t) : (s \o t)[i] = IF i <= Len(s) THEN s[i] ELSE t[i - Len(s)]
    BY <1>1, <1>4, ConcatProperties, LenProperties, EmptySeq
  <2>2. s \o t # <<>>
    BY <1>1, <1>4, ConcatEqualIffEmpty
  <2>3. (s \o t)[1] = a
    BY <1>4, <2>1 DEF OnLine, Linked
  <2>4. (s \o t)[Len(s \o t)] = t[Len(t)]
    BY <2>1
  <2>5. ASSUME NEW i \in 1 .. Len(s \o t) - 1 PROVE (s \o t)[i + 1] = Next1(z, (s \o t)[i])
    <3>1. CASE i < Len(s)
      <4>1. i \in 1 .. Len(s) - 1 /\ (s \o t)[i] = s[i] /\ (s \o t)[i + 1] = s[i + 1]
        BY <2>1, <3>1
      <4>2. QED BY <4>1 DEF OnLine, Linked
    <3>2. CASE i = Len(s)
      <4>1. (s \o t)[i] = s[Len(s)] /\ (s \o t)[i + 1] = t[1]
        BY <2>1, <3>2
      <4>2. t[1] = AfterAll(z, a, s)
        BY <1>4 DEF OnLine, Linked
      <4>3. QED BY <1>4, <4>1, <4>2 DEF AfterAll
    <3>3. CASE i > Len(s)
      <4>1. i - Len(s) \in 1 .. Len(t) - 1 /\ (s \o t)[i] = t[i - Len(s)]
            /\ (s \o t)[i + 1] = t[(i - Len(s)) + 1]
        BY <2>1, <3>3
      <4>2. QED BY <4>1 DEF OnLine, Linked
    <3>4. QED BY <2>1, <3>1, <3>2, <3>3
  <2>6. ASSUME NEW i \in 1 .. Len(s \o t)
        PROVE  (s \o t)[i][1] \in 1 .. n /\ (s \o t)[i][2] < Header + z[(s \o t)[i][1]]
    <3>1. CASE i <= Len(s)
      <4>1. i \in 1 .. Len(s) /\ (s \o t)[i] = s[i]
        BY <2>1, <3>1
      <4>2. QED BY <4>1 DEF OnLine, Genuine
    <3>2. CASE i > Len(s)
      <4>1. i - Len(s) \in 1 .. Len(t) /\ (s \o t)[i] = t[i - Len(s)]
        BY <2>1, <3>2
      <4>2. QED BY <4>1 DEF OnLine, Genuine
    <3>3. QED BY <2>1, <3>1, <3>2
  <2>7. OnLine(z, n, a, s \o t)
    BY <2>1, <2>3, <2>5, <2>6 DEF OnLine, Linked, Genuine
  <2>8. QED BY <1>4, <2>2, <2>4, <2>7 DEF AfterAll
<1>5. QED BY <1>2, <1>3, <1>4

LEMMA LineRest ==
  ASSUME NEW z, NEW n, NEW a, NEW s \in Seq(Bytes), NEW t \in Seq(Bytes), OnLine(z, n, a, s \o t)
  PROVE  /\ OnLine(z, n, AfterAll(z, a, s), t)
         /\ AfterAll(z, a, s \o t) = AfterAll(z, AfterAll(z, a, s), t)
<1>1. /\ s \o t \in Seq(Bytes) /\ Len(s) \in Nat /\ Len(t) \in Nat
      /\ Len(s \o t) = Len(s) + Len(t)
      /\ \A i \in 1 .. Len(s) + Len(t) : (s \o t)[i] = IF i <= Len(s) THEN s[i] ELSE t[i - Len(s)]
  BY ConcatProperties, LenProperties
<1>2. s # <<>> => Len(s) >= 1
  BY <1>1, EmptySeq
<1>3. t # <<>> => Len(t) >= 1
  BY <1>1, EmptySeq
<1>4. ASSUME t # <<>> PROVE t[1] = AfterAll(z, a, s)
  <2>1. CASE s = <<>>
    <3>1. s \o t = t
      BY <2>1, ConcatEmptySeq
    <3>2. QED BY <1>4, <2>1, <3>1 DEF OnLine, Linked, AfterAll
  <2>2. CASE s # <<>>
    <3>1. Len(s) \in 1 .. Len(s \o t) - 1 /\ (s \o t)[Len(s)] = s[Len(s)]
          /\ (s \o t)[Len(s) + 1] = t[1]
      BY <1>1, <1>2, <1>3, <1>4, <2>2
    <3>2. QED BY <2>2, <3>1 DEF OnLine, Linked, AfterAll
  <2>3. QED BY <2>1, <2>2
<1>5. ASSUME NEW i \in 1 .. Len(t) - 1 PROVE t[i + 1] = Next1(z, t[i])
  <2>1. Len(s) + i \in 1 .. Len(s \o t) - 1 /\ (s \o t)[Len(s) + i] = t[i]
        /\ (s \o t)[(Len(s) + i) + 1] = t[i + 1]
    BY <1>1
  <2>2. QED BY <2>1 DEF OnLine, Linked
<1>6. ASSUME NEW i \in 1 .. Len(t)
      PROVE  t[i][1] \in 1 .. n /\ t[i][2] < Header + z[t[i][1]]
  <2>1. Len(s) + i \in 1 .. Len(s \o t) /\ (s \o t)[Len(s) + i] = t[i]
    BY <1>1
  <2>2. QED BY <2>1 DEF OnLine, Genuine
<1>7. OnLine(z, n, AfterAll(z, a, s), t)
  BY <1>4, <1>5, <1>6 DEF OnLine, Linked, Genuine
<1>8. OnLine(z, n, a, s)
  BY LineCut
<1>9. QED BY <1>7, <1>8, LineJoin

LEMMA LineLater ==
  ASSUME NEW z, NEW n \in Nat, NEW k \in Nat, n <= k, NEW a, NEW s, OnLine(z, n, a, s)
  PROVE  OnLine(z, k, a, s)
BY DEF OnLine, Genuine

(* A part of a message is such a line.                                     *)
LEMMA BytesAre ==
  ASSUME NEW m, NEW from \in Nat, NEW n \in Nat
  PROVE  /\ Len(BytesOf(m, from, n)) = n
         /\ \A i \in 1 .. n : BytesOf(m, from, n)[i] = <<m, from + i - 1>>
         /\ m \in Nat => BytesOf(m, from, n) \in Seq(Bytes)
         /\ BytesOf(m, from, n) = <<>> <=> n = 0
<1>1. BytesOf(m, from, n) = [i \in 1 .. n |-> <<m, from + i - 1>>]
  BY DEF BytesOf
<1>2. \A i \in 1 .. n : <<m, from + i - 1>> \in {m} \X Nat
  OBVIOUS
<1>3. BytesOf(m, from, n) \in Seq({m} \X Nat)
  BY <1>1, <1>2, IsASeq
<1>4. Len(BytesOf(m, from, n)) = n
  BY <1>1, <1>3, LenProperties
<1>5. ASSUME m \in Nat PROVE BytesOf(m, from, n) \in Seq(Bytes)
  <2>1. \A i \in 1 .. n : <<m, from + i - 1>> \in Bytes
    BY <1>5 DEF Bytes
  <2>2. [i \in 1 .. n |-> <<m, from + i - 1>>] \in Seq(Bytes)
    BY <2>1, IsASeq
  <2>3. QED BY <1>1, <2>2
<1>6. QED BY <1>1, <1>3, <1>4, <1>5, EmptySeq

LEMMA PartLinked ==
  ASSUME NEW z, NEW acc \in Nat, NEW m \in 1 .. acc, z[m] \in Nat,
         NEW from \in Nat, NEW n \in Nat, from < Header + z[m], from + n <= Header + z[m]
  PROVE  /\ OnLine(z, acc, <<m, from>>, BytesOf(m, from, n))
         /\ AfterAll(z, <<m, from>>, BytesOf(m, from, n)) = Place(z, m, from + n)
<1> DEFINE s == BytesOf(m, from, n)
<1>1. /\ Len(s) = n /\ s \in Seq(Bytes) /\ (s = <<>> <=> n = 0)
      /\ \A i \in 1 .. n : s[i] = <<m, from + i - 1>>
  <2>1. m \in Nat
    OBVIOUS
  <2>2. /\ Len(BytesOf(m, from, n)) = n
        /\ \A i \in 1 .. n : BytesOf(m, from, n)[i] = <<m, from + i - 1>>
        /\ BytesOf(m, from, n) \in Seq(Bytes)
        /\ BytesOf(m, from, n) = <<>> <=> n = 0
    BY <2>1, BytesAre, Zenon
  <2> HIDE DEF s
  <2>3. s = BytesOf(m, from, n)
    BY DEF s
  <2>4. QED BY <2>2, <2>3
<1> HIDE DEF s
<1>2. Header \in Nat
  BY TransportAssumption
<1>3. s # <<>> => s[1] = <<m, from>>
  BY <1>1
<1>4. ASSUME NEW i \in 1 .. n - 1 PROVE s[i + 1] = Next1(z, s[i])
  <2>1. s[i] = <<m, from + i - 1>> /\ s[i + 1] = <<m, from + i>>
    BY <1>1
  <2>2. from + i # Header + z[m] /\ (from + i - 1) + 1 = from + i
    BY <1>2
  <2>3. QED BY <2>1, <2>2 DEF Next1, Place
<1>5. ASSUME NEW i \in 1 .. n PROVE s[i][1] \in 1 .. acc /\ s[i][2] < Header + z[s[i][1]]
  <2>1. s[i][1] = m /\ s[i][2] = from + i - 1
    BY <1>1
  <2>2. QED BY <1>2, <2>1
<1>6. OnLine(z, acc, <<m, from>>, s)
  BY <1>1, <1>3, <1>4, <1>5 DEF OnLine, Linked, Genuine
<1>7. AfterAll(z, <<m, from>>, s) = Place(z, m, from + n)
  <2>1. CASE n = 0
    BY <1>1, <2>1 DEF AfterAll, Place
  <2>2. CASE n # 0
    <3>1. s[n] = <<m, from + n - 1>> /\ (from + n - 1) + 1 = from + n
      BY <1>1, <2>2
    <3>2. QED BY <1>1, <2>2, <3>1 DEF AfterAll, Next1
  <2>3. QED BY <2>1, <2>2
<1>8. QED BY <1>6, <1>7 DEF s

(* And the line from a place on is the rest of its message.                *)
Reads(m, k, s, n) == SubSeq(s, 1, n) = BytesOf(m, k, n)

LEMMA LineReads ==
  ASSUME NEW z, NEW acc, NEW m \in Nat, NEW k \in Nat, z[m] \in Nat, NEW s, NEW n \in Nat,
         OnLine(z, acc, <<m, k>>, s), n <= Len(s), k + n <= Header + z[m]
  PROVE  Reads(m, k, s, n)
<1>1. s \in Seq(Bytes) /\ Len(s) \in Nat /\ Header \in Nat
  BY TransportAssumption, LenProperties DEF OnLine
<1> DEFINE Wrong == {i \in 1 .. n : s[i] # <<m, k + i - 1>>}
<1>2. Wrong = {}
  <2>1. SUFFICES ASSUME Wrong # {} PROVE FALSE
    OBVIOUS
  <2>2. Wrong \subseteq Nat
    OBVIOUS
  <2>3. PICK i \in Wrong : \A y \in Wrong : i <= y
    BY <2>1, <2>2, LeastOfNat
  <2>4. CASE i = 1
    <3>1. s # <<>> /\ k + i - 1 = k
      BY <1>1, <2>4, EmptySeq
    <3>2. QED BY <2>4, <3>1 DEF OnLine, Linked
  <2>5. CASE i # 1
    <3>1. i - 1 \in 1 .. n /\ i - 1 \in 1 .. Len(s) - 1 /\ ~(i <= i - 1) /\ (i - 1) + 1 = i
      BY <1>1, <2>5
    <3>2. s[i - 1] = <<m, k + (i - 1) - 1>>
      BY <2>3, <3>1
    <3>3. s[i] = Next1(z, s[i - 1])
      BY <3>1 DEF OnLine, Linked
    <3>4. k + (i - 1) - 1 + 1 = k + i - 1 /\ k + i - 1 # Header + z[m]
      BY <1>1, <3>1
    <3>5. s[i] = <<m, k + i - 1>>
      BY <3>2, <3>3, <3>4 DEF Next1, Place
    <3>6. QED BY <3>5
  <2>6. QED BY <2>4, <2>5
<1>3. \A i \in 1 .. n : s[i] = <<m, k + i - 1>>
  BY <1>2
<1>4. \A i \in 1 .. n : s[i] \in Bytes
  BY <1>1, ElementOfSeq
<1>5. /\ SubSeq(s, 1, n) \in Seq(Bytes) /\ Len(SubSeq(s, 1, n)) = n
      /\ \A i \in 1 .. n : SubSeq(s, 1, n)[i] = s[i]
  BY <1>4, SubSeqProperties, SMTT(20)
<1>6. /\ BytesOf(m, k, n) \in Seq(Bytes) /\ Len(BytesOf(m, k, n)) = n
      /\ \A i \in 1 .. n : BytesOf(m, k, n)[i] = <<m, k + i - 1>>
  BY BytesAre
<1>7. QED BY <1>3, <1>5, <1>6, SeqEqual DEF Reads
-----------------------------------------------------------------------------
(* The rings.                                                              *)

LEMMA RingPlace ==
  ASSUME NEW R \in Nat \ {0}, NEW k \in Int, -R - R <= k, k < R + R
  PROVE  k % R = IF k < -R THEN k + R + R ELSE IF k < 0 THEN k + R ELSE IF k < R THEN k ELSE k - R
<1>1. CASE k < -R
  BY <1>1
<1>2. CASE k >= -R /\ k < 0
  BY <1>2
<1>3. CASE k >= 0 /\ k < R
  BY <1>3
<1>4. CASE k >= R
  BY <1>4
<1>5. QED BY <1>1, <1>2, <1>3, <1>4

(* With l bytes from p on, the i-th place is one of the c that come next,  *)
(* or one of the l that are there.                                         *)
PlaceBehind(R, p, l, c, i) ==
  /\ (p + i - 1) % R \in 0 .. R - 1
  /\ i <= l => ~((((p + i - 1) % R) - (p + l)) % R < c)
  /\ ~(i <= l) => (((p + i - 1) % R) - (p + l)) % R = i - l - 1

LEMMA RingBehind ==
  ASSUME NEW R \in Nat \ {0}, NEW p \in 0 .. R - 1, NEW l \in Nat, NEW c \in Nat, l + c <= R,
         NEW i \in 1 .. l + c
  PROVE  PlaceBehind(R, p, l, c, i)
<1> DEFINE k == (p + i - 1) % R
<1>1. p + i - 1 \in Int /\ 0 <= p + i - 1 /\ p + i - 1 < R + R
  OBVIOUS
<1>2. k = (IF p + i - 1 < R THEN p + i - 1 ELSE p + i - 1 - R)
  BY <1>1
<1>3. k \in 0 .. R - 1
  BY <1>2
<1> HIDE DEF k
<1>4. k - (p + l) \in Int /\ -R - R <= k - (p + l) /\ k - (p + l) < R
  BY <1>3
<1>5. (k - (p + l)) % R = IF k - (p + l) < -R THEN k - (p + l) + R + R
                          ELSE IF k - (p + l) < 0 THEN k - (p + l) + R ELSE k - (p + l)
  BY <1>4
<1>6. (k - (p + l)) % R \in Int /\ (i <= l => ~((k - (p + l)) % R < c))
      /\ (~(i <= l) => (k - (p + l)) % R = i - l - 1)
  BY <1>2, <1>3, <1>5
<1>7. QED BY <1>3, <1>6 DEF k, PlaceBehind

LEMMA RingIs == Ring \in Nat \ {0} /\ Header \in Nat \ {0} /\ Margin \in Nat /\ Peek \in Nat
                /\ Header <= Margin + 1 /\ Margin < Ring /\ Header <= Peek
                /\ QueueMax \in Nat /\ WireMax \in Nat /\ MaxMessages \in Nat /\ Sizes \subseteq Nat
  BY TransportAssumption

Places == 0 .. Ring - 1
Rings  == [at : [Places -> Bytes], pos : Places, len : 0 .. Ring]
Unsent(r) == ReadFrom(r.at, r.pos, r.len)

LEMMA ReadIs ==
  ASSUME NEW r \in [Places -> Bytes], NEW p \in Int, NEW n \in 0 .. Ring, -Ring <= p, p < Ring
  PROVE  /\ ReadFrom(r, p, n) \in Seq(Bytes)
         /\ Len(ReadFrom(r, p, n)) = n
         /\ \A i \in 1 .. n : ReadFrom(r, p, n)[i] = r[(p + i - 1) % Ring]
         /\ \A i \in 1 .. n : (p + i - 1) % Ring \in Places
<1>1. ASSUME NEW i \in 1 .. n PROVE (p + i - 1) % Ring \in Places
  <2>1. p + i - 1 \in Int /\ -Ring - Ring <= p + i - 1 /\ p + i - 1 < Ring + Ring
    BY RingIs
  <2>2. QED BY <2>1, RingIs, RingPlace DEF Places
<1>2. \A i \in 1 .. n : r[(p + i - 1) % Ring] \in Bytes
  BY <1>1
<1>3. n \in Nat
  BY RingIs
<1>4. [i \in 1 .. n |-> r[(p + i - 1) % Ring]] \in Seq(Bytes)
  BY <1>2, <1>3, IsASeq
<1>5. ReadFrom(r, p, n) = [i \in 1 .. n |-> r[(p + i - 1) % Ring]]
  BY DEF ReadFrom
<1>6. Len(ReadFrom(r, p, n)) = n
  BY <1>3, <1>4, <1>5, LenProperties
<1>7. QED BY <1>1, <1>4, <1>5, <1>6

LEMMA WrittenIs ==
  ASSUME NEW r \in [Places -> Bytes], NEW p \in 0 .. Ring + Ring, NEW s \in Seq(Bytes), Len(s) <= Ring
  PROVE  /\ Written(r, p, s) \in [Places -> Bytes]
         /\ \A i \in Places :
              Written(r, p, s)[i] = IF (i - p) % Ring < Len(s) THEN s[((i - p) % Ring) + 1] ELSE r[i]
<1>1. ASSUME NEW i \in Places
      PROVE (IF (i - p) % Ring < Len(s) THEN s[((i - p) % Ring) + 1] ELSE r[i]) \in Bytes
  <2>1. (i - p) % Ring \in 0 .. Ring - 1
    BY RingIs DEF Places
  <2>2. CASE (i - p) % Ring < Len(s)
    <3>1. ((i - p) % Ring) + 1 \in 1 .. Len(s)
      BY <2>1, <2>2, LenProperties
    <3>2. QED BY <2>2, <3>1, ElementOfSeq
  <2>3. QED BY <2>2
<1>2. DOMAIN r = Places
  OBVIOUS
<1>3. Written(r, p, s) =
        [i \in Places |-> IF (i - p) % Ring < Len(s) THEN s[((i - p) % Ring) + 1] ELSE r[i]]
  BY <1>2 DEF Written
<1>4. QED BY <1>1, <1>3

(* What is put is read behind the rest.                                    *)
LEMMA PutIs ==
  ASSUME NEW r \in Rings, NEW s \in Seq(Bytes), Len(s) <= Room(r)
  PROVE  /\ Put(r, s) \in Rings
         /\ Unsent(Put(r, s)) = Unsent(r) \o s
         /\ Room(Put(r, s)) = Room(r) - Len(s)
<1> DEFINE q  == r.pos + r.len
           w  == Written(r.at, q, s)
           n  == r.len + Len(s)
           p  == r.pos
           R  == Ring
           at == r.at
<1>1. /\ at \in [Places -> Bytes] /\ p \in 0 .. R - 1 /\ r.len \in 0 .. R
      /\ R \in Nat \ {0} /\ Len(s) \in Nat /\ n \in 0 .. R /\ q \in 0 .. R + R
      /\ ~(Len(s) > Room(r)) /\ Len(s) <= R
  BY RingIs, LenProperties DEF Rings, Places, Room
<1>2. /\ w \in [Places -> Bytes]
      /\ \A i \in Places : w[i] = IF (i - q) % R < Len(s) THEN s[((i - q) % R) + 1] ELSE at[i]
  BY <1>1, WrittenIs
<1>3. Put(r, s) = [r EXCEPT !.at = w, !.len = n]
  BY <1>1 DEF Put
<1>4. r = [at |-> at, pos |-> p, len |-> r.len]
  BY DEF Rings
<1>5. Put(r, s) = [at |-> w, pos |-> p, len |-> n]
  BY <1>3, <1>4
<1>6. Put(r, s) \in Rings
  BY <1>1, <1>2, <1>5 DEF Rings, Places
<1>7. Room(Put(r, s)) = Room(r) - Len(s)
  BY <1>1, <1>5 DEF Room
<1>8. /\ ReadFrom(w, p, n) \in Seq(Bytes) /\ Len(ReadFrom(w, p, n)) = n
      /\ \A i \in 1 .. n : ReadFrom(w, p, n)[i] = w[(p + i - 1) % R]
  <2>1. p \in Int /\ -R <= p /\ p < R
    BY <1>1
  <2> HIDE DEF w, n, p
  <2>2. QED BY <1>1, <1>2, <2>1, ReadIs
<1>9. /\ Unsent(r) \in Seq(Bytes) /\ Len(Unsent(r)) = r.len
      /\ \A i \in 1 .. r.len : Unsent(r)[i] = at[(p + i - 1) % R]
  <2>1. p \in Int /\ -R <= p /\ p < R
    BY <1>1
  <2>2. Unsent(r) = ReadFrom(at, p, r.len)
    BY DEF Unsent
  <2> HIDE DEF at, p
  <2>3. QED BY <1>1, <2>1, <2>2, ReadIs
<1>10. /\ Unsent(r) \o s \in Seq(Bytes) /\ Len(Unsent(r) \o s) = n
       /\ \A i \in 1 .. n : (Unsent(r) \o s)[i] = IF i <= r.len THEN Unsent(r)[i] ELSE s[i - r.len]
  <2> DEFINE u == Unsent(r)
  <2>1. u \in Seq(Bytes) /\ Len(u) = r.len /\ s \in Seq(Bytes)
    BY <1>1, <1>9
  <2> HIDE DEF u
  <2>2. /\ u \o s \in Seq(Bytes) /\ Len(u \o s) = Len(u) + Len(s)
        /\ \A i \in 1 .. Len(u) + Len(s) : (u \o s)[i] = IF i <= Len(u) THEN u[i] ELSE s[i - Len(u)]
    BY <2>1, ConcatProperties, Zenon
  <2>3. QED BY <1>1, <2>1, <2>2 DEF u
<1>11. ASSUME NEW i \in 1 .. n PROVE ReadFrom(w, p, n)[i] = (Unsent(r) \o s)[i]
  <2> DEFINE k == (p + i - 1) % R
             l == r.len
             c == Len(s)
  <2>1. l \in Nat /\ c \in Nat /\ l + c <= R /\ q = p + l /\ n = l + c /\ i \in 1 .. l + c
    BY <1>1
  <2> HIDE DEF q, w, n, p, R, at, k, l, c
  <2>2. k \in 0 .. R - 1 /\ (i <= l => ~((k - q) % R < c)) /\ (~(i <= l) => (k - q) % R = i - l - 1)
    <3>1. PlaceBehind(R, p, l, c, i)
      BY <1>1, <2>1, RingBehind
    <3>2. QED BY <2>1, <3>1 DEF k, PlaceBehind
  <2>3. k \in Places
    BY <2>2 DEF Places, R
  <2>4. ReadFrom(w, p, n)[i] = w[k]
    BY <1>8 DEF k
  <2>5. CASE i <= l
    <3>1. w[k] = at[k]
      BY <1>2, <2>2, <2>3, <2>5 DEF c
    <3>2. i \in 1 .. l
      BY <2>1, <2>5
    <3>3. Unsent(r)[i] = at[k]
      BY <1>9, <3>2 DEF k, l
    <3>4. (Unsent(r) \o s)[i] = Unsent(r)[i]
      BY <1>10, <2>5 DEF l
    <3>5. QED BY <2>4, <3>1, <3>3, <3>4
  <2>6. CASE ~(i <= l)
    <3>1. (k - q) % R < c /\ ((k - q) % R) + 1 = i - l
      BY <2>1, <2>2, <2>6
    <3>2. w[k] = s[i - l]
      BY <1>2, <2>3, <3>1 DEF c
    <3>3. (Unsent(r) \o s)[i] = s[i - l]
      BY <1>10, <2>6 DEF l
    <3>4. QED BY <2>4, <3>2, <3>3
  <2>7. QED BY <2>5, <2>6
<1>12. ReadFrom(w, p, n) = Unsent(r) \o s
  BY <1>8, <1>10, <1>11, SeqEqual
<1>13. Unsent(Put(r, s)) = ReadFrom(w, p, n)
  BY <1>5 DEF Unsent
<1>14. QED BY <1>6, <1>7, <1>12, <1>13

(* What the socket takes comes off the ring.                               *)
LEMMA TakenIs ==
  ASSUME NEW r \in Rings, NEW n \in 0 .. r.len
  PROVE  LET q == [r EXCEPT !.pos = (@ + n) % Ring, !.len = @ - n]
         IN  /\ q \in Rings /\ q.len = r.len - n
             /\ ReadFrom(r.at, r.pos, n) \in Seq(Bytes)
             /\ Unsent(r) = ReadFrom(r.at, r.pos, n) \o Unsent(q)
<1> DEFINE p  == r.pos
           l  == r.len
           R  == Ring
           at == r.at
           x  == (p + n) % R
           q  == [r EXCEPT !.pos = (@ + n) % Ring, !.len = @ - n]
<1>1. /\ at \in [Places -> Bytes] /\ p \in 0 .. R - 1 /\ l \in 0 .. R /\ n \in 0 .. l
      /\ R \in Nat \ {0} /\ n \in 0 .. R /\ l - n \in 0 .. R
  BY RingIs DEF Rings, Places
<1>2. r = [at |-> at, pos |-> p, len |-> l]
  BY DEF Rings
<1>3. q = [at |-> at, pos |-> x, len |-> l - n]
  <2>1. q = [r EXCEPT !.pos = x, !.len = l - n]
    OBVIOUS
  <2> HIDE DEF q, x
  <2>2. QED BY <2>1, <1>2
<1>4. x = (IF p + n < R THEN p + n ELSE p + n - R) /\ x \in 0 .. R - 1
  <2>1. p + n \in Int /\ 0 <= p + n /\ p + n < R + R
    BY <1>1
  <2> HIDE DEF p, l, R
  <2>2. (p + n) % R = (IF p + n < R THEN p + n ELSE p + n - R)
    BY <1>1, <2>1
  <2>3. QED BY <1>1, <2>1, <2>2 DEF x
<1>5. q \in Rings /\ q.len = l - n
  BY <1>1, <1>3, <1>4 DEF Rings, Places
<1>6. /\ ReadFrom(at, p, n) \in Seq(Bytes) /\ Len(ReadFrom(at, p, n)) = n
      /\ \A i \in 1 .. n : ReadFrom(at, p, n)[i] = at[(p + i - 1) % R]
  <2>1. p \in Int /\ -R <= p /\ p < R
    BY <1>1
  <2> HIDE DEF at, p
  <2>2. QED BY <1>1, <2>1, ReadIs
<1>7. /\ ReadFrom(at, p, l) \in Seq(Bytes) /\ Len(ReadFrom(at, p, l)) = l
      /\ \A i \in 1 .. l : ReadFrom(at, p, l)[i] = at[(p + i - 1) % R]
  <2>1. p \in Int /\ -R <= p /\ p < R
    BY <1>1
  <2> HIDE DEF at, p, l
  <2>2. QED BY <1>1, <2>1, ReadIs
<1>8. /\ ReadFrom(at, x, l - n) \in Seq(Bytes) /\ Len(ReadFrom(at, x, l - n)) = l - n
      /\ \A i \in 1 .. l - n : ReadFrom(at, x, l - n)[i] = at[(x + i - 1) % R]
  <2>1. x \in Int /\ -R <= x /\ x < R
    BY <1>1, <1>4
  <2> HIDE DEF at, x, l
  <2>2. QED BY <1>1, <2>1, ReadIs
<1>9. ReadFrom(at, p, l) = ReadFrom(at, p, n) \o ReadFrom(at, x, l - n)
  <2> DEFINE a == ReadFrom(at, p, n)
             b == ReadFrom(at, x, l - n)
  <2> HIDE DEF at, p, l, x, R
  <2>1. /\ a \o b \in Seq(Bytes) /\ Len(a \o b) = l
        /\ \A i \in 1 .. l : (a \o b)[i] = IF i <= n THEN a[i] ELSE b[i - n]
    <3> HIDE DEF a, b
    <3>1. /\ a \in Seq(Bytes) /\ Len(a) = n /\ b \in Seq(Bytes) /\ Len(b) = l - n
      BY <1>6, <1>8 DEF a, b
    <3>2. n + (l - n) = l
      BY <1>1
    <3>3. /\ a \o b \in Seq(Bytes) /\ Len(a \o b) = Len(a) + Len(b)
          /\ \A i \in 1 .. Len(a) + Len(b) : (a \o b)[i] = IF i <= Len(a) THEN a[i] ELSE b[i - Len(a)]
      BY <3>1, ConcatProperties
    <3>4. QED BY <3>1, <3>2, <3>3
  <2>2. ASSUME NEW i \in 1 .. l PROVE (a \o b)[i] = at[(p + i - 1) % R]
    <3>1. CASE i <= n
      <4>1. i \in 1 .. n
        BY <1>1, <3>1
      <4>2. a[i] = at[(p + i - 1) % R]
        BY <1>6, <4>1
      <4>3. QED BY <2>1, <3>1, <4>2
    <3>2. CASE ~(i <= n)
      <4>1. i - n \in 1 .. l - n
        BY <1>1, <3>2
      <4>2. b[i - n] = at[(x + (i - n) - 1) % R]
        BY <1>8, <4>1
      <4>3. (x + (i - n) - 1) % R = (p + i - 1) % R
        <5>1. p + i - 1 \in Int /\ 0 <= p + i - 1 /\ p + i - 1 < R + R
          BY <1>1
        <5>2. (p + i - 1) % R = (IF p + i - 1 < R THEN p + i - 1 ELSE p + i - 1 - R)
          BY <1>1, <5>1
        <5>3. x + (i - n) - 1 \in Int /\ 0 <= x + (i - n) - 1 /\ x + (i - n) - 1 < R + R
          BY <1>1, <1>4, <4>1
        <5> DEFINE y == x + (i - n) - 1
        <5>4. y \in Int /\ 0 <= y /\ y < R + R
          BY <5>3
        <5> HIDE DEF y
        <5>5. y % R = (IF y < R THEN y ELSE y - R)
          BY <1>1, <5>4
        <5>6. (x + (i - n) - 1) % R = (IF y < R THEN y ELSE y - R) /\ y = x + (i - n) - 1
          BY <5>5 DEF y
        <5> HIDE DEF y
        <5>7. QED BY <1>1, <1>4, <3>2, <4>1, <5>2, <5>6
      <4>4. QED BY <2>1, <3>2, <4>2, <4>3
    <3>3. QED BY <3>1, <3>2
  <2> HIDE DEF a, b
  <2>3. QED BY <1>7, <2>1, <2>2, SeqEqual DEF a, b
<1>10. Unsent(r) = ReadFrom(at, p, l) /\ Unsent(q) = ReadFrom(at, x, l - n)
  BY <1>3 DEF Unsent
<1> HIDE DEF q
<1>11. q \in Rings /\ q.len = r.len - n /\ ReadFrom(r.at, r.pos, n) \in Seq(Bytes)
       /\ Unsent(r) = ReadFrom(r.at, r.pos, n) \o Unsent(q)
  BY <1>5, <1>6, <1>9, <1>10
<1>12. QED BY <1>11 DEF q

(* What comes is read behind what is unread.                               *)
LEMMA UnreadIs ==
  ASSUME NEW r \in Rings
  PROVE  /\ Unread(r) \in Seq(Bytes) /\ Len(Unread(r)) = r.len
         /\ \A i \in 1 .. r.len : Unread(r)[i] = r.at[(r.pos - r.len + i - 1) % Ring]
<1>1. r.at \in [Places -> Bytes] /\ r.pos - r.len \in Int /\ r.len \in 0 .. Ring
      /\ -Ring <= r.pos - r.len /\ r.pos - r.len < Ring
  BY RingIs DEF Rings, Places
<1>2. Unread(r) = ReadFrom(r.at, r.pos - r.len, r.len)
  BY DEF Unread
<1>3. QED BY <1>1, <1>2, ReadIs

LEMMA FedIs ==
  ASSUME NEW r \in Rings, NEW s \in Seq(Bytes), Len(s) <= Ring - r.pos, Len(s) <= Room(r)
  PROVE  LET q == [at |-> Written(r.at, r.pos, s), pos |-> (r.pos + Len(s)) % Ring, len |-> r.len + Len(s)]
         IN  /\ q \in Rings
             /\ Unread(q) = Unread(r) \o s
<1> DEFINE p  == r.pos
           l  == r.len
           c  == Len(s)
           R  == Ring
           at == r.at
           w  == Written(at, p, s)
           x  == (p + c) % R
           q  == [at |-> w, pos |-> x, len |-> l + c]
<1>1. /\ at \in [Places -> Bytes] /\ p \in 0 .. R - 1 /\ l \in 0 .. R /\ c \in Nat
      /\ R \in Nat \ {0} /\ p + c <= R /\ l + c <= R /\ p \in 0 .. R + R /\ c <= R
  BY RingIs, LenProperties DEF Rings, Places, Room
<1>2. /\ w \in [Places -> Bytes]
      /\ \A i \in Places : w[i] = IF (i - p) % R < c THEN s[((i - p) % R) + 1] ELSE at[i]
  BY <1>1, WrittenIs
<1>3. x = (IF p + c < R THEN p + c ELSE p + c - R) /\ x \in 0 .. R - 1
  <2>1. p + c \in Int /\ 0 <= p + c /\ p + c < R + R
    BY <1>1
  <2> HIDE DEF p, c, R
  <2>2. (p + c) % R = (IF p + c < R THEN p + c ELSE p + c - R)
    BY <1>1, <2>1
  <2>3. x = (IF p + c < R THEN p + c ELSE p + c - R)
    BY <2>2 DEF x
  <2>4. p \in Nat /\ c \in Nat /\ R \in Nat /\ p + c <= R /\ p < R
    BY <1>1
  <2> HIDE DEF x
  <2>5. x \in 0 .. R - 1
    BY <2>3, <2>4
  <2>6. QED BY <2>3, <2>5
<1>4. q \in Rings
  <2> HIDE DEF w, x, l, c, R
  <2>1. l + c \in 0 .. R
    BY <1>1
  <2>2. w \in [Places -> Bytes] /\ x \in 0 .. R - 1
    BY <1>2, <1>3
  <2>3. QED BY <2>1, <2>2 DEF Rings, Places, R
<1>5. /\ Unread(q) \in Seq(Bytes) /\ Len(Unread(q)) = l + c
      /\ \A i \in 1 .. l + c : Unread(q)[i] = w[(x - (l + c) + i - 1) % R]
  <2>1. q.at = w /\ q.pos = x /\ q.len = l + c
    OBVIOUS
  <2> HIDE DEF q, w, x, l, c, R
  <2>2. QED BY <1>4, <2>1, UnreadIs DEF R
<1>6. /\ Unread(r) \in Seq(Bytes) /\ Len(Unread(r)) = l
      /\ \A i \in 1 .. l : Unread(r)[i] = at[(p - l + i - 1) % R]
  BY UnreadIs
<1>7. /\ Unread(r) \o s \in Seq(Bytes) /\ Len(Unread(r) \o s) = l + c
      /\ \A i \in 1 .. l + c : (Unread(r) \o s)[i] = IF i <= l THEN Unread(r)[i] ELSE s[i - l]
  <2> DEFINE u == Unread(r)
  <2>1. u \in Seq(Bytes) /\ Len(u) = l /\ s \in Seq(Bytes)
    BY <1>1, <1>6
  <2> HIDE DEF u
  <2>2. /\ u \o s \in Seq(Bytes) /\ Len(u \o s) = Len(u) + Len(s)
        /\ \A i \in 1 .. Len(u) + Len(s) : (u \o s)[i] = IF i <= Len(u) THEN u[i] ELSE s[i - Len(u)]
    BY <2>1, ConcatProperties, Zenon
  <2>3. QED BY <1>1, <2>1, <2>2 DEF u
<1> HIDE DEF p, l, c, R, at, w, x, q
<1>8. ASSUME NEW i \in 1 .. l + c PROVE Unread(q)[i] = (Unread(r) \o s)[i]
  <2> DEFINE k == (x - (l + c) + i - 1) % R
             y == p - l + i - 1
  <2>1. y \in Int /\ -R <= y /\ y < R /\ (i <= l => y < p) /\ (~(i <= l) => p <= y)
    BY <1>1
  <2>2. k = IF y < 0 THEN y + R ELSE y
    <3>1. CASE x = p + c
      <4>1. x - (l + c) + i - 1 = y
        BY <1>1, <3>1
      <4>2. y % R = IF y < 0 THEN y + R ELSE y
        <5> HIDE DEF y
        <5>1. QED BY <1>1, <2>1
      <4>3. QED BY <4>1, <4>2
    <3>2. CASE x = p + c - R /\ ~(p + c < R)
      <4>1. x - (l + c) + i - 1 = y - R
        BY <1>1, <3>2
      <4>2. y - R < R /\ -R - R <= y - R /\ y - R \in Int
        BY <1>1, <2>1
      <4>3. (y - R) % R = IF y < 0 THEN y + R ELSE y
        <5> HIDE DEF y
        <5>1. CASE y < 0
          BY <1>1, <2>1, <4>2, <5>1
        <5>2. CASE y >= 0
          BY <1>1, <2>1, <4>2, <5>2
        <5>3. QED BY <2>1, <5>1, <5>2
      <4>4. QED BY <4>1, <4>3
    <3>3. QED BY <1>3, <3>1, <3>2
  <2>3. k \in Places /\ k \in 0 .. R - 1
    BY <1>1, <2>1, <2>2 DEF Places, R
  <2>4. Unread(q)[i] = w[k]
    BY <1>5
  <2>5. (p - l + i - 1) % R = k
    <3>1. y % R = IF y < 0 THEN y + R ELSE y
      <4> HIDE DEF y
      <4>1. QED BY <1>1, <2>1
    <3>2. QED BY <2>2, <3>1
  <2> HIDE DEF k
  <2>6. CASE i <= l
    <3>1. ~((k - p) % R < c)
      <4>1. k - p \in Int /\ -R <= k - p /\ k - p < R
        BY <1>1, <2>3
      <4>2. (k - p) % R = IF k - p < 0 THEN k - p + R ELSE k - p
        BY <1>1, <4>1
      <4>3. QED BY <1>1, <2>1, <2>2, <2>6, <4>2
    <3>2. w[k] = at[k]
      BY <1>2, <2>3, <3>1
    <3>3. i \in 1 .. l
      BY <1>1, <2>6
    <3>4. Unread(r)[i] = at[k]
      BY <1>6, <2>5, <3>3
    <3>5. (Unread(r) \o s)[i] = Unread(r)[i]
      BY <1>7, <2>6
    <3>6. QED BY <2>4, <3>2, <3>4, <3>5
  <2>7. CASE ~(i <= l)
    <3>1. (k - p) % R < c /\ ((k - p) % R) + 1 = i - l
      <4>1. k - p = i - l - 1 /\ 0 <= k - p /\ k - p < R /\ k - p \in Int
        BY <1>1, <2>1, <2>2, <2>3, <2>7
      <4>2. (k - p) % R = k - p
        <5> DEFINE d == k - p
        <5>1. d \in Int /\ 0 <= d /\ d < R
          BY <4>1
        <5> HIDE DEF d
        <5>2. d % R = d
          BY <1>1, <5>1
        <5>3. QED BY <5>2 DEF d
      <4>3. (k - p) % R = i - l - 1
        BY <4>1, <4>2
      <4>4. i \in Int /\ l \in Int /\ c \in Int /\ i <= l + c
        BY <1>1
      <4>5. QED BY <4>3, <4>4
    <3>2. w[k] = s[i - l]
      BY <1>2, <2>3, <3>1
    <3>3. (Unread(r) \o s)[i] = s[i - l]
      BY <1>7, <2>7
    <3>4. QED BY <2>4, <3>2, <3>3
  <2>8. QED BY <2>6, <2>7
<1>9. Unread(q) = Unread(r) \o s
  BY <1>5, <1>7, <1>8, SeqEqual
<1>10. QED BY <1>4, <1>9 DEF p, l, c, R, at, w, x, q

(* And the parser takes it from the front.                                 *)
LEMMA ReadOffIs ==
  ASSUME NEW r \in Rings, NEW n \in 0 .. r.len
  PROVE  LET q == [r EXCEPT !.len = @ - n]
         IN  /\ q \in Rings /\ SubSeq(Unread(r), 1, n) \in Seq(Bytes)
             /\ Unread(r) = SubSeq(Unread(r), 1, n) \o Unread(q)
<1> DEFINE p  == r.pos
           l  == r.len
           at == r.at
           u  == Unread(r)
           q  == [r EXCEPT !.len = @ - n]
<1>1. /\ at \in [Places -> Bytes] /\ p \in 0 .. Ring - 1 /\ l \in 0 .. Ring /\ n \in 0 .. l
      /\ Ring \in Nat \ {0} /\ l - n \in 0 .. Ring /\ p - (l - n) = p - l + n
  BY RingIs DEF Rings, Places
<1>2. r = [at |-> at, pos |-> p, len |-> l]
  BY DEF Rings
<1>3. q = [at |-> at, pos |-> p, len |-> l - n]
  BY <1>2
<1>4. q \in Rings
  BY <1>1, <1>3 DEF Rings, Places
<1>5. /\ u \in Seq(Bytes) /\ Len(u) = l
      /\ \A i \in 1 .. l : u[i] = at[(p - l + i - 1) % Ring]
  BY UnreadIs
<1>6. /\ Unread(q) \in Seq(Bytes) /\ Len(Unread(q)) = l - n
      /\ \A i \in 1 .. l - n : Unread(q)[i] = at[(p - (l - n) + i - 1) % Ring]
  <2>1. q.at = at /\ q.pos = p /\ q.len = l - n
    BY <1>3
  <2> HIDE DEF q, at, p, l
  <2>2. QED BY <1>4, <2>1, UnreadIs
<1> HIDE DEF p, l, at, u, q
<1>7. \A i \in 1 .. n : u[i] \in Bytes
  <2>1. ASSUME NEW i \in 1 .. n PROVE u[i] \in Bytes
    <3>1. i \in 1 .. Len(u)
      BY <1>1, <1>5
    <3>2. QED BY <1>5, <3>1, ElementOfSeq
  <2>2. QED BY <2>1
<1>8. /\ SubSeq(u, 1, n) \in Seq(Bytes) /\ Len(SubSeq(u, 1, n)) = n
      /\ \A i \in 1 .. n : SubSeq(u, 1, n)[i] = u[i]
  <2>1. 1 \in Int /\ n \in Int /\ n - 1 + 1 = n /\ (1 <= n \/ n = 0)
    BY <1>1
  <2>2. /\ SubSeq(u, 1, n) \in Seq(Bytes) /\ Len(SubSeq(u, 1, n)) = (IF 1 <= n THEN n - 1 + 1 ELSE 0)
        /\ \A i \in 1 .. n - 1 + 1 : SubSeq(u, 1, n)[i] = u[1 + i - 1]
    BY <1>7, <2>1, SubSeqProperties
  <2>3. QED BY <2>1, <2>2
<1>9. /\ SubSeq(u, 1, n) \o Unread(q) \in Seq(Bytes) /\ Len(SubSeq(u, 1, n) \o Unread(q)) = l
      /\ \A i \in 1 .. l : (SubSeq(u, 1, n) \o Unread(q))[i]
                             = IF i <= n THEN SubSeq(u, 1, n)[i] ELSE Unread(q)[i - n]
  <2> DEFINE a == SubSeq(u, 1, n)
             b == Unread(q)
  <2>1. n + (l - n) = l
    BY <1>1
  <2>2. a \in Seq(Bytes) /\ Len(a) = n /\ b \in Seq(Bytes) /\ Len(b) = l - n
    BY <1>6, <1>8
  <2> HIDE DEF a, b
  <2>3. /\ a \o b \in Seq(Bytes) /\ Len(a \o b) = Len(a) + Len(b)
        /\ \A i \in 1 .. Len(a) + Len(b) : (a \o b)[i] = IF i <= Len(a) THEN a[i] ELSE b[i - Len(a)]
    BY <2>2, ConcatProperties
  <2>4. /\ a \o b \in Seq(Bytes) /\ Len(a \o b) = l
        /\ \A i \in 1 .. l : (a \o b)[i] = IF i <= n THEN a[i] ELSE b[i - n]
    BY <2>1, <2>2, <2>3
  <2>5. QED BY <2>4 DEF a, b
<1>10. ASSUME NEW i \in 1 .. l PROVE u[i] = (SubSeq(u, 1, n) \o Unread(q))[i]
  <2>1. CASE i <= n
    <3>1. i \in 1 .. n
      BY <1>1, <2>1
    <3>2. QED BY <1>8, <1>9, <2>1, <3>1
  <2>2. CASE ~(i <= n)
    <3>1. i - n \in 1 .. l - n /\ p - (l - n) + (i - n) - 1 = p - l + i - 1
      BY <1>1, <2>2
    <3>2. Unread(q)[i - n] = at[(p - l + i - 1) % Ring]
      BY <1>6, <3>1
    <3>3. QED BY <1>5, <1>9, <2>2, <3>2
  <2>3. QED BY <2>1, <2>2
<1>11. u = SubSeq(u, 1, n) \o Unread(q)
  BY <1>5, <1>9, <1>10, SeqEqual
<1>12. QED BY <1>4, <1>8, <1>11 DEF u, q
-----------------------------------------------------------------------------
(* The invariant.                                                          *)

Links == {"resolving", "connecting", "connected", "closing", "closed", "error"}

SocketTypeOK ==
  /\ size \in [Messages -> Nat] /\ accepted \in 0 .. MaxMessages
  /\ sendq \in Seq(Nat) /\ sendpos \in Int
  /\ out \in Rings /\ in \in Rings /\ wire \in Seq(Bytes)
  /\ link \in Links /\ stream \in {"open", "ended"}
  /\ recv \in [id : Nat, got : Nat, intact : BOOLEAN]
  /\ receiving \in {"away", "receive", "message"}
  /\ error \in {0, -3} /\ handled \in Nat /\ handled <= accepted

(* The queue holds what is accepted and not all written.                   *)
SendqHolds ==
  /\ Len(sendq) <= accepted
  /\ \A i \in 1 .. Len(sendq) : sendq[i] = accepted - Len(sendq) + i
  /\ sendpos >= 0 => sendq # <<>> /\ sendpos <= size[Head(sendq)]

(* The parser is in the message after the last one handled.                *)
ParserHolds ==
  /\ Parsing => /\ recv.id = handled + 1 /\ recv.id <= accepted
                /\ recv.intact /\ recv.got < size[recv.id]
  /\ ~Parsing => recv = NoMessage
  /\ lost => receiving = "away"

(* Bytes go on, from the sending ring to the parser.                       *)
Flows == stream = "open" /\ link \notin {"closed", "error"}
Pend(flows, r) == IF flows THEN Unsent(r) ELSE <<>>

WritePlace ==
  IF sendq = <<>> THEN <<accepted + 1, 0>>
  ELSE IF sendpos < 0 THEN <<Head(sendq), 0>>
  ELSE Place(size, Head(sendq), Header + sendpos)
ReadPlace == IF Parsing THEN <<recv.id, Header + recv.got>> ELSE <<handled + 1, 0>>

LineIs(z, n, a, flows, b, s) == OnLine(z, n, a, s) /\ (flows => AfterAll(z, a, s) = b)
Line(r) == (Unread(in) \o wire) \o Pend(Flows, r)
LineHolds == LineIs(size, accepted, ReadPlace, Flows, WritePlace, Line(out))

TransportInv == SocketTypeOK /\ SendqHolds /\ ParserHolds /\ LineHolds /\ HandledBeforeLost

LEMMA TransportPartsNext ==
  ASSUME SocketTypeOK', SendqHolds', ParserHolds', LineHolds', HandledBeforeLost'
  PROVE  TransportInv'
BY DEF TransportInv

LEMMA EmptyRingIs == EmptyRing \in Rings /\ Unsent(EmptyRing) = <<>> /\ Unread(EmptyRing) = <<>>
<1>1. EmptyRing \in Rings /\ EmptyRing.len = 0
  BY RingIs DEF EmptyRing, Rings, Places, Bytes, NoByte
<1>2. Unread(EmptyRing) = <<>>
  BY <1>1, UnreadIs, EmptySeq
<1>3. EmptyRing.at \in [Places -> Bytes] /\ EmptyRing.pos = 0 /\ 0 \in 0 .. Ring /\ -Ring <= 0 /\ 0 < Ring
  BY <1>1, RingIs DEF Rings, EmptyRing
<1>4. Len(Unsent(EmptyRing)) = 0 /\ Unsent(EmptyRing) \in Seq(Bytes)
  <2>1. Unsent(EmptyRing) = ReadFrom(EmptyRing.at, 0, 0)
    BY <1>1, <1>3 DEF Unsent
  <2>2. QED BY <1>3, <2>1, ReadIs
<1>5. QED BY <1>1, <1>2, <1>4, EmptySeq

LEMMA UnsentIs ==
  ASSUME NEW r \in Rings
  PROVE  Unsent(r) \in Seq(Bytes) /\ Len(Unsent(r)) = r.len
<1>1. r.at \in [Places -> Bytes] /\ r.pos \in Int /\ r.len \in 0 .. Ring /\ -Ring <= r.pos /\ r.pos < Ring
  BY RingIs DEF Rings, Places
<1>2. Unsent(r) = ReadFrom(r.at, r.pos, r.len)
  BY DEF Unsent
<1>3. QED BY <1>1, <1>2, ReadIs

LEMMA PendIs ==
  ASSUME NEW f \in BOOLEAN, NEW r \in Rings
  PROVE  Pend(f, r) \in Seq(Bytes)
BY UnsentIs, EmptySeq DEF Pend

LEMMA TransportInitially == TransportInit => TransportInv
<1> SUFFICES ASSUME TransportInit PROVE TransportInv
  OBVIOUS
<1>1. /\ size \in [Messages -> Sizes] /\ accepted = 0
      /\ sendq = <<>> /\ sendpos = -1 /\ out = EmptyRing
      /\ link = "resolving" /\ wire = <<>> /\ stream = "open"
      /\ in = EmptyRing /\ recv = NoMessage
      /\ receiving = "away" /\ error = 0 /\ handled = 0 /\ ~lost
  BY DEF TransportInit
<1>2. recv = [id |-> 0, got |-> 0, intact |-> TRUE] /\ ~Parsing
  BY <1>1 DEF NoMessage, Parsing
<1>3. SocketTypeOK
  <2>1. size \in [Messages -> Nat]
    BY <1>1, RingIs
  <2>2. sendq \in Seq(Nat) /\ wire \in Seq(Bytes)
    BY <1>1, EmptySeq
  <2>3. out \in Rings /\ in \in Rings
    BY <1>1, EmptyRingIs
  <2>4. recv \in [id : Nat, got : Nat, intact : BOOLEAN]
    BY <1>2
  <2>5. QED BY <1>1, <2>1, <2>2, <2>3, <2>4, RingIs DEF SocketTypeOK, Links
<1>4. SendqHolds
  <2>1. Len(sendq) = 0
    BY <1>1, EmptySeq
  <2>2. QED BY <1>1, <2>1 DEF SendqHolds
<1>5. ParserHolds /\ HandledBeforeLost
  BY <1>1, <1>2 DEF ParserHolds, HandledBeforeLost
<1>6. LineHolds
  <2>1. Flows
    BY <1>1 DEF Flows
  <2>2. Line(out) = <<>>
    BY <1>1, <2>1, EmptyRingIs, EmptySeq, ConcatEmptySeq DEF Line, Pend
  <2>3. ReadPlace = <<1, 0>> /\ WritePlace = <<1, 0>>
    BY <1>1, <1>2 DEF ReadPlace, WritePlace
  <2>4. <<>> \in Seq(Bytes) /\ Len(<<>>) = 0
    BY EmptySeq
  <2>5. OnLine(size, accepted, ReadPlace, <<>>)
    BY <2>4 DEF OnLine, Linked, Genuine
  <2>6. AfterAll(size, ReadPlace, <<>>) = ReadPlace
    BY DEF AfterAll
  <2>7. QED BY <2>2, <2>3, <2>5, <2>6 DEF LineHolds, LineIs
<1>7. QED BY <1>3, <1>4, <1>5, <1>6 DEF TransportInv
-----------------------------------------------------------------------------
(* The sending end.                                                        *)

Grouped(u, v, w) == (u \o v) \o w = u \o (v \o w)

LEMMA Grouping ==
  ASSUME NEW u \in Seq(Bytes), NEW v \in Seq(Bytes), NEW w \in Seq(Bytes)
  PROVE  Grouped(u, v, w)
BY SMT DEF Grouped

SameLine(u, w, p, v, q) == v \o q = w \o p => (u \o v) \o q = (u \o w) \o p

LEMMA MovesOn ==
  ASSUME NEW u \in Seq(Bytes), NEW w \in Seq(Bytes), NEW p \in Seq(Bytes),
         NEW v \in Seq(Bytes), NEW q \in Seq(Bytes)
  PROVE  SameLine(u, w, p, v, q)
<1>1. Grouped(u, v, q) /\ Grouped(u, w, p)
  BY Grouping
<1>2. QED BY <1>1 DEF Grouped, SameLine

LEMMA NetOutIs ==
  ASSUME SocketTypeOK, NEW r \in Rings, NetOut(r), stream' = stream
  PROVE  /\ out' \in Rings /\ wire' \in Seq(Bytes) /\ link' \in Links
         /\ Flows' => Flows
         /\ link \in {"closing", "closed", "error"} => link' \in {"closing", "closed", "error"}
         /\ \/ wire' \o Pend(Flows', out') = wire \o Pend(Flows, r)
            \/ ~Flows' /\ wire' = wire
<1>1. wire \in Seq(Bytes) /\ link \in Links /\ stream \in {"open", "ended"} /\ Unsent(r) \in Seq(Bytes)
  BY UnsentIs DEF SocketTypeOK
<1>2. CASE /\ link \in {"resolving", "connecting"}
           /\ link' \in {"resolving", "connecting", "connected", "error"}
           /\ out' = r /\ UNCHANGED wire
  <2>1. link' \in Links
    BY <1>2 DEF Links
  <2>2. Flows' => Flows
    BY <1>2 DEF Flows
  <2>3. CASE Flows'
    <3>1. Pend(Flows', out') = Pend(Flows, r)
      BY <1>2, <2>2, <2>3 DEF Pend
    <3>2. QED BY <1>1, <1>2, <2>1, <2>2, <3>1
  <2>4. CASE ~Flows'
    BY <1>1, <1>2, <2>1, <2>2, <2>4
  <2>5. QED BY <2>3, <2>4
<1>3. CASE /\ link \in {"connected", "closing"} /\ stream = "open"
           /\ \E n \in Partly(Min({r.len, WireMax - Len(wire)})) :
                /\ wire' = wire \o ReadFrom(r.at, r.pos, n)
                /\ out' = [r EXCEPT !.pos = (@ + n) % Ring, !.len = @ - n]
           /\ link' = IF link = "closing" /\ out'.len = 0 THEN "closed" ELSE link
  <2>0. /\ link \in {"connected", "closing"} /\ stream = "open"
        /\ link' = IF link = "closing" /\ out'.len = 0 THEN "closed" ELSE link
    BY <1>3
  <2>1. PICK n \in Partly(Min({r.len, WireMax - Len(wire)})) :
           /\ wire' = wire \o ReadFrom(r.at, r.pos, n)
           /\ out' = [r EXCEPT !.pos = (@ + n) % Ring, !.len = @ - n]
    BY <1>3
  <2>2. n \in 0 .. r.len
    <3> DEFINE k == WireMax - Len(wire)
               m == Min({r.len, k})
    <3>1. r.len \in Nat /\ k \in Int
      BY <1>1, RingIs, LenProperties DEF Rings
    <3> HIDE DEF k
    <3>2. m \in Int /\ m <= r.len
      BY <3>1, LesserOf
    <3>3. n \in Partly(m)
      BY DEF k
    <3> HIDE DEF m
    <3>4. QED BY <3>1, <3>2, <3>3 DEF Partly
  <2>3. /\ out' \in Rings /\ out'.len = r.len - n
        /\ ReadFrom(r.at, r.pos, n) \in Seq(Bytes)
        /\ Unsent(r) = ReadFrom(r.at, r.pos, n) \o Unsent(out')
    BY <2>1, <2>2, TakenIs
  <2>4. wire' \in Seq(Bytes) /\ Unsent(out') \in Seq(Bytes) /\ Len(Unsent(out')) = out'.len
    BY <1>1, <2>1, <2>3, ConcatProperties, UnsentIs
  <2>5. link' \in Links /\ Flows
        /\ (link = "closing" => link' \in {"closing", "closed"}) /\ (Flows' \/ out'.len = 0)
    BY <1>1, <2>0 DEF Links, Flows
  <2>6. wire' \o Unsent(out') = wire \o Unsent(r)
    <3> DEFINE k == ReadFrom(r.at, r.pos, n)
               u == Unsent(out')
    <3>1. wire \in Seq(Bytes) /\ k \in Seq(Bytes) /\ u \in Seq(Bytes)
      BY <1>1, <2>3, <2>4
    <3>2. wire' = wire \o k /\ Unsent(r) = k \o u
      BY <2>1, <2>3
    <3> HIDE DEF k, u
    <3>3. Grouped(wire, k, u)
      BY <3>1, Grouping
    <3>4. wire' \o u = wire \o Unsent(r)
      BY <3>2, <3>3 DEF Grouped
    <3>5. QED BY <3>4 DEF u
  <2>7. Pend(Flows', out') = Unsent(out')
    <3>1. CASE Flows'
      BY <3>1 DEF Pend
    <3>2. CASE ~Flows'
      BY <2>4, <2>5, <3>2, EmptySeq DEF Pend
    <3>3. QED BY <3>1, <3>2
  <2>8. Pend(Flows, r) = Unsent(r)
    BY <2>5 DEF Pend
  <2>9. QED BY <2>0, <2>3, <2>4, <2>5, <2>6, <2>7, <2>8
<1>4. CASE /\ link \in {"connected", "closing"} /\ stream = "ended"
           /\ link' = "closed" /\ out' = r /\ UNCHANGED wire
  BY <1>1, <1>4 DEF Flows, Links
<1>5. CASE /\ link \in {"closed", "error"}
           /\ out' = r /\ UNCHANGED <<link, wire>>
  BY <1>1, <1>5 DEF Flows, Links
<1>6. QED BY <1>2, <1>3, <1>4, <1>5 DEF NetOut

LEMMA SenderMoves ==
  ASSUME SocketTypeOK, NEW r \in Rings, NetOut(r),
         UNCHANGED <<size, accepted, stream, in, recv, handled>>,
         LineIs(size, accepted, ReadPlace, Flows, WritePlace', Line(r))
  PROVE  LineHolds'
<1>1. /\ out' \in Rings /\ wire' \in Seq(Bytes)
      /\ Flows' => Flows
      /\ \/ wire' \o Pend(Flows', out') = wire \o Pend(Flows, r)
         \/ ~Flows' /\ wire' = wire
  BY NetOutIs
<1>2. Unread(in) \in Seq(Bytes) /\ wire \in Seq(Bytes)
  BY UnreadIs DEF SocketTypeOK
<1>3. ReadPlace' = ReadPlace /\ size' = size /\ accepted' = accepted
      /\ Line(out)' = (Unread(in) \o wire') \o Pend(Flows', out')
  BY DEF ReadPlace, Parsing, Line
<1>4. Flows \in BOOLEAN /\ Flows' \in BOOLEAN
  BY DEF Flows
<1>5. Pend(Flows, r) \in Seq(Bytes) /\ Pend(Flows', out') \in Seq(Bytes)
  BY <1>1, <1>4, PendIs
<1>6. OnLine(size, accepted, ReadPlace, Line(r)) /\ (Flows => AfterAll(size, ReadPlace, Line(r)) = WritePlace')
  BY DEF LineIs
<1>7. CASE wire' \o Pend(Flows', out') = wire \o Pend(Flows, r)
  <2>1. Line(out)' = Line(r)
    <3> DEFINE u == Unread(in)
               p == Pend(Flows, r)
               v == wire'
               q == Pend(Flows', out')
    <3>1. /\ u \in Seq(Bytes) /\ wire \in Seq(Bytes) /\ p \in Seq(Bytes)
          /\ v \in Seq(Bytes) /\ q \in Seq(Bytes) /\ v \o q = wire \o p
      BY <1>1, <1>2, <1>5, <1>7
    <3>2. Line(out)' = (u \o v) \o q /\ Line(r) = (u \o wire) \o p
      BY <1>3 DEF Line
    <3> HIDE DEF u, p, v, q
    <3> DEFINE w == wire
    <3>3. w \in Seq(Bytes) /\ v \o q = w \o p
      BY <3>1
    <3> HIDE DEF w
    <3>4. (u \o v) \o q = (u \o w) \o p
      <4>1. u \in Seq(Bytes) /\ v \in Seq(Bytes) /\ q \in Seq(Bytes) /\ w \in Seq(Bytes) /\ p \in Seq(Bytes)
        BY <3>1, <3>3
      <4>2. SameLine(u, w, p, v, q)
        BY <4>1, MovesOn
      <4>3. QED BY <3>3, <4>2 DEF SameLine
    <3>5. QED BY <3>2, <3>4 DEF w
  <2>2. QED BY <1>1, <1>3, <1>6, <2>1 DEF LineHolds, LineIs
<1>8. CASE ~Flows' /\ wire' = wire
  <2>1. Line(out)' = (Unread(in) \o wire) \o <<>>
    BY <1>3, <1>8 DEF Pend
  <2>2. Unread(in) \o wire \in Seq(Bytes)
    BY <1>2, ConcatProperties
  <2>3. Line(out)' = Unread(in) \o wire
    BY <2>1, <2>2, ConcatEmptySeq
  <2>4. OnLine(size, accepted, ReadPlace, Unread(in) \o wire)
    BY <1>5, <1>6, <2>2, LineCut DEF Line
  <2>5. QED BY <1>3, <1>8, <2>3, <2>4 DEF LineHolds, LineIs
<1>9. QED BY <1>1, <1>7, <1>8

LEMMA FirstIs ==
  ASSUME SocketTypeOK, SendqHolds, sendq # <<>>
  PROVE  /\ Head(sendq) = accepted - Len(sendq) + 1 /\ Head(sendq) \in 1 .. accepted
         /\ size[Head(sendq)] \in Nat
         /\ Tail(sendq) \in Seq(Nat) /\ Len(Tail(sendq)) = Len(sendq) - 1
         /\ \A i \in 1 .. Len(Tail(sendq)) : Tail(sendq)[i] = sendq[i + 1]
<1>1. sendq \in Seq(Nat) /\ Len(sendq) \in Nat /\ Len(sendq) >= 1 /\ accepted \in 0 .. MaxMessages
  BY LenProperties, EmptySeq DEF SocketTypeOK
<1>2. Head(sendq) = sendq[1]
  BY <1>1
<1>3. sendq[1] = accepted - Len(sendq) + 1 /\ Len(sendq) <= accepted
  BY <1>1 DEF SendqHolds
<1>4. Head(sendq) = accepted - Len(sendq) + 1 /\ Head(sendq) \in 1 .. accepted /\ Head(sendq) \in Messages
  BY <1>1, <1>2, <1>3, RingIs DEF Messages
<1>5. size[Head(sendq)] \in Nat
  BY <1>4 DEF SocketTypeOK
<1>6. /\ Tail(sendq) \in Seq(Nat) /\ Len(Tail(sendq)) = Len(sendq) - 1
      /\ \A i \in 1 .. Len(Tail(sendq)) : Tail(sendq)[i] = sendq[i + 1]
  BY <1>1, HeadTailProperties
<1>7. QED BY <1>4, <1>5, <1>6

(* Bytes that follow the line are put behind it.                           *)
LEMMA PutGoesOn ==
  ASSUME SocketTypeOK, NEW r \in Rings, NEW b \in Seq(Bytes), Len(b) <= Room(r),
         NEW n, NEW c, NEW d,
         LineIs(size, n, ReadPlace, Flows, c, Line(r)),
         OnLine(size, n, c, b), AfterAll(size, c, b) = d
  PROVE  LineIs(size, n, ReadPlace, Flows, d, Line(Put(r, b)))
<1>1. Put(r, b) \in Rings /\ Unsent(Put(r, b)) = Unsent(r) \o b /\ Unsent(r) \in Seq(Bytes)
  BY PutIs, UnsentIs
<1>2. Unread(in) \in Seq(Bytes) /\ wire \in Seq(Bytes) /\ Unread(in) \o wire \in Seq(Bytes)
  BY UnreadIs, ConcatProperties DEF SocketTypeOK
<1>3. CASE Flows
  <2>1. Line(r) = (Unread(in) \o wire) \o Unsent(r)
    BY <1>3 DEF Line, Pend
  <2>2. Line(Put(r, b)) = (Unread(in) \o wire) \o (Unsent(r) \o b)
    BY <1>1, <1>3 DEF Line, Pend
  <2>3. Line(Put(r, b)) = Line(r) \o b
    <3> DEFINE u == Unread(in) \o wire
               v == Unsent(r)
    <3>1. u \in Seq(Bytes) /\ v \in Seq(Bytes)
      BY <1>1, <1>2
    <3> HIDE DEF u, v
    <3>2. Grouped(u, v, b)
      BY <3>1, Grouping
    <3>3. QED BY <2>1, <2>2, <3>2 DEF Grouped, u, v
  <2>4. OnLine(size, n, ReadPlace, Line(r)) /\ AfterAll(size, ReadPlace, Line(r)) = c
    BY <1>3 DEF LineIs
  <2>5. /\ OnLine(size, n, ReadPlace, Line(r) \o b)
        /\ AfterAll(size, ReadPlace, Line(r) \o b) = AfterAll(size, AfterAll(size, ReadPlace, Line(r)), b)
    BY <2>4, LineJoin
  <2>6. QED BY <2>3, <2>4, <2>5 DEF LineIs
<1>4. CASE ~Flows
  <2>1. Line(Put(r, b)) = Line(r)
    BY <1>4 DEF Line, Pend
  <2>2. QED BY <1>4, <2>1 DEF LineIs
<1>5. QED BY <1>3, <1>4

LEMMA GreaterOf ==
  ASSUME NEW a \in Int, NEW b \in Int
  PROVE  Max({a, b}) = IF a >= b THEN a ELSE b
<1> DEFINE m == IF a >= b THEN a ELSE b
<1>1. m \in {a, b} /\ \A y \in {a, b} : m >= y
  OBVIOUS
<1>2. \A x \in {a, b} : (\A y \in {a, b} : x >= y) => x = m
  OBVIOUS
<1>3. QED BY <1>1, <1>2 DEF Max

(* What the receiving end has is not touched by the sending end.           *)
LEMMA ReceiverKept ==
  ASSUME ParserHolds, HandledBeforeLost, UNCHANGED receiverVars, UNCHANGED size,
         accepted \in Nat, accepted' \in Nat, accepted <= accepted', SocketTypeOK
  PROVE  ParserHolds' /\ HandledBeforeLost'
<1>1. UNCHANGED <<in, closed, recv, receiving, error, lost, handled, size>>
  BY DEF receiverVars
<1>2. recv.id \in Nat
  BY DEF SocketTypeOK
<1>3. ParserHolds'
  BY <1>1, <1>2 DEF ParserHolds, Parsing
<1>4. HandledBeforeLost'
  BY <1>1 DEF HandledBeforeLost, WholeMessage, Parsing
<1>5. QED BY <1>3, <1>4

LEMMA RunOrEndKeeps == ASSUME TransportInv, RunSend \/ EndSend PROVE TransportInv'
<1>1. /\ UNCHANGED <<size, accepted, sendq, sendpos, stream, receiverVars>>
      /\ NetOut(out)
  BY DEF RunSend, EndSend
<1>2. /\ SocketTypeOK /\ SendqHolds /\ ParserHolds /\ LineHolds /\ HandledBeforeLost
  BY DEF TransportInv
<1>3. UNCHANGED <<in, closed, recv, receiving, error, lost, handled>>
  BY <1>1 DEF receiverVars
<1>4. out \in Rings /\ accepted \in Nat
  BY <1>2, RingIs DEF SocketTypeOK
<1>5. out' \in Rings /\ wire' \in Seq(Bytes) /\ link' \in Links
  BY <1>1, <1>2, <1>4, NetOutIs
<1>6. SocketTypeOK'
  BY <1>1, <1>2, <1>3, <1>5 DEF SocketTypeOK
<1>7. SendqHolds'
  BY <1>1, <1>2 DEF SendqHolds
<1>8. ParserHolds' /\ HandledBeforeLost'
  BY <1>1, <1>2, <1>4, ReceiverKept
<1>9. LineHolds'
  <2>1. WritePlace' = WritePlace
    BY <1>1 DEF WritePlace
  <2>2. LineIs(size, accepted, ReadPlace, Flows, WritePlace', Line(out))
    BY <1>2, <2>1 DEF LineHolds
  <2>3. QED BY <1>1, <1>2, <1>3, <1>4, <2>2, SenderMoves
<1>10. QED BY <1>6, <1>7, <1>8, <1>9, TransportPartsNext

LEMMA SendKept == ASSUME TransportInv, Send PROVE TransportInv'
<1>1. UNCHANGED <<size, sendpos, out, link, wire, stream, receiverVars>>
  BY DEF Send
<1>2. /\ SocketTypeOK /\ SendqHolds /\ ParserHolds /\ LineHolds /\ HandledBeforeLost
  BY DEF TransportInv
<1>3. UNCHANGED <<in, closed, recv, receiving, error, lost, handled>>
  BY <1>1 DEF receiverVars
<1>4. accepted \in Nat /\ accepted < MaxMessages /\ sendq \in Seq(Nat) /\ Len(sendq) \in Nat
  BY <1>2, RingIs, LenProperties DEF SocketTypeOK, Send
<1>5. CASE UNCHANGED <<accepted, sendq>>
  <2>1. SocketTypeOK' /\ SendqHolds'
    BY <1>1, <1>2, <1>3, <1>5 DEF SocketTypeOK, SendqHolds
  <2>2. ParserHolds' /\ HandledBeforeLost'
    BY <1>1, <1>2, <1>4, <1>5, ReceiverKept
  <2>3. LineHolds'
    BY <1>1, <1>2, <1>3, <1>5 DEF LineHolds, Line, WritePlace, ReadPlace, Parsing, Flows
  <2>4. QED BY <2>1, <2>2, <2>3, TransportPartsNext
<1>6. CASE accepted' = accepted + 1 /\ sendq' = Append(sendq, accepted + 1)
  <2>1. /\ sendq' \in Seq(Nat) /\ sendq' # <<>> /\ Len(sendq') = Len(sendq) + 1
        /\ \A i \in 1 .. Len(sendq) : sendq'[i] = sendq[i]
        /\ sendq'[Len(sendq) + 1] = accepted + 1
    BY <1>4, <1>6, AppendProperties
  <2>2. SocketTypeOK'
    BY <1>1, <1>2, <1>3, <1>4, <1>6, <2>1, RingIs DEF SocketTypeOK
  <2>3. Head(sendq') = IF sendq = <<>> THEN accepted + 1 ELSE Head(sendq)
    BY <1>4, <1>6, HeadTailAppend
  <2>4. SendqHolds'
    <3>1. Len(sendq') <= accepted'
      BY <1>2, <1>4, <1>6, <2>1 DEF SendqHolds
    <3>2. ASSUME NEW i \in 1 .. Len(sendq') PROVE sendq'[i] = accepted' - Len(sendq') + i
      <4>1. CASE i = Len(sendq) + 1
        BY <1>4, <1>6, <2>1, <4>1
      <4>2. CASE i # Len(sendq) + 1
        <5>1. i \in 1 .. Len(sendq)
          BY <1>4, <2>1, <4>2
        <5>2. sendq[i] = accepted - Len(sendq) + i
          BY <1>2, <5>1 DEF SendqHolds
        <5>3. QED BY <1>4, <1>6, <2>1, <5>1, <5>2
      <4>3. QED BY <4>1, <4>2
    <3>3. sendpos' >= 0 => sendq' # <<>> /\ sendpos' <= size'[Head(sendq')]
      BY <1>1, <1>2, <2>1, <2>3 DEF SendqHolds
    <3>4. QED BY <3>1, <3>2, <3>3 DEF SendqHolds
  <2>5. ParserHolds' /\ HandledBeforeLost'
    BY <1>1, <1>2, <1>4, <1>6, ReceiverKept
  <2>6. WritePlace' = WritePlace
    <3>1. CASE sendq = <<>>
      <4>1. sendpos < 0
        BY <1>2, <3>1 DEF SendqHolds, SocketTypeOK
      <4>2. QED BY <1>1, <2>1, <2>3, <3>1, <4>1 DEF WritePlace
    <3>2. CASE sendq # <<>>
      BY <1>1, <2>1, <2>3, <3>2 DEF WritePlace
    <3>3. QED BY <3>1, <3>2
  <2>7. LineHolds'
    <3>1. Line(out)' = Line(out) /\ ReadPlace' = ReadPlace /\ Flows' = Flows
      BY <1>1, <1>3 DEF Line, ReadPlace, Parsing, Flows
    <3>2. OnLine(size, accepted, ReadPlace, Line(out))
      BY <1>2 DEF LineHolds, LineIs
    <3>3. OnLine(size, accepted + 1, ReadPlace, Line(out))
      <4>1. accepted + 1 \in Nat /\ accepted <= accepted + 1
        BY <1>4
      <4>2. QED BY <1>4, <3>2, <4>1, LineLater
    <3>4. QED BY <1>1, <1>2, <1>6, <2>6, <3>1, <3>3 DEF LineHolds, LineIs
  <2>8. QED BY <2>2, <2>4, <2>5, <2>7, TransportPartsNext
<1>7. QED BY <1>5, <1>6 DEF Send

LEMMA WriteKeeps == ASSUME TransportInv, WriteOut PROVE TransportInv'
<1> DEFINE m     == Head(sendq)
           opened == IF sendpos < 0 THEN Put(out, BytesOf(m, 0, Header)) ELSE out
           pos   == Max({sendpos, 0})
           n     == Min({size[m] - pos, Room(opened)})
           part  == BytesOf(m, Header + pos, n)
<1>1. /\ sendq # <<>> /\ Room(out) > Margin
      /\ UNCHANGED <<size, accepted, stream, receiverVars>>
      /\ \/ size[m] = pos /\ sendq' = Tail(sendq) /\ sendpos' = -1 /\ NetOut(opened)
         \/ size[m] # pos /\ sendpos' = pos + n /\ UNCHANGED sendq /\ NetOut(Put(opened, part))
  BY DEF WriteOut, MayWrite
<1> HIDE DEF n, part
<1>2. /\ SocketTypeOK /\ SendqHolds /\ ParserHolds /\ LineHolds /\ HandledBeforeLost
  BY DEF TransportInv
<1>3. UNCHANGED <<in, closed, recv, receiving, error, lost, handled>>
  BY <1>1 DEF receiverVars
<1>4. /\ out \in Rings /\ accepted \in Nat /\ sendpos \in Int /\ sendq \in Seq(Nat)
      /\ Len(sendq) \in Nat /\ Room(out) \in Nat /\ size \in [Messages -> Nat]
  BY <1>2, RingIs, LenProperties DEF SocketTypeOK, Rings, Room
<1>5. /\ m = accepted - Len(sendq) + 1 /\ m \in 1 .. accepted /\ m \in Nat /\ size[m] \in Nat
      /\ Tail(sendq) \in Seq(Nat) /\ Len(Tail(sendq)) = Len(sendq) - 1
      /\ \A i \in 1 .. Len(Tail(sendq)) : Tail(sendq)[i] = sendq[i + 1]
  BY <1>1, <1>2, <1>4, FirstIs
<1>6. pos = (IF sendpos >= 0 THEN sendpos ELSE 0) /\ pos \in Nat /\ pos <= size[m]
  <2>1. pos = IF sendpos >= 0 THEN sendpos ELSE 0
    BY <1>4, GreaterOf
  <2>2. sendpos >= 0 => sendpos <= size[m]
    BY <1>2 DEF SendqHolds
  <2> HIDE DEF pos, m
  <2>3. QED BY <1>4, <1>5, <2>1, <2>2
<1>7. Header \in Nat /\ Header > 0
  BY RingIs
<1>8. /\ opened \in Rings /\ Room(opened) \in Nat
      /\ LineIs(size, accepted, ReadPlace, Flows, Place(size, m, Header + pos), Line(opened))
  <2>1. CASE sendpos < 0
    <3> DEFINE b == BytesOf(m, 0, Header)
    <3>1. opened = Put(out, b) /\ pos = 0 /\ Header + pos = Header /\ 0 + Header = Header
      BY <1>4, <1>6, <1>7, <2>1
    <3>2. b \in Seq(Bytes) /\ Len(b) = Header
      <4>1. 0 \in Nat /\ m \in Nat /\ Header \in Nat
        BY <1>5, <1>7
      <4> HIDE DEF m
      <4>2. QED BY <4>1, BytesAre
    <3>3. Len(b) <= Room(out)
      BY <1>1, <1>4, <3>2, RingIs
    <3>4. LineIs(size, accepted, ReadPlace, Flows, <<m, 0>>, Line(out))
      <4>1. WritePlace = <<m, 0>>
        BY <1>1, <2>1 DEF WritePlace
      <4>2. QED BY <1>2, <4>1 DEF LineHolds
    <3>5. OnLine(size, accepted, <<m, 0>>, b) /\ AfterAll(size, <<m, 0>>, b) = Place(size, m, Header)
      <4>1. /\ 0 < Header + size[m] /\ 0 + Header <= Header + size[m] /\ 0 \in Nat
        BY <1>5, <1>7
      <4> HIDE DEF m
      <4>2. /\ OnLine(size, accepted, <<m, 0>>, BytesOf(m, 0, Header))
            /\ AfterAll(size, <<m, 0>>, BytesOf(m, 0, Header)) = Place(size, m, 0 + Header)
        BY <1>4, <1>5, <1>7, <4>1, PartLinked
      <4>3. QED BY <3>1, <4>2
    <3> HIDE DEF b, m
    <3>6. Put(out, b) \in Rings
      BY <1>4, <3>2, <3>3, PutIs
    <3>7. LineIs(size, accepted, ReadPlace, Flows, Place(size, m, Header), Line(Put(out, b)))
      BY <1>2, <1>4, <3>2, <3>3, <3>4, <3>5, PutGoesOn
    <3>8. Room(opened) \in Nat
      BY <1>4, <3>1, <3>2, <3>3, PutIs, <1>7
    <3>9. QED BY <3>1, <3>6, <3>7, <3>8
  <2>2. CASE ~(sendpos < 0)
    <3>1. opened = out /\ pos = sendpos
      BY <1>4, <1>6, <2>2
    <3>2. WritePlace = Place(size, m, Header + sendpos)
      BY <1>1, <2>2 DEF WritePlace
    <3>3. QED BY <1>2, <1>4, <3>1, <3>2 DEF LineHolds
  <2>3. QED BY <2>1, <2>2
<1>9. ParserHolds' /\ HandledBeforeLost'
  BY <1>1, <1>2, <1>4, ReceiverKept
<1> HIDE DEF pos, opened
<1>10. CASE size[m] = pos /\ sendq' = Tail(sendq) /\ sendpos' = -1 /\ NetOut(opened)
  <2>1. out' \in Rings /\ wire' \in Seq(Bytes) /\ link' \in Links
    BY <1>1, <1>2, <1>8, <1>10, NetOutIs
  <2>2. SocketTypeOK'
    BY <1>1, <1>2, <1>3, <1>5, <1>10, <2>1 DEF SocketTypeOK
  <2>3. SendqHolds'
    <3>1. Len(sendq') = Len(sendq) - 1 /\ Len(sendq') <= accepted' /\ ~(sendpos' >= 0)
      BY <1>1, <1>2, <1>4, <1>5, <1>10 DEF SendqHolds
    <3>2. ASSUME NEW i \in 1 .. Len(sendq') PROVE sendq'[i] = accepted' - Len(sendq') + i
      <4>1. i + 1 \in 1 .. Len(sendq) /\ i \in 1 .. Len(Tail(sendq))
        BY <1>4, <1>5, <1>10
      <4>2. sendq[i + 1] = accepted - Len(sendq) + (i + 1)
        BY <1>2, <4>1 DEF SendqHolds
      <4>3. sendq'[i] = sendq[i + 1]
        BY <1>5, <1>10, <4>1
      <4>4. QED BY <1>1, <1>4, <3>1, <4>2, <4>3
    <3>3. QED BY <3>1, <3>2 DEF SendqHolds
  <2>4. WritePlace' = <<m + 1, 0>>
    <3>1. CASE sendq' = <<>>
      <4>1. Len(Tail(sendq)) = 0
        BY <1>10, <3>1, EmptySeq
      <4> DEFINE l == Len(sendq)
      <4>2. l \in Nat /\ l - 1 = 0 /\ m = accepted - l + 1
        BY <1>4, <1>5, <4>1
      <4> HIDE DEF l, m
      <4>3. m = accepted
        BY <1>4, <4>2
      <4>4. QED BY <1>1, <3>1, <4>3 DEF WritePlace
    <3>2. CASE sendq' # <<>>
      <4>1. sendq' \in Seq(Nat) /\ Len(sendq') \in Nat /\ Len(sendq') >= 1
        BY <1>5, <1>10, <3>2, LenProperties, EmptySeq
      <4>2. Head(sendq') = sendq'[1]
        BY <4>1
      <4>3. sendq'[1] = accepted' - Len(sendq') + 1 /\ Len(sendq') = Len(sendq) - 1
        BY <1>5, <1>10, <2>3, <4>1 DEF SendqHolds
      <4>4. Head(sendq') = m + 1
        BY <1>1, <1>4, <1>5, <4>2, <4>3
      <4>5. QED BY <1>10, <3>2, <4>4 DEF WritePlace
    <3>3. QED BY <3>1, <3>2
  <2>5. Place(size, m, Header + pos) = <<m + 1, 0>>
    BY <1>10 DEF Place
  <2>6. LineIs(size, accepted, ReadPlace, Flows, WritePlace', Line(opened))
    BY <1>8, <2>4, <2>5
  <2>7. LineHolds'
    BY <1>1, <1>2, <1>3, <1>8, <1>10, <2>6, SenderMoves
  <2>8. QED BY <1>9, <2>2, <2>3, <2>7, TransportPartsNext
<1>11. CASE size[m] # pos /\ sendpos' = pos + n /\ UNCHANGED sendq /\ NetOut(Put(opened, part))
  <2>1. n \in Nat /\ n <= size[m] - pos /\ n <= Room(opened)
    <3> DEFINE k == size[m] - pos
               l == Room(opened)
    <3>1. k \in Nat /\ l \in Nat
      BY <1>5, <1>6, <1>8
    <3>2. n = Min({k, l})
      BY DEF n
    <3> HIDE DEF k, l
    <3>3. n = IF k <= l THEN k ELSE l
      BY <3>1, <3>2, LesserOf
    <3>4. n \in Nat /\ n <= k /\ n <= l
      BY <3>1, <3>3
    <3>5. QED BY <3>4 DEF k, l
  <2>2. /\ Header + pos \in Nat /\ Header + pos < Header + size[m]
        /\ (Header + pos) + n <= Header + size[m] /\ Header + pos # Header + size[m]
        /\ (Header + pos) + n = Header + (pos + n)
    BY <1>5, <1>6, <1>7, <1>11, <2>1
  <2>3. part \in Seq(Bytes) /\ Len(part) = n
    BY <1>5, <2>1, <2>2, BytesAre DEF part
  <2>4. Put(opened, part) \in Rings
    BY <1>8, <2>1, <2>3, PutIs
  <2>5. out' \in Rings /\ wire' \in Seq(Bytes) /\ link' \in Links
    BY <1>1, <1>2, <1>11, <2>4, NetOutIs
  <2>6. sendpos' \in Nat /\ sendpos' <= size[m]
    BY <1>5, <1>6, <1>11, <2>1
  <2>7. SocketTypeOK'
    <3>1. sendpos' \in Int
      BY <2>6
    <3>2. QED BY <1>1, <1>2, <1>3, <1>11, <2>5, <3>1 DEF SocketTypeOK
  <2>8. SendqHolds'
    BY <1>1, <1>2, <1>11, <2>6 DEF SendqHolds
  <2>9. /\ OnLine(size, accepted, <<m, Header + pos>>, part)
        /\ AfterAll(size, <<m, Header + pos>>, part) = Place(size, m, Header + (pos + n))
    <3> DEFINE from == Header + pos
    <3>1. from \in Nat /\ from < Header + size[m] /\ from + n <= Header + size[m]
          /\ from + n = Header + (pos + n)
      BY <2>2
    <3>2. part = BytesOf(m, from, n)
      BY DEF part
    <3> HIDE DEF from, m
    <3>3. /\ OnLine(size, accepted, <<m, from>>, BytesOf(m, from, n))
          /\ AfterAll(size, <<m, from>>, BytesOf(m, from, n)) = Place(size, m, from + n)
      BY <1>4, <1>5, <2>1, <3>1, PartLinked
    <3>4. /\ OnLine(size, accepted, <<m, from>>, part)
          /\ AfterAll(size, <<m, from>>, part) = Place(size, m, Header + (pos + n))
      BY <3>1, <3>2, <3>3
    <3>5. QED BY <3>4 DEF from
  <2>10. Place(size, m, Header + pos) = <<m, Header + pos>>
    BY <2>2 DEF Place
  <2>11. WritePlace' = Place(size, m, Header + (pos + n))
    <3>1. ~(sendpos' < 0) /\ sendpos' = pos + n
      BY <1>11, <2>6
    <3>2. QED BY <1>1, <1>11, <3>1 DEF WritePlace
  <2>12. LineIs(size, accepted, ReadPlace, Flows, WritePlace', Line(Put(opened, part)))
    <3>1. LineIs(size, accepted, ReadPlace, Flows, <<m, Header + pos>>, Line(opened))
      BY <1>8, <2>10
    <3>2. Len(part) <= Room(opened)
      BY <2>1, <2>3
    <3> DEFINE c == <<m, Header + pos>>
               d == WritePlace'
    <3>3. LineIs(size, accepted, ReadPlace, Flows, c, Line(opened)) /\ OnLine(size, accepted, c, part)
          /\ AfterAll(size, c, part) = d
      BY <2>9, <2>11, <3>1
    <3> HIDE DEF c, d
    <3>4. LineIs(size, accepted, ReadPlace, Flows, d, Line(Put(opened, part)))
      BY <1>2, <1>8, <2>3, <3>2, <3>3, PutGoesOn
    <3>5. QED BY <3>4 DEF d
  <2>13. LineHolds'
    BY <1>1, <1>2, <1>3, <1>11, <2>4, <2>12, SenderMoves
  <2>14. QED BY <1>9, <2>7, <2>8, <2>13, TransportPartsNext
<1>12. QED BY <1>1, <1>10, <1>11

(* A line that is cut is still one.                                        *)
LEMMA CutIs ==
  ASSUME NEW z, NEW n, NEW a, NEW u \in Seq(Bytes), NEW w \in Seq(Bytes), NEW p \in Seq(Bytes),
         OnLine(z, n, a, (u \o w) \o p)
  PROVE  OnLine(z, n, a, (u \o w) \o <<>>) /\ OnLine(z, n, a, (u \o <<>>) \o <<>>)
<1>1. u \o w \in Seq(Bytes) /\ u \o <<>> = u /\ u \o <<>> \in Seq(Bytes)
  BY ConcatProperties, ConcatEmptySeq
<1>2. OnLine(z, n, a, u \o w)
  BY <1>1, LineCut
<1>3. OnLine(z, n, a, u)
  BY <1>2, LineCut
<1>4. (u \o w) \o <<>> = u \o w /\ (u \o <<>>) \o <<>> = u
  BY <1>1, ConcatEmptySeq
<1>5. QED BY <1>2, <1>3, <1>4

LEMMA BreakKeeps == ASSUME TransportInv, Kill \/ StreamEnds PROVE TransportInv'
<1>1. /\ UNCHANGED <<size, accepted, sendq, sendpos, receiverVars>>
      /\ \/ link' = "closing" /\ link = "connected" /\ UNCHANGED <<out, wire, stream>>
         \/ link' = "closed" /\ out' = EmptyRing /\ UNCHANGED <<wire, stream>>
         \/ stream' = "ended" /\ wire' \in {wire, <<>>} /\ UNCHANGED <<out, link>>
  BY DEF Kill, StreamEnds, senderVars
<1>2. /\ SocketTypeOK /\ SendqHolds /\ ParserHolds /\ LineHolds /\ HandledBeforeLost
  BY DEF TransportInv
<1>3. UNCHANGED <<in, closed, recv, receiving, error, lost, handled>>
  BY <1>1 DEF receiverVars
<1>4. accepted \in Nat /\ out \in Rings /\ wire \in Seq(Bytes) /\ Unread(in) \in Seq(Bytes)
  BY <1>2, RingIs, UnreadIs DEF SocketTypeOK
<1>5. out' \in Rings /\ wire' \in Seq(Bytes) /\ link' \in Links /\ stream' \in {"open", "ended"}
  BY <1>1, <1>2, <1>4, EmptyRingIs, EmptySeq DEF SocketTypeOK, Links
<1>6. SocketTypeOK'
  BY <1>1, <1>2, <1>3, <1>5 DEF SocketTypeOK
<1>7. SendqHolds'
  BY <1>1, <1>2 DEF SendqHolds
<1>8. ParserHolds' /\ HandledBeforeLost'
  BY <1>1, <1>2, <1>4, ReceiverKept
<1>9. ReadPlace' = ReadPlace /\ WritePlace' = WritePlace
  BY <1>1, <1>3 DEF ReadPlace, Parsing, WritePlace
<1>10. LineHolds'
  <2>1. CASE link' = "closing" /\ link = "connected" /\ UNCHANGED <<out, wire, stream>>
    <3>1. Flows' = Flows
      BY <2>1 DEF Flows
    <3>2. Line(out)' = Line(out)
      BY <1>3, <2>1, <3>1 DEF Line
    <3>3. QED BY <1>1, <1>2, <1>9, <3>1, <3>2 DEF LineHolds
  <2>2. CASE ~Flows' /\ wire' \in {wire, <<>>}
    <3>1. Flows \in BOOLEAN /\ Pend(Flows, out) \in Seq(Bytes)
      BY <1>4, PendIs DEF Flows
    <3>2. Line(out)' = (Unread(in) \o wire') \o <<>>
      BY <1>3, <2>2 DEF Line, Pend
    <3>3. OnLine(size, accepted, ReadPlace, (Unread(in) \o wire) \o Pend(Flows, out))
      BY <1>2 DEF LineHolds, LineIs, Line
    <3>4. OnLine(size, accepted, ReadPlace, (Unread(in) \o wire) \o <<>>)
          /\ OnLine(size, accepted, ReadPlace, (Unread(in) \o <<>>) \o <<>>)
      BY <1>4, <3>1, <3>3, CutIs
    <3>5. OnLine(size, accepted, ReadPlace, Line(out)')
      BY <2>2, <3>2, <3>4
    <3>6. QED BY <1>1, <1>9, <2>2, <3>5 DEF LineHolds, LineIs
  <2>3. (link' = "closed" \/ stream' = "ended") => ~Flows'
    BY DEF Flows
  <2>4. QED BY <1>1, <2>1, <2>2, <2>3
<1>11. QED BY <1>6, <1>7, <1>8, <1>10, TransportPartsNext
-----------------------------------------------------------------------------
(* The receiving end.                                                      *)

LEMMA SplitIs ==
  ASSUME NEW w \in Seq(Bytes), NEW n \in 0 .. Len(w)
  PROVE  /\ SubSeq(w, 1, n) \in Seq(Bytes) /\ Rest(w, n) \in Seq(Bytes)
         /\ Len(SubSeq(w, 1, n)) = n /\ Len(Rest(w, n)) = Len(w) - n
         /\ SubSeq(w, 1, n) \o Rest(w, n) = w
         /\ \A i \in 1 .. n : SubSeq(w, 1, n)[i] = w[i]
<1>1. Len(w) \in Nat /\ n \in Nat /\ n <= Len(w)
  BY LenProperties
<1>2. ASSUME NEW a \in Nat, NEW b \in Int, a >= 1, b <= Len(w)
      PROVE  SubSeq(w, a, b) \in Seq(Bytes) /\ Len(SubSeq(w, a, b)) = (IF a <= b THEN b - a + 1 ELSE 0)
             /\ \A i \in 1 .. b - a + 1 : SubSeq(w, a, b)[i] = w[a + i - 1]
  <2>1. \A i \in a .. b : w[i] \in Bytes
    <3>1. ASSUME NEW i \in a .. b PROVE w[i] \in Bytes
      <4>1. i \in 1 .. Len(w)
        BY <1>1, <1>2
      <4>2. QED BY <4>1, ElementOfSeq
    <3>2. QED BY <3>1
  <2>2. a \in Int
    BY <1>2
  <2>3. QED BY <2>1, <2>2, SubSeqProperties
<1>3. 1 \in Nat /\ n \in Int /\ n <= Len(w) /\ n + 1 \in Nat /\ n + 1 >= 1 /\ Len(w) \in Int /\ Len(w) <= Len(w)
  BY <1>1
<1>4. /\ SubSeq(w, 1, n) \in Seq(Bytes) /\ Len(SubSeq(w, 1, n)) = n
      /\ \A i \in 1 .. n : SubSeq(w, 1, n)[i] = w[i]
  <2>1. /\ SubSeq(w, 1, n) \in Seq(Bytes) /\ Len(SubSeq(w, 1, n)) = (IF 1 <= n THEN n - 1 + 1 ELSE 0)
        /\ \A i \in 1 .. n - 1 + 1 : SubSeq(w, 1, n)[i] = w[1 + i - 1]
    BY <1>2, <1>3
  <2>2. QED BY <1>1, <2>1
<1>5. Rest(w, n) \in Seq(Bytes) /\ Len(Rest(w, n)) = Len(w) - n
  <2>1. /\ SubSeq(w, n + 1, Len(w)) \in Seq(Bytes)
        /\ Len(SubSeq(w, n + 1, Len(w))) = (IF n + 1 <= Len(w) THEN Len(w) - (n + 1) + 1 ELSE 0)
    BY <1>2, <1>3
  <2>2. QED BY <1>1, <2>1 DEF Rest
<1>6. SubSeq(w, 1, n) \o Rest(w, n) = w
  <2>1. 1 \in 1 .. Len(w) + 1 /\ n \in 1 - 1 .. Len(w) /\ Len(w) \in n .. Len(w)
    BY <1>1
  <2>2. SubSeq(w, 1, n) \o SubSeq(w, n + 1, Len(w)) = SubSeq(w, 1, Len(w))
    BY <2>1, ConcatAdjacentSubSeq
  <2>3. QED BY <2>2, SubSeqFull DEF Rest
<1>7. QED BY <1>4, <1>5, <1>6

LEMMA ReceivedIs ==
  ASSUME NEW r \in Rings, Room(r) # 0, NEW w \in Seq(Bytes), NEW g \in Received(r, w)
  PROVE  /\ g.in \in Rings /\ g.wire \in Seq(Bytes) /\ g.closed \in BOOLEAN
         /\ Unread(g.in) \o g.wire = Unread(r) \o w
         /\ g.closed => g.in = r
<1>1. CASE w = <<>>
  <2>1. g = [in |-> r, wire |-> w, closed |-> stream = "ended"]
    BY <1>1 DEF Received
  <2>2. QED BY <2>1
<1>2. CASE w # <<>>
  <2> DEFINE T == {Len(w), Ring - r.pos, Room(r)}
  <2>1. PICK n \in 1 .. Min(T) :
          g = [in |-> [at  |-> Written(r.at, r.pos, SubSeq(w, 1, n)),
                       pos |-> (r.pos + n) % Ring, len |-> r.len + n],
               wire |-> Rest(w, n), closed |-> FALSE]
    BY <1>2 DEF Received
  <2>2. Len(w) \in Nat /\ Ring - r.pos \in Nat /\ Room(r) \in Nat
    BY LenProperties, RingIs DEF Rings, Places, Room
  <2>3. T \subseteq Nat /\ T # {}
    BY <2>2
  <2>4. Min(T) \in T /\ \A y \in T : Min(T) <= y
    <3> HIDE DEF T
    <3>1. QED BY <2>3, LeastOfNat
  <2>5. n \in 0 .. Len(w) /\ n <= Ring - r.pos /\ n <= Room(r)
    <3> DEFINE k == Min(T)
    <3>1. k \in Nat /\ k <= Len(w) /\ k <= Ring - r.pos /\ k <= Room(r) /\ n \in 1 .. k
      BY <2>3, <2>4
    <3> HIDE DEF k, T
    <3>2. QED BY <2>2, <3>1
  <2> DEFINE s == SubSeq(w, 1, n)
             q == [at |-> Written(r.at, r.pos, s), pos |-> (r.pos + n) % Ring, len |-> r.len + n]
  <2>6. s \in Seq(Bytes) /\ Rest(w, n) \in Seq(Bytes) /\ Len(s) = n /\ s \o Rest(w, n) = w
    BY <2>5, SplitIs
  <2>7. g.in = q /\ g.wire = Rest(w, n) /\ g.closed = FALSE
    BY <2>1
  <2>8. q \in Rings /\ Unread(q) = Unread(r) \o s
    <3> HIDE DEF s
    <3>1. Len(s) <= Ring - r.pos /\ Len(s) <= Room(r)
      BY <2>5, <2>6
    <3>2. LET x == [at |-> Written(r.at, r.pos, s), pos |-> (r.pos + Len(s)) % Ring, len |-> r.len + Len(s)]
          IN  x \in Rings /\ Unread(x) = Unread(r) \o s
      BY <2>6, <3>1, FedIs
    <3>3. QED BY <2>6, <3>2
  <2>9. (Unread(r) \o s) \o Rest(w, n) = Unread(r) \o w
    <3> DEFINE u == Unread(r)
               v == Rest(w, n)
    <3>1. u \in Seq(Bytes) /\ s \in Seq(Bytes) /\ v \in Seq(Bytes)
      BY <2>6, UnreadIs
    <3> HIDE DEF u, v, s
    <3>2. Grouped(u, s, v)
      BY <3>1, Grouping
    <3>3. QED BY <2>6, <3>2 DEF Grouped, u, v
  <2> HIDE DEF q, s
  <2>10. QED BY <2>6, <2>7, <2>8, <2>9
<1>3. QED BY <1>1, <1>2

LEMMA NetInIs ==
  ASSUME SocketTypeOK, NetIn
  PROVE  /\ in' \in Rings /\ wire' \in Seq(Bytes)
         /\ Unread(in') \o wire' = Unread(in) \o wire
         /\ closed' => in' = in \/ in'.pos = 0
<1>1. in \in Rings /\ wire \in Seq(Bytes)
  BY DEF SocketTypeOK
<1>2. CASE UNCHANGED <<in, wire, closed>>
  BY <1>1, <1>2
<1>3. CASE Room(in) # 0 /\ \E first \in Received(in, wire) :
         \E last \in IF first.wire # wire /\ first.in.pos = 0 /\ Room(first.in) > 0
                       THEN Received(first.in, first.wire) ELSE {first} :
           in' = last.in /\ wire' = last.wire /\ closed' = last.closed
  <2>1. PICK first \in Received(in, wire) :
          \E last \in IF first.wire # wire /\ first.in.pos = 0 /\ Room(first.in) > 0
                       THEN Received(first.in, first.wire) ELSE {first} :
            in' = last.in /\ wire' = last.wire /\ closed' = last.closed
    BY <1>3
  <2>2. PICK last \in IF first.wire # wire /\ first.in.pos = 0 /\ Room(first.in) > 0
                       THEN Received(first.in, first.wire) ELSE {first} :
            in' = last.in /\ wire' = last.wire /\ closed' = last.closed
    BY <2>1
  <2>3. /\ first.in \in Rings /\ first.wire \in Seq(Bytes)
        /\ Unread(first.in) \o first.wire = Unread(in) \o wire
        /\ first.closed => first.in = in
    BY <1>1, <1>3, <2>1, ReceivedIs
  <2>4. CASE last = first
    BY <2>2, <2>3, <2>4
  <2>5. CASE first.in.pos = 0 /\ Room(first.in) > 0 /\ last \in Received(first.in, first.wire)
    <3>1. Room(first.in) # 0
      BY <2>3, <2>5, RingIs DEF Room, Rings
    <3>2. /\ last.in \in Rings /\ last.wire \in Seq(Bytes)
          /\ Unread(last.in) \o last.wire = Unread(first.in) \o first.wire
          /\ last.closed => last.in = first.in
      BY <2>3, <2>5, <3>1, ReceivedIs
    <3>3. QED BY <2>2, <2>3, <2>5, <3>2
  <2>6. QED BY <2>2, <2>4, <2>5
<1>4. QED BY <1>2, <1>3 DEF NetIn

(* What the polls of the receiving end leave as it is.                     *)
LEMMA PolledKeeps ==
  ASSUME TransportInv, NetIn, UNCHANGED <<size, accepted, senderVars, stream, recv, handled>>,
         receiving' \in {"away", "receive", "message"}, error' \in {0, -3}
  PROVE  SocketTypeOK' /\ SendqHolds' /\ LineHolds'
<1>1. /\ SocketTypeOK /\ SendqHolds /\ ParserHolds /\ LineHolds
  BY DEF TransportInv
<1>2. UNCHANGED <<sendq, sendpos, out, link, size, accepted, stream, recv, handled>>
  BY DEF senderVars
<1>3. /\ in' \in Rings /\ wire' \in Seq(Bytes)
      /\ Unread(in') \o wire' = Unread(in) \o wire
  BY <1>1, NetInIs
<1>4. SocketTypeOK'
  BY <1>1, <1>2, <1>3 DEF SocketTypeOK
<1>5. SendqHolds'
  BY <1>1, <1>2 DEF SendqHolds
<1>6. Flows' = Flows /\ ReadPlace' = ReadPlace /\ WritePlace' = WritePlace
  BY <1>2 DEF Flows, ReadPlace, WritePlace, Parsing
<1>7. Line(out)' = Line(out)
  BY <1>2, <1>3, <1>6 DEF Line
<1>8. LineHolds'
  BY <1>1, <1>2, <1>6, <1>7 DEF LineHolds
<1>9. QED BY <1>4, <1>5, <1>8

LEMMA RunReceiveKeeps == ASSUME TransportInv, RunReceive PROVE TransportInv'
<1>1. /\ NetIn /\ ~lost /\ receiving' = "receive"
      /\ UNCHANGED <<size, accepted, senderVars, stream, recv, error, lost, handled>>
  BY DEF RunReceive
<1>2. /\ SocketTypeOK /\ ParserHolds
  BY DEF TransportInv
<1>3. SocketTypeOK' /\ SendqHolds' /\ LineHolds'
  <2>1. error' \in {0, -3}
    BY <1>1, <1>2 DEF SocketTypeOK
  <2>2. QED BY <1>1, <2>1, PolledKeeps
<1>4. ParserHolds'
  BY <1>1, <1>2 DEF ParserHolds, Parsing
<1>5. HandledBeforeLost'
  BY <1>1 DEF HandledBeforeLost
<1>6. QED BY <1>3, <1>4, <1>5, TransportPartsNext

LEMMA PeekedIs ==
  ASSUME SocketTypeOK
  PROVE  /\ Unread(in) \in Seq(Bytes) /\ Len(Unread(in)) = in.len /\ in.len \in 0 .. Ring
         /\ Peeked \in Seq(Bytes) /\ Len(Peeked) \in Nat
         /\ Len(Peeked) = (IF in.len <= Peek THEN in.len ELSE Peek)
         /\ \A i \in 1 .. Len(Peeked) : Peeked[i] = Unread(in)[i]
<1> DEFINE u == Unread(in)
           n == Min({in.len, Peek})
<1>1. u \in Seq(Bytes) /\ Len(u) = in.len /\ in.len \in 0 .. Ring /\ in.len \in Nat
  BY UnreadIs, RingIs DEF SocketTypeOK, Rings
<1>2. n = (IF in.len <= Peek THEN in.len ELSE Peek) /\ n \in 0 .. Len(u)
  <2>1. n = IF in.len <= Peek THEN in.len ELSE Peek
    BY <1>1, RingIs, LesserOf
  <2> HIDE DEF n, u
  <2>2. QED BY <1>1, <2>1, RingIs
<1> HIDE DEF n, u
<1>3. SubSeq(u, 1, n) \in Seq(Bytes) /\ Len(SubSeq(u, 1, n)) = n /\ \A i \in 1 .. n : SubSeq(u, 1, n)[i] = u[i]
  BY <1>1, <1>2, SplitIs
<1>4. Peeked = SubSeq(u, 1, n)
  BY DEF Peeked, n, u
<1>5. n \in Nat
  BY <1>1, <1>2
<1>6. QED BY <1>1, <1>2, <1>3, <1>4, <1>5 DEF u

(* A connection is reported lost with no whole message left.               *)
LEMMA EndReceiveKeeps == ASSUME TransportInv, EndReceive PROVE TransportInv'
<1>1. /\ NetIn /\ receiving' = "away"
      /\ UNCHANGED <<size, accepted, senderVars, stream, recv, handled>>
      /\ error' \in IF receiving = "message" \/ error # 0 THEN {error} ELSE {0, -3}
      /\ lost' = (receiving # "message" /\ (error' # 0 \/ closed'))
      /\ \/ receiving \in {"message", "none"}
         \/ receiving = "receive" /\ ~Parsing /\ Len(Peeked) < Header
         \/ receiving = "receive" /\ in.len = 0
  BY DEF EndReceive
<1>2. /\ SocketTypeOK /\ ParserHolds
  BY DEF TransportInv
<1>3. SocketTypeOK' /\ SendqHolds' /\ LineHolds'
  <2>1. error' \in {0, -3}
    BY <1>1, <1>2 DEF SocketTypeOK
  <2>2. QED BY <1>1, <2>1, PolledKeeps
<1>4. ParserHolds'
  BY <1>1, <1>2 DEF ParserHolds, Parsing
<1>5. HandledBeforeLost'
  <2> SUFFICES ASSUME lost', error' = 0, in'.pos # 0 PROVE ~WholeMessage'
    BY DEF HandledBeforeLost
  <2>1. receiving = "receive" /\ closed' /\ (in.len = 0 \/ (~Parsing /\ Len(Peeked) < Header))
    BY <1>1, <1>2 DEF SocketTypeOK
  <2>2. in' = in
    BY <1>1, <1>2, <2>1, NetInIs
  <2>3. /\ in.len \in Nat /\ Header \in Nat /\ Header > 0 /\ Peek \in Nat /\ Header <= Peek
        /\ Len(Peeked) = (IF in.len <= Peek THEN in.len ELSE Peek)
    BY <1>2, PeekedIs, RingIs
  <2>4. CASE Parsing
    <3>1. in.len = 0 /\ recv.got < size[recv.id] /\ recv.got \in Nat /\ size[recv.id] \in Nat
      <4>1. recv.id \in Messages
        BY <1>2, <2>4, RingIs DEF ParserHolds, Parsing, SocketTypeOK, Messages
      <4>2. QED BY <1>2, <2>1, <2>4, <4>1 DEF ParserHolds, SocketTypeOK
    <3>2. ~(in.len >= size[recv.id] - recv.got)
      BY <3>1
    <3>3. QED BY <1>1, <2>2, <2>4, <3>2 DEF WholeMessage, Parsing
  <2>5. CASE ~Parsing
    <3>1. ~(in.len >= Header)
      BY <2>1, <2>3
    <3>2. QED BY <1>1, <2>2, <2>5, <3>1 DEF WholeMessage, Parsing
  <2>6. QED BY <2>4, <2>5
<1>6. QED BY <1>3, <1>4, <1>5, TransportPartsNext

(* What one round reads.  The bytes are those of the message that is next, *)
(* from where the parser is.                                               *)
LEMMA UnreadOnLine == ASSUME SocketTypeOK, LineHolds PROVE OnLine(size, accepted, ReadPlace, Unread(in))
<1>1. Unread(in) \in Seq(Bytes) /\ wire \in Seq(Bytes) /\ out \in Rings
  BY UnreadIs DEF SocketTypeOK
<1>2. Flows \in BOOLEAN /\ Pend(Flows, out) \in Seq(Bytes) /\ Unread(in) \o wire \in Seq(Bytes)
  BY <1>1, PendIs, ConcatProperties DEF Flows
<1>3. OnLine(size, accepted, ReadPlace, (Unread(in) \o wire) \o Pend(Flows, out))
  BY DEF LineHolds, LineIs, Line
<1>4. OnLine(size, accepted, ReadPlace, Unread(in) \o wire)
  BY <1>2, <1>3, LineCut
<1>5. QED BY <1>1, <1>4, LineCut

LEMMA NextBytes ==
  ASSUME SocketTypeOK, LineHolds, NEW m \in Nat, NEW k \in Nat, size[m] \in Nat, ReadPlace = <<m, k>>
  PROVE  \A n \in 0 .. in.len : k + n <= Header + size[m] =>
           /\ SubSeq(Unread(in), 1, n) = BytesOf(m, k, n)
           /\ \A i \in 1 .. n : Unread(in)[i] = <<m, k + i - 1>>
<1>1. Unread(in) \in Seq(Bytes) /\ Len(Unread(in)) = in.len /\ in.len \in Nat
  BY UnreadIs, PeekedIs, RingIs DEF SocketTypeOK
<1>3. OnLine(size, accepted, ReadPlace, Unread(in))
  BY UnreadOnLine
<1>4. ASSUME NEW n \in 0 .. in.len, k + n <= Header + size[m]
      PROVE  /\ SubSeq(Unread(in), 1, n) = BytesOf(m, k, n)
             /\ \A i \in 1 .. n : Unread(in)[i] = <<m, k + i - 1>>
  <2>1. n \in Nat /\ n <= Len(Unread(in)) /\ n \in 0 .. Len(Unread(in))
    BY <1>1
  <2>2. OnLine(size, accepted, <<m, k>>, Unread(in))
    BY <1>3
  <2>3. SubSeq(Unread(in), 1, n) = BytesOf(m, k, n)
    <3> DEFINE u == Unread(in)
    <3>1. OnLine(size, accepted, <<m, k>>, u) /\ n <= Len(u)
      BY <2>1, <2>2
    <3> HIDE DEF u
    <3>2. Reads(m, k, u, n)
      <4>1. /\ m \in Nat /\ k \in Nat /\ n \in Nat /\ size[m] \in Nat /\ n <= Len(u)
            /\ k + n <= Header + size[m]
        BY <1>4, <2>1, <3>1
      <4>2. QED BY <3>1, <4>1, LineReads
    <3>3. QED BY <3>2 DEF u, Reads
  <2>4. \A i \in 1 .. n : BytesOf(m, k, n)[i] = <<m, k + i - 1>>
    BY <2>1, BytesAre
  <2>5. \A i \in 1 .. n : SubSeq(Unread(in), 1, n)[i] = Unread(in)[i]
    BY <1>1, <2>1, SplitIs
  <2>6. QED BY <2>3, <2>4, <2>5
<1>5. QED BY <1>4

(* When n bytes are read, the line goes on where the parser is then.       *)
LEMMA ReadGoesOn ==
  ASSUME SocketTypeOK, LineHolds, NEW m \in 1 .. accepted, NEW k \in Nat, size[m] \in Nat,
         ReadPlace = <<m, k>>, k < Header + size[m],
         NEW n \in 0 .. in.len, k + n <= Header + size[m],
         in' = [in EXCEPT !.len = @ - n], ReadPlace' = Place(size, m, k + n),
         UNCHANGED <<size, accepted, sendq, sendpos, out, link, wire, stream>>
  PROVE  LineHolds' /\ in' \in Rings
<1>1. in \in Rings /\ wire \in Seq(Bytes) /\ out \in Rings /\ accepted \in Nat /\ m \in Nat /\ n \in Nat
      /\ in.len \in Nat
  <2>1. in \in Rings /\ wire \in Seq(Bytes) /\ out \in Rings /\ accepted \in 0 .. MaxMessages
    BY DEF SocketTypeOK
  <2>2. in.len \in Nat
    BY PeekedIs, RingIs
  <2>3. accepted \in Nat
    BY <2>1, RingIs
  <2>4. QED BY <2>1, <2>2, <2>3
<1> DEFINE a == SubSeq(Unread(in), 1, n)
           b == Unread(in')
           p == Pend(Flows, out)
<1>2. in' \in Rings /\ a \in Seq(Bytes) /\ Unread(in) = a \o b /\ b \in Seq(Bytes)
  <2>1. LET q == [in EXCEPT !.len = @ - n]
        IN  /\ q \in Rings /\ SubSeq(Unread(in), 1, n) \in Seq(Bytes)
            /\ Unread(in) = SubSeq(Unread(in), 1, n) \o Unread(q)
    BY <1>1, ReadOffIs
  <2>2. in' \in Rings /\ a \in Seq(Bytes) /\ Unread(in) = a \o b
    BY <2>1
  <2>3. QED BY <2>2, UnreadIs
<1>3. a = BytesOf(m, k, n)
  BY <1>1, NextBytes
<1>4. AfterAll(size, ReadPlace, a) = ReadPlace'
  <2>1. AfterAll(size, <<m, k>>, BytesOf(m, k, n)) = Place(size, m, k + n)
    BY <1>1, PartLinked
  <2> HIDE DEF a
  <2>2. QED BY <1>3, <2>1
<1>5. Flows \in BOOLEAN /\ Flows' = Flows /\ WritePlace' = WritePlace /\ p \in Seq(Bytes)
  BY <1>1, PendIs DEF Flows, WritePlace
<1>6. Line(out)' = (b \o wire) \o p /\ Line(out) = ((a \o b) \o wire) \o p
  BY <1>2, <1>5 DEF Line
<1> HIDE DEF a, b, p
<1>7. Line(out) = a \o Line(out)' /\ Line(out)' \in Seq(Bytes)
  <2> DEFINE w == wire
  <2>1. a \in Seq(Bytes) /\ b \in Seq(Bytes) /\ w \in Seq(Bytes) /\ p \in Seq(Bytes)
    BY <1>1, <1>2, <1>5
  <2> HIDE DEF w
  <2>2. b \o w \in Seq(Bytes) /\ (b \o w) \o p \in Seq(Bytes)
    BY <2>1, ConcatProperties
  <2>3. (a \o b) \o w = a \o (b \o w)
    <3>1. Grouped(a, b, w)
      BY <2>1, Grouping
    <3>2. QED BY <3>1 DEF Grouped
  <2> DEFINE x == b \o w
  <2>4. x \in Seq(Bytes)
    BY <2>2
  <2> HIDE DEF x
  <2>5. (a \o x) \o p = a \o (x \o p)
    <3>1. Grouped(a, x, p)
      BY <2>1, <2>4, Grouping
    <3>2. QED BY <3>1 DEF Grouped
  <2>6. QED BY <1>6, <2>2, <2>3, <2>5 DEF w, x
<1>8. OnLine(size, accepted, ReadPlace, a \o Line(out)')
      /\ (Flows => AfterAll(size, ReadPlace, a \o Line(out)') = WritePlace)
  BY <1>7 DEF LineHolds, LineIs
<1>9. /\ OnLine(size, accepted, AfterAll(size, ReadPlace, a), Line(out)')
      /\ AfterAll(size, ReadPlace, a \o Line(out)') = AfterAll(size, AfterAll(size, ReadPlace, a), Line(out)')
  <2> DEFINE l == Line(out)'
  <2>1. l \in Seq(Bytes) /\ OnLine(size, accepted, ReadPlace, a \o l) /\ a \in Seq(Bytes)
    BY <1>2, <1>7, <1>8
  <2> HIDE DEF l
  <2>2. /\ OnLine(size, accepted, AfterAll(size, ReadPlace, a), l)
        /\ AfterAll(size, ReadPlace, a \o l) = AfterAll(size, AfterAll(size, ReadPlace, a), l)
    BY <2>1, LineRest
  <2>3. QED BY <2>2 DEF l
<1>10. QED BY <1>2, <1>4, <1>5, <1>8, <1>9 DEF LineHolds, LineIs

(* The parser finds the header of the message that is next, or goes on with*)
(* it; a message that is whole is that one, as it was sent.                *)
Parsed(m, g, j) ==
  /\ in' = [in EXCEPT !.len = @ - j]
  /\ \/ g = size[m] /\ recv' = NoMessage /\ receiving' = "message" /\ handled' = m
     \/ /\ g < size[m] /\ recv' = [id |-> m, got |-> g, intact |-> TRUE]
        /\ receiving' = "receive" /\ handled' = handled

LEMMA ParseIs ==
  ASSUME TransportInv, ParseIn
  PROVE  /\ handled + 1 \in 1 .. accepted /\ size[handled + 1] \in Nat
         /\ UNCHANGED <<size, accepted, senderVars, wire, stream, closed, lost, error>>
         /\ \E k \in Nat : \E g \in Nat : \E j \in 0 .. in.len :
              /\ ReadPlace = <<handled + 1, k>> /\ k < Header + size[handled + 1]
              /\ k + j = Header + g /\ g <= size[handled + 1]
              /\ Parsed(handled + 1, g, j)
<1> DEFINE msg  == IF Parsing THEN recv ELSE [NoMessage EXCEPT !.id = Peeked[1][1]]
           a    == IF Parsing THEN 0 ELSE Header
           n    == Min({size[msg.id] - msg.got, Len(Peeked) - a})
           data == SubSeq(Peeked, a + 1, a + n)
           now  == [msg EXCEPT !.got = @ + n,
                      !.intact = @ /\ data = BytesOf(msg.id, Header + msg.got, n)]
           whole == now.got = size[now.id]
           m == handled + 1
           k == IF Parsing THEN Header + recv.got ELSE 0
           got == msg.got
           g == got + n
<1>1. /\ receiving = "receive" /\ in.len > 0 /\ (Parsing \/ Len(Peeked) >= Header)
      /\ UNCHANGED <<size, accepted, senderVars, wire, stream, closed, lost>>
      /\ \/ ~Parsing /\ ~IsHeader(Peeked)
         \/ /\ in' = [in EXCEPT !.len = @ - a - n]
            /\ recv' = IF whole THEN NoMessage ELSE now
            /\ receiving' = IF whole THEN "message" ELSE "receive"
            /\ handled' = IF ~whole THEN handled
                          ELSE IF now.intact /\ now.id = handled + 1 THEN now.id ELSE -1
            /\ UNCHANGED error
  BY DEF ParseIn
<1> HIDE DEF n, data, now, whole
<1>2. /\ SocketTypeOK /\ SendqHolds /\ ParserHolds /\ LineHolds
  BY DEF TransportInv
<1>3. /\ Unread(in) \in Seq(Bytes) /\ Len(Unread(in)) = in.len /\ in.len \in Nat
      /\ Peeked \in Seq(Bytes) /\ Len(Peeked) \in Nat
      /\ Len(Peeked) = (IF in.len <= Peek THEN in.len ELSE Peek)
      /\ \A i \in 1 .. Len(Peeked) : Peeked[i] = Unread(in)[i]
      /\ Header \in Nat /\ Header > 0 /\ Peek \in Nat /\ Header <= Peek
      /\ handled \in Nat /\ accepted \in 0 .. MaxMessages /\ size \in [Messages -> Nat]
      /\ recv \in [id : Nat, got : Nat, intact : BOOLEAN]
  <2>1. in.len \in Nat
    BY <1>2, PeekedIs, RingIs
  <2>2. /\ handled \in Nat /\ accepted \in 0 .. MaxMessages /\ size \in [Messages -> Nat]
        /\ recv \in [id : Nat, got : Nat, intact : BOOLEAN]
    BY <1>2 DEF SocketTypeOK
  <2>3. Header \in Nat /\ Header > 0 /\ Peek \in Nat /\ Header <= Peek
    BY RingIs
  <2>4. /\ Unread(in) \in Seq(Bytes) /\ Len(Unread(in)) = in.len
        /\ Peeked \in Seq(Bytes) /\ Len(Peeked) \in Nat
        /\ Len(Peeked) = (IF in.len <= Peek THEN in.len ELSE Peek)
        /\ \A i \in 1 .. Len(Peeked) : Peeked[i] = Unread(in)[i]
    BY <1>2, PeekedIs
  <2>5. QED BY <2>1, <2>2, <2>3, <2>4
<1>4. ReadPlace = <<m, k>>
  BY <1>2 DEF ReadPlace, ParserHolds, Parsing
<1>5. Len(Peeked) >= 1 /\ Peeked[1] = Unread(in)[1]
  BY <1>1, <1>3
<1>6. m \in 1 .. accepted /\ (~Parsing => Peeked[1] = <<m, 0>>)
  <2>1. CASE Parsing
    BY <1>2, <1>3, <2>1 DEF ParserHolds
  <2>2. CASE ~Parsing
    <3>1. Unread(in) # <<>> /\ 1 \in 1 .. Len(Unread(in))
      BY <1>1, <1>3, EmptySeq
    <3>2. OnLine(size, accepted, ReadPlace, Unread(in))
      BY <1>2, UnreadOnLine
    <3>3. Unread(in)[1] = <<m, 0>> /\ Unread(in)[1][1] \in 1 .. accepted
      BY <1>4, <2>2, <3>1, <3>2 DEF OnLine, Linked, Genuine
    <3>4. QED BY <1>5, <3>3
  <2>3. QED BY <2>1, <2>2
<1>7. m \in Nat /\ m \in Messages /\ size[m] \in Nat
  <2>1. m \in Nat /\ m \in Messages
    BY <1>3, <1>6, RingIs DEF Messages
  <2>2. QED BY <1>3, <2>1
<1>8. /\ msg = [id |-> m, got |-> got, intact |-> TRUE] /\ got \in Nat
      /\ got <= size[m] /\ (Parsing => got < size[m])
      /\ k + a = Header + got /\ k \in Nat /\ a \in Nat /\ k < Header + size[m] /\ a <= Len(Peeked)
  <2>1. CASE Parsing
    <3>1. recv.id = m /\ recv.intact /\ recv.got < size[m] /\ recv.got \in Nat /\ recv.intact \in BOOLEAN
      BY <1>2, <1>3, <2>1 DEF ParserHolds
    <3>2. recv = [id |-> m, got |-> recv.got, intact |-> TRUE]
      BY <1>3, <3>1
    <3>3. msg = recv /\ a = 0 /\ k = Header + recv.got
      BY <2>1
    <3> HIDE DEF msg, a, k, m
    <3>4. msg = [id |-> m, got |-> got, intact |-> TRUE] /\ got = recv.got
      BY <3>2, <3>3
    <3> HIDE DEF got
    <3>5. QED BY <1>3, <1>7, <2>1, <3>1, <3>3, <3>4
  <2>2. CASE ~Parsing
    <3>1. Peeked[1][1] = m /\ a = Header /\ k = 0 /\ a <= Len(Peeked)
      BY <1>1, <1>3, <1>6, <2>2
    <3>2. msg = [NoMessage EXCEPT !.id = Peeked[1][1]]
      BY <2>2
    <3> HIDE DEF m, msg, a, k
    <3>3. msg = [id |-> m, got |-> 0, intact |-> TRUE] /\ got = 0
      BY <3>1, <3>2 DEF NoMessage
    <3> HIDE DEF got
    <3>4. QED BY <1>3, <1>7, <2>2, <3>1, <3>3
  <2>3. QED BY <2>1, <2>2
<1>9. m \in Nat /\ k \in Nat /\ ReadPlace = <<m, k>>
  BY <1>4, <1>7, <1>8
<1> DEFINE lp == Len(Peeked)
           z  == size[m]
<1> HIDE DEF msg, a, k, m, got, lp, z
<1>10. /\ got \in Nat /\ got <= z /\ z \in Nat /\ k + a = Header + got /\ k \in Nat /\ a \in Nat
       /\ a <= lp /\ lp \in Nat /\ lp <= in.len /\ in.len \in Nat /\ Header \in Nat
       /\ msg.id = m /\ msg.intact = TRUE /\ msg.got = got
  BY <1>3, <1>7, <1>8 DEF lp, z
<1>11. n \in Nat /\ n <= z - got /\ n <= lp - a
  <2> DEFINE x == z - got
             y == lp - a
  <2>1. x \in Nat /\ y \in Nat
    BY <1>10
  <2>2. n = Min({x, y})
    BY <1>10 DEF n, z, lp
  <2> HIDE DEF x, y
  <2>3. n = IF x <= y THEN x ELSE y
    BY <2>1, <2>2, LesserOf
  <2>4. n \in Nat /\ n <= x /\ n <= y
    BY <2>1, <2>3
  <2>5. QED BY <2>4 DEF x, y
<1>12. /\ a + n \in 0 .. in.len /\ a + n <= lp
       /\ k + (a + n) = Header + g /\ g \in Nat /\ g <= z
       /\ k + (a + n) <= Header + z
  BY <1>10, <1>11
<1>13. \A j \in 0 .. in.len : k + j <= Header + z =>
          \A i \in 1 .. j : Unread(in)[i] = <<m, k + i - 1>>
  BY <1>2, <1>7, <1>9, NextBytes DEF z
<1>14. Parsing \/ IsHeader(Peeked)
  <2> SUFFICES ASSUME ~Parsing PROVE IsHeader(Peeked)
    OBVIOUS
  <2>1. k = 0 /\ Peeked[1] = <<m, 0>> /\ Len(Peeked) >= Header
    BY <1>1, <1>6 DEF k
  <2>2. Header \in 0 .. in.len /\ k + Header <= Header + z
    BY <1>10, <2>1 DEF lp
  <2>3. \A i \in 1 .. Header : Unread(in)[i] = <<m, 0 + i - 1>>
    <3>1. \A i \in 1 .. Header : Unread(in)[i] = <<m, k + i - 1>>
      BY <1>13, <2>2
    <3>2. QED BY <2>1, <3>1
  <2>4. \A i \in 1 .. Header : Peeked[i] = <<m, 0 + i - 1>>
    <3>1. ASSUME NEW i \in 1 .. Header PROVE Peeked[i] = <<m, 0 + i - 1>>
      <4>1. i \in 1 .. Len(Peeked)
        BY <1>3, <2>1
      <4>2. Peeked[i] = Unread(in)[i]
        BY <1>3, <4>1
      <4>3. QED BY <2>3, <4>2
    <3>2. QED BY <3>1
  <2>5. /\ SubSeq(Peeked, 1, Header) \in Seq(Bytes) /\ Len(SubSeq(Peeked, 1, Header)) = Header
        /\ \A i \in 1 .. Header : SubSeq(Peeked, 1, Header)[i] = Peeked[i]
    <3>1. Header \in 0 .. Len(Peeked)
      BY <1>3, <2>1
    <3>2. QED BY <1>3, <3>1, SplitIs
  <2>6. /\ BytesOf(m, 0, Header) \in Seq(Bytes) /\ Len(BytesOf(m, 0, Header)) = Header
        /\ \A i \in 1 .. Header : BytesOf(m, 0, Header)[i] = <<m, 0 + i - 1>>
    <3> DEFINE o == 0
    <3>1. o \in Nat /\ m \in Nat /\ Header \in Nat
      BY <1>7, <1>10
    <3> HIDE DEF o
    <3>2. /\ BytesOf(m, o, Header) \in Seq(Bytes) /\ Len(BytesOf(m, o, Header)) = Header
          /\ \A i \in 1 .. Header : BytesOf(m, o, Header)[i] = <<m, o + i - 1>>
      BY <3>1, BytesAre
    <3>3. QED BY <3>2 DEF o
  <2>7. SubSeq(Peeked, 1, Header) = BytesOf(m, 0, Header)
    BY <2>4, <2>5, <2>6, SeqEqual
  <2>8. QED BY <2>1, <2>7 DEF IsHeader
<1>15. data = BytesOf(m, Header + got, n)
  <2> DEFINE f == Header + got
  <2>1. f \in Nat /\ f = k + a
    BY <1>10
  <2> HIDE DEF f
  <2>2. ASSUME NEW i \in 1 .. n PROVE Peeked[(a + 1) + i - 1] = <<m, f + i - 1>>
    <3>1. a + i \in 1 .. a + n /\ a + i \in 1 .. lp /\ (a + 1) + i - 1 = a + i
          /\ k + (a + i) - 1 = f + i - 1
      BY <1>10, <1>11, <2>1
    <3>2. Unread(in)[a + i] = <<m, k + (a + i) - 1>>
      BY <1>13, <1>12, <3>1
    <3>3. Peeked[a + i] = Unread(in)[a + i]
      BY <1>3, <3>1 DEF lp
    <3>4. QED BY <3>1, <3>2, <3>3
  <2>3. /\ data \in Seq(Bytes) /\ Len(data) = n
        /\ \A i \in 1 .. n : data[i] = Peeked[(a + 1) + i - 1]
    <3> DEFINE b == a + 1
               c == a + n
    <3>1. b \in Int /\ c \in Int /\ c - b + 1 = n /\ (b <= c \/ n = 0) /\ (b <= c => c - b + 1 = n)
      BY <1>10, <1>11
    <3>2. \A i \in b .. c : Peeked[i] \in Bytes
      <4>1. ASSUME NEW i \in b .. c PROVE Peeked[i] \in Bytes
        <5>1. i \in 1 .. lp
          BY <1>10, <1>11
        <5>2. QED BY <1>3, <5>1, ElementOfSeq DEF lp
      <4>2. QED BY <4>1
    <3>3. data = SubSeq(Peeked, b, c)
      BY DEF data
    <3> HIDE DEF b, c
    <3>4. /\ SubSeq(Peeked, b, c) \in Seq(Bytes)
          /\ Len(SubSeq(Peeked, b, c)) = (IF b <= c THEN c - b + 1 ELSE 0)
          /\ \A i \in 1 .. c - b + 1 : SubSeq(Peeked, b, c)[i] = Peeked[b + i - 1]
      BY <3>1, <3>2, SubSeqProperties
    <3>5. Len(data) = n
      BY <3>1, <3>3, <3>4
    <3>6. \A i \in 1 .. n : data[i] = Peeked[b + i - 1]
      BY <3>1, <3>3, <3>4
    <3>7. QED BY <3>3, <3>4, <3>5, <3>6 DEF b
  <2>4. /\ BytesOf(m, f, n) \in Seq(Bytes) /\ Len(BytesOf(m, f, n)) = n
        /\ \A i \in 1 .. n : BytesOf(m, f, n)[i] = <<m, f + i - 1>>
    BY <1>9, <1>11, <2>1, BytesAre
  <2>5. data = BytesOf(m, f, n)
    BY <2>2, <2>3, <2>4, SeqEqual
  <2>6. QED BY <2>5 DEF f
<1>16. now = [id |-> m, got |-> g, intact |-> TRUE]
  <2>1. (msg.intact /\ data = BytesOf(msg.id, Header + msg.got, n)) = TRUE
    BY <1>10, <1>15
  <2>2. now = [msg EXCEPT !.got = msg.got + n, !.intact = TRUE]
    BY <2>1 DEF now
  <2>3. msg.got + n = g
    BY <1>10
  <2> HIDE DEF g
  <2>4. QED BY <1>8, <2>2, <2>3
<1>17. Parsed(m, g, a + n) /\ UNCHANGED error
  <2>1. in.len - a - n = in.len - (a + n)
    BY <1>10, <1>11
  <2>2. in' = [in EXCEPT !.len = @ - (a + n)]
    BY <1>1, <1>14, <2>1
  <2> HIDE DEF g
  <2>3. now.got = g /\ now.id = m /\ now.intact
    BY <1>16
  <2>4. CASE g = size[m]
    <3>1. whole
      BY <2>3, <2>4 DEF whole
    <3>2. recv' = NoMessage /\ receiving' = "message" /\ handled' = m /\ UNCHANGED error
      BY <1>1, <1>14, <2>3, <3>1 DEF m
    <3>3. QED BY <2>2, <2>4, <3>2 DEF Parsed
  <2>5. CASE g # size[m]
    <3>1. ~whole
      BY <2>3, <2>5 DEF whole
    <3>2. recv' = now /\ receiving' = "receive" /\ handled' = handled /\ UNCHANGED error
      BY <1>1, <1>14, <3>1
    <3>3. g < size[m]
      BY <1>10, <1>12, <2>5 DEF z
    <3>4. QED BY <1>16, <2>2, <3>2, <3>3 DEF Parsed
  <2>6. QED BY <2>4, <2>5
<1> HIDE DEF g
<1>18. \E x \in Nat : \E y \in Nat : \E j \in 0 .. in.len :
          /\ ReadPlace = <<m, x>> /\ x < Header + size[m]
          /\ x + j = Header + y /\ y <= size[m] /\ Parsed(m, y, j)
  <2>1. /\ k \in Nat /\ g \in Nat /\ a + n \in 0 .. in.len
        /\ ReadPlace = <<m, k>> /\ k < Header + size[m]
        /\ k + (a + n) = Header + g /\ g <= size[m] /\ Parsed(m, g, a + n)
    BY <1>8, <1>9, <1>17, <1>12 DEF z
  <2>2. QED BY <2>1
<1>19. QED BY <1>1, <1>6, <1>7, <1>17, <1>18 DEF m

LEMMA ParseKeeps == ASSUME TransportInv, ParseIn PROVE TransportInv'
<1> DEFINE m == handled + 1
<1>1. /\ m \in 1 .. accepted /\ size[m] \in Nat
      /\ UNCHANGED <<size, accepted, senderVars, wire, stream, closed, lost, error>>
  BY ParseIs
<1>2. PICK k \in Nat, g \in Nat, j \in 0 .. in.len :
        /\ ReadPlace = <<m, k>> /\ k < Header + size[m]
        /\ k + j = Header + g /\ g <= size[m] /\ Parsed(m, g, j)
  BY ParseIs
<1>3. /\ SocketTypeOK /\ SendqHolds /\ ParserHolds /\ LineHolds
  BY DEF TransportInv
<1>4. UNCHANGED <<sendq, sendpos, out, link, size, accepted, wire, stream, closed, lost, error>>
  BY <1>1 DEF senderVars
<1>5. handled \in Nat /\ accepted \in Nat /\ m \in Nat /\ m # 0 /\ Header \in Nat
  BY <1>3, RingIs DEF SocketTypeOK
<1> HIDE DEF m
<1>6. /\ in' = [in EXCEPT !.len = @ - j]
      /\ \/ g = size[m] /\ recv' = NoMessage /\ receiving' = "message" /\ handled' = m
         \/ /\ g < size[m] /\ recv' = [id |-> m, got |-> g, intact |-> TRUE]
            /\ receiving' = "receive" /\ handled' = handled
  BY <1>2 DEF Parsed
<1>7. ReadPlace' = Place(size, m, k + j)
  <2>1. CASE g = size[m] /\ recv' = NoMessage /\ handled' = m
    BY <1>2, <2>1 DEF ReadPlace, Parsing, NoMessage, Place
  <2>2. CASE g < size[m] /\ recv' = [id |-> m, got |-> g, intact |-> TRUE]
    <3>1. k + j # Header + size[m]
      BY <1>1, <1>2, <1>5, <2>2
    <3>2. QED BY <1>2, <1>5, <2>2, <3>1 DEF ReadPlace, Parsing, Place
  <2>3. QED BY <1>6, <2>1, <2>2
<1>8. LineHolds' /\ in' \in Rings
  <2>1. k + j <= Header + size[m]
    BY <1>1, <1>2, <1>5
  <2>2. QED BY <1>1, <1>2, <1>3, <1>4, <1>6, <1>7, <2>1, ReadGoesOn
<1>9. lost' = FALSE
  <2>1. receiving = "receive"
    BY DEF ParseIn
  <2>2. ~lost
    BY <1>3, <2>1 DEF ParserHolds
  <2>3. lost' = lost
    BY <1>4
  <2>4. QED BY <2>2, <2>3
<1>10. SocketTypeOK'
  <2>1. recv' \in [id : Nat, got : Nat, intact : BOOLEAN]
    <3>1. NoMessage \in [id : Nat, got : Nat, intact : BOOLEAN]
      BY DEF NoMessage
    <3>2. [id |-> m, got |-> g, intact |-> TRUE] \in [id : Nat, got : Nat, intact : BOOLEAN]
      BY <1>2, <1>5
    <3>3. QED BY <1>6, <3>1, <3>2
  <2>2. receiving' \in {"away", "receive", "message"}
    BY <1>6
  <2>3. handled' \in Nat /\ handled' <= accepted
    BY <1>1, <1>3, <1>5, <1>6 DEF SocketTypeOK
  <2>4. QED BY <1>3, <1>4, <1>8, <2>1, <2>2, <2>3 DEF SocketTypeOK
<1>11. SendqHolds'
  BY <1>3, <1>4 DEF SendqHolds
<1>12. ParserHolds'
  <2>1. CASE recv' = NoMessage
    BY <1>9, <2>1 DEF ParserHolds, Parsing, NoMessage
  <2>2. CASE g < size[m] /\ recv' = [id |-> m, got |-> g, intact |-> TRUE] /\ handled' = handled
    BY <1>1, <1>4, <1>5, <1>9, <2>2 DEF ParserHolds, Parsing, m
  <2>3. QED BY <1>6, <2>1, <2>2
<1>13. HandledBeforeLost'
  BY <1>9 DEF HandledBeforeLost
<1>14. QED BY <1>8, <1>10, <1>11, <1>12, <1>13, TransportPartsNext

LEMMA TransportStep == ASSUME TransportInv, [TransportNext]_transportVars PROVE TransportInv'
<1>1. CASE Send
  BY <1>1, SendKept
<1>2. CASE RunSend \/ EndSend
  BY <1>2, RunOrEndKeeps
<1>3. CASE WriteOut
  BY <1>3, WriteKeeps
<1>4. CASE Kill \/ StreamEnds
  BY <1>4, BreakKeeps
<1>5. CASE RunReceive
  BY <1>5, RunReceiveKeeps
<1>6. CASE ParseIn
  BY <1>6, ParseKeeps
<1>7. CASE EndReceive
  BY <1>7, EndReceiveKeeps
<1>8. CASE UNCHANGED transportVars
  <2>1. /\ UNCHANGED <<size, accepted, wire, stream, receiverVars>>
        /\ UNCHANGED <<sendq, sendpos, out, link, in, closed, recv, receiving, error, lost, handled>>
    BY <1>8 DEF transportVars, senderVars, receiverVars
  <2>2. /\ SocketTypeOK /\ SendqHolds /\ ParserHolds /\ LineHolds /\ HandledBeforeLost
    BY DEF TransportInv
  <2>3. SocketTypeOK'
    BY <2>1, <2>2 DEF SocketTypeOK
  <2>4. SendqHolds'
    BY <2>1, <2>2 DEF SendqHolds
  <2>5. accepted \in Nat
    BY <2>2, RingIs DEF SocketTypeOK
  <2>6. ParserHolds' /\ HandledBeforeLost'
    BY <2>1, <2>2, <2>5, ReceiverKept
  <2>7. LineHolds'
    BY <2>1, <2>2 DEF LineHolds, Line, ReadPlace, WritePlace, Parsing, Flows
  <2>8. QED BY <2>3, <2>4, <2>6, <2>7, TransportPartsNext
<1>9. QED BY <1>1, <1>2, <1>3, <1>4, <1>5, <1>6, <1>7, <1>8
       DEF TransportNext, SenderRuns, ReceiverRuns

LEMMA TransportInvariant == TransportSpec => []TransportInv
<1>1. TransportInit => TransportInv
  BY TransportInitially
<1>2. TransportInv /\ [TransportNext]_transportVars => TransportInv'
  BY TransportStep
<1>3. QED BY <1>1, <1>2, PTL DEF TransportSpec

(* A connection that has ended is reported when every message that came    *)
(* whole has been handled, but for the end of the stream met at the end of *)
(* the ring (HandledBeforeLost).                                           *)
THEOREM MessagesBeforeTheEnd == TransportSpec => []HandledBeforeLost
<1>1. TransportInv => HandledBeforeLost
  BY DEF TransportInv
<1>2. QED BY <1>1, TransportInvariant, PTL

(* A step of the connection is a step of the channel, or none of it.       *)
ChannelStep == [Pipe!ChannelNext]_(Pipe!channelVars)

LEMMA ChannelStays ==
  ASSUME accepted' = accepted, handled' = handled, Broken => Broken'
  PROVE  ChannelStep
<1>1. CASE Broken' <=> Broken
  <2>1. (~Broken') = (~Broken)
    BY <1>1
  <2>2. UNCHANGED Pipe!channelVars
    BY <2>1 DEF Pipe!channelVars
  <2>3. QED BY <2>2 DEF ChannelStep
<1>2. CASE ~Broken /\ Broken'
  <2>1. ~Broken /\ (~Broken') = FALSE
    BY <1>2
  <2>2. Pipe!Break
    BY <2>1 DEF Pipe!Break
  <2>3. QED BY <2>2 DEF ChannelStep, Pipe!ChannelNext
<1>3. QED BY <1>1, <1>2

LEMMA ChannelAccepts ==
  ASSUME accepted' = accepted + 1, handled' = handled, Broken' <=> Broken
  PROVE  ChannelStep
<1>1. (~Broken') = (~Broken)
  OBVIOUS
<1>2. Pipe!Accept
  BY <1>1 DEF Pipe!Accept
<1>3. QED BY <1>2 DEF ChannelStep, Pipe!ChannelNext

LEMMA ChannelDelivers ==
  ASSUME accepted' = accepted, handled < accepted, handled' = handled + 1, Broken' <=> Broken
  PROVE  ChannelStep
<1>1. (~Broken') = (~Broken)
  OBVIOUS
<1>2. Pipe!Deliver
  BY <1>1 DEF Pipe!Deliver
<1>3. QED BY <1>2 DEF ChannelStep, Pipe!ChannelNext

(* What has broken stays broken.                                           *)
LEMMA StaysBroken ==
  ASSUME failed # 0 => failed' # 0, error # 0 => error' # 0,
         stream = "ended" => stream' = "ended",
         link \in {"closing", "closed", "error"} => link' \in {"closing", "closed", "error"}
  PROVE  Broken => Broken'
BY DEF Broken

LEMMA ConnectionStep == ASSUME TransportInv, [TransportNext]_transportVars PROVE ChannelStep
<1>1. SocketTypeOK
  BY DEF TransportInv
<1>2. CASE Send
  <2>1. /\ UNCHANGED <<link, stream, error, handled>>
        /\ \/ accepted' = accepted + 1 /\ failed' = failed
           \/ accepted' = accepted /\ failed' = -2
    BY <1>2 DEF Send, receiverVars
  <2>2. CASE accepted' = accepted + 1 /\ failed' = failed
    <3>1. Broken' <=> Broken
      BY <2>1, <2>2 DEF Broken
    <3>2. QED BY <2>1, <2>2, <3>1, ChannelAccepts
  <2>3. CASE accepted' = accepted /\ failed' = -2
    <3>1. Broken'
      BY <2>3 DEF Broken
    <3>2. QED BY <2>1, <2>3, <3>1, ChannelStays
  <2>4. QED BY <2>1, <2>2, <2>3
<1>3. CASE RunSend \/ WriteOut \/ EndSend
  <2>1. /\ UNCHANGED <<stream, accepted, error, handled>>
        /\ failed' = failed \/ failed' = -3
    BY <1>3 DEF RunSend, WriteOut, EndSend, receiverVars
  <2>2. PICK r : NetOut(r)
    BY <1>3 DEF RunSend, WriteOut, EndSend
  <2>3. link \in {"closing", "closed", "error"} => link' \in {"closing", "closed", "error"}
    BY <2>2 DEF NetOut
  <2>4. QED BY <2>1, <2>3, StaysBroken, ChannelStays
<1>4. CASE Kill \/ StreamEnds
  <2>1. /\ UNCHANGED <<accepted, failed, error, handled>>
        /\ stream = "ended" => stream' = "ended"
        /\ link' = link \/ link' \in {"closing", "closed"}
    BY <1>4 DEF Kill, StreamEnds, senderVars, receiverVars
  <2>2. QED BY <2>1, StaysBroken, ChannelStays
<1>5. CASE RunReceive \/ EndReceive
  <2>1. /\ UNCHANGED <<accepted, failed, link, stream, handled>>
        /\ error # 0 => error' = error
    BY <1>5 DEF RunReceive, EndReceive, senderVars
  <2>2. QED BY <2>1, StaysBroken, ChannelStays
<1>6. CASE ParseIn
  <2>1. /\ handled + 1 \in 1 .. accepted
        /\ UNCHANGED <<accepted, senderVars, stream, error>>
        /\ handled' = handled + 1 \/ handled' = handled
    BY <1>6, ParseIs DEF Parsed
  <2>2. Broken' <=> Broken
    BY <2>1 DEF Broken, senderVars
  <2>3. accepted' = accepted /\ handled < accepted
    BY <1>1, <2>1, RingIs DEF SocketTypeOK
  <2>4. QED BY <2>1, <2>2, <2>3, ChannelDelivers, ChannelStays
<1>7. CASE UNCHANGED transportVars
  <2>1. UNCHANGED <<accepted, handled, failed, error, stream, link>>
    BY <1>7 DEF transportVars, senderVars, receiverVars
  <2>2. QED BY <2>1, StaysBroken, ChannelStays
<1>8. QED BY <1>2, <1>3, <1>4, <1>5, <1>6, <1>7 DEF TransportNext, SenderRuns, ReceiverRuns

(* Through queue, rings, partial writes and reads, and the parser, the     *)
(* connection delivers the accepted messages whole, once each and in order,*)
(* and once broken it stays broken: the safety part of ImplementsChannel.  *)
THEOREM ConnectionIsChannel ==
  TransportSpec => Pipe!ChannelInit /\ [][Pipe!ChannelNext]_(Pipe!channelVars)
<1>1. TransportInit => Pipe!ChannelInit
  <2> SUFFICES ASSUME TransportInit PROVE Pipe!ChannelInit
    OBVIOUS
  <2>1. /\ accepted = 0 /\ handled = 0 /\ link = "resolving"
        /\ failed = 0 /\ error = 0 /\ stream = "open"
    BY DEF TransportInit
  <2>2. (~Broken) = TRUE
    BY <2>1 DEF Broken
  <2>3. QED BY <2>1, <2>2 DEF Pipe!ChannelInit
<1>2. TransportInv /\ [TransportNext]_transportVars => [Pipe!ChannelNext]_(Pipe!channelVars)
  BY ConnectionStep DEF ChannelStep
<1>3. QED BY <1>1, <1>2, TransportInvariant, PTL DEF TransportSpec
-----------------------------------------------------------------------------
(***************************************************************************)
(* The list of a session has what the last announcement of a time said     *)
(* (PlaysTheLatest), for any lengths, limits and number of announcements.  *)
(*                                                                         *)
(* A piece is cut only by the announcement of another recording, which then*)
(* is beside what is left of it.  So beside the times of a piece something *)
(* else was announced last (EdgesIn), and when what is left is too short to*)
(* be kept, the times it had are a run no longer than that: a sliver.      *)
(*                                                                         *)
(* What is behind a cut has the guid the piece had, or that of the piece   *)
(* that cut it, if that one began in it as well (Named).                   *)
(***************************************************************************)
Pieces == [guid : Nat \ {0}, start : Nat, length : Nat, offset : Nat]
Among(s) == {s[i] : i \in 1 .. Len(s)}
Has(p, t) == p.start <= t /\ t < Stop(p)

Arranged(s) ==
  /\ s \in Seq(Pieces)
  /\ \A i \in 1 .. Len(s) : s[i].length >= MinLength
  /\ \A i, j \in 1 .. Len(s) : i < j => Stop(s[i]) <= s[j].start

(* What a new piece, of recording guid, leaves of another.                 *)
Named(p, st, guid) == IF p.start <= st THEN guid ELSE p.guid
Remains(p, st, end, guid) ==
  IF Stop(p) <= st \/ end <= p.start THEN {p}
  ELSE Among(Before(p, st)) \union Among(Behind(p, end, Named(p, st, guid)))

LEMMA PieceIs ==
  ASSUME NEW p \in Pieces
  PROVE  /\ p.guid \in Nat \ {0} /\ p.start \in Nat /\ p.length \in Nat /\ p.offset \in Nat
         /\ Stop(p) = p.start + p.length /\ Stop(p) \in Nat
  BY DEF Pieces, Stop

LEMMA OnePiece ==
  ASSUME NEW p \in Pieces, p.length >= MinLength
  PROVE  Arranged(<<p>>) /\ Among(<<p>>) = {p} /\ Len(<<p>>) = 1
  BY DEF Arranged, Among

LEMMA NoPiece == Arranged(<<>>) /\ Among(<<>>) = {} /\ Len(<<>>) = 0
<1>1. <<>> \in Seq(Pieces) /\ Len(<<>>) = 0
  OBVIOUS
<1>2. QED BY <1>1 DEF Arranged, Among

LEMMA Joining ==
  ASSUME NEW a, NEW b, Arranged(a), Arranged(b),
         \A p \in Among(a), q \in Among(b) : Stop(p) <= q.start
  PROVE  Arranged(a \o b) /\ Among(a \o b) = Among(a) \union Among(b) /\ Len(a \o b) = Len(a) + Len(b)
<1> DEFINE n == Len(a)
           s == a \o b
<1>1. a \in Seq(Pieces) /\ b \in Seq(Pieces) /\ n \in Nat /\ Len(b) \in Nat
  BY DEF Arranged
<1>2. /\ s \in Seq(Pieces) /\ Len(s) = n + Len(b)
      /\ \A i \in 1 .. Len(s) : s[i] = IF i <= n THEN a[i] ELSE b[i - n]
  BY <1>1, ConcatProperties
<1> HIDE DEF s
<1>3. ASSUME NEW i \in 1 .. Len(s)
      PROVE  \/ i \in 1 .. n /\ s[i] = a[i] /\ s[i] \in Among(a)
             \/ i - n \in 1 .. Len(b) /\ i > n /\ s[i] = b[i - n] /\ s[i] \in Among(b)
  BY <1>1, <1>2 DEF Among
<1>4. Among(s) = Among(a) \union Among(b)
  <2>1. ASSUME NEW p \in Among(s) PROVE p \in Among(a) \union Among(b)
    BY <1>3 DEF Among
  <2>2. ASSUME NEW p \in Among(a) PROVE p \in Among(s)
    <3>1. PICK i \in 1 .. n : p = a[i]
      BY DEF Among
    <3>2. i \in 1 .. Len(s) /\ s[i] = p
      BY <1>1, <1>2, <3>1
    <3>3. QED BY <3>2 DEF Among
  <2>3. ASSUME NEW p \in Among(b) PROVE p \in Among(s)
    <3>1. PICK i \in 1 .. Len(b) : p = b[i]
      BY DEF Among
    <3>2. i + n \in 1 .. Len(s) /\ ~(i + n <= n) /\ i + n - n = i
      BY <1>1, <1>2, <3>1
    <3>3. s[i + n] = p
      BY <1>2, <3>1, <3>2
    <3>4. QED BY <3>2, <3>3 DEF Among
  <2>4. QED BY <2>1, <2>2, <2>3
<1>5. ASSUME NEW i \in 1 .. Len(s) PROVE s[i].length >= MinLength
  BY <1>3 DEF Arranged
<1>6. ASSUME NEW i \in 1 .. Len(s), NEW j \in 1 .. Len(s), i < j PROVE Stop(s[i]) <= s[j].start
  <2>1. CASE s[i] \in Among(a) /\ s[j] \in Among(b)
    BY <2>1
  <2>2. CASE i \in 1 .. n /\ s[i] = a[i] /\ j \in 1 .. n /\ s[j] = a[j]
    BY <1>6, <2>2 DEF Arranged
  <2>3. CASE /\ i - n \in 1 .. Len(b) /\ s[i] = b[i - n]
             /\ j - n \in 1 .. Len(b) /\ s[j] = b[j - n]
    <3>1. i - n < j - n
      BY <1>1, <1>6
    <3>2. QED BY <2>3, <3>1 DEF Arranged
  <2>4. CASE i > n /\ j \in 1 .. n
    BY <1>1, <1>6, <2>4
  <2>5. QED BY <1>3, <2>1, <2>2, <2>3, <2>4
<1>7. QED BY <1>2, <1>4, <1>5, <1>6 DEF Arranged, s

LEMMA PartOf ==
  ASSUME NEW s, Arranged(s), NEW m \in 1 .. Len(s) + 1, NEW n \in 0 .. Len(s)
  PROVE  Arranged(SubSeq(s, m, n)) /\ Among(SubSeq(s, m, n)) = {s[i] : i \in m .. n}
<1> DEFINE r == SubSeq(s, m, n)
<1>1. s \in Seq(Pieces) /\ Len(s) \in Nat /\ \A i \in m .. n : s[i] \in Pieces
  <2>1. s \in Seq(Pieces) /\ Len(s) \in Nat
    BY DEF Arranged
  <2>2. QED BY <2>1, ElementOfSeq
<1>2. /\ r \in Seq(Pieces) /\ Len(r) = (IF m <= n THEN n - m + 1 ELSE 0)
      /\ \A i \in 1 .. n - m + 1 : r[i] = s[m + i - 1]
  BY <1>1, SubSeqProperties
<1> HIDE DEF r
<1>3. ASSUME NEW i \in 1 .. Len(r)
      PROVE  m + i - 1 \in m .. n /\ m + i - 1 \in 1 .. Len(s) /\ r[i] = s[m + i - 1]
  <2>1. i \in 1 .. n - m + 1
    BY <1>1, <1>2
  <2>2. r[i] = s[m + i - 1]
    BY <1>2, <2>1
  <2>3. m + i - 1 \in m .. n /\ m + i - 1 \in 1 .. Len(s)
    BY <1>1, <2>1
  <2>4. QED BY <2>2, <2>3
<1>4. Among(r) = {s[i] : i \in m .. n}
  <2>1. ASSUME NEW i \in m .. n PROVE s[i] \in Among(r)
    <3>1. i - m + 1 \in 1 .. Len(r) /\ m + (i - m + 1) - 1 = i
      BY <1>1, <1>2
    <3>2. r[i - m + 1] = s[i]
      BY <1>3, <3>1
    <3>3. QED BY <3>1, <3>2 DEF Among
  <2>2. ASSUME NEW p \in Among(r) PROVE p \in {s[i] : i \in m .. n}
    <3>1. PICK i \in 1 .. Len(r) : p = r[i]
      BY DEF Among
    <3>2. QED BY <1>3, <3>1
  <2>3. ASSUME NEW p \in {s[i] : i \in m .. n} PROVE p \in Among(r)
    BY <2>1
  <2>4. QED BY <2>2, <2>3
<1>5. \A i \in 1 .. Len(r) : r[i].length >= MinLength
  BY <1>3 DEF Arranged
<1>6. ASSUME NEW i \in 1 .. Len(r), NEW j \in 1 .. Len(r), i < j PROVE Stop(r[i]) <= r[j].start
  <2>1. m + i - 1 < m + j - 1
    BY <1>6
  <2>2. QED BY <1>3, <2>1 DEF Arranged
<1>7. QED BY <1>2, <1>4, <1>5, <1>6 DEF Arranged, r

(* The two remainders of a piece that is cut.                              *)
LEMMA BeforeIs ==
  ASSUME NEW p \in Pieces, NEW st \in Nat
  PROVE  /\ Arranged(Before(p, st)) /\ Len(Before(p, st)) \in {0, 1}
         /\ \A q \in Among(Before(p, st)) :
              /\ q.guid = p.guid /\ q.start = p.start /\ q.offset = p.offset /\ Stop(q) = st
              /\ q.start < st /\ q \in Pieces
         /\ Before(p, st) = <<>> => st - p.start < MinLength
         /\ Before(p, st) # <<>> => \E q \in Among(Before(p, st)) : TRUE
<1>1. MinLength \in Nat \ {0}
  BY SessionListAssumption
<1>2. p.start \in Nat /\ p.length \in Nat
  BY PieceIs
<1>3. CASE st - p.start < MinLength
  BY <1>3, NoPiece DEF Before
<1>4. CASE ~(st - p.start < MinLength)
  <2> DEFINE n == st - p.start
             q == [p EXCEPT !.length = n]
  <2>1. Before(p, st) = <<q>>
    BY <1>4 DEF Before
  <2>2. n \in Nat /\ n >= MinLength /\ n > 0
    BY <1>1, <1>2, <1>4
  <2> HIDE DEF n
  <2>3. /\ q \in Pieces /\ q.guid = p.guid /\ q.start = p.start /\ q.offset = p.offset
        /\ q.length = n
    BY <2>2 DEF Pieces
  <2> HIDE DEF q
  <2>4. Stop(q) = st /\ q.start < st
    BY <1>2, <2>2, <2>3, PieceIs DEF n
  <2>5. Arranged(<<q>>) /\ Among(<<q>>) = {q} /\ Len(<<q>>) = 1
    BY <2>2, <2>3, OnePiece
  <2>6. <<q>> # <<>>
    BY <2>5, NoPiece
  <2>7. QED BY <2>1, <2>3, <2>4, <2>5, <2>6
<1>5. QED BY <1>3, <1>4

LEMMA BehindIs ==
  ASSUME NEW p \in Pieces, NEW end \in Nat, p.start <= end, NEW guid \in Nat \ {0}
  PROVE  /\ Arranged(Behind(p, end, guid)) /\ Len(Behind(p, end, guid)) \in {0, 1}
         /\ \A q \in Among(Behind(p, end, guid)) :
              /\ q.guid = guid /\ q.start = end /\ Stop(q) = Stop(p) /\ end + MinLength <= Stop(p)
              /\ q.offset = OffsetAt(p, end) /\ q \in Pieces
         /\ Behind(p, end, guid) = <<>> => Stop(p) - end < MinLength
         /\ Behind(p, end, guid) # <<>> => \E q \in Among(Behind(p, end, guid)) : TRUE
<1>1. MinLength \in Nat \ {0}
  BY SessionListAssumption
<1>2. p.start \in Nat /\ p.length \in Nat /\ p.offset \in Nat /\ Stop(p) \in Nat
  BY PieceIs
<1>3. CASE Stop(p) - end < MinLength
  BY <1>3, NoPiece DEF Behind
<1>4. CASE ~(Stop(p) - end < MinLength)
  <2> DEFINE n == Stop(p) - end
             o == OffsetAt(p, end)
             q == [guid |-> guid, start |-> end, length |-> n, offset |-> o]
  <2>1. Behind(p, end, guid) = <<q>>
    BY <1>4 DEF Behind
  <2>2. n \in Nat /\ n >= MinLength /\ n > 0 /\ o \in Nat
    BY <1>1, <1>2, <1>4 DEF OffsetAt
  <2>3. q \in Pieces /\ q.guid = guid /\ q.start = end /\ q.offset = o /\ q.length = n
    BY <1>2, <2>2 DEF Pieces
  <2>4. end + n = Stop(p) /\ end + MinLength <= Stop(p)
    BY <1>1, <1>2, <1>4
  <2> HIDE DEF n, o, q
  <2>5. Stop(q) = Stop(p)
    BY <2>3, <2>4 DEF Stop
  <2>6. Arranged(<<q>>) /\ Among(<<q>>) = {q} /\ Len(<<q>>) = 1
    BY <2>2, <2>3, OnePiece
  <2>7. <<q>> # <<>>
    BY <2>6, NoPiece
  <2>8. QED BY <2>1, <2>3, <2>4, <2>5, <2>6, <2>7 DEF o
<1>5. QED BY <1>3, <1>4
-----------------------------------------------------------------------------
(* A new piece goes behind those that begin by then.                       *)
LEMMA PlaceIs ==
  ASSUME NEW s, Arranged(s), NEW st \in Nat
  PROVE  /\ PlaceOf(s, st) \in 0 .. Len(s)
         /\ \A i \in 1 .. PlaceOf(s, st) : s[i].start <= st
         /\ \A i \in 1 .. Len(s) : i > PlaceOf(s, st) => st < s[i].start
<1> DEFINE T == {n \in 0 .. Len(s) : \A i \in 1 .. Len(s) : i > n => st < s[i].start}
           Fits(n) == /\ \A i \in 1 .. n : s[i].start <= st
                      /\ n < Len(s) => st < s[n + 1].start
<1>1. Len(s) \in Nat
  BY DEF Arranged
<1>2. ASSUME NEW i \in 1 .. Len(s)
      PROVE  s[i].start \in Nat /\ s[i].length \in Nat /\ Stop(s[i]) = s[i].start + s[i].length
  <2>1. s[i] \in Pieces
    BY <1>1, ElementOfSeq DEF Arranged
  <2>2. QED BY <2>1, PieceIs
<1>3. ASSUME NEW i \in 1 .. Len(s), NEW j \in 1 .. Len(s), i < j PROVE s[i].start <= s[j].start
  <2>1. Stop(s[i]) <= s[j].start
    BY <1>3 DEF Arranged
  <2>2. QED BY <1>2, <2>1
<1>4. T # {} /\ T \subseteq Nat
  <2>1. Len(s) \in T
    BY <1>1
  <2>2. QED BY <1>1, <2>1
<1>5. PICK n \in T : \A m \in T : n <= m
  BY <1>4, LeastOfNat
<1>6. ASSUME NEW i \in 1 .. n PROVE s[i].start <= st
  <2>1. n - 1 \notin T /\ n - 1 \in 0 .. Len(s) /\ n \in 1 .. Len(s)
    <3>1. n - 1 \in 0 .. Len(s) /\ n \in 1 .. Len(s) /\ ~(n <= n - 1)
      BY <1>1, <1>5
    <3>2. n - 1 \notin T
      BY <1>5, <3>1
    <3>3. QED BY <3>1, <3>2
  <2>2. PICK j \in 1 .. Len(s) : j > n - 1 /\ ~(st < s[j].start)
    BY <2>1
  <2>3. j = n
    <3>1. ~(j > n)
      BY <1>5, <2>2
    <3>2. QED BY <1>1, <2>1, <2>2, <3>1
  <2>4. s[n].start <= st
    BY <1>2, <2>1, <2>2, <2>3
  <2>5. i \in 1 .. Len(s) /\ (i = n \/ i < n)
    BY <2>1
  <2>6. CASE i < n
    <3>1. s[i].start <= s[n].start
      BY <1>3, <2>1, <2>5, <2>6
    <3>2. QED BY <1>2, <2>1, <2>4, <2>5, <3>1
  <2>7. QED BY <2>4, <2>5, <2>6
<1>7. Fits(n) /\ n \in 0 .. Len(s)
  <2>1. n < Len(s) => n + 1 \in 1 .. Len(s) /\ n + 1 > n
    BY <1>1, <1>5
  <2>2. n < Len(s) => st < s[n + 1].start
    BY <1>5, <2>1
  <2>3. QED BY <1>5, <1>6, <2>2
<1>8. Fits(PlaceOf(s, st)) /\ PlaceOf(s, st) \in 0 .. Len(s)
  <2> DEFINE c == CHOOSE m \in 0 .. Len(s) : Fits(m)
  <2>1. PlaceOf(s, st) = c
    BY DEF PlaceOf
  <2> HIDE DEF Fits
  <2>2. Fits(c) /\ c \in 0 .. Len(s)
    BY <1>7
  <2>3. QED BY <2>1, <2>2
<1>9. ASSUME NEW i \in 1 .. Len(s), i > PlaceOf(s, st) PROVE st < s[i].start
  <2> DEFINE c == PlaceOf(s, st)
  <2>1. c \in 0 .. Len(s) /\ c + 1 \in 1 .. Len(s) /\ (i = c + 1 \/ c + 1 < i)
    BY <1>1, <1>8, <1>9
  <2>2. st < s[c + 1].start
    <3>1. c < Len(s)
      BY <1>1, <2>1
    <3>2. QED BY <1>8, <3>1
  <2> HIDE DEF c
  <2>3. CASE c + 1 < i
    <3>1. s[c + 1].start <= s[i].start
      BY <1>3, <2>1, <2>3
    <3>2. QED BY <1>2, <2>1, <2>2, <3>1
  <2>4. QED BY <2>1, <2>2, <2>3
<1>10. QED BY <1>8, <1>9

(* What a new piece covers goes, up to the first it does not.              *)
LEMMA GoneIs ==
  ASSUME NEW s, Arranged(s), NEW end \in Nat
  PROVE  /\ Gone(s, end) \in 0 .. Len(s)
         /\ \A i \in 1 .. Gone(s, end) : s[i].start < end /\ Stop(s[i]) - end < MinLength
         /\ Gone(s, end) < Len(s) =>
              LET p == s[Gone(s, end) + 1] IN ~(p.start < end /\ Stop(p) - end < MinLength)
<1> DEFINE D == Covered(s, end)
           T == {n \in 0 .. Len(s) : n + 1 \notin D}
           Fits(n) == 1 .. n \subseteq D /\ n + 1 \notin D
<1>1. Len(s) \in Nat /\ DOMAIN s = 1 .. Len(s)
  BY LenProperties DEF Arranged
<1>2. D \subseteq 1 .. Len(s)
  BY <1>1 DEF Covered
<1>3. T # {} /\ T \subseteq Nat
  <2>1. Len(s) \in T
    BY <1>1, <1>2
  <2>2. QED BY <1>1, <2>1
<1>4. PICK n \in T : \A m \in T : n <= m
  BY <1>3, LeastOfNat
<1>5. ASSUME NEW i \in 1 .. n PROVE i \in D
  <2>1. i - 1 \in 0 .. Len(s) /\ ~(n <= i - 1) /\ i - 1 + 1 = i
    BY <1>1, <1>4
  <2>2. i - 1 \notin T
    BY <1>4, <2>1
  <2>3. QED BY <2>1, <2>2
<1>6. Fits(n) /\ n \in 0 .. Len(s)
  BY <1>4, <1>5
<1>7. Fits(Gone(s, end)) /\ Gone(s, end) \in 0 .. Len(s)
  <2> DEFINE c == CHOOSE m \in 0 .. Len(s) : Fits(m)
  <2>1. Gone(s, end) = c
    BY DEF Gone
  <2> HIDE DEF Fits
  <2>2. Fits(c) /\ c \in 0 .. Len(s)
    BY <1>6
  <2>3. QED BY <2>1, <2>2
<1>8. ASSUME Gone(s, end) < Len(s) PROVE Gone(s, end) + 1 \in DOMAIN s
  BY <1>1, <1>7, <1>8
<1>9. \A i \in 1 .. Gone(s, end) : s[i].start < end /\ Stop(s[i]) - end < MinLength
  BY <1>7 DEF Covered
<1>10. QED BY <1>7, <1>8, <1>9 DEF Covered

LEMMA Apart ==
  ASSUME NEW s, Arranged(s), NEW i \in 1 .. Len(s)
  PROVE  /\ s[i] \in Pieces /\ s[i] \in Among(s) /\ s[i].start \in Nat /\ Stop(s[i]) \in Nat
         /\ s[i].start < Stop(s[i]) /\ s[i].length >= MinLength
         /\ \A j \in 1 .. Len(s) : i < j => Stop(s[i]) <= s[j].start
<1>1. s[i] \in Pieces
  BY ElementOfSeq DEF Arranged
<1>2. s[i].length >= MinLength
  BY DEF Arranged
<1>3. s[i].start < Stop(s[i])
  <2> DEFINE a == s[i]
             b == a.start
             l == a.length
  <2>1. b \in Nat /\ l \in Nat /\ Stop(a) = b + l
    BY <1>1, PieceIs
  <2>2. MinLength \in Nat \ {0} /\ l >= MinLength
    BY <1>2, SessionListAssumption
  <2> HIDE DEF b, l
  <2>3. b < b + l
    BY <2>1, <2>2
  <2>4. QED BY <2>1, <2>3 DEF b
<1>4. QED BY <1>1, <1>2, <1>3, PieceIs DEF Arranged, Among
-----------------------------------------------------------------------------
(* The pieces t are what a new piece leaves of the pieces s.               *)
Leaves(s, st, end, guid, t) ==
  /\ \A q \in t : \E p \in s : q \in Remains(p, st, end, guid)
  /\ \A p \in s : Remains(p, st, end, guid) \subseteq t

LEMMA LeavesBoth ==
  ASSUME NEW a, NEW a2, NEW b, NEW b2, NEW st, NEW end, NEW guid,
         Leaves(a, st, end, guid, a2), Leaves(b, st, end, guid, b2)
  PROVE  Leaves(a \union b, st, end, guid, a2 \union b2)
  BY DEF Leaves

LEMMA LeavesSame ==
  ASSUME NEW a, NEW st, NEW end, NEW guid, \A p \in a : Stop(p) <= st \/ end <= p.start
  PROVE  Leaves(a, st, end, guid, a)
<1>1. \A p \in a : Remains(p, st, end, guid) = {p}
  BY DEF Remains
<1>2. QED BY <1>1 DEF Leaves

LEMMA RemainsIs ==
  ASSUME NEW p \in Pieces, NEW st \in Nat, NEW end \in Nat, st < end,
         st < Stop(p), p.start < end, NEW guid
  PROVE  /\ Remains(p, st, end, guid)
               = Among(Before(p, st)) \union Among(Behind(p, end, Named(p, st, guid)))
         /\ st <= p.start => Among(Before(p, st)) = {}
         /\ st < p.start => Named(p, st, guid) = p.guid
         /\ p.start <= st => Named(p, st, guid) = guid
         /\ Stop(p) - end < MinLength => Behind(p, end, Named(p, st, guid)) = <<>>
<1>1. p.start \in Nat /\ Stop(p) \in Nat /\ MinLength \in Nat \ {0}
  BY PieceIs, SessionListAssumption
<1>2. ~(Stop(p) <= st \/ end <= p.start)
  BY <1>1
<1>3. ASSUME st <= p.start PROVE Among(Before(p, st)) = {}
  <2>1. st - p.start < MinLength
    BY <1>1, <1>3
  <2>2. Before(p, st) = <<>>
    BY <2>1 DEF Before
  <2>3. QED BY <2>2, NoPiece
<1>4. st < p.start => ~(p.start <= st)
  BY <1>1
<1>5. QED BY <1>2, <1>3, <1>4 DEF Remains, Behind, Named

LEMMA TailIs ==
  ASSUME NEW r, Arranged(r), r # <<>>
  PROVE  /\ Len(r) \in Nat \ {0} /\ Head(r) = r[1] /\ Arranged(Tail(r))
         /\ Among(Tail(r)) = {r[i] : i \in 2 .. Len(r)}
         /\ Among(r) = {r[1]} \union Among(Tail(r))
<1>1. r \in Seq(Pieces) /\ Len(r) \in Nat \ {0} /\ Head(r) = r[1]
  BY EmptySeq, LenProperties DEF Arranged
<1>2. /\ Tail(r) \in Seq(Pieces) /\ Len(Tail(r)) = Len(r) - 1
      /\ \A i \in 1 .. Len(Tail(r)) : Tail(r)[i] = r[i + 1]
  BY <1>1, HeadTailProperties
<1> DEFINE t == Tail(r)
<1> HIDE DEF t
<1>3. ASSUME NEW i \in 1 .. Len(t) PROVE i + 1 \in 2 .. Len(r) /\ i + 1 \in 1 .. Len(r) /\ t[i] = r[i + 1]
  BY <1>1, <1>2 DEF t
<1>4. ASSUME NEW p \in Among(t) PROVE p \in {r[i] : i \in 2 .. Len(r)}
  <2>1. PICK i \in 1 .. Len(t) : p = t[i]
    BY DEF Among
  <2>2. QED BY <1>3, <2>1
<1>5. ASSUME NEW i \in 2 .. Len(r) PROVE r[i] \in Among(t)
  <2>1. i - 1 \in 1 .. Len(t) /\ (i - 1) + 1 = i
    BY <1>1, <1>2 DEF t
  <2>2. t[i - 1] = r[i]
    BY <1>3, <2>1
  <2>3. QED BY <2>1, <2>2 DEF Among
<1>6. Among(t) = {r[i] : i \in 2 .. Len(r)}
  <2>1. ASSUME NEW p \in {r[i] : i \in 2 .. Len(r)} PROVE p \in Among(t)
    BY <1>5
  <2>2. QED BY <1>4, <2>1
<1>7. Among(r) = {r[1]} \union Among(t)
  <2>1. ASSUME NEW p \in Among(r) PROVE p \in {r[1]} \union Among(t)
    <3>1. PICK i \in 1 .. Len(r) : p = r[i]
      BY DEF Among
    <3>2. i = 1 \/ i \in 2 .. Len(r)
      BY <1>1
    <3>3. QED BY <1>5, <3>1, <3>2
  <2>2. ASSUME NEW p \in {r[1]} \union Among(t) PROVE p \in Among(r)
    <3>1. CASE p = r[1]
      <4>1. 1 \in 1 .. Len(r)
        BY <1>1
      <4>2. QED BY <3>1, <4>1 DEF Among
    <3>2. CASE p \in Among(t)
      <4>1. PICK i \in 2 .. Len(r) : p = r[i]
        BY <1>4, <3>2
      <4>2. i \in 1 .. Len(r)
        BY <1>1
      <4>3. QED BY <4>1, <4>2 DEF Among
    <3>3. QED BY <2>2, <3>1, <3>2
  <2>3. QED BY <2>1, <2>2
<1>8. Arranged(t)
  <2>1. \A i \in 1 .. Len(t) : t[i].length >= MinLength
    BY <1>3 DEF Arranged
  <2>2. ASSUME NEW i \in 1 .. Len(t), NEW j \in 1 .. Len(t), i < j PROVE Stop(t[i]) <= t[j].start
    <3>1. i + 1 < j + 1
      BY <1>1, <1>2, <2>2 DEF t
    <3>2. QED BY <1>3, <3>1 DEF Arranged
  <2>3. t \in Seq(Pieces)
    BY <1>2 DEF t
  <2>4. QED BY <2>1, <2>2, <2>3 DEF Arranged
<1>9. QED BY <1>1, <1>6, <1>7, <1>8 DEF t

(* What is left of the pieces behind the new one.                          *)
LEMMA RestOfThose ==
  ASSUME NEW r, Arranged(r), r # <<>>, NEW st \in Nat, NEW end \in Nat, st < end,
         NEW guid, \A p \in Among(r) : st < p.start,
         ~(r[1].start < end /\ Stop(r[1]) - end < MinLength)
  PROVE  LET l == IF Head(r).start < end THEN Behind(Head(r), end, Head(r).guid) \o Tail(r) ELSE r
         IN  /\ Arranged(l) /\ \A q \in Among(l) : end <= q.start
             /\ Leaves(Among(r), st, end, guid, Among(l))
<1> DEFINE h == r[1]
           t == Tail(r)
<1>1. /\ Len(r) \in Nat \ {0} /\ Head(r) = h /\ Arranged(t)
      /\ Among(t) = {r[i] : i \in 2 .. Len(r)} /\ Among(r) = {h} \union Among(t)
  BY TailIs
<1>2. MinLength \in Nat \ {0}
  BY SessionListAssumption
<1>3. 1 \in 1 .. Len(r)
  BY <1>1
<1>4. h \in Pieces /\ h \in Among(r) /\ h.start \in Nat /\ Stop(h) \in Nat /\ h.start < Stop(h) /\ st < h.start
      /\ h.guid \in Nat \ {0}
  BY <1>3, Apart, PieceIs
<1>5. ASSUME NEW q \in Among(t) PROVE Stop(h) <= q.start /\ q.start \in Nat
  <2>1. PICK i \in 2 .. Len(r) : q = r[i]
    BY <1>1
  <2>2. i \in 1 .. Len(r) /\ 1 < i
    BY <1>1
  <2>3. QED BY <1>3, <2>1, <2>2, Apart
<1> HIDE DEF h, t
<1>6. CASE h.start < end
  <2> DEFINE b == Behind(h, end, h.guid)
  <2>1. end <= Stop(h) /\ h.start <= end
    BY <1>2, <1>4, <1>6 DEF h
  <2>2. Arranged(b) /\ \A q \in Among(b) : q.start = end /\ Stop(q) = Stop(h)
    BY <1>4, <2>1, BehindIs
  <2>3. Remains(h, st, end, guid) = Among(Before(h, st)) \union Among(b) /\ Among(Before(h, st)) = {}
    <3>1. st < Stop(h) /\ st <= h.start
      BY <1>4
    <3>2. QED BY <1>4, <1>6, <3>1, RemainsIs
  <2> HIDE DEF b
  <2>4. Leaves({h}, st, end, guid, Among(b))
    BY <2>3 DEF Leaves
  <2>5. Leaves(Among(t), st, end, guid, Among(t))
    <3>1. \A q \in Among(t) : end <= q.start
      BY <1>4, <1>5, <2>1
    <3>2. QED BY <3>1, LeavesSame
  <2>6. Arranged(b \o t) /\ Among(b \o t) = Among(b) \union Among(t)
    <3>1. \A p \in Among(b), q \in Among(t) : Stop(p) <= q.start
      BY <1>5, <2>2
    <3>2. QED BY <1>1, <2>2, <3>1, Joining
  <2>7. \A q \in Among(b \o t) : end <= q.start
    BY <1>4, <1>5, <2>1, <2>2, <2>6
  <2>8. Leaves(Among(r), st, end, guid, Among(b \o t))
    BY <1>1, <2>4, <2>5, <2>6, LeavesBoth
  <2>9. QED BY <1>1, <1>6, <2>6, <2>7, <2>8 DEF b, t
<1>7. CASE ~(h.start < end)
  <2>1. \A q \in Among(r) : end <= q.start
    BY <1>1, <1>4, <1>5, <1>7
  <2>2. Leaves(Among(r), st, end, guid, Among(r))
    BY <2>1, LeavesSame
  <2>3. QED BY <1>1, <1>7, <2>1, <2>2
<1>8. QED BY <1>6, <1>7

LEMMA LeftOverIs ==
  ASSUME NEW s, Arranged(s), NEW st \in Nat, NEW end \in Nat, st < end, NEW guid,
         \A p \in Among(s) : st < p.start
  PROVE  /\ Arranged(LeftOver(s, end))
         /\ \A q \in Among(LeftOver(s, end)) : end <= q.start
         /\ Leaves(Among(s), st, end, guid, Among(LeftOver(s, end)))
<1> DEFINE g == Gone(s, end)
           r == SubSeq(s, g + 1, Len(s))
           G == {s[i] : i \in 1 .. g}
<1>1. Len(s) \in Nat /\ s \in Seq(Pieces)
  BY DEF Arranged
<1>2. /\ g \in 0 .. Len(s)
      /\ \A i \in 1 .. g : s[i].start < end /\ Stop(s[i]) - end < MinLength
      /\ g < Len(s) => ~(s[g + 1].start < end /\ Stop(s[g + 1]) - end < MinLength)
  BY GoneIs
<1> HIDE DEF g
<1>3. g + 1 \in 1 .. Len(s) + 1 /\ Len(s) \in 0 .. Len(s)
  BY <1>1, <1>2
<1>4. Arranged(r) /\ Among(r) = {s[i] : i \in g + 1 .. Len(s)}
  BY <1>3, PartOf
<1>5. /\ Len(r) = Len(s) - g
      /\ g < Len(s) => r[1] = s[g + 1]
  <2>1. \A i \in g + 1 .. Len(s) : s[i] \in Pieces
    BY <1>1, <1>2, ElementOfSeq
  <2>2. /\ Len(r) = (IF g + 1 <= Len(s) THEN Len(s) - (g + 1) + 1 ELSE 0)
        /\ \A i \in 1 .. Len(s) - (g + 1) + 1 : r[i] = s[g + 1 + i - 1]
    BY <1>1, <1>3, <2>1, SubSeqProperties
  <2> HIDE DEF r
  <2>3. Len(r) = Len(s) - g
    BY <1>1, <1>2, <2>2
  <2>4. ASSUME g < Len(s) PROVE r[1] = s[g + 1]
    <3>1. 1 \in 1 .. Len(s) - (g + 1) + 1 /\ g + 1 + 1 - 1 = g + 1
      BY <1>1, <1>2, <2>4
    <3>2. QED BY <2>2, <3>1
  <2>5. QED BY <2>3, <2>4
<1>6. Among(s) = G \union Among(r)
  <2>1. ASSUME NEW p \in Among(s) PROVE p \in G \union Among(r)
    <3>1. PICK i \in 1 .. Len(s) : p = s[i]
      BY DEF Among
    <3>2. i \in 1 .. g \/ i \in g + 1 .. Len(s)
      BY <1>1, <1>2
    <3>3. QED BY <1>4, <3>1, <3>2
  <2>2. ASSUME NEW p \in G \union Among(r) PROVE p \in Among(s)
    <3>1. PICK i \in 1 .. g \union (g + 1 .. Len(s)) : p = s[i]
      BY <1>4
    <3>2. i \in 1 .. Len(s)
      BY <1>1, <1>2
    <3>3. QED BY <3>1, <3>2 DEF Among
  <2>3. QED BY <2>1, <2>2
<1>7. Leaves(G, st, end, guid, {})
  <2>1. ASSUME NEW i \in 1 .. g PROVE Remains(s[i], st, end, guid) = {}
    <3> DEFINE p == s[i]
    <3>1. i \in 1 .. Len(s)
      BY <1>1, <1>2
    <3>2. p \in Pieces /\ p \in Among(s) /\ p.start < Stop(p) /\ p.start \in Nat /\ Stop(p) \in Nat
      BY <3>1, Apart
    <3>3. p.start < end /\ Stop(p) - end < MinLength /\ st < p.start
      BY <1>2, <3>2
    <3> HIDE DEF p
    <3>4. st < Stop(p) /\ st <= p.start
      BY <3>2, <3>3
    <3>5. /\ Remains(p, st, end, guid)
               = Among(Before(p, st)) \union Among(Behind(p, end, Named(p, st, guid)))
          /\ Among(Before(p, st)) = {} /\ Behind(p, end, Named(p, st, guid)) = <<>>
      BY <3>2, <3>3, <3>4, RemainsIs
    <3>6. Remains(p, st, end, guid) = {}
      BY <3>5, NoPiece
    <3>7. QED BY <3>6 DEF p
  <2>2. QED BY <2>1 DEF Leaves
<1>8. CASE g < Len(s)
  <2>1. r # <<>>
    <3>1. Len(r) # 0
      BY <1>1, <1>2, <1>5, <1>8
    <3>2. QED BY <3>1, NoPiece
  <2> DEFINE l == IF Head(r).start < end THEN Behind(Head(r), end, Head(r).guid) \o Tail(r) ELSE r
  <2>2. LeftOver(s, end) = l
    BY <2>1 DEF LeftOver, g
  <2> HIDE DEF r
  <2>3. \A p \in Among(r) : st < p.start
    BY <1>6
  <2>4. ~(r[1].start < end /\ Stop(r[1]) - end < MinLength)
    BY <1>2, <1>5, <1>8
  <2>5. /\ Arranged(l) /\ \A q \in Among(l) : end <= q.start
        /\ Leaves(Among(r), st, end, guid, Among(l))
    BY <1>4, <2>1, <2>3, <2>4, RestOfThose
  <2> HIDE DEF l
  <2>6. Leaves(Among(s), st, end, guid, {} \union Among(l))
    BY <1>6, <1>7, <2>5, LeavesBoth
  <2>7. {} \union Among(l) = Among(l)
    OBVIOUS
  <2>8. QED BY <2>2, <2>5, <2>6, <2>7
<1>9. CASE g = Len(s)
  <2>1. r = <<>>
    <3>1. Len(r) = 0 /\ r \in Seq(Pieces)
      BY <1>1, <1>4, <1>5, <1>9 DEF Arranged
    <3> HIDE DEF r
    <3>2. QED BY <3>1, EmptySeq
  <2>2. LeftOver(s, end) = <<>>
    BY <2>1 DEF LeftOver, g
  <2>3. Among(s) = G
    BY <1>6, <2>1, NoPiece
  <2>4. Leaves(Among(s), st, end, guid, Among(LeftOver(s, end)))
    BY <1>7, <2>2, <2>3, NoPiece
  <2>5. QED BY <2>2, <2>4, NoPiece
<1>10. QED BY <1>1, <1>2, <1>8, <1>9
-----------------------------------------------------------------------------
(* A new piece cuts the list in two, before and behind it.                 *)
Cut(s, st, end, guid, before, behind) ==
  /\ Arranged(before) /\ Arranged(behind)
  /\ \A q \in Among(before) : Stop(q) <= st
  /\ \A q \in Among(behind) : end <= q.start
  /\ Leaves(Among(s), st, end, guid, Among(before) \union Among(behind))

LEMMA CutListIs ==
  ASSUME NEW s, Arranged(s), NEW st \in Nat, NEW end \in Nat, st < end,
         NEW guid \in Nat \ {0}
  PROVE  LET x      == PlaceOf(s, st)
             first  == SubSeq(s, 1, x - 1)
             after  == SubSeq(s, x + 1, Len(s))
             inside == x > 0 /\ st < Stop(s[x])
             within == inside /\ end <= Stop(s[x]) - MinLength
             before == IF x = 0 THEN <<>> ELSE IF inside THEN first \o Before(s[x], st) ELSE first \o <<s[x]>>
             behind == IF within THEN Behind(s[x], end, guid) \o after ELSE LeftOver(after, end)
         IN  Cut(s, st, end, guid, before, behind)
<1> DEFINE x == PlaceOf(s, st)
           first == SubSeq(s, 1, x - 1)
           after == SubSeq(s, x + 1, Len(s))
           p == s[x]
           over == LeftOver(after, end)
<1>1. Len(s) \in Nat /\ MinLength \in Nat \ {0}
  BY SessionListAssumption DEF Arranged
<1>2. /\ x \in 0 .. Len(s)
      /\ \A i \in 1 .. x : s[i].start <= st
      /\ \A i \in 1 .. Len(s) : i > x => st < s[i].start
  BY PlaceIs
<1> HIDE DEF x
<1>3. /\ Arranged(after) /\ Among(after) = {s[i] : i \in x + 1 .. Len(s)}
      /\ \A q \in Among(after) : st < q.start
  <2>1. x + 1 \in 1 .. Len(s) + 1 /\ Len(s) \in 0 .. Len(s)
    BY <1>1, <1>2
  <2>2. Arranged(after) /\ Among(after) = {s[i] : i \in x + 1 .. Len(s)}
    BY <2>1, PartOf
  <2>3. ASSUME NEW i \in x + 1 .. Len(s) PROVE st < s[i].start
    <3>1. i \in 1 .. Len(s) /\ i > x
      BY <1>1, <1>2
    <3>2. st < s[i].start /\ s[i].start \in Nat
      BY <1>2, <3>1, Apart
    <3>3. QED BY <3>2
  <2>4. QED BY <2>2, <2>3
<1> HIDE DEF after
<1>4. /\ Arranged(over) /\ \A q \in Among(over) : end <= q.start
      /\ Leaves(Among(after), st, end, guid, Among(over))
  BY <1>3, LeftOverIs
<1> HIDE DEF over
<1>5. CASE x = 0
  <2>1. Among(s) = Among(after)
    <3>1. x + 1 = 1
      BY <1>5
    <3>2. QED BY <1>3, <3>1 DEF Among
  <2>2. {} \union Among(over) = Among(over)
    OBVIOUS
  <2>3. Cut(s, st, end, guid, <<>>, over)
    BY <1>4, <2>1, <2>2, NoPiece DEF Cut
  <2>4. ~(x > 0) 
    BY <1>5
  <2>5. QED BY <1>5, <2>3, <2>4 DEF over, after, x
<1>6. CASE x # 0
  <2>1. x \in 1 .. Len(s) /\ x > 0
    BY <1>2, <1>6
  <2>2. /\ p \in Pieces /\ p.start \in Nat /\ Stop(p) \in Nat /\ p.start < Stop(p)
        /\ p.length >= MinLength /\ p.start <= st
    BY <1>2, <2>1, Apart
  <2>3. Arranged(first) /\ Among(first) = {s[i] : i \in 1 .. x - 1}
    <3>1. 1 \in 1 .. Len(s) + 1 /\ x - 1 \in 0 .. Len(s)
      BY <1>1, <2>1
    <3>2. QED BY <3>1, PartOf
  <2> HIDE DEF first
  <2>4. ASSUME NEW q \in Among(first) PROVE q \in Pieces /\ Stop(q) \in Nat /\ Stop(q) <= p.start /\ Stop(q) <= st
    <3>1. PICK i \in 1 .. x - 1 : q = s[i]
      BY <2>3
    <3>2. i \in 1 .. Len(s) /\ i < x
      BY <1>1, <2>1
    <3>3. q \in Pieces /\ Stop(q) \in Nat /\ Stop(q) <= p.start
      BY <2>1, <3>1, <3>2, Apart
    <3> HIDE DEF p
    <3>4. QED BY <2>2, <3>3
  <2>5. ASSUME NEW q \in Among(after) PROVE Stop(p) <= q.start /\ q.start \in Nat
    <3>1. PICK i \in x + 1 .. Len(s) : q = s[i]
      BY <1>3
    <3>2. i \in 1 .. Len(s) /\ x < i
      BY <1>1, <2>1
    <3>3. QED BY <2>1, <3>1, <3>2, Apart
  <2>6. Among(s) = (Among(first) \union {p}) \union Among(after)
    <3>1. ASSUME NEW q \in Among(s) PROVE q \in (Among(first) \union {p}) \union Among(after)
      <4>1. PICK i \in 1 .. Len(s) : q = s[i]
        BY DEF Among
      <4>2. i \in 1 .. x - 1 \/ i = x \/ i \in x + 1 .. Len(s)
        BY <1>1, <2>1
      <4>3. QED BY <1>3, <2>3, <4>1, <4>2
    <3>2. ASSUME NEW q \in (Among(first) \union {p}) \union Among(after) PROVE q \in Among(s)
      <4>1. PICK i \in (1 .. x - 1) \union {x} \union (x + 1 .. Len(s)) : q = s[i]
        BY <1>3, <2>3, <3>2
      <4>2. i \in 1 .. Len(s)
        BY <1>1, <2>1
      <4>3. QED BY <4>1, <4>2 DEF Among
    <3>3. QED BY <3>1, <3>2
  <2>7. Leaves(Among(first), st, end, guid, Among(first))
    BY <2>4, LeavesSame
  <2> HIDE DEF p
  <2>8. CASE ~(st < Stop(p))
    <3> DEFINE before == first \o <<p>>
    <3>1. Arranged(<<p>>) /\ Among(<<p>>) = {p}
      BY <2>2, OnePiece
    <3>2. Arranged(before) /\ Among(before) = Among(first) \union {p}
      <4>1. \A q \in Among(first), o \in Among(<<p>>) : Stop(q) <= o.start
        BY <2>4, <3>1
      <4>2. QED BY <2>3, <3>1, <4>1, Joining
    <3>3. Stop(p) <= st
      BY <2>2, <2>8
    <3>4. \A q \in Among(before) : Stop(q) <= st
      BY <2>4, <3>2, <3>3
    <3>5. Leaves(Among(before), st, end, guid, Among(before))
      BY <3>4, LeavesSame
    <3>6. Leaves(Among(s), st, end, guid, Among(before) \union Among(over))
      BY <1>4, <2>6, <3>2, <3>5, LeavesBoth
    <3> HIDE DEF before
    <3>7. Cut(s, st, end, guid, before, over)
      BY <1>4, <3>2, <3>4, <3>6 DEF Cut
    <3>8. QED BY <1>6, <2>8, <3>7 DEF before, over, after, first, p, x
  <2>9. CASE st < Stop(p)
    <3> DEFINE b == Before(p, st)
               before == first \o b
               h == Behind(p, end, guid)
    <3>1. /\ Arranged(b)
          /\ \A q \in Among(b) : q.start = p.start /\ Stop(q) = st
      BY <2>2, BeforeIs
    <3>2. /\ Arranged(h)
          /\ \A q \in Among(h) : q.start = end /\ Stop(q) = Stop(p)
      <4>1. p.start <= end
        BY <2>2
      <4>2. QED BY <2>2, <4>1, BehindIs
    <3>3. Leaves({p}, st, end, guid, Among(b) \union Among(h))
      <4>1. p.start < end
        BY <2>2
      <4>2. Remains(p, st, end, guid) = Among(b) \union Among(h)
        <5>1. Named(p, st, guid) = guid
          BY <2>2 DEF Named
        <5>2. QED BY <2>2, <2>9, <4>1, <5>1, RemainsIs
      <4>3. QED BY <4>2 DEF Leaves
    <3>4. Stop(p) - end < MinLength => h = <<>>
      BY DEF Behind
    <3> HIDE DEF b, h
    <3>5. Arranged(before) /\ Among(before) = Among(first) \union Among(b)
      <4>1. \A q \in Among(first), o \in Among(b) : Stop(q) <= o.start
        BY <2>4, <3>1
      <4>2. QED BY <2>3, <3>1, <4>1, Joining
    <3>6. \A q \in Among(before) : Stop(q) <= st
      BY <2>4, <3>1, <3>5
    <3> HIDE DEF before
    <3>7. Leaves(Among(first) \union {p}, st, end, guid, Among(before) \union Among(h))
      <4>1. Leaves(Among(first) \union {p}, st, end, guid, Among(first) \union (Among(b) \union Among(h)))
        BY <2>7, <3>3, LeavesBoth
      <4>2. Among(first) \union (Among(b) \union Among(h)) = Among(before) \union Among(h)
        BY <3>5
      <4>3. QED BY <4>1, <4>2
    <3>8. CASE end <= Stop(p) - MinLength
      <4> DEFINE behind == h \o after
      <4>1. end <= Stop(p)
        BY <1>1, <2>2, <3>8
      <4>2. Arranged(behind) /\ Among(behind) = Among(h) \union Among(after)
        <5>1. \A q \in Among(h), o \in Among(after) : Stop(q) <= o.start
          BY <2>5, <3>2
        <5>2. QED BY <1>3, <3>2, <5>1, Joining
      <4>3. \A q \in Among(after) : end <= q.start
        BY <2>2, <2>5, <4>1
      <4>4. \A q \in Among(behind) : end <= q.start
        <5>1. \A q \in Among(h) : end <= q.start
          BY <3>2
        <5>2. QED BY <4>2, <4>3, <5>1
      <4>5. Leaves(Among(after), st, end, guid, Among(after))
        BY <4>3, LeavesSame
      <4>6. Leaves(Among(s), st, end, guid, Among(before) \union Among(behind))
        <5>1. Leaves(Among(s), st, end, guid, (Among(before) \union Among(h)) \union Among(after))
          BY <2>6, <3>7, <4>5, LeavesBoth
        <5>2. (Among(before) \union Among(h)) \union Among(after) = Among(before) \union Among(behind)
          BY <4>2
        <5>3. QED BY <5>1, <5>2
      <4> HIDE DEF behind
      <4>7. Cut(s, st, end, guid, before, behind)
        BY <3>5, <3>6, <4>2, <4>4, <4>6 DEF Cut
      <4>8. QED BY <1>6, <2>1, <2>9, <3>8, <4>7 DEF behind, before, b, h, over, after, first, p, x
    <3>9. CASE ~(end <= Stop(p) - MinLength)
      <4>1. h = <<>>
        <5>1. Stop(p) - end < MinLength
          BY <1>1, <2>2, <3>9
        <5>2. QED BY <3>4, <5>1
      <4>2. Leaves(Among(first) \union {p}, st, end, guid, Among(before))
        <5>1. Among(before) \union Among(h) = Among(before)
          BY <4>1, NoPiece
        <5>2. QED BY <3>7, <5>1
      <4>3. Leaves(Among(s), st, end, guid, Among(before) \union Among(over))
        BY <1>4, <2>6, <4>2, LeavesBoth
      <4>4. Cut(s, st, end, guid, before, over)
        BY <1>4, <3>5, <3>6, <4>3 DEF Cut
      <4>5. QED BY <1>6, <2>1, <2>9, <3>9, <4>4 DEF before, b, h, over, after, first, p, x
    <3>10. QED BY <3>8, <3>9
  <2>10. QED BY <2>8, <2>9
<1>7. QED BY <1>5, <1>6

New(guid, st, len) == [guid |-> guid, start |-> st, length |-> len, offset |-> 0]

(* What an announcement makes of the list s.                               *)
Adds(s, list, guid, st, len) ==
  \E t : /\ Leaves(Among(s), st, st + len, guid, t)
         /\ \/ Among(list) = t
            \/ Among(list) = t \union {New(guid, st, len)}

(* The list after an announcement: what is left of each piece, and, if     *)
(* there was room, the new one.                                            *)
LEMMA AddIs ==
  ASSUME NEW s, Arranged(s), NEW guid \in Nat \ {0}, NEW st \in Nat, NEW len \in Nat, len >= MinLength
  PROVE  /\ Arranged(Add(s, guid, st, len))
         /\ Adds(s, Add(s, guid, st, len), guid, st, len)
<1> DEFINE x      == PlaceOf(s, st)
           end    == st + len
           first  == SubSeq(s, 1, x - 1)
           after  == SubSeq(s, x + 1, Len(s))
           inside == x > 0 /\ st < Stop(s[x])
           within == inside /\ end <= Stop(s[x]) - MinLength
           before == IF x = 0 THEN <<>> ELSE IF inside THEN first \o Before(s[x], st) ELSE first \o <<s[x]>>
           behind == IF within THEN Behind(s[x], end, guid) \o after ELSE LeftOver(after, end)
           new    == New(guid, st, len)
           list   == Add(s, guid, st, len)
           t      == Among(before) \union Among(behind)
<1>1. MinLength \in Nat \ {0}
  BY SessionListAssumption
<1>2. end \in Nat /\ st < end
  BY <1>1
<1>3. Cut(s, st, end, guid, before, behind)
  BY <1>2, CutListIs
<1>4. \/ list = before \o behind
      \/ list = before \o <<new>> \o behind
  BY DEF Add, New
<1>5. new \in Pieces /\ new.start = st /\ new.length = len /\ Stop(new) = end
  BY DEF Pieces, New, Stop
<1> HIDE DEF before, behind, new, list, end
<1>6. /\ Arranged(before) /\ Arranged(behind)
      /\ \A q \in Among(before) : Stop(q) <= st
      /\ \A q \in Among(behind) : end <= q.start
      /\ Leaves(Among(s), st, end, guid, t)
  BY <1>3 DEF Cut
<1>7. \A q \in Among(before), o \in Among(behind) : Stop(q) <= o.start
  <2>1. ASSUME NEW q \in Among(before), NEW o \in Among(behind) PROVE Stop(q) <= o.start
    <3>1. PICK i \in 1 .. Len(before) : q = before[i]
      BY DEF Among
    <3>2. PICK j \in 1 .. Len(behind) : o = behind[j]
      BY DEF Among
    <3>3. Stop(q) \in Nat
      BY <1>6, <3>1, Apart
    <3>4. o.start \in Nat
      BY <1>6, <3>2, Apart
    <3>5. Stop(q) <= st /\ end <= o.start
      BY <1>6
    <3>6. QED BY <1>2, <3>3, <3>4, <3>5
  <2>2. QED BY <2>1
<1>8. CASE list = before \o behind
  <2>1. Arranged(before \o behind) /\ Among(before \o behind) = t
    BY <1>6, <1>7, Joining
  <2> HIDE DEF t
  <2>2. Arranged(list) /\ Among(list) = t
    BY <1>8, <2>1
  <2>3. Leaves(Among(s), st, st + len, guid, t)
    BY <1>6 DEF end
  <2>4. QED BY <2>2, <2>3 DEF list, Adds
<1>9. CASE list = before \o <<new>> \o behind
  <2> DEFINE f == before \o <<new>>
  <2>1. Arranged(<<new>>) /\ Among(<<new>>) = {new}
    BY <1>5, OnePiece
  <2>2. Arranged(f) /\ Among(f) = Among(before) \union {new}
    <3>1. \A q \in Among(before), o \in Among(<<new>>) : Stop(q) <= o.start
      BY <1>5, <1>6, <2>1
    <3>2. QED BY <1>6, <2>1, <3>1, Joining
  <2> HIDE DEF f
  <2>3. \A q \in Among(f), o \in Among(behind) : Stop(q) <= o.start
    <3>1. \A o \in Among(behind) : Stop(new) <= o.start
      BY <1>5, <1>6
    <3>2. QED BY <1>7, <2>2, <3>1
  <2>4. Arranged(f \o behind) /\ Among(f \o behind) = Among(f) \union Among(behind)
    BY <1>6, <2>2, <2>3, Joining
  <2>5. list = f \o behind
    BY <1>9 DEF f
  <2>6. Among(list) = t \union {new}
    BY <2>2, <2>4, <2>5
  <2> HIDE DEF t
  <2>7. Leaves(Among(s), st, st + len, guid, t)
    BY <1>6 DEF end
  <2>8. QED BY <2>4, <2>5, <2>6, <2>7 DEF list, new, Adds
<1>10. QED BY <1>4, <1>8, <1>9
-----------------------------------------------------------------------------
(* The invariant.  A piece has what the last announcement of its times said*)
(* under that recording, or the one a split has put in its place (Agrees-  *)
(* In); something else was announced last beside it, for only another      *)
(* announcement cuts it (EdgesIn); and what is not in a piece is too short *)
(* for one (CompleteIn).                                                   *)
SaidIn(a, r) ==
  /\ r \in Nat /\ a \in [Times -> [guid : 0 .. r, offset : Nat]]
  /\ \A t \in Times : a[t].guid = 0 => a[t] = Nothing
Under(a, k, t) == IF k[t] = 0 THEN a[t].guid ELSE k[t]
AgreesIn(s, a, k) ==
  \A p \in s, t \in Times : Has(p, t) =>
    a[t].guid # 0 /\ a[t].offset = OffsetAt(p, t) /\ p.guid = Under(a, k, t)
MarksIn(a, k) == \A t \in Times : a[t].guid = 0 => k[t] = 0
EdgesIn(s, a) ==
  \A p \in s, t \in Times, u \in Times :
    Has(p, u) /\ (t = p.start - 1 \/ t = Stop(p)) => a[t].guid # a[u].guid
SliverIn(a, t) ==
  \A x \in 0 .. t, y \in t .. Horizon - 1 :
    (\A u \in x .. y : a[u].guid = a[t].guid) => y - x + 1 < MinLength
CompleteIn(s, a) ==
  \A t \in Times : a[t] = Nothing \/ SliverIn(a, t) \/ \E p \in s : Has(p, t)
Accounts(s, a, k, r) ==
  Arranged(s) /\ SaidIn(a, r) /\ AgreesIn(Among(s), a, k) /\ MarksIn(a, k)
    /\ EdgesIn(Among(s), a) /\ CompleteIn(Among(s), a)
SInv == Accounts(sessioninfo, announced, renamed, recordings)

LEMMA Placed ==
  ASSUME NEW s, Arranged(s), NEW p \in Among(s)
  PROVE  /\ p \in Pieces /\ p.start \in Nat /\ Stop(p) \in Nat /\ p.guid \in Nat \ {0} /\ p.offset \in Nat
         /\ p.start < Stop(p) /\ p.length >= MinLength
<1>1. PICK i \in 1 .. Len(s) : p = s[i]
  BY DEF Among
<1>2. QED BY <1>1, Apart, PieceIs

LEMMA OneHas ==
  ASSUME NEW s, Arranged(s), NEW p \in Among(s), NEW q \in Among(s), NEW t \in Nat,
         Has(p, t), Has(q, t)
  PROVE  p = q
<1>1. PICK i \in 1 .. Len(s) : p = s[i]
  BY DEF Among
<1>2. PICK j \in 1 .. Len(s) : q = s[j]
  BY DEF Among
<1>3. p.start \in Nat /\ Stop(p) \in Nat /\ q.start \in Nat /\ Stop(q) \in Nat
  BY Placed
<1>4. /\ p.start <= t /\ t < Stop(p)
      /\ q.start <= t /\ t < Stop(q)
  BY DEF Has
<1>5. CASE i < j
  <2>1. Stop(p) <= q.start
    BY <1>1, <1>2, <1>5, Apart
  <2>2. QED BY <1>3, <1>4, <2>1
<1>6. CASE j < i
  <2>1. Stop(q) <= p.start
    BY <1>1, <1>2, <1>6, Apart
  <2>2. QED BY <1>3, <1>4, <2>1
<1>7. CASE i = j
  BY <1>1, <1>2, <1>7
<1>8. Len(s) \in Nat
  BY DEF Arranged
<1>9. QED BY <1>5, <1>6, <1>7, <1>8

(* What is left of a piece is from the same place of a recording, and ends *)
(* where the piece or the new one does.                                    *)
LEMMA LeftIs ==
  ASSUME NEW p \in Pieces, p.start < Stop(p), NEW st \in Nat, NEW end \in Nat, st < end,
         NEW guid \in Nat \ {0}, NEW q \in Remains(p, st, end, guid)
  PROVE  /\ q \in Pieces
         /\ q.start = p.start \/ q.start = end
         /\ Stop(q) = Stop(p) \/ Stop(q) = st
         /\ Stop(q) <= st \/ end <= q.start
         /\ p.start <= q.start /\ Stop(q) <= Stop(p)
         /\ q.offset = OffsetAt(p, q.start)
         /\ q.guid = IF p.start <= st /\ end <= q.start THEN guid ELSE p.guid
         /\ p.start <= st /\ end <= q.start => end + MinLength <= Stop(p)
<1>1. p.start \in Nat /\ Stop(p) \in Nat /\ p.offset \in Nat /\ p.guid \in Nat \ {0}
  BY PieceIs
<1>2. OffsetAt(p, p.start) = p.offset
  BY <1>1 DEF OffsetAt
<1>3. CASE Stop(p) <= st \/ end <= p.start
  <2>1. q = p
    BY <1>3 DEF Remains
  <2>2. ~(p.start <= st /\ end <= q.start)
    BY <1>1, <1>3, <2>1
  <2>3. QED BY <1>1, <1>2, <1>3, <2>1, <2>2
<1>4. CASE ~(Stop(p) <= st \/ end <= p.start)
  <2> DEFINE n == Named(p, st, guid)
  <2>1. q \in Among(Before(p, st)) \/ q \in Among(Behind(p, end, n))
    BY <1>4 DEF Remains
  <2>2. st < Stop(p) /\ p.start < end /\ p.start <= end
    BY <1>1, <1>4
  <2>3. n \in Nat \ {0} /\ n = IF p.start <= st THEN guid ELSE p.guid
    BY <1>1 DEF Named
  <2> HIDE DEF n
  <2>4. CASE q \in Among(Before(p, st))
    <3>1. /\ q.guid = p.guid /\ q.start = p.start /\ q.offset = p.offset /\ Stop(q) = st
          /\ q \in Pieces
      BY <2>4, BeforeIs
    <3>2. ~(end <= q.start)
      BY <1>1, <2>2, <3>1
    <3>3. QED BY <1>1, <1>2, <2>2, <3>1, <3>2
  <2>5. CASE q \in Among(Behind(p, end, n))
    <3>1. /\ q.guid = n /\ q.start = end /\ Stop(q) = Stop(p) /\ end + MinLength <= Stop(p)
          /\ q.offset = OffsetAt(p, end) /\ q \in Pieces
      BY <2>2, <2>3, <2>5, BehindIs
    <3>2. QED BY <1>1, <2>2, <2>3, <3>1
  <2>6. QED BY <2>1, <2>4, <2>5
<1>5. QED BY <1>3, <1>4

(* What of a piece is not left: the new one has it, or it was too short.   *)
LEMMA LostIs ==
  ASSUME NEW p \in Pieces, NEW st \in Nat, NEW end \in Nat, st < end,
         NEW guid \in Nat \ {0}, NEW t \in Nat, Has(p, t), t < st \/ end <= t
  PROVE  \/ \E q \in Remains(p, st, end, guid) : Has(q, t)
         \/ t < st /\ st - p.start < MinLength
         \/ end <= t /\ Stop(p) - end < MinLength
<1>1. p.start \in Nat /\ Stop(p) \in Nat /\ p.start <= t /\ t < Stop(p)
  BY PieceIs DEF Has
<1>2. CASE Stop(p) <= st \/ end <= p.start
  BY <1>2 DEF Remains
<1>3. CASE ~(Stop(p) <= st \/ end <= p.start)
  <2> DEFINE n == Named(p, st, guid)
  <2>1. Remains(p, st, end, guid) = Among(Before(p, st)) \union Among(Behind(p, end, n))
    BY <1>3 DEF Remains
  <2>0. n \in Nat \ {0}
    BY PieceIs DEF Named
  <2> HIDE DEF n
  <2>2. CASE t < st /\ Before(p, st) # <<>>
    <3>1. PICK q \in Among(Before(p, st)) : TRUE
      BY <2>2, BeforeIs
    <3>2. q.start = p.start /\ Stop(q) = st
      BY <3>1, BeforeIs
    <3>3. Has(q, t)
      BY <1>1, <2>2, <3>2 DEF Has
    <3>4. QED BY <2>1, <3>3
  <2>3. CASE t < st /\ Before(p, st) = <<>>
    BY <2>3, BeforeIs
  <2>4. CASE end <= t
    <3>1. p.start <= end
      BY <1>1, <1>3
    <3>2. CASE Behind(p, end, n) = <<>>
      BY <2>0, <2>4, <3>1, <3>2, BehindIs
    <3>3. CASE Behind(p, end, n) # <<>>
      <4>1. PICK q \in Among(Behind(p, end, n)) : TRUE
        BY <2>0, <3>1, <3>3, BehindIs
      <4>2. q.start = end /\ Stop(q) = Stop(p)
        BY <2>0, <3>1, <4>1, BehindIs
      <4>3. Has(q, t)
        BY <1>1, <2>4, <4>2 DEF Has
      <4>4. QED BY <2>1, <4>3
    <3>4. QED BY <3>2, <3>3
  <2>5. QED BY <2>2, <2>3, <2>4
<1>4. QED BY <1>2, <1>3

(* What an announcement says of the times: a of before, b of after.        *)
Says(a, b, r, st, end) ==
  /\ b \in [Times -> [guid : 0 .. r + 1, offset : Nat]]
  /\ \A t \in Times : t < st \/ end <= t => b[t] = a[t]
  /\ \A t \in Times : st <= t /\ t < end =>
       b[t] = Nothing \/ b[t] = [guid |-> r + 1, offset |-> t - st]

Told(a, b, r, st, end) ==
  /\ \A t \in Times : t < st \/ end <= t => b[t] = a[t] /\ a[t].guid \in 0 .. r
  /\ \A t \in Times : st <= t /\ t < end => b[t].guid \in {0, r + 1}

(* What a split puts in the place of what was announced: k before, l after.*)
OffIn(s, st, end) ==
  {t \in Times : \E p \in s :
     p.start <= st /\ end + MinLength <= Stop(p) /\ end <= t /\ t < Stop(p)}
Splits(s, k, l, r, st, end) ==
  /\ \A t \in Times : t < st \/ end <= t =>
       l[t] = IF t \in OffIn(s, st, end) THEN r + 1 ELSE k[t]
  /\ \A t \in Times : st <= t /\ t < end => l[t] = 0

LEMMA SaysOf ==
  ASSUME NEW a, NEW b, NEW r, SaidIn(a, r), NEW st \in Nat, NEW end \in Nat, Says(a, b, r, st, end)
  PROVE  SaidIn(b, r + 1) /\ Told(a, b, r, st, end)
<1>1. r \in Nat /\ \A t \in Times : a[t].guid \in 0 .. r /\ t \in Nat
  BY SessionListAssumption DEF SaidIn, Times
<1>2. Nothing.guid = 0
  BY DEF Nothing
<1>3. ASSUME NEW t \in Times
      PROVE  /\ t < st \/ end <= t => b[t] = a[t] /\ a[t].guid \in 0 .. r
             /\ st <= t /\ t < end => b[t].guid \in {0, r + 1}
  BY <1>1, <1>2 DEF Says
<1>4. ASSUME NEW t \in Times, b[t].guid = 0 PROVE b[t] = Nothing
  <2>1. CASE t < st \/ end <= t
    BY <1>3, <1>4, <2>1 DEF SaidIn
  <2>2. CASE st <= t /\ t < end
    BY <1>1, <1>4, <2>2 DEF Says
  <2>3. QED BY <1>1, <2>1, <2>2
<1>5. SaidIn(b, r + 1)
  BY <1>1, <1>4 DEF SaidIn, Says
<1>6. QED BY <1>3, <1>5 DEF Told

LEMMA TheyAgree ==
  ASSUME NEW s, Arranged(s), NEW a, NEW b, NEW r, SaidIn(a, r), NEW st \in Nat, NEW end \in Nat, st < end,
         Says(a, b, r, st, end), NEW k, NEW l, Splits(Among(s), k, l, r, st, end),
         NEW t2, Leaves(Among(s), st, end, r + 1, t2), AgreesIn(Among(s), a, k)
  PROVE  AgreesIn(t2, b, l)
<1>0. Told(a, b, r, st, end) /\ r \in Nat /\ r + 1 \in Nat \ {0}
  <2>1. Told(a, b, r, st, end)
    BY SaysOf
  <2>2. r \in Nat
    BY DEF SaidIn
  <2>3. QED BY <2>1, <2>2
<1>1. ASSUME NEW q \in t2, NEW t \in Times, Has(q, t)
      PROVE  b[t].guid # 0 /\ b[t].offset = OffsetAt(q, t) /\ q.guid = Under(b, l, t)
  <2>1. PICK p \in Among(s) : q \in Remains(p, st, end, r + 1)
    BY DEF Leaves
  <2>2. p \in Pieces /\ p.start < Stop(p) /\ p.start \in Nat /\ p.offset \in Nat /\ Stop(p) \in Nat
    BY Placed
  <2>3. /\ q \in Pieces
        /\ Stop(q) <= st \/ end <= q.start
        /\ p.start <= q.start /\ Stop(q) <= Stop(p)
        /\ q.offset = OffsetAt(p, q.start)
        /\ q.guid = IF p.start <= st /\ end <= q.start THEN r + 1 ELSE p.guid
        /\ p.start <= st /\ end <= q.start => end + MinLength <= Stop(p)
    BY <1>0, <2>1, <2>2, LeftIs
  <2>4. t \in Nat /\ q.start \in Nat /\ Stop(q) \in Nat /\ q.start <= t /\ t < Stop(q)
    BY <1>1, <2>3, PieceIs, SessionListAssumption DEF Times, Has
  <2>5. (t < st \/ end <= t) /\ Has(p, t)
    BY <2>2, <2>3, <2>4 DEF Has
  <2>6. OffsetAt(q, t) = OffsetAt(p, t)
    BY <2>2, <2>3, <2>4 DEF OffsetAt
  <2>7. a[t].guid # 0 /\ a[t].offset = OffsetAt(p, t) /\ p.guid = Under(a, k, t)
    BY <2>5 DEF AgreesIn
  <2>8. b[t] = a[t] /\ l[t] = IF t \in OffIn(Among(s), st, end) THEN r + 1 ELSE k[t]
    BY <1>0, <2>5 DEF Told, Splits
  <2>9. t \in OffIn(Among(s), st, end) <=> p.start <= st /\ end <= q.start
    <3>1. ASSUME t \in OffIn(Among(s), st, end) PROVE p.start <= st /\ end <= q.start
      <4>1. PICK o \in Among(s) :
              o.start <= st /\ end + MinLength <= Stop(o) /\ end <= t /\ t < Stop(o)
        BY <3>1 DEF OffIn
      <4>2. o.start \in Nat
        BY Placed
      <4>3. Has(o, t)
        BY <2>4, <4>1, <4>2 DEF Has
      <4>4. o = p
        BY <2>4, <2>5, <4>3, OneHas
      <4>5. end <= q.start
        BY <2>3, <2>4, <4>1
      <4>6. QED BY <4>1, <4>4, <4>5
    <3>2. ASSUME p.start <= st /\ end <= q.start PROVE t \in OffIn(Among(s), st, end)
      <4>1. end + MinLength <= Stop(p) /\ end <= t /\ t < Stop(p)
        BY <2>2, <2>3, <2>4, <3>2
      <4>2. QED BY <3>2, <4>1 DEF OffIn
    <3>3. QED BY <3>1, <3>2
  <2>10. q.guid = Under(b, l, t)
    <3>1. CASE t \in OffIn(Among(s), st, end)
      <4>1. q.guid = r + 1 /\ l[t] = r + 1 /\ r + 1 # 0
        BY <1>0, <2>3, <2>8, <2>9, <3>1
      <4>2. QED BY <4>1 DEF Under
    <3>2. CASE t \notin OffIn(Among(s), st, end)
      <4>1. q.guid = p.guid /\ l[t] = k[t]
        BY <2>3, <2>8, <2>9, <3>2
      <4>2. QED BY <2>7, <2>8, <4>1 DEF Under
    <3>3. QED BY <3>1, <3>2
  <2>11. QED BY <2>6, <2>7, <2>8, <2>10
<1>2. QED BY <1>1 DEF AgreesIn

LEMMA TheyEnd ==
  ASSUME NEW s, Arranged(s), NEW a, NEW b, NEW r, SaidIn(a, r), NEW st \in Nat, NEW end \in Nat, st < end,
         Says(a, b, r, st, end), NEW k, AgreesIn(Among(s), a, k),
         NEW t2, Leaves(Among(s), st, end, r + 1, t2), EdgesIn(Among(s), a)
  PROVE  EdgesIn(t2, b)
<1>0. Told(a, b, r, st, end) /\ r \in Nat /\ r + 1 \in Nat \ {0}
  BY SaysOf DEF SaidIn
<1>1. ASSUME NEW q \in t2, NEW t \in Times, NEW u \in Times, Has(q, u), t = q.start - 1 \/ t = Stop(q)
      PROVE  b[t].guid # b[u].guid
  <2>1. PICK p \in Among(s) : q \in Remains(p, st, end, r + 1)
    BY DEF Leaves
  <2>2. p \in Pieces /\ p.start < Stop(p) /\ p.start \in Nat /\ Stop(p) \in Nat
    BY Placed
  <2>3. /\ q \in Pieces
        /\ q.start = p.start \/ q.start = end
        /\ Stop(q) = Stop(p) \/ Stop(q) = st
        /\ Stop(q) <= st \/ end <= q.start
        /\ p.start <= q.start /\ Stop(q) <= Stop(p)
    BY <1>0, <2>1, <2>2, LeftIs
  <2>4. /\ t \in Nat /\ u \in Nat
        /\ q.start \in Nat /\ Stop(q) \in Nat /\ q.start <= u /\ u < Stop(q)
    BY <1>1, <2>3, PieceIs, SessionListAssumption DEF Times, Has
  <2>5. (u < st \/ end <= u) /\ Has(p, u)
    BY <2>2, <2>3, <2>4 DEF Has
  <2>6. b[u] = a[u] /\ a[u].guid \in 0 .. r /\ a[u].guid # 0
    BY <1>0, <2>5 DEF Told, AgreesIn
  <2>7. CASE st <= t /\ t < end
    <3>1. b[t].guid \in {0, r + 1}
      BY <1>0, <2>7 DEF Told
    <3>2. QED BY <1>0, <2>6, <3>1
  <2>8. CASE t < st \/ end <= t
    <3>1. t = p.start - 1 \/ t = Stop(p)
      BY <1>1, <2>2, <2>3, <2>4, <2>8
    <3>2. a[t].guid # a[u].guid
      BY <2>5, <3>1 DEF EdgesIn
    <3>3. b[t] = a[t]
      BY <1>0, <2>8 DEF Told
    <3>4. QED BY <2>6, <3>2, <3>3
  <2>9. QED BY <2>4, <2>7, <2>8
<1>2. QED BY <1>1 DEF EdgesIn

LEMMA TheyMark ==
  ASSUME NEW s, Arranged(s), NEW a, NEW b, NEW r, SaidIn(a, r), NEW st \in Nat, NEW end \in Nat, st < end,
         Says(a, b, r, st, end), NEW k, NEW l, Splits(Among(s), k, l, r, st, end),
         AgreesIn(Among(s), a, k), MarksIn(a, k)
  PROVE  MarksIn(b, l)
<1>0. Told(a, b, r, st, end)
  BY SaysOf
<1>1. ASSUME NEW t \in Times, b[t].guid = 0 PROVE l[t] = 0
  <2>1. t \in Nat
    BY SessionListAssumption DEF Times
  <2>2. CASE st <= t /\ t < end
    BY <2>2 DEF Splits
  <2>3. CASE t < st \/ end <= t
    <3>1. a[t].guid = 0 /\ k[t] = 0
      BY <1>0, <1>1, <2>3 DEF Told, MarksIn
    <3>2. t \notin OffIn(Among(s), st, end)
      <4>1. ASSUME t \in OffIn(Among(s), st, end) PROVE FALSE
        <5>1. PICK p \in Among(s) : p.start <= st /\ end <= t /\ t < Stop(p)
          BY <4>1 DEF OffIn
        <5>2. p.start \in Nat
          BY Placed
        <5>3. Has(p, t)
          BY <2>1, <5>1, <5>2 DEF Has
        <5>4. QED BY <3>1, <5>3 DEF AgreesIn
      <4>2. QED BY <4>1
    <3>3. QED BY <2>3, <3>1, <3>2 DEF Splits
  <2>4. QED BY <2>1, <2>2, <2>3
<1>2. QED BY <1>1 DEF MarksIn

LEMMA StillSliver ==
  ASSUME NEW a, NEW b, NEW r, SaidIn(a, r), NEW st \in Nat, NEW end \in Nat, st < end,
         Says(a, b, r, st, end), NEW t \in Times, t < st \/ end <= t, a[t].guid # 0,
         SliverIn(a, t)
  PROVE  SliverIn(b, t)
<1>0. Told(a, b, r, st, end)
  BY SaysOf
<1>1. /\ r \in Nat /\ b[t] = a[t] /\ a[t].guid \in 0 .. r
  BY <1>0 DEF SaidIn, Told
<1>2. ASSUME NEW x \in 0 .. t, NEW y \in t .. Horizon - 1, \A u \in x .. y : b[u].guid = b[t].guid
      PROVE  y - x + 1 < MinLength
  <2>1. ASSUME NEW u \in x .. y PROVE a[u].guid = a[t].guid
    <3>1. u \in Times /\ u \in Nat
      BY SessionListAssumption DEF Times
    <3>2. b[u].guid = a[t].guid
      BY <1>1, <1>2
    <3>3. ~(st <= u /\ u < end)
      <4>1. b[u].guid \notin {0, r + 1}
        BY <1>1, <3>2
      <4>2. QED BY <1>0, <3>1, <4>1 DEF Told
    <3>4. u < st \/ end <= u
      BY <3>1, <3>3
    <3>5. b[u] = a[u]
      BY <1>0, <3>1, <3>4 DEF Told
    <3>6. QED BY <3>2, <3>5
  <2>2. QED BY <2>1 DEF SliverIn
<1>3. QED BY <1>2 DEF SliverIn

(* What was too short to be kept has something else beside it.             *)
LEMMA NewSliver ==
  ASSUME NEW s, Arranged(s), NEW a, NEW b, NEW r, SaidIn(a, r), NEW st \in Nat, NEW end \in Nat, st < end,
         Says(a, b, r, st, end), EdgesIn(Among(s), a), NEW k, AgreesIn(Among(s), a, k),
         NEW p \in Among(s), NEW t \in Times, Has(p, t),
         \/ t < st /\ st - p.start < MinLength
         \/ end <= t /\ Stop(p) - end < MinLength
  PROVE  SliverIn(b, t)
<1>0. Told(a, b, r, st, end)
  BY SaysOf
<1>1. p.start \in Nat /\ Stop(p) \in Nat /\ p.start <= t /\ t < Stop(p)
  BY Placed DEF Has
<1>2. t \in Nat /\ MinLength \in Nat /\ Horizon \in Nat
  BY SessionListAssumption DEF Times
<1>3. r \in Nat /\ a[t].guid \in 1 .. r /\ b[t] = a[t]
  <2>1. r \in Nat /\ a[t].guid # 0
    BY DEF SaidIn, AgreesIn
  <2>2. b[t] = a[t] /\ a[t].guid \in 0 .. r
    BY <1>0 DEF Told
  <2>3. QED BY <2>1, <2>2
<1>4. ASSUME NEW x \in 0 .. t, NEW y \in t .. Horizon - 1, \A u \in x .. y : b[u].guid = b[t].guid
      PROVE  y - x + 1 < MinLength
  <2>1. ASSUME NEW u \in x .. y
        PROVE  /\ u \in Times /\ u \in Nat
               /\ u < st \/ end <= u
               /\ u # p.start - 1 /\ u # Stop(p)
    <3>1. u \in Times /\ u \in Nat
      BY <1>2 DEF Times
    <3>2. b[u].guid = a[t].guid
      BY <1>3, <1>4
    <3>3. ~(st <= u /\ u < end)
      <4>1. b[u].guid \notin {0, r + 1}
        BY <1>3, <3>2
      <4>2. QED BY <1>0, <3>1, <4>1 DEF Told
    <3>4. u < st \/ end <= u
      BY <3>1, <3>3
    <3>5. a[u].guid = a[t].guid
      <4>1. b[u] = a[u]
        BY <1>0, <3>1, <3>4 DEF Told
      <4>2. QED BY <3>2, <4>1
    <3>6. QED BY <3>1, <3>4, <3>5 DEF EdgesIn
  <2>2. CASE t < st /\ st - p.start < MinLength
    <3>1. y < st
      <4>1. st \notin x .. y
        <5>1. ASSUME st \in x .. y PROVE FALSE
          BY <2>1, <5>1
        <5>2. QED BY <5>1
      <4>2. QED BY <1>2, <2>2, <4>1
    <3>2. p.start <= x
      <4>1. ASSUME x < p.start PROVE FALSE
        <5>1. p.start - 1 \in x .. y
          BY <1>1, <1>2, <4>1
        <5>2. QED BY <2>1, <5>1
      <4>2. QED BY <1>1, <1>2, <4>1
    <3>3. QED BY <1>1, <1>2, <2>2, <3>1, <3>2
  <2>3. CASE end <= t /\ Stop(p) - end < MinLength
    <3>1. end <= x
      <4>1. ASSUME x < end PROVE FALSE
        <5>1. end - 1 \in x .. y /\ ~(end - 1 < st) /\ ~(end <= end - 1)
          BY <1>2, <2>3, <4>1
        <5>2. QED BY <2>1, <5>1
      <4>2. QED BY <1>2, <4>1
    <3>2. y < Stop(p)
      <4>1. ASSUME Stop(p) <= y PROVE FALSE
        <5>1. Stop(p) \in x .. y
          BY <1>1, <1>2, <4>1
        <5>2. QED BY <2>1, <5>1
      <4>2. QED BY <1>1, <1>2, <4>1
    <3>3. QED BY <1>1, <1>2, <2>3, <3>1, <3>2
  <2>4. QED BY <2>2, <2>3
<1>5. QED BY <1>4 DEF SliverIn

LEMMA StillComplete ==
  ASSUME NEW s, Arranged(s), NEW a, NEW b, NEW r, SaidIn(a, r), NEW st \in Nat, NEW end \in Nat, st < end,
         Says(a, b, r, st, end), NEW t2, Leaves(Among(s), st, end, r + 1, t2),
         EdgesIn(Among(s), a), NEW k, AgreesIn(Among(s), a, k), CompleteIn(Among(s), a),
         NEW t \in Times, t < st \/ end <= t
  PROVE  b[t] = Nothing \/ SliverIn(b, t) \/ \E q \in t2 : Has(q, t)
<1>0. Told(a, b, r, st, end)
  BY SaysOf
<1>1. b[t] = a[t] /\ t \in Nat
  BY <1>0, SessionListAssumption DEF Told, Times
<1>2. CASE a[t] = Nothing
  BY <1>1, <1>2
<1>3. CASE a[t] # Nothing /\ SliverIn(a, t)
  <2>1. a[t].guid # 0
    BY <1>3 DEF SaidIn
  <2>2. QED BY <1>3, <2>1, StillSliver
<1>4. CASE \E p \in Among(s) : Has(p, t)
  <2>1. PICK p \in Among(s) : Has(p, t)
    BY <1>4
  <2>2. \/ \E q \in Remains(p, st, end, r + 1) : Has(q, t)
        \/ t < st /\ st - p.start < MinLength
        \/ end <= t /\ Stop(p) - end < MinLength
    <3>1. p \in Pieces /\ r + 1 \in Nat \ {0}
      BY Placed DEF SaidIn
    <3>2. QED BY <1>1, <2>1, <3>1, LostIs
  <2>3. CASE \E q \in Remains(p, st, end, r + 1) : Has(q, t)
    BY <2>3 DEF Leaves
  <2>4. CASE t < st /\ st - p.start < MinLength
    BY <2>1, <2>4, NewSliver
  <2>5. CASE end <= t /\ Stop(p) - end < MinLength
    BY <2>1, <2>5, NewSliver
  <2>6. QED BY <2>2, <2>3, <2>4, <2>5
<1>5. QED BY <1>2, <1>3, <1>4 DEF CompleteIn

(* An announcement keeps the accounts.                                     *)
LEMMA Announcing ==
  ASSUME NEW s, NEW a, NEW k, NEW r, Accounts(s, a, k, r), NEW st \in Nat, NEW len \in Nat, len >= MinAdded,
         NEW b,
         b = [t \in Times |->
                IF t \notin st .. st + len - 1 THEN a[t]
                ELSE IF \E i \in DOMAIN Add(s, r + 1, st, len) :
                           /\ Add(s, r + 1, st, len)[i].guid = r + 1
                           /\ Add(s, r + 1, st, len)[i].start = st
                       THEN [guid |-> r + 1, offset |-> t - st] ELSE Nothing],
         NEW l,
         l = [t \in Times |->
                IF t \in st .. st + len - 1 THEN 0
                ELSE IF t \in OffIn(Among(s), st, st + len) THEN r + 1 ELSE k[t]]
  PROVE  Accounts(Add(s, r + 1, st, len), b, l, r + 1)
<1> DEFINE g == r + 1
           end == st + len
           new == New(g, st, len)
           list == Add(s, g, st, len)
           inList == \E i \in DOMAIN list : list[i].guid = g /\ list[i].start = st
<1>1. /\ Arranged(s) /\ SaidIn(a, r) /\ AgreesIn(Among(s), a, k) /\ MarksIn(a, k)
      /\ EdgesIn(Among(s), a) /\ CompleteIn(Among(s), a)
  BY DEF Accounts
<1>2. r \in Nat /\ a \in [Times -> [guid : 0 .. r, offset : Nat]]
  BY <1>1 DEF SaidIn
<1>3. /\ MinLength \in Nat \ {0} /\ Horizon \in Nat /\ len >= MinLength
      /\ g \in Nat \ {0} /\ end \in Nat /\ st < end
  BY <1>2, SessionListAssumption
<1>4. \A t \in Times : t \in Nat
  BY <1>3 DEF Times
<1>5. new \in Pieces /\ new.guid = g /\ new.start = st /\ Stop(new) = end /\ new.offset = 0
  BY <1>3 DEF New, Pieces, Stop
<1>6. Arranged(list) /\ \E t : Leaves(Among(s), st, end, g, t) /\ (Among(list) = t \/ Among(list) = t \union {new})
  <2> HIDE DEF g
  <2>1. Arranged(s) /\ len >= MinLength /\ g \in Nat \ {0}
    BY <1>1, <1>3
  <2>2. Arranged(Add(s, g, st, len))
    BY <2>1, AddIs
  <2>3. Adds(s, Add(s, g, st, len), g, st, len)
    BY <2>1, AddIs
  <2>4. QED BY <2>2, <2>3 DEF Adds
<1>7. PICK t2 : Leaves(Among(s), st, end, g, t2) /\ (Among(list) = t2 \/ Among(list) = t2 \union {new})
  BY <1>6
<1> HIDE DEF new, list
<1>8. inList <=> \E p \in Among(list) : p.guid = g /\ p.start = st
  <2>1. DOMAIN list = 1 .. Len(list)
    BY <1>6, LenProperties DEF Arranged
  <2>2. QED BY <2>1 DEF Among
<1> HIDE DEF inList
<1>9. b = [t \in Times |-> IF t \notin st .. end - 1 THEN a[t]
                           ELSE IF inList THEN [guid |-> g, offset |-> t - st] ELSE Nothing]
  BY DEF inList, list
<1> HIDE DEF g, end
<1>10. ASSUME NEW t \in Times
       PROVE  /\ t < st \/ end <= t => b[t] = a[t]
              /\ st <= t /\ t < end /\ inList => b[t] = [guid |-> g, offset |-> t - st]
              /\ st <= t /\ t < end /\ ~inList => b[t] = Nothing
  <2>1. t \in Nat
    BY <1>4
  <2>2. t \notin st .. end - 1 <=> t < st \/ end <= t
    BY <1>3, <2>1
  <2>3. b[t] = IF t \notin st .. end - 1 THEN a[t]
               ELSE IF inList THEN [guid |-> g, offset |-> t - st] ELSE Nothing
    BY <1>9
  <2>4. CASE t < st \/ end <= t
    BY <1>3, <2>1, <2>2, <2>3, <2>4
  <2>5. CASE ~(t < st \/ end <= t)
    BY <1>3, <2>1, <2>2, <2>3, <2>5
  <2>6. QED BY <2>4, <2>5
<1>11. Says(a, b, r, st, end)
  <2>1. ASSUME NEW t \in Times PROVE b[t] \in [guid : 0 .. g, offset : Nat]
    <3>1. t \in Nat /\ a[t] \in [guid : 0 .. r, offset : Nat]
      BY <1>2, <1>4
    <3>2. CASE t < st \/ end <= t
      <4>1. 0 .. r \subseteq 0 .. g
        BY <1>2 DEF g
      <4>2. a[t] \in [guid : 0 .. g, offset : Nat]
        BY <3>1, <4>1
      <4>3. QED BY <1>10, <3>2, <4>2
    <3>3. CASE st <= t /\ t < end
      <4>1. t - st \in Nat
        BY <3>1, <3>3
      <4>2. Nothing \in [guid : 0 .. g, offset : Nat]
        BY <1>3 DEF Nothing
      <4>3. [guid |-> g, offset |-> t - st] \in [guid : 0 .. g, offset : Nat]
        BY <1>3, <4>1
      <4>4. b[t] = Nothing \/ b[t] = [guid |-> g, offset |-> t - st]
        BY <1>10, <3>3
      <4>5. QED BY <4>2, <4>3, <4>4
    <3>4. QED BY <1>3, <3>1, <3>2, <3>3
  <2>2. b \in [Times -> [guid : 0 .. g, offset : Nat]]
    <3>1. b = [t \in Times |-> b[t]]
      BY <1>9
    <3>2. QED BY <2>1, <3>1
  <2>3. QED BY <1>10, <2>2 DEF Says, g
<1>12. Told(a, b, r, st, end) /\ SaidIn(b, g)
  BY <1>1, <1>3, <1>11, SaysOf DEF g
<1>13. Splits(Among(s), k, l, r, st, end)
  <2>1. l = [t \in Times |-> IF t \in st .. end - 1 THEN 0
                             ELSE IF t \in OffIn(Among(s), st, end) THEN g ELSE k[t]]
    BY DEF end, g
  <2>2. ASSUME NEW t \in Times
        PROVE  /\ t < st \/ end <= t =>
                    l[t] = IF t \in OffIn(Among(s), st, end) THEN g ELSE k[t]
               /\ st <= t /\ t < end => l[t] = 0
    <3>1. t \in st .. end - 1 <=> st <= t /\ t < end
      BY <1>3, <1>4
    <3>2. t < st \/ end <= t => ~(st <= t /\ t < end)
      BY <1>3, <1>4
    <3>3. l[t] = IF t \in st .. end - 1 THEN 0
                 ELSE IF t \in OffIn(Among(s), st, end) THEN g ELSE k[t]
      BY <2>1
    <3>4. QED BY <3>1, <3>2, <3>3
  <2>3. QED BY <2>2 DEF Splits, g
<1>14. AgreesIn(t2, b, l) /\ EdgesIn(t2, b) /\ MarksIn(b, l)
  <2>1. Leaves(Among(s), st, end, r + 1, t2)
    BY <1>7 DEF g
  <2>2. QED BY <1>1, <1>3, <1>11, <1>13, <2>1, TheyAgree, TheyEnd, TheyMark
<1>15. \A q \in t2 : Stop(q) <= st \/ end <= q.start
  <2>1. ASSUME NEW q \in t2 PROVE Stop(q) <= st \/ end <= q.start
    <3>1. PICK p \in Among(s) : q \in Remains(p, st, end, g)
      BY <1>7 DEF Leaves
    <3>2. QED BY <1>1, <1>3, <3>1, Placed, LeftIs
  <2>2. QED BY <2>1
<1>16. ASSUME NEW t \in Times, t < st \/ end <= t
       PROVE  b[t] = Nothing \/ SliverIn(b, t) \/ \E q \in t2 : Has(q, t)
  BY <1>1, <1>3, <1>7, <1>11, <1>16, StillComplete DEF g
<1>17. CASE Among(list) = t2
  <2>1. ~inList
    <3>1. ASSUME NEW q \in Among(list) PROVE q.start # st
      <4>1. q.start \in Nat /\ Stop(q) \in Nat /\ q.start < Stop(q)
        BY <1>6, Placed
      <4>2. Stop(q) <= st \/ end <= q.start
        BY <1>15, <1>17
      <4>3. QED BY <1>3, <4>1, <4>2
    <3>2. QED BY <1>8, <3>1
  <2>2. ASSUME NEW t \in Times
        PROVE  b[t] = Nothing \/ SliverIn(b, t) \/ \E q \in t2 : Has(q, t)
    <3>1. t \in Nat
      BY <1>4
    <3>2. CASE t < st \/ end <= t
      BY <1>16, <3>2
    <3>3. CASE st <= t /\ t < end
      BY <1>10, <2>1, <3>3
    <3>4. QED BY <1>3, <3>1, <3>2, <3>3
  <2>3. CompleteIn(t2, b)
    BY <2>2 DEF CompleteIn
  <2>4. QED BY <1>6, <1>12, <1>14, <1>17, <2>3 DEF Accounts, g, list
<1>18. CASE Among(list) = t2 \union {new}
  <2>1. inList
    BY <1>5, <1>8, <1>18
  <2>2. \A t \in Times : st <= t /\ t < end => b[t] = [guid |-> g, offset |-> t - st]
    BY <1>10, <2>1
  <2>3. AgreesIn({new}, b, l)
    <3>1. ASSUME NEW t \in Times, Has(new, t)
          PROVE  b[t].guid # 0 /\ b[t].offset = OffsetAt(new, t) /\ new.guid = Under(b, l, t)
      <4>1. t \in Nat /\ st <= t /\ t < end
        BY <1>4, <1>5, <3>1 DEF Has
      <4>2. OffsetAt(new, t) = t - st
        BY <1>5, <4>1 DEF OffsetAt
      <4>3. l[t] = 0
        BY <1>13, <4>1 DEF Splits
      <4>4. b[t].guid = g /\ b[t].offset = t - st
        <5>1. b[t] = [guid |-> g, offset |-> t - st]
          BY <2>2, <4>1
        <5>2. QED BY <5>1
      <4>5. QED BY <1>3, <1>5, <4>2, <4>3, <4>4 DEF Under
    <3>2. QED BY <3>1 DEF AgreesIn
  <2>4. EdgesIn({new}, b)
    <3>1. ASSUME NEW t \in Times, NEW u \in Times, Has(new, u), t = st - 1 \/ t = end
          PROVE  b[t].guid # b[u].guid
      <4>1. u \in Nat /\ st <= u /\ u < end
        BY <1>4, <1>5, <3>1 DEF Has
      <4>2. b[u].guid = g
        <5>1. b[u] = [guid |-> g, offset |-> u - st]
          BY <2>2, <4>1
        <5>2. QED BY <5>1
      <4>3. t < st \/ end <= t
        BY <1>3, <3>1
      <4>4. b[t].guid \in 0 .. r
        BY <1>12, <4>3 DEF Told
      <4>5. QED BY <1>2, <4>2, <4>4 DEF g
    <3>2. QED BY <1>5, <3>1 DEF EdgesIn
  <2>5. ASSUME NEW t \in Times
        PROVE  b[t] = Nothing \/ SliverIn(b, t) \/ \E q \in t2 \union {new} : Has(q, t)
    <3>1. t \in Nat
      BY <1>4
    <3>2. CASE t < st \/ end <= t
      BY <1>16, <3>2
    <3>3. CASE st <= t /\ t < end
      <4>1. Has(new, t)
        BY <1>5, <3>3 DEF Has
      <4>2. QED BY <4>1
    <3>4. QED BY <1>3, <3>1, <3>2, <3>3
  <2>6. CompleteIn(Among(list), b)
    BY <1>18, <2>5 DEF CompleteIn
  <2>7. AgreesIn(Among(list), b, l)
    BY <1>14, <1>18, <2>3 DEF AgreesIn
  <2>8. EdgesIn(Among(list), b)
    BY <1>14, <1>18, <2>4 DEF EdgesIn
  <2>9. Arranged(list) /\ SaidIn(b, g) /\ MarksIn(b, l)
    BY <1>6, <1>12, <1>14
  <2>10. QED BY <2>6, <2>7, <2>8, <2>9 DEF Accounts, g, list
<1>19. QED BY <1>7, <1>17, <1>18

(* An empty list accounts for nothing announced.                           *)
LEMMA NothingSaid ==
  ASSUME NEW r \in Nat
  PROVE  Accounts(<<>>, [t \in Times |-> Nothing], [t \in Times |-> 0], r)
<1> DEFINE a == [t \in Times |-> Nothing]
           k == [t \in Times |-> 0]
<1>1. \A t \in Times : a[t] = Nothing /\ k[t] = 0
  OBVIOUS
<1>2. Nothing \in [guid : 0 .. r, offset : Nat]
  BY DEF Nothing
<1>3. a \in [Times -> [guid : 0 .. r, offset : Nat]]
  BY <1>2
<1> HIDE DEF a, k
<1>4. SaidIn(a, r)
  BY <1>1, <1>3 DEF SaidIn
<1>5. Arranged(<<>>) /\ Among(<<>>) = {}
  BY NoPiece
<1>6. Accounts(<<>>, a, k, r)
  BY <1>1, <1>4, <1>5 DEF Accounts, AgreesIn, MarksIn, EdgesIn, CompleteIn
<1>7. QED BY <1>6 DEF a, k

LEMMA SplitOffIs ==
  ASSUME Arranged(sessioninfo), NEW st, NEW end
  PROVE  SplitOff(st, end) = OffIn(Among(sessioninfo), st, end)
<1>1. DOMAIN sessioninfo = 1 .. Len(sessioninfo)
  BY LenProperties DEF Arranged
<1>2. QED BY <1>1 DEF SplitOff, OffIn, Among

LEMMA AnnounceAccounts == SInv /\ Announce => SInv'
<1> SUFFICES ASSUME SInv, Announce PROVE SInv'
  OBVIOUS
<1>1. PICK st \in Times, len \in 1 .. Horizon :
         LET guid == recordings + 1
             span == st .. st + len - 1
             list == Add(sessioninfo, guid, st, len)
             inList == \E i \in DOMAIN list : list[i].guid = guid /\ list[i].start = st
         IN /\ recordings' = guid
            /\ IF len < MinAdded THEN UNCHANGED <<sessioninfo, announced, renamed>>
               ELSE /\ sessioninfo' = list
                    /\ announced' = [t \in Times |->
                          IF t \notin span THEN announced[t]
                          ELSE IF inList THEN [guid |-> guid, offset |-> t - st] ELSE Nothing]
                    /\ renamed' = [t \in Times |->
                          IF t \in span THEN 0
                          ELSE IF t \in SplitOff(st, st + len) THEN guid ELSE renamed[t]]
  BY DEF Announce
<1>2. st \in Nat /\ len \in Nat /\ MinAdded \in Nat
  BY SessionListAssumption DEF Times
<1>3. CASE len < MinAdded
  <2>1. /\ sessioninfo' = sessioninfo /\ announced' = announced /\ renamed' = renamed
        /\ recordings' = recordings + 1
    BY <1>1, <1>3
  <2>2. SaidIn(announced, recordings + 1)
    BY DEF SInv, Accounts, SaidIn
  <2>3. Accounts(sessioninfo, announced, renamed, recordings + 1)
    BY <2>2 DEF SInv, Accounts
  <2>4. QED BY <2>1, <2>3 DEF SInv
<1>4. CASE ~(len < MinAdded)
  <2>1. len >= MinAdded
    BY <1>2, <1>4
  <2> DEFINE g == recordings + 1
             list == Add(sessioninfo, g, st, len)
             b == [t \in Times |->
                IF t \notin st .. st + len - 1 THEN announced[t]
                ELSE IF \E i \in DOMAIN list : list[i].guid = g /\ list[i].start = st
                       THEN [guid |-> g, offset |-> t - st] ELSE Nothing]
             l == [t \in Times |->
                IF t \in st .. st + len - 1 THEN 0
                ELSE IF t \in OffIn(Among(sessioninfo), st, st + len) THEN g ELSE renamed[t]]
  <2>2. SplitOff(st, st + len) = OffIn(Among(sessioninfo), st, st + len)
    BY SplitOffIs DEF SInv, Accounts
  <2>3. /\ recordings' = g /\ announced' = b /\ renamed' = l
        /\ sessioninfo' = list
    BY <1>1, <1>4, <2>2
  <2>4. Accounts(list, b, l, g)
    BY <1>2, <2>1, Announcing DEF SInv
  <2>5. QED BY <2>3, <2>4 DEF SInv
<1>5. QED BY <1>3, <1>4

LEMMA SessionAccounts == SessionSpec => []SInv
<1>1. SessionInit => SInv
  <2> SUFFICES ASSUME SessionInit PROVE SInv
    OBVIOUS
  <2>1. /\ sessioninfo = <<>> /\ recordings = 0 /\ announced = [t \in Times |-> Nothing]
        /\ renamed = [t \in Times |-> 0]
    BY DEF SessionInit
  <2>2. QED BY <2>1, NothingSaid DEF SInv
<1>2. SInv /\ [SessionNext]_sessionVars => SInv'
  <2> SUFFICES ASSUME SInv, [SessionNext]_sessionVars PROVE SInv'
    OBVIOUS
  <2>1. CASE UNCHANGED sessionVars
    BY <2>1 DEF SInv, sessionVars
  <2>2. CASE Announce
    BY <2>2, AnnounceAccounts
  <2>3. CASE ClearSessionInfo
    <3>1. /\ sessioninfo' = <<>> /\ recordings' = recordings
          /\ announced' = [t \in Times |-> Nothing] /\ renamed' = [t \in Times |-> 0]
      BY <2>3 DEF ClearSessionInfo
    <3>2. recordings \in Nat
      BY DEF SInv, Accounts, SaidIn
    <3>3. QED BY <3>1, <3>2, NothingSaid DEF SInv
  <2>4. QED BY <2>1, <2>2, <2>3 DEF SessionNext
<1>3. QED BY <1>1, <1>2, PTL DEF SessionSpec

LEMMA AccountsPlay == SInv => PlaysTheLatest
<1> SUFFICES ASSUME SInv, NEW t \in Times
             PROVE  GetSessionInfo(t) = Promised(t) \/ (GetSessionInfo(t) = Nothing /\ Sliver(t))
  BY DEF PlaysTheLatest
<1> DEFINE at == {i \in DOMAIN sessioninfo : sessioninfo[i].start <= t /\ t < Stop(sessioninfo[i])}
<1>1. /\ Arranged(sessioninfo) /\ AgreesIn(Among(sessioninfo), announced, renamed)
      /\ announced[t] \in [guid : 0 .. recordings, offset : Nat]
      /\ announced[t].guid = 0 => renamed[t] = 0
      /\ CompleteIn(Among(sessioninfo), announced)
  BY DEF SInv, Accounts, SaidIn, MarksIn
<1>2. DOMAIN sessioninfo = 1 .. Len(sessioninfo)
  BY <1>1, LenProperties DEF Arranged
<1>3. CASE at = {}
  <2>1. GetSessionInfo(t) = Nothing
    BY <1>3 DEF GetSessionInfo
  <2>2. ~ \E p \in Among(sessioninfo) : Has(p, t)
    BY <1>2, <1>3 DEF Among, Has
  <2>3. announced[t] = Nothing \/ SliverIn(announced, t)
    BY <1>1, <2>2 DEF CompleteIn
  <2>4. SliverIn(announced, t) => Sliver(t)
    BY DEF SliverIn, Sliver
  <2>5. announced[t] = Nothing => Promised(t) = Nothing
    BY <1>1 DEF Promised, Nothing
  <2>6. QED BY <2>1, <2>3, <2>4, <2>5
<1>4. CASE at # {}
  <2> DEFINE i == CHOOSE j \in at : TRUE
             p == sessioninfo[i]
  <2>1. i \in at
    BY <1>4
  <2>2. GetSessionInfo(t) = [guid |-> p.guid, offset |-> OffsetAt(p, t)]
    BY <1>4 DEF GetSessionInfo
  <2> HIDE DEF i
  <2>3. p \in Among(sessioninfo) /\ Has(p, t)
    BY <1>2, <2>1 DEF Among, Has
  <2>4. announced[t].offset = OffsetAt(p, t) /\ p.guid = Under(announced, renamed, t)
    BY <1>1, <2>3 DEF AgreesIn
  <2>5. Promised(t) = [guid |-> p.guid, offset |-> OffsetAt(p, t)]
    BY <1>1, <2>4 DEF Promised, Under
  <2>6. QED BY <2>2, <2>5
<1>5. QED BY <1>3, <1>4

(* At every time the list has what the last announcement of that time      *)
(* said, from the right place of the recording, or nothing where what is   *)
(* left of it is shorter than the shortest piece; behind an announcement   *)
(* that has split a piece it is the right place under the recording that   *)
(* split it, and nowhere else a recording that was not announced there     *)
(* (AddSessionInfo, GetSessionInfo).                                       *)
THEOREM SessionPlaysTheLatest == SessionSpec => []PlaysTheLatest
  BY SessionAccounts, AccountsPlay, PTL
-----------------------------------------------------------------------------
(***************************************************************************)
(* A download serves its decoder (DownloadServes), for any channels,       *)
(* timeout and playtimes and for any number of downloads and bytes.        *)
(*                                                                         *)
(* The buffer of a download has two references at most: the download's and *)
(* that of one decoder, which is in one place of one channel, or with the  *)
(* thread that is to release it.  The count never says less than there are,*)
(* and neither does what a thread has read of it: between the read and the *)
(* write of a release no reference is added, for a reference is added only *)
(* by a download that has not started, and what the thread holds would be  *)
(* that download's or that decoder's.  So the count reaches 0 with the last*)
(* reference, if at all.                                                   *)
(*                                                                         *)
(* What has not started is in the list, or has been silent too long.       *)
(***************************************************************************)

-----------------------------------------------------------------------------
(* Who holds the buffer of id: the download, one decoder, or a thread that *)
(* is to release the reference of either.                                  *)
SlotPlaces == Channels \X (0 .. 2)
SlotAt(p) == slots[p[1]][p[2]]
Released(ref) == \E t \in Threads : ref \in releases[t]
DownHolds(id) == id \in DOMAIN downloads \/ Released(<<id, "download">>)
DecHolds(id)  == (\E p \in SlotPlaces : SlotAt(p) = id) \/ Released(<<id, "decoder">>)
One(b)   == IF b THEN 1 ELSE 0
Refs(id) == One(DownHolds(id)) + One(DecHolds(id))

DownTypes ==
  /\ begun \in Nat /\ begun <= MaxDownloads
  /\ DOMAIN downloads \subseteq 1 .. begun /\ coming \subseteq 1 .. begun
  /\ downloads \in [DOMAIN downloads -> [chidx : Channels \union {NoChannel}, size : Nat, ago : Nat]]
  /\ slots \in [Channels -> [0 .. 2 -> 0 .. begun]]
  /\ releases \in [Threads -> SUBSET ((1 .. begun) \X {"download", "decoder"})]
  /\ counted \in [Threads -> [ref : Nat \X {"download", "decoder"}, count : Int]]
  /\ refcnt \in [Ids -> Int] /\ freed \in [Ids -> Nat] /\ pause \in [Ids -> Nat]
  /\ fate \in [Ids -> {"coming", "started", "lost"}]
  /\ \A id \in Ids : id > begun => freed[id] = 0 /\ fate[id] = "coming"

(* Each reference is in one place.                                         *)
Alone ==
  /\ \A p, o \in SlotPlaces : SlotAt(p) = SlotAt(o) /\ SlotAt(p) # 0 => p = o
  /\ \A p \in SlotPlaces : ~Released(<<SlotAt(p), "decoder">>)
  /\ \A t, u \in Threads : t # u => releases[t] \intersect releases[u] = {}
  /\ \A id \in DOMAIN downloads : ~Released(<<id, "download">>)

(* A download starts once.                                                 *)
StartsOnce == \A id \in DOMAIN downloads : DecHolds(id) => downloads[id].chidx = NoChannel

(* The count, and what a thread has read of it, is never below the number  *)
(* of references.                                                          *)
CountsAll ==
  /\ \A id \in Ids : refcnt[id] >= Refs(id)
  /\ \A t \in Threads : counted[t] # NoCount => counted[t].ref \in releases[t]
  /\ \A t \in Threads, id \in Ids :
       counted[t] # NoCount /\ counted[t].ref[1] = id => counted[t].count >= Refs(id)
  /\ \A id \in Ids : freed[id] <= 1 /\ (freed[id] = 1 => Refs(id) = 0)

(* What has not begun to play is in the list, or has been silent too long. *)
Listed ==
  /\ DOMAIN downloads \subseteq coming /\ \A id \in coming : fate[id] # "lost"
  /\ \A id \in DOMAIN downloads : downloads[id].chidx = NoChannel => fate[id] = "started"
  /\ \A id \in coming : fate[id] = "coming" =>
       pause[id] > Timeout \/ (id \in DOMAIN downloads /\ downloads[id].ago <= pause[id])
DownInv == DownTypes /\ Alone /\ StartsOnce /\ CountsAll /\ Listed /\ PlaysUnlessSilent

LEMMA RefsAre ==
  ASSUME NEW id
  PROVE  /\ Refs(id) \in 0 .. 2
         /\ DownHolds(id) \/ DecHolds(id) => Refs(id) >= 1
         /\ ~DownHolds(id) /\ ~DecHolds(id) => Refs(id) = 0
         /\ DownHolds(id) /\ DecHolds(id) => Refs(id) = 2
         /\ ~(DownHolds(id) /\ DecHolds(id)) => Refs(id) <= 1
<1>1. CASE DownHolds(id) /\ DecHolds(id)
  BY <1>1 DEF Refs, One
<1>2. CASE DownHolds(id) /\ ~DecHolds(id)
  BY <1>2 DEF Refs, One
<1>3. CASE ~DownHolds(id) /\ DecHolds(id)
  BY <1>3 DEF Refs, One
<1>4. CASE ~DownHolds(id) /\ ~DecHolds(id)
  BY <1>4 DEF Refs, One
<1>5. QED BY <1>1, <1>2, <1>3, <1>4, Zenon

LEMMA RefsAreThen ==
  ASSUME NEW id
  PROVE  /\ Refs(id)' \in 0 .. 2
         /\ DownHolds(id)' \/ DecHolds(id)' => Refs(id)' >= 1
         /\ ~DownHolds(id)' /\ ~DecHolds(id)' => Refs(id)' = 0
         /\ DownHolds(id)' /\ DecHolds(id)' => Refs(id)' = 2
         /\ ~(DownHolds(id)' /\ DecHolds(id)') => Refs(id)' <= 1
<1>1. CASE DownHolds(id)' /\ DecHolds(id)'
  BY <1>1 DEF Refs, One
<1>2. CASE DownHolds(id)' /\ ~DecHolds(id)'
  BY <1>2 DEF Refs, One
<1>3. CASE ~DownHolds(id)' /\ DecHolds(id)'
  BY <1>3 DEF Refs, One
<1>4. CASE ~DownHolds(id)' /\ ~DecHolds(id)'
  BY <1>4 DEF Refs, One
<1>5. QED BY <1>1, <1>2, <1>3, <1>4, Zenon

LEMMA RefsCompare ==
  ASSUME NEW id
  PROVE  /\ (DownHolds(id)' => DownHolds(id)) /\ (DecHolds(id)' => DecHolds(id)) => Refs(id)' <= Refs(id)
         /\ (DownHolds(id)' => DownHolds(id)) => Refs(id)' <= Refs(id) + 1
         /\ (DownHolds(id)' => DownHolds(id)) /\ (DecHolds(id)' => DecHolds(id))
              /\ ((DownHolds(id) /\ ~DownHolds(id)') \/ (DecHolds(id) /\ ~DecHolds(id)')) => Refs(id)' <= Refs(id) - 1
<1>0. /\ Refs(id) \in 0 .. 2 /\ Refs(id)' \in 0 .. 2
      /\ One(TRUE) = 1 /\ One(FALSE) = 0
  BY RefsAre, RefsAreThen DEF One
<1> DEFINE a == DownHolds(id)
           b == DecHolds(id)
           c == DownHolds(id)'
           d == DecHolds(id)'
           n == Refs(id)
           m == Refs(id)'
<1>1. /\ (a \/ b => n >= 1) /\ (~a /\ ~b => n = 0) /\ (a /\ b => n = 2) /\ (~(a /\ b) => n <= 1)
      /\ (c \/ d => m >= 1) /\ (~c /\ ~d => m = 0) /\ (c /\ d => m = 2) /\ (~(c /\ d) => m <= 1)
  BY RefsAre, RefsAreThen
<1>2. n \in 0 .. 2 /\ m \in 0 .. 2
  BY <1>0
<1> HIDE DEF a, b, c, d, n, m
<1>3. /\ (c => a) /\ (d => b) => m <= n
      /\ (c => a) => m <= n + 1
      /\ (c => a) /\ (d => b) /\ ((a /\ ~c) \/ (b /\ ~d)) => m <= n - 1
  BY <1>1, <1>2
<1>4. QED BY <1>3 DEF a, b, c, d, n, m

(* References change hands: thread t takes those of R, to release them; a  *)
(* download of starting begins to play.                                    *)
Moves(t, R, starting) ==
  /\ t \in Threads /\ Idle(t) /\ R \subseteq References
  /\ releases' = [releases EXCEPT ![t] = R] /\ counted' = counted /\ freed' = freed
  /\ starting \subseteq DOMAIN downloads /\ \A id \in starting : ~DecHolds(id)
  /\ refcnt' = [id \in Ids |-> IF id \in starting THEN refcnt[id] + 1 ELSE refcnt[id]]
  /\ \A id \in Ids : <<id, "decoder">> \in R =>
       (\E p \in SlotPlaces : SlotAt(p) = id) /\ \A p \in SlotPlaces : SlotAt(p)' # id
  /\ \A p \in SlotPlaces : SlotAt(p)' \in Ids \union {0}
  /\ \A p \in SlotPlaces : SlotAt(p)' # 0 => SlotAt(p)' \in starting \/ \E o \in SlotPlaces : SlotAt(o) = SlotAt(p)'
  /\ \A p, o \in SlotPlaces : SlotAt(p)' = SlotAt(o)' /\ SlotAt(p)' # 0 => p = o
  /\ DOMAIN downloads' \subseteq DOMAIN downloads
  /\ \A id \in Ids : <<id, "download">> \in R => id \in DOMAIN downloads /\ id \notin DOMAIN downloads'
  /\ \A id \in DOMAIN downloads' :
       downloads'[id].chidx # NoChannel => downloads[id].chidx # NoChannel /\ id \notin starting

SharedInv == DownTypes /\ Alone /\ StartsOnce /\ CountsAll

LEMMA IdsSoFar ==
  ASSUME DownTypes
  PROVE  /\ 1 .. begun \subseteq Ids /\ DOMAIN downloads \subseteq Ids
         /\ \A t \in Threads : releases[t] \subseteq References
         /\ \A p \in SlotPlaces : SlotAt(p) \in Ids \union {0}
<1>1. 1 .. begun \subseteq Ids /\ begun \in Nat
  BY DownloadsAssumption DEF DownTypes, Ids
<1>2. DOMAIN downloads \subseteq Ids
  BY <1>1 DEF DownTypes
<1>3. \A t \in Threads : releases[t] \subseteq References
  BY <1>1 DEF DownTypes, References
<1>4. ASSUME NEW p \in SlotPlaces PROVE SlotAt(p) \in Ids \union {0}
  <2>1. SlotAt(p) \in 0 .. begun
    BY DEF SlotPlaces, SlotAt, DownTypes
  <2>2. 0 .. begun = (1 .. begun) \union {0}
    BY <1>1
  <2>3. QED BY <1>1, <2>1, <2>2
<1>5. QED BY <1>1, <1>2, <1>3, <1>4

LEMMA MovesKeep ==
  ASSUME SharedInv, NEW t, NEW R, NEW starting, Moves(t, R, starting)
  PROVE  Alone' /\ StartsOnce' /\ CountsAll'
<1>1. /\ t \in Threads /\ releases[t] = {} /\ R \subseteq References
      /\ \A u \in Threads : releases'[u] = IF u = t THEN R ELSE releases[u]
  BY DEF Moves, SharedInv, DownTypes, Idle
<1>2. \A u \in Threads : releases[u] \subseteq References
  BY IdsSoFar DEF SharedInv
<1>3. ASSUME NEW ref \in References
      PROVE  /\ Released(ref)' <=> Released(ref) \/ ref \in R
             /\ ref \in R => ~Released(ref)
  <2>1. Released(ref)' <=> Released(ref) \/ ref \in R
    BY <1>1 DEF Released
  <2>2. ASSUME ref \in R PROVE ~Released(ref)
    <3>1. ref[1] \in Ids /\ (ref = <<ref[1], "download">> \/ ref = <<ref[1], "decoder">>)
      BY DEF References
    <3>2. CASE ref = <<ref[1], "download">>
      <4>1. ref[1] \in DOMAIN downloads
        BY <2>2, <3>1, <3>2 DEF Moves
      <4>2. QED BY <3>2, <4>1 DEF SharedInv, Alone
    <3>3. CASE ref = <<ref[1], "decoder">>
      <4>1. PICK p \in SlotPlaces : SlotAt(p) = ref[1]
        BY <2>2, <3>1, <3>3 DEF Moves
      <4>2. QED BY <3>3, <4>1 DEF SharedInv, Alone
    <3>4. QED BY <3>1, <3>2, <3>3
  <2>3. QED BY <2>1, <2>2
<1>4. ASSUME NEW id \in Ids PROVE <<id, "download">> \in References /\ <<id, "decoder">> \in References
  BY DEF References
<1>5. ASSUME NEW id \in Ids PROVE DownHolds(id)' => DownHolds(id)
  BY <1>3, <1>4 DEF DownHolds, Moves
<1>6. ASSUME NEW id \in Ids, id \notin starting PROVE DecHolds(id)' => DecHolds(id)
  <2>1. ASSUME Released(<<id, "decoder">>)' PROVE DecHolds(id)
    BY <1>3, <1>4, <2>1 DEF DecHolds, Moves
  <2>2. ASSUME NEW p \in SlotPlaces, SlotAt(p)' = id PROVE DecHolds(id)
    <3>1. SlotAt(p)' # 0
      BY <2>2 DEF Ids
    <3>2. \E o \in SlotPlaces : SlotAt(o) = SlotAt(p)'
      BY <1>6, <2>2, <3>1 DEF Moves
    <3>3. QED BY <2>2, <3>2 DEF DecHolds
  <2>3. QED BY <2>1, <2>2 DEF DecHolds
<1>7. Alone'
  <2>1. \A p, o \in SlotPlaces : SlotAt(p)' = SlotAt(o)' /\ SlotAt(p)' # 0 => p = o
    BY DEF Moves
  <2>2. ASSUME NEW p \in SlotPlaces PROVE ~Released(<<SlotAt(p), "decoder">>)'
    <3> DEFINE id == SlotAt(p)'
               ref == <<id, "decoder">>
    <3>1. CASE id = 0
      <4>1. ref \notin References
        BY <3>1 DEF References, Ids
      <4>2. \A u \in Threads : releases'[u] \subseteq References
        BY <1>1, <1>2
      <4>3. ~ \E u \in Threads : ref \in releases'[u]
        BY <4>1, <4>2
      <4>4. QED BY <4>3 DEF Released
    <3>2. CASE id # 0
      <4>1. id \in Ids /\ ref \in References
        BY <1>4, <3>2 DEF Moves
      <4>2. ref \notin R
        BY <4>1 DEF Moves
      <4>3. ~Released(ref)
        <5>1. CASE id \in starting
          BY <5>1 DEF Moves, DecHolds
        <5>2. CASE \E o \in SlotPlaces : SlotAt(o) = id
          BY <5>2 DEF SharedInv, Alone
        <5>3. QED BY <3>2, <5>1, <5>2 DEF Moves
      <4>4. ~ (\E u \in Threads : ref \in releases'[u])
        BY <1>1, <4>2, <4>3 DEF Released
      <4>5. QED BY <4>4 DEF Released
    <3>3. QED BY <3>1, <3>2
  <2>3. ASSUME NEW u \in Threads, NEW v \in Threads, u # v PROVE releases'[u] \intersect releases'[v] = {}
    <3>1. ASSUME NEW ref \in releases'[u], ref \in releases'[v] PROVE FALSE
      <4>1. ref \in References
        BY <1>1, <1>2, <3>1
      <4>2. CASE u = t
        BY <1>1, <1>3, <2>3, <3>1, <4>1, <4>2 DEF Released
      <4>3. CASE v = t
        BY <1>1, <1>3, <2>3, <3>1, <4>1, <4>3 DEF Released
      <4>4. CASE u # t /\ v # t
        BY <1>1, <2>3, <3>1, <4>4 DEF SharedInv, Alone
      <4>5. QED BY <4>2, <4>3, <4>4
    <3>2. QED BY <3>1
  <2>4. ASSUME NEW id \in DOMAIN downloads' PROVE ~Released(<<id, "download">>)'
    <3>1. id \in DOMAIN downloads /\ id \in Ids
      BY IdsSoFar DEF Moves, SharedInv
    <3>2. ~Released(<<id, "download">>) /\ <<id, "download">> \notin R
      BY <3>1 DEF SharedInv, Alone, Moves
    <3>3. QED BY <1>3, <1>4, <3>1, <3>2
  <2>5. QED BY <2>1, <2>2, <2>3, <2>4 DEF Alone
<1>8. StartsOnce'
  <2>1. ASSUME NEW id \in DOMAIN downloads', DecHolds(id)', downloads'[id].chidx # NoChannel PROVE FALSE
    <3>1. id \in DOMAIN downloads /\ id \in Ids /\ downloads[id].chidx # NoChannel /\ id \notin starting
      BY <2>1, IdsSoFar DEF Moves, SharedInv
    <3>2. DecHolds(id)
      BY <1>6, <2>1, <3>1
    <3>3. QED BY <3>1, <3>2 DEF SharedInv, StartsOnce
  <2>2. QED BY <2>1 DEF StartsOnce
<1>9. CountsAll'
  <2>1. ASSUME NEW id \in Ids
        PROVE  /\ id \notin starting => Refs(id)' <= Refs(id)
               /\ Refs(id)' <= Refs(id) + 1
               /\ Refs(id) \in 0 .. 2 /\ Refs(id)' \in 0 .. 2
    BY <1>5, <1>6, RefsCompare, RefsAre, RefsAreThen
  <2>2. ASSUME NEW id \in Ids PROVE refcnt'[id] >= Refs(id)'
    <3>1. refcnt[id] >= Refs(id) /\ refcnt[id] \in Int
      BY DEF SharedInv, CountsAll, DownTypes
    <3>2. refcnt'[id] = IF id \in starting THEN refcnt[id] + 1 ELSE refcnt[id]
      BY DEF Moves
    <3>3. QED BY <2>1, <3>1, <3>2
  <2>3. ASSUME NEW u \in Threads, counted'[u] # NoCount PROVE counted'[u].ref \in releases'[u] /\ u # t
    BY <1>1, <2>3 DEF Moves, SharedInv, CountsAll
  <2>4. ASSUME NEW u \in Threads, NEW id \in Ids, counted'[u] # NoCount, counted'[u].ref[1] = id
        PROVE  counted'[u].count >= Refs(id)'
    <3> DEFINE ref == counted[u].ref
               n == counted[u].count
    <3>1. counted' = counted
      BY DEF Moves
    <3>2. ref \in releases[u] /\ ref[1] = id /\ n >= Refs(id) /\ n \in Int
      BY <2>4, <3>1 DEF SharedInv, CountsAll, DownTypes
    <3>3. ref \in References
      BY <1>2, <3>2
    <3>4. ref = <<id, "download">> \/ ref = <<id, "decoder">>
      BY <3>2, <3>3 DEF References
    <3>5. id \notin starting
      <4>1. ASSUME id \in starting PROVE FALSE
        <5>1. id \in DOMAIN downloads /\ ~DecHolds(id)
          BY <4>1 DEF Moves
        <5>2. Released(ref)
          BY <3>2 DEF Released
        <5>3. CASE ref = <<id, "download">>
          BY <5>1, <5>2, <5>3 DEF SharedInv, Alone
        <5>4. CASE ref = <<id, "decoder">>
          BY <5>1, <5>2, <5>4 DEF DecHolds
        <5>5. QED BY <3>4, <5>3, <5>4
      <4>2. QED BY <4>1
    <3>6. n >= Refs(id)'
      <4>1. Refs(id)' <= Refs(id) /\ Refs(id) \in Int /\ Refs(id)' \in Int
        BY <2>1, <3>5
      <4> HIDE DEF n
      <4>2. QED BY <3>2, <4>1
    <3>7. QED BY <3>1, <3>6
  <2>5. ASSUME NEW id \in Ids PROVE freed'[id] <= 1 /\ (freed'[id] = 1 => Refs(id)' = 0)
    <3>1. freed' = freed /\ freed[id] <= 1 /\ (freed[id] = 1 => Refs(id) = 0)
      BY DEF Moves, SharedInv, CountsAll
    <3>2. ASSUME id \in starting PROVE freed[id] # 1
      <4>1. DownHolds(id)
        BY <3>2 DEF Moves, DownHolds
      <4>2. Refs(id) >= 1
        BY <4>1, RefsAre
      <4>3. QED BY <3>1, <4>2
    <3>3. ASSUME freed[id] = 1 PROVE Refs(id)' = 0
      <4>1. Refs(id)' <= Refs(id) /\ Refs(id) = 0 /\ Refs(id)' \in 0 .. 2
        BY <2>1, <3>1, <3>2, <3>3
      <4>2. QED BY <4>1
    <3>4. QED BY <3>1, <3>3
  <2>6. QED BY <2>2, <2>3, <2>4, <2>5 DEF CountsAll
<1>10. QED BY <1>7, <1>8, <1>9

LEMMA MovesTypes ==
  ASSUME SharedInv, NEW t, NEW R, NEW starting, Moves(t, R, starting),
         begun' = begun, coming' \subseteq coming,
         slots' \in [Channels -> [0 .. 2 -> 0 .. begun]],
         downloads' \in [DOMAIN downloads' -> [chidx : Channels \union {NoChannel}, size : Nat, ago : Nat]],
         pause' \in [Ids -> Nat], fate' \in [Ids -> {"coming", "started", "lost"}],
         \A id \in Ids : id > begun => fate'[id] = "coming"
  PROVE  DownTypes'
<1>1. ASSUME NEW ref \in R PROVE ref \in (1 .. begun) \X {"download", "decoder"}
  <2>1. ref[1] \in Ids /\ (ref = <<ref[1], "download">> \/ ref = <<ref[1], "decoder">>)
    BY DEF Moves, References
  <2>2. CASE ref = <<ref[1], "download">>
    <3>1. ref[1] \in DOMAIN downloads
      BY <2>1, <2>2 DEF Moves
    <3>2. QED BY <2>2, <3>1 DEF SharedInv, DownTypes
  <2>3. CASE ref = <<ref[1], "decoder">>
    <3>1. PICK p \in SlotPlaces : SlotAt(p) = ref[1]
      BY <2>1, <2>3 DEF Moves
    <3>2. SlotAt(p) \in 0 .. begun
      BY DEF SlotPlaces, SlotAt, SharedInv, DownTypes
    <3>3. QED BY <2>1, <2>3, <3>1, <3>2 DEF Ids, SharedInv, DownTypes
  <2>4. QED BY <2>1, <2>2, <2>3
<1>2. releases' \in [Threads -> SUBSET ((1 .. begun) \X {"download", "decoder"})]
  BY <1>1 DEF Moves, SharedInv, DownTypes
<1>3. refcnt' \in [Ids -> Int]
  <2>1. \A id \in Ids : refcnt[id] \in Int
    BY DEF SharedInv, DownTypes
  <2>2. refcnt' = [id \in Ids |-> IF id \in starting THEN refcnt[id] + 1 ELSE refcnt[id]]
    BY DEF Moves
  <2>3. QED BY <2>1, <2>2
<1>4. DOMAIN downloads' \subseteq 1 .. begun /\ coming' \subseteq 1 .. begun
  BY DEF Moves, SharedInv, DownTypes
<1>5. freed' = freed /\ counted' = counted
  BY DEF Moves
<1>6. QED BY <1>2, <1>3, <1>4, <1>5 DEF SharedInv, DownTypes

LEMMA ListedSame ==
  ASSUME Listed, PlaysUnlessSilent, UNCHANGED <<downloads, coming, pause, fate>>
  PROVE  Listed' /\ PlaysUnlessSilent'
BY DEF Listed, PlaysUnlessSilent

(* A decoder taken out of its place, or put into it.                       *)
LEMMA AtPlace ==
  ASSUME DownTypes
  PROVE  /\ \A ch \in Channels, i \in 0 .. 2 : <<ch, i>> \in SlotPlaces /\ SlotAt(<<ch, i>>) = slots[ch][i]
         /\ \A p \in SlotPlaces : /\ p[1] \in Channels /\ p[2] \in 0 .. 2 /\ p = <<p[1], p[2]>>
                              /\ SlotAt(p) = slots[p[1]][p[2]]
         /\ \A ch \in Channels : UseIdx(ch) \in 1 .. 2
BY DEF SlotPlaces, SlotAt, UseIdx

LEMMA PutAt ==
  ASSUME DownTypes, NEW ch \in Channels, NEW u \in 0 .. 2, NEW v \in 0 .. begun,
         slots' = [slots EXCEPT ![ch][u] = v]
  PROVE  /\ slots' \in [Channels -> [0 .. 2 -> 0 .. begun]]
         /\ \A p \in SlotPlaces : SlotAt(p)' = IF p = <<ch, u>> THEN v ELSE SlotAt(p)
<1>1. slots \in [Channels -> [0 .. 2 -> 0 .. begun]]
  BY DEF DownTypes
<1>2. [slots[ch] EXCEPT ![u] = v] \in [0 .. 2 -> 0 .. begun]
  BY <1>1
<1>3. slots' = [slots EXCEPT ![ch] = [slots[ch] EXCEPT ![u] = v]]
  BY <1>1
<1>4. slots' \in [Channels -> [0 .. 2 -> 0 .. begun]]
  BY <1>1, <1>2, <1>3
<1>5. ASSUME NEW p \in SlotPlaces PROVE SlotAt(p)' = IF p = <<ch, u>> THEN v ELSE SlotAt(p)
  <2>1. p[1] \in Channels /\ p[2] \in 0 .. 2 /\ p = <<p[1], p[2]>>
    BY AtPlace
  <2>2. slots'[p[1]][p[2]] = IF p[1] = ch /\ p[2] = u THEN v ELSE slots[p[1]][p[2]]
    BY <1>1, <1>3, <2>1
  <2>3. QED BY <2>1, <2>2 DEF SlotAt
<1>6. QED BY <1>4, <1>5

LEMMA BeginSilenceKeeps ==
  ASSUME DownInv, NEW ch \in Channels, BeginSilence(ch)
  PROVE  DownInv'
<1> DEFINE u == UseIdx(ch)
           q == <<ch, u>>
           R == Decoding({SlotAt(q)})
<1>0. SharedInv /\ DownTypes
  BY DEF DownInv, SharedInv
<1>1. u \in 0 .. 2 /\ u \in 1 .. 2
  BY <1>0, AtPlace
<1>2. q \in SlotPlaces /\ SlotAt(q) = slots[ch][u]
  BY <1>1 DEF SlotPlaces, SlotAt
<1>3. /\ SlotAt(q) # 0 /\ slots' = [slots EXCEPT ![ch][u] = 0] /\ 0 \in 0 .. begun
      /\ releases' = [releases EXCEPT !["network"] = R]
  <2>1. slots[ch][u] # 0 /\ slots' = [slots EXCEPT ![ch][u] = 0]
        /\ releases' = [releases EXCEPT !["network"] = Decoding({slots[ch][u]})]
    BY DEF BeginSilence
  <2>2. 0 \in 0 .. begun
    BY <1>0 DEF DownTypes
  <2> HIDE DEF u, q
  <2>3. QED BY <1>2, <2>1, <2>2
<1>4. R = Decoding({SlotAt(q)})
  OBVIOUS
<1> HIDE DEF R
<1>5. /\ slots' \in [Channels -> [0 .. 2 -> 0 .. begun]]
      /\ \A p \in SlotPlaces : SlotAt(p)' = IF p = q THEN 0 ELSE SlotAt(p)
  <2> HIDE DEF u
  <2>1. QED BY <1>0, <1>1, <1>3, PutAt
<1> HIDE DEF q, u
<1>6. \A p \in SlotPlaces : SlotAt(p) \in Ids \union {0}
  BY <1>0, IdsSoFar
<1>7. R \subseteq References /\ \A id \in Ids : <<id, "decoder">> \in R <=> id = SlotAt(q)
  BY <1>2, <1>3, <1>4, <1>6 DEF Decoding, References, Ids
<1>8. \A id \in Ids : <<id, "download">> \notin R
  BY <1>4 DEF Decoding
<1>9. refcnt' = [id \in Ids |-> IF id \in {} THEN refcnt[id] + 1 ELSE refcnt[id]]
  BY <1>0 DEF BeginSilence, DownTypes
<1>10. Moves("network", R, {})
  <2>1. "network" \in Threads /\ Idle("network") /\ counted' = counted /\ freed' = freed /\ downloads' = downloads
    BY DEF BeginSilence, Threads
  <2>2. \A id \in Ids : <<id, "decoder">> \in R => (\E p \in SlotPlaces : SlotAt(p) = id) /\ \A p \in SlotPlaces : SlotAt(p)' # id
    BY <1>0, <1>2, <1>5, <1>7 DEF SharedInv, Alone, Ids
  <2>3. /\ \A p \in SlotPlaces : SlotAt(p)' \in Ids \union {0}
        /\ \A p \in SlotPlaces : SlotAt(p)' # 0 => \E o \in SlotPlaces : SlotAt(o) = SlotAt(p)'
        /\ \A p, o \in SlotPlaces : SlotAt(p)' = SlotAt(o)' /\ SlotAt(p)' # 0 => p = o
    BY <1>0, <1>5, <1>6 DEF SharedInv, Alone
  <2>4. QED BY <1>3, <1>7, <1>8, <1>9, <2>1, <2>2, <2>3 DEF Moves
<1>11. begun' = begun /\ coming' = coming /\ pause' = pause /\ fate' = fate /\ downloads' = downloads
  BY DEF BeginSilence
<1>12. DownTypes'
  BY <1>0, <1>5, <1>10, <1>11, MovesTypes DEF DownTypes
<1>13. Alone' /\ StartsOnce' /\ CountsAll'
  BY <1>0, <1>10, MovesKeep
<1>14. Listed' /\ PlaysUnlessSilent'
  BY <1>11, ListedSame DEF DownInv
<1>15. QED BY <1>12, <1>13, <1>14 DEF DownInv

(* Channels are flushed.                                                   *)
LEMMA EmptiedAt ==
  ASSUME DownTypes, NEW chans \in SUBSET Channels, Emptied(chans)
  PROVE  /\ slots' \in [Channels -> [0 .. 2 -> 0 .. begun]]
         /\ \A p \in SlotPlaces : SlotAt(p)' = IF p[1] \in chans THEN 0 ELSE SlotAt(p)
         /\ Decoders(chans) \subseteq References
         /\ \A id \in Ids : <<id, "decoder">> \in Decoders(chans) <=> \E p \in SlotPlaces : p[1] \in chans /\ SlotAt(p) = id
         /\ \A id \in Ids : <<id, "download">> \notin Decoders(chans)
<1>1. slots \in [Channels -> [0 .. 2 -> 0 .. begun]] /\ begun \in Nat
  BY DEF DownTypes
<1>2. Empty \in [0 .. 2 -> 0 .. begun]
  BY <1>1 DEF Empty
<1>3. slots' \in [Channels -> [0 .. 2 -> 0 .. begun]]
  BY <1>1, <1>2 DEF Emptied
<1>4. ASSUME NEW p \in SlotPlaces PROVE SlotAt(p)' = IF p[1] \in chans THEN 0 ELSE SlotAt(p)
  <2>1. p[1] \in Channels /\ p[2] \in 0 .. 2
    BY AtPlace
  <2>2. slots'[p[1]] = IF p[1] \in chans THEN Empty ELSE slots[p[1]]
    BY <2>1 DEF Emptied
  <2>3. Empty[p[2]] = 0
    BY <2>1 DEF Empty
  <2>4. QED BY <2>2, <2>3 DEF SlotAt
<1>5. \A p \in SlotPlaces : SlotAt(p) \in Ids \union {0}
  BY IdsSoFar
<1> DEFINE S == {slots[ch][i] : ch \in chans, i \in 0 .. 2}
<1>6. ASSUME NEW ch \in chans, NEW i \in 0 .. 2
      PROVE  <<ch, i>> \in SlotPlaces /\ <<ch, i>>[1] \in chans /\ slots[ch][i] = SlotAt(<<ch, i>>)
  BY DEF SlotPlaces, SlotAt
<1>7. S \subseteq Ids \union {0}
  <2>1. ASSUME NEW ch \in chans, NEW i \in 0 .. 2 PROVE slots[ch][i] \in Ids \union {0}
    <3>1. SlotAt(<<ch, i>>) \in Ids \union {0}
      BY <1>5, <1>6
    <3>2. QED BY <1>6, <3>1
  <2>2. QED BY <2>1
<1>8. \A id \in Ids : id \in S <=> \E p \in SlotPlaces : p[1] \in chans /\ SlotAt(p) = id
  <2>1. ASSUME NEW id \in Ids, id \in S PROVE \E p \in SlotPlaces : p[1] \in chans /\ SlotAt(p) = id
    <3>1. PICK ch \in chans, i \in 0 .. 2 : id = slots[ch][i]
      BY <2>1
    <3>2. QED BY <1>6, <3>1
  <2>2. ASSUME NEW id \in Ids, NEW p \in SlotPlaces, p[1] \in chans, SlotAt(p) = id PROVE id \in S
    <3>1. p[2] \in 0 .. 2 /\ id = slots[p[1]][p[2]]
      BY <2>2, AtPlace
    <3>2. QED BY <2>2, <3>1
  <2>3. QED BY <2>1, <2>2
<1>9. Decoders(chans) = (S \ {0}) \X {"decoder"} /\ 0 \notin Ids
  BY DEF Decoders, Decoding, Ids
<1> HIDE DEF S
<1>10. Decoders(chans) \subseteq References
  BY <1>7, <1>9 DEF References
<1>11. ASSUME NEW id \in Ids
       PROVE  /\ <<id, "decoder">> \in Decoders(chans) <=> id \in S
              /\ <<id, "download">> \notin Decoders(chans)
  BY <1>7, <1>9
<1>12. ASSUME NEW id \in Ids
       PROVE  <<id, "decoder">> \in Decoders(chans) <=> \E p \in SlotPlaces : p[1] \in chans /\ SlotAt(p) = id
  BY <1>8, <1>11, Zenon
<1>13. QED BY <1>3, <1>4, <1>10, <1>11, <1>12, Zenon

LEMMA UserInfoKeeps ==
  ASSUME DownInv, UserInfo
  PROVE  DownInv'
<1>0. SharedInv /\ DownTypes
  BY DEF DownInv, SharedInv
<1>1. /\ "network" \in Threads /\ Idle("network") /\ counted' = counted /\ freed' = freed
      /\ downloads' = downloads /\ refcnt' = refcnt
      /\ begun' = begun /\ coming' = coming /\ pause' = pause /\ fate' = fate
  BY DEF UserInfo, Threads
<1>2. refcnt' = [id \in Ids |-> IF id \in {} THEN refcnt[id] + 1 ELSE refcnt[id]]
  BY <1>0, <1>1 DEF DownTypes
<1>3. \A p \in SlotPlaces : SlotAt(p) \in Ids \union {0}
  BY <1>0, IdsSoFar
<1>4. Listed' /\ PlaysUnlessSilent'
  BY <1>1, ListedSame DEF DownInv
<1>5. ASSUME NEW chans \in SUBSET Channels, Emptied(chans),
             releases' = [releases EXCEPT !["network"] = Decoders(chans)]
      PROVE  DownInv'
  <2> DEFINE R == Decoders(chans)
  <2>1. /\ slots' \in [Channels -> [0 .. 2 -> 0 .. begun]]
        /\ \A p \in SlotPlaces : SlotAt(p)' = IF p[1] \in chans THEN 0 ELSE SlotAt(p)
        /\ R \subseteq References
        /\ \A id \in Ids : <<id, "decoder">> \in R <=> \E p \in SlotPlaces : p[1] \in chans /\ SlotAt(p) = id
        /\ \A id \in Ids : <<id, "download">> \notin R
    BY <1>0, <1>5, EmptiedAt
  <2>2. releases' = [releases EXCEPT !["network"] = R]
    BY <1>5
  <2> HIDE DEF R
  <2>3. Moves("network", R, {})
    <3>1. \A id \in Ids : <<id, "decoder">> \in R => (\E p \in SlotPlaces : SlotAt(p) = id) /\ \A p \in SlotPlaces : SlotAt(p)' # id
      BY <1>0, <2>1 DEF SharedInv, Alone, Ids
    <3>2. /\ \A p \in SlotPlaces : SlotAt(p)' \in Ids \union {0}
          /\ \A p \in SlotPlaces : SlotAt(p)' # 0 => \E o \in SlotPlaces : SlotAt(o) = SlotAt(p)'
          /\ \A p, o \in SlotPlaces : SlotAt(p)' = SlotAt(o)' /\ SlotAt(p)' # 0 => p = o
      BY <1>0, <1>3, <2>1 DEF SharedInv, Alone
    <3>3. QED BY <1>1, <1>2, <2>1, <2>2, <3>1, <3>2 DEF Moves
  <2>4. DownTypes'
    BY <1>0, <1>1, <2>1, <2>3, MovesTypes DEF DownTypes
  <2>5. Alone' /\ StartsOnce' /\ CountsAll'
    BY <1>0, <2>3, MovesKeep
  <2>6. QED BY <1>4, <2>4, <2>5 DEF DownInv
<1>6. CASE slots' = slots /\ releases' = releases
  BY <1>0, <1>1, <1>4, <1>6 DEF DownInv, DownTypes, Alone, StartsOnce, CountsAll, Released, SlotAt,
     DownHolds, DecHolds, Refs
<1>7. ASSUME NEW ch \in Channels PROVE {ch} \in SUBSET Channels
  OBVIOUS
<1>8. Channels \in SUBSET Channels
  OBVIOUS
<1>9. \/ Emptied(Channels) /\ releases' = [releases EXCEPT !["network"] = Decoders(Channels)]
      \/ slots' = slots /\ releases' = releases
      \/ \E ch \in Channels : Emptied({ch}) /\ releases' = [releases EXCEPT !["network"] = Decoders({ch})]
  BY DEF UserInfo
<1>10. QED BY <1>5, <1>6, <1>7, <1>8, <1>9

LEMMA DisconnectKeeps ==
  ASSUME DownInv, Disconnect
  PROVE  DownInv'
<1> DEFINE S == Decoders(Channels)
           D == Downloading(DOMAIN downloads)
           R == S \union D
<1>0. SharedInv /\ DownTypes
  BY DEF DownInv, SharedInv
<1>1. /\ "network" \in Threads /\ Idle("network") /\ counted' = counted /\ freed' = freed
      /\ downloads' = [id \in {} |-> 0] /\ refcnt' = refcnt /\ Emptied(Channels)
      /\ releases' = [releases EXCEPT !["network"] = R]
      /\ begun' = begun /\ coming' = {} /\ pause' = pause /\ fate' = fate
  BY DEF Disconnect, Threads
<1>2. refcnt' = [id \in Ids |-> IF id \in {} THEN refcnt[id] + 1 ELSE refcnt[id]]
  BY <1>0, <1>1 DEF DownTypes
<1>3. (\A p \in SlotPlaces : SlotAt(p) \in Ids \union {0}) /\ DOMAIN downloads \subseteq Ids /\ 0 \notin Ids
  BY <1>0, IdsSoFar DEF Ids
<1>4. /\ slots' \in [Channels -> [0 .. 2 -> 0 .. begun]]
      /\ \A p \in SlotPlaces : SlotAt(p)' = IF p[1] \in Channels THEN 0 ELSE SlotAt(p)
      /\ S \subseteq References
      /\ \A id \in Ids : <<id, "decoder">> \in S <=> \E p \in SlotPlaces : p[1] \in Channels /\ SlotAt(p) = id
      /\ \A id \in Ids : <<id, "download">> \notin S
  BY <1>0, <1>1, EmptiedAt
<1>5. \A p \in SlotPlaces : SlotAt(p)' = 0
  BY <1>0, <1>4, AtPlace
<1>6. /\ D \subseteq References
      /\ \A id \in Ids : (<<id, "download">> \in D <=> id \in DOMAIN downloads) /\ <<id, "decoder">> \notin D
  BY <1>3 DEF Downloading, References
<1> HIDE DEF S, D
<1>7. Moves("network", R, {})
  <2>1. DOMAIN downloads' = {}
    BY <1>1
  <2>2. R \subseteq References
    BY <1>4, <1>6
  <2>3. \A id \in Ids : <<id, "decoder">> \in R => (\E p \in SlotPlaces : SlotAt(p) = id) /\ \A p \in SlotPlaces : SlotAt(p)' # id
    BY <1>3, <1>4, <1>5, <1>6
  <2>4. \A id \in Ids : <<id, "download">> \in R => id \in DOMAIN downloads /\ id \notin DOMAIN downloads'
    BY <1>4, <1>6, <2>1
  <2>5. QED BY <1>1, <1>2, <1>5, <2>1, <2>2, <2>3, <2>4 DEF Moves
<1>8. DownTypes'
  <2>1. downloads' \in [DOMAIN downloads' -> [chidx : Channels \union {NoChannel}, size : Nat, ago : Nat]]
    BY <1>1
  <2>2. QED BY <1>0, <1>1, <1>4, <1>7, <2>1, MovesTypes DEF DownTypes
<1>9. Alone' /\ StartsOnce' /\ CountsAll'
  BY <1>0, <1>7, MovesKeep
<1>10. Listed' /\ PlaysUnlessSilent'
  <2>1. DOMAIN downloads' = {}
    BY <1>1
  <2>2. QED BY <1>1, <2>1 DEF DownInv, Listed, PlaysUnlessSilent
<1>11. QED BY <1>8, <1>9, <1>10 DEF DownInv

LEMMA SwapKeeps ==
  ASSUME DownInv, NEW ch \in Channels, Swap(ch)
  PROVE  DownInv'
<1>0. SharedInv /\ DownTypes
  BY DEF DownInv, SharedInv
<1>1. PICK steps \in 0 .. 2 : \E first \in IF steps = 0 THEN {0} ELSE {0, slots[ch][steps]} :
       /\ slots' = [slots EXCEPT ![ch] =
                     [i \in 0 .. 2 |-> IF i = 0 THEN first
                                       ELSE IF i + steps <= 2 THEN slots[ch][i + steps] ELSE 0]]
       /\ releases' = [releases EXCEPT !["audio"] = Decoding({slots[ch][i] : i \in 0 .. steps} \ {first})]
  BY DEF Swap
<1>first. PICK first \in IF steps = 0 THEN {0} ELSE {0, slots[ch][steps]} :
       /\ slots' = [slots EXCEPT ![ch] =
                     [i \in 0 .. 2 |-> IF i = 0 THEN first
                                       ELSE IF i + steps <= 2 THEN slots[ch][i + steps] ELSE 0]]
       /\ releases' = [releases EXCEPT !["audio"] = Decoding({slots[ch][i] : i \in 0 .. steps} \ {first})]
  BY <1>1
<1>2. /\ "audio" \in Threads /\ Idle("audio") /\ counted' = counted /\ freed' = freed
      /\ downloads' = downloads /\ refcnt' = refcnt
      /\ begun' = begun /\ coming' = coming /\ pause' = pause /\ fate' = fate
  BY DEF Swap, Threads
<1>3. refcnt' = [id \in Ids |-> IF id \in {} THEN refcnt[id] + 1 ELSE refcnt[id]]
  BY <1>0, <1>2 DEF DownTypes
<1>4. (\A p \in SlotPlaces : SlotAt(p) \in Ids \union {0}) /\ 0 \notin Ids
  BY <1>0, IdsSoFar DEF Ids
<1>5. ASSUME NEW i \in 0 .. 2 PROVE <<ch, i>> \in SlotPlaces /\ SlotAt(<<ch, i>>) = slots[ch][i]
  BY <1>0, AtPlace
<1>6. slots \in [Channels -> [0 .. 2 -> 0 .. begun]] /\ begun \in Nat
  BY <1>0 DEF DownTypes
<1>7. first \in 0 .. begun /\ (first = 0 \/ (steps # 0 /\ first = slots[ch][steps]))
  BY <1>6, <1>first
<1> DEFINE moved == [i \in 0 .. 2 |-> IF i = 0 THEN first ELSE IF i + steps <= 2 THEN slots[ch][i + steps] ELSE 0]
           S == {slots[ch][i] : i \in 0 .. steps} \ {first}
           R == Decoding(S)
<1>8. moved \in [0 .. 2 -> 0 .. begun]
  BY <1>6, <1>7
<1>9. /\ slots' = [slots EXCEPT ![ch] = moved]
      /\ releases' = [releases EXCEPT !["audio"] = R]
  BY <1>first
<1>10. /\ moved[0] = first
       /\ \A i \in 1 .. 2 : moved[i] = IF i + steps <= 2 THEN slots[ch][i + steps] ELSE 0
  OBVIOUS
<1> HIDE DEF moved
<1>11. slots' \in [Channels -> [0 .. 2 -> 0 .. begun]]
  BY <1>6, <1>8, <1>9
<1>12. ASSUME NEW p \in SlotPlaces
       PROVE  SlotAt(p)' = IF p[1] = ch THEN moved[p[2]] ELSE SlotAt(p)
  <2>1. p[1] \in Channels /\ p[2] \in 0 .. 2 /\ SlotAt(p) = slots[p[1]][p[2]]
    BY <1>0, AtPlace
  <2>2. QED BY <1>6, <1>9, <2>1 DEF SlotAt
<1> DEFINE From(p, o) ==
      IF p[1] # ch THEN o = p
      ELSE /\ o[1] = ch /\ o[2] = p[2] + steps /\ (p[2] = 0 => steps # 0)
<1>13. ASSUME NEW p \in SlotPlaces, SlotAt(p)' # 0
       PROVE  \E o \in SlotPlaces : From(p, o) /\ SlotAt(o) = SlotAt(p)'
  <2>1. p[1] \in Channels /\ p[2] \in 0 .. 2
    BY <1>0, AtPlace
  <2>2. CASE p[1] # ch
    BY <1>12, <2>2
  <2>3. CASE p[1] = ch
    <3>1. SlotAt(p)' = moved[p[2]]
      BY <1>12, <2>3
    <3>2. p[2] + steps \in 0 .. 2 /\ (p[2] = 0 => steps # 0) /\ moved[p[2]] = slots[ch][p[2] + steps]
      <4>1. CASE p[2] = 0
        BY <1>7, <1>10, <1>13, <3>1, <4>1
      <4>2. CASE p[2] \in 1 .. 2
        BY <1>10, <1>13, <3>1, <4>2
      <4>3. QED BY <2>1, <4>1, <4>2
    <3> DEFINE o == <<ch, p[2] + steps>>
    <3>3. o \in SlotPlaces /\ SlotAt(o) = slots[ch][p[2] + steps]
      BY <1>5, <3>2
    <3>4. From(p, o)
      BY <2>3, <3>2
    <3>5. QED BY <3>1, <3>2, <3>3, <3>4
  <2>4. QED BY <2>2, <2>3
<1>14. ASSUME NEW p \in SlotPlaces, NEW r \in SlotPlaces, NEW o \in SlotPlaces, From(p, o), From(r, o) PROVE p = r
  <2>1. /\ p[2] \in 0 .. 2 /\ r[2] \in 0 .. 2 /\ o[2] \in 0 .. 2
        /\ p = <<p[1], p[2]>> /\ r = <<r[1], r[2]>>
    BY <1>0, AtPlace
  <2>2. QED BY <1>14, <2>1
<1>15. ASSUME NEW id \in Ids, id \in S
       PROVE  (\E p \in SlotPlaces : SlotAt(p) = id) /\ \A p \in SlotPlaces : SlotAt(p)' # id
  <2>1. PICK i \in 0 .. steps : slots[ch][i] = id /\ id # first
    BY <1>15
  <2>2. i \in 0 .. 2
    OBVIOUS
  <2>3. <<ch, i>> \in SlotPlaces /\ SlotAt(<<ch, i>>) = id
    BY <1>5, <2>1, <2>2
  <2>4. ASSUME NEW p \in SlotPlaces, SlotAt(p)' = id PROVE FALSE
    <3>1. PICK o \in SlotPlaces : From(p, o) /\ SlotAt(o) = id
      BY <1>4, <1>13, <2>4
    <3>2. o = <<ch, i>>
      BY <1>0, <1>4, <2>3, <3>1 DEF SharedInv, Alone
    <3>3. p[1] = ch /\ p[2] \in 0 .. 2 /\ i = p[2] + steps
      BY <1>0, <3>1, <3>2, AtPlace
    <3>4. p[2] = 0
      BY <3>3
    <3>5. SlotAt(p)' = first
      BY <1>10, <1>12, <3>3, <3>4
    <3>6. QED BY <2>1, <2>4, <3>5
  <2>5. QED BY <2>3, <2>4
<1>16. S \subseteq Ids \union {0}
  <2>1. ASSUME NEW i \in 0 .. steps PROVE slots[ch][i] \in Ids \union {0}
    <3>1. i \in 0 .. 2
      OBVIOUS
    <3>2. QED BY <1>4, <1>5, <3>1
  <2>2. QED BY <2>1
<1> HIDE DEF From, S
<1>17. /\ R \subseteq References
       /\ \A id \in Ids : (<<id, "decoder">> \in R => id \in S) /\ <<id, "download">> \notin R
  BY <1>16 DEF Decoding, References
<1> HIDE DEF R
<1>18. Moves("audio", R, {})
  <2>1. \A p \in SlotPlaces : SlotAt(p)' \in Ids \union {0}
    BY <1>4, <1>13
  <2>2. \A p \in SlotPlaces : SlotAt(p)' # 0 => \E o \in SlotPlaces : SlotAt(o) = SlotAt(p)'
    BY <1>13
  <2>3. ASSUME NEW p \in SlotPlaces, NEW r \in SlotPlaces, SlotAt(p)' = SlotAt(r)', SlotAt(p)' # 0 PROVE p = r
    <3>1. PICK o \in SlotPlaces : From(p, o) /\ SlotAt(o) = SlotAt(p)'
      BY <1>13, <2>3
    <3>2. PICK v \in SlotPlaces : From(r, v) /\ SlotAt(v) = SlotAt(p)'
      BY <1>13, <2>3
    <3>3. o = v
      BY <1>0, <2>3, <3>1, <3>2 DEF SharedInv, Alone
    <3>4. QED BY <1>14, <3>1, <3>2, <3>3
  <2>4. QED BY <1>2, <1>3, <1>9, <1>15, <1>17, <2>1, <2>2, <2>3 DEF Moves
<1>19. DownTypes'
  BY <1>0, <1>2, <1>11, <1>18, MovesTypes DEF DownTypes
<1>20. Alone' /\ StartsOnce' /\ CountsAll'
  BY <1>0, <1>18, MovesKeep
<1>21. Listed' /\ PlaysUnlessSilent'
  BY <1>2, ListedSame DEF DownInv
<1>22. QED BY <1>19, <1>20, <1>21 DEF DownInv

LEMMA BeginKeeps ==
  ASSUME DownInv, NEW ch \in Channels, Begin(ch)
  PROVE  DownInv'
<1> DEFINE new == begun + 1
<1>0. SharedInv /\ DownTypes /\ Listed
  BY DEF DownInv, SharedInv
<1>1. /\ begun \in Nat /\ new \in Ids /\ new \in 1 .. new /\ 0 .. begun \subseteq 0 .. new
      /\ 1 .. begun \subseteq 1 .. new /\ new \notin 0 .. begun /\ new <= MaxDownloads
  BY <1>0, DownloadsAssumption DEF Begin, DownTypes, Ids
<1>2. /\ begun' = new /\ refcnt' = [refcnt EXCEPT ![new] = 1] /\ coming' = coming \union {new}
      /\ slots' = slots /\ releases' = releases /\ counted' = counted /\ freed' = freed
      /\ pause' = pause /\ fate' = fate
      /\ downloads' = [id \in DOMAIN downloads \union {new} |->
                         IF id = new THEN [chidx |-> ch, size |-> 0, ago |-> 0] ELSE downloads[id]]
  BY DEF Begin
<1>3. \A id \in Ids : id > new => id > begun
  BY <1>0 DEF DownTypes, Ids
<1> HIDE DEF new
<1>4. /\ DOMAIN downloads' = DOMAIN downloads \union {new} /\ new \notin DOMAIN downloads
      /\ \A id \in DOMAIN downloads : downloads'[id] = downloads[id]
      /\ downloads'[new] = [chidx |-> ch, size |-> 0, ago |-> 0]
  BY <1>0, <1>1, <1>2 DEF DownTypes
<1>5. DownTypes'
  <2>1. downloads' \in [DOMAIN downloads' -> [chidx : Channels \union {NoChannel}, size : Nat, ago : Nat]]
    <3>1. downloads'[new] \in [chidx : Channels \union {NoChannel}, size : Nat, ago : Nat]
      BY <1>4
    <3>2. \A id \in DOMAIN downloads : downloads[id] \in [chidx : Channels \union {NoChannel}, size : Nat, ago : Nat]
      BY <1>0 DEF DownTypes
    <3>3. QED BY <1>2, <1>4, <3>1, <3>2
  <2>2. slots' \in [Channels -> [0 .. 2 -> 0 .. new]]
    BY <1>0, <1>1, <1>2 DEF DownTypes
  <2>3. releases' \in [Threads -> SUBSET ((1 .. new) \X {"download", "decoder"})]
    BY <1>0, <1>1, <1>2 DEF DownTypes
  <2>4. refcnt' \in [Ids -> Int]
    BY <1>0, <1>1, <1>2 DEF DownTypes
  <2>5. DOMAIN downloads' \subseteq 1 .. new /\ coming' \subseteq 1 .. new
    BY <1>0, <1>1, <1>2, <1>4 DEF DownTypes
  <2>6. new \in Nat
    BY <1>1 DEF Ids
  <2>7. QED BY <1>0, <1>1, <1>2, <1>3, <2>1, <2>2, <2>3, <2>4, <2>5, <2>6 DEF DownTypes
<1>6. /\ \A p \in SlotPlaces : SlotAt(p)' = SlotAt(p) /\ SlotAt(p) # new
      /\ \A ref : Released(ref)' <=> Released(ref)
      /\ \A t \in Threads : \A ref \in releases[t] : ref[1] # new
  <2>1. ASSUME NEW p \in SlotPlaces PROVE SlotAt(p)' = SlotAt(p) /\ SlotAt(p) # new
    <3>1. p[1] \in Channels /\ p[2] \in 0 .. 2 /\ SlotAt(p) = slots[p[1]][p[2]]
      BY <1>0, AtPlace
    <3>2. slots[p[1]][p[2]] \in 0 .. begun
      BY <1>0, <3>1 DEF DownTypes
    <3>3. SlotAt(p)' = SlotAt(p)
      BY <1>2 DEF SlotAt
    <3>4. QED BY <1>1, <3>1, <3>2, <3>3
  <2>2. ASSUME NEW ref PROVE Released(ref)' <=> Released(ref)
    BY <1>2 DEF Released
  <2>3. ASSUME NEW t \in Threads, NEW ref \in releases[t] PROVE ref[1] # new
    BY <1>0, <1>1 DEF DownTypes
  <2>4. QED BY <2>1, <2>2, <2>3
<1>7. ~DecHolds(new) /\ ~Released(<<new, "download">>)
  BY <1>6 DEF DecHolds, Released
<1>8. ASSUME NEW id PROVE (DecHolds(id)' <=> DecHolds(id)) /\ (id # new => (DownHolds(id)' <=> DownHolds(id)))
  BY <1>4, <1>6 DEF DecHolds, DownHolds
<1>9. Alone'
  <2>1. \A p, o \in SlotPlaces : SlotAt(p)' = SlotAt(o)' /\ SlotAt(p)' # 0 => p = o
    BY <1>0, <1>6 DEF SharedInv, Alone
  <2>2. ASSUME NEW p \in SlotPlaces PROVE ~Released(<<SlotAt(p), "decoder">>)'
    <3>1. slots' = slots
      BY <1>2
    <3>2. ~Released(<<SlotAt(p), "decoder">>)
      BY <1>0 DEF SharedInv, Alone
    <3>3. QED BY <1>2, <3>2 DEF Released, SlotAt
  <2>3. \A t, u \in Threads : t # u => releases'[t] \intersect releases'[u] = {}
    BY <1>0, <1>2 DEF SharedInv, Alone
  <2>4. ASSUME NEW id \in DOMAIN downloads' PROVE ~Released(<<id, "download">>)'
    <3>1. ~Released(<<id, "download">>)
      BY <1>0, <1>4, <1>7 DEF SharedInv, Alone
    <3>2. QED BY <1>2, <3>1 DEF Released
  <2>5. QED BY <2>1, <2>2, <2>3, <2>4 DEF Alone
<1>10. StartsOnce'
  <2>1. ASSUME NEW id \in DOMAIN downloads', DecHolds(id)' PROVE downloads'[id].chidx = NoChannel
    <3>1. id # new /\ DecHolds(id) /\ id \in DOMAIN downloads
      BY <1>4, <1>7, <1>8, <2>1
    <3>2. QED BY <1>0, <1>4, <3>1 DEF SharedInv, StartsOnce
  <2>2. QED BY <2>1 DEF StartsOnce
<1>11. CountsAll'
  <2>1. ASSUME NEW id \in Ids
        PROVE  /\ id # new => Refs(id)' <= Refs(id)
               /\ Refs(id) \in 0 .. 2 /\ Refs(id)' \in 0 .. 2
               /\ id = new => Refs(id)' <= 1
    <3>1. Refs(id) \in 0 .. 2 /\ Refs(id)' \in 0 .. 2
      BY RefsAre, RefsAreThen
    <3>2. id # new => Refs(id)' <= Refs(id)
      BY <1>8, RefsCompare
    <3>3. id = new => Refs(id)' <= 1
      BY <1>7, <1>8, RefsAreThen
    <3>4. QED BY <3>1, <3>2, <3>3
  <2>2. ASSUME NEW id \in Ids PROVE refcnt'[id] >= Refs(id)'
    <3>1. refcnt[id] >= Refs(id) /\ refcnt[id] \in Int /\ refcnt'[id] = IF id = new THEN 1 ELSE refcnt[id]
      BY <1>0, <1>2 DEF SharedInv, CountsAll, DownTypes
    <3>2. QED BY <2>1, <3>1
  <2>3. ASSUME NEW t \in Threads, counted'[t] # NoCount PROVE counted'[t].ref \in releases'[t]
    BY <1>0, <1>2, <2>3 DEF SharedInv, CountsAll
  <2>4. ASSUME NEW t \in Threads, NEW id \in Ids, counted'[t] # NoCount, counted'[t].ref[1] = id
        PROVE  counted'[t].count >= Refs(id)'
    <3> DEFINE n == counted[t].count
    <3>1. counted[t].ref \in releases[t] /\ n \in Int /\ n >= Refs(id)
      BY <1>0, <1>2, <2>4 DEF SharedInv, CountsAll, DownTypes
    <3>2. id # new
      BY <1>2, <1>6, <2>4, <3>1
    <3> HIDE DEF n
    <3>3. n >= Refs(id)'
      BY <2>1, <3>1, <3>2
    <3>4. QED BY <1>2, <3>3 DEF n
  <2>5. ASSUME NEW id \in Ids PROVE freed'[id] <= 1 /\ (freed'[id] = 1 => Refs(id)' = 0)
    <3>1. freed' = freed /\ freed[id] <= 1 /\ (freed[id] = 1 => Refs(id) = 0)
      BY <1>0, <1>2 DEF SharedInv, CountsAll
    <3>2. freed[new] = 0
      <4>1. new > begun
        BY <1>1 DEF Ids
      <4>2. QED BY <1>0, <1>1, <4>1 DEF DownTypes
    <3>3. QED BY <2>1, <3>1, <3>2
  <2>6. QED BY <2>2, <2>3, <2>4, <2>5 DEF CountsAll
<1>12. Listed' /\ PlaysUnlessSilent'
  <2>1. DOMAIN downloads' \subseteq coming'
    BY <1>0, <1>2, <1>4 DEF Listed
  <2>2. fate[new] = "coming" /\ new \in Ids /\ pause[new] \in Nat
    <3>1. new > begun
      BY <1>1 DEF Ids
    <3>2. QED BY <1>0, <1>1, <3>1 DEF DownTypes
  <2>3. \A id \in coming' : fate'[id] # "lost"
    BY <1>0, <1>2, <2>2 DEF Listed
  <2>4. \A id \in DOMAIN downloads' : downloads'[id].chidx = NoChannel => fate'[id] = "started"
    BY <1>0, <1>2, <1>4, DownloadsAssumption DEF Listed
  <2>5. ASSUME NEW id \in coming', fate'[id] = "coming"
        PROVE  pause'[id] > Timeout \/ (id \in DOMAIN downloads' /\ downloads'[id].ago <= pause'[id])
    <3>1. CASE id = new
      BY <1>2, <1>4, <2>2, <3>1
    <3>2. CASE id # new
      BY <1>0, <1>2, <1>4, <2>5, <3>2 DEF Listed
    <3>3. QED BY <3>1, <3>2
  <2>6. QED BY <1>2, <2>1, <2>3, <2>4, <2>5 DEF Listed, DownInv, PlaysUnlessSilent
<1>13. QED BY <1>5, <1>9, <1>10, <1>11, <1>12 DEF DownInv

(* What a step does to the references depends on these only.               *)
LEMMA HoldersSame ==
  ASSUME SharedInv, UNCHANGED <<slots, releases, counted, refcnt, freed>>, DOMAIN downloads' = DOMAIN downloads,
         \A id \in DOMAIN downloads : downloads'[id].chidx = downloads[id].chidx
  PROVE  Alone' /\ StartsOnce' /\ CountsAll'
<1>1. \A id : DownHolds(id)' = DownHolds(id) /\ DecHolds(id)' = DecHolds(id)
  BY DEF DownHolds, DecHolds, Released, SlotAt
<1>2. \A id : Refs(id)' = Refs(id)
  BY <1>1 DEF Refs, DownHolds, DecHolds, Released, SlotAt
<1>3. Alone'
  BY DEF SharedInv, Alone, Released, SlotAt
<1>4. StartsOnce'
  BY <1>1 DEF SharedInv, StartsOnce
<1>5. CountsAll'
  BY <1>2 DEF SharedInv, CountsAll
<1>6. QED BY <1>3, <1>4, <1>5

LEMMA ClockKeeps ==
  ASSUME DownInv, Clock
  PROVE  DownInv'
<1>0. SharedInv /\ DownTypes /\ Listed
  BY DEF DownInv, SharedInv
<1> DEFINE D == [chidx : Channels \union {NoChannel}, size : Nat, ago : Nat]
<1>1. /\ DOMAIN downloads' = DOMAIN downloads /\ slots' = slots /\ releases' = releases /\ counted' = counted
      /\ freed' = freed /\ refcnt' = refcnt /\ begun' = begun /\ coming' = coming /\ fate' = fate
      /\ downloads' = [id \in DOMAIN downloads |->
                         [downloads[id] EXCEPT !.ago = IF @ > Timeout THEN @ ELSE @ + 1]]
      /\ pause' = [id \in Ids |-> IF id \in coming /\ fate[id] = "coming" /\ pause[id] <= Timeout
                                    THEN pause[id] + 1 ELSE pause[id]]
  BY DEF Clock
<1>2. ASSUME NEW id \in DOMAIN downloads
      PROVE  /\ downloads[id] \in D /\ downloads'[id] \in D
             /\ downloads'[id].chidx = downloads[id].chidx
             /\ downloads'[id].ago = IF downloads[id].ago > Timeout THEN downloads[id].ago ELSE downloads[id].ago + 1
  <2>1. downloads[id] \in D
    BY <1>0 DEF DownTypes
  <2>2. downloads'[id] = [downloads[id] EXCEPT !.ago = IF downloads[id].ago > Timeout THEN downloads[id].ago
                                                       ELSE downloads[id].ago + 1]
    BY <1>1
  <2>3. QED BY <2>1, <2>2
<1>3. ASSUME NEW id \in Ids
      PROVE  /\ pause[id] \in Nat /\ pause'[id] \in Nat
             /\ pause'[id] = IF id \in coming /\ fate[id] = "coming" /\ pause[id] <= Timeout
                                THEN pause[id] + 1 ELSE pause[id]
  BY <1>0, <1>1 DEF DownTypes
<1>4. Alone' /\ StartsOnce' /\ CountsAll'
  <2>1. \A id \in DOMAIN downloads : downloads'[id].chidx = downloads[id].chidx
    BY <1>2
  <2>2. UNCHANGED <<slots, releases, counted, refcnt, freed>>
    BY <1>1
  <2>3. DOMAIN downloads' = DOMAIN downloads
    BY <1>1
  <2>4. QED BY <1>0, <2>1, <2>2, <2>3, HoldersSame
<1>5. DownTypes'
  <2>1. downloads' \in [DOMAIN downloads' -> D]
    BY <1>1, <1>2
  <2>2. pause' \in [Ids -> Nat]
    BY <1>1, <1>3
  <2>3. QED BY <1>0, <1>1, <2>1, <2>2 DEF DownTypes
<1>6. coming \subseteq Ids /\ Timeout \in Nat
  BY <1>0, IdsSoFar, DownloadsAssumption DEF DownTypes
<1>7. Listed'
  <2>1. ASSUME NEW id \in coming, fate[id] = "coming"
        PROVE  pause'[id] > Timeout \/ (id \in DOMAIN downloads /\ downloads'[id].ago <= pause'[id])
    <3>1. pause[id] > Timeout \/ (id \in DOMAIN downloads /\ downloads[id].ago <= pause[id])
      BY <1>0, <2>1 DEF Listed
    <3>2. pause[id] \in Nat /\ pause'[id] = IF pause[id] <= Timeout THEN pause[id] + 1 ELSE pause[id]
      BY <1>3, <1>6, <2>1
    <3> DEFINE n == downloads[id].ago
               m == downloads'[id].ago
    <3>3. CASE pause[id] > Timeout
      BY <1>6, <3>2, <3>3
    <3>4. CASE pause[id] <= Timeout
      <4>1. id \in DOMAIN downloads /\ n <= pause[id]
        BY <1>6, <3>1, <3>2, <3>4
      <4>2. n \in Nat /\ m = IF n > Timeout THEN n ELSE n + 1
        BY <1>2, <4>1
      <4> HIDE DEF n, m
      <4>3. m <= pause'[id]
        BY <1>6, <3>2, <3>4, <4>1, <4>2
      <4>4. QED BY <4>1, <4>3 DEF m
    <3>5. QED BY <1>6, <3>2, <3>3, <3>4
  <2>2. \A id \in DOMAIN downloads : downloads'[id].chidx = NoChannel => fate[id] = "started"
    BY <1>0, <1>2 DEF Listed
  <2>3. QED BY <1>0, <1>1, <2>1, <2>2 DEF Listed
<1>8. PlaysUnlessSilent'
  <2>1. ASSUME NEW id \in Ids, fate[id] = "lost" PROVE pause'[id] > Timeout
    BY <1>3, <1>6, <2>1 DEF DownInv, PlaysUnlessSilent
  <2>2. QED BY <1>1, <2>1 DEF PlaysUnlessSilent
<1>9. QED BY <1>4, <1>5, <1>7, <1>8 DEF DownInv

LEMMA ReadCountKeeps ==
  ASSUME DownInv, NEW t \in Threads, ReadCount(t)
  PROVE  DownInv'
<1>0. SharedInv /\ DownTypes
  BY DEF DownInv, SharedInv
<1>1. PICK ref \in releases[t] : counted' = [counted EXCEPT ![t] = [ref |-> ref, count |-> refcnt[ref[1]]]]
  BY DEF ReadCount
<1>2. UNCHANGED <<downloads, present, session, slots, refcnt, freed, releases, begun, coming, pause, fate>>
  BY DEF ReadCount
<1>3. ref \in Nat \X {"download", "decoder"} /\ ref[1] \in Ids /\ refcnt[ref[1]] \in Int
  <2>1. ref \in (1 .. begun) \X {"download", "decoder"} /\ 1 .. begun \subseteq Ids
    BY <1>0, IdsSoFar DEF DownTypes
  <2>2. ref[1] \in Ids
    BY <2>1
  <2>3. QED BY <1>0, <2>1, <2>2 DEF DownTypes, Ids
<1>4. DownTypes'
  <2>1. counted' \in [Threads -> [ref : Nat \X {"download", "decoder"}, count : Int]]
    BY <1>0, <1>1, <1>3 DEF DownTypes
  <2>2. QED BY <1>0, <1>2, <2>1 DEF DownTypes
<1>5. \A id : DownHolds(id)' = DownHolds(id) /\ DecHolds(id)' = DecHolds(id)
  BY <1>2 DEF DownHolds, DecHolds, Released, SlotAt
<1>6. \A id : Refs(id)' = Refs(id)
  BY <1>2 DEF Refs, DownHolds, DecHolds, Released, SlotAt
<1>7. Alone' /\ StartsOnce'
  BY <1>0, <1>2, <1>5 DEF SharedInv, Alone, StartsOnce, Released, SlotAt
<1>8. CountsAll'
  <2>1. ASSUME NEW u \in Threads PROVE counted'[u] = IF u = t THEN [ref |-> ref, count |-> refcnt[ref[1]]] ELSE counted[u]
    BY <1>0, <1>1 DEF DownTypes
  <2>2. ASSUME NEW u \in Threads, counted'[u] # NoCount PROVE counted'[u].ref \in releases[u]
    BY <1>0, <2>1, <2>2 DEF SharedInv, CountsAll
  <2>3. ASSUME NEW u \in Threads, NEW id \in Ids, counted'[u] # NoCount, counted'[u].ref[1] = id
        PROVE  counted'[u].count >= Refs(id)
    BY <1>0, <2>1, <2>3 DEF SharedInv, CountsAll
  <2>4. \A id \in Ids : refcnt[id] >= Refs(id) /\ freed[id] <= 1 /\ (freed[id] = 1 => Refs(id) = 0)
    BY <1>0 DEF SharedInv, CountsAll
  <2>5. QED BY <1>2, <1>6, <2>2, <2>3, <2>4 DEF CountsAll
<1>9. Listed' /\ PlaysUnlessSilent'
  BY <1>2, ListedSame DEF DownInv
<1>10. QED BY <1>4, <1>7, <1>8, <1>9 DEF DownInv

LEMMA WriteCountKeeps ==
  ASSUME DownInv, NEW t \in Threads, WriteCount(t)
  PROVE  DownInv'
<1>0. SharedInv /\ DownTypes
  BY DEF DownInv, SharedInv
<1>read. PICK ref, which, c : ref = counted[t].ref /\ which = ref[1] /\ c = counted[t].count
  OBVIOUS
<1>1. /\ counted[t] # NoCount
      /\ refcnt' = [refcnt EXCEPT ![which] = c - 1]
      /\ freed' = [freed EXCEPT ![which] = IF c = 1 THEN freed[which] + 1 ELSE freed[which]]
      /\ releases' = [releases EXCEPT ![t] = releases[t] \ {ref}]
      /\ counted' = [counted EXCEPT ![t] = NoCount]
      /\ UNCHANGED <<downloads, present, session, slots, begun, coming, pause, fate>>
  BY <1>read DEF WriteCount
<1>2. ref \in releases[t] /\ c \in Int
  BY <1>0, <1>1, <1>read DEF SharedInv, CountsAll, DownTypes
<1>3. which \in 1 .. begun /\ which \in Ids /\ (ref = <<which, "download">> \/ ref = <<which, "decoder">>)
  <2>1. ref \in (1 .. begun) \X {"download", "decoder"} /\ 1 .. begun \subseteq Ids
    BY <1>0, <1>2, IdsSoFar DEF DownTypes
  <2>2. QED BY <1>read, <2>1
<1>4. c >= Refs(which)
  BY <1>0, <1>1, <1>3, <1>read DEF SharedInv, CountsAll
<1>5. ASSUME NEW u \in Threads
      PROVE  releases'[u] = (IF u = t THEN releases[t] \ {ref} ELSE releases[u])
  BY <1>0, <1>1 DEF DownTypes
<1>6. /\ \A r : Released(r)' => Released(r)
      /\ Released(ref) /\ ~Released(ref)'
  <2>1. ASSUME NEW r, Released(r)' PROVE Released(r)
    BY <1>5, <2>1 DEF Released
  <2>2. ASSUME NEW u \in Threads PROVE ref \notin releases'[u]
    <3>1. u # t => ref \notin releases[u]
      BY <1>0, <1>2 DEF SharedInv, Alone
    <3>2. QED BY <1>5, <3>1
  <2>3. QED BY <1>2, <2>1, <2>2 DEF Released
<1>7. \A p \in SlotPlaces : SlotAt(p)' = SlotAt(p)
  BY <1>1 DEF SlotAt
<1>8. ASSUME NEW id PROVE (DownHolds(id)' => DownHolds(id)) /\ (DecHolds(id)' => DecHolds(id))
  BY <1>1, <1>6, <1>7 DEF DownHolds, DecHolds
<1>9. \/ DownHolds(which) /\ ~DownHolds(which)'
      \/ DecHolds(which) /\ ~DecHolds(which)'
  <2>1. CASE ref = <<which, "download">>
    <3>1. which \notin DOMAIN downloads
      BY <1>0, <1>6, <2>1 DEF SharedInv, Alone
    <3>2. QED BY <1>1, <1>6, <2>1, <3>1 DEF DownHolds
  <2>2. CASE ref = <<which, "decoder">>
    <3>1. \A p \in SlotPlaces : SlotAt(p) # which
      BY <1>0, <1>6, <2>2 DEF SharedInv, Alone
    <3>2. QED BY <1>6, <1>7, <2>2, <3>1 DEF DecHolds
  <2>3. QED BY <1>3, <2>1, <2>2
<1>10. ASSUME NEW id \in Ids
       PROVE  /\ Refs(id) \in 0 .. 2 /\ Refs(id)' \in 0 .. 2 /\ Refs(id)' <= Refs(id)
              /\ id = which => Refs(id)' <= Refs(id) - 1
  <2>1. Refs(id) \in 0 .. 2 /\ Refs(id)' \in 0 .. 2
    BY RefsAre, RefsAreThen
  <2>2. Refs(id)' <= Refs(id) /\ (id = which => Refs(id)' <= Refs(id) - 1)
    <3>1. (DownHolds(id)' => DownHolds(id)) /\ (DecHolds(id)' => DecHolds(id))
      BY <1>8
    <3>2. CASE id = which
      <4>1. (DownHolds(id) /\ ~DownHolds(id)') \/ (DecHolds(id) /\ ~DecHolds(id)')
        BY <1>9, <3>2
      <4>2. Refs(id)' <= Refs(id) - 1
        BY <3>1, <4>1, RefsCompare, Zenon
      <4>3. QED BY <2>1, <4>2
    <3>3. CASE id # which
      BY <3>1, <3>3, RefsCompare
    <3>4. QED BY <3>2, <3>3
  <2>3. QED BY <2>1, <2>2
<1>11. DownTypes'
  <2>1. releases' \in [Threads -> SUBSET ((1 .. begun) \X {"download", "decoder"})]
    BY <1>0, <1>1 DEF DownTypes
  <2>2. NoCount \in [ref : Nat \X {"download", "decoder"}, count : Int]
    BY DEF NoCount
  <2>3. counted' \in [Threads -> [ref : Nat \X {"download", "decoder"}, count : Int]]
    BY <1>0, <1>1, <2>2 DEF DownTypes
  <2>4. refcnt' \in [Ids -> Int]
    <3>1. refcnt \in [Ids -> Int] /\ c - 1 \in Int
      BY <1>0, <1>2 DEF DownTypes
    <3>2. QED BY <1>1, <3>1
  <2>5. freed' \in [Ids -> Nat]
    BY <1>0, <1>1, <1>3 DEF DownTypes
  <2>6. \A id \in Ids : id > begun => id # which
    BY <1>0, <1>3 DEF DownTypes, Ids
  <2>7. \A id \in Ids : id > begun => freed'[id] = 0 /\ fate[id] = "coming"
    BY <1>0, <1>1, <2>6 DEF DownTypes
  <2>8. QED BY <1>0, <1>1, <2>1, <2>3, <2>4, <2>5, <2>7 DEF DownTypes
<1>12. Alone'
  <2>1. \A p \in SlotPlaces : ~Released(<<SlotAt(p), "decoder">>)
    BY <1>0 DEF SharedInv, Alone
  <2>2. \A p \in SlotPlaces : ~Released(<<SlotAt(p), "decoder">>)'
    <3>1. ASSUME NEW p \in SlotPlaces, NEW u \in Threads, <<SlotAt(p), "decoder">> \in releases'[u] PROVE FALSE
      BY <1>5, <2>1, <3>1 DEF Released
    <3>2. QED BY <1>7, <3>1 DEF Released, SlotAt
  <2>3. \A u, v \in Threads : u # v => releases'[u] \intersect releases'[v] = {}
    BY <1>0, <1>5 DEF SharedInv, Alone
  <2>4. \A p, o \in SlotPlaces : SlotAt(p)' = SlotAt(o)' /\ SlotAt(p)' # 0 => p = o
    BY <1>0, <1>7 DEF SharedInv, Alone
  <2>5. \A id \in DOMAIN downloads' : ~Released(<<id, "download">>)'
    BY <1>0, <1>1, <1>6 DEF SharedInv, Alone
  <2>6. QED BY <2>2, <2>3, <2>4, <2>5 DEF Alone
<1>13. StartsOnce'
  BY <1>0, <1>1, <1>8 DEF SharedInv, StartsOnce
<1>14. CountsAll'
  <2>1. ASSUME NEW id \in Ids PROVE refcnt'[id] >= Refs(id)'
    <3>1. refcnt'[id] = (IF id = which THEN c - 1 ELSE refcnt[id]) /\ refcnt[id] \in Int /\ refcnt[id] >= Refs(id)
      BY <1>0, <1>1 DEF SharedInv, CountsAll, DownTypes
    <3>2. QED BY <1>2, <1>4, <1>10, <3>1
  <2>2. ASSUME NEW u \in Threads, counted'[u] # NoCount PROVE u # t /\ counted'[u] = counted[u]
    BY <1>0, <1>1, <2>2 DEF DownTypes
  <2>3. ASSUME NEW u \in Threads, counted'[u] # NoCount PROVE counted'[u].ref \in releases'[u]
    <3>1. u # t /\ counted'[u] = counted[u]
      BY <2>2, <2>3
    <3>2. counted[u].ref \in releases[u]
      BY <1>0, <2>3, <3>1 DEF SharedInv, CountsAll
    <3>3. QED BY <1>5, <3>1, <3>2
  <2>4. ASSUME NEW u \in Threads, NEW id \in Ids, counted'[u] # NoCount, counted'[u].ref[1] = id
        PROVE  counted'[u].count >= Refs(id)'
    <3> DEFINE n == counted[u].count
    <3>1. counted'[u] = counted[u]
      BY <2>2, <2>4
    <3>2. n \in Int /\ n >= Refs(id)
      BY <1>0, <2>4, <3>1 DEF SharedInv, CountsAll, DownTypes
    <3> HIDE DEF n
    <3>3. n >= Refs(id)'
      BY <1>10, <3>2
    <3>4. QED BY <3>1, <3>3 DEF n
  <2>5. ASSUME NEW id \in Ids PROVE freed'[id] <= 1 /\ (freed'[id] = 1 => Refs(id)' = 0)
    <3>1. /\ freed[id] \in Nat /\ freed[id] <= 1 /\ (freed[id] = 1 => Refs(id) = 0)
          /\ freed'[id] = IF id = which /\ c = 1 THEN freed[id] + 1 ELSE freed[id]
      BY <1>0, <1>1 DEF SharedInv, CountsAll, DownTypes
    <3>2. QED BY <1>4, <1>10, <3>1
  <2>6. QED BY <2>1, <2>3, <2>4, <2>5 DEF CountsAll
<1>15. Listed' /\ PlaysUnlessSilent'
  BY <1>1, ListedSame DEF DownInv
<1>16. QED BY <1>11, <1>12, <1>13, <1>14, <1>15 DEF DownInv

LEMMA DownWriteKeeps ==
  ASSUME DownInv, NEW id \in Ids, NEW n \in Nat, NEW last \in BOOLEAN, Write(id, n, last)
  PROVE  DownInv'
<1> DEFINE D == [chidx : Channels \union {NoChannel}, size : Nat, ago : Nat]
           known == id \in DOMAIN downloads
           stale == {j \in DOMAIN downloads : (known => j < id) /\ downloads[j].ago > Timeout}
           old   == IF known THEN Refreshed(downloads[id], n) ELSE [chidx |-> NoChannel, size |-> 0, ago |-> 0]
           starts == Starts(old, last)
           new   == IF starts THEN [old EXCEPT !.chidx = NoChannel] ELSE old
           plays == starts /\ HasPlace(old)
           over == IF last THEN {id} ELSE {}
           kept  == DOMAIN downloads \ (stale \union over)
           dropped == stale \union (over \intersect DOMAIN downloads)
           u == UseIdx(old.chidx)
           begins == IF plays THEN {id} ELSE {}
           R == Downloading(dropped) \union (IF plays THEN Decoding({slots[old.chidx][u]}) ELSE {})
<1>0. SharedInv /\ DownTypes /\ Listed
  BY DEF DownInv, SharedInv
<1>1. /\ "network" \in Threads /\ Idle("network") /\ id \in coming
      /\ downloads' = [j \in kept |-> IF j = id THEN new ELSE downloads[j]]
      /\ releases' = [releases EXCEPT !["network"] = R]
      /\ coming' = coming \ over
      /\ counted' = counted /\ freed' = freed /\ begun' = begun
  BY DEF Write, Threads
<1>2. IF plays THEN slots' = [slots EXCEPT ![old.chidx][u] = id] /\ refcnt' = [refcnt EXCEPT ![id] = refcnt[id] + 1]
      ELSE slots' = slots /\ refcnt' = refcnt
  BY DEF Write, AddRef
<1>3. /\ fate' = [fate EXCEPT ![id] = IF fate[id] # "coming" THEN fate[id] ELSE IF starts THEN "started"
                                      ELSE IF last THEN "lost" ELSE fate[id]]
      /\ pause' = [pause EXCEPT ![id] = IF fate'[id] = "started" \/ pause[id] <= Timeout THEN 0 ELSE pause[id]]
  BY DEF Write
<1>4. /\ known => /\ downloads[id] \in D /\ old \in D /\ old.chidx = downloads[id].chidx /\ old.ago = 0
      /\ ~known => old = [chidx |-> NoChannel, size |-> 0, ago |-> 0]
  <2>1. known => downloads[id] \in D
    BY <1>0 DEF DownTypes
  <2>2. known => old = [downloads[id] EXCEPT !.ago = 0, !.size = downloads[id].size + n]
    BY DEF Refreshed
  <2>3. ASSUME known PROVE old \in D /\ old.chidx = downloads[id].chidx /\ old.ago = 0
    <3> DEFINE d == downloads[id]
               k == d.size + n
    <3> HIDE DEF known, old, d
    <3>1. d \in D
      BY <2>1, <2>3 DEF d
    <3>2. k \in Nat
      BY <3>1
    <3>3. old = [d EXCEPT !.ago = 0, !.size = k]
      BY <2>2, <2>3 DEF d
    <3> HIDE DEF k
    <3>4. old \in D /\ old.chidx = d.chidx /\ old.ago = 0
      BY <3>1, <3>2, <3>3
    <3>5. QED BY <3>4 DEF d
  <2>4. ~known => old = [chidx |-> NoChannel, size |-> 0, ago |-> 0]
    OBVIOUS
  <2> HIDE DEF known, old
  <2>5. QED BY <2>1, <2>3, <2>4
<1>5. /\ old \in D /\ new \in D /\ new.ago = old.ago
      /\ new.chidx = IF starts THEN NoChannel ELSE old.chidx
  <2>1. old \in D
    BY <1>4
  <2> HIDE DEF old, starts
  <2>2. QED BY <2>1
<1>6. /\ starts => known /\ old.chidx # NoChannel
      /\ last /\ ~starts => old.chidx = NoChannel
      /\ plays => old.chidx \in Channels
  <2>1. starts => old.chidx # NoChannel
    BY DEF Starts
  <2>2. last /\ ~starts => old.chidx = NoChannel
    BY DEF Starts
  <2> HIDE DEF old, starts, known
  <2>3. starts => known
    BY <1>4, <2>1
  <2>4. QED BY <1>5, <2>1, <2>2, <2>3
<1>7. begins \subseteq DOMAIN downloads /\ \A j \in begins : ~DecHolds(j)
  <2>1. ASSUME plays PROVE known /\ downloads[id].chidx # NoChannel
    <3> HIDE DEF old, starts, known
    <3>1. QED BY <1>4, <1>6, <2>1
  <2>2. QED BY <1>0, <2>1 DEF SharedInv, StartsOnce
<1>8. DOMAIN downloads \subseteq Ids /\ (\A p \in SlotPlaces : SlotAt(p) \in Ids \union {0}) /\ 0 \notin Ids
  BY <1>0, IdsSoFar DEF Ids
<1>9. /\ dropped \subseteq DOMAIN downloads /\ kept \subseteq DOMAIN downloads /\ dropped \intersect kept = {}
      /\ kept \intersect over = {} /\ id \notin stale /\ over \subseteq {id} /\ (last => id \in over)
      /\ \A j \in DOMAIN downloads : j \notin kept => j \in over \/ downloads[j].ago > Timeout
  BY <1>8 DEF Ids
<1>10. /\ DOMAIN downloads' = kept
       /\ \A j \in kept : downloads'[j] = IF j = id THEN new ELSE downloads[j]
  BY <1>1
<1>11. refcnt' = [j \in Ids |-> IF j \in begins THEN refcnt[j] + 1 ELSE refcnt[j]]
  BY <1>0, <1>2 DEF DownTypes
<1> HIDE DEF known, old, starts, new, over, kept, dropped, stale
<1>12. ASSUME NEW j \in kept, downloads'[j].chidx # NoChannel
       PROVE  downloads[j].chidx # NoChannel /\ j \notin begins
  <2>1. CASE j = id
    <3>1. known
      BY <1>9, <2>1 DEF known
    <3>2. QED BY <1>4, <1>5, <1>10, <1>12, <2>1, <3>1
  <2>2. CASE j # id
    BY <1>10, <1>12, <2>2
  <2>3. QED BY <2>1, <2>2
<1>13. Moves("network", R, begins) /\ slots' \in [Channels -> [0 .. 2 -> 0 .. begun]]
  <2>1. /\ Downloading(dropped) \subseteq References
        /\ \A j \in Ids : <<j, "decoder">> \notin Downloading(dropped)
        /\ \A j \in Ids : <<j, "download">> \in Downloading(dropped) => j \in dropped
    BY <1>8, <1>9 DEF Downloading, References
  <2>2. CASE plays
    <3> DEFINE q == <<old.chidx, u>>
    <3>1. u \in 0 .. 2
      <4> HIDE DEF u
      <4>1. u \in 1 .. 2
        BY <1>0, <1>6, <2>2, AtPlace DEF u
      <4>2. QED BY <4>1
    <3>2. q \in SlotPlaces /\ SlotAt(q) = slots[old.chidx][u]
      <4> HIDE DEF u
      <4>1. QED BY <1>0, <1>6, <2>2, <3>1, AtPlace
    <3>3. id \in 0 .. begun /\ id # 0
      <4>1. id \in 1 .. begun
        BY <1>0, <1>1 DEF DownTypes
      <4>2. QED BY <4>1
    <3>4. /\ slots' \in [Channels -> [0 .. 2 -> 0 .. begun]]
          /\ \A p \in SlotPlaces : SlotAt(p)' = IF p = q THEN id ELSE SlotAt(p)
      <4>1. slots' = [slots EXCEPT ![old.chidx][u] = id] /\ old.chidx \in Channels
        BY <1>2, <1>6, <2>2
      <4> HIDE DEF u
      <4>2. QED BY <1>0, <3>1, <3>3, <4>1, PutAt
    <3> DEFINE X == Decoding({SlotAt(q)})
    <3>5. R = Downloading(dropped) \union X
      BY <2>2, <3>2
    <3> HIDE DEF q, R, plays
    <3>6. /\ X \subseteq References
          /\ \A j \in Ids : (<<j, "decoder">> \in X => j = SlotAt(q)) /\ <<j, "download">> \notin X
      BY <1>8, <3>2 DEF Decoding, References
    <3> HIDE DEF X
    <3>7. R \subseteq References
      BY <2>1, <3>5, <3>6
    <3>8. /\ begins = {id} /\ ~DecHolds(id)
          /\ \A p \in SlotPlaces : SlotAt(p) # id
      BY <1>7, <2>2 DEF DecHolds
    <3>9. \A j \in Ids : <<j, "decoder">> \in R => (\E p \in SlotPlaces : SlotAt(p) = j) /\ \A p \in SlotPlaces : SlotAt(p)' # j
      <4>1. ASSUME NEW j \in Ids, <<j, "decoder">> \in R
            PROVE  (\E p \in SlotPlaces : SlotAt(p) = j) /\ \A p \in SlotPlaces : SlotAt(p)' # j
        <5>1. j = SlotAt(q)
          BY <2>1, <3>5, <3>6, <4>1
        <5>2. \A p \in SlotPlaces : SlotAt(p) = j => p = q
          BY <1>0, <1>8, <3>2, <4>1, <5>1 DEF SharedInv, Alone
        <5>3. QED BY <3>2, <3>4, <3>8, <5>1, <5>2
      <4>2. QED BY <4>1
    <3>10. \A j \in Ids : <<j, "download">> \in R => j \in DOMAIN downloads /\ j \notin DOMAIN downloads'
      BY <1>9, <1>10, <2>1, <3>5, <3>6
    <3>11. /\ \A p \in SlotPlaces : SlotAt(p)' \in Ids \union {0}
           /\ \A p \in SlotPlaces : SlotAt(p)' # 0 => SlotAt(p)' \in begins \/ \E o \in SlotPlaces : SlotAt(o) = SlotAt(p)'
      BY <1>8, <3>4, <3>8
    <3>12. \A p, o \in SlotPlaces : SlotAt(p)' = SlotAt(o)' /\ SlotAt(p)' # 0 => p = o
      BY <1>0, <3>4, <3>8 DEF SharedInv, Alone
    <3> HIDE DEF begins
    <3>13. QED BY <1>1, <1>7, <1>9, <1>10, <1>11, <1>12, <3>4, <3>7, <3>9, <3>10, <3>11, <3>12 DEF Moves
  <2>3. CASE ~plays
    <3>1. slots' = slots /\ R = Downloading(dropped)
      BY <1>2, <2>3
    <3>2. slots' \in [Channels -> [0 .. 2 -> 0 .. begun]] /\ \A p \in SlotPlaces : SlotAt(p)' = SlotAt(p)
      BY <1>0, <3>1 DEF DownTypes, SlotAt
    <3> HIDE DEF R
    <3>3. \A j \in Ids : <<j, "download">> \in R => j \in DOMAIN downloads /\ j \notin DOMAIN downloads'
      BY <1>9, <1>10, <2>1, <3>1
    <3>4. /\ \A p \in SlotPlaces : SlotAt(p)' \in Ids \union {0}
          /\ \A p \in SlotPlaces : SlotAt(p)' # 0 => SlotAt(p)' \in begins \/ \E o \in SlotPlaces : SlotAt(o) = SlotAt(p)'
          /\ \A p, o \in SlotPlaces : SlotAt(p)' = SlotAt(o)' /\ SlotAt(p)' # 0 => p = o
      BY <1>0, <1>8, <3>2 DEF SharedInv, Alone
    <3> HIDE DEF begins
    <3>5. QED BY <1>1, <1>7, <1>9, <1>10, <1>11, <1>12, <2>1, <3>1, <3>2, <3>3, <3>4 DEF Moves
  <2>4. QED BY <2>2, <2>3
<1> HIDE DEF R, begins, u
<1>14. Alone' /\ StartsOnce' /\ CountsAll'
  BY <1>0, <1>13, MovesKeep
<1>15. /\ fate \in [Ids -> {"coming", "started", "lost"}] /\ pause \in [Ids -> Nat] /\ fate[id] # "lost"
       /\ Timeout \in Nat
  BY <1>0, <1>1, DownloadsAssumption DEF DownTypes, Listed
<1> DEFINE f == IF fate[id] # "coming" THEN fate[id] ELSE IF starts THEN "started" ELSE IF last THEN "lost" ELSE fate[id]
           w == IF f = "started" \/ pause[id] <= Timeout THEN 0 ELSE pause[id]
<1>16. /\ f \in {"coming", "started", "lost"} /\ w \in Nat
       /\ fate' = [fate EXCEPT ![id] = f] /\ pause' = [pause EXCEPT ![id] = w]
  <2>1. f \in {"coming", "started", "lost"} /\ fate' = [fate EXCEPT ![id] = f]
    BY <1>3, <1>15
  <2>2. fate'[id] = f
    BY <1>15, <2>1
  <2>3. w \in Nat
    <3> HIDE DEF f
    <3>1. pause[id] \in Nat
      BY <1>15
    <3>2. QED BY <3>1
  <2> HIDE DEF f
  <2>4. QED BY <1>3, <2>1, <2>2, <2>3
<1>17. /\ \A j \in Ids : fate'[j] = (IF j = id THEN f ELSE fate[j]) /\ pause'[j] = IF j = id THEN w ELSE pause[j]
       /\ fate' \in [Ids -> {"coming", "started", "lost"}] /\ pause' \in [Ids -> Nat]
  BY <1>15, <1>16
<1>18. DownTypes'
  <2>1. downloads' \in [DOMAIN downloads' -> D]
    <3>1. ASSUME NEW j \in kept PROVE (IF j = id THEN new ELSE downloads[j]) \in D
      <4>1. j \in DOMAIN downloads
        BY <1>9
      <4>2. downloads[j] \in D
        BY <1>0, <4>1 DEF DownTypes
      <4> HIDE DEF D
      <4>3. QED BY <1>5, <4>2
    <3> HIDE DEF D
    <3>2. QED BY <1>1, <3>1
  <2>2. \A j \in Ids : j > begun => fate'[j] = "coming"
    <3>1. id <= begun
      BY <1>0, <1>1 DEF DownTypes, Ids
    <3>2. \A j \in Ids : j > begun => j # id
      BY <1>0, <3>1 DEF DownTypes, Ids
    <3>3. QED BY <1>0, <1>17, <3>2 DEF DownTypes
  <2>3. coming' \subseteq coming
    BY <1>1
  <2>4. QED BY <1>0, <1>1, <1>13, <1>17, <2>1, <2>2, <2>3, MovesTypes
<1>19. coming \subseteq Ids /\ DOMAIN downloads \subseteq coming
  BY <1>0, IdsSoFar DEF DownTypes, Listed
<1>20. Listed'
  <2>1. DOMAIN downloads' \subseteq coming'
    BY <1>1, <1>9, <1>10, <1>19
  <2>2. ASSUME NEW j \in coming' PROVE fate'[j] # "lost"
    <3>1. j \in coming /\ j \in Ids /\ j \notin over
      BY <1>1, <1>19
    <3>2. CASE j = id
      BY <1>9, <1>15, <1>17, <3>1, <3>2
    <3>3. CASE j # id
      BY <1>0, <1>17, <3>1, <3>3 DEF Listed
    <3>4. QED BY <3>2, <3>3
  <2>3. ASSUME NEW j \in DOMAIN downloads', downloads'[j].chidx = NoChannel PROVE fate'[j] = "started"
    <3>1. j \in kept /\ j \in DOMAIN downloads /\ j \in Ids
      BY <1>9, <1>10, <1>19
    <3>2. CASE j # id
      <4>1. downloads[j].chidx = NoChannel
        BY <1>10, <2>3, <3>1, <3>2
      <4>2. QED BY <1>0, <1>17, <3>1, <3>2, <4>1 DEF Listed
    <3>3. CASE j = id
      <4>1. known /\ new.chidx = NoChannel
        BY <1>10, <2>3, <3>1, <3>3 DEF known
      <4>2. CASE starts
        BY <1>15, <1>17, <3>3, <4>2
      <4>3. CASE ~starts
        <5>1. downloads[id].chidx = NoChannel
          BY <1>4, <1>5, <4>1, <4>3
        <5>2. fate[id] = "started"
          BY <1>0, <4>1, <5>1 DEF Listed, known
        <5>3. QED BY <1>17, <3>3, <5>2
      <4>4. QED BY <4>2, <4>3
    <3>4. QED BY <3>2, <3>3
  <2>4. ASSUME NEW j \in coming', fate'[j] = "coming"
        PROVE  pause'[j] > Timeout \/ (j \in DOMAIN downloads' /\ downloads'[j].ago <= pause'[j])
    <3>1. j \in coming /\ j \in Ids /\ j \notin over
      BY <1>1, <1>19
    <3>2. CASE j # id
      <4> DEFINE a == downloads[j].ago
      <4>1. fate[j] = "coming" /\ pause'[j] = pause[j] /\ pause[j] \in Nat
        BY <1>15, <1>17, <2>4, <3>1, <3>2
      <4>2. pause[j] > Timeout \/ (j \in DOMAIN downloads /\ a <= pause[j])
        BY <1>0, <3>1, <4>1 DEF Listed
      <4>3. CASE pause[j] > Timeout
        BY <4>1, <4>3
      <4>4. CASE ~(pause[j] > Timeout)
        <5>1. j \in DOMAIN downloads /\ a <= pause[j]
          BY <4>2, <4>4
        <5>2. a \in Nat
          BY <1>0, <5>1 DEF DownTypes
        <5> HIDE DEF a
        <5>3. ~(a > Timeout)
          BY <1>15, <4>1, <4>4, <5>1, <5>2
        <5>4. j \in kept
          BY <1>9, <3>1, <5>1, <5>3 DEF a
        <5>5. downloads'[j] = downloads[j]
          BY <1>10, <3>2, <5>4
        <5>6. QED BY <1>10, <4>1, <5>1, <5>4, <5>5 DEF a
      <4>5. QED BY <4>3, <4>4
    <3>3. CASE j = id
      <4>1. f = "coming" /\ fate[id] = "coming" /\ ~starts
        BY <1>15, <1>17, <2>4, <3>3
      <4>2. pause'[id] = w
        BY <1>17
      <4>3. CASE pause[id] > Timeout
        <5>1. w = pause[id]
          BY <1>15, <4>1, <4>3
        <5>2. QED BY <3>3, <4>2, <4>3, <5>1
      <4>4. CASE ~(pause[id] > Timeout)
        <5>1. known
          BY <1>0, <1>1, <4>1, <4>4 DEF Listed, known
        <5>2. id \in kept
          BY <1>9, <3>1, <3>3, <5>1 DEF known, kept
        <5>3. downloads'[id].ago = 0
          BY <1>4, <1>5, <1>10, <5>1, <5>2
        <5>4. w = 0
          BY <1>15, <4>4
        <5>5. QED BY <1>10, <3>3, <4>2, <5>2, <5>3, <5>4
      <4>5. QED BY <4>3, <4>4
    <3>4. QED BY <3>2, <3>3
  <2>5. QED BY <2>1, <2>2, <2>3, <2>4 DEF Listed
<1>21. PlaysUnlessSilent'
  <2>1. ASSUME NEW j \in Ids, fate'[j] = "lost" PROVE pause'[j] > Timeout
    <3>1. CASE j # id
      BY <1>17, <2>1, <3>1 DEF DownInv, PlaysUnlessSilent
    <3>2. CASE j = id
      <4>1. f = "lost" /\ fate[id] = "coming" /\ ~starts /\ last /\ pause'[id] = w
        BY <1>15, <1>17, <2>1, <3>2
      <4>2. pause[id] > Timeout
        <5>1. ASSUME known PROVE FALSE
          <6>1. downloads[id].chidx = NoChannel
            BY <1>4, <1>6, <4>1, <5>1
          <6>2. QED BY <1>0, <4>1, <5>1, <6>1 DEF Listed, known
        <5>2. QED BY <1>0, <1>1, <4>1, <5>1 DEF Listed, known
      <4>3. w = pause[id]
        BY <1>15, <4>1, <4>2
      <4>4. QED BY <3>2, <4>1, <4>2, <4>3
    <3>3. QED BY <3>1, <3>2
  <2>2. QED BY <2>1 DEF PlaysUnlessSilent
<1>22. QED BY <1>14, <1>18, <1>20, <1>21 DEF DownInv

LEMMA DownInit == DownloadsInit => DownInv
<1> SUFFICES ASSUME DownloadsInit PROVE DownInv
  OBVIOUS
<1>1. /\ DOMAIN downloads = {} /\ coming = {} /\ begun = 0
      /\ slots = [ch \in Channels |-> Empty]
      /\ refcnt = [id \in Ids |-> 0] /\ freed = [id \in Ids |-> 0] /\ pause = [id \in Ids |-> 0]
      /\ releases = [t \in Threads |-> {}] /\ counted = [t \in Threads |-> NoCount]
      /\ fate = [id \in Ids |-> "coming"]
  BY DEF DownloadsInit
<1>2. DownTypes
  <2>1. NoCount \in [ref : Nat \X {"download", "decoder"}, count : Int]
    BY DEF NoCount
  <2>2. Empty \in [0 .. 2 -> 0 .. 0]
    BY DEF Empty
  <2>3. slots \in [Channels -> [0 .. 2 -> 0 .. 0]]
    BY <1>1, <2>2
  <2>4. downloads \in [DOMAIN downloads -> [chidx : Channels \union {NoChannel}, size : Nat, ago : Nat]]
    BY DEF DownloadsInit
  <2>5. begun <= MaxDownloads /\ begun \in Nat
    BY <1>1, DownloadsAssumption
  <2>6. counted \in [Threads -> [ref : Nat \X {"download", "decoder"}, count : Int]]
    BY <1>1, <2>1
  <2>7. releases \in [Threads -> SUBSET ((1 .. begun) \X {"download", "decoder"})]
    BY <1>1
  <2>8. QED BY <1>1, <2>3, <2>4, <2>5, <2>6, <2>7 DEF DownTypes
<1>3. /\ \A p \in SlotPlaces : SlotAt(p) = 0
      /\ \A ref : ~Released(ref)
  <2>1. ASSUME NEW p \in SlotPlaces PROVE SlotAt(p) = 0
    BY <1>1, <1>2, AtPlace DEF Empty
  <2>2. QED BY <1>1, <2>1 DEF Released
<1>4. Alone /\ StartsOnce
  BY <1>1, <1>3 DEF Alone, StartsOnce
<1>5. CountsAll
  <2>1. ASSUME NEW id \in Ids PROVE Refs(id) = 0
    <3>1. id # 0
      BY DEF Ids
    <3>2. ~DownHolds(id) /\ ~DecHolds(id)
      BY <1>1, <1>3, <3>1 DEF DownHolds, DecHolds
    <3>3. QED BY <3>2, RefsAre
  <2>2. QED BY <1>1, <2>1 DEF CountsAll
<1>6. Listed /\ PlaysUnlessSilent
  BY <1>1 DEF Listed, PlaysUnlessSilent
<1>7. QED BY <1>2, <1>4, <1>5, <1>6 DEF DownInv

LEMMA DownStep == DownInv /\ [DownloadsNext]_downloadVars => DownInv'
<1> SUFFICES ASSUME DownInv, [DownloadsNext]_downloadVars PROVE DownInv'
  OBVIOUS
<1>1. ASSUME NEW ch \in Channels, Begin(ch) PROVE DownInv'
  BY <1>1, BeginKeeps
<1>2. ASSUME NEW ch \in Channels, BeginSilence(ch) PROVE DownInv'
  BY <1>2, BeginSilenceKeeps
<1>3. ASSUME NEW ch \in Channels, Swap(ch) PROVE DownInv'
  BY <1>3, SwapKeeps
<1>4. ASSUME NEW id \in Ids, NEW n \in 0 .. MaxSize, NEW last \in BOOLEAN, Write(id, n, last) PROVE DownInv'
  <2>1. n \in Nat
    BY DownloadsAssumption
  <2>2. QED BY <1>4, <2>1, DownWriteKeeps
<1>5. ASSUME Clock PROVE DownInv'
  BY <1>5, ClockKeeps
<1>6. ASSUME UserInfo PROVE DownInv'
  BY <1>6, UserInfoKeeps
<1>7. ASSUME Disconnect PROVE DownInv'
  BY <1>7, DisconnectKeeps
<1>8. ASSUME NEW t \in Threads, ReadCount(t) PROVE DownInv'
  BY <1>8, ReadCountKeeps
<1>9. ASSUME NEW t \in Threads, WriteCount(t) PROVE DownInv'
  BY <1>9, WriteCountKeeps
<1>10. CASE UNCHANGED downloadVars
  <2>1. SharedInv
    BY DEF DownInv, SharedInv
  <2>2. Alone' /\ StartsOnce' /\ CountsAll'
    BY <1>10, <2>1, HoldersSame DEF downloadVars
  <2>3. Listed' /\ PlaysUnlessSilent'
    BY <1>10, ListedSame DEF DownInv, downloadVars
  <2>4. DownTypes'
    BY <1>10 DEF DownInv, DownTypes, downloadVars
  <2>5. QED BY <2>2, <2>3, <2>4 DEF DownInv
<1>11. QED BY <1>1, <1>2, <1>3, <1>4, <1>5, <1>6, <1>7, <1>8, <1>9, <1>10, Zenon DEF DownloadsNext

LEMMA DownServes == DownInv => DownloadServes
<1> SUFFICES ASSUME DownInv PROVE DownloadServes
  OBVIOUS
<1>1. SharedInv /\ DownTypes
  BY DEF DownInv, SharedInv
<1>2. ASSUME NEW id \in Ids, Holds(id) PROVE freed[id] # 1
  <2>1. ASSUME NEW t \in Threads, NEW ref \in releases[t], ref[1] = id
        PROVE  DownHolds(id) \/ DecHolds(id)
    <3>1. ref \in References
      BY <1>1, IdsSoFar
    <3>2. ref = <<id, "download">> \/ ref = <<id, "decoder">>
      BY <2>1, <3>1 DEF References
    <3>3. QED BY <3>2 DEF DownHolds, DecHolds, Released
  <2>2. ASSUME NEW ch \in Channels, NEW i \in 0 .. 2, slots[ch][i] = id PROVE DecHolds(id)
    <3>1. <<ch, i>> \in SlotPlaces /\ SlotAt(<<ch, i>>) = id
      BY <1>1, <2>2, AtPlace
    <3>2. QED BY <3>1 DEF DecHolds
  <2>3. DownHolds(id) \/ DecHolds(id)
    BY <1>2, <2>1, <2>2 DEF Holds, DownHolds
  <2>4. Refs(id) >= 1
    BY <2>3, RefsAre
  <2>5. QED BY <1>1, <2>4 DEF SharedInv, CountsAll
<1>3. \A id \in Ids : freed[id] <= 1
  BY <1>1 DEF SharedInv, CountsAll
<1>4. QED BY <1>2, <1>3 DEF DownInv, DownloadServes, BufferOutlives

(* Whoever has a buffer, the download, a decoder queued or playing, or a   *)
(* thread about to release it, has one that is not deleted, and none is    *)
(* deleted twice; an interval whose END comes has begun to play unless it  *)
(* was silent for longer than the timeout.                                 *)
THEOREM DownloadsServe == DownloadsSpec => []DownloadServes
BY DownInit, DownStep, DownServes, PTL DEF DownloadsSpec
=============================================================================
