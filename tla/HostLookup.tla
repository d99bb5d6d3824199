----------------------------- MODULE HostLookup -----------------------------
(***************************************************************************)
(* How a connection begins (JNL_Connection::connect and run,               *)
(* connection.cpp): the name of the host is looked up by a thread of the   *)
(* connection's own resolver (JNL_AsyncDNS, asyncdns.cpp), which Run asks  *)
(* until it answers; then the socket connects.  The app may give the       *)
(* attempt up at any time and begin another (NJClient::Connect,            *)
(* Disconnect), which takes the resolver down, with the thread.            *)
(*                                                                         *)
(* The thread shares the cache with Run without a lock.  A resolver is     *)
(* asked for one name, so its cache holds one entry.  Lookups, sockets and *)
(* the creation of threads are external and may fail.                      *)
(***************************************************************************)
EXTENDS Naturals

CONSTANTS Addresses,    \* of hosts
          MaxAttempts,  \* bound: attempts
          MaxRefusals   \* bound: threads that could not be created

ASSUME LookupAssumption == MaxAttempts \in Nat /\ MaxRefusals \in Nat

NONE    == "none"     \* INADDR_NONE
UNSET   == "unset"    \* an entry that has not been used
HostHas == Addresses \union {NONE}

FREED   == "freed"

ASSUME AddressAssumption == {NONE, UNSET, FREED} \intersect Addresses = {}

VARIABLES
  state,     \* m_state: "none", "resolving", "connecting", "connected" or "error"
  addr,      \* m_saddr
  host,      \* what the name stands for; NONE if nobody knows it
  entry,     \* the entry of m_cache: addr, resolved; freed when there is no resolver
  kill,      \* m_thread_kill
  thread,    \* _threadfunc: "none", "scan", "lookup", "answer", "leave" or "gone"
  joined,    \* the destructor waits for the thread
  attempts, refusals   \* history

lookupVars == <<state, addr, host, entry, kill, thread, joined, attempts, refusals>>

Unused == [addr |-> UNSET, resolved |-> FALSE]
Freed  == [addr |-> FREED, resolved |-> FALSE]

LookupTypeOK ==
  /\ state \in {"none", "resolving", "connecting", "connected", "error"}
  /\ {addr, host} \subseteq HostHas
  /\ entry \in [addr : HostHas \union {UNSET, FREED}, resolved : BOOLEAN]
  /\ kill \in BOOLEAN /\ joined \in BOOLEAN
  /\ thread \in {"none", "scan", "lookup", "answer", "leave", "gone"}
  /\ {attempts, refusals} \subseteq Nat

LookupInit ==
  /\ state = "none" /\ addr = NONE /\ host = NONE /\ entry = Freed /\ kill = TRUE
  /\ thread = "none" /\ joined = FALSE /\ attempts = 0 /\ refusals = 0
-----------------------------------------------------------------------------
(* JNL_AsyncDNS::_threadfunc.  The address and the flag are stored one     *)
(* after the other, and may be seen in either order.                       *)
ThreadScan ==
  /\ thread = "scan"
  /\ thread' = IF ~kill /\ entry.addr # UNSET /\ ~entry.resolved THEN "lookup" ELSE "leave"
  /\ UNCHANGED <<state, addr, host, entry, kill, joined, attempts, refusals>>

ThreadLookup ==
  /\ thread = "lookup" /\ thread' = "answer"
  /\ entry' \in {[entry EXCEPT !.addr = host], [entry EXCEPT !.resolved = TRUE]}
  /\ UNCHANGED <<state, addr, host, kill, joined, attempts, refusals>>

ThreadAnswer ==
  /\ thread = "answer" /\ thread' = "leave"
  /\ entry' = [addr |-> host, resolved |-> TRUE]
  /\ UNCHANGED <<state, addr, host, kill, joined, attempts, refusals>>

ThreadLeave ==
  /\ thread = "leave" /\ thread' = "gone" /\ kill' = TRUE
  /\ UNCHANGED <<state, addr, host, entry, joined, attempts, refusals>>

ThreadSteps == ThreadScan \/ ThreadLookup \/ ThreadAnswer \/ ThreadLeave
-----------------------------------------------------------------------------
(* makesurethreadisrunning: a thread that is leaving is waited for, and    *)
(* another one begun.                                                      *)
CreateThread ==
  \/ kill' = FALSE /\ thread' = "scan" /\ UNCHANGED refusals
  \/ refusals < MaxRefusals /\ refusals' = refusals + 1
     /\ kill' = TRUE /\ thread' = "none"

EnsureThreadMutant == UNCHANGED <<kill, thread, refusals>>
EnsureThread ==
  IF ~kill THEN UNCHANGED <<kill, thread, refusals>>
  ELSE thread \in {"none", "gone"} /\ CreateThread

(* resolve(): the entry for the name is made, and a thread for it ...      *)
ResolveFirst ==
  /\ entry = Unused /\ entry' = [addr |-> NONE, resolved |-> FALSE]
  /\ IF ~kill THEN UNCHANGED <<kill, thread, refusals>> ELSE CreateThread
  /\ UNCHANGED <<state, addr>>

(* ... or it is not answered yet ...                                       *)
ResolveWait ==
  /\ entry # Unused /\ ~entry.resolved
  /\ EnsureThread
  /\ UNCHANGED <<entry, state, addr>>

(* ... or it is, and run() goes on to connect.                             *)
ResolveDone ==
  /\ entry # Unused /\ entry.resolved
  /\ IF entry.addr = NONE THEN state' = "error" /\ UNCHANGED addr
     ELSE addr' = entry.addr /\ state' \in {"connecting", "connected", "error"}
  /\ UNCHANGED <<entry, kill, thread, refusals>>

(* JNL_Connection::run, while the connection is not there.  An address     *)
(* needs no lookup.                                                        *)
RunResolving ==
  /\ state = "resolving"
  /\ IF addr = NONE THEN ResolveFirst \/ ResolveWait \/ ResolveDone
     ELSE state' \in {"connecting", "connected", "error"}
          /\ UNCHANGED <<addr, entry, kill, thread, refusals>>
  /\ UNCHANGED <<host, joined, attempts>>

RunConnecting ==
  /\ state = "connecting" /\ state' \in {"connected", "error"}
  /\ UNCHANGED <<addr, host, entry, kill, thread, joined, attempts, refusals>>

RunConnection == ~joined /\ (RunResolving \/ RunConnecting)
-----------------------------------------------------------------------------
(* NJClient::Connect: a connection with a resolver of its own.  Some names *)
(* are addresses already; a socket may be refused, or the name empty.      *)
BeginAttempt ==
  /\ entry = Freed /\ attempts < MaxAttempts /\ attempts' = attempts + 1
  /\ \/ \E h \in HostHas, named \in BOOLEAN :
          /\ host' = h /\ addr' = IF named THEN NONE ELSE h
          /\ state' = "resolving"
     \/ state' = "error" /\ UNCHANGED <<host, addr>>
  /\ entry' = Unused /\ kill' = TRUE /\ thread' = "none"
  /\ UNCHANGED <<joined, refusals>>

(* ~JNL_Connection, ~JNL_AsyncDNS: the thread is told to leave, waited     *)
(* for, and the cache freed.                                               *)
BeginDelete ==
  /\ entry # Freed /\ ~joined /\ joined' = TRUE /\ kill' = TRUE
  /\ UNCHANGED <<state, addr, host, entry, thread, attempts, refusals>>

MayFreeMutant == TRUE
MayFree == thread \in {"none", "gone"}
EndDelete ==
  /\ joined /\ MayFree
  /\ joined' = FALSE /\ entry' = Freed /\ state' = "none"
  /\ UNCHANGED <<addr, host, kill, thread, attempts, refusals>>
-----------------------------------------------------------------------------
LookupNext == ThreadSteps \/ RunConnection \/ BeginAttempt \/ BeginDelete \/ EndDelete

(* The threads run, a lookup returns, and a socket in progress ends well or*)
(* not.                                                                    *)
LookupFairness == WF_lookupVars(ThreadSteps) /\ WF_lookupVars(RunConnection)
                  /\ WF_lookupVars(EndDelete)

LookupSpec == LookupInit /\ [][LookupNext]_lookupVars /\ LookupFairness
-----------------------------------------------------------------------------
(* The thread of a resolver uses the cache only while it is there, however *)
(* early the attempt is given up (~JNL_AsyncDNS joins it).                 *)
CacheOutlives == thread \in {"scan", "lookup", "answer", "leave"} => entry # Freed

(* An attempt ends: connected, with an error, or given up; and giving up   *)
(* returns.  A thread that could not be created is tried again, and one    *)
(* that left before it saw the name is followed by another (resolve calls  *)
(* makesurethreadisrunning each time it has no answer yet).                *)
AttemptEnds ==
  /\ state = "resolving" ~> state # "resolving"
  /\ joined ~> ~joined
=============================================================================
