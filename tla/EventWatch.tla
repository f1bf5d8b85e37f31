---------------------------- MODULE EventWatch -----------------------------
(***************************************************************************)
(* startEventMonitoring: a goroutine lists the events of the cluster for   *)
(* their resource version, watches from there, records what the watch      *)
(* delivers, opens the watch again when it breaks, and starts over when    *)
(* the resource version has expired.  The cluster's side is external: its  *)
(* n-th event gets resource version n, versions below oldest have been     *)
(* compacted, and lists, watches and streams may fail.                     *)
(***************************************************************************)
EXTENDS Integers, FiniteSets

CONSTANTS
  MaxEvents,   (* bound: events of the cluster                             *)
  MaxFailures, (* bound: failures of lists, watches and streams            *)
  System       (* the events of system namespaces                          *)

ASSUME WatchBounds      == MaxEvents \in Nat \ {0} /\ MaxFailures \in Nat
ASSUME SystemAssumption == System \subseteq 1 .. MaxEvents

VARIABLES
  head,      (* the latest event of the cluster                            *)
  oldest,    (* the oldest resource version that can be watched            *)
  ctxDone,   (* ctx is done                                                *)
  pc,        (* where the goroutine is                                     *)
  rv,        (* its rv                                                     *)
  pos,       (* the last event the open watch has delivered                *)
  recorded,  (* how often each event was recorded                          *)
  errors,    (* how many errors of a stream were recorded                  *)
  failures,  (* failures so far                                            *)
  listed,    (* history: the first rv, or -1                               *)
  expiries   (* history: how often the resource version had expired        *)

cluster == <<head, oldest, ctxDone>>
watcher == <<pc, rv, pos, recorded, errors, listed>>
watchVars    == <<cluster, watcher, failures, expiries>>

Event == 1 .. MaxEvents

(* The cluster has had events before the monitor starts, or none.          *)
WatchInit ==
  /\ head \in {0, 1}
  /\ oldest = 0
  /\ ctxDone = FALSE
  /\ pc = "top"
  /\ rv = 0
  /\ pos = 0
  /\ recorded = [e \in Event |-> 0]
  /\ errors = 0
  /\ failures = 0
  /\ listed = -1
  /\ expiries = 0

Fail == failures < MaxFailures /\ failures' = failures + 1

-----------------------------------------------------------------------------
(* The cluster.                                                            *)
NewEvent ==
  /\ head < MaxEvents
  /\ head' = head + 1
  /\ UNCHANGED <<oldest, ctxDone, watcher, failures, expiries>>

Compact ==
  /\ oldest < head
  /\ oldest' \in oldest + 1 .. head
  /\ UNCHANGED <<head, ctxDone, watcher, failures, expiries>>

WatchCancel ==
  /\ ~ctxDone
  /\ ctxDone' = TRUE
  /\ UNCHANGED <<head, oldest, watcher, failures, expiries>>

-----------------------------------------------------------------------------
(* The outer loop looks at the context, and nothing else does.             *)
LookAtContext ==
  /\ pc = "top"
  /\ pc' = IF ctxDone THEN "stopped" ELSE "list"
  /\ UNCHANGED <<cluster, rv, pos, recorded, errors, listed, failures, expiries>>

(* Mutant: the resource version of the list is not taken over.             *)
ListWithoutVersion ==
  /\ pc = "list"
  /\ ~ctxDone
  /\ rv' = 0
  /\ listed' = IF listed = -1 THEN head ELSE listed
  /\ pc' = "watch"
  /\ UNCHANGED <<cluster, pos, recorded, errors, failures, expiries>>

List ==
  /\ pc = "list"
  /\ ~ctxDone
  /\ rv' = head
  /\ listed' = IF listed = -1 THEN head ELSE listed
  /\ pc' = "watch"
  /\ UNCHANGED <<cluster, pos, recorded, errors, failures, expiries>>

(* A list fails once the context is done, and may fail before.             *)
ListFails ==
  /\ pc = "list"
  /\ pc' = "top"
  /\ IF ctxDone THEN UNCHANGED failures ELSE Fail
  /\ UNCHANGED <<cluster, rv, pos, recorded, errors, listed, expiries>>

(* Mutant: the watch begins after the next event.                          *)
WatchAfterNext ==
  /\ pc = "watch"
  /\ ~ctxDone
  /\ rv >= oldest
  /\ pos' = rv + 1
  /\ pc' = "read"
  /\ UNCHANGED <<cluster, rv, recorded, errors, listed, failures, expiries>>

Watch ==
  /\ pc = "watch"
  /\ ~ctxDone
  /\ rv >= oldest
  /\ pos' = rv
  /\ pc' = "read"
  /\ UNCHANGED <<cluster, rv, recorded, errors, listed, failures, expiries>>

(* Mutant: an expired resource version is watched again, like any error.   *)
WatchExpiredAgain ==
  /\ pc = "watch"
  /\ ~ctxDone
  /\ rv < oldest
  /\ expiries' = 1
  /\ UNCHANGED <<cluster, watcher, failures>>

(* break: the outer loop lists again.                                      *)
WatchExpired ==
  /\ pc = "watch"
  /\ ~ctxDone
  /\ rv < oldest
  /\ expiries' = expiries + 1
  /\ pc' = "top"
  /\ UNCHANGED <<cluster, rv, pos, recorded, errors, listed, failures>>

(* continue: any other error, and every error once the context is done,    *)
(* makes the inner loop watch from rv again: nothing changes.              *)
WatchFails ==
  /\ pc = "watch"
  /\ IF ctxDone THEN UNCHANGED failures ELSE Fail
  /\ UNCHANGED <<cluster, watcher, expiries>>

(* The next event: the filter drops those of other namespaces.             *)
Deliver ==
  /\ pc = "read"
  /\ pos < head
  /\ pos' = pos + 1
  /\ recorded' = IF pos' \in System
                 THEN [recorded EXCEPT ![pos'] = @ + 1] ELSE recorded
  /\ UNCHANGED <<cluster, pc, rv, errors, listed, failures, expiries>>

(* Mutant: a watch that breaks makes the goroutine list again.             *)
StreamEndsAndList ==
  /\ pc = "read"
  /\ IF ctxDone THEN UNCHANGED failures ELSE Fail
  /\ pc' = "top"
  /\ UNCHANGED <<cluster, rv, pos, recorded, errors, listed, expiries>>

(* The stream is closed: the inner loop goes on, with the rv of the list.  *)
StreamEnds ==
  /\ pc = "read"
  /\ IF ctxDone THEN UNCHANGED failures ELSE Fail
  /\ pc' = "watch"
  /\ UNCHANGED <<cluster, rv, pos, recorded, errors, listed, expiries>>

(* So it does when the stream delivers an error that is not an expiry,     *)
(* which is recorded.                                                      *)
StreamErrors ==
  /\ pc = "read"
  /\ Fail
  /\ errors' = errors + 1
  /\ pc' = "watch"
  /\ UNCHANGED <<cluster, rv, pos, recorded, listed, expiries>>

(* The stream delivers an expiry: expired = true ends the inner loop.      *)
StreamExpires ==
  /\ pc = "read"
  /\ pos < oldest
  /\ expiries' = expiries + 1
  /\ pc' = "top"
  /\ UNCHANGED <<cluster, rv, pos, recorded, errors, listed, failures>>

Cluster == NewEvent \/ Compact \/ WatchCancel

Loop ==
  \/ LookAtContext \/ List \/ ListFails
  \/ Watch \/ WatchExpired \/ WatchFails
  \/ Deliver \/ StreamEnds \/ StreamErrors \/ StreamExpires

WatchNext == Cluster \/ Loop

WatchSpec == WatchInit /\ [][WatchNext]_watchVars

(* The goroutine runs, the client answers and the stream of a context that *)
(* is done ends; the cluster and the interruption are nobody's duty.       *)
FairWatch ==
  /\ WatchSpec
  /\ WF_watchVars(LookAtContext) /\ WF_watchVars(List \/ ListFails)
  /\ WF_watchVars(Watch) /\ WF_watchVars(WatchExpired)
  /\ WF_watchVars(Deliver) /\ WF_watchVars(ctxDone /\ StreamEnds)

-----------------------------------------------------------------------------
(* Every variable stays within its type.                                   *)
WatchTypeOK ==
  /\ head \in 0 .. MaxEvents
  /\ oldest \in 0 .. head
  /\ ctxDone \in BOOLEAN
  /\ pc \in {"top", "list", "watch", "read", "stopped"}
  /\ rv \in 0 .. head
  /\ pos \in 0 .. head
  /\ recorded \in [Event -> Nat]
  /\ failures \in 0 .. MaxFailures /\ errors \in 0 .. failures
  /\ listed \in -1 .. rv
  /\ expiries \in Nat

(* However often the watch breaks, only an expiry makes the monitor pass   *)
(* over an event: without one, each event of a system namespace after the  *)
(* list and up to what the open watch has delivered is recorded.           *)
OnlyExpirySkips ==
  pc = "read" /\ expiries = 0 =>
    \A e \in System : e \in listed + 1 .. pos => recorded[e] > 0

(* No event from before the list is recorded, and none of a namespace the  *)
(* filter drops, however often the watch starts over.                      *)
NothingElseRecorded ==
  \A e \in Event : recorded[e] > 0 => e \in System /\ listed # -1 /\ e > listed

(* What is recorded are the events since the list of the system namespaces, *)
(* all of them but for an expiry.                                          *)
RecordedExactly == OnlyExpirySkips /\ NothingElseRecorded

(* An event of a system namespace after the list is recorded sooner or     *)
(* later, unless the resource version expires or the run ends.             *)
EventuallyRecorded ==
  \A e \in System :
    listed # -1 /\ e \in listed + 1 .. head
      ~> (recorded[e] > 0 \/ expiries > 0 \/ ctxDone)

(* After an expiry the goroutine comes to read a watch again, unless the   *)
(* run ends.                                                               *)
ResumesAfterExpiry == expiries > 0 ~> (pc = "read" \/ ctxDone)

(* Broken and expired watches do not end the recording.                    *)
KeepsRecording == EventuallyRecorded /\ ResumesAfterExpiry

(* "Start begins monitoring the cluster ... until context is finished":    *)
(* the goroutine stops once the context is done.                           *)
StopsWithContext == ctxDone ~> pc = "stopped"
=============================================================================
