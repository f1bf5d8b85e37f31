------------------------------ MODULE Monitor ------------------------------
(***************************************************************************)
(* The monitor of the cluster: recorders append events, a goroutine takes  *)
(* a sample every interval and one more when the context is done, and any  *)
(* goroutine may ask for what happened between two instants.  The          *)
(* run-monitor command is such a reader: it polls for new events, prints   *)
(* them, and reports the sampled conditions at the end.                    *)
(*                                                                         *)
(* Stamps are time.Now().UTC(), which drops the monotonic reading: the     *)
(* clock is the wall clock, it may read the same twice, and somebody may   *)
(* set it back.  0 is the zero time, which stands for no bound.            *)
(* A list of intervals is the set of its members: both the sort of Events  *)
(* and the order of sampling leave members with equal From in an           *)
(* unspecified order, and the readers only ask for the last From.          *)
(***************************************************************************)
EXTENDS Integers, Sequences, FiniteSetsExt

CONSTANTS
  Cond,          (* the conditions samplers report                         *)
  MaxRecords,    (* bound: how many calls of Record                        *)
  MaxConditions, (* bound: how many conditions one call records            *)
  MaxSamples,    (* bound: how many samples before the context is done     *)
  MaxSetBacks    (* bound: how often the wall clock is set back            *)

ASSUME CondAssumption  == Cond # {}
ASSUME BoundAssumption == {MaxRecords, MaxConditions, MaxSamples, MaxSetBacks} \subseteq Nat

VARIABLES
  clock,       (* what the wall clock read last                            *)
  setBacks,    (* history: how often it has been set back                  *)
  events,      (* Monitor.events                                           *)
  samples,     (* Monitor.samples                                          *)
  sampler,     (* where the sampling goroutine is                          *)
  seen,        (* the conditions its samplers have reported                *)
  cancelled,   (* the context is done                                      *)
  before,      (* history: how many events there were when it was done     *)
  loop,        (* the printing goroutine of run-monitor                    *)
  last,        (* its last                                                 *)
  printed,     (* how often it printed each event                          *)
  over,        (* run-monitor has reported the conditions and returned     *)
  records,     (* history: how many calls of Record                        *)
  taken        (* history: how many samples, the empty ones included       *)

sampling == <<sampler, seen, taken>>
printing == <<loop, last, printed>>
time == <<clock, setBacks>>
context == <<cancelled, before>>
vars == <<time, events, samples, sampling, context, printing, over, records>>

Init ==
  /\ clock = 1
  /\ setBacks = 0
  /\ events = <<>>
  /\ samples = <<>>
  /\ sampler = "idle"
  /\ seen = {}
  /\ cancelled = FALSE
  /\ before = 0
  /\ loop = "running"
  /\ last = 0
  /\ printed = <<>>
  /\ over = FALSE
  /\ records = 0
  /\ taken = 0

-----------------------------------------------------------------------------
(* time.Now().UTC() returns t.                                             *)
Now(t) ==
  /\ clock' = t
  /\ \/ t \in {clock, clock + 1} /\ UNCHANGED setBacks
     \/ t < clock /\ setBacks < MaxSetBacks /\ setBacks' = setBacks + 1

(* Mutant: the lower half keeps its own middle out of the search's reach   *)
(* from below.                                                             *)
HalveShort(b, after) ==
  LET h == (b.i + b.j) \div 2
  IN  IF b.i >= b.j THEN b
      ELSE IF h + 1 \in after THEN [b EXCEPT !.j = h] ELSE [b EXCEPT !.i = h]

(* sort.Search: each round looks at the middle of what is left.            *)
Halve(b, after) ==
  LET h == (b.i + b.j) \div 2
  IN  IF b.i >= b.j THEN b
      ELSE IF h + 1 \in after THEN [b EXCEPT !.j = h] ELSE [b EXCEPT !.i = h + 1]

(* What is left of n positions after each number of rounds; n are enough.  *)
Bounds(n, after) ==
  LET bounds[k \in 0 .. n] ==
        IF k = 0 THEN [i |-> 0, j |-> n] ELSE Halve(bounds[k - 1], after)
  IN  bounds

(* How many positions it passes over to find those in after.               *)
Search(n, after) == Bounds(n, after)[n].i

(* The positions of a list of stamped things a query keeps: a binary       *)
(* search drops those up to the first one after from, in order or not, and *)
(* a scan stops at the first one after to.                                 *)
Kept(list, from, to) ==
  LET passed == Search(Len(list), {i \in DOMAIN list : list[i].at > from})
      first  == {i \in DOMAIN list : i > passed}
  IN  {i \in first : to = 0 \/ \A j \in first : j <= i => list[j].at <= to}

(* Mutant: the binary search keeps what happened at from.                  *)
FilterEventsFrom(from, to) ==
  {i \in DOMAIN events : events[i].at >= from /\ (to = 0 \/ events[i].at <= to)}

(* Mutant: what happened at to is left out.                                *)
FilterEventsBefore(from, to) ==
  {i \in Kept(events, from, to) : to = 0 \/ events[i].at < to}

FilterEvents(from, to) == Kept(events, from, to)

(* Mutant: the map is not emptied before it is used for the next sample.   *)
ExtendStale(acc, s) ==
  LET continued == {i \in acc.open : i.cond \in s.conds}
      fresh == s.conds \ {i.cond : i \in acc.open}
  IN  [open |-> {[i EXCEPT !.to = s.at] : i \in continued}
                  \union {[cond |-> c, from |-> s.at, to |-> s.at] : c \in fresh}
                  \union (acc.open \ continued),
       closed |-> acc.closed]

(* One sample: a condition of the sample before is extended, any other one *)
(* begins an interval, and those the sample does not report are over.      *)
Extend(acc, s) ==
  LET continued == {i \in acc.open : i.cond \in s.conds}
      fresh == s.conds \ {i.cond : i \in acc.open}
  IN  [open |-> {[i EXCEPT !.to = s.at] : i \in continued}
                  \union {[cond |-> c, from |-> s.at, to |-> s.at] : c \in fresh},
       closed |-> acc.closed \union (acc.open \ continued)]

(* The intervals after each number of samples, of those a query keeps.     *)
UpTo(kept) ==
  LET upTo[n \in 0 .. Len(samples)] ==
        IF n = 0 THEN [open |-> {}, closed |-> {}]
        ELSE IF n \in kept THEN Extend(upTo[n - 1], samples[n]) ELSE upTo[n - 1]
  IN  upTo

(* The intervals made of the samples a query keeps.                        *)
Intervals(kept) ==
  LET acc == UpTo(kept)[Len(samples)]
  IN  acc.open \union acc.closed

FilterSamples(from, to) == Intervals(Kept(samples, from, to))

Conditions(from, to) == FilterSamples(from, to)

-----------------------------------------------------------------------------
(* Mutant: the clock is read before the lock is taken.                     *)
RecordStampsEarly(n) ==
  /\ ~over
  /\ records < MaxRecords
  /\ records' = records + 1
  /\ Now(clock + 1)
  /\ \E t \in 1 .. clock :
       events' = events \o [i \in 1 .. n |-> [at |-> t]]
  /\ printed' = printed \o [i \in 1 .. n |-> 0]
  /\ UNCHANGED <<samples, sampling, context, loop, last, over>>

(* Record(conditions...) of n conditions, by an informer's handler or a    *)
(* goroutine; which conditions they are makes no difference here.          *)
Record(n) ==
  /\ ~over
  /\ records < MaxRecords
  /\ records' = records + 1
  /\ \E t \in 1 .. clock + 1 :
       Now(t) /\ events' = events \o [i \in 1 .. n |-> [at |-> t]]
  /\ printed' = printed \o [i \in 1 .. n |-> 0]
  /\ UNCHANGED <<samples, sampling, context, loop, last, over>>

(* The goroutine of StartSampling: a tick, or the context is done, makes   *)
(* it call the samplers ...                                                *)
SampleTick ==
  /\ ~over
  /\ sampler = "idle"
  /\ taken < MaxSamples
  /\ sampler' = "tick"
  /\ seen' \in SUBSET Cond
  /\ UNCHANGED <<time, events, samples, taken, context, printing, over, records>>

SampleDone ==
  /\ ~over
  /\ sampler = "idle"
  /\ cancelled
  /\ sampler' = "final"
  /\ seen' \in SUBSET Cond
  /\ UNCHANGED <<time, events, samples, taken, context, printing, over, records>>

(* Mutant: a sample without conditions is kept.                            *)
AppendAnySample ==
  /\ ~over
  /\ sampler \in {"tick", "final"}
  /\ sampler' = IF sampler = "final" THEN "stopped" ELSE "idle"
  /\ seen' = {}
  /\ \E t \in 1 .. clock + 1 :
       Now(t) /\ samples' = Append(samples, [at |-> t, conds |-> seen])
  /\ taken' = taken + 1
  /\ UNCHANGED <<events, context, printing, over, records>>

(* ... and what they reported, if anything, becomes a sample of the moment *)
(* the lock is taken again.                                                *)
AppendSample ==
  /\ ~over
  /\ sampler \in {"tick", "final"}
  /\ sampler' = IF sampler = "final" THEN "stopped" ELSE "idle"
  /\ seen' = {}
  /\ \E t \in 1 .. clock + 1 :
       IF seen = {} THEN UNCHANGED <<time, samples>>
       ELSE Now(t) /\ samples' = Append(samples, [at |-> t, conds |-> seen])
  /\ taken' = taken + 1
  /\ UNCHANGED <<events, context, printing, over, records>>

(* cancelFn()                                                              *)
Cancel ==
  /\ ~over /\ ~cancelled
  /\ cancelled' = TRUE
  /\ before' = Len(events)
  /\ UNCHANGED <<time, events, samples, sampling, printing, over, records>>

-----------------------------------------------------------------------------
(* Print what happened after last: Events merges the intervals and the     *)
(* events, sorts them by From if there is an interval, and only the        *)
(* instantaneous ones are printed; last is the From of the last one.       *)
PrintNew ==
  LET new       == FilterEvents(last, 0)
      intervals == FilterSamples(last, 0)
      from      == {events[i].at : i \in new} \union {v.from : v \in intervals}
  IN  /\ printed' = [i \in DOMAIN printed |->
                       IF i \in new THEN printed[i] + 1 ELSE printed[i]]
      /\ last' = IF from = {} THEN last
                 ELSE IF intervals = {} THEN events[Len(events)].at
                 ELSE Max(from)

PollTick ==
  /\ ~over
  /\ loop = "running"
  /\ PrintNew
  /\ UNCHANGED <<time, events, samples, sampling, context, loop, over, records>>

(* Mutant: the loop ends without a last look.                              *)
PollDoneAtOnce ==
  /\ ~over
  /\ loop = "running"
  /\ cancelled
  /\ loop' = "stopped"
  /\ UNCHANGED <<time, events, samples, sampling, context, last, printed, over,
                 records>>

PollDone ==
  /\ ~over
  /\ loop = "running"
  /\ cancelled
  /\ PrintNew
  /\ loop' = "stopped"
  /\ UNCHANGED <<time, events, samples, sampling, context, over, records>>

(* Run sleeps, reports and returns.  Nothing makes it wait for the last    *)
(* poll or for the last sample.                                            *)
Report ==
  /\ ~over
  /\ cancelled
  /\ over' = TRUE
  /\ UNCHANGED <<time, events, samples, sampling, context, printing, records>>

Next ==
  \/ \E n \in 1 .. MaxConditions : Record(n)
  \/ SampleTick \/ SampleDone \/ AppendSample
  \/ Cancel
  \/ PollTick \/ PollDone \/ Report

Spec == Init /\ [][Next]_vars

-----------------------------------------------------------------------------
Stamp == Nat \ {0}

(* Every variable stays within its type.                                   *)
TypeOK ==
  /\ clock \in Stamp
  /\ setBacks \in 0 .. MaxSetBacks
  /\ events \in Seq([at : Stamp])
  /\ samples \in Seq([at : Stamp, conds : (SUBSET Cond) \ {{}}])
  /\ sampler \in {"idle", "tick", "final", "stopped"}
  /\ seen \subseteq Cond
  /\ cancelled \in BOOLEAN
  /\ before \in 0 .. Len(events)
  /\ loop \in {"running", "stopped"}
  /\ last \in Nat
  /\ printed \in Seq(Nat) /\ Len(printed) = Len(events)
  /\ over \in BOOLEAN
  /\ records \in 0 .. MaxRecords /\ taken \in 0 .. MaxSamples + 1

(* Nobody has set the wall clock back.                                     *)
Steady == setBacks = 0

(* "All conditions are recorded in monotonic order": no list goes back in  *)
(* time, although recorders, the sampling goroutine and readers only share *)
(* a lock.                                                                 *)
RecordedInOrder ==
  /\ \A i, j \in DOMAIN events : i < j => events[i].at <= events[j].at
  /\ \A i, j \in DOMAIN samples : i < j => samples[i].at <= samples[j].at

(* What lies after from and up to to.                                      *)
Within(list, from, to) ==
  {i \in DOMAIN list : list[i].at > from /\ (to = 0 \/ list[i].at <= to)}

(* A query finds what lies within its bounds and nothing else.             *)
BoundsExact ==
  \A from, to \in 0 .. clock :
    /\ FilterEvents(from, to) = Within(events, from, to)
    /\ Kept(samples, from, to) = Within(samples, from, to)

(* What Conditions promises, said of runs of consecutive samples: one      *)
(* interval, from the first to the last sample, for each longest run of    *)
(* samples among those the query keeps that report the condition.          *)
RunsOf(kept) ==
  LET Reports(i, c) == i \in kept /\ c \in samples[i].conds
      IsRun(i, j, c) ==
        /\ i <= j /\ \A k \in i .. j : Reports(k, c)
        /\ ~Reports(i - 1, c) /\ ~Reports(j + 1, c)
  IN  {[cond |-> r[3], from |-> samples[r[1]].at, to |-> samples[r[2]].at] :
         r \in {t \in kept \X kept \X Cond : IsRun(t[1], t[2], t[3])}}

(* A query for conditions returns these runs, and one without bounds, like *)
(* that of the report, those of all samples, whatever the clock did.       *)
ConditionQueryExact ==
  /\ \A kept \in {Kept(samples, from, to) : from, to \in 0 .. clock} :
       Intervals(kept) = RunsOf(kept)
  /\ Conditions(0, 0) = RunsOf(DOMAIN samples)

(* However recorders and samples interleave, equal stamps included, the    *)
(* lists are in order and the binary searches keep exactly what the bounds *)
(* say as long as nobody sets the wall clock back; the intervals made of   *)
(* the samples a query keeps are exact even if somebody does.              *)
QueriesExact ==
  /\ Steady => RecordedInOrder /\ BoundsExact
  /\ ConditionQueryExact

(* An earlier event, printed, or a sample has the stamp of this event.     *)
SharesItsStamp(i) ==
  \/ \E j \in 1 .. i - 1 : events[j].at = events[i].at /\ printed[j] > 0
  \/ \E j \in DOMAIN samples : samples[j].at = events[i].at

(* run-monitor prints no event twice, although an interval that began      *)
(* before the last poll shows up again in the next one; it passes over     *)
(* none up to last but one that shares its stamp with something that an    *)
(* earlier poll found; and once its last poll is over, the same is true of *)
(* every event recorded before the interruption.  Not so if the wall clock *)
(* was set back; and Run may report before that last poll.                 *)
PrintedExactlyOnce ==
  Steady =>
    \A i \in DOMAIN events :
      /\ printed[i] <= 1
      /\ events[i].at <= last \/ (loop = "stopped" /\ i <= before)
           => printed[i] = 1 \/ SharesItsStamp(i)
=============================================================================
