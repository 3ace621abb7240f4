----------------------------- MODULE Heartbeats -----------------------------
(***************************************************************************)
(* The dead man's switch for jobs RedMan does not run (externalJobs.js):   *)
(* one job that reports over HTTP, or leaves signed lines on a broker that *)
(* ntfyRelay.js reads in overlapping windows; the health derived from its  *)
(* reports, the transitions logged in events.js, and the retention that    *)
(* thins the reports out (databaseRetention.js).                           *)
(*                                                                         *)
(* Abstractions.                                                           *)
(*  - Time is in ticks; a request is answered within one, so a poll reads  *)
(*    the broker and the clock together, and stores in the same tick.      *)
(*  - A signed line is the record of what it signs: when it was made, its  *)
(*    result and its key.  Malformed lines are passed over.                *)
(*  - The schedule is every Period ticks; cron expressions and the wording *)
(*    of the reports are left out.                                         *)
(***************************************************************************)
EXTENDS Integers, Sequences, FiniteSets

CONSTANTS
    Lookback,   \* LOOKBACK_MINUTES, in ticks
    MaxAge,     \* RELAY_MAX_AGE_SECONDS, in ticks
    Intervals,  \* how long a cycle may wait after a poll, in ticks
    Backoff,    \* FAILURE_BACKOFF_MS, in ticks
    Ahead,      \* how far the clock of the host may be ahead, in ticks
    Period,     \* the job's schedule: due at every multiple of Period
    Grace,      \* grace_seconds, in ticks
    Keep,       \* external_run_retention_days, in ticks
    MaxTime,    \* bound: ticks
    MaxBeats,   \* bound: reports the job makes
    MaxReposts, \* bound: lines somebody posts again
    MaxEvents,  \* bound: what operators, restarts and failures do
    None

\* A line is refused before retention can drop the row that remembers it: it is
\* accepted until its own time plus MaxAge, and that time is at most MaxAge ahead.
ASSUME HeartbeatsAssumption ==
    /\ {Lookback, MaxAge, Backoff, Ahead, Grace, Keep} \subseteq Nat
    /\ {MaxTime, MaxBeats, MaxReposts, MaxEvents} \subseteq Nat
    /\ Intervals \subseteq Nat \ {0} /\ Period \in Nat \ {0}
    /\ 2 * MaxAge <= Keep
    /\ None \notin Nat

Results == {"completed", "failed"}
Line == [ts : Nat, result : Results, key : Nat]

ASSUME LineAssumption == None \notin Line

VARIABLES
    now,
    mode, created, key, runs, logged, \* the job's row, its reports and last event
    topic,                            \* lines on the broker, each with its posting time
    configured, timer, poll,          \* the relay: the timer's due time, the poll under way
    beats, reposts, events,
    recorded,                         \* every line that was ever recorded
    round                             \* when the last poll that ended well had begun

job   == <<mode, created, key, runs, logged>>
relay == <<configured, timer, poll>>
bound == <<beats, reposts, events>>
heartbeatVars == <<now, job, topic, relay, bound, recorded, round>>

\* The members of S one after the other, the lower rank first.
InOrder(S, rank) ==
    CHOOSE s \in [1..Cardinality(S) -> S] :
        /\ \A x \in S : \E i \in DOMAIN s : s[i] = x
        /\ \A i, j \in DOMAIN s : i < j => rank[s[i]] <= rank[s[j]]

NoPoll == [at |-> None, reads |-> FALSE, posts |-> {}]

HeartbeatInit ==
    /\ now = 0
    /\ mode = "on" /\ created = 0 /\ key = 0 /\ runs = <<>> /\ logged = "none"
    /\ topic = {}
    /\ configured \in BOOLEAN /\ timer = 0 /\ poll = NoPoll
    /\ beats = 0 /\ reposts = 0 /\ events = 0
    /\ recorded = {} /\ round = None

-----------------------------------------------------------------------------
(* The reports and what is derived from them.                              *)

\* Reports are stamped on arrival: the last one of a status is the newest.
latestRun(rs, statuses) ==
    LET found == {i \in DOMAIN rs : rs[i].status \in statuses}
    IN  IF found = {} THEN 0 ELSE CHOOSE i \in found : \A j \in found : j <= i

nextCronOccurrence(t) == (t \div Period + 1) * Period

\* The deadline after the last success, or after the creation of the job.
Deadline(rs) ==
    LET success == latestRun(rs, {"completed"})
    IN  nextCronOccurrence(IF success = 0 THEN created ELSE rs[success].at) + Grace

\* What is judged; the reports it quotes, and the next occurrence, are left out.
getExternalJobHealth(rs, t) ==
    LET success == latestRun(rs, {"completed"})
        issue   == latestRun(rs, {"failed"})
        active  == latestRun(rs, {"running"})
        running == active > success /\ active > issue
        missed  == mode # "off" /\ ~running /\ t > Deadline(rs)
    IN  [state |-> IF mode = "off" THEN "paused"
                   ELSE IF running THEN "running"
                   ELSE IF missed \/ issue > success THEN "attention"
                   ELSE "healthy",
         stale |-> missed,
         neverReported |-> success = 0 /\ issue = 0,
         overdueSince |-> IF t > Deadline(rs) THEN Deadline(rs) ELSE None]

\* Only a change between failure and success is logged.
loggedAfter(rs, log, status) ==
    LET last     == latestRun(rs, Results)
        previous == IF last = 0 THEN "none" ELSE rs[last].status
    IN  IF status = "failed" /\ previous # "failed" THEN "failed"
        ELSE IF status = "completed" /\ previous = "failed" THEN "recovered"
        ELSE log

insertHeartbeat(acc, status, ref) ==
    [rs  |-> Append(acc.rs, [status |-> status, at |-> now, ref |-> ref]),
     log |-> loggedAfter(acc.rs, acc.log, status)]

\* A report presented with the token of the job.
recordHeartbeat(status) ==
    LET after == insertHeartbeat([rs |-> runs, log |-> logged], status, None)
    IN  /\ mode # "absent" /\ beats < MaxBeats /\ beats' = beats + 1
        /\ runs' = after.rs /\ logged' = after.log
        /\ UNCHANGED <<now, mode, created, key, topic, relay, reposts, events, recorded, round>>

-----------------------------------------------------------------------------
(* The operator's side.                                                    *)

Event == events < MaxEvents /\ events' = events + 1

updateExternalJob ==
    /\ Event /\ mode # "absent"
    /\ mode' = IF mode = "on" THEN "off" ELSE "on"
    /\ UNCHANGED <<now, created, key, runs, logged, topic, relay, beats, reposts, recorded, round>>

regenerateIngestToken ==
    /\ Event /\ mode # "absent"
    /\ key' = key + 1
    /\ UNCHANGED <<now, mode, created, runs, logged, topic, relay, beats, reposts, recorded, round>>

\* The reports go with the job.
deleteExternalJob ==
    /\ Event /\ mode # "absent"
    /\ mode' = "absent" /\ runs' = <<>>
    /\ UNCHANGED <<now, created, key, logged, topic, relay, beats, reposts, recorded, round>>

\* Bounded by the deletions.
createExternalJob ==
    /\ mode = "absent"
    /\ mode' = "on" /\ created' = now /\ key' = key + 1
    /\ UNCHANGED <<now, runs, logged, topic, relay, bound, recorded, round>>

switchRelay ==
    /\ Event
    /\ configured' = ~configured
    /\ UNCHANGED <<now, job, topic, timer, poll, beats, reposts, recorded, round>>

\* The process goes down with the poll it makes; nothing else is in memory.
restart ==
    /\ Event
    /\ poll' = NoPoll /\ timer' = now
    /\ UNCHANGED <<now, job, topic, configured, beats, reposts, recorded, round>>

\* Mutant of Prunable: the newest row is no exception.
PrunableAll == {i \in DOMAIN runs : now - runs[i].at > Keep}

Prunable == {i \in DOMAIN runs : now - runs[i].at > Keep} \ {Len(runs)}

\* One batch of the retention; the next may never come.
pruneDatabaseTelemetry(gone) ==
    /\ gone # {}
    /\ runs' = LET kept == InOrder(DOMAIN runs \ gone, [i \in DOMAIN runs |-> i])
               IN  [i \in DOMAIN kept |-> runs[kept[i]]]
    /\ UNCHANGED <<now, mode, created, key, logged, topic, relay, bound, recorded, round>>

-----------------------------------------------------------------------------
(* The relay.                                                              *)

\* A host signs its result with the key it knows, and posts the line.
hostPosts(result, ts) ==
    /\ beats < MaxBeats /\ beats' = beats + 1
    /\ topic' = topic \cup {[line |-> [ts |-> ts, result |-> result, key |-> key], at |-> now]}
    /\ UNCHANGED <<now, job, relay, reposts, events, recorded, round>>

\* Who knows the topic can post a line again.
repost(p) ==
    /\ reposts < MaxReposts /\ reposts' = reposts + 1
    /\ p.at < now
    /\ topic' = topic \cup {[p EXCEPT !.at = now]}
    /\ UNCHANGED <<now, job, relay, beats, events, recorded, round>>

\* The timer fires.  What was posted within the window is read.
pollRelayOnce ==
    /\ timer # None /\ timer <= now /\ poll = NoPoll
    /\ timer' = None
    /\ poll' = [at |-> now, reads |-> configured,
                posts |-> {p \in topic : configured /\ p.at >= now - Lookback}]
    /\ UNCHANGED <<now, job, topic, configured, bound, recorded, round>>

\* Every exit of a cycle sets the timer again.
schedule(delay) == timer' = now + delay /\ poll' = NoPoll

\* No answer, a status that is not 200, or more than MAX_RESPONSE_BYTES.
pollFails ==
    /\ poll # NoPoll /\ Event
    /\ schedule(Backoff)
    /\ UNCHANGED <<now, job, topic, configured, beats, reposts, recorded, round>>

isDuplicate(rs, line) == \E i \in DOMAIN rs : rs[i].ref = line

\* Mutant of acceptable: any line signed with the key of the job counts.
acceptableAtAnyAge(line) == mode # "absent" /\ line.key = key

\* The line is young enough and signed with the current key.
acceptable(line) ==
    /\ mode # "absent" /\ line.key = key
    /\ poll.at - line.ts \in (-MaxAge)..MaxAge

recordRelayedHeartbeat(acc, line) ==
    IF acceptable(line) /\ ~isDuplicate(acc.rs, line)
    THEN insertHeartbeat(acc, line.result, line) ELSE acc

\* Mutant of readCapped: a window with a stored line holds nothing new.
readUntilSeen ==
    IF \E p \in poll.posts : isDuplicate(runs, p.line) THEN <<>>
    ELSE InOrder(poll.posts, [p \in poll.posts |-> p.at])

\* The posts of the window, the older first.
readCapped == InOrder(poll.posts, [p \in poll.posts |-> p.at])

\* The job's reports when the first n lines of the answer are stored, or refused.
Stored(n) ==
    LET after[k \in 0..n] ==
            IF k = 0 THEN [rs |-> runs, log |-> logged]
            ELSE recordRelayedHeartbeat(after[k - 1], readCapped[k].line)
    IN  after[n]

store(n) ==
    /\ runs' = Stored(n).rs /\ logged' = Stored(n).log
    /\ recorded' = recorded \cup ({runs'[i].ref : i \in DOMAIN runs'} \ {None})

runCycle(delay) ==
    /\ poll # NoPoll
    /\ store(Len(readCapped))
    /\ round' = IF poll.reads THEN poll.at ELSE round
    /\ schedule(delay)
    /\ UNCHANGED <<now, mode, created, key, topic, configured, bound>>

\* The database refuses to read the settings, or to take the next line.
cycleThrows(n) ==
    /\ poll # NoPoll /\ Event
    /\ store(n)
    /\ schedule(Backoff)
    /\ UNCHANGED <<now, mode, created, key, topic, configured, beats, reposts, round>>

\* Timers are on time, and a request is answered within its tick.
tick ==
    /\ now < MaxTime /\ poll = NoPoll /\ timer > now
    /\ now' = now + 1
    /\ UNCHANGED <<job, topic, relay, bound, recorded, round>>

HeartbeatNext ==
    \/ \E s \in Results \cup {"running"} : recordHeartbeat(s)
    \/ updateExternalJob \/ regenerateIngestToken \/ deleteExternalJob \/ createExternalJob
    \/ switchRelay \/ restart
    \/ \E gone \in SUBSET Prunable : pruneDatabaseTelemetry(gone)
    \/ \E r \in Results, ts \in {now, now + Ahead} : hostPosts(r, ts)
    \/ \E p \in topic : repost(p)
    \/ pollRelayOnce \/ pollFails
    \/ \E d \in Intervals : runCycle(d)
    \/ \E n \in 0..(Len(readCapped) - 1) : cycleThrows(n)
    \/ tick

HeartbeatSpec == HeartbeatInit /\ [][HeartbeatNext]_heartbeatVars

-----------------------------------------------------------------------------
(* Properties.                                                             *)

\* The windows of the polls overlap, lines are posted again, rows are pruned and
\* jobs deleted: a line that was recorded is never recorded a second time.
RecordedOnce ==
    [][\A i \in (Len(runs) + 1)..Len(runs') : runs'[i].ref # None =>
          /\ runs'[i].ref \notin recorded
          /\ \A j \in DOMAIN runs' \ {i} : runs'[j].ref # runs'[i].ref]_heartbeatVars

\* "A missed poll, a restart, or a slow message heals itself on the next round":
\* what a round's window covers is recorded when that round has ended, whatever the
\* rounds before it did, if the line was young enough then and its key still counts.
HealsOnNextRound ==
    round # None =>
        \A p \in topic :
        (/\ p.at < round /\ round - p.at <= Lookback
         /\ round - p.line.ts \in (-MaxAge)..MaxAge
         /\ mode # "absent" /\ p.line.key = key)
        => p.line \in recorded

\* What retention leaves of the health it deletes the rows of. "A reporting job never
\* looks like one that never checked in" (databaseRetention.js:153) while its last
\* report is a result; only a start that no result has followed yet may outlive every
\* result before it. The state stays, an alarm is never taken back or moved later,
\* and a job whose last report is a success keeps its health whole.
PruneKeepsHealth ==
    [][(now' = now /\ mode' = mode /\ Len(runs') < Len(runs)) =>
          LET before == getExternalJobHealth(runs, now)
              after  == getExternalJobHealth(runs', now)
              last   == runs[Len(runs)].status
          IN  /\ after.state = before.state
              /\ before.stale => after.stale /\ after.overdueSince <= before.overdueSince
              /\ last # "running" => after.neverReported = before.neverReported
              /\ last = "completed" => after = before]_heartbeatVars

=============================================================================
