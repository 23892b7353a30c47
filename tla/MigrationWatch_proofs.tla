----------------------- MODULE MigrationWatch_proofs -----------------------
(***************************************************************************)
(* What a watch sends is the history in order, for any number of watches   *)
(* and any bounds.  It holds because nextProgressIdx never goes back: the  *)
(* last entry sent is the one before it, whatever older record a lookup    *)
(* puts where the next round reads.  That is the invariant.                *)
(***************************************************************************)
EXTENDS MigrationWatch, TLAPS

Records == [state : Outcomes \cup {"running", "none"}, len : Nat]
Watching == [pc : {"idle", "loading", "open", "closed"}, got : Seq(Nat),
             next : Nat, last : {"none", "current", "stale"},
             lastEvent : Nat, attempts : 0..(Attempts - 1),
             ended : BOOLEAN, timers : Nat, lookups : Seq(Records)]

Shape ==
    /\ {moray, cache, start, other} \subseteq Records
    /\ event \in 0..MaxEvents
    /\ job \in [pc : {"none", "queued", "running"}, undo : BOOLEAN, len : Nat]
    /\ watch \in [Watches -> Watching]
    /\ used \in [actions : Nat, events : Nat, faults : Nat]

\* A watch that is loading has its record, one that is open a round or lookup
GoesOn(x) ==
    /\ x.pc = "loading" => x.lookups # << >>
    /\ x.pc = "open" => x.timers > 0 \/ x.lookups # << >>

\* One after the other, up to next
Counts(got, next) ==
    /\ \A i, k \in 1..Len(got) : k = i + 1 => got[k] = got[i] + 1
    /\ got # << >> => got[Len(got)] = next
UpToNext(x) == Counts(x.got, x.next)

Good(x) == GoesOn(x) /\ UpToNext(x)
Inv == Shape /\ \A w \in Watches : Good(watch[w])

-----------------------------------------------------------------------------
LEMMA Constant ==
  /\ NoRecord \in Records
  /\ NoWatch \in Watching /\ Good(NoWatch)
  /\ Closed \in Watching /\ Good(Closed)
<1>1. NoRecord \in Records
  BY DEF NoRecord, Records
<1>2. << >> \in Seq(Nat) /\ << >> \in Seq(Records) /\ Len(<< >>) = 0
  OBVIOUS
<1>3. NoWatch \in Watching
  BY <1>2, MigrationWatchAssumption DEF NoWatch, Watching
<1>4. Closed \in Watching
  BY <1>3 DEF Closed, Watching, NoWatch
<1>5. Good(NoWatch) /\ Good(Closed)
  BY <1>2 DEF Good, GoesOn, UpToNext, Counts, NoWatch, Closed
<1> QED BY <1>1, <1>3, <1>4, <1>5

(* What a watch keeps when only its view of the cached record is outdated. *)
LEMMA Outdated ==
  ASSUME NEW x \in Watching, Good(x), NEW y,
         y = [x EXCEPT !.last = IF @ = "current" THEN "stale" ELSE @]
  PROVE  /\ y \in Watching /\ Good(y)
         /\ y.pc = x.pc /\ y.lookups = x.lookups /\ y.timers = x.timers
         /\ y.got = x.got /\ y.next = x.next
BY DEF Watching, Good, GoesOn, UpToNext

LEMMA RememberKeeps ==
  ASSUME Inv, NEW r \in Records, Remember(r)
  PROVE  /\ cache' \in Records
         /\ watch' \in [Watches -> Watching]
         /\ \A w \in Watches : Good(watch'[w])
<1>1. \A w \in Watches :
        watch'[w] = [watch[w] EXCEPT !.last = IF @ = "current" THEN "stale"
                                                               ELSE @]
  BY DEF Remember
<1>2. \A w \in Watches : watch'[w] \in Watching /\ Good(watch'[w])
  BY <1>1, Outdated DEF Inv, Shape
<1> QED BY <1>2 DEF Remember

(* Entries in order, with those that come next, are entries in order.      *)
LEMMA Joined ==
  ASSUME NEW got \in Seq(Nat), NEW more \in Seq(Nat)
  PROVE  /\ got \o more \in Seq(Nat)
         /\ Len(got \o more) = Len(got) + Len(more)
         /\ \A i \in 1..Len(got) : (got \o more)[i] = got[i]
         /\ \A i \in 1..Len(more) : (got \o more)[Len(got) + i] = more[i]
<1>1. got \o more \in Seq(Nat)
  OBVIOUS
<1>2. Len(got \o more) = Len(got) + Len(more)
  OBVIOUS
<1>3. ASSUME NEW i \in 1..Len(got) PROVE (got \o more)[i] = got[i]
  OBVIOUS
<1>4. ASSUME NEW i \in 1..Len(more)
      PROVE  (got \o more)[Len(got) + i] = more[i]
  OBVIOUS
<1> QED BY <1>1, <1>2, <1>3, <1>4

LEMMA InOrder ==
  ASSUME NEW got \in Seq(Nat), NEW next \in Nat, Counts(got, next),
         NEW n \in Nat, NEW more \in Seq(Nat), Len(more) = n,
         \A i \in 1..n : more[i] = next + i
  PROVE  got \o more \in Seq(Nat) /\ Counts(got \o more, next + n)
<1> DEFINE s == got \o more
           L == Len(got)
<1>1. /\ s \in Seq(Nat) /\ L \in Nat /\ Len(s) = L + n
      /\ \A i \in 1..L : s[i] = got[i]
      /\ \A i \in 1..n : s[L + i] = more[i]
  <2>1. L \in Nat
    OBVIOUS
  <2> QED BY <2>1, Joined
<1>2. /\ \A i, k \in 1..L : k = i + 1 => got[k] = got[i] + 1
      /\ L > 0 => got[L] = next
  BY DEF Counts
<1> HIDE DEF s, L
<1>3. \A i \in 1..Len(s) : i \in 1..L \/ (i > L /\ i - L \in 1..n)
  BY <1>1
<1>4. \A i \in 1..Len(s) : i > L => s[i] = next + (i - L)
  <2> SUFFICES ASSUME NEW i \in 1..Len(s), i > L PROVE s[i] = next + (i - L)
    OBVIOUS
  <2>1. i - L \in 1..n /\ L + (i - L) = i
    BY <1>1, <1>3
  <2> QED BY <1>1, <2>1
<1>5. ASSUME NEW i \in 1..Len(s), NEW k \in 1..Len(s), k = i + 1
      PROVE  s[k] = s[i] + 1
  <2>1. CASE k <= L
    <3>1. i \in 1..L /\ k \in 1..L
      BY <2>1, <1>1, <1>5
    <3> QED BY ZenonT(60), <3>1, <1>1, <1>2, <1>5
  <2>2. CASE k = L + 1
    <3>1. i = L /\ L > 0 /\ L \in 1..L
      BY <2>2, <1>1, <1>5
    <3>2. s[i] = next
      BY <3>1, <1>1, <1>2
    <3>3. s[k] = next + 1
      BY <2>2, <1>1, <1>4
    <3> QED BY <3>2, <3>3
  <2>3. CASE k > L + 1
    <3>1. i > L /\ s[i] = next + (i - L)
      BY <2>3, <1>1, <1>4, <1>5
    <3>2. s[k] = next + (k - L)
      BY <2>3, <1>1, <1>4, <1>5
    <3> QED BY <3>1, <3>2, <1>1, <1>5
  <2> QED BY <2>1, <2>2, <2>3, <1>1, <1>5
<1>6. ASSUME s # << >> PROVE s[Len(s)] = next + n
  <2>1. CASE n = 0
    <3>1. Len(s) = L /\ L > 0
      BY <2>1, <1>1, <1>6
    <3> QED BY <2>1, <3>1, <1>1, <1>2
  <2>2. CASE n > 0
    <3>1. Len(s) \in 1..Len(s) /\ Len(s) > L /\ Len(s) - L = n
      BY <2>2, <1>1
    <3> QED BY <3>1, <1>4
  <2> QED BY <2>1, <2>2
<1> QED BY <1>1, <1>5, <1>6 DEF s, Counts

LEMMA SentKeeps ==
  ASSUME Inv, NEW w \in Watches
  PROVE  Sent(w) \in Watching /\ UpToNext(Sent(w)) /\ GoesOn(Sent(w))
<1> DEFINE x == watch[w]
<1>1. x \in Watching /\ Good(x) /\ cache \in Records
  BY DEF Inv, Shape
<1>2. CASE cache = NoRecord \/ x.last = "current"
  BY <1>1, <1>2 DEF Sent, Good
<1>3. CASE ~(cache = NoRecord \/ x.last = "current")
  <2> DEFINE n == IF cache.len > x.next THEN cache.len - x.next ELSE 0
             y == Sent(w)
  <2>1. x.next \in Nat /\ cache.len \in Nat /\ n \in Nat
    BY <1>1 DEF Watching, Records
  <2>2. y = [x EXCEPT !.got = @ \o [i \in 1..n |-> x.next + i],
                      !.next = IF cache.len > @ THEN cache.len ELSE @,
                      !.last = "current",
                      !.ended = cache.state # "running"]
    BY <1>3 DEF Sent
  <2>3. /\ y.got = x.got \o [i \in 1..n |-> x.next + i]
        /\ y.next = IF cache.len > x.next THEN cache.len ELSE x.next
        /\ y.pc = x.pc /\ y.timers = x.timers /\ y.lookups = x.lookups
    BY <1>1, <2>2 DEF Watching
  <2> HIDE DEF n
  <2>4. y.got \in Seq(Nat) /\ Counts(y.got, x.next + n)
    <3> DEFINE more == [i \in 1..n |-> x.next + i]
               got == x.got
    <3>1. y.got = got \o more
      BY <2>3
    <3>2. more \in Seq(Nat) /\ Len(more) = n
          /\ \A i \in 1..n : more[i] = x.next + i
      BY <2>1
    <3>3. got \in Seq(Nat) /\ Counts(got, x.next)
      BY <1>1 DEF Good, UpToNext, Watching
    <3> HIDE DEF x, y, more, got
    <3>4. got \o more \in Seq(Nat) /\ Counts(got \o more, x.next + n)
      BY <2>1, <3>2, <3>3, InOrder
    <3> QED BY <3>1, <3>4
  <2>5. y.next = x.next + n
    BY <2>1, <2>3 DEF n
  <2>6. y \in Watching
    <3>1. /\ x.got \o [i \in 1..n |-> x.next + i] \in Seq(Nat)
          /\ (IF cache.len > x.next THEN cache.len ELSE x.next) \in Nat
          /\ (cache.state # "running") \in BOOLEAN
      BY <2>1, <2>3, <2>4
    <3> QED BY <1>1, <2>2, <3>1 DEF Watching
  <2>7. UpToNext(y)
    BY <2>4, <2>5 DEF UpToNext
  <2>8. GoesOn(y)
    BY <1>1, <2>3 DEF GoesOn, Good
  <2> QED BY <2>6, <2>7, <2>8
<1> QED BY <1>2, <1>3

-----------------------------------------------------------------------------
LEMMA InitInv == Init => Inv
<1> SUFFICES ASSUME Init PROVE Inv
  OBVIOUS
<1>1. moray \in Records /\ cache \in Records /\ start \in Records
      /\ other \in Records
  BY Constant DEF Init, Records, Outcomes
<1>2. watch \in [Watches -> Watching] /\ \A w \in Watches : Good(watch[w])
  BY Constant DEF Init
<1>3. job \in [pc : {"none", "queued", "running"}, undo : BOOLEAN, len : Nat]
  <2>1. CASE job = NoJob
    BY <2>1 DEF NoJob
  <2>2. CASE job = [pc |-> "running", undo |-> FALSE, len |-> 1]
    BY <2>2
  <2> QED BY <2>1, <2>2 DEF Init
<1>4. event \in 0..MaxEvents
      /\ used \in [actions : Nat, events : Nat, faults : Nat]
  BY MigrationWatchAssumption DEF Init
<1> QED BY <1>1, <1>2, <1>3, <1>4 DEF Inv, Shape

(* The steps of the migration, which change what is remembered at most.    *)
LEMMA MigrationKeeps == Inv /\ Migration => Inv'
<1> SUFFICES ASSUME Inv, Migration PROVE Inv'
  OBVIOUS
<1> USE DEF Inv, Shape
<1>1. CASE \E undo \in BOOLEAN : RequestAction(undo)
  <2>1. [moray EXCEPT !.state = "running"] \in Records
    BY DEF Records
  <2> QED BY <1>1, <2>1 DEF RequestAction, Records
<1>2. CASE StartMigrationWorkflow
  BY <1>2, RememberKeeps, Constant, MigrationWatchAssumption
     DEF StartMigrationWorkflow
<1>3. CASE StoreInitialRecord
  <2> DEFINE r == [state |-> "running", len |-> job.len + 1]
  <2>1. r \in Records
    BY DEF Records
  <2>2. job' = [job EXCEPT !.pc = "running", !.len = @ + 1]
        /\ moray' = r /\ Remember(r)
        /\ UNCHANGED <<event, start, other, used>>
    BY <1>3 DEF StoreInitialRecord, StoreMigrationRecord
  <2>3. job' \in [pc : {"none", "queued", "running"}, undo : BOOLEAN,
                  len : Nat]
    <3>1. job.len + 1 \in Nat
      OBVIOUS
    <3> QED BY <2>2, <3>1
  <2> HIDE DEF r
  <2>4. /\ cache' \in Records /\ watch' \in [Watches -> Watching]
        /\ \A w \in Watches : Good(watch'[w])
    BY <2>1, <2>2, RememberKeeps
  <2> QED BY <2>1, <2>2, <2>3, <2>4
<1>4. CASE OnProgress
  <2>1. used.events + 1 \in 0..MaxEvents
    BY <1>4, MigrationWatchAssumption DEF OnProgress
  <2>2. used' \in [actions : Nat, events : Nat, faults : Nat]
    BY <1>4, <2>1 DEF OnProgress
  <2> QED BY <1>4, <2>1, <2>2 DEF OnProgress
<1>5. CASE StoreOutcome
  <2>1. PICK outcome \in Outcomes :
          StoreMigrationRecord([state |-> outcome, len |-> job.len],
                               job.undo /\ outcome = "successful")
    BY <1>5 DEF StoreOutcome
  <2> DEFINE r == [state |-> outcome, len |-> job.len]
  <2>2. r \in Records
    BY DEF Records
  <2>3. moray' \in {NoRecord, r} /\ Remember(r)
    BY <2>1 DEF StoreMigrationRecord
  <2>4. job' = NoJob /\ UNCHANGED <<event, start, other, used>>
    BY <1>5 DEF StoreOutcome
  <2> HIDE DEF r
  <2> QED BY <2>2, <2>3, <2>4, RememberKeeps, Constant DEF NoJob
<1>6. CASE DeleteVmMigration
  <2>1. used' \in [actions : Nat, events : Nat, faults : Nat]
    BY <1>6 DEF DeleteVmMigration, Fault
  <2> QED BY <1>6, <2>1, RememberKeeps, Constant DEF DeleteVmMigration
<1>7. CASE Restart
  <2>1. used' \in [actions : Nat, events : Nat, faults : Nat]
    BY <1>7 DEF Restart, Fault
  <2>2. watch' \in [Watches -> Watching] /\ \A w \in Watches : Good(watch'[w])
    BY <1>7, Constant DEF Restart
  <2> QED BY <1>7, <2>1, <2>2, Constant, MigrationWatchAssumption
           DEF Restart
<1>8. CASE OtherLookup
  BY <1>8 DEF OtherLookup
<1>9. CASE OtherOnGetMigration
  BY <1>9, RememberKeeps, Constant DEF OtherOnGetMigration
<1> QED
  BY <1>1, <1>2, <1>3, <1>4, <1>5, <1>6, <1>7, <1>8, <1>9 DEF Migration

(* A step of one watch that leaves all else alone keeps what it is worth.  *)
LEMMA OneWatch ==
  ASSUME Inv, NEW w \in Watches, NEW y \in Watching, Good(y),
         watch' = [watch EXCEPT ![w] = y],
         UNCHANGED <<moray, cache, event, start, job, other, used>>
  PROVE  Inv'
BY DEF Inv, Shape

LEMMA WatchKeeps ==
  ASSUME Inv, NEW w \in Watches
  PROVE  /\ LoadVmMigration(w) => Inv'
         /\ WatchVmMigration(w) => Inv'
         /\ SendProgress(w) => Inv'
         /\ AttemptDone(w) => Inv'
         /\ OnWatchWhilst(w) => Inv'
         /\ ClientCloses(w) => Inv'
<1> DEFINE x == watch[w]
<1>1. x \in Watching /\ Good(x) /\ moray \in Records /\ cache \in Records
  BY DEF Inv, Shape
<1>2. ASSUME LoadVmMigration(w) PROVE Inv'
  <2> DEFINE y == [x EXCEPT !.pc = "loading", !.lookups = <<moray>>]
  <2>1. <<moray>> \in Seq(Records) /\ <<moray>> # << >>
    BY <1>1
  <2>2. y \in Watching /\ Good(y)
    BY <1>1, <2>1 DEF Watching, Good, GoesOn, UpToNext
  <2>3. watch' = [watch EXCEPT ![w] = y]
        /\ UNCHANGED <<moray, cache, event, start, job, other, used>>
    BY <1>2 DEF LoadVmMigration, Inv, Shape
  <2> QED BY <2>2, <2>3, OneWatch
<1>3. ASSUME WatchVmMigration(w) PROVE Inv'
  <2> DEFINE record == x.lookups[1]
             got == IF record.state = "running" THEN <<record.len>> ELSE << >>
             y == [NoWatch EXCEPT !.pc = "open", !.next = record.len,
                                  !.timers = 1, !.got = got]
  <2>1. record \in Records
    BY <1>1, <1>3 DEF WatchVmMigration, Watching, Good, GoesOn
  <2>2. record.len \in Nat
    BY <2>1 DEF Records
  <2> HIDE DEF record
  <2>3. /\ got \in Seq(Nat) /\ Len(got) \in {0, 1}
        /\ got # << >> => got[Len(got)] = record.len
    BY <2>2
  <2>9. Counts(got, record.len)
    BY <2>2, <2>3 DEF Counts
  <2> HIDE DEF got
  <2>4. y \in Watching
    BY <2>2, <2>3, Constant DEF Watching, NoWatch
  <2>5. y.pc = "open" /\ y.timers = 1 /\ y.got = got /\ y.next = record.len
    BY Constant DEF Watching, NoWatch
  <2>6. Good(y)
    BY <2>5, <2>9 DEF Good, GoesOn, UpToNext
  <2>7. watch' = [watch EXCEPT ![w] = Closed]
        \/ watch' = [watch EXCEPT ![w] = y]
    BY <1>3 DEF WatchVmMigration, record, got
  <2>8. UNCHANGED <<moray, cache, event, start, job, other, used>>
    BY <1>3 DEF WatchVmMigration
  <2> HIDE DEF y
  <2> QED BY <2>4, <2>6, <2>7, <2>8, OneWatch, Constant
<1>4. ASSUME SendProgress(w) PROVE Inv'
  <2> DEFINE z == Sent(w)
             y == [z EXCEPT !.attempts = 0,
                            !.lastEvent = IF event = 0 THEN @ ELSE event]
  <2>1. z \in Watching /\ UpToNext(z) /\ GoesOn(z) /\ event \in 0..MaxEvents
    BY SentKeeps DEF Inv, Shape
  <2>2. watch' = [watch EXCEPT ![w] = y]
        /\ UNCHANGED <<moray, cache, event, start, job, other, used>>
    BY <1>4 DEF SendProgress
  <2> HIDE DEF z
  <2>3. y \in Watching
    <3>1. \A e \in Nat : (IF event = 0 THEN e ELSE event) \in Nat
      BY <2>1, MigrationWatchAssumption
    <3>2. 0 \in 0..(Attempts - 1)
      BY MigrationWatchAssumption
    <3> QED BY <2>1, <3>1, <3>2 DEF Watching
  <2>4. Good(y)
    BY <2>1 DEF Watching, Good, GoesOn, UpToNext
  <2> HIDE DEF y
  <2> QED BY <2>2, <2>3, <2>4, OneWatch
<1>5. ASSUME AttemptDone(w) PROVE Inv'
  <2> DEFINE y == [x EXCEPT !.attempts = @ + 1]
             z == [x EXCEPT !.attempts = 0, !.timers = @ - 1,
                            !.lookups = Append(@, moray)]
  <2>0. x.attempts + 1 < Attempts => x.attempts + 1 \in 0..(Attempts - 1)
    BY SMTT(40), <1>1, MigrationWatchAssumption DEF Watching
  <2>1. /\ x.attempts \in 0..(Attempts - 1) /\ x.timers \in Nat
        /\ 0 \in 0..(Attempts - 1) /\ x.timers - 1 \in Nat
        /\ x.timers > 0 /\ x.lookups \in Seq(Records)
    BY SMTT(40), <1>1, <1>5, MigrationWatchAssumption DEF AttemptDone, Watching
  <2>2. Append(x.lookups, moray) \in Seq(Records)
        /\ Append(x.lookups, moray) # << >>
    BY <1>1, <2>1
  <2>3. ASSUME x.attempts + 1 < Attempts PROVE y \in Watching /\ Good(y)
    <3>1. y \in Watching
      BY <1>1, <2>0, <2>3 DEF Watching
    <3>2. y.pc = x.pc /\ y.timers = x.timers /\ y.lookups = x.lookups
          /\ y.got = x.got /\ y.next = x.next
      BY <1>1 DEF Watching
    <3> QED BY <1>1, <3>1, <3>2 DEF Good, GoesOn, UpToNext
  <2>4. z \in Watching /\ Good(z)
    <3>1. z \in Watching
      BY <1>1, <2>1, <2>2 DEF Watching
    <3>2. /\ z.pc = x.pc /\ z.lookups = Append(x.lookups, moray)
          /\ z.got = x.got /\ z.next = x.next
      BY <1>1 DEF Watching
    <3>3. UpToNext(z)
      BY <1>1, <3>2 DEF Good, UpToNext
    <3>4. GoesOn(z)
      BY <2>2, <3>2 DEF GoesOn
    <3> QED BY <3>1, <3>3, <3>4 DEF Good
  <2>5. /\ \/ x.attempts + 1 < Attempts /\ watch' = [watch EXCEPT ![w] = y]
           \/ watch' = [watch EXCEPT ![w] = z]
        /\ UNCHANGED <<moray, cache, event, start, job, other, used>>
    <3>1. watch' = [watch EXCEPT ![w] =
                      IF x.attempts + 1 < Attempts THEN y ELSE z]
      BY <1>5 DEF AttemptDone
    <3>2. UNCHANGED <<moray, cache, event, start, job, other, used>>
      BY <1>5 DEF AttemptDone
    <3> HIDE DEF x, y, z
    <3> QED BY <3>1, <3>2
  <2> HIDE DEF y, z
  <2> QED BY <2>3, <2>4, <2>5, OneWatch
<1>6. ASSUME OnWatchWhilst(w) \/ ClientCloses(w) PROVE Inv'
  BY <1>6, OneWatch, Constant DEF OnWatchWhilst, ClientCloses
<1> QED BY <1>2, <1>3, <1>4, <1>5, <1>6

(* A lookup's answer outdates what all watches last saw, and gives the one *)
(* that asked its next round.                                              *)
LEMMA LookupKeeps ==
  ASSUME Inv, NEW w \in Watches, OnGetMigration(w) PROVE Inv'
<1>1. /\ watch[w] \in Watching /\ watch[w].lookups \in Seq(Records)
      /\ watch[w].lookups # << >>
  BY DEF OnGetMigration, Inv, Shape, Watching
<1>2. /\ Head(watch[w].lookups) \in Records
      /\ Tail(watch[w].lookups) \in Seq(Records)
  BY <1>1
<1>3. cache' \in Records
      /\ used' \in [actions : Nat, events : Nat, faults : Nat]
  <2>1. CASE cache' = Head(watch[w].lookups) /\ UNCHANGED used
    BY <1>2, <2>1 DEF Inv, Shape
  <2>2. CASE cache' = NoRecord /\ Fault
    BY <2>2, Constant DEF Fault, Inv, Shape
  <2> QED BY <2>1, <2>2 DEF OnGetMigration
<1> DEFINE x(v) == [watch[v] EXCEPT !.last = IF @ = "current" THEN "stale"
                                                              ELSE @]
<1>4. \A v \in Watches :
        /\ x(v) \in Watching /\ Good(x(v))
        /\ x(v).pc = watch[v].pc /\ x(v).lookups = watch[v].lookups
        /\ x(v).timers = watch[v].timers
  BY Outdated DEF Inv, Shape
<1> DEFINE t == IF cache' = NoRecord /\ x(w).timers + Len(x(w).lookups) = 1
                THEN 2 ELSE x(w).timers + 1
           y == [x(w) EXCEPT !.lookups = Tail(@), !.timers = t]
<1>5. watch' = [v \in Watches |-> IF v # w THEN x(v) ELSE y]
  <2>1. y = [x(w) EXCEPT !.lookups = Tail(@),
               !.timers = IF cache' = NoRecord /\ @ + Len(x(w).lookups) = 1
                          THEN 2 ELSE @ + 1]
    BY <1>4 DEF Watching
  <2> QED BY ZenonT(60), <2>1 DEF OnGetMigration
<1> HIDE DEF x
<1>6. x(w).timers \in Nat
  BY <1>4 DEF Watching
<1>7. t \in Nat /\ t > 0
  BY <1>6
<1> HIDE DEF t
<1>8. y \in Watching /\ Good(y)
  <2>1. Tail(x(w).lookups) \in Seq(Records)
    BY <1>2, <1>4
  <2>2. watch[w].pc = "open" /\ x(w).pc = "open"
    BY <1>4 DEF OnGetMigration
  <2>3. y \in Watching /\ y.pc = "open" /\ y.timers = t
        /\ y.got = x(w).got /\ y.next = x(w).next
    BY <1>4, <1>7, <2>1, <2>2 DEF Watching
  <2> QED BY <1>4, <1>7, <2>3 DEF Good, GoesOn, UpToNext
<1> HIDE DEF y
<1>9. watch' \in [Watches -> Watching] /\ \A v \in Watches : Good(watch'[v])
  BY <1>4, <1>5, <1>8
<1>10. UNCHANGED <<moray, event, start, job, other>>
  BY DEF OnGetMigration
<1> QED BY <1>3, <1>9, <1>10 DEF Inv, Shape

LEMMA StepInv == Inv /\ [Next]_vars => Inv'
<1> SUFFICES ASSUME Inv, [Next]_vars PROVE Inv'
  OBVIOUS
<1>1. CASE Migration
  BY <1>1, MigrationKeeps
<1>2. CASE \E w \in Watches : LoadVmMigration(w) \/ Round(w) \/ ClientCloses(w)
  BY <1>2, WatchKeeps, LookupKeeps DEF Round
<1>3. CASE UNCHANGED vars
  BY <1>3 DEF vars, Inv, Shape
<1> QED BY <1>1, <1>2, <1>3 DEF Next

LEMMA InvImplies == Inv => TypeOK /\ EntriesInOrder
<1> SUFFICES ASSUME Inv PROVE TypeOK /\ EntriesInOrder
  OBVIOUS
<1>1. /\ {moray.state, cache.state} \subseteq Outcomes \cup {"running", "none"}
      /\ event \in 0..MaxEvents
  BY DEF Inv, Shape, Records
<1>2. \A w \in Watches : watch[w].attempts \in 0..(Attempts - 1)
  BY DEF Inv, Shape, Watching
<1>3. \A w \in Watches :
        watch[w].pc = "open" => watch[w].timers > 0 \/ watch[w].lookups # << >>
  BY DEF Inv, Good, GoesOn
<1>4. EntriesInOrder
  <2> SUFFICES ASSUME NEW w \in Watches, NEW i \in 2..Len(watch[w].got)
               PROVE  watch[w].got[i] = watch[w].got[i - 1] + 1
    BY DEF EntriesInOrder
  <2>1. watch[w].got \in Seq(Nat) /\ Counts(watch[w].got, watch[w].next)
    BY DEF Inv, Shape, Good, UpToNext, Watching
  <2>2. /\ i \in 1..Len(watch[w].got) /\ i - 1 \in 1..Len(watch[w].got)
        /\ i = (i - 1) + 1
    BY <2>1
  <2> QED BY <2>1, <2>2 DEF Counts
<1> QED BY <1>1, <1>2, <1>3, <1>4 DEF TypeOK

LEMMA Always == FairSpec => []Inv
  BY InitInv, StepInv, PTL DEF FairSpec

(* An open watch always has a round or a lookup to come, so that no answer *)
(* or error leaves a connection behind that nothing serves.                *)
THEOREM WatchGoesOn == FairSpec => []TypeOK
  BY Always, InvImplies, PTL

(* A client gets the entries of the history in order and none twice, for   *)
(* any number of watches, actions, events and faults.                      *)
THEOREM WatchSendsInOrder == FairSpec => []EntriesInOrder
  BY Always, InvImplies, PTL
=============================================================================
