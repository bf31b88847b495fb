-------------------------------- MODULE Seda --------------------------------
(***************************************************************************)
(* The staged event-driven architecture that runs the requests             *)
(* (deps/common/seda): stages with their event queues, the service threads *)
(* of one pool and its run queue, the timer stage with its maintenance     *)
(* thread, the metrics stage that asks the timer to be called again, and   *)
(* the main thread that connects the stages, submits events, disconnects   *)
(* and deletes the stages and finally kills the threads.                   *)
(*                                                                         *)
(* One step is one critical section.  A mutex that stays locked across     *)
(* steps is the program counter of its owner: the timer stage's            *)
(* list_mutex_ while the main thread joins the timer thread, timer_mutex_  *)
(* while the timer thread fires, thread_mutex_ while the main thread       *)
(* generates kill events or disconnects the killer.                        *)
(***************************************************************************)
EXTENDS Naturals, Sequences, FiniteSets, FiniteSetsExt, SequencesExt

CONSTANTS Workers,      \* the threads the pool asks pthread_create for
          Requests,     \* number of events of SessionStage, submitted in turn
          Alarms,       \* events with a callback on SessionStage, sent through the timer
          Delay,        \* relative time of every timer, in ticks
          MaxTime,      \* bound on the clock
          MaxAsked      \* bound on the events the main thread submits

ASSUME SedaAssumption == {Requests, Delay, MaxTime, MaxAsked} \subseteq Nat

Metrics == "MetricsStage"
Session == "SessionStage"
Timer   == "TimerStage"
Killer  == "KillThreads"
Stages  == {Metrics, Session, Timer, Killer}

\* std::map order of the configured stages: connect, disconnect and delete.
Order == <<Metrics, Session, Timer>>

Event(kind, id) == [kind |-> kind, id |-> id]
Report     == Event("report", "report")
KillEvent  == Event("kill", "kill")

VARIABLES
  stage,      \* [Stages -> event_list_, connected_, event_ref_, deleted]
  runQueue,   \* run_queue_: stages with work, one entry per scheduled event
  worker,     \* [Workers -> pc, stage and event in hand]
  owes,       \* [thread -> stages whose schedule() call the thread still has to make]
  nthreads,   \* nthreads_
  toKill,     \* threads_to_kill_
  reportCb,   \* cb_flag_ of the report event
  timers,     \* timer_queue_: [when, nonce, event]
  nonce,      \* next_nonce()
  tthread,    \* the timer thread: pc and the due events it fires
  shutdown,   \* shutdown_
  now,        \* the monotonic clock
  main,       \* the main thread: pc, index into Order, kill events still to add
  spurious,   \* kill_threads' wait returned without its signal
  asked,      \* events submitted so far (requests, alarms, cancellations)
  handled,    \* requests handled
  fired,      \* alarms whose callback ran
  cancelled   \* alarms whose cancellation reported success

vars == <<stage, runQueue, worker, owes, nthreads, toKill, reportCb, timers,
          nonce, tthread, shutdown, now, main, spurious, asked, handled, fired, cancelled>>

poolVars  == <<runQueue, nthreads, toKill>>
timerVars == <<timers, nonce, tthread, shutdown, now>>
fateVars  == <<asked, handled, fired, cancelled>>

Threads == Workers \cup {"main", "timer"}

ListFree(s)  == ~(s = Timer /\ main.pc = "join")
TimerFree    == tthread.pc # "firing"
ThreadsFree  == main.pc # "killgen" /\ ~(main.pc \in {"drain", "drained"} /\ main.at = Killer)
Idle(t)      == owes[t] = <<>>

\* A service thread with nothing in hand (stage and event are then meaningless).
Thread(label) == [pc |-> label, stage |-> Session, event |-> Report]

SedaInit ==
  /\ stage = [s \in Stages |-> [queue |-> <<>>, connected |-> FALSE, ref |-> 0, deleted |-> FALSE]]
  /\ runQueue = <<>>
  /\ \E created \in SUBSET Workers :
       /\ worker = [w \in Workers |-> Thread(IF w \in created THEN "run" ELSE "dead")]
       /\ nthreads = Cardinality(created)
  /\ owes = [t \in Threads |-> <<>>]
  /\ toKill = 0
  /\ reportCb = FALSE
  /\ timers = {} /\ nonce = 0
  /\ tthread = [pc |-> "none", due |-> <<>>]
  /\ shutdown = FALSE /\ now = 0
  /\ main = [pc |-> "connect", at |-> Metrics, kills |-> 0]
  /\ spurious = FALSE
  /\ asked = {} /\ handled = {} /\ fired = {} /\ cancelled = {}

-----------------------------------------------------------------------------
\* Mutant of AddEvent: the event overtakes the ones that wait.
AddEventFirst(t, s, e) ==
  LET c == stage[s].connected IN
  /\ ListFree(s)
  /\ stage' = [stage EXCEPT ![s].queue = <<e>> \o @, ![s].ref = IF c THEN @ + 1 ELSE @]
  /\ owes' = IF c THEN [owes EXCEPT ![t] = Append(@, s)] ELSE owes

(* Stage::add_event, first half: push the event and count it.  The second  *)
(* half, the call of schedule() after the unlock, is owed.                 *)
AddEvent(t, s, e) ==
  LET c == stage[s].connected IN
  /\ ListFree(s)
  /\ stage' = [stage EXCEPT ![s].queue = Append(@, e), ![s].ref = IF c THEN @ + 1 ELSE @]
  /\ owes' = IF c THEN [owes EXCEPT ![t] = Append(@, s)] ELSE owes

\* COND_SIGNAL(&run_cond_) wakes one sleeping thread, if there is one.
SignalWorker ==
  LET asleep == {w \in Workers : worker[w].pc = "idle"} IN
  IF asleep = {} THEN UNCHANGED worker
  ELSE \E w \in asleep : worker' = [worker EXCEPT ![w].pc = "awake"]

\* Mutant of Schedule: an empty run queue is taken for a busy pool.
ScheduleQuietly(t) ==
  /\ owes[t] # <<>>
  /\ runQueue' = Append(runQueue, Head(owes[t]))
  /\ owes' = [owes EXCEPT ![t] = Tail(@)]
  /\ IF runQueue # <<>> THEN SignalWorker ELSE UNCHANGED worker
  /\ UNCHANGED <<stage, nthreads, toKill, reportCb, timerVars, main, spurious, fateVars>>

(* Threadpool::schedule.  A service thread that finds the run queue empty  *)
(* signals nobody: it will come back to the queue itself.                  *)
Schedule(t) ==
  /\ owes[t] # <<>>
  /\ runQueue' = Append(runQueue, Head(owes[t]))
  /\ owes' = [owes EXCEPT ![t] = Tail(@)]
  /\ IF runQueue # <<>> \/ t \notin Workers THEN SignalWorker ELSE UNCHANGED worker
  /\ UNCHANGED <<stage, nthreads, toKill, reportCb, timerVars, main, spurious, fateVars>>

-----------------------------------------------------------------------------
(* The service threads: Threadpool::run_thread.                            *)

\* Wait for a scheduled stage, or take the first one off the run queue.
TakeStage(w) ==
  /\ worker[w].pc \in {"run", "awake"} /\ Idle(w)
  /\ IF runQueue = <<>>
     THEN /\ worker' = [worker EXCEPT ![w].pc = "idle"]
          /\ UNCHANGED runQueue
     ELSE /\ worker' = [worker EXCEPT ![w].pc = "took", ![w].stage = Head(runQueue)]
          /\ runQueue' = Tail(runQueue)
  /\ UNCHANGED <<stage, owes, nthreads, toKill, reportCb, timerVars, main, spurious, fateVars>>

RemoveEvent(w) ==
  LET s == worker[w].stage IN
  /\ worker[w].pc = "took" /\ ListFree(s)
  /\ stage[s].queue # <<>>
  /\ worker' = [worker EXCEPT ![w].pc = "handle", ![w].event = Head(stage[s].queue)]
  /\ stage' = [stage EXCEPT ![s].queue = Tail(@)]
  /\ UNCHANGED <<owes, poolVars, reportCb, timerVars, main, spurious, fateVars>>

Holds(w, kind) == worker[w].pc = "handle" /\ worker[w].event.kind = kind

Goto(w, label) == worker' = [worker EXCEPT ![w].pc = label]

\* SessionStage::handle_event ends in done_immediate(), which deletes the event.
HandleRequest(w) ==
  /\ Holds(w, "request")
  /\ handled' = handled \cup {worker[w].event}
  /\ Goto(w, "release")
  /\ UNCHANGED <<stage, owes, poolVars, reportCb, timerVars, main, spurious, asked, fired, cancelled>>

\* A rescheduled callback: done_immediate() pops it and runs callback_event.
HandleAlarm(w) ==
  /\ Holds(w, "alarm")
  /\ fired' = fired \cup {worker[w].event.id}
  /\ Goto(w, "release")
  /\ UNCHANGED <<stage, owes, poolVars, reportCb, timerVars, main, spurious, asked, handled, cancelled>>

\* MetricsStage::handle_event: ask the timer for a call back.
HandleReport(w) ==
  /\ Holds(w, "report") /\ ~reportCb
  /\ AddEvent(w, Timer, Event("register", Report))
  /\ Goto(w, "release")
  /\ UNCHANGED <<poolVars, reportCb, timerVars, main, spurious, fateVars>>

\* MetricsStage::callback_event: report, then do it again.
CallbackReport(w) ==
  /\ Holds(w, "report") /\ reportCb
  /\ reportCb' = FALSE
  /\ AddEvent(w, Metrics, Report)
  /\ Goto(w, "release")
  /\ UNCHANGED <<poolVars, timerVars, main, spurious, fateVars>>

Before(x, y) == x.when < y.when \/ (x.when = y.when /\ x.nonce < y.nonce)

\* TimerStage::register_timer up to its unlock; a new head wakes the timer thread.
RegisterTimer(w) ==
  LET t == [when |-> now + Delay, nonce |-> nonce, event |-> worker[w].event.id] IN
  /\ Holds(w, "register") /\ TimerFree
  /\ timers' = timers \cup {t}
  /\ nonce' = nonce + 1
  /\ Goto(w, IF \A x \in timers : Before(t, x) THEN "trigger" ELSE "release")
  /\ UNCHANGED <<stage, owes, poolVars, reportCb, tthread, shutdown, now, main, spurious, fateVars>>

SignalTimer == tthread' = [tthread EXCEPT !.pc = IF @ = "wait" THEN "check" ELSE @]

TriggerTimerCheck(w) ==
  /\ worker[w].pc = "trigger" /\ TimerFree
  /\ SignalTimer
  /\ Goto(w, "release")
  /\ UNCHANGED <<stage, owes, poolVars, reportCb, timers, nonce, shutdown, now, main, spurious, fateVars>>

CancelTimer(w) ==
  LET a     == worker[w].event.id
      found == {t \in timers : t.event = Event("alarm", a)} IN
  /\ Holds(w, "cancel") /\ TimerFree
  /\ timers' = timers \ found
  /\ cancelled' = IF found # {} THEN cancelled \cup {a} ELSE cancelled
  /\ Goto(w, "release")
  /\ UNCHANGED <<stage, owes, poolVars, reportCb, nonce, tthread, shutdown, now, main,
                 spurious, asked, handled, fired>>

\* KillThreadStage::handle_event: thread_kill(), then release and pthread_exit.
ThreadKill(w) ==
  /\ Holds(w, "kill") /\ ThreadsFree
  /\ nthreads' = nthreads - 1
  /\ toKill' = toKill - 1
  /\ main' = IF toKill = 1 /\ main.pc = "killwait" THEN [main EXCEPT !.pc = "killed"] ELSE main
  /\ Goto(w, "exit")
  /\ UNCHANGED <<stage, runQueue, owes, reportCb, timerVars, spurious, fateVars>>

\* Stage::release_event; the last reference of a disconnected stage wakes disconnect().
ReleaseEvent(w) ==
  LET s == worker[w].stage IN
  /\ worker[w].pc \in {"release", "exit"} /\ Idle(w) /\ ListFree(s)
  /\ stage' = [stage EXCEPT ![s].ref = @ - 1]
  /\ main' = IF main.pc = "drain" /\ main.at = s /\ ~stage[s].connected /\ stage[s].ref = 1
             THEN [main EXCEPT !.pc = "drained"] ELSE main
  /\ worker' = [worker EXCEPT ![w] = Thread(IF @.pc = "exit" THEN "dead" ELSE "run")]
  /\ UNCHANGED <<owes, poolVars, reportCb, timerVars, spurious, fateVars>>

Service(w) ==
  \/ Schedule(w) \/ TakeStage(w) \/ RemoveEvent(w) \/ ReleaseEvent(w)
  \/ HandleRequest(w) \/ HandleAlarm(w) \/ HandleReport(w) \/ CallbackReport(w)
  \/ RegisterTimer(w) \/ TriggerTimerCheck(w) \/ CancelTimer(w) \/ ThreadKill(w)

-----------------------------------------------------------------------------
(* The timer thread: TimerStage::check_timer.                              *)

CheckTimer ==
  LET due == {t \in timers : t.when <= now} IN
  /\ tthread.pc = "check"
  /\ tthread' = [pc |-> "firing",
                 due |-> LET s == SetToSortSeq(due, Before) IN [i \in 1 .. Len(s) |-> s[i].event]]
  /\ timers' = timers \ due
  /\ UNCHANGED <<stage, poolVars, worker, owes, reportCb, nonce, shutdown, now, main, spurious, fateVars>>

\* StageEvent::done(): mark the callback and put the event on its stage's queue.
FireTimer ==
  LET e == Head(tthread.due) IN
  /\ tthread.pc = "firing" /\ tthread.due # <<>> /\ Idle("timer")
  /\ AddEvent("timer", IF e = Report THEN Metrics ELSE Session, e)
  /\ reportCb' = (reportCb \/ e = Report)
  /\ tthread' = [tthread EXCEPT !.due = Tail(@)]
  /\ UNCHANGED <<poolVars, worker, timers, nonce, shutdown, now, main, spurious, fateVars>>

\* The test of shutdown_ and the wait that follow, under the same lock.
SleepTimer ==
  /\ tthread.pc = "firing" /\ tthread.due = <<>> /\ Idle("timer")
  /\ tthread' = [tthread EXCEPT !.pc = IF shutdown THEN "dead" ELSE "wait"]
  /\ UNCHANGED <<stage, poolVars, worker, owes, reportCb, timers, nonce, shutdown, now, main,
                 spurious, fateVars>>

\* pthread_cond_timedwait returns at the first deadline.
TimerDeadline ==
  /\ tthread.pc = "wait"
  /\ \E t \in timers : t.when <= now
  /\ tthread' = [tthread EXCEPT !.pc = "check"]
  /\ UNCHANGED <<stage, poolVars, worker, owes, reportCb, timers, nonce, shutdown, now, main,
                 spurious, fateVars>>

TimerThread == Schedule("timer") \/ CheckTimer \/ FireTimer \/ SleepTimer \/ TimerDeadline

Tick ==
  /\ now < MaxTime
  /\ now' = now + 1
  /\ UNCHANGED <<stage, poolVars, worker, owes, reportCb, timers, nonce, tthread, shutdown, main,
                 spurious, fateVars>>

-----------------------------------------------------------------------------
(* The main thread: SedaConfig::start, the submission of events, and       *)
(* SedaConfig::cleanup with ~Threadpool.                                   *)

Position(s) == CHOOSE i \in 1 .. Len(Order) : Order[i] = s

\* The step after stage s: the next stage, or the next phase.
After(s, phase, next) ==
  IF s # Killer /\ Position(s) < Len(Order)
  THEN [main EXCEPT !.pc = phase, !.at = Order[Position(s) + 1]]
  ELSE [main EXCEPT !.pc = next, !.at = Order[1]]

(* Stage::connect: initialize() (the metrics stage adds its first event,    *)
(* the timer stage starts its thread), then take over the backlog.         *)
Connect ==
  LET s == main.at
      q == IF s = Metrics THEN Append(stage[s].queue, Report) ELSE stage[s].queue IN
  /\ main.pc = "connect" /\ Idle("main")
  /\ stage' = [stage EXCEPT ![s].queue = q, ![s].ref = Len(q), ![s].connected = TRUE]
  /\ owes' = [owes EXCEPT !["main"] = [i \in 1 .. Len(q) |-> s]]
  /\ tthread' = IF s = Timer THEN [tthread EXCEPT !.pc = "check"] ELSE tthread
  /\ main' = After(s, "connect", "serve")
  /\ UNCHANGED <<poolVars, worker, reportCb, timers, nonce, shutdown, now, spurious, fateVars>>

\* pthread_create fails in TimerStage::initialize: start() cleans up.
ConnectFails ==
  /\ main.pc = "connect" /\ main.at = Timer /\ Idle("main")
  /\ main' = [main EXCEPT !.pc = "cleanup", !.at = Order[1]]
  /\ UNCHANGED <<stage, poolVars, worker, owes, reportCb, timerVars, spurious, fateVars>>

Submit(s, e) ==
  /\ main.pc = "serve" /\ Idle("main")
  /\ e \notin asked /\ Cardinality(asked) < MaxAsked
  /\ AddEvent("main", s, e)
  /\ asked' = asked \cup {e}
  /\ UNCHANGED <<poolVars, worker, reportCb, timerVars, main, spurious, handled, fired, cancelled>>

SubmitRequest ==
  \E r \in 1 .. Requests : /\ \A q \in 1 .. r - 1 : Event("request", q) \in asked
                           /\ Submit(Session, Event("request", r))

SetAlarm == \E a \in Alarms : Submit(Timer, Event("register", Event("alarm", a)))

CancelAlarm ==
  \E a \in Alarms : /\ Event("register", Event("alarm", a)) \in asked
                    /\ Submit(Timer, Event("cancel", a))

Stop ==
  /\ main.pc = "serve" /\ Idle("main")
  /\ main' = [main EXCEPT !.pc = "cleanup", !.at = Order[1]]
  /\ UNCHANGED <<stage, poolVars, worker, owes, reportCb, timerVars, spurious, fateVars>>

\* Mutant of Drained: disconnect() does not wait.
DrainedAtOnce(s, ref) ==
  IF s = Killer THEN [main EXCEPT !.pc = "done"] ELSE After(s, "cleanup", "delete")

\* What disconnect() does once connected_ is false: wait or go on.
Drained(s, ref) ==
  IF ref > 0 THEN [main EXCEPT !.pc = "drain"]
  ELSE IF s = Killer THEN [main EXCEPT !.pc = "done"]
  ELSE After(s, "cleanup", "delete")

\* Stage::disconnect; the timer stage first stops its thread, holding list_mutex_.
Disconnect ==
  LET s == main.at IN
  /\ main.pc = "cleanup" /\ Idle("main")
  /\ IF ~stage[s].connected
     THEN /\ main' = After(s, "cleanup", "delete")
          /\ UNCHANGED <<stage, tthread, shutdown>>
     ELSE IF s = Timer
     THEN /\ TimerFree
          /\ shutdown' = TRUE
          /\ SignalTimer
          /\ main' = [main EXCEPT !.pc = "join"]
          /\ UNCHANGED stage
     ELSE /\ stage' = [stage EXCEPT ![s].connected = FALSE]
          /\ main' = Drained(s, stage[s].ref)
          /\ UNCHANGED <<tthread, shutdown>>
  /\ UNCHANGED <<poolVars, worker, owes, reportCb, timers, nonce, now, spurious, fateVars>>

JoinTimer ==
  /\ main.pc = "join" /\ tthread.pc = "dead"
  /\ stage' = [stage EXCEPT ![Timer].connected = FALSE]
  /\ main' = Drained(Timer, stage[Timer].ref)
  /\ UNCHANGED <<poolVars, worker, owes, reportCb, timerVars, spurious, fateVars>>

DrainWakes ==
  /\ main.pc = "drained"
  /\ main' = Drained(main.at, stage[main.at].ref)
  /\ UNCHANGED <<stage, poolVars, worker, owes, reportCb, timerVars, spurious, fateVars>>

(* SedaConfig::clear_config: delete the stages with the events they hold,   *)
(* then the pool, whose destructor kills the threads: kill_threads connects *)
(* the killer stage under thread_mutex_.                                   *)
ClearConfig ==
  /\ main.pc = "delete"
  /\ stage' = [s \in Stages |->
                 IF s = Killer THEN [stage[s] EXCEPT !.connected = TRUE]
                 ELSE [stage[s] EXCEPT !.queue = <<>>, !.deleted = TRUE]]
  /\ timers' = {}
  /\ main' = [pc |-> "killgen", at |-> Killer, kills |-> nthreads]
  /\ UNCHANGED <<poolVars, worker, owes, reportCb, nonce, tthread, shutdown, now, spurious, fateVars>>

GenKillThreadEvent ==
  /\ main.pc = "killgen" /\ main.kills > 0 /\ Idle("main")
  /\ AddEvent("main", Killer, KillEvent)
  /\ main' = [main EXCEPT !.kills = @ - 1]
  /\ UNCHANGED <<poolVars, worker, reportCb, timerVars, spurious, fateVars>>

\* Set the counter and wait for the last thread; the wait is not in a loop.
AwaitKills ==
  /\ main.pc = "killgen" /\ main.kills = 0 /\ Idle("main")
  /\ toKill' = nthreads
  /\ main' = [main EXCEPT !.pc = "killwait"]
  /\ UNCHANGED <<stage, runQueue, worker, owes, nthreads, reportCb, timerVars, spurious, fateVars>>

SpuriousWakeup ==
  /\ main.pc = "killwait"
  /\ main' = [main EXCEPT !.pc = "killed"]
  /\ spurious' = TRUE
  /\ UNCHANGED <<stage, poolVars, worker, owes, reportCb, timerVars, fateVars>>

\* killer_.disconnect(), with thread_mutex_ locked again.
DisconnectKiller ==
  /\ main.pc = "killed"
  /\ stage' = [stage EXCEPT ![Killer].connected = FALSE]
  /\ main' = Drained(Killer, stage[Killer].ref)
  /\ UNCHANGED <<poolVars, worker, owes, reportCb, timerVars, spurious, fateVars>>

Shutdown ==
  \/ Disconnect \/ JoinTimer \/ DrainWakes \/ ClearConfig
  \/ GenKillThreadEvent \/ AwaitKills \/ DisconnectKiller

MainThread ==
  \/ Schedule("main") \/ Connect \/ ConnectFails \/ SubmitRequest \/ SetAlarm \/ CancelAlarm
  \/ Stop \/ SpuriousWakeup \/ Shutdown

SedaNext == MainThread \/ TimerThread \/ Tick \/ \E w \in Workers : Service(w)

SedaSpec == SedaInit /\ [][SedaNext]_vars

(* The operating system runs every thread that can run, the clock moves on, *)
(* and a shutdown once begun is carried out; nobody has to submit, stop or  *)
(* wake up spuriously.                                                     *)
SedaFairness ==
  /\ \A w \in Workers : WF_vars(Service(w))
  /\ WF_vars(TimerThread)
  /\ WF_vars(Tick)
  /\ WF_vars(Schedule("main") \/ Connect)
  /\ WF_vars(Shutdown)

SedaFairSpec == SedaSpec /\ SedaFairness
-----------------------------------------------------------------------------
(* Properties.                                                             *)

Count(seq, Test(_)) == Cardinality({i \in 1 .. Len(seq) : Test(seq[i])})

\* Scheduled events of stage s that no thread has removed yet.
Tokens(s) ==
  LET isS(x) == x = s IN
  Count(runQueue, isS)
    + MapThenSumSet(LAMBDA t : Count(owes[t], isS), Threads)
    + Cardinality({w \in Workers : worker[w].pc = "took" /\ worker[w].stage = s})

\* Threads between remove_event and release_event of stage s.
Busy(s) == {w \in Workers : /\ worker[w].pc \in {"handle", "trigger", "release", "exit"}
                            /\ worker[w].stage = s}

(* The run queue and the event queues agree: every entry of the run queue,  *)
(* every schedule() call that is owed and every thread that took an entry   *)
(* finds an event, so the assertions of schedule() and remove_event() hold; *)
(* a connected stage has no event that nobody is scheduled for; and         *)
(* event_ref_ counts exactly what disconnect() has to wait for.            *)
EventsHaveTokens ==
  \A s \in Stages : ~stage[s].deleted =>
    /\ Tokens(s) <= Len(stage[s].queue)
    /\ stage[s].connected => Tokens(s) = Len(stage[s].queue)
    /\ stage[s].ref = Tokens(s) + Cardinality(Busy(s))

(* Disconnecting waits long enough: when clear_config deletes a stage no    *)
(* thread and no run queue entry refers to it, the timer thread is gone and *)
(* every accepted request has been handled; and when the pool is destroyed  *)
(* all its threads have left it.                                           *)
NothingUsedAfterDelete ==
  /\ \A s \in Stages : stage[s].deleted =>
       /\ Tokens(s) = 0 /\ Busy(s) = {} /\ ~stage[s].connected
       /\ tthread.pc \in {"none", "dead"}
       /\ {e \in asked : e.kind = "request"} \subseteq handled
  /\ main.pc = "done" => \A w \in Workers : worker[w].pc = "dead"

\* How often the event e is somewhere: itself or inside the event that registers it.
Copies(e) ==
  LET carries(x) == x = e \/ x = Event("register", e)
      due(x)     == x = e IN
  MapThenSumSet(LAMBDA s : Count(stage[s].queue, carries), Stages)
    + Cardinality({w \in Workers : worker[w].pc = "handle" /\ carries(worker[w].event)})
    + Cardinality({t \in timers : t.event = e})
    + Count(tthread.due, due)

(* An event has one owner: the metrics report circles between its stage and *)
(* the timer without ever being in two places, where the second done()      *)
(* would delete it under the first, and an alarm ends in exactly one way:   *)
(* its callback runs, or a cancellation reports success, never both.       *)
EventHasOneOwner ==
  LET Ended(a) == Cardinality({a} \cap fired) + Cardinality({a} \cap cancelled)
      Set(a)   == Event("register", Event("alarm", a)) \in asked IN
  /\ Copies(Report) <= 1
  /\ stage[Metrics].connected => Copies(Report) = 1
  /\ \A a \in Alarms :
       /\ Copies(Event("alarm", a)) + Ended(a) <= 1
       /\ Set(a) /\ ~stage[Session].deleted => Copies(Event("alarm", a)) + Ended(a) = 1

\* Nothing asked for is outstanding.
Settled ==
  /\ {e \in asked : e.kind = "request"} \subseteq handled
  /\ main.pc = "serve" => \A t \in timers : t.when > now
  /\ main.pc \in {"serve", "done"} \/ spurious

(* What was asked for happens, as long as the pool got a thread: again and  *)
(* again every request added so far has been handled, also when the         *)
(* shutdown begins in between, every timer the clock has reached has been   *)
(* taken off the queue, and no start or shutdown is under way.  The         *)
(* exceptions are named: without a thread, or when kill_threads' wait       *)
(* returns early, the shutdown hangs.                                      *)
SedaProgress == []<>(Settled \/ (nthreads = 0 /\ main.at # Killer))

(* SessionStage keeps the promise the network layer builds on: requests are *)
(* started in the order of add_event, once, by the threads of the pool.    *)
RequestQueue == INSTANCE WorkQueue
  WITH Items    <- {Event("request", r) : r \in 1 .. Requests},
       Width    <- Cardinality(Workers),
       waiting  <- SelectSeq(stage[Session].queue, LAMBDA e : e.kind = "request"),
       running  <- {worker[w].event : w \in {v \in Workers : Holds(v, "request")}},
       finished <- handled

StageQueueSpec == RequestQueue!QSpec

(* The bookkeeping that keeps events alive exactly as long as somebody has  *)
(* them: tokens, reference counts, owners, and the order of the shutdown.   *)
EventsAccounted == EventsHaveTokens /\ NothingUsedAfterDelete /\ EventHasOneOwner
=============================================================================
