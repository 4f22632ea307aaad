--------------------------------- MODULE Mail ---------------------------------
(***************************************************************************)
(* Mail: the welcome message of a registration (AuthService.register, its    *)
(* route, the email.welcome subscriber of the event bus and the Celery       *)
(* task), and a notification sent in process (notify, its registry, and      *)
(* send_email_with_retry).                                                   *)
(*                                                                          *)
(* A welcome task is queued twice over: by the route once the registration   *)
(* has committed, and by the subscriber when the relay hands it the event.   *)
(* The subscriber queues from a thread, which a timeout leaves running.      *)
(* Celery acknowledges a task after it ran, so one that a dying worker had   *)
(* taken is repeated.  When only the child that runs it is killed the worker *)
(* acknowledges it all the same: task_reject_on_worker_lost is not set.      *)
(***************************************************************************)
EXTENDS Integers, FiniteSets

CONSTANTS
    Visitors,      \* requests that register one address
    WelcomeTasks,  \* identities of queued tasks
    MaxRetries,    \* max_retries of the task
    MailAttempts,  \* max_attempts of send_email_with_retry
    MaxDispatches, \* bound: times the relay hands the event over
    MaxDeaths      \* bound: servers, workers and their children that die

ASSUME MailAssumption == MailAttempts \in Nat \ {0} /\ MaxRetries \in Nat

VARIABLES
    visit,      \* each request of the route
    welcome,    \* the outbox row of UserRegistered, and how often it was dispatched
    queuing,    \* the threads in the broker call: waited for, and left by a timeout
    tasks,      \* each task: state and retries
    workerDeaths,
    notice      \* a notification: channel, state, attempt, messages accepted for it

mailVars == <<visit, welcome, queuing, tasks, workerDeaths, notice>>

Channels == {"email", "none", "unregistered"}
NoNotice == [channel |-> "none", state |-> "idle", attempt |-> 0, accepted |-> 0]
NoTask == [state |-> "unused", tries |-> 0]

MailTypeOK ==
    /\ visit \in [Visitors -> {"idle", "checked", "committed", "created", "conflict", "failed"}]
    /\ welcome \in [row : {"none", "pending", "claimed", "handled", "deleted"}, dispatched : 0..MaxDispatches]
    /\ queuing \in [awaited : BOOLEAN, left : 0..MaxDispatches]
    /\ tasks \in [WelcomeTasks -> [state : {"unused", "queued", "done", "dead", "lost"}, tries : 0..(MaxRetries + 1)]]
    /\ workerDeaths \in 0..MaxDeaths
    /\ notice \in [channel : Channels, state : {"idle", "sending", "delivered", "opted_out", "failed", "refused"},
                   attempt : 0..MailAttempts, accepted : 0..MailAttempts]

MailInit ==
    /\ visit = [v \in Visitors |-> "idle"]
    /\ welcome = [row |-> "none", dispatched |-> 0]
    /\ queuing = [awaited |-> FALSE, left |-> 0]
    /\ tasks = [t \in WelcomeTasks |-> NoTask] /\ workerDeaths = 0
    /\ notice = NoNotice

Registered == welcome.row # "none"
Unused == {t \in WelcomeTasks : tasks[t].state = "unused"}

-----------------------------------------------------------------------------
(* The registration.                                                       *)

\* exists_by_email.
CheckEmail(v) ==
    /\ visit[v] = "idle"
    /\ visit' = [visit EXCEPT ![v] = IF Registered THEN "conflict" ELSE "checked"]
    /\ UNCHANGED <<welcome, queuing, tasks, workerDeaths, notice>>

\* The account and its event commit together.  The address is unique: a second insert raises.
CommitRegistration(v) ==
    /\ visit[v] = "checked"
    /\ IF Registered THEN visit' = [visit EXCEPT ![v] = "failed"] /\ UNCHANGED welcome
                     ELSE /\ visit' = [visit EXCEPT ![v] = "committed"]
                          /\ welcome' = [welcome EXCEPT !.row = "pending"]
    /\ UNCHANGED <<queuing, tasks, workerDeaths, notice>>

\* .delay(): the broker has the task.
Queue(t) == tasks' = [tasks EXCEPT ![t] = [state |-> "queued", tries |-> 0]]

\* The route queues the task itself; a broker that cannot be reached is a 500.
AnswerRegistration(v, reached) ==
    /\ visit[v] = "committed"
    /\ IF reached
       THEN visit' = [visit EXCEPT ![v] = "created"] /\ \E t \in Unused : Queue(t)
       ELSE visit' = [visit EXCEPT ![v] = "failed"] /\ UNCHANGED tasks
    /\ UNCHANGED <<welcome, queuing, workerDeaths, notice>>

-----------------------------------------------------------------------------
(* The relay and the email.welcome subscriber.                             *)

\* The event is published on the bus; the subscriber's thread calls the broker.
DispatchWelcome ==
    /\ welcome.row = "pending" /\ welcome.dispatched < MaxDispatches
    /\ welcome' = [row |-> "claimed", dispatched |-> welcome.dispatched + 1]
    /\ queuing' = [queuing EXCEPT !.awaited = TRUE]
    /\ UNCHANGED <<visit, tasks, workerDeaths, notice>>

\* mutant: the overrun is not reported as a failure of the subscriber.
TakenAsDone == "handled"

\* _invoke turns TimeoutError into a failed outcome, and the relay keeps the row.
Overrun == "pending"

\* wait_for gives up after the subscriber's timeout.  The thread goes on.
SubscriberOverruns ==
    /\ queuing.awaited
    /\ welcome' = [welcome EXCEPT !.row = Overrun]
    /\ queuing' = [awaited |-> FALSE, left |-> queuing.left + 1]
    /\ UNCHANGED <<visit, tasks, workerDeaths, notice>>

\* The broker call a subscriber waits for returns, or raises.
SubscriberQueues(reached) ==
    /\ queuing.awaited
    /\ queuing' = [queuing EXCEPT !.awaited = FALSE]
    /\ IF reached
       THEN welcome' = [welcome EXCEPT !.row = "handled"] /\ \E t \in Unused : Queue(t)
       ELSE welcome' = [welcome EXCEPT !.row = "pending"] /\ UNCHANGED tasks
    /\ UNCHANGED <<visit, workerDeaths, notice>>

\* One nobody waits for any more.
LeftThreadQueues(reached) ==
    /\ queuing.left > 0
    /\ queuing' = [queuing EXCEPT !.left = @ - 1]
    /\ IF reached THEN \E t \in Unused : Queue(t) ELSE UNCHANGED tasks
    /\ UNCHANGED <<visit, welcome, workerDeaths, notice>>

\* Every subscriber succeeded: the row is deleted.
SettleWelcome ==
    /\ welcome.row = "handled"
    /\ welcome' = [welcome EXCEPT !.row = "deleted"]
    /\ UNCHANGED <<visit, queuing, tasks, workerDeaths, notice>>

\* The process dies: requests and threads end, a claimed row is given back.
ServerDies ==
    /\ workerDeaths < MaxDeaths /\ workerDeaths' = workerDeaths + 1
    /\ visit' = [v \in Visitors |-> IF visit[v] \in {"checked", "committed"} THEN "failed" ELSE visit[v]]
    /\ welcome' = [welcome EXCEPT !.row = IF @ \in {"claimed", "handled"} THEN "pending" ELSE @]
    /\ queuing' = [awaited |-> FALSE, left |-> 0]
    /\ notice' = IF notice.state = "sending" THEN [notice EXCEPT !.state = "refused"] ELSE notice
    /\ UNCHANGED tasks

-----------------------------------------------------------------------------
(* The Celery worker.                                                      *)

\* send_welcome_email_task returns, and is acknowledged.
TaskSends(t) ==
    /\ tasks[t].state = "queued"
    /\ tasks' = [tasks EXCEPT ![t].state = "done"]
    /\ UNCHANGED <<visit, welcome, queuing, workerDeaths, notice>>

\* It raises: autoretry_for queues it again, max_retries times.
TaskRaises(t) ==
    /\ tasks[t].state = "queued"
    /\ tasks' = [tasks EXCEPT ![t] = [state |-> IF @.tries = MaxRetries THEN "dead" ELSE "queued",
                                      tries |-> @.tries + 1]]
    /\ UNCHANGED <<visit, welcome, queuing, workerDeaths, notice>>

\* mutant: the task is acknowledged when it is taken.
AcksEarly(task) == [task EXCEPT !.state = "unused"]

\* task_acks_late: what was not acknowledged is delivered again.
Redelivered(task) == task

\* The worker dies as a whole, with the task it has taken.
MailWorkerDies(t) ==
    /\ tasks[t].state = "queued" /\ workerDeaths < MaxDeaths
    /\ workerDeaths' = workerDeaths + 1
    /\ tasks' = [tasks EXCEPT ![t] = Redelivered(@)]
    /\ UNCHANGED <<visit, welcome, queuing, notice>>

\* The child that runs the task is killed (out of memory, say): the worker acknowledges the
\* task as failed, and autoretry_for, which is code of the task, is not reached.
MailChildKilled(t) ==
    /\ tasks[t].state = "queued" /\ workerDeaths < MaxDeaths
    /\ workerDeaths' = workerDeaths + 1
    /\ tasks' = [tasks EXCEPT ![t].state = "lost"]
    /\ UNCHANGED <<visit, welcome, queuing, notice>>

-----------------------------------------------------------------------------
(* notify().                                                               *)

\* get_strategy(channel).send: an unregistered channel raises, "none" is an opt-out, and a
\* recipient without an address is not reachable.
Notify(channel, hasAddress) ==
    /\ notice.state = "idle"
    /\ notice' = [NoNotice EXCEPT !.channel = channel,
                    !.state = CASE channel = "none" -> "opted_out"
                                [] channel = "email" /\ hasAddress -> "sending"
                                [] OTHER -> "refused",
                    !.attempt = IF channel = "email" /\ hasAddress THEN 1 ELSE 0]
    /\ UNCHANGED <<visit, welcome, queuing, tasks, workerDeaths>>

\* An attempt returns.
MailSent ==
    /\ notice.state = "sending"
    /\ notice' = [notice EXCEPT !.state = "delivered", !.accepted = @ + 1]
    /\ UNCHANGED <<visit, welcome, queuing, tasks, workerDeaths>>

\* mutant: the attempt before the last is taken for the last.
GivesUpEarly(attempt) == attempt + 1 >= MailAttempts

LastAttempt(attempt) == attempt = MailAttempts

\* An attempt raises or times out, before or after the message went out.
MailFails(wentOut) ==
    /\ notice.state = "sending"
    /\ notice' = [notice EXCEPT !.accepted = IF wentOut THEN @ + 1 ELSE @,
                    !.state = IF LastAttempt(notice.attempt) THEN "failed" ELSE "sending",
                    !.attempt = IF LastAttempt(notice.attempt) THEN @ ELSE @ + 1]
    /\ UNCHANGED <<visit, welcome, queuing, tasks, workerDeaths>>

MailNext ==
    \/ \E v \in Visitors : CheckEmail(v) \/ CommitRegistration(v)
    \/ \E v \in Visitors, b \in BOOLEAN : AnswerRegistration(v, b)
    \/ DispatchWelcome \/ SubscriberOverruns \/ SettleWelcome \/ ServerDies
    \/ \E b \in BOOLEAN : SubscriberQueues(b) \/ LeftThreadQueues(b) \/ MailFails(b)
    \/ \E t \in WelcomeTasks : TaskSends(t) \/ TaskRaises(t) \/ MailWorkerDies(t) \/ MailChildKilled(t)
    \/ \E c \in Channels, b \in BOOLEAN : Notify(c, b)
    \/ MailSent

MailSpec == MailInit /\ [][MailNext]_mailVars

-----------------------------------------------------------------------------
(* Properties.                                                             *)

\* A committed registration is never left without its welcome, unless the child that sent it
\* was killed: while the relay has not been told it is handled the row is kept, and after that
\* a task is queued, has run, has been tried MaxRetries + 1 times, or was lost with its child.
\* The same holds once a request was answered with a 201.
WelcomeIsKept ==
    LET held == {t \in WelcomeTasks : tasks[t].state # "unused"} IN
    /\ welcome.row \in {"handled", "deleted"} => held # {}
    /\ (\E v \in Visitors : visit[v] = "created") => held # {}
    /\ \A t \in WelcomeTasks : tasks[t].state = "dead" => tasks[t].tries = MaxRetries + 1

\* notify reports what happened: "delivered" means a message was accepted, a failure that every
\* attempt was spent, and nothing is sent to a recipient who opted out.
NotificationIsHonest ==
    /\ notice.state = "delivered" => notice.accepted > 0
    /\ notice.state = "failed" => notice.attempt = MailAttempts
    /\ notice.channel = "none" => notice.accepted = 0
=============================================================================
