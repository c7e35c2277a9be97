----------------------------- MODULE Supervisor -----------------------------
(***************************************************************************)
(* The Manager process of a node as the supervisor of its Workers          *)
(* (Manager.cpp): it forks one Worker per index, keeps a control and a data *)
(* socketpair to each, hears their load reports, kills the ones that fall   *)
(* silent, forks a successor for the ones that die, accepts connections of  *)
(* clients and of other servers, and stops the node or restarts the Workers *)
(* on request once they are idle.                                           *)
(*                                                                          *)
(* File descriptors are small numbers the kernel hands out lowest first, so *)
(* a number that was closed is the next one to come back.  The Manager keys *)
(* m_mapFdAttr and m_mapWorkerFdPid by that number; what the number really  *)
(* stands for at the moment is in kern.                                     *)
(***************************************************************************)
EXTENDS Integers, FiniteSets, Functions

CONSTANTS N,          \* m_uiWorkerNum: the Worker indices are 1..N
          MaxPid,     \* process identifiers, recycled after waitpid
          MaxFd,      \* descriptors the Manager may have open at once
          MaxTimers,  \* IO timers outstanding at once
          MaxCrash,   \* Workers that die or hang of their own accord
          MaxSignal,  \* SIGUSR2 signals, stop and restart requests received
          MaxForkFail,\* fork() calls that fail
          MaxExtra,   \* clients handed over between two load reports
          MaxWork     \* steps the Workers begin

ASSUME SupervisorAssumption ==
  /\ {N, MaxPid, MaxFd} \subseteq Nat \ {0}
  /\ {MaxTimers, MaxCrash, MaxSignal, MaxForkFail, MaxExtra, MaxWork} \subseteq Nat
  /\ MaxPid > N /\ MaxFd >= 2 * N + 2

Index == 1 .. N
Pid == 1 .. MaxPid
Fd == 1 .. MaxFd
\* CheckWorkersLoadEmptyExit and -Restart look again while the counter is below 6
WaitLimit == 6

VARIABLES
  up,       \* the Manager process runs
  boot,     \* Workers created by CreateWorker so far
  proc,     \* Pid -> "none", "run", "hung" or "zombie"
  idxOf,    \* Pid -> the m_iWorkerIndex the process was forked with, or 0
  pend,     \* Pid -> steps waiting in the Worker's m_mapCallbackStep
  report,   \* Pid -> load report on its way to the Manager, -1 when none
  worker,   \* m_mapWorker: pid -> its tagWorkerAttr
  fdPid,    \* m_mapWorkerFdPid: fd -> pid
  fdAttr,   \* m_mapFdAttr: fd -> ulSeq of its tagConnectionAttr
  kern,     \* the open descriptors of the Manager: fd -> <<what, whose>>
  timers,   \* pending IoTimeout watchers: <<iFd, ulSeq>>
  wait,     \* m_iWaitToExitCounter, the command and the shell of its sender
  budget    \* crashes, signals, fork failures and steps left

mgrVars == <<worker, fdPid, fdAttr, kern, timers>>
procVars == <<proc, idxOf, pend, report>>
vars == <<up, boot, proc, idxOf, pend, report, worker, fdPid, fdAttr, kern,
          timers, wait, budget>>

NoWait == [cnt |-> 0, cmd |-> "none", fd |-> 0, seq |-> 0]
Peer == <<"peer", 0>>       \* a connection accepted from another server
Center == <<"center", 0>>   \* the connection to the Center
Leak == <<"leak", 0>>       \* open, and in no table of the Manager
Ctl(p) == <<"ctl", p>>      \* the Manager's end of p's control socketpair
Dat(p) == <<"dat", p>>      \* the Manager's end of p's data socketpair
-----------------------------------------------------------------------------
(***************************************************************************)
(* Tables, descriptors and sequence numbers.                               *)
(***************************************************************************)
Without(f, S) == Restrict(f, DOMAIN f \ S)

\* std::unordered_map::insert keeps the entry that is already there; CreateFdAttr too
Insert(f, S, v) == [x \in DOMAIN f \cup S |-> IF x \in DOMAIN f THEN f[x] ELSE v]

\* the k-th lowest descriptor that is not in use
FreeFd(k, open) ==
  CHOOSE f \in Fd \ open : Cardinality({g \in Fd \ open : g <= f}) = k

FreePids == {p \in Pid : proc[p] = "none"}
NewPid == CHOOSE p \in FreePids : \A q \in FreePids : p <= q

\* GetSequence: a number no table, timer or pending answer refers to
SeqInUse(attr) == Range(attr) \cup {t[2] : t \in timers} \cup {wait.seq}

NewSeq(attr) ==
  CHOOSE s \in 1 .. MaxFd + MaxTimers + 2 :
    /\ s \notin SeqInUse(attr)
    /\ \A r \in 1 .. s - 1 : r \in SeqInUse(attr)

NewAttr(i, c, d) == [idx |-> i, ctl |-> c, dat |-> d, extra |-> 0, late |-> FALSE]

\* Mutant of DestroyConnect: the entry goes, the descriptor stays open
ForgetConnect(fs) == fdAttr' = Without(fdAttr, fs) /\ kern' = kern

\* DestroyConnect for each of the descriptors fs that has an entry
DestroyConnect(fs) ==
  /\ fdAttr' = Without(fdAttr, fs)
  /\ kern' = Without(kern, fs \cap DOMAIN fdAttr)

\* waitpid returned gone: the kernel forgets these processes
Reaped(gone) == [p \in Pid |-> IF p \in gone /\ proc[p] = "zombie" THEN "none" ELSE proc[p]]

\* Two socketpairs and a fork that succeeds, as the parent sees it, starting
\* from the tables w, fp, attr and kn, after waitpid returned gone.
Forked(i, gone, w, fp, attr, kn) ==
  LET q == NewPid
      c == FreeFd(1, DOMAIN kn)
      d == FreeFd(3, DOMAIN kn)
      a1 == Insert(attr, {c}, NewSeq(attr))
      a2 == Insert(a1, {d}, NewSeq(a1))
  IN /\ proc' = [Reaped(gone) EXCEPT ![q] = "run"]
     /\ idxOf' = [p \in Pid |-> IF p = q THEN i ELSE IF proc'[p] = "none" THEN 0 ELSE idxOf[p]]
     /\ pend' = [p \in Pid |-> IF p \in gone THEN 0 ELSE pend[p]]
     /\ report' = [p \in Pid |-> IF p \in gone THEN -1 ELSE report[p]]
     /\ worker' = Insert(w, {q}, NewAttr(i, c, d))
     /\ fdPid' = Insert(fp, {c, d}, q)
     /\ fdAttr' = a2
     /\ kern' = Insert(Insert(kn, {c}, Ctl(q)), {d}, Dat(q))

\* The same with a fork that fails: the four descriptors stay open, nobody
\* knows them, and nothing is left of the index.
NotForked(gone, w, fp, attr, kn) ==
  /\ proc' = Reaped(gone)
  /\ idxOf' = [p \in Pid |-> IF proc'[p] = "none" THEN 0 ELSE idxOf[p]]
  /\ pend' = [p \in Pid |-> IF p \in gone THEN 0 ELSE pend[p]]
  /\ report' = [p \in Pid |-> IF p \in gone THEN -1 ELSE report[p]]
  /\ worker' = w
  /\ fdPid' = fp
  /\ fdAttr' = attr
  /\ kern' = Insert(kn, {FreeFd(k, DOMAIN kn) : k \in 1 .. 4}, Leak)

ForkFails == budget.fork > 0 /\ budget' = [budget EXCEPT !.fork = @ - 1]
-----------------------------------------------------------------------------
Init ==
  /\ up = TRUE
  /\ boot = 0
  /\ proc = [p \in Pid |-> "none"]
  /\ idxOf = [p \in Pid |-> 0]
  /\ pend = [p \in Pid |-> 0]
  /\ report = [p \in Pid |-> -1]
  /\ worker = << >>
  /\ fdPid = << >>
  /\ fdAttr = << >>
  /\ kern = << >>
  /\ timers = {}
  /\ wait = NoWait
  /\ budget = [crash |-> MaxCrash, signal |-> MaxSignal, fork |-> MaxForkFail,
               work |-> MaxWork]

\* The Manager's constructor: CreateWorker forks the Workers one by one before
\* the event loop starts; an index whose fork fails is passed over.
CreateWorker ==
  /\ up
  /\ boot < N
  /\ boot' = boot + 1
  /\ \/ Forked(boot + 1, {}, worker, fdPid, fdAttr, kern) /\ UNCHANGED budget
     \/ ForkFails /\ NotForked({}, worker, fdPid, fdAttr, kern)
  /\ UNCHANGED <<up, timers, wait>>

\* the event loop runs
Loop == up /\ boot = N
-----------------------------------------------------------------------------
(***************************************************************************)
(* The Workers.                                                            *)
(***************************************************************************)
\* A request makes the Worker register a step (ExecStep); the step ends.
BeginStep(p) ==
  /\ budget.work > 0
  /\ proc[p] = "run" /\ pend[p] = 0
  /\ pend' = [pend EXCEPT ![p] = 1]
  /\ budget' = [budget EXCEPT !.work = @ - 1]
  /\ UNCHANGED <<up, boot, proc, idxOf, report, mgrVars, wait>>

EndStep(p) ==
  /\ proc[p] = "run" /\ pend[p] = 1
  /\ pend' = [pend EXCEPT ![p] = 0]
  /\ UNCHANGED <<up, boot, proc, idxOf, report, mgrVars, wait, budget>>

\* CheckParent every NODE_BEAT: the Worker writes its load to the control
\* connection, if the Manager's end is still open.
CheckParent(p) ==
  /\ up
  /\ proc[p] = "run"
  /\ report[p] = -1
  /\ Ctl(p) \in Range(kern)
  /\ report' = [report EXCEPT ![p] = pend[p]]
  /\ UNCHANGED <<up, boot, proc, idxOf, pend, mgrVars, wait, budget>>

\* Mutant of CheckParentExit: the orphan waits for its steps to end before it looks
CheckParentExitIdle(p) ==
  /\ ~ up /\ proc[p] = "run" /\ pend[p] = 0
  /\ proc' = [proc EXCEPT ![p] = "zombie"]
  /\ UNCHANGED <<up, boot, idxOf, pend, report, mgrVars, wait, budget>>

\* CheckParent once the Manager is gone: getppid() is 1 and the Worker exits.
CheckParentExit(p) ==
  /\ ~ up
  /\ proc[p] = "run"
  /\ proc' = [proc EXCEPT ![p] = "zombie"]
  /\ UNCHANGED <<up, boot, idxOf, pend, report, mgrVars, wait, budget>>

\* A Worker dies of a signal, or hangs in a handler and reports no more.
Fail(p, how) ==
  /\ Loop
  /\ budget.crash > 0
  /\ proc[p] = "run"
  /\ proc' = [proc EXCEPT ![p] = how]
  /\ budget' = [budget EXCEPT !.crash = @ - 1]
  /\ UNCHANGED <<up, boot, idxOf, pend, report, mgrVars, wait>>
-----------------------------------------------------------------------------
(***************************************************************************)
(* Connections: accept, read, end of file, IO timeout.                     *)
(***************************************************************************)
\* Descriptors left for the two socketpairs of a restart (bound).
Headroom == Cardinality(Fd \ DOMAIN kern) > 4

\* A new connection on the lowest free descriptor, with its IO timer.
Connected(what) ==
  /\ Headroom
  /\ Cardinality(timers) < MaxTimers
  /\ LET f == FreeFd(1, DOMAIN kern)
         s == NewSeq(fdAttr)
     IN /\ kern' = Insert(kern, {f}, what)
        /\ fdAttr' = Insert(fdAttr, {f}, s)
        /\ timers' = timers \cup {<<f, s>>}
  /\ UNCHANGED <<up, boot, procVars, worker, fdPid, wait, budget>>

AcceptServerConn == Loop /\ Connected(Peer)

\* RegisterToCenter and ReportToCenter: AutoSend connects to a Center whose
\* m_mapCenterMsgShell entry is 0.
AutoSend == Loop /\ Center \notin Range(kern) /\ Connected(Center)

\* AddWorkerLoad after a client went to p.  GetMinLoadWorkerDataFd picks the
\* least loaded Worker; the loads are abstracted, so it may be any of them.
AddWorkerLoad(p) == [worker EXCEPT ![p].extra = @ + 1]

\* A client connection: FdTransfer accepts it, passes it to a Worker over the
\* data connection the Manager has for it (whatever the number stands for now)
\* and closes its own copy; with no Worker it returns with the copy open.
FdTransfer ==
  /\ Loop
  /\ Headroom
  /\ IF DOMAIN worker = {}
     THEN kern' = Insert(kern, {FreeFd(1, DOMAIN kern)}, Leak) /\ worker' = worker
     ELSE \E p \in DOMAIN worker :
            /\ worker[p].extra < MaxExtra
            /\ worker[p].dat \in DOMAIN kern
            /\ worker' = AddWorkerLoad(p)
            /\ kern' = kern
  /\ UNCHANGED <<up, boot, procVars, fdPid, fdAttr, timers, wait, budget>>

\* CONNECT_TO_WORKER arrives on a connection of another server.  If the
\* descriptor is in m_mapWorkerFdPid it is taken for an unknown command of a
\* Worker; else DisposeDataAndTransferFd passes it on, and the Manager's copy
\* is destroyed whether there is such a Worker or not.
RecvFromServer(f) ==
  /\ Loop
  /\ f \in DOMAIN fdAttr
  /\ kern[f] = Peer
  /\ f \notin DOMAIN fdPid
  /\ DestroyConnect({f})
  /\ UNCHANGED <<up, boot, procVars, worker, fdPid, timers, wait, budget>>

\* The connection f may find its other end closed: the other server or the Center
\* closed it, or the Worker there is dead by pr.
Broken(f, pr) ==
  kern[f] \in {Peer, Center} \cup UNION {{Ctl(p), Dat(p)} : p \in {q \in Pid : pr[q] = "zombie"}}

\* Mutant of RecvEof: end of file from a Worker already erases it from m_mapWorker
RecvEofErases(f) ==
  /\ Loop
  /\ f \in DOMAIN fdAttr
  /\ Broken(f, proc) /\ kern[f] \notin {Peer, Center}
  /\ DestroyConnect({f})
  /\ worker' = Without(worker, {kern[f][2]})
  /\ UNCHANGED <<up, boot, procVars, fdPid, timers, wait, budget>>

\* RecvDataAndDispose reads end of file or an error.
RecvEof(f) ==
  /\ Loop
  /\ f \in DOMAIN fdAttr
  /\ Broken(f, proc)
  /\ DestroyConnect({f})
  /\ UNCHANGED <<up, boot, procVars, worker, fdPid, timers, wait, budget>>

\* Mutant of IoTimeout: the timer goes by the descriptor alone
IoTimeoutByFd(t) ==
  /\ Loop
  /\ t \in timers
  /\ timers' = timers \ {t}
  /\ DestroyConnect({t[1]})
  /\ UNCHANGED <<up, boot, procVars, worker, fdPid, wait, budget>>

\* IoTimeout on a connection that was quiet for m_dIoTimeout: nothing happens
\* when the descriptor is another connection by now.  (Re-arming the timer of a
\* connection that was active leaves the state as it is.)
IoTimeout(t) ==
  /\ Loop
  /\ t \in timers
  /\ timers' = timers \ {t}
  /\ IF t[1] \in DOMAIN fdAttr /\ fdAttr[t[1]] = t[2]
     THEN DestroyConnect({t[1]}) ELSE UNCHANGED <<fdAttr, kern>>
  /\ UNCHANGED <<up, boot, procVars, worker, fdPid, wait, budget>>
-----------------------------------------------------------------------------
(***************************************************************************)
(* Supervision.                                                            *)
(***************************************************************************)
\* SetWorkerLoad: load, connections and the time of the beat; a pid that is not
\* in the table changes nothing
SetWorkerLoad(p, load) ==
  IF p \in DOMAIN worker
  THEN [worker EXCEPT ![p] = [@ EXCEPT !.extra = load, !.late = FALSE]] ELSE worker

\* A load report is read from the control connection of q and credited to the
\* pid m_mapWorkerFdPid has for the descriptor.
RecvLoad(f) ==
  /\ Loop
  /\ f \in DOMAIN fdAttr
  /\ kern[f][1] = "ctl"
  /\ LET q == kern[f][2] IN
       /\ report[q] # -1
       /\ report' = [report EXCEPT ![q] = -1]
       /\ IF f \in DOMAIN fdPid
          THEN /\ worker' = SetWorkerLoad(fdPid[f], report[q])
               /\ UNCHANGED <<fdAttr, kern>>
          ELSE /\ DestroyConnect({f})
               /\ UNCHANGED worker
  /\ UNCHANGED <<up, boot, proc, idxOf, pend, fdPid, timers, wait, budget>>

\* m_iWorkerBeat passes without a report credited to p.  It is at least twice
\* the report interval, so a Worker that runs and is connected does report.
BeatLapses(p) ==
  /\ Loop
  /\ p \in DOMAIN worker
  /\ ~ worker[p].late
  /\ proc[p] # "run" \/ Ctl(p) \notin Range(kern)
  /\ worker' = [worker EXCEPT ![p].late = TRUE]
  /\ UNCHANGED <<up, boot, procVars, fdPid, fdAttr, kern, timers, wait, budget>>

\* Mutant of Killed: SIGINT instead of SIGKILL: a Worker that hangs does not see it
Interrupted(ps) == [p \in Pid |-> IF p \in ps /\ proc[p] = "run" THEN "zombie" ELSE proc[p]]

\* kill(pid, SIGKILL)
Killed(ps) == [p \in Pid |-> IF p \in ps /\ proc[p] \in {"run", "hung"}
                             THEN "zombie" ELSE proc[p]]

\* CheckWorker, every NODE_BEAT: SIGKILL to the Workers whose beat lapsed.  Not
\* when m_iRefreshInterval is 0 or less; it is positive here, as it is by default
\* and in the configurations of the repository.
CheckWorker ==
  /\ Loop
  /\ proc' = Killed({p \in DOMAIN worker : worker[p].late})
  /\ proc' # proc
  /\ UNCHANGED <<up, boot, idxOf, pend, report, mgrVars, wait, budget>>

\* SIGUSR2: RestartWorkers kills every Worker.
RestartWorkers ==
  /\ Loop
  /\ budget.signal > 0
  /\ budget' = [budget EXCEPT !.signal = @ - 1]
  /\ proc' = Killed(DOMAIN worker)
  /\ UNCHANGED <<up, boot, idxOf, pend, report, mgrVars, wait>>

\* Mutant of Terminated: a Worker that is late is restarted at once, without waitpid
TerminatedOrLate(p) == proc[p] = "zombie" \/ (p \in DOMAIN worker /\ worker[p].late)

\* waitpid returns p
Terminated(p) == proc[p] = "zombie"

\* Mutant of ErasedFds: the descriptors stay in m_mapWorkerFdPid
KeptFds(p) == fdPid

\* RestartWorker erases the two descriptors of p from m_mapWorkerFdPid.
ErasedFds(p) == Without(fdPid, {worker[p].ctl, worker[p].dat})

\* OnChildTerminated: waitpid returns p, and RestartWorker erases its two
\* descriptors from m_mapWorkerFdPid, destroys whatever connections now have
\* these numbers, erases the Worker and forks its successor.
RestartWorker(p) ==
  /\ Loop
  /\ Terminated(p)
  /\ p \in DOMAIN worker
  /\ LET own == {worker[p].ctl, worker[p].dat}
         w == Without(worker, {p})
         fp == ErasedFds(p)
         attr == Without(fdAttr, own)
         kn == Without(kern, own \cap DOMAIN fdAttr)
     IN \/ Forked(worker[p].idx, {p}, w, fp, attr, kn) /\ UNCHANGED budget
        \/ ForkFails /\ NotForked({p}, w, fp, attr, kn)
  /\ UNCHANGED <<up, boot, timers, wait>>
-----------------------------------------------------------------------------
(***************************************************************************)
(* Stop and restart on request.                                            *)
(***************************************************************************)
\* NODE_STOP or NODE_RESTART_WORKERS from the Center or from a Worker:
\* AddWaitToExitTaskEvent starts the timer, unless one is running already.
AddWaitToExitTaskEvent(f, cmd) ==
  /\ Loop
  /\ budget.signal > 0
  /\ budget' = [budget EXCEPT !.signal = @ - 1]
  /\ f \in DOMAIN fdAttr
  /\ \/ kern[f] = Center
     \/ kern[f][1] = "ctl" /\ proc[kern[f][2]] = "run" /\ f \in DOMAIN fdPid
  /\ wait' = IF wait.cnt # 0 THEN wait
             ELSE [cnt |-> 1, cmd |-> cmd, fd |-> f, seq |-> fdAttr[f]]
  /\ UNCHANGED <<up, boot, procVars, mgrVars>>

\* SendTo the shell of the request: the answer is dropped unless the number and
\* the sequence number both match; when it cannot be written, the connection is
\* destroyed.
SendTo(f, s) ==
  \/ UNCHANGED <<fdAttr, kern>>
  \/ /\ f \in DOMAIN fdAttr /\ fdAttr[f] = s /\ Broken(f, proc')
     /\ DestroyConnect({f})

\* The Manager's process ends, and the kernel closes all it had open.
Exit ==
  /\ up' = FALSE
  /\ worker' = << >> /\ fdPid' = << >> /\ fdAttr' = << >> /\ kern' = << >>
  /\ timers' = {}
  /\ report' = [p \in Pid |-> -1]
  /\ UNCHANGED <<boot, idxOf, pend>>

\* iLoad = iConnect for every Worker, as far as the Manager knows
LoadEmpty == \A p \in DOMAIN worker : worker[p].extra = 0

\* Mutant of GiveUp: the counter passes its limit unnoticed
GiveUpLater == ~ LoadEmpty /\ wait.cnt > WaitLimit

\* the sixth look in vain
GiveUp == ~ LoadEmpty /\ wait.cnt = WaitLimit

\* WaitToExitTaskCallback: look, and act, wait another second, or give up.  (The
\* answer to a stop goes out ahead of exit, which closes everything.)
WaitToExitTask ==
  /\ Loop
  /\ wait.cnt # 0
  /\ \/ /\ LoadEmpty /\ wait.cmd = "stop"
        /\ wait' = NoWait
        /\ Exit
        /\ UNCHANGED proc
     \/ /\ LoadEmpty /\ wait.cmd = "restart"
        /\ proc' = Killed(DOMAIN worker)
        /\ SendTo(wait.fd, wait.seq)
        /\ wait' = NoWait
        /\ UNCHANGED <<up, boot, idxOf, pend, report, worker, fdPid, timers>>
     \/ /\ ~ LoadEmpty /\ wait.cnt < WaitLimit
        /\ wait' = [wait EXCEPT !.cnt = @ + 1]
        /\ UNCHANGED <<up, boot, procVars, mgrVars>>
     \/ /\ GiveUp
        /\ UNCHANGED procVars
        /\ SendTo(wait.fd, wait.seq)
        /\ wait' = NoWait
        /\ UNCHANGED <<up, boot, worker, fdPid, timers>>
  /\ UNCHANGED budget

\* OnManagerTerminated: any other signal ends the Manager.
OnManagerTerminated ==
  /\ Loop
  /\ budget.signal > 0
  /\ budget' = [budget EXCEPT !.signal = @ - 1]
  /\ wait' = NoWait
  /\ Exit
  /\ UNCHANGED proc
-----------------------------------------------------------------------------
Next ==
  \/ CreateWorker
  \/ \E p \in Pid :
       \/ BeginStep(p) \/ EndStep(p) \/ CheckParent(p) \/ CheckParentExit(p)
       \/ Fail(p, "zombie") \/ Fail(p, "hung")
       \/ BeatLapses(p) \/ RestartWorker(p)
  \/ AcceptServerConn \/ AutoSend \/ FdTransfer
  \/ \E f \in Fd :
       \/ RecvFromServer(f) \/ RecvEof(f) \/ RecvLoad(f)
       \/ AddWaitToExitTaskEvent(f, "stop") \/ AddWaitToExitTaskEvent(f, "restart")
  \/ \E t \in timers : IoTimeout(t)
  \/ CheckWorker \/ RestartWorkers \/ WaitToExitTask \/ OnManagerTerminated

Spec == Init /\ [][Next]_vars

\* The constructor runs to its end; libev serves the watchers that are ready
\* (SIGCHLD, the control connections, the periodic and the wait timer); the
\* Workers that run keep calling CheckParent; time passes.
FairSpec ==
  /\ Spec
  /\ WF_vars(CreateWorker)
  /\ WF_vars(CheckWorker)
  /\ WF_vars(WaitToExitTask)
  /\ WF_vars(\E p \in Pid : RestartWorker(p))
  /\ WF_vars(\E p \in Pid : BeatLapses(p))
  /\ WF_vars(\E p \in Pid : CheckParent(p) \/ CheckParentExit(p))
  /\ WF_vars(\E f \in Fd : RecvLoad(f))
-----------------------------------------------------------------------------
Alive(p) == proc[p] \in {"run", "hung"}

\* No two living Workers ever have the same m_iWorkerIndex, however deaths,
\* kills, restarts and descriptor reuse interleave: a successor is forked only
\* once waitpid has returned its predecessor.
OneWorkerPerIndex ==
  \A p, q \in Pid : Alive(p) /\ Alive(q) /\ p # q => idxOf[p] # idxOf[q]

\* Every child, living or not yet waited for, is in m_mapWorker under its own
\* index, so that its death makes RestartWorker find it.
Supervised ==
  up => \A p \in Pid : proc[p] # "none" =>
          p \in DOMAIN worker /\ worker[p].idx = idxOf[p]

\* While fork succeeds the Manager has no descriptor open that is in no table
\* and has none in m_mapFdAttr that is closed: accepting, transferring, end of
\* file, timeouts and restarts leak nothing.
FdsAccounted == DOMAIN kern = DOMAIN fdAttr

\* A load report never counts for a living Worker other than the one that sent
\* it, although the Manager tells its sender by the number of the descriptor, and
\* numbers and pids come back: a Worker that hangs is not kept by the beats of
\* another, and the load of one that is busy is not overwritten by an idle one's.
BeatIsOwn ==
  [][ \A p, q \in Pid :
        (p # q /\ Alive(p) /\ p \in DOMAIN worker \cap DOMAIN worker' /\ report[q] # -1 /\ report'[q] = -1)
          => worker'[p] = worker[p] ]_vars

\* The connection to a Worker that runs is closed by nothing but the reaping
\* of a dead Worker or the end of the Manager: no late IO timer, end of file
\* or request of another server hits it.
ChannelCutOnlyByRestart ==
  [][ \A f \in DOMAIN kern :
        (kern[f][1] \in {"ctl", "dat"} /\ proc[kern[f][2]] = "run" /\ f \notin DOMAIN kern')
          => ~ up' \/ \E q \in Pid : proc[q] = "zombie" /\ proc'[q] # "zombie" ]_vars

\* Worker p does its job: it runs, the Manager knows it and hears it.
Serves(p) ==
  /\ proc[p] = "run"
  /\ p \in DOMAIN worker
  /\ worker[p].ctl \in DOMAIN kern
  /\ kern[worker[p].ctl] = Ctl(p)

\* Once Workers stop failing, every index is in the end served for good, or
\* the Manager has ended: dead Workers are replaced, hung ones and the ones
\* cut off from the Manager are killed and replaced.
EveryIndexServed ==
  <>[](up => \A i \in Index : \E p \in Pid : Serves(p) /\ worker[p].idx = i)

\* A stop or restart that was accepted comes to its end.
WaitEnds == wait.cnt # 0 ~> wait.cnt = 0

\* When the Manager is gone no Worker that runs outlives it for good.
OrphansExit == ~ up ~> \A p \in Pid : proc[p] # "run"
=============================================================================
