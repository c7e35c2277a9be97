-------------------------- MODULE SupervisorProofs --------------------------
(***************************************************************************)
(* The Manager has one Worker for an index at a time and knows every child,  *)
(* for any number of Workers, descriptors, deaths, kills and failing forks.  *)
(*                                                                          *)
(* That no two living Workers share an index is not inductive: a Worker that *)
(* is dead and not waited for still has its index, and its successor is      *)
(* forked with it only when waitpid has returned it.  The invariant is about *)
(* all children, the dead ones included.                                    *)
(***************************************************************************)
EXTENDS Supervisor, FiniteSetTheorems, WellFoundedInduction, TLAPS

Child(p) == proc[p] # "none"

\* The fields of a tagWorkerAttr.
Fields == {"idx", "ctl", "dat", "extra", "late"}

\* The children have indices of their own among those created so far; m_mapWorker has
\* them, and nothing else, under their indices.
IInv ==
  /\ boot \in 0 .. N
  /\ proc \in [Pid -> {"none", "run", "hung", "zombie"}]
  /\ idxOf \in [Pid -> 0 .. N]
  /\ \A p \in Pid : Child(p) => idxOf[p] \in 1 .. boot
  /\ \A p, q \in Pid : Child(p) /\ Child(q) /\ p # q => idxOf[p] # idxOf[q]
  /\ DOMAIN worker \subseteq Pid
  /\ \A p \in DOMAIN worker : Child(p) /\ DOMAIN worker[p] = Fields /\ worker[p].idx = idxOf[p]
  /\ up => \A p \in Pid : Child(p) => p \in DOMAIN worker

-----------------------------------------------------------------------------
\* The kernel has a process identifier left: there are at most N children.
LEMMA PidLeft ==
  ASSUME IInv
  PROVE  FreePids # {}
<1> SUFFICES ASSUME FreePids = {} PROVE FALSE
  BY Zenon
<1>1. \A p \in Pid : Child(p)
  BY Zenon DEF FreePids, Child, Pid
<1>2. idxOf \in Injection(Pid, 1 .. N)
  <2>1. idxOf \in [Pid -> 1 .. N]
    BY <1>1, SupervisorAssumption DEF IInv
  <2>2. \A p, q \in Pid : idxOf[p] = idxOf[q] => p = q
    BY Zenon, <1>1 DEF IInv
  <2> QED BY Zenon, <2>1, <2>2 DEF Injection, IsInjective
<1>3. IsFiniteSet(1 .. N) /\ Cardinality(1 .. N) = N
  <2>1. N \in Int /\ 1 \in Int /\ ~ (1 > N) /\ N - 1 + 1 = N
    BY SupervisorAssumption
  <2> QED BY Zenon, <2>1, FS_Interval
<1>4. IsFiniteSet(Pid) /\ Cardinality(Pid) = MaxPid
  BY FS_Interval, SupervisorAssumption DEF Pid
<1>5. Cardinality(Pid) <= Cardinality(1 .. N)
  BY Zenon, <1>2, <1>3, FS_Injection
<1> QED BY <1>3, <1>4, <1>5, SupervisorAssumption

\* fork() returns a process identifier no child has.
LEMMA NewPidFree ==
  ASSUME IInv
  PROVE  NewPid \in Pid /\ ~ Child(NewPid)
<1>1. FreePids \subseteq Nat /\ FreePids # {}
  BY PidLeft DEF FreePids, Pid
<1>2. PICK m \in FreePids : \A q \in FreePids : ~ (<<q, m>> \in OpToRel(<, Nat))
  BY Zenon, <1>1, NatLessThanWellFounded, WFMin
<1>3. \A q \in FreePids : m <= q
  <2> SUFFICES ASSUME NEW q \in FreePids, q < m PROVE FALSE
    BY <1>1
  <2>1. OpToRel(<, Nat) = {r \in Nat \X Nat : r[1] < r[2]}
    BY Zenon DEF OpToRel
  <2>2. <<q, m>> \in {r \in Nat \X Nat : r[1] < r[2]}
    BY Zenon, <1>1
  <2> QED BY Zenon, <1>2, <2>1, <2>2
<1>4. \E p \in FreePids : \A q \in FreePids : p <= q
  BY Zenon, <1>3
<1>5. NewPid \in FreePids
  BY Zenon, <1>4 DEF NewPid
<1> QED BY Zenon, <1>5 DEF FreePids, Child

-----------------------------------------------------------------------------
\* The steps.

\* A step that neither forks nor waits for a child, and leaves the indices in
\* m_mapWorker alone or ends the Manager.
LEMMA SameChildren ==
  ASSUME IInv, boot' = boot, idxOf' = idxOf, up' => up,
         proc' \in [Pid -> {"none", "run", "hung", "zombie"}],
         \A p \in Pid : proc'[p] = "none" <=> proc[p] = "none",
         \/ /\ DOMAIN worker' = DOMAIN worker
            /\ \A p \in DOMAIN worker : DOMAIN worker'[p] = Fields /\ worker'[p].idx = worker[p].idx
         \/ ~ up' /\ DOMAIN worker' = {}
  PROVE  IInv'
BY Zenon DEF IInv, Child

\* The children before the fork, once waitpid returned those of gone, and the new one.
LEMMA ForkedStep ==
  ASSUME IInv, NEW i, NEW gone \in SUBSET Pid, NEW w, NEW fp, NEW attr, NEW kn,
         Forked(i, gone, w, fp, attr, kn), up' = up, up,
         boot' \in boot .. N, i \in 1 .. boot',
         \A p \in gone : proc[p] = "zombie",
         \A p \in Pid \ gone : Child(p) => idxOf[p] # i,
         DOMAIN w = DOMAIN worker \ gone, \A p \in DOMAIN w : w[p] = worker[p]
  PROVE  IInv'
<1> DEFINE q == NewPid
<1>1. q \in Pid /\ proc[q] = "none"
  BY Zenon, NewPidFree DEF Child
<1>2. /\ proc' = [Reaped(gone) EXCEPT ![q] = "run"]
      /\ idxOf' = [p \in Pid |-> IF p = q THEN i ELSE IF proc'[p] = "none" THEN 0 ELSE idxOf[p]]
      /\ \E c, d : worker' = Insert(w, {q}, NewAttr(i, c, d))
  BY Zenon DEF Forked
<1> HIDE DEF q
<1>3. /\ proc' \in [Pid -> {"none", "run", "hung", "zombie"}] /\ proc'[q] = "run"
      /\ \A p \in Pid \ {q} : proc'[p] = IF p \in gone THEN "none" ELSE proc[p]
  BY Zenon, <1>1, <1>2 DEF Reaped, IInv
<1>4. /\ idxOf'[q] = i
      /\ \A p \in Pid \ {q} : idxOf'[p] = IF p \in gone \/ proc[p] = "none" THEN 0 ELSE idxOf[p]
  BY Zenon, <1>1, <1>2, <1>3
<1>5. idxOf' \in [Pid -> 0 .. N]
  <2>1. i \in 0 .. N
    BY SupervisorAssumption DEF IInv
  <2>2. \A p \in Pid : idxOf[p] \in 0 .. N /\ 0 \in 0 .. N
    BY SupervisorAssumption DEF IInv
  <2> QED BY Zenon, <1>2, <2>1, <2>2
<1>6. q \notin DOMAIN w /\ q \notin gone
  BY Zenon, <1>1 DEF IInv, Child
<1>7. /\ DOMAIN worker' = (DOMAIN worker \ gone) \cup {q}
      /\ \A p \in DOMAIN worker \ gone : worker'[p] = worker[p]
      /\ DOMAIN worker'[q] = Fields /\ worker'[q].idx = i
  <2>1. PICK c, d : worker' = Insert(w, {q}, NewAttr(i, c, d))
    BY Zenon, <1>2
  <2>2. /\ DOMAIN worker' = (DOMAIN worker \ gone) \cup {q}
        /\ \A p \in DOMAIN worker \ gone : worker'[p] = worker[p]
        /\ worker'[q] = NewAttr(i, c, d)
    BY Zenon, <1>6, <2>1 DEF Insert
  <2>3. DOMAIN NewAttr(i, c, d) = Fields /\ NewAttr(i, c, d).idx = i
    BY Zenon DEF NewAttr, Fields
  <2> QED BY Zenon, <2>2, <2>3
<1>8. \A p \in Pid : Child(p)' <=> p = q \/ (Child(p) /\ p \notin gone)
  BY Zenon, <1>1, <1>3 DEF Child
<1>9. \A p \in Pid : Child(p)' => idxOf'[p] \in 1 .. boot'
  <2>1. boot \in Nat /\ boot' \in Nat /\ boot <= boot'
    BY DEF IInv
  <2> QED BY <1>4, <1>8, <2>1 DEF IInv, Child
<1>10. \A p, r \in Pid : Child(p)' /\ Child(r)' /\ p # r => idxOf'[p] # idxOf'[r]
  BY <1>4, <1>8 DEF IInv, Child
<1>11. DOMAIN worker' \subseteq Pid
  BY Zenon, <1>1, <1>7 DEF IInv
<1>12. \A p \in DOMAIN worker' : Child(p)' /\ DOMAIN worker'[p] = Fields /\ worker'[p].idx = idxOf'[p]
  <2>1. \A p \in DOMAIN worker \ gone : p # q /\ p \in Pid /\ Child(p) /\ p \notin gone
    BY Zenon, <1>1 DEF IInv, Child
  <2>2. \A p \in DOMAIN worker \ gone : idxOf'[p] = idxOf[p]
    BY Zenon, <1>4, <2>1 DEF Child
  <2> QED BY Zenon, <1>1, <1>4, <1>7, <1>8, <2>1, <2>2 DEF IInv
<1>13. \A p \in Pid : Child(p)' => p \in DOMAIN worker'
  BY Zenon, <1>7, <1>8 DEF IInv
<1>14. boot' \in 0 .. N
  BY SupervisorAssumption DEF IInv
<1> QED BY Zenon, <1>3, <1>5, <1>9, <1>10, <1>11, <1>12, <1>13, <1>14 DEF IInv

\* fork() fails: the children waited for are gone, and so are their indices.
LEMMA NotForkedStep ==
  ASSUME IInv, NEW gone \in SUBSET Pid, NEW w, NEW fp, NEW attr, NEW kn,
         NotForked(gone, w, fp, attr, kn), up' = up, boot' \in boot .. N,
         \A p \in gone : proc[p] = "zombie",
         DOMAIN w = DOMAIN worker \ gone, \A p \in DOMAIN w : w[p] = worker[p]
  PROVE  IInv'
<1>1. /\ proc' = Reaped(gone)
      /\ idxOf' = [p \in Pid |-> IF proc'[p] = "none" THEN 0 ELSE idxOf[p]]
      /\ worker' = w
  BY Zenon DEF NotForked
<1>2. /\ proc' \in [Pid -> {"none", "run", "hung", "zombie"}]
      /\ \A p \in Pid : proc'[p] = IF p \in gone THEN "none" ELSE proc[p]
  BY Zenon, <1>1 DEF Reaped, IInv
<1>3. \A p \in Pid : idxOf'[p] = IF p \in gone \/ proc[p] = "none" THEN 0 ELSE idxOf[p]
  BY Zenon, <1>1, <1>2
<1>4. idxOf' \in [Pid -> 0 .. N]
  BY <1>1, SupervisorAssumption DEF IInv
<1>5. DOMAIN worker' = DOMAIN worker \ gone /\ \A p \in DOMAIN worker \ gone : worker'[p] = worker[p]
  BY Zenon, <1>1
<1>6. \A p \in Pid : Child(p)' <=> Child(p) /\ p \notin gone
  BY Zenon, <1>2 DEF Child
<1>7. \A p \in Pid : Child(p)' => idxOf'[p] = idxOf[p]
  BY Zenon, <1>3, <1>6 DEF Child
<1>8. boot' \in 0 .. N /\ 1 .. boot \subseteq 1 .. boot'
  BY SupervisorAssumption DEF IInv
<1>9. \A p \in Pid : Child(p)' => idxOf'[p] \in 1 .. boot'
  BY Zenon, <1>6, <1>7, <1>8 DEF IInv
<1>10. /\ DOMAIN worker' \subseteq Pid
       /\ \A p \in DOMAIN worker' : Child(p)' /\ DOMAIN worker'[p] = Fields /\ worker'[p].idx = idxOf'[p]
  BY Zenon, <1>5, <1>6, <1>7 DEF IInv
<1>11. \A p, r \in Pid : Child(p)' /\ Child(r)' /\ p # r => idxOf'[p] # idxOf'[r]
  BY Zenon, <1>6, <1>7 DEF IInv
<1>12. up' => \A p \in Pid : Child(p)' => p \in DOMAIN worker'
  BY Zenon, <1>5, <1>6 DEF IInv
<1> QED BY Zenon, <1>2, <1>4, <1>8, <1>9, <1>10, <1>11, <1>12 DEF IInv

\* The constructor forks the Workers one by one, or fails to.
LEMMA CreateWorkerStep ==
  ASSUME IInv, CreateWorker
  PROVE  IInv'
<1>1. /\ up /\ up' = up /\ boot < N /\ boot' = boot + 1
      /\ \/ Forked(boot + 1, {}, worker, fdPid, fdAttr, kern)
         \/ NotForked({}, worker, fdPid, fdAttr, kern)
  BY Zenon DEF CreateWorker
<1>2. boot' \in boot .. N /\ boot + 1 \in 1 .. boot'
  BY <1>1, SupervisorAssumption DEF IInv
<1>3. \A p \in Pid \ {} : Child(p) => idxOf[p] # boot + 1
  BY DEF IInv
<1>4. /\ {} \in SUBSET Pid /\ \A p \in {} : proc[p] = "zombie"
      /\ DOMAIN worker = DOMAIN worker \ {} /\ \A p \in DOMAIN worker : worker[p] = worker[p]
  BY Zenon
<1>5. CASE Forked(boot + 1, {}, worker, fdPid, fdAttr, kern)
  BY <1>1, <1>2, <1>3, <1>4, <1>5, ForkedStep, Zenon
<1>6. CASE NotForked({}, worker, fdPid, fdAttr, kern)
  BY <1>1, <1>2, <1>4, <1>6, NotForkedStep, Zenon
<1> QED BY Zenon, <1>1, <1>5, <1>6

\* waitpid returned p, and its successor is forked or not.
LEMMA RestartWorkerStep ==
  ASSUME IInv, NEW p \in Pid, RestartWorker(p)
  PROVE  IInv'
<1>1. /\ up /\ UNCHANGED <<up, boot>> /\ proc[p] = "zombie" /\ p \in DOMAIN worker
      /\ \E fp, attr, kn :
           \/ Forked(worker[p].idx, {p}, Without(worker, {p}), fp, attr, kn)
           \/ NotForked({p}, Without(worker, {p}), fp, attr, kn)
  BY Zenon DEF RestartWorker, Loop, Terminated
<1>2. PICK fp, attr, kn :
           \/ Forked(worker[p].idx, {p}, Without(worker, {p}), fp, attr, kn)
           \/ NotForked({p}, Without(worker, {p}), fp, attr, kn)
  BY Zenon, <1>1
<1> DEFINE w == Without(worker, {p})
<1>3. DOMAIN w = DOMAIN worker \ {p} /\ \A r \in DOMAIN w : w[r] = worker[r]
  BY Zenon DEF Without, Restrict
<1>4. {p} \in SUBSET Pid /\ \A r \in {p} : proc[r] = "zombie"
  BY Zenon, <1>1
<1>5. CASE NotForked({p}, Without(worker, {p}), fp, attr, kn)
  <2>1. NotForked({p}, w, fp, attr, kn)
    BY Zenon, <1>5
  <2>2. boot' \in boot .. N /\ up' = up
    BY <1>1 DEF IInv
  <2> HIDE DEF w
  <2> QED BY <1>3, <1>4, <2>1, <2>2, NotForkedStep, Zenon
<1>6. CASE Forked(worker[p].idx, {p}, Without(worker, {p}), fp, attr, kn)
  <2> DEFINE i == worker[p].idx
  <2>2. i = idxOf[p] /\ Child(p)
    BY Zenon, <1>1 DEF IInv
  <2>3. boot' \in boot .. N /\ i \in 1 .. boot'
    BY <1>1, <2>2 DEF IInv
  <2>4. \A r \in Pid \ {p} : Child(r) => idxOf[r] # i
    BY Zenon, <2>2 DEF IInv
  <2>5. Forked(i, {p}, w, fp, attr, kn)
    BY Zenon, <1>6
  <2>7. up /\ up' = up
    BY Zenon, <1>1
  <2> HIDE DEF w, i
  <2> QED BY <1>3, <1>4, <2>3, <2>4, <2>5, <2>7, ForkedStep, Zenon
<1> QED BY Zenon, <1>2, <1>5, <1>6

\* Deaths, hangs and kills.
LEMMA ProcStep ==
  ASSUME IInv, UNCHANGED <<boot, idxOf, up, worker>>,
         \/ \E S : proc' = Killed(S)
         \/ \E p \in Pid, how \in {"zombie", "hung"} : proc[p] = "run" /\ proc' = [proc EXCEPT ![p] = how]
  PROVE  IInv'
<1>1. /\ proc' \in [Pid -> {"none", "run", "hung", "zombie"}]
      /\ \A p \in Pid : proc'[p] = "none" <=> proc[p] = "none"
  BY Zenon DEF IInv, Killed
<1>2. \A p \in DOMAIN worker : DOMAIN worker'[p] = Fields /\ worker'[p].idx = worker[p].idx
  BY Zenon DEF IInv
<1> QED BY Zenon, <1>1, <1>2, SameChildren

\* Loads, beats and lateness change fields of m_mapWorker's entries.
LEMMA WorkerStep ==
  ASSUME IInv, UNCHANGED <<boot, idxOf, up, proc>>,
         \/ worker' = worker
         \/ \E p \in DOMAIN worker : \/ worker' = AddWorkerLoad(p)
                                     \/ worker' = [worker EXCEPT ![p].late = TRUE]
         \/ \E p, load : worker' = SetWorkerLoad(p, load)
  PROVE  IInv'
<1>1. /\ DOMAIN worker' = DOMAIN worker
      /\ \A p \in DOMAIN worker : DOMAIN worker'[p] = Fields /\ worker'[p].idx = worker[p].idx
  <2>0. \A p \in DOMAIN worker : DOMAIN worker[p] = Fields
    BY Zenon DEF IInv
  <2>1. CASE worker' = worker
    BY Zenon, <2>0, <2>1
  <2>2. ASSUME NEW p \in DOMAIN worker,
               \/ worker' = [worker EXCEPT ![p].extra = worker[p].extra + 1]
               \/ worker' = [worker EXCEPT ![p].late = TRUE]
        PROVE  /\ DOMAIN worker' = DOMAIN worker
               /\ \A r \in DOMAIN worker : DOMAIN worker'[r] = Fields /\ worker'[r].idx = worker[r].idx
    BY <2>0, <2>2 DEF Fields
  <2>3. ASSUME NEW p \in DOMAIN worker, NEW load,
               worker' = [worker EXCEPT ![p] = [worker[p] EXCEPT !.extra = load, !.late = FALSE]]
        PROVE  /\ DOMAIN worker' = DOMAIN worker
               /\ \A r \in DOMAIN worker : DOMAIN worker'[r] = Fields /\ worker'[r].idx = worker[r].idx
    BY Zenon, <2>0, <2>3 DEF Fields
  <2>4. CASE \E p, load : worker' = SetWorkerLoad(p, load)
    <3>1. PICK p, load : worker' = SetWorkerLoad(p, load)
      BY Zenon, <2>4
    <3> QED BY Zenon, <2>1, <2>3, <3>1 DEF SetWorkerLoad
  <2>5. CASE \E p \in DOMAIN worker : worker' = AddWorkerLoad(p) \/ worker' = [worker EXCEPT ![p].late = TRUE]
    <3>1. PICK p \in DOMAIN worker : worker' = AddWorkerLoad(p) \/ worker' = [worker EXCEPT ![p].late = TRUE]
      BY Zenon, <2>5
    <3> QED BY Zenon, <2>2, <3>1 DEF AddWorkerLoad
  <2> QED BY Zenon, <2>1, <2>4, <2>5
<1>2. /\ proc' \in [Pid -> {"none", "run", "hung", "zombie"}]
      /\ \A p \in Pid : proc'[p] = "none" <=> proc[p] = "none"
  BY Zenon DEF IInv
<1> QED BY Zenon, <1>1, <1>2, SameChildren

\* The end of the Manager.
LEMMA ExitStep ==
  ASSUME IInv, Exit, proc' = proc
  PROVE  IInv'
<1>1. ~ up' /\ DOMAIN worker' = {} /\ UNCHANGED <<boot, idxOf>>
  BY DEF Exit
<1>2. /\ proc' \in [Pid -> {"none", "run", "hung", "zombie"}]
      /\ \A p \in Pid : proc'[p] = "none" <=> proc[p] = "none"
  BY Zenon DEF IInv
<1> QED BY Zenon, <1>1, <1>2, SameChildren

\* WaitToExitTaskCallback ends the Manager, kills the Workers, or waits.
LEMMA WaitToExitTaskStep ==
  ASSUME IInv, WaitToExitTask
  PROVE  IInv'
<1>1. \/ Exit /\ proc' = proc
      \/ proc' = Killed(DOMAIN worker) /\ UNCHANGED <<boot, idxOf, up, worker>>
      \/ UNCHANGED <<boot, idxOf, up, worker, proc>>
  BY Zenon DEF WaitToExitTask, mgrVars, procVars
<1> QED BY Zenon, <1>1, ExitStep, ProcStep, WorkerStep

\* The invariant is inductive.
LEMMA NextIInv ==
  IInv /\ [Next]_vars => IInv'
<1> SUFFICES ASSUME IInv, [Next]_vars PROVE IInv'
  BY Zenon
<1>0. ASSUME UNCHANGED <<boot, idxOf, up, worker, proc>> PROVE IInv'
  BY Zenon, <1>0, WorkerStep
<1>1. CASE CreateWorker
  BY Zenon, <1>1, CreateWorkerStep
<1>2. ASSUME NEW p \in Pid, BeginStep(p) \/ EndStep(p) \/ CheckParent(p) PROVE IInv'
  BY Zenon, <1>0, <1>2 DEF BeginStep, EndStep, CheckParent, mgrVars
<1>3. ASSUME NEW p \in Pid, CheckParentExit(p) \/ Fail(p, "zombie") \/ Fail(p, "hung") PROVE IInv'
  BY Zenon, <1>3, ProcStep DEF CheckParentExit, Fail, mgrVars
<1>4. ASSUME NEW p \in Pid, BeatLapses(p) PROVE IInv'
  BY Zenon, <1>4, WorkerStep DEF BeatLapses, procVars
<1>5. ASSUME NEW p \in Pid, RestartWorker(p) PROVE IInv'
  BY Zenon, <1>5, RestartWorkerStep
<1>6. CASE AcceptServerConn \/ AutoSend
  BY Zenon, <1>0, <1>6 DEF AcceptServerConn, AutoSend, Connected, procVars
<1>7. CASE FdTransfer
  BY Zenon, <1>7, WorkerStep DEF FdTransfer, procVars
<1>8. ASSUME NEW f \in Fd, RecvFromServer(f) \/ RecvEof(f) PROVE IInv'
  BY Zenon, <1>0, <1>8 DEF RecvFromServer, RecvEof, procVars
<1>9. ASSUME NEW f \in Fd, RecvLoad(f) PROVE IInv'
  BY Zenon, <1>9, WorkerStep DEF RecvLoad
<1>10. ASSUME NEW f \in Fd, NEW cmd, AddWaitToExitTaskEvent(f, cmd) PROVE IInv'
  BY Zenon, <1>0, <1>10 DEF AddWaitToExitTaskEvent, procVars, mgrVars
<1>11. ASSUME NEW t \in timers, IoTimeout(t) PROVE IInv'
  BY Zenon, <1>0, <1>11 DEF IoTimeout, procVars
<1>12. CASE CheckWorker \/ RestartWorkers
  BY Zenon, <1>12, ProcStep DEF CheckWorker, RestartWorkers, mgrVars
<1>13. CASE WaitToExitTask
  BY Zenon, <1>13, WaitToExitTaskStep
<1>14. CASE OnManagerTerminated
  BY Zenon, <1>14, ExitStep DEF OnManagerTerminated
<1>15. CASE UNCHANGED vars
  BY Zenon, <1>0, <1>15 DEF vars
<1> QED
  BY Zenon, <1>1, <1>2, <1>3, <1>4, <1>5, <1>6, <1>7, <1>8, <1>9, <1>10, <1>11, <1>12, <1>13, <1>14, <1>15 DEF Next

\* It holds before the constructor forks.
LEMMA InitIInv ==
  Init => IInv
BY SupervisorAssumption DEF Init, IInv, Child

\* However deaths, kills, restarts, failing forks and reused descriptors interleave, no
\* two living Workers have the same index.
THEOREM OneWorker == Spec => []OneWorkerPerIndex
<1>1. IInv => OneWorkerPerIndex
  BY Zenon DEF IInv, Child, OneWorkerPerIndex, Alive
<1> QED BY <1>1, InitIInv, NextIInv, PTL DEF Spec

\* The Manager, while it runs, has every child in m_mapWorker under the index the child
\* was forked with, so that RestartWorker finds it when it dies.
THEOREM AllSupervised == Spec => []Supervised
<1>1. IInv => Supervised
  BY Zenon DEF IInv, Child, Supervised
<1> QED BY <1>1, InitIInv, NextIInv, PTL DEF Spec

-----------------------------------------------------------------------------
(* Descriptors, while fork succeeds. *)

\* The open descriptors are those of m_mapFdAttr, and the Manager has a Worker to hand
\* clients to.
Tabled ==
  /\ budget \in [crash : Int, signal : Int, fork : {0}, work : Int]
  /\ boot \in 0 .. N
  /\ DOMAIN kern = DOMAIN fdAttr
  /\ up /\ boot > 0 => DOMAIN worker # {}

\* The numbers in a table without some, and with one more.
LEMMA TableFacts ==
  ASSUME NEW f, NEW S, NEW v
  PROVE  /\ DOMAIN Without(f, S) = DOMAIN f \ S
         /\ DOMAIN Insert(f, S, v) = DOMAIN f \cup S
BY Zenon DEF Without, Restrict, Insert

\* A table that is another with one more entry has the number of that entry too.
LEMMA Inserted ==
  ASSUME NEW f, NEW k, NEW v, NEW g, g = Insert(f, {k}, v)
  PROVE  DOMAIN g = DOMAIN f \cup {k}
BY Zenon, TableFacts

\* DestroyConnect closes what it forgets.
LEMMA DestroyTabled ==
  ASSUME DOMAIN kern = DOMAIN fdAttr, NEW fs, DestroyConnect(fs)
  PROVE  DOMAIN kern' = DOMAIN fdAttr'
<1>1. /\ DOMAIN kern' = DOMAIN kern \ (fs \cap DOMAIN fdAttr)
      /\ DOMAIN fdAttr' = DOMAIN fdAttr \ fs
  BY Zenon, TableFacts DEF DestroyConnect
<1> QED BY Zenon, <1>1

\* A fork that succeeds enters both ends it keeps, and the Worker.
LEMMA ForkedTabled ==
  ASSUME NEW i, NEW gone, NEW w, NEW fp, NEW attr, NEW kn, DOMAIN kn = DOMAIN attr,
         Forked(i, gone, w, fp, attr, kn)
  PROVE  DOMAIN kern' = DOMAIN fdAttr' /\ DOMAIN worker' # {}
<1>1. PICK q, c, d, a1 :
        /\ a1 = Insert(attr, {c}, NewSeq(attr)) /\ fdAttr' = Insert(a1, {d}, NewSeq(a1))
        /\ worker' = Insert(w, {q}, NewAttr(i, c, d))
        /\ kern' = Insert(Insert(kn, {c}, Ctl(q)), {d}, Dat(q))
  BY Zenon DEF Forked
<1>2. DOMAIN fdAttr' = (DOMAIN attr \cup {c}) \cup {d}
  <2>1. DOMAIN a1 = DOMAIN attr \cup {c}
    BY Zenon, <1>1, TableFacts
  <2>2. PICK v : fdAttr' = Insert(a1, {d}, v)
    BY Zenon, <1>1
  <2>3. DOMAIN fdAttr' = DOMAIN a1 \cup {d}
    BY Zenon, <2>2, Inserted
  <2> QED BY Zenon, <2>1, <2>3
<1>3. DOMAIN kern' = (DOMAIN kn \cup {c}) \cup {d}
  <2>1. PICK k1 : k1 = Insert(kn, {c}, Ctl(q))
    BY Zenon
  <2>2. DOMAIN k1 = DOMAIN kn \cup {c}
    BY Zenon, <2>1, TableFacts
  <2>3. PICK v : kern' = Insert(k1, {d}, v)
    BY Zenon, <1>1, <2>1
  <2>4. DOMAIN kern' = DOMAIN k1 \cup {d}
    BY Zenon, <2>3, Inserted
  <2> QED BY Zenon, <2>2, <2>4
<1>4. DOMAIN worker' = DOMAIN w \cup {q}
  BY Zenon, <1>1, TableFacts
<1> QED BY Zenon, <1>2, <1>3, <1>4

LEMMA NextTabled == Tabled /\ [Next]_vars => Tabled'
<1> SUFFICES ASSUME Tabled, [Next]_vars PROVE Tabled'
  BY Zenon
<1>a. /\ budget \in [crash : Int, signal : Int, fork : {0}, work : Int] /\ boot \in 0 .. N
      /\ DOMAIN kern = DOMAIN fdAttr /\ (up /\ boot > 0 => DOMAIN worker # {}) /\ N \in Nat \ {0}
  BY Zenon, SupervisorAssumption DEF Tabled
<1>0. ASSUME UNCHANGED <<up, boot, worker>>,
             budget' \in [crash : Int, signal : Int, fork : {0}, work : Int],
             DOMAIN kern' = DOMAIN fdAttr'
      PROVE  Tabled'
  BY Zenon, <1>0, <1>a DEF Tabled
<1>1. CASE CreateWorker
  <2>0. ~ (budget.fork > 0)
    BY <1>a
  <2>1. Forked(boot + 1, {}, worker, fdPid, fdAttr, kern) /\ boot < N /\ boot' = boot + 1
        /\ budget' = budget
    BY Zenon, <1>1, <2>0 DEF CreateWorker, ForkFails
  <2>2. DOMAIN kern' = DOMAIN fdAttr' /\ DOMAIN worker' # {}
    BY Zenon, <1>a, <2>1, ForkedTabled
  <2> QED BY <1>a, <2>1, <2>2 DEF Tabled
<1>2. ASSUME NEW p \in Pid, BeginStep(p) \/ EndStep(p) \/ CheckParent(p) \/ CheckParentExit(p)
      PROVE  Tabled'
  BY <1>0, <1>2, <1>a DEF BeginStep, EndStep, CheckParent, CheckParentExit, mgrVars
<1>3. ASSUME NEW p \in Pid, Fail(p, "zombie") \/ Fail(p, "hung") PROVE Tabled'
  BY <1>0, <1>3, <1>a DEF Fail, mgrVars
<1>4. ASSUME NEW p \in Pid, BeatLapses(p) PROVE Tabled'
  BY Zenon, <1>4, <1>a DEF Tabled, BeatLapses, procVars
<1>5. ASSUME NEW p \in Pid, RestartWorker(p) PROVE Tabled'
  <2>1. PICK own, w, fp, attr, kn :
          /\ attr = Without(fdAttr, own) /\ kn = Without(kern, own \cap DOMAIN fdAttr)
          /\ \/ Forked(worker[p].idx, {p}, w, fp, attr, kn) /\ UNCHANGED budget
             \/ budget.fork > 0
          /\ UNCHANGED <<up, boot>>
    BY Zenon, <1>5 DEF RestartWorker, ForkFails
  <2>2. ~ (budget.fork > 0)
    BY <1>a
  <2>3. DOMAIN attr = DOMAIN fdAttr \ own /\ DOMAIN kn = DOMAIN kern \ (own \cap DOMAIN fdAttr)
    BY Zenon, <2>1, TableFacts
  <2>4. DOMAIN attr = DOMAIN kn
    BY Zenon, <1>a, <2>3
  <2>5. DOMAIN kern' = DOMAIN fdAttr' /\ DOMAIN worker' # {}
    BY Zenon, <2>1, <2>2, <2>4, ForkedTabled
  <2> QED BY Zenon, <1>a, <2>1, <2>2, <2>5 DEF Tabled
<1>6. CASE AcceptServerConn \/ AutoSend
  <2>1. PICK what : Connected(what)
    BY Zenon, <1>6 DEF AcceptServerConn, AutoSend
  <2>2. PICK f, s : kern' = Insert(kern, {f}, what) /\ fdAttr' = Insert(fdAttr, {f}, s)
    BY Zenon, <2>1 DEF Connected
  <2>a. DOMAIN kern' = DOMAIN kern \cup {f}
    BY Zenon, <2>2, TableFacts
  <2>b. DOMAIN fdAttr' = DOMAIN fdAttr \cup {f}
    BY Zenon, <2>2, TableFacts
  <2>3. DOMAIN kern' = DOMAIN fdAttr'
    BY Zenon, <1>a, <2>a, <2>b
  <2> QED BY Zenon, <1>0, <1>a, <2>1, <2>3 DEF Connected
<1>7. CASE FdTransfer
  <2>1. DOMAIN worker # {}
    BY <1>7, <1>a DEF FdTransfer, Loop
  <2>2. PICK p \in DOMAIN worker : worker' = AddWorkerLoad(p) /\ kern' = kern
    BY Zenon, <1>7, <2>1 DEF FdTransfer
  <2>3. DOMAIN worker' = DOMAIN worker /\ UNCHANGED <<up, boot, fdAttr, budget>>
    BY Zenon, <1>7, <2>2 DEF FdTransfer, AddWorkerLoad
  <2> QED BY Zenon, <1>a, <2>1, <2>2, <2>3 DEF Tabled
<1>8. ASSUME NEW f \in Fd, RecvFromServer(f) \/ RecvEof(f) PROVE Tabled'
  <2>1. DestroyConnect({f}) /\ UNCHANGED <<up, boot, worker, budget>>
    BY Zenon, <1>8 DEF RecvFromServer, RecvEof
  <2> QED BY Zenon, <1>0, <1>a, <2>1, DestroyTabled
<1>9. ASSUME NEW f \in Fd, RecvLoad(f) PROVE Tabled'
  <2>1. UNCHANGED <<up, boot, budget>> /\ DOMAIN worker' = DOMAIN worker
        /\ (DestroyConnect({f}) \/ UNCHANGED <<fdAttr, kern>>)
    BY Zenon, <1>9 DEF RecvLoad, SetWorkerLoad
  <2>2. DOMAIN kern' = DOMAIN fdAttr'
    BY Zenon, <1>a, <2>1, DestroyTabled
  <2> QED BY Zenon, <1>a, <2>1, <2>2 DEF Tabled
<1>10. ASSUME NEW f \in Fd, NEW cmd, AddWaitToExitTaskEvent(f, cmd) PROVE Tabled'
  BY <1>0, <1>10, <1>a DEF AddWaitToExitTaskEvent, mgrVars
<1>11. ASSUME NEW t \in timers, IoTimeout(t) PROVE Tabled'
  <2>1. UNCHANGED <<up, boot, worker, budget>>
        /\ (DestroyConnect({t[1]}) \/ UNCHANGED <<fdAttr, kern>>)
    BY Zenon, <1>11 DEF IoTimeout
  <2> QED BY Zenon, <1>0, <1>a, <2>1, DestroyTabled
<1>12. CASE CheckWorker \/ RestartWorkers
  BY <1>0, <1>12, <1>a DEF CheckWorker, RestartWorkers, mgrVars
<1>13. ASSUME Exit, budget' \in [crash : Int, signal : Int, fork : {0}, work : Int] PROVE Tabled'
  BY Zenon, <1>13, <1>a DEF Exit, Tabled
<1>14. CASE WaitToExitTask
  <2>1. \/ Exit /\ UNCHANGED budget
        \/ /\ UNCHANGED <<up, boot, worker, budget>>
           /\ DestroyConnect({wait.fd}) \/ UNCHANGED <<fdAttr, kern>>
    BY Zenon, <1>14 DEF WaitToExitTask, SendTo, mgrVars
  <2> QED BY Zenon, <1>0, <1>13, <1>a, <2>1, DestroyTabled
<1>15. CASE OnManagerTerminated
  BY <1>13, <1>15, <1>a DEF OnManagerTerminated
<1>16. CASE UNCHANGED vars
  BY Zenon, <1>0, <1>16, <1>a DEF vars
<1> QED
  BY Zenon, <1>1, <1>2, <1>3, <1>4, <1>5, <1>6, <1>7, <1>8, <1>9, <1>10, <1>11, <1>12, <1>14, <1>15, <1>16 DEF Next

\* While fork succeeds, the Manager has no descriptor open that m_mapFdAttr does not have,
\* and none there that is closed, however connections, timers and restarts reuse them.
THEOREM NothingLeaks ==
  ASSUME MaxForkFail = 0
  PROVE  Spec => []FdsAccounted
<1>1. Init => Tabled
  BY SupervisorAssumption DEF Init, Tabled
<1>2. Tabled => FdsAccounted
  BY Zenon DEF Tabled, FdsAccounted
<1> QED BY <1>1, <1>2, NextTabled, PTL DEF Spec
=============================================================================
