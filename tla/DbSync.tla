------------------------------- MODULE DbSync -------------------------------
(***************************************************************************)
(* DataProxy keeps the database writes it could not deliver in files and    *)
(* replays them later: StepSendToDbAgent hands a write to DbAgent or, when  *)
(* there is no way to it, to SessionSyncDbData, which appends it to the     *)
(* file of the minute (SyncData); the session's timer reads the files back  *)
(* (GetSyncData) and sends record after record with a StepSyncToDb.         *)
(*                                                                          *)
(* One Worker and one table.  A file is named by its minute; what it holds  *)
(* is the sequence of its records.  m_pBuffR and the part of the reading    *)
(* file not read yet are one: roff counts the records decoded.  The files   *)
(* outlive the Worker, all the rest does not.                               *)
(***************************************************************************)
EXTENDS Naturals, Sequences, FiniteSetsExt, Functions

CONSTANTS Writes,      \* the writes of the clients
          Both,        \* those with a redis part: m_bNeedResponse is false
          Size,        \* the size of a write's record
          TimeOutMax,  \* timeouts a StepSyncToDb bears, 3
          MaxMinute,   \* bound: the last minute of the clock
          MaxStep,     \* bound: StepSyncToDb in flight
          MaxFail,     \* bound: failures of the environment
          MaxCrash     \* bound: crashes of the Worker

ASSUME DbSyncAssumption ==
  /\ Both \subseteq Writes /\ Size \in [Writes -> Nat] /\ TimeOutMax \in Nat
  /\ MaxMinute \in Nat \ {0, 1} /\ MaxStep \in Nat \ {0} /\ MaxFail \in Nat /\ MaxCrash \in Nat

VARIABLES now,      \* the minute
          disk,     \* the files under SYNC_DATA_DIR: minute -> records
          session,  \* the SessionSyncDbData of the table
          steps,    \* the StepSyncToDb: on, its record rec, m_timeOut to
          direct,   \* the StepSendToDbAgent of a write: "new", "sent", "done"
          wire,     \* requests to DbAgent, its answers to a step that waits
          agent,    \* a node AGENT_W is known and can be reached
          fails, crashes,           \* what the bounds count
          applied, unsure,          \* times a write reached the database; of these, reported as failed
          stored, refused, given,   \* writes SyncData took; the database refused; given up
          left                      \* minutes in which the Worker crashed

vars == <<now, disk, session, steps, direct, wire, agent, fails, crashes,
          applied, unsure, stored, refused, given, left>>

Minutes == 2 .. MaxMinute
StepIds == 1 .. MaxStep

\* No session; the state of a new one.
NoSession == [on |-> FALSE, files |-> {}, wfile |-> 0, wtime |-> 0, wgone |-> FALSE,
              rfile |-> 0, roff |-> 0, waitR |-> <<>>, sending |-> 0]
SessionNew == [NoSession EXCEPT !.on = TRUE]
GetSessionSyncDbData == IF session.on THEN session ELSE SessionNew

NoStep == [on |-> FALSE, rec |-> 0, to |-> 0]

Init == /\ now = 2 /\ disk = <<>> /\ session = NoSession
        /\ steps = [i \in StepIds |-> NoStep]
        /\ direct = [w \in Writes |-> "new"] /\ wire = {} /\ agent = TRUE
        /\ fails = 0 /\ crashes = 0
        /\ applied = [w \in Writes |-> 0] /\ unsure = [w \in Writes |-> 0]
        /\ stored = {} /\ refused = {} /\ given = {} /\ left = {}

\* One failure of the environment more, if it is one.
Fail(b) == IF b THEN fails < MaxFail /\ fails' = fails + 1 ELSE fails' = fails

-----------------------------------------------------------------------------
\* SessionSyncDbData.

Closed(x) == [x EXCEPT !.wfile = 0, !.wgone = FALSE]

\* CheckWritingFile: the writing file is closed once the last write is more than 60
\* seconds old, which may be so in the minute after it, and is in the one after that.
CheckWritingFile(x) ==
  (IF now >= x.wtime + 2 THEN {} ELSE {x}) \cup (IF now > x.wtime THEN {Closed(x)} ELSE {})

\* The files with a file f of these records.
WithFile(f, recs) == [g \in DOMAIN disk \cup {f} |-> IF g = f THEN recs ELSE disk[g]]

\* Mutant: the file is opened with O_TRUNC.
SyncDataTrunc(x, w) ==
  LET y == IF x.wfile = now THEN x ELSE [Closed(x) EXCEPT !.wfile = now]
  IN  {[s |-> [y EXCEPT !.files = @ \cup {now}, !.wtime = now], d |-> WithFile(now, <<w>>), ok |-> TRUE]}

\* What SyncData can come to: the directory or the file cannot be opened, the write
\* fails, or the record is appended and the file noted.  What is written to a file
\* that was unlinked is on no disk.  Encode, whose answer is not looked at, succeeds.
SyncData(x, w) ==
  LET y == IF x.wfile = now THEN x ELSE [Closed(x) EXCEPT !.wfile = now]
      had == IF now \in DOMAIN disk THEN disk[now] ELSE <<>>
      file(c) == IF y.wgone THEN disk ELSE WithFile(now, c)
  IN  {[s |-> y, d |-> file(had), ok |-> FALSE],
       [s |-> [y EXCEPT !.files = @ \cup {now}, !.wtime = now], d |-> file(Append(had, w)), ok |-> TRUE]}
      \cup (IF x.wfile = now THEN {} ELSE {[s |-> Closed(x), d |-> disk, ok |-> FALSE]})

\* A record taken from the buffers; m_iSendingSize.
Taken(x, w) == [s |-> [x EXCEPT !.sending = Size[w]], d |-> disk, got |-> <<w>>]

\* The loop of GetSyncData: what was put back first, then the file; at its end the
\* file is closed and unlinked.  Whole records are assumed, and reads that succeed: on
\* an error the code unlinks the file together with what it has not read of it.
ReadOn(x) ==
  CASE x.waitR # <<>> -> Taken([x EXCEPT !.waitR = Tail(@)], Head(x.waitR))
    [] x.waitR = <<>> /\ x.roff < Len(disk[x.rfile]) ->
         Taken([x EXCEPT !.roff = @ + 1], disk[x.rfile][x.roff + 1])
    [] OTHER -> [s |-> [x EXCEPT !.files = @ \ {x.rfile}, !.rfile = 0, !.wgone = @ \/ x.rfile = x.wfile],
                 d |-> Restrict(disk, DOMAIN disk \ {x.rfile}), got |-> <<>>]

Opened(x, f) == [x EXCEPT !.rfile = f, !.roff = 0]
Nothing(x) == [s |-> x, d |-> disk, got |-> <<>>]

\* Mutant: the file being written is read as well.
GetSyncDataMixed(x) ==
  IF x.rfile # 0 THEN ReadOn(x)
  ELSE IF x.files = {} THEN Nothing(x)
  ELSE IF Min(x.files) \notin DOMAIN disk THEN Nothing([x EXCEPT !.files = @ \ {Min(x.files)}])
  ELSE ReadOn(Opened(x, Min(x.files)))

\* GetSyncData: the session, the files and the record, if there is one.
GetSyncData(x) ==
  IF x.rfile # 0 THEN ReadOn(x)
  ELSE IF x.files = {} \/ Min(x.files) = x.wfile THEN Nothing(x)
  ELSE IF Min(x.files) \notin DOMAIN disk THEN Nothing([x EXCEPT !.files = @ \ {Min(x.files)}])
  ELSE ReadOn(Opened(x, Min(x.files)))

\* GoBack: the record of the size sent last is put back.
GoBack(x, w) == IF x.on /\ x.sending = Size[w] THEN [x EXCEPT !.waitR = Append(@, w)] ELSE x

\* ScanSyncData, of the session and of DataProxySession.
ScanSyncData(x, d) == [x EXCEPT !.files = @ \cup DOMAIN d]

-----------------------------------------------------------------------------
\* StepSyncToDb.

\* A message of StepSyncToDb s, or, with s = 0, of the StepSendToDbAgent of the write or
\* of a step that is no more.  One that is lost is one nobody ever takes.
Msg(i, w, st) == [s |-> i, rec |-> w, st |-> st]

\* The messages once the steps of I have ended: the requests may still be worked on.
Orphaned(I) == {m \in wire : m.s \notin I} \cup {[m EXCEPT !.s = 0] : m \in {q \in wire : q.s \in I /\ q.st = "req"}}

\* Emit of step i with the record of g, whose session and files it leaves: sent, or put
\* back (unless another record was read since) and the step ends.
Emit(i, g, to, rest) ==
  LET w == g.got[1]
  IN  /\ disk' = g.d
      /\ \/ /\ agent /\ Fail(FALSE)
            /\ wire' = rest \cup {Msg(i, w, "req")}
            /\ steps' = [steps EXCEPT ![i] = [on |-> TRUE, rec |-> w, to |-> to]]
            /\ session' = g.s
         \/ /\ Fail(agent)
            /\ wire' = rest /\ steps' = [steps EXCEPT ![i] = NoStep]
            /\ session' = GoBack(g.s, w)

\* Session timer: SessionTimeout and Timeout.  A session without files is deleted, and
\* with it what was put back.
SessionTimeout ==
  /\ session.on
  /\ IF session.files = {}
     THEN /\ session' = NoSession /\ given' = given \cup Range(session.waitR)
          /\ UNCHANGED <<disk, steps, wire, fails>>
     ELSE /\ given' = given
          /\ \E x \in CheckWritingFile(session) :
               LET g == IF agent THEN GetSyncData(x) ELSE Nothing(x)
               IN  IF g.got = <<>>
                   THEN /\ session' = g.s /\ disk' = g.d
                        /\ UNCHANGED <<steps, wire, fails>>
                   ELSE LET free == {i \in StepIds : ~steps[i].on}
                        IN  free # {} /\ Emit(Min(free), g, 0, wire)
  /\ UNCHANGED <<now, direct, agent, crashes, applied, unsure, stored, refused, left>>

\* Callback with a connection error: the record is put back, the step ends.
CallbackNet(i, m) ==
  /\ m.st = "net"
  /\ session' = GoBack(session, m.rec)
  /\ given' = IF session.on /\ session.sending = Size[m.rec] THEN given ELSE given \cup {m.rec}
  /\ steps' = [steps EXCEPT ![i] = NoStep] /\ wire' = wire \ {m}
  /\ UNCHANGED <<disk, fails, refused>>

\* Callback otherwise: done, also when the database refused it; on with the next record.
CallbackDone(i, m) ==
  /\ m.st \in {"ok", "err"}
  /\ refused' = IF m.st = "err" THEN refused \cup {m.rec} ELSE refused
  /\ LET g == IF session.on THEN GetSyncData(session) ELSE Nothing(session)
     IN  IF g.got # <<>> THEN Emit(i, g, steps[i].to, wire \ {m})
         ELSE /\ session' = g.s /\ disk' = g.d /\ fails' = fails
              /\ steps' = [steps EXCEPT ![i] = NoStep] /\ wire' = wire \ {m}
  /\ given' = given

\* Callback with an answer that is no MemRsp: the step ends.
CallbackBad(i, m) ==
  /\ m.st = "bad"
  /\ steps' = [steps EXCEPT ![i] = NoStep] /\ wire' = wire \ {m}
  /\ given' = given \cup {m.rec}
  /\ UNCHANGED <<session, disk, fails, refused>>

Callback(i) ==
  /\ steps[i].on
  /\ \E m \in wire : m.s = i /\ (CallbackNet(i, m) \/ CallbackDone(i, m) \/ CallbackBad(i, m))
  /\ UNCHANGED <<now, direct, agent, crashes, applied, unsure, stored, left>>

\* Mutant: the record is put back before the step is given up.
StepTimeoutBack(i) ==
  /\ steps[i].on
  /\ IF steps[i].to < TimeOutMax
     THEN /\ steps' = [steps EXCEPT ![i].to = @ + 1]
          /\ UNCHANGED <<given, session, wire>>
     ELSE /\ steps' = [steps EXCEPT ![i] = NoStep] /\ session' = GoBack(session, steps[i].rec)
          /\ given' = given \cup {steps[i].rec} /\ wire' = Orphaned({i})
  /\ UNCHANGED <<now, disk, direct, agent, fails, crashes, applied, unsure, stored, refused, left>>

\* Mutant: the timeouts are counted, and nothing comes of it.
StepTimeoutOn(i) ==
  /\ steps[i].on
  /\ steps' = [steps EXCEPT ![i].to = @ + 1]
  /\ UNCHANGED <<now, disk, session, direct, wire, agent, fails, crashes, applied, unsure, stored, refused, given, left>>

\* Timeout: m_timeOut is never set back, the record is not put back.
StepTimeout(i) ==
  /\ steps[i].on
  /\ IF steps[i].to < TimeOutMax
     THEN steps' = [steps EXCEPT ![i].to = @ + 1] /\ UNCHANGED <<given, wire>>
     ELSE /\ steps' = [steps EXCEPT ![i] = NoStep] /\ wire' = Orphaned({i})
          /\ given' = given \cup {steps[i].rec}
  /\ UNCHANGED <<now, disk, session, direct, agent, fails, crashes, applied, unsure, stored, refused, left>>

-----------------------------------------------------------------------------
\* StepSendToDbAgent of a write.

\* SyncData of w, and ScanSyncData behind it when the step does so.
Store(w, scan) ==
  \E o \in SyncData(GetSessionSyncDbData, w) :
    /\ Fail(~o.ok)
    /\ disk' = o.d /\ session' = IF o.ok /\ scan THEN ScanSyncData(o.s, o.d) ELSE o.s
    /\ stored' = IF o.ok THEN stored \cup {w} ELSE stored
    /\ given' = IF o.ok /\ o.s.wgone THEN given \cup {w} ELSE given

\* Emit: sent, or kept in the file.
DbWrite(w) ==
  /\ direct[w] = "new" /\ now <= MaxMinute - 2
  /\ \/ /\ agent
        /\ direct' = [direct EXCEPT ![w] = "sent"] /\ wire' = wire \cup {Msg(0, w, "req")}
        /\ UNCHANGED <<disk, session, fails, stored, given>>
     \/ /\ ~agent
        /\ direct' = [direct EXCEPT ![w] = "done"] /\ wire' = wire
        /\ Store(w, FALSE)
  /\ UNCHANGED <<now, steps, agent, crashes, applied, unsure, refused, left>>

\* Callback: a connection error of a write that also went to redis puts it in the file.
DbCallback(w) ==
  /\ direct[w] = "sent" /\ direct' = [direct EXCEPT ![w] = "done"]
  /\ \E m \in wire : /\ m.s = 0 /\ m.rec = w /\ m.st # "req" /\ wire' = wire \ {m}
                     /\ IF m.st = "net" /\ w \in Both THEN Store(w, TRUE)
                        ELSE UNCHANGED <<disk, session, fails, stored, given>>
  /\ UNCHANGED <<now, steps, agent, crashes, applied, unsure, refused, left>>

\* Timeout: the client is told so, nothing is kept.
DbTimeout(w) ==
  /\ direct[w] = "sent" /\ direct' = [direct EXCEPT ![w] = "done"]
  /\ wire' = {m \in wire : m.rec = w => m.st = "req"}
  /\ UNCHANGED <<now, disk, session, steps, agent, fails, crashes, applied, unsure, stored, refused, given, left>>

-----------------------------------------------------------------------------
\* DbAgent, the network, the clock, the end of the Worker.

\* The messages a step waits for.
Awaited == {m \in wire : IF m.s = 0 THEN direct[m.rec] = "sent" ELSE steps[m.s].on}

\* DbAgent works on a request: applied; refused; the connection to the database is
\* lost, before the write or after it; or an answer nobody can read.
AgentAnswers ==
  /\ \E m \in {q \in wire : q.st = "req"}, st \in {"ok", "err", "net", "bad"}, done \in BOOLEAN :
       /\ st = "ok" => done
       /\ st \in {"err", "bad"} => ~done
       /\ Fail(st # "ok")
       /\ wire' = (wire \ {m}) \cup {[q EXCEPT !.st = st] : q \in {m} \cap Awaited}
       /\ applied' = [applied EXCEPT ![m.rec] = @ + IF done THEN 1 ELSE 0]
       /\ unsure' = [unsure EXCEPT ![m.rec] = @ + IF done /\ st = "net" THEN 1 ELSE 0]
  /\ UNCHANGED <<now, disk, session, steps, direct, agent, crashes, stored, refused, given, left>>

\* The nodes AGENT_W go (a failure) and come.
AgentFlips ==
  /\ agent' = ~agent /\ Fail(agent)
  /\ UNCHANGED <<now, disk, session, steps, direct, wire, crashes, applied, unsure, stored, refused, given, left>>

\* The clock; its last two minutes are for the files written before.
Tick ==
  /\ now < MaxMinute /\ now' = now + 1
  /\ now < MaxMinute - 2 \/ \A w \in Writes : direct[w] # "sent"
  /\ UNCHANGED <<disk, session, steps, direct, wire, agent, fails, crashes, applied, unsure, stored, refused, given, left>>

\* The records of the files.
OnDisk == UNION {Range(disk[f]) : f \in DOMAIN disk}

\* The records that are only in the Worker's memory.
InMemory == Range(session.waitR) \cup {steps[i].rec : i \in {j \in StepIds : steps[j].on}}

\* Mutant: a new Worker does not look for files.
CrashQuiet ==
  /\ crashes < MaxCrash /\ crashes' = crashes + 1 /\ left' = left \cup {now}
  /\ session' = NoSession /\ steps' = [i \in StepIds |-> NoStep]
  /\ direct' = [w \in Writes |-> IF direct[w] = "sent" THEN "done" ELSE direct[w]]
  /\ wire' = {m \in Orphaned(StepIds) : m.st = "req"}
  /\ given' = given \cup (InMemory \ OnDisk)
  /\ UNCHANGED <<now, disk, agent, fails, applied, unsure, stored, refused>>

\* The Worker ends and a new one starts: CmdDataProxy::Init has the files scanned.
Crash ==
  /\ crashes < MaxCrash /\ crashes' = crashes + 1 /\ left' = left \cup {now}
  /\ session' = IF DOMAIN disk = {} THEN NoSession ELSE ScanSyncData(SessionNew, disk)
  /\ steps' = [i \in StepIds |-> NoStep]
  /\ direct' = [w \in Writes |-> IF direct[w] = "sent" THEN "done" ELSE direct[w]]
  /\ wire' = {m \in Orphaned(StepIds) : m.st = "req"}
  /\ given' = given \cup (InMemory \ OnDisk)
  /\ UNCHANGED <<now, disk, agent, fails, applied, unsure, stored, refused>>

Next == \/ SessionTimeout \/ AgentAnswers \/ AgentFlips \/ Tick \/ Crash
        \/ \E i \in StepIds : Callback(i) \/ StepTimeout(i)
        \/ \E w \in Writes : DbWrite(w) \/ DbCallback(w) \/ DbTimeout(w)

Spec == Init /\ [][Next]_vars

\* The timers of libev fire and the clock goes on; nothing is assumed of DbAgent, of
\* the network or of the clients.
FairSpec ==
  /\ Spec
  /\ WF_vars(SessionTimeout) /\ WF_vars(Tick)
  /\ \A i \in StepIds : WF_vars(StepTimeout(i))
  /\ \A w \in Writes : WF_vars(DbTimeout(w))

-----------------------------------------------------------------------------
\* The shape of the state; a StepSyncToDb bears TimeOutMax timeouts over all the records
\* it sends (StepSyncToDb::Timeout), and no file is read past its end.
TypeOK ==
  /\ now \in Minutes /\ DOMAIN disk \subseteq Minutes /\ OnDisk \subseteq Writes
  /\ session.files \subseteq Minutes
  /\ session.wfile \in Minutes \cup {0} /\ session.wtime \in Minutes \cup {0}
  /\ session.rfile # 0 => /\ session.rfile \in session.files \cap DOMAIN disk
                          /\ session.roff \in 0 .. Len(disk[session.rfile])
  /\ ~session.on => session = NoSession
  /\ \A i \in StepIds : steps[i] = NoStep \/ steps[i] \in [on : {TRUE}, rec : Writes, to : 0 .. TimeOutMax]
  /\ wire \subseteq [s : StepIds \cup {0}, rec : Writes, st : {"req", "ok", "err", "net", "bad"}]

\* Reading and writing are kept apart: the file that is read is never the one SyncData
\* appends to, except one a Worker left behind that crashed in its very minute (the next
\* one reads it from its first timer on, and knows nothing of it being written).
Separate == session.rfile # 0 /\ session.rfile = session.wfile => session.rfile \in left

\* A write reaches the database once for each life of the Worker at most, and once more
\* for each time the database had done it and a connection error was answered: the
\* timer's own steps, the steps that go on from record to record, what is put back and
\* what is read again after a crash never send a record twice besides.
OncePerLife == \A w \in Writes : applied[w] <= 1 + crashes + unsure[w]

\* Nothing disappears in between: a write SyncData took has reached the database, was
\* refused by it, is in a file not read so far, put back, in a step, on its way, or was
\* given up at one of the places that do so (the fourth timeout, an answer that is no
\* MemRsp, a record put back after another one of another size was read or after the
\* session ended, the end of a session, a crash, a file unlinked while written to).
Unread == UNION {{disk[f][k] : k \in {n \in 1 .. Len(disk[f]) : f = session.rfile => n > session.roff}}
                 : f \in DOMAIN disk}
Kept == \A w \in stored \ (refused \cup given) :
          \/ applied[w] > 0
          \/ w \in Unread \cup InMemory

\* When DbAgent stays reachable the files are worked off, crashes or not.
Drains == <>[]agent => <>[](OnDisk = {})
=============================================================================
