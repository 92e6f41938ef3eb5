--------------------------- MODULE BenchmarkJobs ---------------------------
(***************************************************************************)
(* HandleBenchmarkRun of api/handler.go, behind the rate limiter: at most  *)
(* one benchmark runs at a time, in a goroutine that outlives the request; *)
(* the jobs are kept in a map and in a file that a restart reads back.     *)
(*                                                                         *)
(* save writes path.tmp and renames it to path.  Both names are shared by  *)
(* all saves, and an open file follows its rename, so a save in progress   *)
(* (Savers) remembers which name its file has by now.                      *)
(*                                                                         *)
(* A job's id is the tick of the clock it is started in, so two may share  *)
(* one.  "over" is the status "done" or "error".  Results are left out,    *)
(* and the handlers that only read.                                        *)
(***************************************************************************)
EXTENDS RateLimiter

CONSTANTS
  Requests,   \* POST /api/benchmark/run in progress at once
  Runner,     \* the goroutine of the active job
  Closer,     \* Shutdown
  MaxJobs,    \* how many jobs a start means to keep: 50 in the code
  SaveFails   \* whether writing the file may fail

ASSUME JobConstants ==
  /\ Runner \notin Requests /\ Closer \notin Requests /\ Runner # Closer
  /\ MaxJobs \in Nat \ {0}
  /\ SaveFails \in BOOLEAN

VARIABLES
  benchActive,  \* h.benchActive
  jobs,         \* h.benchJobs: id -> "running" or "over"
  path, tmp,    \* what the two files hold
  st,           \* where each process is, with its local variables
  closing,      \* whether Shutdown has begun: the server takes no requests
  most,         \* history: how many jobs are kept: MaxJobs, or as many as
                \* the process has read if they are more
  acked,        \* history: the jobs answered with 202 and not pruned
  ended,        \* history: those among them whose goroutine has returned
  atRisk        \* history: a save failed or two met, and none since made up
                \* for it

vars == <<now, limiterVars, benchActive, jobs, path, tmp, st, closing,
          most, acked, ended, atRisk>>

files == <<path, tmp>>
history == <<most, acked, ended, atRisk>>

Procs == Requests \cup {Runner, Closer}
Idle == [at |-> "idle"]
MaxOf(a, b) == IF a > b THEN a ELSE b
Goto(p, s) == st' = [st EXCEPT ![p] = s]

(* A file is absent, holds all of some jobs, or is cut short.              *)
NoFile == [is |-> "absent"]
Cut == [is |-> "cut"]
Full(js) == [is |-> "full", jobs |-> js]

NoJobs == [id \in {} |-> "running"]

Savers == {p \in Procs : st[p].at \in {"marshal", "open", "write", "rename"}}

Init ==
  /\ LimiterInit
  /\ benchActive = FALSE /\ jobs = NoJobs
  /\ path = NoFile /\ tmp = NoFile
  /\ st = [p \in Procs |-> Idle]
  /\ closing = FALSE
  /\ most = MaxJobs /\ acked = {} /\ ended = {} /\ atRisk = FALSE

---------------------------------------------------------------------------
(* Mutant: the slot is taken without looking.                              *)
PostTakesAlways(r, id) ==
  /\ st[r] = Idle /\ ~closing
  /\ Allow(id)
  /\ IF Allowed(id) THEN benchActive' = TRUE /\ Goto(r, [at |-> "validate"])
                    ELSE UNCHANGED <<benchActive, st>>
  /\ UNCHANGED <<now, jobs, files, closing, history>>

(* The request passes the limiter and takes the slot, or is sent away.     *)
Post(r, id) ==
  /\ st[r] = Idle /\ ~closing
  /\ Allow(id)
  /\ IF Allowed(id) /\ ~benchActive
       THEN benchActive' = TRUE /\ Goto(r, [at |-> "validate"])
       ELSE UNCHANGED <<benchActive, st>>
  /\ UNCHANGED <<now, jobs, files, closing, history>>

(* Mutant: one of the early returns keeps the slot.                        *)
RefuseKeepsSlot(r) ==
  /\ st[r].at = "validate"
  /\ Goto(r, Idle)
  /\ UNCHANGED <<now, limiterVars, benchActive, jobs, files, closing, history>>

(* The six early returns for a request that is not valid.                  *)
Refuse(r) ==
  /\ st[r].at = "validate"
  /\ benchActive' = FALSE
  /\ Goto(r, Idle)
  /\ UNCHANGED <<now, limiterVars, jobs, files, closing, history>>

(* persistBenchmarkJobs begins.                                            *)
Saving(p, id) == Goto(p, [at |-> "marshal", id |-> id])
Meets == atRisk' = (atRisk \/ Savers # {})

(* Mutant: jobs are never forgotten.                                       *)
PruneNever(js, id) == {}

(* The job to forget when there are too many: the oldest, if it is not the *)
(* new one.                                                                *)
Prune(js, id) ==
  IF Cardinality(DOMAIN js) > MaxJobs THEN {Min(DOMAIN js)} \ {id} ELSE {}

(* The new job is stored first, under the id of another if the two share   *)
(* one,                                                                    *)
StoreJob(r) ==
  /\ st[r].at = "validate"
  /\ jobs' = Update(jobs, now, "running")
  /\ Goto(r, [at |-> "prune", id |-> now])
  /\ acked' = acked \ {now} /\ ended' = ended \ {now}
  /\ UNCHANGED <<now, limiterVars, benchActive, files, closing, most, atRisk>>

(* and then at most one is forgotten: in between the map, and a save by    *)
(* Shutdown, may hold one more.                                            *)
PruneJobs(r) ==
  /\ st[r].at = "prune"
  /\ LET old == Prune(jobs, st[r].id)
     IN /\ jobs' = Keep(jobs, LAMBDA x : x \notin old)
        /\ acked' = acked \ old /\ ended' = ended \ old
  /\ Saving(r, st[r].id)
  /\ Meets
  /\ UNCHANGED <<now, limiterVars, benchActive, files, closing, most>>

---------------------------------------------------------------------------
(* The goroutine: the run returns, or panics and is recovered.  Both write *)
(* the job's status, if the job is still there, and save.                  *)
RunEnds ==
  /\ st[Runner].at = "run"
  /\ LET id == st[Runner].id
     IN /\ jobs' = IF id \in DOMAIN jobs THEN [jobs EXCEPT ![id] = "over"] ELSE jobs
        /\ Saving(Runner, id)
  /\ Meets
  /\ UNCHANGED <<now, limiterVars, benchActive, files, closing, most, acked, ended>>

(* Shutdown saves the jobs too; it does not wait for the goroutine.        *)
Shutdown ==
  /\ ~closing /\ closing' = TRUE
  /\ Saving(Closer, 0)
  /\ Meets
  /\ UNCHANGED <<now, limiterVars, benchActive, jobs, files, most, acked, ended>>

---------------------------------------------------------------------------
(* save marshals the jobs as they are now,                                 *)
SaveMarshal(p) ==
  /\ st[p].at = "marshal"
  /\ Goto(p, [at |-> "open", data |-> jobs, id |-> st[p].id])
  /\ UNCHANGED <<now, limiterVars, benchActive, jobs, files, closing, history>>

(* os.WriteFile opens path.tmp and truncates it,                           *)
SaveOpen(p) ==
  /\ st[p].at = "open"
  /\ tmp' = Cut
  /\ Goto(p, [at |-> "write", data |-> st[p].data, id |-> st[p].id, file |-> "tmp"])
  /\ UNCHANGED <<now, limiterVars, benchActive, jobs, path, closing, history>>

(* then writes the data: all of the file, unless another save wrote more.  *)
Written(old, js) == IF old = Cut THEN {Full(js)} ELSE {Full(js), Cut}

SaveWrite(p) ==
  /\ st[p].at = "write"
  /\ \/ st[p].file = "tmp" /\ tmp' \in Written(tmp, st[p].data) /\ UNCHANGED path
     \/ st[p].file = "path" /\ path' \in Written(path, st[p].data) /\ UNCHANGED tmp
  /\ Goto(p, [at |-> "rename", id |-> st[p].id])
  /\ UNCHANGED <<now, limiterVars, benchActive, jobs, closing, history>>

(* What follows a save, whether it failed or not.  The request starts the  *)
(* goroutine and answers 202; the goroutine gives back the slot.           *)
Saved(p, moved) ==
  /\ st' = [q \in Procs |->
              IF q = p THEN IF p = Closer THEN [at |-> "down"] ELSE Idle
              ELSE IF q = Runner /\ p \in Requests THEN [at |-> "run", id |-> st[p].id]
              ELSE IF moved /\ st[q].at = "write" THEN [st[q] EXCEPT !.file = "path"]
              ELSE st[q]]
  /\ benchActive' = (benchActive /\ p # Runner)
  /\ acked' = IF p \in Requests THEN acked \cup {st[p].id} ELSE acked
  /\ ended' = IF p = Runner THEN ended \cup ({st[p].id} \cap acked) ELSE ended
  /\ UNCHANGED <<now, limiterVars, jobs, closing, most>>

(* Mutant: the rename is forgotten.                                        *)
SaveRenameNot(p) ==
  /\ st[p].at = "rename"
  /\ Saved(p, FALSE)
  /\ atRisk' = (atRisk /\ Savers # {p})
  /\ UNCHANGED files

(* os.Rename; if another save has renamed the file already, it fails.      *)
SaveRename(p) ==
  /\ st[p].at = "rename"
  /\ IF tmp = NoFile THEN UNCHANGED files ELSE path' = tmp /\ tmp' = NoFile
  /\ Saved(p, tmp # NoFile)
  /\ atRisk' = (atRisk /\ (Savers # {p} \/ tmp # Full(jobs)))

(* A failure is logged and the file is left as it is.                      *)
SaveErrs(p) ==
  /\ SaveFails /\ p \in Savers
  /\ Saved(p, FALSE)
  /\ atRisk' = TRUE
  /\ UNCHANGED files

---------------------------------------------------------------------------
(* What load finds: nothing, if the file is absent or cannot be parsed.    *)
load == IF path.is = "full" THEN path.jobs ELSE NoJobs

(* The process ends, by a crash or after Shutdown, and starts again.       *)
Restart ==
  /\ jobs' = load /\ most' = MaxOf(MaxJobs, Cardinality(DOMAIN load))
  /\ benchActive' = FALSE
  /\ st' = [p \in Procs |-> Idle]
  /\ closing' = FALSE
  /\ acked' = acked \cap DOMAIN jobs'
  /\ ended' = {id \in ended \cap DOMAIN jobs' : jobs'[id] # "running"}
  /\ atRisk' = FALSE
  /\ LimiterRestart
  /\ UNCHANGED <<now, files>>

Wait ==
  /\ Tick
  /\ UNCHANGED <<benchActive, jobs, files, st, closing, history>>

Request(r) == Refuse(r) \/ StoreJob(r) \/ PruneJobs(r)

Save(p) == SaveMarshal(p) \/ SaveOpen(p) \/ SaveWrite(p) \/ SaveRename(p) \/ SaveErrs(p)

Next ==
  \/ \E r \in Requests : Request(r) \/ \E id \in Ids : Post(r, id)
  \/ RunEnds
  \/ Shutdown
  \/ \E p \in Procs : Save(p)
  \/ Restart
  \/ Wait

Spec == Init /\ [][Next]_vars

(* Handlers and goroutines run, and a benchmark takes a bounded time.      *)
FairSpec ==
  /\ Spec
  /\ \A r \in Requests : WF_vars(Request(r))
  /\ WF_vars(RunEnds)
  /\ \A p \in Procs : WF_vars(Save(p))

---------------------------------------------------------------------------
IsJobs(js) ==
  /\ js \in [DOMAIN js -> {"running", "over"}]
  /\ DOMAIN js \subseteq 0 .. MaxTime
IsFile(f) == f \in {NoFile, Cut} \/ IsJobs(f.jobs)

FewJobs ==
  /\ \/ Cardinality(DOMAIN jobs) <= most
     \/ Cardinality(DOMAIN jobs) <= most + 1 /\ \E r \in Requests : st[r].at = "prune"
  /\ path.is = "full" => Cardinality(DOMAIN path.jobs) <= most + 1

(* Type invariant, with the bound that pruning really gives.  A start      *)
(* forgets one job at most, and stores before it forgets: in memory there  *)
(* are never more than most jobs, one more while a start is between the    *)
(* two, and that one more may reach the file, when Shutdown saves just     *)
(* then, and be loaded.  MaxJobs itself (handler.go:600, "keep at most     *)
(* 50") is not kept across such a restart.                                 *)
TypeOK ==
  /\ now \in 0 .. MaxTime
  /\ benchActive \in BOOLEAN /\ closing \in BOOLEAN /\ atRisk \in BOOLEAN
  /\ most \in Nat
  /\ IsJobs(jobs) /\ IsFile(path) /\ IsFile(tmp)
  /\ \A p \in Procs : st[p].at \in {"idle", "validate", "prune", "run", "marshal", "open", "write", "rename", "down"}
  /\ acked \subseteq DOMAIN jobs /\ ended \subseteq acked
  /\ FewJobs

(* The requests and the goroutine that must give back benchActive.         *)
Holders == {r \in Requests \cup {Runner} : st[r] # Idle}

(* benchActive is held by exactly one request or goroutine when it is set, *)
(* and by none when it is not: through every early return, failed save and *)
(* panic no two benchmarks run at once and the slot is never leaked.       *)
SlotIsHeld == Cardinality(Holders) = IF benchActive THEN 1 ELSE 0

(* A restart finds every job a client was told of (and that was not pruned *)
(* since), and its outcome once its goroutine has ended: todo.md, "Persist *)
(* benchmark job state to disk with atomic file replacement".  This holds  *)
(* but for a save that failed, or that met the one of Shutdown, until the  *)
(* next save that does not.                                                *)
AckedSurvive ==
  ~atRisk =>
    \A id \in acked :
      /\ path.is = "full" /\ id \in DOMAIN path.jobs
      /\ id \in ended => path.jobs[id] # "running"

(* A benchmark that is running ends, and the next one can start.           *)
SlotFreed == benchActive ~> ~benchActive
===========================================================================
