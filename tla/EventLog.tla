------------------------------- MODULE EventLog -------------------------------
(***************************************************************************)
(* JsonlEventStore: the server, cron jobs and scripts append to one file   *)
(* under a lock directory, events.jsonl.lock, that holds the nonce of its  *)
(* owner.  A writer is one call of append() or appendEnvelope(), which run *)
(* the same code; every file system call is a step of its own, because     *)
(* writers of other processes run in between.                              *)
(***************************************************************************)
EXTENDS Naturals, Sequences, FiniteSets

CONSTANTS
  Writers,    \* calls of append(), each with one event and one nonce
  NoWriter,   \* no owner file
  BigWriters, \* writers whose line is longer than one write of appendFile
  Prompt,     \* TRUE: a live owner never holds the lock for more than 5 s
  Kills       \* bound: how many writers may be terminated

ASSUME WriterAssumption == NoWriter \notin Writers /\ BigWriters \subseteq Writers
ASSUME KillAssumption == Prompt \in BOOLEAN /\ Kills \in Nat

VARIABLES
  log,    \* events.jsonl: what each write appended
  dir,    \* the lock directory exists
  owner,  \* the nonce in its owner file
  old,    \* the owner file was written more than 5 s ago
  pc,     \* where each call is
  kills,  \* remaining terminations
  robbed  \* history variable: a thief has removed the lock of a live writer

lock == <<dir, owner, old>>
vars == <<log, lock, pc, kills, robbed>>

Acquiring == {"mkdir", "owner", "stat", "steal", "stealdir"}
Holding == {"write", "rest", "check", "release", "releasedir"}
Ended == {"acked", "failed", "killed"}
PCs == {"idle"} \cup Acquiring \cup Holding \cup Ended

Chunk == [event : Writers, part : {1, 2}]

Init ==
  /\ log = <<>>
  /\ dir = FALSE /\ owner = NoWriter /\ old = FALSE
  /\ pc = [w \in Writers |-> "idle"]
  /\ kills = Kills
  /\ robbed = FALSE

Goto(w, l) == pc' = [pc EXCEPT ![w] = l]

Call(w) ==
  /\ pc[w] = "idle"
  /\ Goto(w, "mkdir")
  /\ UNCHANGED <<log, lock, kills, robbed>>

\* Mutant: mkdir with { recursive: true }, which does not fail for a directory that exists.
MkdirRecursive(w) ==
  /\ pc[w] = "mkdir"
  /\ dir' = TRUE
  /\ Goto(w, "owner")
  /\ UNCHANGED <<log, owner, old, kills, robbed>>

Mkdir(w) ==
  /\ pc[w] = "mkdir"
  /\ dir' = TRUE
  /\ Goto(w, IF dir THEN "stat" ELSE "owner")
  /\ UNCHANGED <<log, owner, old, kills, robbed>>

\* The directory may have been removed, and even made again, since the mkdir: writeFile
\* then fails with ENOENT, which append() throws, or replaces another writer's nonce.
WriteOwner(w) ==
  /\ pc[w] = "owner"
  /\ \/ dir /\ owner' = w /\ old' = FALSE /\ Goto(w, "write")
     \/ ~dir /\ Goto(w, "failed") /\ UNCHANGED <<owner, old>>
  /\ UNCHANGED <<log, dir, kills, robbed>>

\* Mutant: a directory without an owner file is not stale.
StatOwnerFile(w) ==
  /\ pc[w] = "stat"
  /\ Goto(w, IF owner # NoWriter /\ old THEN "steal" ELSE "mkdir")
  /\ UNCHANGED <<log, lock, kills, robbed>>

\* A missing owner file has mtime 0, so it counts as stale.
StatOwner(w) ==
  /\ pc[w] = "stat"
  /\ Goto(w, IF owner = NoWriter \/ old THEN "steal" ELSE "mkdir")
  /\ UNCHANGED <<log, lock, kills, robbed>>

\* fs.rm of the directory: rmdir if it is empty, otherwise unlink the owner file and then
\* rmdir, which fails if a new owner file has appeared; no caller looks at the failure.
Remove(w, at, then, done) ==
  \/ /\ pc[w] = at /\ owner # NoWriter
     /\ owner' = NoWriter
     /\ Goto(w, then)
     /\ UNCHANGED <<log, dir, old, kills>>
  \/ /\ pc[w] = at /\ owner = NoWriter
     /\ dir' = FALSE
     /\ Goto(w, done)
     /\ UNCHANGED <<log, owner, old, kills>>
  \/ /\ pc[w] = then
     /\ dir' = (owner # NoWriter)
     /\ Goto(w, done)
     /\ UNCHANGED <<log, owner, old, kills>>

\* The writers between their mkdir and the end of their own rm.
Inside == {"owner"} \cup Holding

\* Nothing ties the rm to the owner file that was found stale: meanwhile the lock may have
\* been released, and taken by another writer.
Steal(w) ==
  /\ Remove(w, "steal", "stealdir", "mkdir")
  /\ robbed' = (robbed \/ (lock' # lock /\ \E v \in Writers \ {w} : pc[v] \in Inside))

\* appendFile: one write, or two for a line longer than its chunk size.
Write(w) ==
  /\ pc[w] = "write"
  /\ log' = Append(log, [event |-> w, part |-> 1])
  /\ Goto(w, IF w \in BigWriters THEN "rest" ELSE "check")
  /\ UNCHANGED <<lock, kills, robbed>>

WriteRest(w) ==
  /\ pc[w] = "rest"
  /\ log' = Append(log, [event |-> w, part |-> 2])
  /\ Goto(w, "check")
  /\ UNCHANGED <<lock, kills, robbed>>

\* Mutant: an owner whose lock has become stale leaves it to be stolen.
CheckFreshOwner(w) ==
  /\ pc[w] = "check"
  /\ Goto(w, IF owner = w /\ ~old THEN "release" ELSE "acked")
  /\ UNCHANGED <<log, lock, kills, robbed>>

\* Release only if the nonce is still the writer's own.
CheckOwner(w) ==
  /\ pc[w] = "check"
  /\ Goto(w, IF owner = w THEN "release" ELSE "acked")
  /\ UNCHANGED <<log, lock, kills, robbed>>

Release(w) == Remove(w, "release", "releasedir", "acked") /\ UNCHANGED robbed

Step(w) ==
  \/ Mkdir(w) \/ WriteOwner(w) \/ StatOwner(w) \/ Steal(w)
  \/ Write(w) \/ WriteRest(w) \/ CheckOwner(w) \/ Release(w)

\* Five seconds pass since the owner file was written.
Age ==
  /\ owner # NoWriter /\ ~old
  /\ Prompt => pc[owner] \notin Holding
  /\ old' = TRUE
  /\ UNCHANGED <<log, dir, owner, pc, kills, robbed>>

\* SIGKILL, or the end of the process.
Kill(w) ==
  /\ pc[w] \in Acquiring \cup Holding
  /\ kills > 0 /\ kills' = kills - 1
  /\ Goto(w, "killed")
  /\ UNCHANGED <<log, lock, robbed>>

Next == Age \/ \E w \in Writers : Call(w) \/ Step(w) \/ Kill(w)

Spec == Init /\ [][Next]_vars

\* Every process runs on, and so does the clock.
FairSpec == Spec /\ WF_vars(Age) /\ \A w \in Writers : WF_vars(Step(w))
-----------------------------------------------------------------------------
(* Properties                                                              *)

TypeOK ==
  /\ log \in Seq(Chunk)
  /\ dir \in BOOLEAN /\ old \in BOOLEAN
  /\ owner \in Writers \cup {NoWriter}
  /\ owner # NoWriter => dir
  /\ pc \in [Writers -> PCs]
  /\ kills \in 0 .. Kills /\ robbed \in BOOLEAN

\* Whatever was stolen from whom, the lock directory is gone once every call has ended:
\* the nonce left in it belongs to a writer that has yet to look, unless one was killed.
LockSettles ==
  kills = Kills /\ (\A w \in Writers : pc[w] \in Ended \cup {"idle"}) => ~dir

\* A call ends, although writers are killed at any step and leave their lock behind
\* (jsonl-store.js: "Lock is stale-safe: breaks after 5s").
AppendsEnd == \A w \in Writers : pc[w] = "mkdir" ~> pc[w] \in Ended

\* Why LockSettles holds: somebody is responsible for the lock directory, the writer whose
\* nonce it holds or, without an owner file, one that is about to write it or to remove it.
LockAwaited ==
  kills = Kills /\ dir =>
    IF owner = NoWriter
    THEN \E w \in Writers : pc[w] \in {"owner", "stealdir", "releasedir"}
    ELSE pc[owner] \in {"write", "rest", "check", "release"}

\* A long line is written in two pieces, and the lock keeps other writers from between them
\* (jsonl-store.js: "O_APPEND alone tore a line under concurrency, so serialize appends with
\* a spin lock"), with one exception that the code has: a thief that takes the lock of a live
\* writer.  It may, because a lock whose owner file is not there yet, or no longer, counts as
\* stale, and because its rm may come long after the look at the file.  Neither a mkdir nor a
\* release, nor a theft from the dead, ever lets a second writer in.
LinesAreWhole ==
  robbed \/ \A i \in DOMAIN log : log[i].part = 2 =>
    i > 1 /\ log[i - 1] = [event |-> log[i].event, part |-> 1]

\* Why LinesAreWhole holds: the writer inside is alone there, and the directory is its own.
OneInside ==
  robbed \/
    /\ \A v, w \in Writers : pc[v] \in Inside /\ pc[w] \in Inside => v = w
    /\ \A w \in Writers :
         /\ pc[w] \in Inside => dir
         /\ pc[w] = "rest" => log # <<>> /\ log[Len(log)] = [event |-> w, part |-> 1]
=============================================================================
