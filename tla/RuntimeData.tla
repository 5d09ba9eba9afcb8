----------------------------- MODULE RuntimeData -----------------------------
(***************************************************************************)
(* The directories of a runtime: the binding that ties a data directory to *)
(* one project or organisation (packages/storage/configuration-scope.ts    *)
(* and runtime-scope.ts, which work the same way) and the offline backup   *)
(* and restore of packages/storage/runtime-snapshot.ts, which copy into a  *)
(* staging directory and publish it with one rename.                       *)
(*                                                                         *)
(* Nothing keeps a runtime from writing while a backup reads, two backups  *)
(* from having one destination, a runtime from starting where a restore is *)
(* about to publish, or a process from dying at any step.  The version of  *)
(* a database stands for its size, hash, inode and times.  Paths, symbolic *)
(* links, sidecars, size limits and SQLite's integrity check show as       *)
(* refusals; snapshots without a binding file are left out.                *)
(***************************************************************************)
EXTENDS Integers, FiniteSets

CONSTANTS
    Databases,   \* the databases of a profile
    Bindings,    \* bindings of different projects
    Backups,     \* backup jobs, from "data" to "copy"
    Restores,    \* restore jobs, from "copy" to "restored"
    Starts,      \* starts of runtimes, on "data" or "restored"
    Rosters,     \* bound: which jobs and starts there are together
    MaxWrites,   \* bound: versions of a database
    MaxFaults,   \* bound: crashes, refusals, bad copies, decay of a snapshot
    None, Torn, Bad

VARIABLES
    dir,      \* path -> None, or who made it and its files
    job,      \* job -> its step, what it knows of each file, its staging
    boot,     \* start -> its step, path and binding
    moments,  \* the contents "data" had at any time
    faults

vars == <<dir, job, boot, moments, faults>>

Jobs == Backups \union Restores
Files == Databases \union {"binding"}
Empty == [e \in Files \union {"manifest"} |-> None]

From(j) == IF j \in Backups THEN "data" ELSE "copy"
To(j) == IF j \in Backups THEN "copy" ELSE "restored"

Exists(p) == dir[p] # None
Holds(p) == dir[p].files
Contents(files) == [f \in Files |-> files[f]]

Trouble == faults < MaxFaults /\ faults' = faults + 1
Calm == UNCHANGED faults

------------------------------------------------------------------------------
(* Starting a runtime: ensureConfigurationScope, before anything is opened. *)

BootAt(s, at) == boot' = [boot EXCEPT ![s].at = at]

\* A missing directory is made; an unbound one must be empty, a bound one must
\* have the same binding.
Look(s, p, b) ==
    /\ boot[s].at = "new"
    /\ LET files == IF Exists(p) THEN Holds(p) ELSE Empty IN
       boot' = [boot EXCEPT ![s] =
         [path |-> p, binding |-> b,
          at |-> IF files.binding = b THEN "bound"
                 ELSE IF files = Empty THEN "empty" ELSE "failed"]]
    /\ dir' = IF Exists(p) THEN dir ELSE [dir EXCEPT ![p] = [by |-> s, files |-> Empty]]
    /\ Calm /\ UNCHANGED <<job, moments>>

\* Fault: the file is written whether it is there or not.
Anywhere(p) == Exists(p)

\* O_EXCL: the binding is written by one process only.
Unbound(p) == Exists(p) /\ Holds(p).binding = None

WriteBinding(s) ==
    /\ boot[s].at = "empty"
    /\ LET p == boot[s].path IN
       IF ~Unbound(p) THEN BootAt(s, "failed") /\ Calm /\ UNCHANGED dir
       ELSE \/ /\ dir' = [dir EXCEPT ![p].files.binding = boot[s].binding]
               /\ BootAt(s, "bound") /\ Calm
            \/ /\ Trouble /\ BootAt(s, "failed")
               /\ dir' = [dir EXCEPT ![p].files.binding = Torn]
    /\ UNCHANGED <<job, moments>>

Remember(files) ==
    moments' = moments \union {Contents(files)}

OpenDatabases(s) ==
    /\ boot[s].at = "bound" /\ Exists(boot[s].path)
    /\ LET p == boot[s].path
           files == [e \in DOMAIN Empty |->
                       IF e \in Databases /\ Holds(p)[e] = None THEN 1 ELSE Holds(p)[e]] IN
       /\ dir' = [dir EXCEPT ![p].files = files]
       /\ IF p = "data" THEN Remember(files) ELSE UNCHANGED moments
    /\ BootAt(s, "serving") /\ Calm /\ UNCHANGED job

Write(s, d) ==
    /\ boot[s].at = "serving"
    /\ LET p == boot[s].path IN
       /\ Holds(p)[d] < MaxWrites
       /\ dir' = [dir EXCEPT ![p].files[d] = @ + 1]
       /\ IF p = "data" THEN Remember([Holds(p) EXCEPT ![d] = @ + 1]) ELSE UNCHANGED moments
    /\ Calm /\ UNCHANGED <<job, boot>>

Stop(s) ==
    /\ boot[s].at = "serving" /\ BootAt(s, "stopped")
    /\ Calm /\ UNCHANGED <<dir, job, moments>>

------------------------------------------------------------------------------
(* Jobs.  Each pass takes its files one by one, in the order of their names; *)
(* what is known of a file must not change from one pass to the next.        *)

\* A backup inventories twice, copies, inventories twice more and validates the
\* copies; a restore validates the snapshot, copies, validates the copies and
\* validates the snapshot again.
Steps(j) ==
    IF j \in Backups THEN <<"read", "reread", "copy", "check", "recheck", "validate", "reserve">>
    ELSE <<"read", "copy", "validate", "check", "reserve">>

Following(j) ==
    LET n == CHOOSE i \in DOMAIN Steps(j) : Steps(j)[i] = job[j].at IN Steps(j)[n + 1]

\* The destination is missing, the source complete, and of one binding; the
\* manifest of a snapshot says what its files have to be.
Begin(j) ==
    /\ job[j].at = "new" /\ ~Exists(To(j)) /\ Exists(From(j))
    /\ \A f \in Files : Holds(From(j))[f] \notin {None, Torn}
    /\ j \in Restores => Holds(From(j)).manifest # None
    /\ job' = [job EXCEPT ![j].at = "read", ![j].left = Files,
                 ![j].known = IF j \in Backups THEN Contents(Empty) ELSE Holds(From(j)).manifest]
    /\ Calm /\ UNCHANGED <<dir, boot, moments>>

\* One file of the pass is done: the next pass follows the last one.
Did(j, f, r) ==
    LET rest == job[j].left \ {f} IN
    job' = [job EXCEPT ![j] =
              IF rest = {} THEN [r EXCEPT !.at = Following(j), !.left = Files]
              ELSE [r EXCEPT !.left = rest]]

NextFile(j) == CHOOSE f \in job[j].left : TRUE

Ended(j, at) ==
    job' = [job EXCEPT ![j] = [at |-> at, left |-> {}, known |-> Contents(Empty), staging |-> Empty]]

Discard(j) == Ended(j, "failed")

\* inventoryFile, hashFile, sameInventory, validateCopiedFile.
Read(j) ==
    /\ job[j].at \in {"read", "reread", "check", "recheck"}
    /\ LET f == NextFile(j)
           now == IF Exists(From(j)) THEN Holds(From(j))[f] ELSE None IN
       IF now # None /\ job[j].known[f] \in {None, now}
       THEN Did(j, f, [job[j] EXCEPT !.known[f] = now])
       ELSE Discard(j)
    /\ Calm /\ UNCHANGED <<dir, boot, moments>>

Copy(j) ==
    /\ job[j].at = "copy"
    /\ LET f == NextFile(j) IN
       IF ~Exists(From(j)) THEN Discard(j) /\ Calm
       ELSE \/ Did(j, f, [job[j] EXCEPT !.staging[f] = Holds(From(j))[f]]) /\ Calm
            \/ Did(j, f, [job[j] EXCEPT !.staging[f] = Bad]) /\ Trouble
    /\ UNCHANGED <<dir, boot, moments>>

AsKnown(j, f) == job[j].staging[f] = job[j].known[f]

Validate(j) ==
    /\ job[j].at = "validate"
    /\ IF AsKnown(j, NextFile(j)) THEN Did(j, NextFile(j), job[j]) ELSE Discard(j)
    /\ Calm /\ UNCHANGED <<dir, boot, moments>>

------------------------------------------------------------------------------
(* publishStaging: an empty directory reserves the destination, the staging *)
(* directory is renamed over it, and a reservation still empty is removed.  *)

Reserve(j) ==
    /\ job[j].at = "reserve"
    /\ IF Exists(To(j)) THEN Discard(j) /\ UNCHANGED dir
       ELSE /\ dir' = [dir EXCEPT ![To(j)] = [by |-> j, files |-> Empty]]
            /\ job' = [job EXCEPT ![j].at = "publish", ![j].staging.manifest = job[j].known]
    /\ Calm /\ UNCHANGED <<boot, moments>>

\* The reservation is this job's and empty; rename refuses a full directory.
StillReserved(j) ==
    Exists(To(j)) /\ dir[To(j)].by = j /\ Holds(To(j)) = Empty

Publish(j) ==
    /\ job[j].at = "publish"
    /\ IF StillReserved(j)
       THEN /\ dir' = [dir EXCEPT ![To(j)] = [by |-> None, files |-> job[j].staging]]
            /\ Ended(j, "done")
       ELSE Discard(j) /\ UNCHANGED dir
    /\ Calm /\ UNCHANGED <<boot, moments>>

\* Any refusal or error of a step: staging is cleaned, an own empty reservation
\* removed.  A crash leaves both behind.
Refuse(j) ==
    /\ job[j].at \notin {"absent", "new", "done", "failed", "crashed"} /\ Trouble
    /\ \/ /\ Discard(j)
          /\ dir' = IF job[j].at = "publish" /\ StillReserved(j)
                    THEN [dir EXCEPT ![To(j)] = None] ELSE dir
       \/ Ended(j, "crashed") /\ UNCHANGED dir
    /\ UNCHANGED <<boot, moments>>

\* An operator removes an empty leftover; a snapshot on disk goes bad.
Tidy(p) ==
    /\ p # "data" /\ Exists(p) /\ Holds(p) = Empty /\ Trouble
    /\ dir' = [dir EXCEPT ![p] = None]
    /\ UNCHANGED <<job, boot, moments>>

Decay(d) ==
    /\ Exists("copy") /\ Holds("copy")[d] \notin {None, Bad} /\ Trouble
    /\ dir' = [dir EXCEPT !["copy"].files[d] = Bad]
    /\ UNCHANGED <<job, boot, moments>>

Init ==
    /\ dir = [p \in {"data", "copy", "restored"} |-> None]
    /\ \E roster \in Rosters :
         /\ job = [j \in Jobs |-> [at |-> IF j \in roster THEN "new" ELSE "absent", left |-> {},
                                  known |-> Contents(Empty), staging |-> Empty]]
         /\ boot = [s \in Starts |-> [at |-> IF s \in roster THEN "new" ELSE "absent",
                                      path |-> None, binding |-> None]]
    /\ moments = {} /\ faults = 0

Next ==
    \/ \E s \in Starts :
         \/ \E p \in {"data", "restored"}, b \in Bindings : Look(s, p, b)
         \/ WriteBinding(s) \/ OpenDatabases(s) \/ Stop(s)
         \/ \E d \in Databases : Write(s, d)
    \/ \E j \in Jobs :
         \/ Begin(j) \/ Read(j) \/ Copy(j) \/ Validate(j)
         \/ Reserve(j) \/ Publish(j) \/ Refuse(j)
    \/ \E p \in {"copy", "restored"} : Tidy(p)
    \/ \E d \in Databases : Decay(d)

Spec == Init /\ [][Next]_vars

------------------------------------------------------------------------------
(* Properties. *)

\* A directory becomes a snapshot or a restored runtime in one step and whole: a
\* snapshot holds what the source held at one moment, although the runtime may
\* write during the backup, a restored directory what its manifest says, although
\* the snapshot may go bad meanwhile (createRuntimeSnapshot, restoreRuntimeSnapshot).
PublishedWhole ==
    [][\A j \in Jobs : job[j].at # "done" /\ job'[j].at = "done" =>
         LET files == dir'[To(j)].files IN
         /\ files.manifest = Contents(files)
         /\ j \in Backups => Contents(files) \in moments
         /\ j \in Restores => Contents(files) \in moments]_vars

\* What is in a directory is not replaced or removed by another job, and a runtime
\* serves under the binding its directory has: two starts, or a start and a
\* restore, never mix two projects (publishStaging, writeBinding).
NothingReplaced ==
    [][/\ \A p \in DOMAIN dir, f \in Files :
            Exists(p) /\ Holds(p)[f] # None =>
              /\ dir'[p] # None /\ dir'[p].files[f] # None
              /\ f = "binding" => dir'[p].files[f] = Holds(p)[f]
       /\ \A s \in Starts : boot'[s].at = "serving" =>
            dir'[boot'[s].path].files.binding = boot'[s].binding]_vars

\* Directories appear whole and are never mixed (publishStaging, writeBinding).
DataWhole == PublishedWhole /\ NothingReplaced
==============================================================================
