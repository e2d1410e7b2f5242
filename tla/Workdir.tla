------------------------------ MODULE Workdir ------------------------------
(***************************************************************************)
(* The temporary directory of a job: Pipeline, whose every step is kept,   *)
(* with the files its stages write and the rmtree of run_job's finally.    *)
(*                                                                         *)
(* Conversions, merge and assembly write their file in a worker thread     *)
(* (asyncio.to_thread).  A cancellation abandons the await, not the        *)
(* thread, which goes on while the event loop is inside rmtree.            *)
(***************************************************************************)
EXTENDS Pipeline

VARIABLES
  dir,      \* "none", "present", "emptied" by rmtree, "removed", or "left"
  file,     \* is there an entry in it that rmtree has not unlinked?
  thread,   \* the thread last started: "none", "started" or "returned"
  torn      \* history: rmtree began before the thread had written its file

workdir == <<dir, file, thread, torn>>

Writing == {"convert", "merge", "assemble"}

WorkdirInit ==
  Init /\ dir = "none" /\ file = FALSE /\ thread = "none" /\ torn = FALSE

-----------------------------------------------------------------------------
\* run_job starts: mkdtemp.
Created == at = "queued" /\ at' = "capture"
           /\ dir' = "present" /\ UNCHANGED <<file, thread, torn>>

RemovedOnSuccess ==                                             \* mutant
  IF status' = "completed" THEN dir' = "removed" /\ file' = FALSE
                           ELSE UNCHANGED <<dir, file>>

\* The finally of a run that no one aborted: no thread is left to interfere.
Removed == dir' = "removed" /\ file' = FALSE

\* The last call of rmtree is an rmdir, which fails if there is an entry.
Rmdir == dir' = IF file THEN "left" ELSE "removed"

RunOver ==
  /\ Active /\ ~Active'
  /\ IF cancelling = "no"
       THEN Removed /\ thread' = "none"
       ELSE dir = "emptied" /\ Rmdir /\ UNCHANGED <<file, thread>>
  /\ UNCHANGED torn

\* A file is used when the thread that writes it has returned; a page of a
\* spread is written by run_job itself.  The next stage starts its own thread.
RunGoesOn ==
  /\ Active /\ Active' /\ dir = "present"
  /\ page_pdfs' # page_pdfs \/ merged' # merged => thread = "returned"
  /\ thread' = IF at' \in Writing /\ (at' # at \/ page_pdfs' # page_pdfs)
                 THEN "started" ELSE thread
  /\ file' = (file \/ page_pngs' # page_pngs)
  /\ UNCHANGED <<dir, torn>>

\* Steps of others: none on the event loop, which rmtree blocks.
Elsewhere ==
  /\ (~Active /\ at' # "capture") \/ (put' # put /\ at' = at)
  /\ UNCHANGED workdir

-----------------------------------------------------------------------------
\* The thread writes its file, if it still finds the directory.
ThreadWrites ==
  /\ thread = "started"
  /\ thread' = "returned"
  /\ file' = (file \/ dir \in {"present", "emptied"})
  /\ UNCHANGED <<vars, dir, torn>>

\* The cancelled run unwinds to rmtree, which unlinks all entries it finds.
Rmtree ==
  /\ Active /\ cancelling # "no" /\ dir = "present"
  /\ dir' = "emptied" /\ file' = FALSE
  /\ torn' = (thread = "started")
  /\ UNCHANGED <<vars, thread>>

WorkdirNext ==
  \/ Next /\ (Created \/ RunOver \/ RunGoesOn \/ Elsewhere)
  \/ ThreadWrites
  \/ Rmtree

WorkdirSpec == WorkdirInit /\ [][WorkdirNext]_<<vars, workdir>>

-----------------------------------------------------------------------------
\* A job leaves no files behind, however it ends: not on a full disk's write
\* error, not on a timeout or a shutdown.  The one exception is a thread that
\* the abort tore away from its run and that wrote while rmtree was at work.
NothingLeftBehind ==
  at \in {"over", "aborted"} =>
    \/ dir \in {"none", "removed"} /\ ~file
    \/ dir = "left" /\ torn

=============================================================================
