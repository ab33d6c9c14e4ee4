---------------------------- MODULE Persistence ----------------------------
(***************************************************************************)
(* The state file: package internal/persistence, Store.Snapshot/Restore,   *)
(* the process life in cmd/fake-platform-api/main.go and the file side of  *)
(* POST /testing/reset.                                                    *)
(*                                                                         *)
(* What the store holds is abstracted to how many resets lie behind it and *)
(* how many IDs it has issued since: enough to tell an older state from a  *)
(* newer one.  Two goroutines save, the snapshot loop and main's last save;*)
(* both use the same path.tmp, so the disk is modelled down to inodes: a   *)
(* file opened for writing stays open when it is renamed.                  *)
(***************************************************************************)
EXTENDS Integers

CONSTANTS
  MaxWrite,   \* bound: IDs issued between two resets
  MaxReset,   \* bound: resets
  MaxStart    \* bound: restarts of the process

ASSUME PersistenceBounds == MaxWrite \in Nat /\ MaxReset \in Nat /\ MaxStart \in Nat

VARIABLES
  mem,         \* the store in memory (of the last process, when none runs)
  phase,       \* where main is
  drained,     \* server.Shutdown saw every handler return
  resetting,   \* a reset handler has cleared the store, not yet removed the file
  loopDone,    \* the snapshot loop has seen the cancelled context
  saver,       \* where each goroutine is inside persistence.Save
  tmp, file,   \* the inodes that path.tmp and path name
  content,     \* what each inode holds
  resets,      \* history: resets made so far
  forgotten,   \* history: resets acknowledged so far
  overlapped,  \* history: the two goroutines have been inside Save together
  ignored,     \* history: the store was started empty beside an intact file, still there
  kept,        \* history: the last process ended after a complete last save
  starts       \* history: restarts so far

diskVars == <<tmp, file, content>>
vars == <<mem, phase, drained, resetting, loopDone, saver, tmp, file, content,
          resets, forgotten, overlapped, ignored, kept, starts>>

-----------------------------------------------------------------------------
Saver == {"loop", "final"}
Other(p) == IF p = "loop" THEN "final" ELSE "loop"

NoInode == 0
Inode == 1..4   \* path and path.tmp name one each, the two goroutines hold one each

Snapshot == [gen : 0..MaxReset, count : 0..MaxWrite]
NoSnapshot == [gen |-> 0, count |-> 0]

\* A file is empty after the truncation, whole after the write, or torn: what is then
\* read from it is no snapshot.
Garbage == [gen |-> -1, count |-> -1]
Content == [text : {"empty", "whole", "torn"}, snap : Snapshot \cup {Garbage}]
Empty    == [text |-> "empty", snap |-> Garbage]
Torn     == [text |-> "torn", snap |-> Garbage]
Whole(s) == [text |-> "whole", snap |-> s]

\* A store nobody has written to looks the same after any number of resets.
NewStore == [gen |-> resets, count |-> 0]

Older(s, t) == s.gen < t.gen \/ (s.gen = t.gen /\ s.count < t.count)

Idle == [pc |-> "idle", snap |-> NoSnapshot, inode |-> NoInode]

Init ==
  /\ mem = NoSnapshot
  /\ phase = "running"
  /\ drained = FALSE /\ resetting = FALSE /\ loopDone = FALSE
  /\ saver = [p \in Saver |-> Idle]
  /\ tmp = NoInode /\ file = NoInode
  /\ content = [i \in Inode |-> Empty]
  /\ resets = 0 /\ forgotten = 0 /\ overlapped = FALSE /\ ignored = FALSE
  /\ kept = FALSE /\ starts = 0

-----------------------------------------------------------------------------
(***************************************************************************)
(* The HTTP handlers, as far as the file is concerned.                     *)
(***************************************************************************)
MutServing == phase # "down"

\* Handlers run until Shutdown has seen them return; after its timeout they go on.
Serving == phase \in {"running", "stopping"} \/ (phase = "saving" /\ ~drained)

Write ==
  /\ Serving /\ mem.count < MaxWrite
  /\ mem' = [mem EXCEPT !.count = @ + 1]
  /\ UNCHANGED <<phase, drained, resetting, loopDone, saver, diskVars,
                 resets, forgotten, overlapped, ignored, kept, starts>>

\* handleTestingReset: st.Reset, then os.Remove of the state file.
ResetStore ==
  /\ Serving /\ ~resetting /\ resets < MaxReset
  /\ resets' = resets + 1
  /\ mem' = [gen |-> resets', count |-> 0]
  /\ resetting' = TRUE
  /\ UNCHANGED <<phase, drained, loopDone, saver, diskVars, forgotten, overlapped, ignored,
                 kept, starts>>

RemoveFile ==
  /\ Serving /\ resetting
  /\ file' = NoInode
  /\ resetting' = FALSE
  /\ forgotten' = resets
  /\ ignored' = FALSE
  /\ UNCHANGED <<mem, phase, drained, loopDone, saver, tmp, content,
                 resets, overlapped, kept, starts>>

-----------------------------------------------------------------------------
(***************************************************************************)
(* persistence.Save(path, st.Snapshot()).                                  *)
(***************************************************************************)
Saving(p) == saver[p].pc \in {"marshalled", "opened", "written"}

InUse(i) == i \in {tmp, file} \/ \E p \in Saver : saver[p].inode = i

TakeSnapshot(p) ==
  /\ saver' = [saver EXCEPT ![p] = [pc |-> "marshalled", snap |-> mem, inode |-> NoInode]]
  /\ overlapped' = (overlapped \/ Saving(Other(p)))

\* os.WriteFile opens path.tmp with O_CREATE and O_TRUNC ...
OpenTmp(p) ==
  /\ saver[p].pc = "marshalled"
  /\ \E i \in Inode :
       /\ IF tmp = NoInode THEN ~InUse(i) /\ \A j \in 1..(i - 1) : InUse(j) ELSE i = tmp
       /\ tmp' = i
       /\ content' = [content EXCEPT ![i] = Empty]
       /\ saver' = [saver EXCEPT ![p].pc = "opened", ![p].inode = i]
  /\ UNCHANGED <<mem, phase, drained, resetting, loopDone, file,
                 resets, forgotten, overlapped, ignored, kept, starts>>

\* ... and writes from the start: what a longer text already there leaves behind its
\* end makes the file unreadable.
WriteTmp(p) ==
  /\ saver[p].pc = "opened"
  /\ LET i == saver[p].inode
         s == Whole(saver[p].snap)
     IN content' \in {[content EXCEPT ![i] = c] :
                        c \in IF content[i] \in {Empty, s} THEN {s} ELSE {s, Torn}}
  /\ saver' = [saver EXCEPT ![p].pc = "written"]
  /\ UNCHANGED <<mem, phase, drained, resetting, loopDone, tmp, file,
                 resets, forgotten, overlapped, ignored, kept, starts>>

MutEnded(p) == [Idle EXCEPT !.pc = "done"]

\* The loop goes on with its next tick; main's save is over.
Ended(p) == [Idle EXCEPT !.pc = IF p = "loop" THEN "idle" ELSE "done"]

MutRenameTmpEarly(p) ==
  /\ saver[p].pc \in {"opened", "written"} /\ tmp # NoInode
  /\ file' = tmp
  /\ tmp' = NoInode
  /\ saver' = [saver EXCEPT ![p] = Ended(p)]
  /\ ignored' = FALSE
  /\ UNCHANGED <<mem, phase, drained, resetting, loopDone, content,
                 resets, forgotten, overlapped, kept, starts>>

\* os.Rename moves whatever path.tmp names now.
RenameTmp(p) ==
  /\ saver[p].pc = "written" /\ tmp # NoInode
  /\ file' = tmp
  /\ tmp' = NoInode
  /\ saver' = [saver EXCEPT ![p] = Ended(p)]
  /\ ignored' = FALSE
  /\ UNCHANGED <<mem, phase, drained, resetting, loopDone, content,
                 resets, forgotten, overlapped, kept, starts>>

\* What the disk may hold once the goroutines ps stop where they are: a write that has
\* begun may have got halfway.
Interrupted(ps) ==
  LET begun == {saver[p].inode : p \in {q \in ps : saver[q].pc = "opened"}}
  IN {[i \in Inode |-> IF i \in half THEN Torn ELSE content[i]] : half \in SUBSET begun}

MutSaveFails(p) ==
  /\ Saving(p)
  /\ content' \in Interrupted({p})
  /\ saver' = [saver EXCEPT ![p] = IF saver[p].pc = "opened" THEN [@ EXCEPT !.pc = "written"]
                                   ELSE Ended(p)]
  /\ UNCHANGED <<mem, phase, drained, resetting, loopDone, tmp, file,
                 resets, forgotten, overlapped, ignored, kept, starts>>

\* An I/O error, or nothing left to rename: Save returns it and the caller logs it.
SaveFails(p) ==
  /\ Saving(p)
  /\ content' \in Interrupted({p})
  /\ saver' = [saver EXCEPT ![p] = IF p = "loop" THEN Idle ELSE [Idle EXCEPT !.pc = "failed"]]
  /\ UNCHANGED <<mem, phase, drained, resetting, loopDone, tmp, file,
                 resets, forgotten, overlapped, ignored, kept, starts>>

-----------------------------------------------------------------------------
(***************************************************************************)
(* runSnapshotLoop and main.                                               *)
(***************************************************************************)
\* With the context cancelled and a tick due, select may still take the tick.
LoopTick ==
  /\ phase # "down" /\ ~loopDone
  /\ saver["loop"].pc = "idle"
  /\ TakeSnapshot("loop")
  /\ UNCHANGED <<mem, phase, drained, resetting, loopDone, diskVars,
                 resets, forgotten, ignored, kept, starts>>

LoopExit ==
  /\ phase \in {"stopping", "saving"} /\ ~loopDone
  /\ saver["loop"].pc = "idle"
  /\ loopDone' = TRUE
  /\ UNCHANGED <<mem, phase, drained, resetting, saver, diskVars,
                 resets, forgotten, overlapped, ignored, kept, starts>>

Signal ==
  /\ phase = "running"
  /\ phase' = "stopping"
  /\ UNCHANGED <<mem, drained, resetting, loopDone, saver, diskVars,
                 resets, forgotten, overlapped, ignored, kept, starts>>

\* server.Shutdown returns, with every handler or after five seconds without.
FinalSave ==
  /\ phase = "stopping"
  /\ phase' = "saving"
  /\ drained' \in {~resetting, FALSE}
  /\ TakeSnapshot("final")
  /\ UNCHANGED <<mem, resetting, loopDone, diskVars, resets, forgotten, ignored, kept, starts>>

\* The process is gone: goroutines and handlers with it, the files stay.
Down(clean) ==
  /\ phase' = "down"
  /\ kept' = clean
  /\ saver' = [p \in Saver |-> Idle]
  /\ drained' = FALSE /\ resetting' = FALSE /\ loopDone' = FALSE
  /\ UNCHANGED <<mem, tmp, file, resets, forgotten, overlapped, ignored, starts>>

Exit ==
  /\ phase = "saving" /\ saver["final"].pc \in {"done", "failed"}
  /\ content' \in Interrupted({"loop"})
  /\ Down(drained /\ saver["final"].pc = "done")

Crash ==
  /\ phase # "down"
  /\ content' \in Interrupted(Saver)
  /\ Down(FALSE)

Readable == file # NoInode /\ content[file].text = "whole"

MutRestoredUnparsed == IF file = NoInode THEN NewStore ELSE content[file].snap
MutNeverRestored == NewStore

\* A missing file and one that does not parse both make the process start empty.
Restored == IF Readable THEN content[file].snap ELSE NewStore

\* Reading an intact file fails, or its schema version is not the program's: the process
\* starts empty, too, and leaves the file where it is.
LoadFails ==
  /\ Readable
  /\ mem' = NewStore
  /\ ignored' = TRUE

Start ==
  /\ phase = "down" /\ starts < MaxStart
  /\ phase' = "running"
  /\ (mem' = Restored /\ ignored' = FALSE) \/ LoadFails
  /\ starts' = starts + 1
  /\ kept' = FALSE
  /\ overlapped' = (overlapped /\ file # NoInode /\ ~Readable)
  /\ UNCHANGED <<drained, resetting, loopDone, saver, diskVars, resets, forgotten>>

Next ==
  \/ Write \/ ResetStore \/ RemoveFile
  \/ \E p \in Saver : OpenTmp(p) \/ WriteTmp(p) \/ RenameTmp(p) \/ SaveFails(p)
  \/ LoopTick \/ LoopExit \/ Signal \/ FinalSave \/ Exit \/ Crash \/ Start

\* The ticker keeps firing and the disk does not fail for ever; handlers end.
Fairness ==
  /\ WF_vars(LoopTick) /\ WF_vars(RemoveFile)
  /\ SF_vars(OpenTmp("loop")) /\ SF_vars(WriteTmp("loop")) /\ SF_vars(RenameTmp("loop"))

Spec == Init /\ [][Next]_vars /\ Fairness

-----------------------------------------------------------------------------
(***************************************************************************)
(* Properties                                                              *)
(***************************************************************************)
\* Every variable holds what the code can put there; in particular a store restored
\* from the file is a store.
TypeOK ==
  /\ mem \in Snapshot
  /\ phase \in {"running", "stopping", "saving", "down"}
  /\ {drained, resetting, loopDone, overlapped, ignored, kept} \subseteq BOOLEAN
  /\ saver \in [Saver -> [pc : {"idle", "marshalled", "opened", "written", "done", "failed"},
                          snap : Snapshot, inode : Inode \cup {NoInode}]]
  /\ {tmp, file} \subseteq Inode \cup {NoInode}
  /\ content \in [Inode -> Content]
  /\ resets \in 0..MaxReset /\ forgotten \in 0..resets /\ starts \in 0..MaxStart

\* A crash or an I/O error at any point of a save leaves a state file that parses, if
\* there is one: only two saves that overlap can spoil it (persistence.Save).
ReadableUnlessOverlap == file # NoInode /\ ~Readable => overlapped

\* When the process ends after Shutdown drained the handlers and the last save was
\* complete, the file holds everything the store held (main), save for an overlap: also a
\* file the process could not load is replaced by then.
CleanStopKeepsAll ==
  phase = "down" /\ kept /\ ~overlapped => Readable /\ ~ignored /\ content[file].snap = mem

\* A save never replaces the state file by an older state, across restarts too, unless
\* two saves overlap or the process has started empty because it could not load the very
\* file that is replaced: the loop's snapshots reach the file in the order they were taken,
\* and but for a failed Load a process has what the file holds before it saves.
NeverOlder ==
  [][ Readable /\ Readable' /\ ~overlapped' /\ ~ignored =>
        ~Older(content'[file'].snap, content[file].snap) ]_vars

\* As long as the process runs the file catches up with the store, whatever saves failed,
\* whatever an earlier save or reset left there and whether or not it could be loaded.
FileCatchesUp ==
  <>[](phase = "running") => []<>(Readable /\ ~ignored /\ content[file].snap = mem)

\* persistence.go:34-36 and decision 26: whenever the process is gone, by a crash or not,
\* the state file it leaves in place is a whole snapshot.
NeverCorrupted == phase = "down" /\ file # NoInode => content[file].text = "whole"


-----------------------------------------------------------------------------
(***************************************************************************)
(* The abstract view of the file: StateFile.                               *)
(***************************************************************************)
Stored == IF Readable THEN content[file].snap ELSE Garbage

Taken == LET saving == {p \in Saver : Saving(p)}
         IN IF overlapped \/ saving = {} THEN Garbage
            ELSE saver[CHOOSE p \in saving : TRUE].snap

F == INSTANCE StateFile WITH State <- Snapshot, Blank <- [gen : 0..MaxReset, count : {0}],
                             None <- Garbage, store <- mem, up <- phase # "down",
                             taken <- Taken, stored <- Stored, clash <- overlapped

\* Opening, writing and renaming path.tmp, errors and crashes between them included, amount
\* to StateFile: a save puts a whole snapshot in place in one step or not at all, and a
\* start has what the last save or reset left or, if that is nothing or Load fails, an
\* empty store (Save, Load, main), save for an overlap.
ImplementsStateFile == F!Spec

=============================================================================
