------------------------- MODULE PersistenceProofs -------------------------
(***************************************************************************)
(* The state file, for any number of writes, resets and restarts.          *)
(*                                                                         *)
(* As long as two saves have not overlapped, what path.tmp names is        *)
(* written by one goroutine from beginning to end (Undisturbed), so what   *)
(* is renamed is whole; and along file, save under way and store the       *)
(* states never get older (InOrder), but for a file that a process could   *)
(* not load and has not replaced yet.  Both hold over restarts too: with   *)
(* a file that is read again an earlier overlap has no consequences.       *)
(***************************************************************************)
EXTENDS Persistence, TLAPS

Busy(p) == saver[p].pc \in {"opened", "written"}

\* A process that is down saves nothing, and main saves last.
Phases ==
  /\ phase = "down" => saver["loop"] = Idle
  /\ phase # "saving" => saver["final"] = Idle
  /\ drained => phase = "saving"

\* Whatever can be read was the store once, before any reset to come.
Known ==
  /\ mem.gen <= resets
  /\ \A p \in Saver : saver[p].snap.gen <= resets
  /\ \A i \in Inode : content[i].text = "whole" =>
       content[i].snap \in Snapshot /\ content[i].snap.gen <= resets

\* One goroutine has path.tmp to itself, and path names no file that is written.
Undisturbed ==
  /\ tmp # NoInode => tmp # file
  /\ ~overlapped =>
       /\ ~(Saving("loop") /\ Saving("final"))
       /\ file # NoInode => Readable
       /\ \A p \in Saver : Busy(p) =>
            /\ tmp # NoInode /\ saver[p].inode = tmp
            /\ content[tmp] = IF saver[p].pc = "opened" THEN Empty ELSE Whole(saver[p].snap)

\* The file is no newer than the save under way, and that no newer than the store; of a
\* file that could not be loaded nothing is said until it is replaced.
InOrder ==
  ~overlapped =>
    /\ Readable /\ ~ignored => ~Older(mem, content[file].snap)
    /\ \A p \in Saver : Saving(p) =>
         /\ ~Older(mem, saver[p].snap)
         /\ Readable /\ ~ignored => ~Older(saver[p].snap, content[file].snap)

\* Once the handlers have returned nobody writes: every save takes what the store keeps.
LastSave ==
  drained /\ ~overlapped =>
    /\ \A p \in Saver : Saving(p) => saver[p].snap = mem
    /\ saver["final"].pc = "done" => Readable /\ ~ignored /\ content[file].snap = mem

SaveInv == Phases /\ Known /\ Undisturbed /\ InOrder /\ LastSave /\ CleanStopKeepsAll

-----------------------------------------------------------------------------
LEMMA OlderIsAnOrder ==
  ASSUME NEW s \in Snapshot, NEW t \in Snapshot, NEW u \in Snapshot
  PROVE  /\ ~Older(s, s)
         /\ ~Older(s, t) /\ ~Older(t, u) => ~Older(s, u)
BY DEF Older, Snapshot

LEMMA Apart == ASSUME NEW s PROVE Empty # Whole(s) /\ Torn # Whole(s) /\ Empty # Torn
BY DEF Empty, Whole, Torn

\* What TypeOK says of each variable, where a set of records is too much for the provers.
LEMMA Facts ==
  ASSUME TypeOK
  PROVE  /\ mem \in Snapshot /\ mem.gen \in Nat /\ mem.count \in Nat
         /\ \A p \in Saver :
              /\ saver[p].snap \in Snapshot /\ saver[p].inode \in Inode \cup {NoInode}
              /\ saver[p].pc \in {"idle", "marshalled", "opened", "written", "done", "failed"}
              /\ DOMAIN saver[p] = {"pc", "snap", "inode"}
         /\ DOMAIN saver = Saver
         /\ DOMAIN content = Inode
         /\ tmp \in Inode \cup {NoInode} /\ file \in Inode \cup {NoInode}
         /\ resets \in Nat /\ 0 \notin Inode
         /\ {drained, overlapped, ignored, kept} \subseteq BOOLEAN
BY PersistenceBounds DEF TypeOK, Snapshot, Inode, NoInode

LEMMA TypeInit == Init => TypeOK
<1> SUFFICES ASSUME Init PROVE TypeOK
  OBVIOUS
<1>1. NoSnapshot \in Snapshot /\ Empty \in Content
  BY PersistenceBounds DEF NoSnapshot, Snapshot, Empty, Content
<1>2. saver \in [Saver -> [pc : {"idle", "marshalled", "opened", "written", "done", "failed"},
                          snap : Snapshot, inode : Inode \cup {NoInode}]]
  BY <1>1 DEF Init, Idle
<1>3. {drained, resetting, loopDone, overlapped, ignored, kept} \subseteq BOOLEAN
  BY DEF Init
<1>4. resets \in 0..MaxReset /\ forgotten \in 0..resets /\ starts \in 0..MaxStart
  BY PersistenceBounds DEF Init
<1>5. {tmp, file} \subseteq Inode \cup {NoInode} /\ content \in [Inode -> Content]
  BY <1>1 DEF Init
<1>6. mem \in Snapshot /\ phase \in {"running", "stopping", "saving", "down"}
  BY <1>1 DEF Init
<1> QED
  BY <1>2, <1>3, <1>4, <1>5, <1>6 DEF TypeOK

LEMMA SaveInit == Init => SaveInv
BY PersistenceBounds
DEF Init, SaveInv, Phases, Known, Undisturbed, InOrder, LastSave, CleanStopKeepsAll,
    Idle, NoSnapshot, NoInode, Saving, Busy, Saver, Empty, Readable

LEMMA WriteStep ==
  ASSUME TypeOK, SaveInv, Write
  PROVE  TypeOK' /\ SaveInv'
BY PersistenceBounds, Facts
DEF SaveInv, Phases, Known, Undisturbed, InOrder, LastSave, CleanStopKeepsAll,
    Write, diskVars, Serving, TypeOK, Snapshot, Saving, Busy, Readable, Older

LEMMA ResetStep ==
  ASSUME TypeOK, SaveInv, ResetStore
  PROVE  TypeOK' /\ SaveInv'
BY PersistenceBounds, Facts
DEF SaveInv, Phases, Known, Undisturbed, InOrder, LastSave, CleanStopKeepsAll,
    ResetStore, diskVars, Serving, TypeOK, Snapshot, Saving, Busy, Readable, Older

LEMMA RemoveStep ==
  ASSUME TypeOK, SaveInv, RemoveFile
  PROVE  TypeOK' /\ SaveInv'
<1>1. TypeOK'
  <2>1. {drained, resetting, loopDone, overlapped, ignored, kept}' \subseteq BOOLEAN
    BY DEF RemoveFile, TypeOK
  <2>2. forgotten' \in 0..resets' /\ resets' \in 0..MaxReset
    BY PersistenceBounds DEF RemoveFile, TypeOK
  <2>3. {tmp, file}' \subseteq Inode \cup {NoInode}
    BY DEF RemoveFile, TypeOK
  <2> QED
    BY <2>1, <2>2, <2>3 DEF RemoveFile, TypeOK
<1>2. ~(drained /\ phase = "saving") /\ phase # "down"
  BY DEF RemoveFile, Serving
<1>3. ~Readable' /\ file' = NoInode
  BY DEF RemoveFile, Readable
<1> QED
  BY <1>1, <1>2, <1>3, Facts
  DEF SaveInv, Phases, Known, Undisturbed, InOrder, LastSave, CleanStopKeepsAll,
      RemoveFile, Saving, Busy

LEMMA OpenStep ==
  ASSUME TypeOK, SaveInv, NEW p \in Saver, OpenTmp(p)
  PROVE  TypeOK' /\ SaveInv'
BY PersistenceBounds, Facts, Apart
DEF SaveInv, Phases, Known, Undisturbed, InOrder, LastSave, CleanStopKeepsAll,
    OpenTmp, TypeOK, Saving, Busy, Readable, InUse, Saver, Idle, Empty, Content

LEMMA WriteTmpStep ==
  ASSUME TypeOK, SaveInv, NEW p \in Saver, WriteTmp(p)
  PROVE  TypeOK' /\ SaveInv'
<1> DEFINE i == saver[p].inode
           s == Whole(saver[p].snap)
<1>1. /\ saver[p].pc = "opened" /\ saver' = [saver EXCEPT ![p].pc = "written"]
      /\ UNCHANGED <<mem, phase, drained, resetting, loopDone, tmp, file,
                     resets, forgotten, overlapped, ignored, kept, starts>>
  BY DEF WriteTmp
<1>2. PICK c \in {s, Torn} :
        /\ content' = [content EXCEPT ![i] = c]
        /\ content[i] = Empty => c = s
  BY DEF WriteTmp
<1>3. c \in Content /\ (c.text = "whole" => c.snap = saver[p].snap)
  BY Facts DEF Content, Torn, Whole
<1>4. TypeOK'
  BY <1>1, <1>2, <1>3 DEF TypeOK
<1>5. s.text = "whole" /\ s.snap = saver[p].snap
  BY DEF Whole
<1>6. Phases' /\ Known'
  BY <1>1, <1>2, <1>3, Facts DEF SaveInv, Phases, Known, Idle
<1>7. Undisturbed'
  BY <1>1, <1>2, <1>5, Facts DEF SaveInv, Undisturbed, Saving, Busy, Readable, Saver
<1>8. ~overlapped /\ file # NoInode => content'[file] = content[file]
  BY <1>1, <1>2, Facts DEF SaveInv, Undisturbed, Busy
<1>9. \A q \in Saver : /\ saver'[q].snap = saver[q].snap
                       /\ Saving(q)' <=> Saving(q)
                       /\ saver'[q].pc = "done" <=> saver[q].pc = "done"
  BY <1>1, Facts DEF Saving
<1>10. phase # "down"
  BY <1>1 DEF SaveInv, Phases, Idle, Saver
<1> QED
  BY <1>1, <1>4, <1>6, <1>7, <1>8, <1>9, <1>10
  DEF SaveInv, InOrder, LastSave, CleanStopKeepsAll, Readable, Saver

LEMMA RenameStep ==
  ASSUME TypeOK, SaveInv, NEW p \in Saver, RenameTmp(p)
  PROVE  TypeOK' /\ SaveInv'
<1>1. /\ saver[p].pc = "written" /\ tmp # NoInode /\ file' = tmp /\ tmp' = NoInode
      /\ saver' = [saver EXCEPT ![p] = Ended(p)] /\ ~ignored'
      /\ UNCHANGED <<mem, phase, drained, resetting, loopDone, content,
                     resets, forgotten, overlapped, kept, starts>>
  BY DEF RenameTmp
<1>2. /\ Ended(p).pc = (IF p = "loop" THEN "idle" ELSE "done")
      /\ Ended(p).snap = NoSnapshot /\ NoSnapshot.gen = 0
      /\ Ended(p) \in [pc : {"idle", "marshalled", "opened", "written", "done", "failed"},
                       snap : Snapshot, inode : Inode \cup {NoInode}]
      /\ p = "loop" => Ended(p) = Idle
  BY PersistenceBounds DEF Ended, Idle, NoSnapshot, Snapshot
<1>3. saver'[p] = Ended(p) /\ \A q \in Saver : q # p => saver'[q] = saver[q]
  BY <1>1, Facts
<1>4. TypeOK'
  <2>1. saver' \in [Saver -> [pc : {"idle", "marshalled", "opened", "written", "done", "failed"},
                              snap : Snapshot, inode : Inode \cup {NoInode}]]
    BY <1>1, <1>2 DEF TypeOK
  <2>2. {drained, resetting, loopDone, overlapped, ignored, kept}' \subseteq BOOLEAN
    BY DEF RenameTmp, TypeOK
  <2> QED
    BY <1>1, <2>1, <2>2 DEF TypeOK
<1>5. phase # "down" /\ (p = "final" => phase = "saving")
  BY <1>1 DEF SaveInv, Phases, Idle, Saver
<1>6. Phases' /\ Known'
  BY <1>1, <1>2, <1>3, <1>5, Facts DEF SaveInv, Phases, Known, Saver
\* What is renamed is the whole of p's snapshot, and nobody else is saving.
<1>7. ~overlapped => /\ content[tmp] = Whole(saver[p].snap)
                     /\ \A q \in Saver : q # p => ~Saving(q)
  BY <1>1 DEF SaveInv, Undisturbed, Busy, Saving, Saver
<1>8. /\ ~Saving(p)' /\ ~Busy(p)'
      /\ \A q \in Saver : q # p => (Saving(q)' <=> Saving(q)) /\ (Busy(q)' <=> Busy(q))
  BY <1>2, <1>3 DEF Saving, Busy
<1>9. ~overlapped => /\ \A q \in Saver : ~Saving(q)' /\ ~Busy(q)'
                     /\ Readable' /\ content'[file'].snap = saver[p].snap
  BY <1>1, <1>7, <1>8 DEF Readable, Whole, Saving, Busy
<1>10. Saving(p)
  BY <1>1 DEF Saving
<1>11. Undisturbed'
  BY <1>1, <1>9 DEF Undisturbed, Saver
<1>12. InOrder' /\ LastSave' /\ CleanStopKeepsAll'
  BY <1>1, <1>5, <1>9, <1>10 DEF SaveInv, InOrder, LastSave, CleanStopKeepsAll
<1> QED
  BY <1>4, <1>6, <1>11, <1>12 DEF SaveInv

LEMMA LoopExitStep ==
  ASSUME TypeOK, SaveInv, LoopExit
  PROVE  TypeOK' /\ SaveInv'
BY Facts
DEF SaveInv, Phases, Known, Undisturbed, InOrder, LastSave, CleanStopKeepsAll,
    LoopExit, diskVars, TypeOK, Saving, Busy, Readable

LEMMA SignalStep ==
  ASSUME TypeOK, SaveInv, Signal
  PROVE  TypeOK' /\ SaveInv'
BY Facts
DEF SaveInv, Phases, Known, Undisturbed, InOrder, LastSave, CleanStopKeepsAll,
    Signal, diskVars, TypeOK, Saving, Busy, Readable

\* An interrupted write tears only what is being written.
LEMMA InterruptedKeeps ==
  ASSUME NEW ps \in SUBSET Saver, content' \in Interrupted(ps), TypeOK
  PROVE  /\ content' \in [Inode -> Content]
         /\ \A i \in Inode :
              content'[i] # content[i] =>
                \E p \in ps : saver[p].pc = "opened" /\ saver[p].inode = i
         /\ \A i \in Inode : content'[i].text = "whole" => content'[i] = content[i]
BY DEF Interrupted, TypeOK, Torn, Content

LEMMA FailStep ==
  ASSUME TypeOK, SaveInv, NEW p \in Saver, SaveFails(p)
  PROVE  TypeOK' /\ SaveInv'
BY PersistenceBounds, Facts, Apart, InterruptedKeeps
DEF SaveInv, Phases, Known, Undisturbed, InOrder, LastSave, CleanStopKeepsAll,
    SaveFails, TypeOK, Saving, Busy, Readable, Saver, Idle, NoSnapshot, Snapshot

LEMMA TickStep ==
  ASSUME TypeOK, SaveInv, LoopTick
  PROVE  TypeOK' /\ SaveInv'
BY PersistenceBounds, Facts, OlderIsAnOrder
DEF SaveInv, Phases, Known, Undisturbed, InOrder, LastSave, CleanStopKeepsAll,
    LoopTick, TakeSnapshot, Other, diskVars, TypeOK, Saving, Busy, Readable, Saver, Idle

LEMMA FinalStep ==
  ASSUME TypeOK, SaveInv, FinalSave
  PROVE  TypeOK' /\ SaveInv'
BY PersistenceBounds, Facts, OlderIsAnOrder
DEF SaveInv, Phases, Known, Undisturbed, InOrder, LastSave, CleanStopKeepsAll,
    FinalSave, TakeSnapshot, Other, diskVars, TypeOK, Saving, Busy, Readable, Saver, Idle

LEMMA DownStep ==
  ASSUME TypeOK, SaveInv, NEW clean \in BOOLEAN, Down(clean),
         NEW ps \in SUBSET Saver, content' \in Interrupted(ps),
         clean /\ ~overlapped => Readable /\ ~ignored /\ content[file].snap = mem
  PROVE  TypeOK' /\ SaveInv'
<1>1. /\ phase' = "down" /\ kept' = clean /\ ~drained' /\ saver' = [p \in Saver |-> Idle]
      /\ UNCHANGED <<mem, tmp, file, resets, forgotten, overlapped, ignored, starts>>
  BY DEF Down
<1>2. Idle.pc = "idle" /\ Idle.snap = NoSnapshot /\ NoSnapshot.gen = 0
  BY DEF Idle, NoSnapshot
<1>3. Idle \in [pc : {"idle", "marshalled", "opened", "written", "done", "failed"},
                snap : Snapshot, inode : Inode \cup {NoInode}]
  BY PersistenceBounds DEF Idle, NoSnapshot, Snapshot
<1>4. TypeOK'
  <2>1. {drained, resetting, loopDone, overlapped, ignored, kept}' \subseteq BOOLEAN
    BY DEF Down, TypeOK
  <2> QED
    BY <1>1, <1>3, <2>1, InterruptedKeeps DEF TypeOK
<1>5. \A p \in Saver : saver'[p] = Idle /\ ~Saving(p)' /\ ~Busy(p)'
  BY <1>1, <1>2 DEF Saving, Busy
<1>6. Phases' /\ Known'
  BY <1>1, <1>2, <1>5, InterruptedKeeps, Facts DEF SaveInv, Phases, Known, Saver
<1>7. ~overlapped /\ file # NoInode => content'[file] = content[file]
  BY InterruptedKeeps, Facts DEF SaveInv, Undisturbed, Busy
<1>8. Undisturbed'
  BY <1>1, <1>5, <1>7 DEF SaveInv, Undisturbed, Readable, Saver
<1>9. InOrder' /\ LastSave' /\ CleanStopKeepsAll'
  BY <1>1, <1>5, <1>7 DEF SaveInv, InOrder, LastSave, CleanStopKeepsAll, Readable
<1> QED
  BY <1>4, <1>6, <1>8, <1>9 DEF SaveInv

LEMMA ExitStep ==
  ASSUME TypeOK, SaveInv, Exit
  PROVE  TypeOK' /\ SaveInv'
<1> DEFINE clean == drained /\ saver["final"].pc = "done"
<1>1. Down(clean) /\ content' \in Interrupted({"loop"}) /\ {"loop"} \in SUBSET Saver
  BY DEF Exit, Saver
<1>2. clean /\ ~overlapped => Readable /\ ~ignored /\ content[file].snap = mem
  BY DEF SaveInv, LastSave
<1>3. clean \in BOOLEAN
  BY Facts
<1> QED
  BY <1>1, <1>2, <1>3, DownStep

LEMMA CrashStep ==
  ASSUME TypeOK, SaveInv, Crash
  PROVE  TypeOK' /\ SaveInv'
<1>1. PICK kind \in {FALSE} : Down(kind)
  BY DEF Crash
<1> QED
  BY <1>1, DownStep, Facts DEF Crash

LEMMA StartStep ==
  ASSUME TypeOK, SaveInv, Start
  PROVE  TypeOK' /\ SaveInv'
<1>1. /\ phase = "down" /\ phase' = "running" /\ ~kept'
      /\ mem' \in {Restored, NewStore} /\ ignored' \in BOOLEAN
      /\ Readable /\ ~ignored' => mem' = Restored
      /\ overlapped' = (overlapped /\ file # NoInode /\ ~Readable)
      /\ UNCHANGED <<drained, resetting, loopDone, saver, diskVars, resets, forgotten>>
  BY DEF Start, LoadFails
<1>2. /\ mem' \in Snapshot /\ mem'.gen <= resets
      /\ Readable /\ ~ignored' => mem' = content[file].snap
  BY <1>1, Facts, PersistenceBounds
  DEF SaveInv, Known, Restored, NewStore, Readable, Snapshot, TypeOK
<1>3. saver["loop"] = Idle /\ saver["final"] = Idle /\ ~drained
  BY <1>1 DEF SaveInv, Phases
<1>4. \A p \in Saver : ~Saving(p) /\ ~Busy(p)
  BY <1>3 DEF Saving, Busy, Saver, Idle
<1>5. TypeOK'
  <2>1. {drained, resetting, loopDone, overlapped, ignored, kept}' \subseteq BOOLEAN
    BY <1>1 DEF Start, TypeOK
  <2>2. starts' \in 0..MaxStart
    BY PersistenceBounds DEF Start, TypeOK
  <2> QED
    BY <1>1, <1>2, <2>1, <2>2 DEF TypeOK, diskVars
<1>6. Phases' /\ Known' /\ LastSave' /\ CleanStopKeepsAll'
  BY <1>1, <1>2, <1>3 DEF SaveInv, Phases, Known, LastSave, CleanStopKeepsAll, diskVars
<1>7. Undisturbed'
  BY <1>1, <1>4 DEF SaveInv, Undisturbed, Readable, Saving, Busy, Saver, diskVars
<1>8. InOrder'
  BY <1>1, <1>2, <1>4, OlderIsAnOrder DEF InOrder, Readable, Saving, diskVars
<1> QED
  BY <1>5, <1>6, <1>7, <1>8 DEF SaveInv

LEMMA SaveStep ==
  ASSUME TypeOK, SaveInv, [Next]_vars
  PROVE  TypeOK' /\ SaveInv'
<1>1. CASE Write \/ ResetStore \/ RemoveFile
  BY <1>1, WriteStep, ResetStep, RemoveStep
<1>2. CASE \E p \in Saver : OpenTmp(p) \/ WriteTmp(p) \/ RenameTmp(p) \/ SaveFails(p)
  BY <1>2, OpenStep, WriteTmpStep, RenameStep, FailStep
<1>3. CASE LoopTick \/ LoopExit \/ Signal \/ FinalSave
  BY <1>3, TickStep, LoopExitStep, SignalStep, FinalStep
<1>4. CASE Exit \/ Crash \/ Start
  BY <1>4, ExitStep, CrashStep, StartStep
<1>5. CASE UNCHANGED vars
  BY <1>5 DEF vars, diskVars, TypeOK, SaveInv, Phases, Known, Undisturbed, InOrder, LastSave,
              CleanStopKeepsAll, Saving, Busy, Readable
<1> QED
  BY <1>1, <1>2, <1>3, <1>4, <1>5 DEF Next

\* The inductive invariant of saving (Save, runSnapshotLoop, main).
THEOREM SaveInvariant == Spec => [](TypeOK /\ SaveInv)
<1>1. Init => TypeOK /\ SaveInv
  BY TypeInit, SaveInit
<1>2. TypeOK /\ SaveInv /\ [Next]_vars => TypeOK' /\ SaveInv'
  BY SaveStep
<1> QED
  BY <1>1, <1>2, PTL DEF Spec

-----------------------------------------------------------------------------
\* Store, saves under way and files hold what the code can put there: in particular a file
\* that parses holds a store (Snapshot, Load).
THEOREM FileTypeCorrect == Spec => []TypeOK
BY SaveInvariant, PTL

\* However saves fail and wherever a crash cuts them off, the state file parses unless two
\* of them overlapped (Save, Load).
THEOREM FileIsReadable == Spec => []ReadableUnlessOverlap
<1>1. SaveInv => ReadableUnlessOverlap
  BY DEF SaveInv, Undisturbed, ReadableUnlessOverlap
<1> QED
  BY <1>1, SaveInvariant, PTL

\* Nothing of the store is lost by a shutdown that drained the handlers (main).
THEOREM CleanStopIsComplete == Spec => []CleanStopKeepsAll
<1>1. SaveInv => CleanStopKeepsAll
  BY DEF SaveInv
<1> QED
  BY <1>1, SaveInvariant, PTL

\* While saves do not overlap a step that changes the file puts the save under way there.
LEMMA FileSteps ==
  ASSUME TypeOK, SaveInv, [Next]_vars, ~overlapped', ~overlapped
  PROVE  \/ file' = file /\ (file # NoInode => content'[file] = content[file])
         \/ file' = NoInode
         \/ \E p \in Saver : /\ Saving(p) /\ file' # NoInode
                             /\ content'[file'] = Whole(saver[p].snap)
<1>1. CASE \/ Write \/ ResetStore \/ LoopTick \/ LoopExit \/ Signal \/ FinalSave \/ Start
           \/ UNCHANGED vars
  BY <1>1 DEF Write, ResetStore, LoopTick, LoopExit, Signal, FinalSave, Start, diskVars, vars
<1>2. CASE RemoveFile
  BY <1>2 DEF RemoveFile
<1>3. ASSUME NEW p \in Saver, OpenTmp(p)
      PROVE  file' = file /\ (file # NoInode => content'[file] = content[file])
  BY <1>3, Facts DEF SaveInv, Undisturbed, OpenTmp, InUse
<1>4. ASSUME NEW p \in Saver, WriteTmp(p)
      PROVE  file' = file /\ (file # NoInode => content'[file] = content[file])
  BY <1>4, Facts DEF SaveInv, Undisturbed, WriteTmp, Busy
<1>5. ASSUME NEW p \in Saver, RenameTmp(p)
      PROVE  Saving(p) /\ file' # NoInode /\ content'[file'] = Whole(saver[p].snap)
  BY <1>5 DEF SaveInv, Undisturbed, RenameTmp, Busy, Saving
<1>6. ASSUME NEW ps \in SUBSET Saver, content' \in Interrupted(ps), file' = file
      PROVE  file # NoInode => content'[file] = content[file]
  BY <1>6, InterruptedKeeps, Facts DEF SaveInv, Undisturbed, Busy
<1>7. CASE (\E p \in Saver : SaveFails(p)) \/ Exit \/ Crash
  BY <1>6, <1>7 DEF SaveFails, Exit, Crash, Down, Saver
<1> QED
  BY <1>1, <1>2, <1>3, <1>4, <1>5, <1>7 DEF Next

\* No save puts an older state in place of a newer one unless two saves overlap or the
\* process could not load the file it replaces: the two goroutines take turns, each takes
\* its snapshot after the other was done, and what a process loads it has before its first
\* save (runSnapshotLoop, main, Load).
THEOREM FileNeverOlder == Spec => NeverOlder
<1> DEFINE Grows == Readable /\ Readable' /\ ~overlapped' /\ ~ignored =>
                      ~Older(content'[file'].snap, content[file].snap)
<1>1. TypeOK /\ SaveInv /\ [Next]_vars => Grows
  <2> SUFFICES ASSUME TypeOK, SaveInv, [Next]_vars, Readable, Readable', ~overlapped',
                      ~ignored
               PROVE  ~Older(content'[file'].snap, content[file].snap)
    OBVIOUS
  <2>1. file \in Inode /\ content[file].snap \in Snapshot
    BY Facts DEF Readable, SaveInv, Known
  <2>2. CASE overlapped
    <3>1. Start
      BY <2>2
      DEF Next, vars, diskVars, Write, ResetStore, RemoveFile, OpenTmp, WriteTmp, RenameTmp,
          SaveFails, LoopTick, LoopExit, Signal, FinalSave, TakeSnapshot, Exit, Crash, Down
    <3> QED
      BY <2>1, <3>1, OlderIsAnOrder DEF Start, diskVars
  <2>3. CASE ~overlapped
    <3>1. CASE file' = file /\ (file # NoInode => content'[file] = content[file])
      BY <2>1, <3>1, OlderIsAnOrder DEF Readable
    <3>2. ASSUME NEW p \in Saver, Saving(p), content'[file'] = Whole(saver[p].snap)
          PROVE  ~Older(content'[file'].snap, content[file].snap)
      BY <2>3, <3>2 DEF SaveInv, InOrder, Whole
    <3> QED
      BY <2>3, <3>1, <3>2, FileSteps DEF Readable
  <2> QED
    BY <2>2, <2>3
<1> QED
  BY <1>1, SaveInvariant, PTL DEF Spec, NeverOlder

-----------------------------------------------------------------------------
\* Garbage stands for "nothing" in the abstract view.
LEMMA GarbageIsNoSnapshot == Garbage \notin Snapshot
BY DEF Garbage, Snapshot

\* The abstract view, without CHOOSE.
LEMMA TakenIs ==
  ASSUME TypeOK, SaveInv
  PROVE  /\ overlapped => Taken = Garbage
         /\ (\A p \in Saver : ~Saving(p)) => Taken = Garbage
         /\ \A p \in Saver : Saving(p) /\ ~overlapped => Taken = saver[p].snap
<1>1. overlapped \/ (\A p \in Saver : ~Saving(p)) => Taken = Garbage
  BY DEF Taken
<1>2. ASSUME NEW p \in Saver, Saving(p), ~overlapped
      PROVE  Taken = saver[p].snap
  <2>1. \A q \in Saver : Saving(q) <=> q = p
    BY <1>2 DEF SaveInv, Undisturbed, Saver
  <2>2. {q \in Saver : Saving(q)} = {p}
    BY <2>1
  <2>3. (CHOOSE q \in {p} : TRUE) = p
    OBVIOUS
  <2> QED
    BY <1>2, <2>2, <2>3 DEF Taken
<1> QED
  BY <1>1, <1>2

LEMMA StoredIs ==
  ASSUME TypeOK, SaveInv
  PROVE  /\ Stored \in Snapshot \cup {Garbage}
         /\ Stored = Garbage <=> ~Readable
BY Facts, GarbageIsNoSnapshot DEF Stored, Readable, SaveInv, Known

LEMMA StoredIsLater ==
  ASSUME TypeOK', SaveInv'
  PROVE  Stored' \in Snapshot \cup {Garbage}
<1>1. file' \in Inode \cup {NoInode}
  BY DEF TypeOK
<1> QED
  BY <1>1 DEF Stored, Readable, SaveInv, Known

\* A step that keeps the saves under way and the file keeps their abstract view.
LEMMA SameView ==
  ASSUME TypeOK, SaveInv, saver' = saver, overlapped' = overlapped, file' = file,
         file # NoInode => content'[file] = content[file]
  PROVE  Taken' = Taken /\ Stored' = Stored
BY DEF Taken, Saving, Stored, Readable

LEMMA HandlerView ==
  ASSUME TypeOK, SaveInv, TypeOK', SaveInv', Write \/ ResetStore \/ RemoveFile
  PROVE  F!Next
<1>1. phase # "down" /\ phase' = phase /\ overlapped' = overlapped /\ saver' = saver
  BY DEF Write, ResetStore, RemoveFile, Serving
<1>2. CASE Write \/ ResetStore
  <2>1. Taken' = Taken /\ Stored' = Stored
    BY <1>2, SameView DEF Write, ResetStore, diskVars
  <2>2. mem' \in Snapshot
    BY DEF TypeOK
  <2> QED
    BY <1>1, <2>1, <2>2 DEF F!Change, F!Next
<1>3. CASE RemoveFile
  <2>1. Taken' = Taken
    BY <1>1 DEF Taken, Saving
  <2>2. Stored' = Garbage /\ mem' = mem
    BY <1>3 DEF RemoveFile, Stored, Readable
  <2> QED
    BY <1>1, <2>1, <2>2 DEF F!Erase, F!Next
<1> QED
  BY <1>2, <1>3

LEMMA SnapshotView ==
  ASSUME TypeOK, SaveInv, TypeOK', SaveInv', NEW p \in Saver,
         TakeSnapshot(p), ~Saving(p), phase # "down", phase' # "down",
         UNCHANGED <<mem, file, content>>
  PROVE  [F!Next]_(F!vars)
<1>1. Stored' = Stored
  BY DEF Stored, Readable
<1>2. saver'[p].pc = "marshalled" /\ saver'[p].snap = mem /\ Saving(p)'
  BY Facts DEF TakeSnapshot, Saving
<1>3. CASE overlapped
  <2>1. overlapped' /\ Taken' = Garbage /\ Taken = Garbage
    BY <1>3, TakenIs DEF TakeSnapshot, Taken
  <2> QED
    BY <1>1, <1>3, <2>1, Facts DEF F!vars, TakeSnapshot
<1>4. CASE ~overlapped /\ Saving(Other(p))
  <2>1. overlapped' = TRUE /\ Taken' = Garbage
    BY <1>4 DEF TakeSnapshot, Taken
  <2> QED
    BY <1>1, <2>1 DEF F!Collide, F!Next
<1>5. CASE ~overlapped /\ ~Saving(Other(p))
  <2>1. \A q \in Saver : ~Saving(q)
    BY <1>5 DEF Saver, Other
  <2>2. Taken = Garbage
    BY <2>1, TakenIs
  <2>3. ~overlapped'
    BY <1>5 DEF TakeSnapshot
  <2>4. \A q \in Saver : Saving(q)' <=> q = p
    BY <1>2, <2>1, Facts DEF TakeSnapshot, Saving
  <2>5. {q \in Saver : Saving(q)'} = {p} /\ (CHOOSE q \in {p} : TRUE) = p
    BY <2>4
  <2>6. Taken' = mem
    BY <1>2, <2>3, <2>5 DEF Taken
  <2>7. overlapped' = overlapped
    BY <1>5, <2>3, Facts DEF TakeSnapshot, TypeOK
  <2> QED
    BY <1>1, <1>5, <2>2, <2>6, <2>7 DEF F!Take, F!Next
<1> QED
  BY <1>3, <1>4, <1>5

LEMMA TmpView ==
  ASSUME TypeOK, SaveInv, TypeOK', SaveInv', NEW p \in Saver, OpenTmp(p) \/ WriteTmp(p)
  PROVE  [F!Next]_(F!vars)
<1>1. /\ phase' = phase /\ mem' = mem /\ overlapped' = overlapped /\ file' = file
      /\ Saving(p) /\ Saving(p)' /\ saver'[p].snap = saver[p].snap
      /\ \A q \in Saver \ {p} : saver'[q] = saver[q]
  BY Facts DEF OpenTmp, WriteTmp, Saving
<1>2. phase # "down"
  BY <1>1 DEF SaveInv, Phases, Saving, Saver, Idle
<1>3. Taken' = Taken
  <2>1. \A q \in Saver : (Saving(q)' <=> Saving(q)) /\ saver'[q].snap = saver[q].snap
    BY <1>1 DEF Saving
  <2>2. {q \in Saver : Saving(q)'} = {q \in Saver : Saving(q)}
    BY <2>1
  <2>3. (CHOOSE q \in {r \in Saver : Saving(r)} : TRUE) \in Saver
    BY <1>1
  <2> QED
    BY <1>1, <2>1, <2>2, <2>3 DEF Taken
<1>4. CASE ~overlapped \/ OpenTmp(p)
  <2>1. file # NoInode => content'[file] = content[file]
    BY <1>4, Facts DEF SaveInv, Undisturbed, OpenTmp, WriteTmp, Busy, InUse
  <2>2. Stored' = Stored
    BY <1>1, <2>1 DEF Stored, Readable
  <2> QED
    BY <1>1, <1>3, <2>2 DEF F!vars
<1>5. CASE overlapped
  <2>1. Stored' \in Snapshot \cup {Garbage}
    BY StoredIsLater
  <2> QED
    BY <1>1, <1>2, <1>3, <1>5, <2>1 DEF F!Muddle, F!Next
<1> QED
  BY <1>4, <1>5

LEMMA EndView ==
  ASSUME TypeOK, SaveInv, TypeOK', SaveInv', NEW p \in Saver, RenameTmp(p) \/ SaveFails(p)
  PROVE  F!Next
<1>1. /\ phase' = phase /\ mem' = mem /\ overlapped' = overlapped
      /\ Saving(p) /\ ~Saving(p)'
      /\ \A q \in Saver \ {p} : saver'[q] = saver[q]
  BY Facts DEF RenameTmp, SaveFails, Saving, Ended, Idle
<1>2. phase # "down"
  BY <1>1 DEF SaveInv, Phases, Saving, Saver, Idle
<1>3. CASE overlapped
  <2>1. Taken' = Taken
    BY <1>1, <1>3 DEF Taken
  <2>2. Stored' \in Snapshot \cup {Garbage}
    BY StoredIsLater
  <2> QED
    BY <1>1, <1>2, <1>3, <2>1, <2>2 DEF F!Muddle, F!Next
<1>4. CASE ~overlapped
  <2>1. \A q \in Saver : ~Saving(q)'
    BY <1>1, <1>4 DEF SaveInv, Undisturbed, Saving, Saver
  <2>2. Taken' = Garbage
    BY <2>1 DEF Taken
  <2>3. Taken = saver[p].snap /\ Taken # Garbage
    BY <1>1, <1>4, TakenIs, Facts, GarbageIsNoSnapshot
  <2>4. CASE RenameTmp(p)
    <3>1. file' # NoInode /\ content'[file'] = Whole(saver[p].snap)
      BY <1>4, <2>4 DEF SaveInv, Undisturbed, RenameTmp, Busy
    <3>2. Stored' = saver[p].snap
      BY <3>1 DEF Stored, Readable, Whole
    <3> QED
      BY <1>1, <2>2, <2>3, <3>2 DEF F!Put, F!Next
  <2>5. CASE SaveFails(p)
    <3>1. file' = file /\ (file # NoInode => content'[file] = content[file])
      BY <1>4, <2>5, InterruptedKeeps, Facts DEF SaveInv, Undisturbed, Busy, SaveFails
    <3>2. Stored' = Stored
      BY <3>1 DEF Stored, Readable
    <3> QED
      BY <1>1, <2>2, <3>2 DEF F!Drop, F!Next
  <2> QED
    BY <2>4, <2>5
<1> QED
  BY <1>3, <1>4

LEMMA ProcessView ==
  ASSUME TypeOK, SaveInv, TypeOK', SaveInv', Exit \/ Crash
  PROVE  F!Next
<1>1. /\ phase # "down" /\ phase' = "down" /\ saver' = [p \in Saver |-> Idle]
      /\ UNCHANGED <<mem, file, overlapped>>
  BY DEF Exit, Crash, Down
<1>2. Taken' = Garbage
  BY <1>1 DEF Taken, Saving, Idle
<1>3. PICK ps \in SUBSET Saver : content' \in Interrupted(ps)
  BY DEF Exit, Crash, Saver
<1>4. ~overlapped => Stored' = Stored
  <2>1. ~overlapped /\ file # NoInode => content'[file] = content[file]
    BY <1>3, InterruptedKeeps, Facts DEF SaveInv, Undisturbed, Busy
  <2> QED
    BY <1>1, <2>1 DEF Stored, Readable
<1>5. Stored' \in Snapshot \cup {Garbage}
  BY StoredIsLater
<1> QED
  BY <1>1, <1>2, <1>4, <1>5 DEF F!Stop, F!Next

LEMMA StartView ==
  ASSUME TypeOK, SaveInv, TypeOK', SaveInv', Start
  PROVE  F!Next
<1>1. /\ phase = "down" /\ phase' # "down" /\ mem' \in {Restored, NewStore}
      /\ overlapped' = (overlapped /\ file # NoInode /\ ~Readable)
      /\ saver' = saver /\ file' = file /\ content' = content
  BY DEF Start, LoadFails, diskVars
<1>2. \A p \in Saver : ~Saving(p)
  BY <1>1 DEF SaveInv, Phases, Saving, Saver, Idle
<1>3. Taken = Garbage /\ Taken' = Garbage
  BY <1>1, <1>2 DEF Taken, Saving
<1>4. Stored' = Stored
  BY <1>1 DEF Stored, Readable
<1>5. (Stored # Garbage /\ mem' = Stored) \/ mem' \in [gen : 0..MaxReset, count : {0}]
  <2>1. CASE mem' = NewStore
    BY <2>1 DEF NewStore, TypeOK
  <2>2. CASE mem' = Restored /\ Readable
    BY <2>2, StoredIs DEF Restored, Stored
  <2> QED
    BY <1>1, <2>1, <2>2 DEF Restored
<1>6. overlapped' \in {overlapped, FALSE}
  BY <1>1, Facts
<1> QED
  BY <1>1, <1>3, <1>4, <1>5, <1>6 DEF F!Start, F!Next

\* The state file is that of StateFile: saves are put in place whole or not at all, and a
\* start has what was left there or, if it cannot be loaded, nothing, until two saves
\* overlap (Save, Load, main).
THEOREM SavesImplementStateFile == Spec => ImplementsStateFile
<1>1. Init => F!Init
  BY PersistenceBounds DEF Init, F!Init, NoSnapshot, Taken, Stored, Readable, Saving, Idle
<1>2. TypeOK /\ SaveInv /\ TypeOK' /\ SaveInv' /\ [Next]_vars => [F!Next]_(F!vars)
  <2> SUFFICES ASSUME TypeOK, SaveInv, TypeOK', SaveInv', [Next]_vars PROVE [F!Next]_(F!vars)
    OBVIOUS
  <2>1. CASE Write \/ ResetStore \/ RemoveFile
    BY <2>1, HandlerView
  <2>2. ASSUME NEW p \in Saver, OpenTmp(p) \/ WriteTmp(p) \/ RenameTmp(p) \/ SaveFails(p)
        PROVE  [F!Next]_(F!vars)
    BY <2>2, TmpView, EndView
  <2>3. CASE LoopTick
    BY <2>3, SnapshotView DEF LoopTick, Saving, Saver, diskVars
  <2>4. CASE FinalSave
    BY <2>4, SnapshotView DEF FinalSave, Saving, Saver, diskVars, SaveInv, Phases, Idle
  <2>5. CASE LoopExit \/ Signal \/ UNCHANGED vars
    <3>1. Taken' = Taken /\ Stored' = Stored
      BY <2>5, SameView DEF LoopExit, Signal, vars, diskVars
    <3> QED
      BY <2>5, <3>1 DEF LoopExit, Signal, vars, F!vars
  <2>6. CASE Exit \/ Crash \/ Start
    BY <2>6, ProcessView, StartView
  <2> QED
    BY <2>1, <2>2, <2>3, <2>4, <2>5, <2>6 DEF Next
<1> QED
  BY <1>1, <1>2, SaveInvariant, PTL DEF Spec, ImplementsStateFile, F!Spec

=============================================================================
