------------------------ MODULE DaemonConfig_proofs ------------------------
(***************************************************************************)
(* Commands that do not overlap all count, for any number of processes and *)
(* directories.  While no stale copy has been saved, at most one process   *)
(* is, or died, in the middle of a save; every copy loaded before is then  *)
(* known to be stale, and a copy that is not stale is what its command     *)
(* makes of the commands before it.                                        *)
(***************************************************************************)
EXTENDS DaemonConfig, Lists_proofs, TLAPS

\* p is in the middle of a save, or died there.
Midway(p) == proc[p].at \in {"writing", "torn"}

\* p holds a copy.
Holds(p) == proc[p].at \in {"loaded", "writing"}

\* How a command ends.
Ended == {"done", "refused", "ran", "barred"}

\* A process that holds a copy has all the fields of one.
Shape ==
    /\ DOMAIN proc = Proc
    /\ \A p \in Proc :
          Holds(p) =>
             /\ proc[p] = [at |-> proc[p].at, cmd |-> proc[p].cmd,
                           copy |-> proc[p].copy, stale |-> proc[p].stale]
             /\ proc[p].stale \in BOOLEAN

OneMidway == \A p, q \in Proc : Midway(p) /\ Midway(q) => p = q

MidwayIsEmpty ==
    \A p \in Proc : Midway(p) =>
       /\ file = Empty
       /\ \A q \in Proc : proc[q].at = "loaded" => proc[q].stale

FreshCopies ==
    \A p \in Proc :
       proc[p].at = "writing" \/ (proc[p].at = "loaded" /\ ~proc[p].stale)
          => proc[p].copy = Applied(p, proc[p].cmd, intended)

ConfigInv ==
    /\ Shape
    /\ raced \in BOOLEAN
    /\ ~raced => OneMidway /\ MidwayIsEmpty /\ FreshCopies
    /\ SettledFileIsIntended

\* No process holds a copy before the first command.
LEMMA ConfigInitially == Init => ConfigInv
<1>1. SUFFICES ASSUME Init PROVE ConfigInv
  OBVIOUS
<1>2. \A p \in Proc : proc[p] = Idle
  BY <1>1 DEF Init
<1>3. \A p \in Proc : proc[p].at = "idle"
  BY <1>2 DEF Idle
<1>4. Readable(file) /\ file.config = intended
  BY <1>1 DEF Init, Readable, Absent, Holding
<1>5. DOMAIN proc = Proc /\ raced = FALSE
  BY <1>1 DEF Init
<1> QED
  BY <1>3, <1>4, <1>5 DEF ConfigInv, Shape, OneMidway, MidwayIsEmpty,
     FreshCopies, Midway, Holds, SettledFileIsIntended

\* What Loaded returns: a process that has ended, or a copy of the file.
LEMMA LoadedResult ==
    ASSUME NEW p, NEW cmd
    PROVE  LET l == Loaded(p, cmd)
           IN  \/ l.at \in Ended
               \/ /\ l = [at |-> "loaded", cmd |-> cmd,
                          copy |-> Applied(p, cmd, file.config), stale |-> FALSE]
                  /\ Readable(file)
BY DEF Loaded, Outcome, Ended

\* Loading takes a copy of the file, which is current when nobody saves.
LEMMA LoadKeeps ==
    ASSUME ConfigInv, NEW p \in Proc, Load(p)
    PROVE  ConfigInv'
<1>1. PICK cmd \in Command : proc' = [proc EXCEPT ![p] = Loaded(p, cmd)]
  BY DEF Load
<1>2. UNCHANGED <<file, intended, raced>> /\ proc[p].at = "idle"
  BY DEF Load, Idle
<1>3. proc'[p] = Loaded(p, cmd) /\ \A q \in Proc : q # p => proc'[q] = proc[q]
  BY <1>1 DEF ConfigInv, Shape
<1>4. CASE proc'[p].at \in Ended
  <2>1. ~Midway(p) /\ ~Midway(p)' /\ ~Holds(p)'
    BY <1>2, <1>4 DEF Midway, Holds, Ended
  <2>2. Shape'
    BY <1>1, <1>3, <2>1 DEF ConfigInv, Shape, Holds
  <2>3. (~raced => OneMidway /\ MidwayIsEmpty /\ FreshCopies)'
    BY <1>2, <1>3, <1>4 DEF ConfigInv, OneMidway, MidwayIsEmpty, FreshCopies, Midway, Ended
  <2>4. SettledFileIsIntended'
    BY <1>2, <1>3, <1>4 DEF ConfigInv, SettledFileIsIntended, Settled, Ended
  <2> QED
    BY <1>2, <2>2, <2>3, <2>4 DEF ConfigInv
<1>5. CASE /\ proc'[p] = [at |-> "loaded", cmd |-> cmd,
                          copy |-> Applied(p, cmd, file.config), stale |-> FALSE]
           /\ Readable(file)
  <2>1. ~raced => \A q \in Proc : ~Midway(q)
    BY <1>5 DEF ConfigInv, MidwayIsEmpty, Readable, Empty
  <2>2. ~raced => file.config = intended
    BY <2>1 DEF ConfigInv, SettledFileIsIntended, Settled, Midway
  <2>3. Shape'
    <3>1. /\ proc'[p].at = "loaded" /\ proc'[p].cmd = cmd
          /\ proc'[p].copy = Applied(p, cmd, file.config)
          /\ proc'[p].stale = FALSE
      BY <1>5
    <3>2. /\ proc'[p] = [at |-> proc'[p].at, cmd |-> proc'[p].cmd,
                         copy |-> proc'[p].copy, stale |-> proc'[p].stale]
          /\ proc'[p].stale \in BOOLEAN
      BY <1>5, <3>1
    <3>3. DOMAIN proc' = Proc
      BY <1>1 DEF ConfigInv, Shape
    <3> QED
      BY <1>3, <3>2, <3>3 DEF ConfigInv, Shape, Holds
  <2>4. (~raced => OneMidway /\ MidwayIsEmpty)'
    BY <1>2, <1>3, <1>5, <2>1 DEF OneMidway, MidwayIsEmpty, Midway
  <2>5. (~raced => FreshCopies)'
    BY <1>2, <1>3, <1>5, <2>2 DEF ConfigInv, FreshCopies
  <2>6. SettledFileIsIntended'
    BY <1>2, <1>5, <2>2 DEF SettledFileIsIntended, Settled
  <2> QED
    BY <1>2, <2>3, <2>4, <2>5, <2>6 DEF ConfigInv
<1> QED
  BY <1>3, <1>4, <1>5, LoadedResult

\* A save that starts with a current copy finds no other under way, and makes
\* every other copy stale.
LEMMA TruncateKeeps ==
    ASSUME ConfigInv, NEW p \in Proc, Truncate(p)
    PROVE  ConfigInv'
<1>1. /\ proc[p].at = "loaded" /\ file' = Empty
      /\ raced' = (raced \/ proc[p].stale) /\ intended' = intended
  BY DEF Truncate
<1>2. \A q \in Proc : proc'[q] =
         IF q = p THEN [proc[q] EXCEPT !.at = "writing"]
         ELSE IF proc[q].at = "loaded" THEN [proc[q] EXCEPT !.stale = TRUE]
         ELSE proc[q]
  BY DEF Truncate
<1>3. /\ proc'[p].at = "writing" /\ proc'[p].cmd = proc[p].cmd
      /\ proc'[p].copy = proc[p].copy /\ proc'[p].stale = proc[p].stale
  BY <1>1, <1>2 DEF ConfigInv, Shape, Holds
<1>4. \A q \in Proc \ {p} : proc'[q].at = proc[q].at
  BY <1>2 DEF ConfigInv, Shape, Holds
<1>5. \A q \in Proc : proc'[q].at = "loaded" =>
         q # p /\ proc[q].at = "loaded" /\ proc'[q].stale = TRUE
  BY <1>2, <1>3, <1>4 DEF ConfigInv, Shape, Holds
<1>6. Shape'
  <2>1. DOMAIN proc' = Proc
    BY DEF Truncate
  <2>2. ASSUME NEW q \in Proc, Holds(q)'
        PROVE  /\ proc'[q] = [at |-> proc'[q].at, cmd |-> proc'[q].cmd,
                              copy |-> proc'[q].copy, stale |-> proc'[q].stale]
               /\ proc'[q].stale \in BOOLEAN
    BY <1>1, <1>2, <1>4, <2>2 DEF ConfigInv, Shape, Holds
  <2> QED
    BY <2>1, <2>2 DEF Shape
<1>7. ASSUME ~raced' PROVE (OneMidway /\ MidwayIsEmpty /\ FreshCopies)'
  <2>1. ~raced /\ ~proc[p].stale
    BY <1>1, <1>7 DEF ConfigInv, Shape, Holds
  <2>2. \A q \in Proc : ~Midway(q)
    BY <1>1, <2>1 DEF ConfigInv, MidwayIsEmpty
  <2>3. \A q \in Proc : Midway(q)' => q = p
    BY <1>4, <2>2 DEF Midway
  <2>4. \A q \in Proc : proc'[q].at = "writing" => q = p
    BY <2>3 DEF Midway
  <2>5. proc[p].copy = Applied(p, proc[p].cmd, intended)
    BY <1>1, <2>1 DEF ConfigInv, FreshCopies
  <2>6. FreshCopies'
    BY <1>1, <1>3, <1>5, <2>4, <2>5 DEF FreshCopies
  <2> QED
    BY <1>1, <1>5, <2>3, <2>6 DEF OneMidway, MidwayIsEmpty
<1>8. ~Settled'
  BY <1>3 DEF Settled
<1> QED
  BY <1>1, <1>6, <1>7, <1>8 DEF ConfigInv, SettledFileIsIntended, Shape, Holds

\* A save that ends leaves what the commands so far amount to.
LEMMA WriteKeeps ==
    ASSUME ConfigInv, NEW p \in Proc, Write(p)
    PROVE  ConfigInv'
<1>1. /\ proc[p].at = "writing" /\ raced' = raced
      /\ intended' = Applied(p, proc[p].cmd, intended)
  BY DEF Write
<1>2. proc' = [proc EXCEPT ![p] = [at |-> Outcome(proc[p].cmd, proc[p].copy)]]
  BY DEF Write
<1>3. /\ proc'[p].at \in Ended
      /\ \A q \in Proc : q # p => proc'[q] = proc[q]
  BY <1>2 DEF ConfigInv, Shape, Outcome, Ended
<1>4. Shape'
  BY <1>2, <1>3 DEF ConfigInv, Shape, Holds, Ended
<1>5. ASSUME ~raced PROVE /\ (OneMidway /\ MidwayIsEmpty /\ FreshCopies)'
                          /\ Readable(file)' /\ file'.config = intended'
  <2>1. /\ Midway(p) /\ file = Empty
        /\ \A q \in Proc : Midway(q) => q = p
        /\ \A q \in Proc : proc[q].at = "loaded" => proc[q].stale
    BY <1>1, <1>5 DEF ConfigInv, OneMidway, MidwayIsEmpty, Midway
  <2>2. file' = Holding(proc[p].copy)
    BY <2>1 DEF Write
  <2>3. proc[p].copy = intended'
    BY <1>1, <1>5 DEF ConfigInv, FreshCopies
  <2>4. \A q \in Proc : ~Midway(q)'
    BY <1>3, <2>1 DEF Midway, Ended
  <2>5. FreshCopies'
    BY <1>3, <2>1, <2>4 DEF FreshCopies, Midway, Ended
  <2> QED
    BY <2>2, <2>3, <2>4, <2>5 DEF OneMidway, MidwayIsEmpty, Readable, Holding
<1> QED
  BY <1>1, <1>4, <1>5 DEF ConfigInv, SettledFileIsIntended, Settled

\* q may stand for p once p's copy is given up: p stays midway if it was, and is
\* otherwise out of the way.
GivenUp(p, q) ==
    \/ proc[p].at = "writing" /\ q.at = "torn"
    \/ proc[p].at = "loaded" /\ q.at \in {"gone", "ran", "barred"}

LEMMA HaltedKeeps ==
    ASSUME ConfigInv, UNCHANGED <<file, intended, raced>>,
           DOMAIN proc' = Proc,
           \A p \in Proc : proc'[p] = proc[p] \/ GivenUp(p, proc'[p])
    PROVE  ConfigInv'
<1>1. \A p \in Proc : Midway(p)' = Midway(p)
  BY DEF Midway, Holds, GivenUp
<1>2. \A p \in Proc : Holds(p)' => proc'[p] = proc[p]
  BY DEF Holds, GivenUp
<1>3. Shape'
  BY <1>2 DEF ConfigInv, Shape, Holds
<1>4. (~raced => OneMidway /\ MidwayIsEmpty /\ FreshCopies)'
  BY <1>1, <1>2 DEF ConfigInv, OneMidway, MidwayIsEmpty, FreshCopies, Holds
<1>5. SettledFileIsIntended'
  BY <1>1 DEF ConfigInv, SettledFileIsIntended, Settled, Midway
<1> QED
  BY <1>3, <1>4, <1>5 DEF ConfigInv

LEMMA HaltedGivesUp ==
    ASSUME NEW p \in Proc, Holds(p)
    PROVE  GivenUp(p, Halted(proc[p]))
BY DEF Holds, GivenUp, Halted

\* The invariant survives every step.
LEMMA ConfigStep == ConfigInv /\ [Next]_vars => ConfigInv'
<1>1. SUFFICES ASSUME ConfigInv, [Next]_vars PROVE ConfigInv'
  OBVIOUS
<1>2. ASSUME UNCHANGED <<file, proc, intended, raced>> PROVE ConfigInv'
  BY <1>1, <1>2 DEF ConfigInv, Shape, OneMidway, MidwayIsEmpty, FreshCopies,
     Midway, Holds, SettledFileIsIntended, Settled
<1>3. ASSUME NEW p \in Proc, Interrupt(p) PROVE ConfigInv'
  <2>1. /\ UNCHANGED <<file, intended, raced>> /\ Holds(p)
        /\ proc' = [proc EXCEPT ![p] = Halted(proc[p])]
    BY <1>3 DEF Interrupt, Holds
  <2> QED
    BY <1>1, <2>1, HaltedGivesUp, HaltedKeeps DEF ConfigInv, Shape
<1>4. CASE StopDaemon
  <2>1. UNCHANGED <<file, intended, raced>> /\ DOMAIN proc' = Proc
    BY <1>4 DEF StopDaemon
  <2>2. \A p \in Proc : proc'[p] = proc[p]
                        \/ (Holds(p) /\ proc'[p] = Halted(proc[p]))
    BY <1>4 DEF StopDaemon, Holds
  <2> QED
    BY <1>1, <2>1, <2>2, HaltedGivesUp, HaltedKeeps
<1>5. CASE StartDaemon
  BY <1>2, <1>5 DEF StartDaemon
<1>6. CASE \E r \in Root : HandleRunPrompt(r) \/ EndRun(r)
  BY <1>2, <1>6 DEF HandleRunPrompt, EndRun
<1>7. ASSUME NEW p \in Proc, RunUnsaved(p) PROVE ConfigInv'
  <2>1. UNCHANGED <<file, intended, raced>> /\ proc[p].at = "loaded"
    BY <1>7 DEF RunUnsaved
  <2> DEFINE q == [at |-> Outcome(proc[p].cmd, proc[p].copy)]
  <2>2. q.at \in {"ran", "barred"}
    BY <1>7 DEF RunUnsaved, Outcome
  <2>3. proc' = [proc EXCEPT ![p] = q]
    BY <1>7 DEF RunUnsaved
  <2> HIDE DEF q
  <2> QED
    BY <1>1, <2>1, <2>2, <2>3, HaltedKeeps DEF ConfigInv, Shape, GivenUp
<1>8. CASE UNCHANGED vars
  BY <1>2, <1>8 DEF vars
<1> QED
  BY <1>1, <1>3, <1>4, <1>5, <1>6, <1>7, <1>8, LoadKeeps, TruncateKeeps, WriteKeeps DEF Next

\* Commands that do not overlap all count, in their order, and the file can be
\* read whenever nobody saves, died while saving or saved a stale copy.
THEOREM CommandsCount == Spec => []SettledFileIsIntended
<1>1. ConfigInv => SettledFileIsIntended
  BY DEF ConfigInv
<1> QED
  BY <1>1, ConfigInitially, ConfigStep, PTL DEF Spec

-----------------------------------------------------------------------------
\* The fields a configuration has.
Fields(c) == DOMAIN c = {"token", "allowed", "codex", "args", "snapshot"}

\* No command takes or adds a field, and mending the flags leaves the consent
\* to codex alone.
LEMMA AppliedKeeps ==
    ASSUME NEW p, NEW cmd \in Command, NEW c, Fields(c)
    PROVE  /\ Fields(Applied(p, cmd, c))
           /\ cmd.do = "codex" => Applied(p, cmd, c).codex = c.codex
<1>1. cmd.do \in {"login", "disable", "install", "ui", "codex",
                  "allow", "deny", "enable"}
  BY DEF Command
<1>2. CASE cmd.do = "codex"
  BY <1>2 DEF Applied, Fields
<1>3. CASE cmd.do = "enable"
  BY <1>3 DEF Applied, Fields
<1>4. CASE cmd.do = "deny"
  BY <1>4 DEF Applied, Fields
<1>5. CASE cmd.do \notin {"codex", "enable", "deny"}
  BY <1>1, <1>5 DEF Applied, Fields
<1> QED
  BY <1>2, <1>3, <1>4, <1>5

\* The commands under way are commands, and what they amount to has its fields.
FieldInv ==
    /\ Fields(intended)
    /\ \A p \in Proc : Holds(p) => proc[p].cmd \in Command

\* The fields are there from the start.
LEMMA FieldInitially == Init => FieldInv
<1>1. SUFFICES ASSUME Init PROVE FieldInv
  OBVIOUS
<1>2. \A p \in Proc : ~Holds(p)
  BY <1>1 DEF Init, Holds, Idle
<1>3. Fields(Default)
  BY DEF Fields, Default
<1>4. Fields(Inherited)
  BY <1>3 DEF Fields, Inherited
<1>5. intended \in {Default, Inherited}
  BY <1>1 DEF Init, Absent, Holding
<1> QED
  BY <1>2, <1>3, <1>4, <1>5 DEF FieldInv

\* Every step keeps them.
LEMMA FieldStep == ConfigInv /\ FieldInv /\ [Next]_vars => FieldInv'
<1>1. SUFFICES ASSUME ConfigInv, FieldInv, [Next]_vars PROVE FieldInv'
  OBVIOUS
<1>2. ASSUME UNCHANGED <<proc, intended>> PROVE FieldInv'
  BY <1>1, <1>2 DEF FieldInv, Fields, Holds
<1>3. ASSUME NEW p \in Proc, Load(p) PROVE FieldInv'
  <2>1. PICK cmd \in Command : proc' = [proc EXCEPT ![p] = Loaded(p, cmd)]
    BY <1>3 DEF Load
  <2>2. Loaded(p, cmd).at = "loaded" => Loaded(p, cmd).cmd = cmd
    BY LoadedResult DEF Ended
  <2>3. Loaded(p, cmd).at # "writing"
    BY LoadedResult DEF Ended
  <2>4. intended' = intended
    BY <1>3 DEF Load
  <2>5. /\ proc'[p] = Loaded(p, cmd)
        /\ \A q \in Proc : q # p => proc'[q] = proc[q]
    BY <1>1, <2>1 DEF ConfigInv, Shape
  <2> QED
    BY <1>1, <2>2, <2>3, <2>4, <2>5 DEF FieldInv, Holds
<1>4. ASSUME NEW p \in Proc, Truncate(p) PROVE FieldInv'
  <2>1. \A q \in Proc : Holds(q)' => Holds(q) /\ proc'[q].cmd = proc[q].cmd
    <3>1. ASSUME NEW q \in Proc, Holds(q)'
          PROVE  Holds(q) /\ proc'[q].cmd = proc[q].cmd
      <4>1. proc'[q] = IF q = p THEN [proc[q] EXCEPT !.at = "writing"]
                       ELSE IF proc[q].at = "loaded"
                            THEN [proc[q] EXCEPT !.stale = TRUE] ELSE proc[q]
        BY <1>4 DEF Truncate
      <4>2. Holds(q)
        BY <1>4, <3>1, <4>1 DEF Truncate, Holds
      <4> QED
        BY <1>1, <4>1, <4>2 DEF ConfigInv, Shape
    <3> QED
      BY <3>1
  <2> QED
    BY <1>1, <1>4, <2>1 DEF FieldInv, Truncate
<1>5. ASSUME NEW p \in Proc, Write(p) PROVE FieldInv'
  <2>1. Fields(intended')
    BY <1>1, <1>5, AppliedKeeps DEF FieldInv, Write, Holds
  <2>2. \A q \in Proc : Holds(q)' => q # p /\ proc'[q] = proc[q]
    BY <1>1, <1>5 DEF ConfigInv, Shape, Write, Holds, Outcome
  <2> QED
    BY <1>1, <2>1, <2>2 DEF FieldInv, Holds
<1>6. ASSUME NEW p \in Proc, Interrupt(p) PROVE FieldInv'
  BY <1>1, <1>6 DEF ConfigInv, Shape, FieldInv, Interrupt, Halted, Holds
<1>7. CASE StopDaemon
  BY <1>1, <1>7 DEF FieldInv, StopDaemon, Halted, Holds
<1>8. CASE StartDaemon
  BY <1>2, <1>8 DEF StartDaemon
<1>9. CASE \E r \in Root : HandleRunPrompt(r) \/ EndRun(r)
  BY <1>2, <1>9 DEF HandleRunPrompt, EndRun
<1>10. ASSUME NEW p \in Proc, RunUnsaved(p) PROVE FieldInv'
  <2>1. \A q \in Proc : Holds(q)' => q # p /\ proc'[q] = proc[q]
    BY <1>1, <1>10 DEF ConfigInv, Shape, RunUnsaved, Holds, Outcome
  <2> QED
    BY <1>1, <1>10, <2>1 DEF FieldInv, Holds, RunUnsaved
<1>11. CASE UNCHANGED vars
  BY <1>2, <1>11 DEF vars
<1> QED
  BY <1>1, <1>3, <1>4, <1>5, <1>6, <1>7, <1>8, <1>9, <1>10, <1>11 DEF Next

\* A prompt is decided by the file, which is what the commands amount to.
LEMMA GateFollows ==
    ASSUME ConfigInv, NEW s \in Root, HandleRunPrompt(s)
    PROVE  FollowCommands
<1>1. SUFFICES ASSUME Settled' PROVE FollowCommands
  BY DEF FollowCommands
<1>2. Readable(file) /\ file.config = intended
  BY <1>1 DEF HandleRunPrompt, ConfigInv, SettledFileIsIntended, Settled
<1>3. proc' = proc
  BY DEF HandleRunPrompt
<1>4. ASSUME NEW r \in Root, prompt[r] = "idle", prompt'[r] # "idle"
      PROVE  (prompt'[r] = "running") = Admits(intended.allowed, r)
  <2>1. r = s /\ prompt'[r] = IF ~Admits(intended.allowed, r) THEN "refused" ELSE "running"
    BY <1>2, <1>4 DEF HandleRunPrompt
  <2> QED
    BY <2>1 DEF Admits
<1> QED
  BY <1>3, <1>4 DEF FollowCommands, Decides

\* A codex run that finds its flags in order is decided by the file too.
LEMMA LoadFollows ==
    ASSUME ConfigInv, NEW p \in Proc, Load(p)
    PROVE  FollowCommands
<1>1. SUFFICES ASSUME Settled', Decides(p) PROVE proc'[p].at = "ran" <=> intended.codex
  <2>1. prompt' = prompt /\ \A q \in Proc : q # p => proc'[q] = proc[q]
    BY DEF Load, ConfigInv, Shape
  <2> QED
    BY <2>1 DEF FollowCommands, Decides
<1>2. PICK cmd \in Command : proc' = [proc EXCEPT ![p] = Loaded(p, cmd)]
  BY DEF Load
<1>3. /\ proc'[p] = Loaded(p, cmd) /\ UNCHANGED <<file, intended, raced>>
      /\ \A q \in Proc : q # p => proc'[q] = proc[q]
  BY <1>2 DEF Load, ConfigInv, Shape
<1>4. Settled
  BY <1>1, <1>3 DEF Load, Idle, Settled
<1>5. Readable(file) /\ file.config = intended
  BY <1>4 DEF ConfigInv, SettledFileIsIntended
<1>6. proc'[p].at = Outcome(cmd, intended) /\ cmd.do = "codex"
  BY <1>1, <1>3, <1>5 DEF Decides, Loaded, Outcome
<1> QED
  BY <1>6 DEF Outcome

\* A codex run that has mended its flags goes ahead by what it has saved, or
\* would have, which in its consent is what the commands amount to.
LEMMA CopyFollows ==
    ASSUME ConfigInv, FieldInv, NEW p \in Proc, Holds(p), ~raced,
           proc[p].at = "loaded" => ~proc[p].stale, prompt' = prompt,
           \A q \in Proc : q # p => proc'[q] = proc[q],
           proc'[p].at = Outcome(proc[p].cmd, proc[p].copy)
    PROVE  FollowCommands
<1>1. SUFFICES ASSUME Decides(p) PROVE proc'[p].at = "ran" <=> intended.codex
  BY DEF FollowCommands, Decides
<1>2. proc[p].cmd.do = "codex"
  BY <1>1 DEF Decides, Outcome
<1>3. proc[p].copy = Applied(p, proc[p].cmd, intended)
  BY DEF ConfigInv, FreshCopies, Holds, Shape
<1>4. proc[p].copy.codex = intended.codex
  BY <1>2, <1>3, AppliedKeeps DEF FieldInv
<1> QED
  BY <1>2, <1>4 DEF Outcome

LEMMA WriteFollows ==
    ASSUME ConfigInv, FieldInv, NEW p \in Proc, Write(p)
    PROVE  FollowCommands
<1>1. SUFFICES ASSUME Settled' PROVE FollowCommands
  BY DEF FollowCommands
<1>2. ~raced /\ prompt' = prompt /\ proc[p].at = "writing"
  BY <1>1 DEF Write, Settled
<1>3. /\ \A q \in Proc : q # p => proc'[q] = proc[q]
      /\ proc'[p].at = Outcome(proc[p].cmd, proc[p].copy)
  BY DEF Write, ConfigInv, Shape
<1> QED
  BY <1>2, <1>3, CopyFollows DEF Holds

LEMMA UnsavedFollows ==
    ASSUME ConfigInv, FieldInv, NEW p \in Proc, RunUnsaved(p)
    PROVE  FollowCommands
<1>1. /\ proc[p].at = "loaded" /\ prompt' = prompt /\ raced' = raced
      /\ \A q \in Proc : q # p => proc'[q] = proc[q]
      /\ proc'[p].at = Outcome(proc[p].cmd, proc[p].copy)
  BY DEF RunUnsaved, ConfigInv, Shape
<1>2. CASE raced \/ proc[p].stale
  BY <1>1, <1>2 DEF FollowCommands, Settled, Decides
<1>3. CASE ~raced /\ ~proc[p].stale
  BY <1>1, <1>3, CopyFollows DEF Holds
<1> QED
  BY <1>2, <1>3

\* No other step decides on a prompt or a codex run.
LEMMA OthersFollow ==
    ASSUME \A r \in Root : prompt'[r] # "idle" => prompt'[r] = prompt[r],
           \A p \in Proc : proc'[p].at \in {"ran", "barred"} => proc'[p] = proc[p]
    PROVE  FollowCommands
BY DEF FollowCommands, Decides

\* Every step of the specification follows the commands.
LEMMA StepFollows == ConfigInv /\ FieldInv /\ [Next]_vars => [FollowCommands]_vars
<1>1. SUFFICES ASSUME ConfigInv, FieldInv, Next PROVE FollowCommands
  OBVIOUS
<1>2. ASSUME NEW p \in Proc, Truncate(p) PROVE FollowCommands
  <2>1. ASSUME NEW q \in Proc, proc'[q].at \in {"ran", "barred"}
        PROVE  proc'[q] = proc[q]
    <3>1. proc'[q] = IF q = p THEN [proc[q] EXCEPT !.at = "writing"]
                     ELSE IF proc[q].at = "loaded" THEN [proc[q] EXCEPT !.stale = TRUE]
                     ELSE proc[q]
      BY <1>2 DEF Truncate
    <3> QED
      BY <1>1, <1>2, <2>1, <3>1 DEF Truncate, ConfigInv, Shape, Holds
  <2> QED
    BY <1>2, <2>1, OthersFollow DEF Truncate
<1>3. ASSUME NEW p \in Proc, Interrupt(p) PROVE FollowCommands
  <2>1. \A q \in Proc : proc'[q].at \in {"ran", "barred"} => proc'[q] = proc[q]
    BY <1>1, <1>3 DEF Interrupt, Halted, ConfigInv, Shape
  <2> QED
    BY <1>3, <2>1, OthersFollow DEF Interrupt
<1>4. CASE StartDaemon
  BY <1>4, OthersFollow DEF StartDaemon
<1>5. CASE StopDaemon
  <2>1. \A q \in Proc : proc'[q].at \in {"ran", "barred"} => proc'[q] = proc[q]
    BY <1>5 DEF StopDaemon, Halted
  <2> QED
    BY <1>5, <2>1, OthersFollow DEF StopDaemon
<1>6. ASSUME NEW r \in Root, EndRun(r) PROVE FollowCommands
  BY <1>6, OthersFollow DEF EndRun
<1> QED
  BY <1>1, <1>2, <1>3, <1>4, <1>5, <1>6, LoadFollows, GateFollows, WriteFollows,
     UnsavedFollows DEF Next

\* While commands do not overlap, prompts and codex runs are let in or refused by
\* what the commands so far amount to.
THEOREM GatesFollowCommands == Spec => PromptsFollowCommands
<1> QED
  BY ConfigInitially, ConfigStep, FieldInitially, FieldStep, StepFollows, PTL
     DEF Spec, PromptsFollowCommands

-----------------------------------------------------------------------------
(* Types *)

\* Allowing appends a directory that is not there, denying keeps the others.
LEMMA AppliedTyped ==
    ASSUME NEW p \in Proc, NEW cmd \in Command, NEW c \in Config
    PROVE  /\ Applied(p, cmd, c) \in Config
           /\ Saves(cmd, c) /\ IsInjective(c.allowed) => IsInjective(Applied(p, cmd, c).allowed)
<1>1. cmd.do \in {"login", "disable", "install", "ui", "codex",
                  "allow", "deny", "enable"}
  BY DEF Command
<1>2. /\ c.token \in Proc \cup {NoToken} /\ c.allowed \in Seq(Root) /\ c.codex \in BOOLEAN
      /\ c.args \in {"", "odd", "good"} /\ c.snapshot \in BOOLEAN
      /\ c = [token |-> c.token, allowed |-> c.allowed, codex |-> c.codex,
              args |-> c.args, snapshot |-> c.snapshot]
  BY DEF Config
<1> DEFINE a == Applied(p, cmd, c)
<1>3. CASE cmd.do = "allow"
  <2> DEFINE l == Append(c.allowed, cmd.root)
  <2>1. cmd.root \in Root /\ c.allowed \in Seq(Root)
    BY <1>2, <1>3 DEF Command
  <2>2. l \in Seq(Root)
    BY <2>1
  <2>3. Saves(cmd, c) /\ IsInjective(c.allowed) => IsInjective(l)
    BY <1>3, <2>1, AppendList DEF Saves
  <2>4. a = [c EXCEPT !.allowed = l]
    BY <1>3 DEF Applied
  <2> HIDE DEF l
  <2>5. a \in Config /\ a.allowed = l
    BY <1>2, <2>2, <2>4 DEF Config
  <2> QED
    BY <2>3, <2>5
<1>4. CASE cmd.do = "deny"
  <2> DEFINE l == Keep(c.allowed, Root \ {cmd.root})
  <2>1. c.allowed \in Seq(Root)
    BY <1>2
  <2>2. l \in Seq(Root) /\ (IsInjective(c.allowed) => IsInjective(l))
    BY <2>1, KeepList
  <2>3. a = [c EXCEPT !.allowed = l]
    BY <1>4 DEF Applied
  <2> HIDE DEF l
  <2>4. a \in Config /\ a.allowed = l
    BY <1>2, <2>2, <2>3 DEF Config
  <2> QED
    BY <2>2, <2>4
<1>5. CASE cmd.do = "login"
  BY <1>2, <1>5 DEF Applied, Config
<1>6. CASE cmd.do = "enable"
  <2>1. \E x \in {"", "odd", "good"} : a = [c EXCEPT !.codex = TRUE, !.args = x]
    BY <1>2, <1>6 DEF Applied, Command
  <2> QED
    BY <1>2, <2>1 DEF Config
<1>7. CASE cmd.do \in {"disable", "install"}
  BY <1>2, <1>7 DEF Applied, Config
<1>8. CASE cmd.do \in {"ui", "codex"}
  BY <1>2, <1>8 DEF Applied, Config
<1> QED
  BY <1>1, <1>3, <1>4, <1>5, <1>6, <1>7, <1>8

\* The defaults, and what v0.1.17 left behind, are configurations.
LEMMA DefaultTyped ==
    /\ Default \in Config /\ Inherited \in Config
    /\ IsInjective(Default.allowed) /\ IsInjective(Inherited.allowed)
<1> DEFINE none == <<>>
<1>1. none \in Seq(Root) /\ IsInjective(none)
  BY EmptyList
<1> HIDE DEF none
<1>2. Default = [token |-> NoToken, allowed |-> none, codex |-> FALSE,
                 args |-> "", snapshot |-> FALSE]
  BY DEF Default, none
<1>3. Inherited = [token |-> NoToken, allowed |-> none, codex |-> TRUE,
                   args |-> "odd", snapshot |-> FALSE]
  <2> HIDE DEF none
  <2>1. Inherited = [Default EXCEPT !.codex = TRUE, !.args = "odd"]
    BY DEF Inherited
  <2> QED
    BY <1>2, <2>1
<1> QED
  BY <1>1, <1>2, <1>3 DEF Config

\* A copy lists no directory twice either: it comes from the file and goes there.
TypeInv ==
    /\ TypeOK
    /\ \A p \in Proc : Holds(p) => IsInjective(proc[p].copy.allowed)

\* What a process is that holds a copy, and one that does not.
HolderState == [at : {"loaded", "writing"}, cmd : Command, copy : Config, stale : BOOLEAN]
OtherState  == [at : {"idle", "done", "refused", "ran", "barred", "gone", "torn"}]

LEMMA HolderHolds ==
    ASSUME NEW q \in ProcState
    PROVE  \/ q \in HolderState /\ q.at \in {"loaded", "writing"}
           \/ q \in OtherState /\ q.at \notin {"loaded", "writing"}
BY DEF ProcState, HolderState, OtherState

\* It holds at the start.
LEMMA TypeInitially == Init => TypeInv
<1>1. SUFFICES ASSUME Init PROVE TypeInv
  OBVIOUS
<1>2. Idle \in ProcState /\ Idle.at = "idle"
  BY DEF Idle, ProcState
<1>3. proc \in [Proc -> ProcState] /\ \A p \in Proc : ~Holds(p)
  BY <1>1, <1>2 DEF Init, Holds
<1>4. \E c \in {Default, Inherited} :
         /\ file.config = c /\ intended = c
         /\ file = [is |-> file.is, config |-> c] /\ file.is \in {"absent", "parsed"}
  BY <1>1 DEF Init, Absent, Holding
<1>5. file \in File /\ intended \in Config /\ IsInjective(file.config.allowed)
  BY <1>4, DefaultTyped DEF File
<1>6. /\ daemon \in [up : BOOLEAN, config : Config]
      /\ prompt \in [Root -> {"idle", "running", "refused"}]
      /\ raced \in BOOLEAN
  BY <1>1, DefaultTyped DEF Init, Down
<1> QED
  BY <1>3, <1>5, <1>6 DEF TypeInv, TypeOK

\* Loading changes one process, to one that has ended or holds a copy.
LEMMA LoadTyped ==
    ASSUME TypeInv, NEW p \in Proc, Load(p)
    PROVE  TypeInv'
<1>1. PICK cmd \in Command : proc' = [proc EXCEPT ![p] = Loaded(p, cmd)]
  BY DEF Load
<1>2. UNCHANGED <<file, daemon, prompt, intended, raced>>
  BY DEF Load
<1> DEFINE l == Loaded(p, cmd)
<1>3. file.config \in Config /\ IsInjective(file.config.allowed)
  BY DEF TypeInv, TypeOK, File
<1>4. /\ Applied(p, cmd, file.config) \in Config
      /\ Saves(cmd, file.config) => IsInjective(Applied(p, cmd, file.config).allowed)
  BY <1>3, AppliedTyped
<1>5. l \in ProcState /\ (l.at \in {"loaded", "writing"} => IsInjective(l.copy.allowed))
  <2>1. CASE ~Readable(file)
    BY <2>1 DEF Loaded, ProcState
  <2>2. CASE Readable(file) /\ Saves(cmd, file.config)
    BY <1>4, <2>2 DEF Loaded, ProcState
  <2>3. CASE Readable(file) /\ ~Saves(cmd, file.config)
    BY <2>3 DEF Loaded, Outcome, ProcState
  <2> QED
    BY <2>1, <2>2, <2>3
<1> HIDE DEF l
<1>6. proc' \in [Proc -> ProcState]
  BY <1>1, <1>5 DEF TypeInv, TypeOK, l
<1>7. \A q \in Proc : proc'[q] = IF q = p THEN l ELSE proc[q]
  BY <1>1 DEF TypeInv, TypeOK, l
<1>8. \A q \in Proc : Holds(q)' => IsInjective(proc'[q].copy.allowed)
  BY <1>5, <1>7 DEF TypeInv, Holds
<1> QED
  BY <1>2, <1>6, <1>8 DEF TypeInv, TypeOK

\* Emptying the file leaves the copies as they are.
LEMMA TruncateTyped ==
    ASSUME TypeInv, NEW p \in Proc, Truncate(p)
    PROVE  TypeInv'
<1>1. /\ file' = Empty /\ raced' = (raced \/ proc[p].stale)
      /\ UNCHANGED <<daemon, prompt, intended>> /\ proc[p].at = "loaded"
  BY DEF Truncate
<1>2. \A q \in Proc : proc[q] \in ProcState
  BY DEF TypeInv, TypeOK
<1>3. proc[p].stale \in BOOLEAN
  BY <1>1, <1>2, HolderHolds DEF HolderState
<1>4. ASSUME NEW q \in Proc
      PROVE  /\ proc'[q] \in ProcState
             /\ Holds(q)' => Holds(q) /\ proc'[q].copy = proc[q].copy
  <2>1. proc'[q] = IF q = p THEN [proc[q] EXCEPT !.at = "writing"]
                   ELSE IF proc[q].at = "loaded" THEN [proc[q] EXCEPT !.stale = TRUE]
                   ELSE proc[q]
    BY DEF Truncate
  <2>2. CASE proc[q].at = "loaded"
    <3>1. proc[q] \in HolderState
      BY <1>2, <2>2, HolderHolds
    <3>2. /\ [proc[q] EXCEPT !.at = "writing"] \in HolderState
          /\ [proc[q] EXCEPT !.at = "writing"].copy = proc[q].copy
          /\ [proc[q] EXCEPT !.stale = TRUE] \in HolderState
          /\ [proc[q] EXCEPT !.stale = TRUE].copy = proc[q].copy
      BY <3>1 DEF HolderState
    <3>3. proc'[q] \in HolderState /\ proc'[q].copy = proc[q].copy
      BY <2>1, <2>2, <3>2
    <3> QED
      BY <2>2, <3>3 DEF ProcState, HolderState, Holds
  <2>3. CASE proc[q].at # "loaded"
    BY <1>1, <1>2, <2>1, <2>3 DEF Holds
  <2> QED
    BY <2>2, <2>3
<1>5. DOMAIN proc' = Proc /\ proc' = [q \in Proc |-> proc'[q]]
  BY DEF Truncate
<1>6. proc' \in [Proc -> ProcState]
  BY <1>4, <1>5
<1>7. file' \in File /\ IsInjective(file'.config.allowed)
  BY <1>1, DefaultTyped DEF Empty, File
<1>8. raced' \in BOOLEAN
  BY <1>1, <1>3 DEF TypeInv, TypeOK
<1> QED
  BY <1>1, <1>4, <1>6, <1>7, <1>8 DEF TypeInv, TypeOK

\* The file becomes the copy, or garbage.
LEMMA WriteTyped ==
    ASSUME TypeInv, NEW p \in Proc, Write(p)
    PROVE  TypeInv'
<1> DEFINE c == proc[p].copy
           cmd == proc[p].cmd
<1>1. /\ proc[p].at = "writing" /\ UNCHANGED <<daemon, prompt, raced>>
      /\ file' \in {Holding(c), Garbage}
      /\ intended' = Applied(p, cmd, intended)
      /\ proc' = [proc EXCEPT ![p] = [at |-> Outcome(cmd, c)]]
  BY DEF Write
<1>2. proc[p] \in HolderState
  BY <1>1, HolderHolds DEF TypeInv, TypeOK
<1>3. c \in Config /\ cmd \in Command /\ IsInjective(c.allowed)
  BY <1>1, <1>2 DEF HolderState, TypeInv, Holds
<1> HIDE DEF c, cmd
<1>4. file' \in File /\ IsInjective(file'.config.allowed)
  BY <1>1, <1>3, DefaultTyped DEF Holding, Garbage, File
<1>5. intended' \in Config
  BY <1>1, <1>3, AppliedTyped DEF TypeInv, TypeOK
<1>6. [at |-> Outcome(cmd, c)] \in OtherState
  BY DEF Outcome, OtherState
<1>7. proc' \in [Proc -> ProcState]
  BY <1>1, <1>6 DEF TypeInv, TypeOK, ProcState, OtherState
<1>8. \A q \in Proc : Holds(q)' => q # p /\ proc'[q] = proc[q]
  BY <1>1, <1>6 DEF TypeInv, TypeOK, Holds, OtherState
<1> QED
  BY <1>1, <1>4, <1>5, <1>7, <1>8 DEF TypeInv, TypeOK, Holds

\* Giving up a copy takes it away.
LEMMA HaltedTyped ==
    ASSUME TypeInv, UNCHANGED <<file, intended, raced>>,
           daemon' \in [up : BOOLEAN, config : Config],
           prompt' \in [Root -> {"idle", "running", "refused"}],
           proc' = [p \in Proc |-> proc'[p]],
           \A p \in Proc : proc'[p] = proc[p] \/ proc'[p] \in OtherState
    PROVE  TypeInv'
<1>1. \A p \in Proc : proc[p] \in ProcState
  BY DEF TypeInv, TypeOK
<1>2. \A p \in Proc : Holds(p)' => proc'[p] = proc[p]
  BY DEF Holds, OtherState
<1>3. \A p \in Proc : proc'[p] \in ProcState
  BY <1>1 DEF ProcState, OtherState
<1>4. proc' \in [Proc -> ProcState]
  BY <1>3
<1> QED
  BY <1>2, <1>4 DEF TypeInv, TypeOK, Holds

LEMMA HaltedOther ==
    ASSUME NEW p \in Proc, Holds(p)
    PROVE  Halted(proc[p]) \in OtherState
BY DEF Holds, Halted, OtherState

\* Every step keeps the types.
LEMMA TypeStep == TypeInv /\ [Next]_vars => TypeInv'
<1>1. SUFFICES ASSUME TypeInv, [Next]_vars PROVE TypeInv'
  OBVIOUS
<1>2. ASSUME UNCHANGED <<file, proc, intended, raced>>,
             daemon' \in [up : BOOLEAN, config : Config],
             prompt' \in [Root -> {"idle", "running", "refused"}]
      PROVE  TypeInv'
  BY <1>1, <1>2 DEF TypeInv, TypeOK, Holds
<1>3. ASSUME NEW p \in Proc, Interrupt(p) PROVE TypeInv'
  <2>1. /\ UNCHANGED <<file, daemon, prompt, intended, raced>> /\ Holds(p)
        /\ proc' = [proc EXCEPT ![p] = Halted(proc[p])]
    BY <1>3 DEF Interrupt, Holds
  <2>2. proc' = [q \in Proc |-> proc'[q]]
    BY <1>1, <2>1 DEF TypeInv, TypeOK
  <2>3. \A q \in Proc : proc'[q] = proc[q] \/ proc'[q] \in OtherState
    BY <1>1, <2>1, HaltedOther DEF TypeInv, TypeOK
  <2>4. /\ daemon' \in [up : BOOLEAN, config : Config]
        /\ prompt' \in [Root -> {"idle", "running", "refused"}]
    BY <1>1, <2>1 DEF TypeInv, TypeOK
  <2> QED
    BY <1>1, <2>1, <2>2, <2>3, <2>4, HaltedTyped
<1>4. CASE StopDaemon
  <2>1. /\ UNCHANGED <<file, intended, raced>> /\ proc' = [p \in Proc |-> proc'[p]]
        /\ daemon' = Down /\ prompt' = [r \in Root |-> "idle"]
    BY <1>4 DEF StopDaemon
  <2>2. \A p \in Proc : proc'[p] = proc[p] \/ proc'[p] \in OtherState
    BY <1>4, HaltedOther DEF StopDaemon, Holds
  <2>3. /\ daemon' \in [up : BOOLEAN, config : Config]
        /\ prompt' \in [Root -> {"idle", "running", "refused"}]
    BY <2>1, DefaultTyped DEF Down
  <2> QED
    BY <1>1, <2>1, <2>2, <2>3, HaltedTyped
<1>5. CASE StartDaemon
  BY <1>1, <1>2, <1>5 DEF StartDaemon, TypeInv, TypeOK, File
<1>6. ASSUME NEW r \in Root, HandleRunPrompt(r) PROVE TypeInv'
  <2>1. \E x \in {"refused", "running"} : prompt' = [prompt EXCEPT ![r] = x]
    BY <1>6 DEF HandleRunPrompt
  <2>2. prompt' \in [Root -> {"idle", "running", "refused"}]
    BY <1>1, <2>1 DEF TypeInv, TypeOK
  <2> QED
    BY <1>1, <1>2, <1>6, <2>2 DEF HandleRunPrompt, TypeInv, TypeOK
<1>7. ASSUME NEW r \in Root, EndRun(r) PROVE TypeInv'
  BY <1>1, <1>2, <1>7 DEF EndRun, TypeInv, TypeOK
<1>8. ASSUME NEW p \in Proc, RunUnsaved(p) PROVE TypeInv'
  <2> DEFINE q == [at |-> Outcome(proc[p].cmd, proc[p].copy)]
  <2>1. UNCHANGED <<file, daemon, prompt, intended, raced>> /\ proc' = [proc EXCEPT ![p] = q]
    BY <1>8 DEF RunUnsaved
  <2>2. q \in OtherState
    BY DEF Outcome, OtherState
  <2> HIDE DEF q
  <2>3. /\ proc' = [r \in Proc |-> proc'[r]]
        /\ \A r \in Proc : proc'[r] = proc[r] \/ proc'[r] \in OtherState
    BY <1>1, <2>1, <2>2 DEF TypeInv, TypeOK
  <2>4. /\ daemon' \in [up : BOOLEAN, config : Config]
        /\ prompt' \in [Root -> {"idle", "running", "refused"}]
    BY <1>1, <2>1 DEF TypeInv, TypeOK
  <2> QED
    BY <1>1, <2>1, <2>3, <2>4, HaltedTyped
<1>9. CASE UNCHANGED vars
  BY <1>1, <1>2, <1>9 DEF vars, TypeInv, TypeOK
<1> QED
  BY <1>1, <1>3, <1>4, <1>5, <1>6, <1>7, <1>8, <1>9, LoadTyped, TruncateTyped, WriteTyped
     DEF Next

\* The configuration keeps its type whatever the commands do to each other, and
\* neither the file nor any copy of it ever lists a directory twice.
THEOREM ConfigTyped == Spec => []TypeOK
<1>1. TypeInv => TypeOK
  BY DEF TypeInv
<1> QED
  BY <1>1, TypeInitially, TypeStep, PTL DEF Spec
=============================================================================
