-------------------------- MODULE AgentLoopProofs --------------------------
(* Proofs about AgentLoop.                                                 *)
EXTENDS AgentLoop, FiniteSetTheorems, TLAPS

\* There are finitely many runs, so that they can be counted.
LEMMA RunnersFinite ==
    \A S \in SUBSET Runners : IsFiniteSet(S) /\ Cardinality(S) \in Nat
<1>1. IsFiniteSet(Runners)
  BY PidsFinite, FS_Union DEF Runners
<1> QED
  BY <1>1, FS_Subset, FS_CardinalityType

\* The background runs of a loop among them.
LEMMA BackgroundCount ==
    \A p : Background(p) \in SUBSET Runners /\ Cardinality(Background(p)) \in Nat
<1>1. \A p : Background(p) \in SUBSET Runners
  BY DEF Background, Runners
<1> QED
  BY <1>1, RunnersFinite

\* Every step keeps the types.
LEMMA TypeStep ==
    ASSUME ATypeOK, RunsHaveShells, [ANext]_avars
    PROVE  ATypeOK'
<1> USE PidsDistinct, EventsAreNat DEF loopVars, heavyVars, supVars
<1>1. ASSUME NEW p \in Loops, NEW m \in {"loop", "once"}, Start(p, m)
      PROVE  ATypeOK'
  BY <1>1, BackgroundCount
  DEF ATypeOK, Acquiring, Working, Leaving, HAcquiring, Checking, Runners,
     Start, Goto, Settled
<1>2. ASSUME NEW p \in Loops, Mkdir(p)
      PROVE  ATypeOK'
  BY <1>2, BackgroundCount
  DEF ATypeOK, Acquiring, Working, Leaving, HAcquiring, Checking, Runners,
     Mkdir, Goto
<1>3. ASSUME NEW p \in Loops, ReadHolder(p)
      PROVE  ATypeOK'
  BY <1>3, BackgroundCount
  DEF ATypeOK, Acquiring, Working, Leaving, HAcquiring, Checking, Runners,
     ReadHolder, Goto
<1>4. ASSUME NEW p \in Loops, Probe(p)
      PROVE  ATypeOK'
  BY <1>4, BackgroundCount
  DEF ATypeOK, Acquiring, Working, Leaving, HAcquiring, Checking, Runners,
     Probe, Goto, Alive
<1>5. ASSUME NEW p \in Loops, RemoveStale(p)
      PROVE  ATypeOK'
  BY <1>5, BackgroundCount
  DEF ATypeOK, Acquiring, Working, Leaving, HAcquiring, Checking, Runners,
     RemoveStale, Goto
<1>6. ASSUME NEW p \in Loops, Publish(p)
      PROVE  ATypeOK'
  BY <1>6, BackgroundCount
  DEF ATypeOK, Acquiring, Working, Leaving, HAcquiring, Checking, Runners,
     Publish, Goto
<1>7. ASSUME NEW p \in Loops, BeginLogs(p)
      PROVE  ATypeOK'
  BY <1>7, BackgroundCount
  DEF ATypeOK, Acquiring, Working, Leaving, HAcquiring, Checking, Runners,
     BeginLogs, Goto
<1>8. ASSUME NEW p \in Loops, EndLogs(p)
      PROVE  ATypeOK'
  BY <1>8, BackgroundCount
  DEF ATypeOK, Acquiring, Working, Leaving, HAcquiring, Checking, Runners,
     EndLogs, Goto
<1>9. ASSUME NEW p \in Loops, SkipHeavy(p)
      PROVE  ATypeOK'
  BY <1>9, BackgroundCount
  DEF ATypeOK, Acquiring, Working, Leaving, HAcquiring, Checking, Runners,
     SkipHeavy, Goto
<1>10. ASSUME NEW p \in Loops, FinishInline(p)
      PROVE  ATypeOK'
  BY <1>10, BackgroundCount
  DEF ATypeOK, Acquiring, Working, Leaving, HAcquiring, Checking, Runners,
     FinishInline, Goto
<1>11. ASSUME NEW p \in Loops, NEW h \in Runners, LaunchHeavy(p, h)
      PROVE  ATypeOK'
  BY <1>11, BackgroundCount
  DEF ATypeOK, Acquiring, Working, Leaving, HAcquiring, Checking, Runners,
     LaunchHeavy, Goto, HeavyRunning
<1>12. ASSUME NEW p \in Loops, CleanupChildren(p)
      PROVE  ATypeOK'
  BY <1>12, BackgroundCount
  DEF ATypeOK, Acquiring, Working, Leaving, HAcquiring, Checking, Runners,
     CleanupChildren, Goto, EndRuns
<1>13. ASSUME NEW p \in Loops, ReleaseLock(p)
      PROVE  ATypeOK'
  BY <1>13, BackgroundCount
  DEF ATypeOK, Acquiring, Working, Leaving, HAcquiring, Checking, Runners,
     ReleaseLock, Goto
<1>14. ASSUME NEW p \in Loops, DropLock(p)
      PROVE  ATypeOK'
  BY <1>14, BackgroundCount
  DEF ATypeOK, Acquiring, Working, Leaving, HAcquiring, Checking, Runners,
     DropLock, Goto
<1>15. ASSUME NEW p \in Loops, Interrupt(p)
      PROVE  ATypeOK'
  BY <1>15, BackgroundCount
  DEF ATypeOK, Acquiring, Working, Leaving, HAcquiring, Checking, Runners,
     Interrupt, Signal, Gone, Goto
<1>16. ASSUME NEW p \in Loops, Kill(p)
      PROVE  ATypeOK'
  BY <1>16, BackgroundCount
  DEF ATypeOK, Acquiring, Working, Leaving, HAcquiring, Checking, Runners,
     Kill, Gone, Goto
<1>17. ASSUME NEW h \in Runners, HMkdir(h)
      PROVE  ATypeOK'
  BY <1>17, BackgroundCount
  DEF ATypeOK, Acquiring, Working, Leaving, HAcquiring, Checking, Runners,
     HMkdir, HGoto
<1>18. ASSUME NEW h \in Runners, HProbe(h)
      PROVE  ATypeOK'
  BY <1>18, BackgroundCount
  DEF ATypeOK, Acquiring, Working, Leaving, HAcquiring, Checking, Runners,
     HProbe, HGoto, EndRuns, HeavyRunning, Alive
<1>19. ASSUME NEW h \in Runners, HRemove(h)
      PROVE  ATypeOK'
  BY <1>19, BackgroundCount
  DEF ATypeOK, Acquiring, Working, Leaving, HAcquiring, Checking, Runners,
     HRemove, HGoto
<1>20. ASSUME NEW h \in Runners, HAgain(h)
      PROVE  ATypeOK'
  BY <1>20, BackgroundCount
  DEF ATypeOK, Acquiring, Working, Leaving, HAcquiring, Checking, Runners,
     HAgain, HGoto, EndRuns
<1>21. ASSUME NEW h \in Runners, HPublish(h)
      PROVE  ATypeOK'
  BY <1>21, BashPidIsBoolean
  DEF ATypeOK, Acquiring, Working, Leaving, HAcquiring, Checking, Runners,
     RunsHaveShells, HPublish, HGoto
<1>22. ASSUME NEW h \in Runners, HFinish(h)
      PROVE  ATypeOK'
  BY <1>22, BackgroundCount
  DEF ATypeOK, Acquiring, Working, Leaving, HAcquiring, Checking, Runners,
     HFinish, EndRuns
<1>23. ASSUME NEW h \in Tasks, KillTask(h)
      PROVE  ATypeOK'
  BY <1>23, BackgroundCount
  DEF ATypeOK, Acquiring, Working, Leaving, HAcquiring, Checking, Runners,
     KillTask, EndRuns
<1>24. ASSUME SupBeginLogs
      PROVE  ATypeOK'
  BY <1>24, BackgroundCount
  DEF ATypeOK, Acquiring, Working, Leaving, HAcquiring, Checking, Runners,
     SupBeginLogs
<1>25. ASSUME SupEndLogs
      PROVE  ATypeOK'
  BY <1>25, BackgroundCount
  DEF ATypeOK, Acquiring, Working, Leaving, HAcquiring, Checking, Runners,
     SupEndLogs
<1>26. ASSUME SupHealthy
      PROVE  ATypeOK'
  BY <1>26, BackgroundCount
  DEF ATypeOK, Acquiring, Working, Leaving, HAcquiring, Checking, Runners,
     SupHealthy
<1>27. ASSUME SupRestart
      PROVE  ATypeOK'
  BY <1>27, BackgroundCount
  DEF ATypeOK, Acquiring, Working, Leaving, HAcquiring, Checking, Runners,
     SupRestart, Settled
<1>28. ASSUME SupStopGroup
      PROVE  ATypeOK'
  BY <1>28, BackgroundCount
  DEF ATypeOK, Acquiring, Working, Leaving, HAcquiring, Checking, Runners,
     SupStopGroup, Goto, EndRuns, Alive
<1>29. ASSUME SupKillGroup
      PROVE  ATypeOK'
  BY <1>29, BackgroundCount
  DEF ATypeOK, Acquiring, Working, Leaving, HAcquiring, Checking, Runners,
     SupKillGroup, Goto, EndRuns, Alive
<1>30. ASSUME SupReadHolder
      PROVE  ATypeOK'
  BY <1>30, BackgroundCount
  DEF ATypeOK, Acquiring, Working, Leaving, HAcquiring, Checking, Runners,
     SupReadHolder, Signal, Gone, Goto, Alive
<1>31. ASSUME SupKillHolder
      PROVE  ATypeOK'
  BY <1>31, BackgroundCount
  DEF ATypeOK, Acquiring, Working, Leaving, HAcquiring, Checking, Runners,
     SupKillHolder, Gone, Goto
<1>32. ASSUME SupWipe
      PROVE  ATypeOK'
  BY <1>32, BackgroundCount
  DEF ATypeOK, Acquiring, Working, Leaving, HAcquiring, Checking, Runners,
     SupWipe
<1>33. ASSUME NEW p \in Loops, SupSpawn(p)
      PROVE  ATypeOK'
  BY <1>33, BackgroundCount
  DEF ATypeOK, Acquiring, Working, Leaving, HAcquiring, Checking, Runners,
     SupSpawn, Goto
<1>34. CASE UNCHANGED avars
  BY <1>34, BackgroundCount
  DEF ATypeOK, Acquiring, Working, Leaving, HAcquiring, Checking, Runners,
     avars
<1> QED
  BY <1>1, <1>2, <1>3, <1>4, <1>5, <1>6, <1>7, <1>8, <1>9, <1>10, <1>11,
     <1>12, <1>13, <1>14, <1>15, <1>16, <1>17, <1>18, <1>19, <1>20, <1>21,
     <1>22, <1>23, <1>24, <1>25, <1>26, <1>27, <1>28, <1>29, <1>30, <1>31,
     <1>32, <1>33, <1>34
  DEF ANext, LoopStep, HeavyStep, SupStep

\* The log directory names its maintainer.
LEMMA LogsStep ==
    ASSUME ATypeOK, LogsOwned, [ANext]_avars
    PROVE  LogsOwned'
<1> USE PidsDistinct DEF loopVars, heavyVars, supVars
<1>1. ASSUME NEW p \in Loops, NEW m \in {"loop", "once"}, Start(p, m)
      PROVE  LogsOwned'
  BY <1>1
  DEF ATypeOK, LogsOwned, Acquiring, Working, Leaving, HAcquiring, Checking,
     Runners, Start, Goto, Settled
<1>2. ASSUME NEW p \in Loops, Mkdir(p)
      PROVE  LogsOwned'
  BY <1>2
  DEF ATypeOK, LogsOwned, Acquiring, Working, Leaving, HAcquiring, Checking,
     Runners, Mkdir, Goto
<1>3. ASSUME NEW p \in Loops, ReadHolder(p)
      PROVE  LogsOwned'
  BY <1>3
  DEF ATypeOK, LogsOwned, Acquiring, Working, Leaving, HAcquiring, Checking,
     Runners, ReadHolder, Goto
<1>4. ASSUME NEW p \in Loops, Probe(p)
      PROVE  LogsOwned'
  BY <1>4
  DEF ATypeOK, LogsOwned, Acquiring, Working, Leaving, HAcquiring, Checking,
     Runners, Probe, Goto, Alive
<1>5. ASSUME NEW p \in Loops, RemoveStale(p)
      PROVE  LogsOwned'
  BY <1>5
  DEF ATypeOK, LogsOwned, Acquiring, Working, Leaving, HAcquiring, Checking,
     Runners, RemoveStale, Goto
<1>6. ASSUME NEW p \in Loops, Publish(p)
      PROVE  LogsOwned'
  BY <1>6
  DEF ATypeOK, LogsOwned, Acquiring, Working, Leaving, HAcquiring, Checking,
     Runners, Publish, Goto
<1>7. ASSUME NEW p \in Loops, BeginLogs(p)
      PROVE  LogsOwned'
  BY <1>7
  DEF ATypeOK, LogsOwned, Acquiring, Working, Leaving, HAcquiring, Checking,
     Runners, BeginLogs, Goto
<1>8. ASSUME NEW p \in Loops, EndLogs(p)
      PROVE  LogsOwned'
  BY <1>8
  DEF ATypeOK, LogsOwned, Acquiring, Working, Leaving, HAcquiring, Checking,
     Runners, EndLogs, Goto
<1>9. ASSUME NEW p \in Loops, SkipHeavy(p)
      PROVE  LogsOwned'
  BY <1>9
  DEF ATypeOK, LogsOwned, Acquiring, Working, Leaving, HAcquiring, Checking,
     Runners, SkipHeavy, Goto
<1>10. ASSUME NEW p \in Loops, FinishInline(p)
      PROVE  LogsOwned'
  BY <1>10
  DEF ATypeOK, LogsOwned, Acquiring, Working, Leaving, HAcquiring, Checking,
     Runners, FinishInline, Goto
<1>11. ASSUME NEW p \in Loops, NEW h \in Runners, LaunchHeavy(p, h)
      PROVE  LogsOwned'
  BY <1>11
  DEF ATypeOK, LogsOwned, Acquiring, Working, Leaving, HAcquiring, Checking,
     Runners, LaunchHeavy, Goto, HeavyRunning
<1>12. ASSUME NEW p \in Loops, CleanupChildren(p)
      PROVE  LogsOwned'
  BY <1>12
  DEF ATypeOK, LogsOwned, Acquiring, Working, Leaving, HAcquiring, Checking,
     Runners, CleanupChildren, Goto, EndRuns
<1>13. ASSUME NEW p \in Loops, ReleaseLock(p)
      PROVE  LogsOwned'
  BY <1>13
  DEF ATypeOK, LogsOwned, Acquiring, Working, Leaving, HAcquiring, Checking,
     Runners, ReleaseLock, Goto
<1>14. ASSUME NEW p \in Loops, DropLock(p)
      PROVE  LogsOwned'
  BY <1>14
  DEF ATypeOK, LogsOwned, Acquiring, Working, Leaving, HAcquiring, Checking,
     Runners, DropLock, Goto
<1>15. ASSUME NEW p \in Loops, Interrupt(p)
      PROVE  LogsOwned'
  BY <1>15
  DEF ATypeOK, LogsOwned, Acquiring, Working, Leaving, HAcquiring, Checking,
     Runners, Interrupt, Signal, Gone, Goto
<1>16. ASSUME NEW p \in Loops, Kill(p)
      PROVE  LogsOwned'
  BY <1>16
  DEF ATypeOK, LogsOwned, Acquiring, Working, Leaving, HAcquiring, Checking,
     Runners, Kill, Gone, Goto
<1>17. ASSUME NEW h \in Runners, HMkdir(h)
      PROVE  LogsOwned'
  BY <1>17
  DEF ATypeOK, LogsOwned, Acquiring, Working, Leaving, HAcquiring, Checking,
     Runners, HMkdir, HGoto
<1>18. ASSUME NEW h \in Runners, HProbe(h)
      PROVE  LogsOwned'
  BY <1>18
  DEF ATypeOK, LogsOwned, Acquiring, Working, Leaving, HAcquiring, Checking,
     Runners, HProbe, HGoto, EndRuns, HeavyRunning, Alive
<1>19. ASSUME NEW h \in Runners, HRemove(h)
      PROVE  LogsOwned'
  BY <1>19
  DEF ATypeOK, LogsOwned, Acquiring, Working, Leaving, HAcquiring, Checking,
     Runners, HRemove, HGoto
<1>20. ASSUME NEW h \in Runners, HAgain(h)
      PROVE  LogsOwned'
  BY <1>20
  DEF ATypeOK, LogsOwned, Acquiring, Working, Leaving, HAcquiring, Checking,
     Runners, HAgain, HGoto, EndRuns
<1>21. ASSUME NEW h \in Runners, HPublish(h)
      PROVE  LogsOwned'
  BY <1>21
  DEF ATypeOK, LogsOwned, Acquiring, Working, Leaving, HAcquiring, Checking,
     Runners, HPublish, HGoto
<1>22. ASSUME NEW h \in Runners, HFinish(h)
      PROVE  LogsOwned'
  BY <1>22
  DEF ATypeOK, LogsOwned, Acquiring, Working, Leaving, HAcquiring, Checking,
     Runners, HFinish, EndRuns
<1>23. ASSUME NEW h \in Tasks, KillTask(h)
      PROVE  LogsOwned'
  BY <1>23
  DEF ATypeOK, LogsOwned, Acquiring, Working, Leaving, HAcquiring, Checking,
     Runners, KillTask, EndRuns
<1>24. ASSUME SupBeginLogs
      PROVE  LogsOwned'
  BY <1>24
  DEF ATypeOK, LogsOwned, Acquiring, Working, Leaving, HAcquiring, Checking,
     Runners, SupBeginLogs
<1>25. ASSUME SupEndLogs
      PROVE  LogsOwned'
  BY <1>25
  DEF ATypeOK, LogsOwned, Acquiring, Working, Leaving, HAcquiring, Checking,
     Runners, SupEndLogs
<1>26. ASSUME SupHealthy
      PROVE  LogsOwned'
  BY <1>26
  DEF ATypeOK, LogsOwned, Acquiring, Working, Leaving, HAcquiring, Checking,
     Runners, SupHealthy
<1>27. ASSUME SupRestart
      PROVE  LogsOwned'
  BY <1>27
  DEF ATypeOK, LogsOwned, Acquiring, Working, Leaving, HAcquiring, Checking,
     Runners, SupRestart, Settled
<1>28. ASSUME SupStopGroup
      PROVE  LogsOwned'
  BY <1>28
  DEF ATypeOK, LogsOwned, Acquiring, Working, Leaving, HAcquiring, Checking,
     Runners, SupStopGroup, Goto, EndRuns, Alive
<1>29. ASSUME SupKillGroup
      PROVE  LogsOwned'
  BY <1>29
  DEF ATypeOK, LogsOwned, Acquiring, Working, Leaving, HAcquiring, Checking,
     Runners, SupKillGroup, Goto, EndRuns, Alive
<1>30. ASSUME SupReadHolder
      PROVE  LogsOwned'
  BY <1>30
  DEF ATypeOK, LogsOwned, Acquiring, Working, Leaving, HAcquiring, Checking,
     Runners, SupReadHolder, Signal, Gone, Goto, Alive
<1>31. ASSUME SupKillHolder
      PROVE  LogsOwned'
  BY <1>31
  DEF ATypeOK, LogsOwned, Acquiring, Working, Leaving, HAcquiring, Checking,
     Runners, SupKillHolder, Gone, Goto
<1>32. ASSUME SupWipe
      PROVE  LogsOwned'
  BY <1>32
  DEF ATypeOK, LogsOwned, Acquiring, Working, Leaving, HAcquiring, Checking,
     Runners, SupWipe
<1>33. ASSUME NEW p \in Loops, SupSpawn(p)
      PROVE  LogsOwned'
  BY <1>33
  DEF ATypeOK, LogsOwned, Acquiring, Working, Leaving, HAcquiring, Checking,
     Runners, SupSpawn, Goto
<1>34. CASE UNCHANGED avars
  BY <1>34
  DEF ATypeOK, LogsOwned, Acquiring, Working, Leaving, HAcquiring, Checking,
     Runners, avars
<1> QED
  BY <1>1, <1>2, <1>3, <1>4, <1>5, <1>6, <1>7, <1>8, <1>9, <1>10, <1>11,
     <1>12, <1>13, <1>14, <1>15, <1>16, <1>17, <1>18, <1>19, <1>20, <1>21,
     <1>22, <1>23, <1>24, <1>25, <1>26, <1>27, <1>28, <1>29, <1>30, <1>31,
     <1>32, <1>33, <1>34
  DEF ANext, LoopStep, HeavyStep, SupStep

\* The heavy run of a --once loop ends with it.
LEMMA InlineStep ==
    ASSUME ATypeOK, InlineRuns, [ANext]_avars
    PROVE  InlineRuns'
<1> USE PidsDistinct DEF loopVars, heavyVars, supVars
<1>1. ASSUME NEW p \in Loops, NEW m \in {"loop", "once"}, Start(p, m)
      PROVE  InlineRuns'
  BY <1>1
  DEF ATypeOK, InlineRuns, Acquiring, Working, Leaving, HAcquiring, Checking,
     Runners, Start, Goto, Settled
<1>2. ASSUME NEW p \in Loops, Mkdir(p)
      PROVE  InlineRuns'
  BY <1>2
  DEF ATypeOK, InlineRuns, Acquiring, Working, Leaving, HAcquiring, Checking,
     Runners, Mkdir, Goto
<1>3. ASSUME NEW p \in Loops, ReadHolder(p)
      PROVE  InlineRuns'
  BY <1>3
  DEF ATypeOK, InlineRuns, Acquiring, Working, Leaving, HAcquiring, Checking,
     Runners, ReadHolder, Goto
<1>4. ASSUME NEW p \in Loops, Probe(p)
      PROVE  InlineRuns'
  BY <1>4
  DEF ATypeOK, InlineRuns, Acquiring, Working, Leaving, HAcquiring, Checking,
     Runners, Probe, Goto, Alive
<1>5. ASSUME NEW p \in Loops, RemoveStale(p)
      PROVE  InlineRuns'
  BY <1>5
  DEF ATypeOK, InlineRuns, Acquiring, Working, Leaving, HAcquiring, Checking,
     Runners, RemoveStale, Goto
<1>6. ASSUME NEW p \in Loops, Publish(p)
      PROVE  InlineRuns'
  BY <1>6
  DEF ATypeOK, InlineRuns, Acquiring, Working, Leaving, HAcquiring, Checking,
     Runners, Publish, Goto
<1>7. ASSUME NEW p \in Loops, BeginLogs(p)
      PROVE  InlineRuns'
  BY <1>7
  DEF ATypeOK, InlineRuns, Acquiring, Working, Leaving, HAcquiring, Checking,
     Runners, BeginLogs, Goto
<1>8. ASSUME NEW p \in Loops, EndLogs(p)
      PROVE  InlineRuns'
  BY <1>8
  DEF ATypeOK, InlineRuns, Acquiring, Working, Leaving, HAcquiring, Checking,
     Runners, EndLogs, Goto
<1>9. ASSUME NEW p \in Loops, SkipHeavy(p)
      PROVE  InlineRuns'
  BY <1>9
  DEF ATypeOK, InlineRuns, Acquiring, Working, Leaving, HAcquiring, Checking,
     Runners, SkipHeavy, Goto
<1>10. ASSUME NEW p \in Loops, FinishInline(p)
      PROVE  InlineRuns'
  BY <1>10
  DEF ATypeOK, InlineRuns, Acquiring, Working, Leaving, HAcquiring, Checking,
     Runners, FinishInline, Goto
<1>11. ASSUME NEW p \in Loops, NEW h \in Runners, LaunchHeavy(p, h)
      PROVE  InlineRuns'
  BY <1>11
  DEF ATypeOK, InlineRuns, Acquiring, Working, Leaving, HAcquiring, Checking,
     Runners, LaunchHeavy, Goto, HeavyRunning
<1>12. ASSUME NEW p \in Loops, CleanupChildren(p)
      PROVE  InlineRuns'
  BY <1>12
  DEF ATypeOK, InlineRuns, Acquiring, Working, Leaving, HAcquiring, Checking,
     Runners, CleanupChildren, Goto, EndRuns
<1>13. ASSUME NEW p \in Loops, ReleaseLock(p)
      PROVE  InlineRuns'
  BY <1>13
  DEF ATypeOK, InlineRuns, Acquiring, Working, Leaving, HAcquiring, Checking,
     Runners, ReleaseLock, Goto
<1>14. ASSUME NEW p \in Loops, DropLock(p)
      PROVE  InlineRuns'
  BY <1>14
  DEF ATypeOK, InlineRuns, Acquiring, Working, Leaving, HAcquiring, Checking,
     Runners, DropLock, Goto
<1>15. ASSUME NEW p \in Loops, Interrupt(p)
      PROVE  InlineRuns'
  BY <1>15
  DEF ATypeOK, InlineRuns, Acquiring, Working, Leaving, HAcquiring, Checking,
     Runners, Interrupt, Signal, Gone, Goto
<1>16. ASSUME NEW p \in Loops, Kill(p)
      PROVE  InlineRuns'
  BY <1>16
  DEF ATypeOK, InlineRuns, Acquiring, Working, Leaving, HAcquiring, Checking,
     Runners, Kill, Gone, Goto
<1>17. ASSUME NEW h \in Runners, HMkdir(h)
      PROVE  InlineRuns'
  BY <1>17
  DEF ATypeOK, InlineRuns, Acquiring, Working, Leaving, HAcquiring, Checking,
     Runners, HMkdir, HGoto
<1>18. ASSUME NEW h \in Runners, HProbe(h)
      PROVE  InlineRuns'
  BY <1>18
  DEF ATypeOK, InlineRuns, Acquiring, Working, Leaving, HAcquiring, Checking,
     Runners, HProbe, HGoto, EndRuns, HeavyRunning, Alive
<1>19. ASSUME NEW h \in Runners, HRemove(h)
      PROVE  InlineRuns'
  BY <1>19
  DEF ATypeOK, InlineRuns, Acquiring, Working, Leaving, HAcquiring, Checking,
     Runners, HRemove, HGoto
<1>20. ASSUME NEW h \in Runners, HAgain(h)
      PROVE  InlineRuns'
  BY <1>20
  DEF ATypeOK, InlineRuns, Acquiring, Working, Leaving, HAcquiring, Checking,
     Runners, HAgain, HGoto, EndRuns
<1>21. ASSUME NEW h \in Runners, HPublish(h)
      PROVE  InlineRuns'
  BY <1>21
  DEF ATypeOK, InlineRuns, Acquiring, Working, Leaving, HAcquiring, Checking,
     Runners, HPublish, HGoto
<1>22. ASSUME NEW h \in Runners, HFinish(h)
      PROVE  InlineRuns'
  BY <1>22
  DEF ATypeOK, InlineRuns, Acquiring, Working, Leaving, HAcquiring, Checking,
     Runners, HFinish, EndRuns
<1>23. ASSUME NEW h \in Tasks, KillTask(h)
      PROVE  InlineRuns'
  BY <1>23
  DEF ATypeOK, InlineRuns, Acquiring, Working, Leaving, HAcquiring, Checking,
     Runners, KillTask, EndRuns
<1>24. ASSUME SupBeginLogs
      PROVE  InlineRuns'
  BY <1>24
  DEF ATypeOK, InlineRuns, Acquiring, Working, Leaving, HAcquiring, Checking,
     Runners, SupBeginLogs
<1>25. ASSUME SupEndLogs
      PROVE  InlineRuns'
  BY <1>25
  DEF ATypeOK, InlineRuns, Acquiring, Working, Leaving, HAcquiring, Checking,
     Runners, SupEndLogs
<1>26. ASSUME SupHealthy
      PROVE  InlineRuns'
  BY <1>26
  DEF ATypeOK, InlineRuns, Acquiring, Working, Leaving, HAcquiring, Checking,
     Runners, SupHealthy
<1>27. ASSUME SupRestart
      PROVE  InlineRuns'
  BY <1>27
  DEF ATypeOK, InlineRuns, Acquiring, Working, Leaving, HAcquiring, Checking,
     Runners, SupRestart, Settled
<1>28. ASSUME SupStopGroup
      PROVE  InlineRuns'
  BY <1>28
  DEF ATypeOK, InlineRuns, Acquiring, Working, Leaving, HAcquiring, Checking,
     Runners, SupStopGroup, Goto, EndRuns, Alive
<1>29. ASSUME SupKillGroup
      PROVE  InlineRuns'
  BY <1>29
  DEF ATypeOK, InlineRuns, Acquiring, Working, Leaving, HAcquiring, Checking,
     Runners, SupKillGroup, Goto, EndRuns, Alive
<1>30. ASSUME SupReadHolder
      PROVE  InlineRuns'
  BY <1>30
  DEF ATypeOK, InlineRuns, Acquiring, Working, Leaving, HAcquiring, Checking,
     Runners, SupReadHolder, Signal, Gone, Goto, Alive
<1>31. ASSUME SupKillHolder
      PROVE  InlineRuns'
  BY <1>31
  DEF ATypeOK, InlineRuns, Acquiring, Working, Leaving, HAcquiring, Checking,
     Runners, SupKillHolder, Gone, Goto
<1>32. ASSUME SupWipe
      PROVE  InlineRuns'
  BY <1>32
  DEF ATypeOK, InlineRuns, Acquiring, Working, Leaving, HAcquiring, Checking,
     Runners, SupWipe
<1>33. ASSUME NEW p \in Loops, SupSpawn(p)
      PROVE  InlineRuns'
  BY <1>33
  DEF ATypeOK, InlineRuns, Acquiring, Working, Leaving, HAcquiring, Checking,
     Runners, SupSpawn, Goto
<1>34. CASE UNCHANGED avars
  BY <1>34
  DEF ATypeOK, InlineRuns, Acquiring, Working, Leaving, HAcquiring, Checking,
     Runners, avars
<1> QED
  BY <1>1, <1>2, <1>3, <1>4, <1>5, <1>6, <1>7, <1>8, <1>9, <1>10, <1>11,
     <1>12, <1>13, <1>14, <1>15, <1>16, <1>17, <1>18, <1>19, <1>20, <1>21,
     <1>22, <1>23, <1>24, <1>25, <1>26, <1>27, <1>28, <1>29, <1>30, <1>31,
     <1>32, <1>33, <1>34
  DEF ANext, LoopStep, HeavyStep, SupStep

\* A heavy run whose loop lives knows that loop.
LEMMA ShellStep ==
    ASSUME ATypeOK, InlineRuns, RunsHaveShells, [ANext]_avars
    PROVE  RunsHaveShells'
<1> USE PidsDistinct DEF loopVars, heavyVars, supVars
<1>1. ASSUME NEW p \in Loops, NEW m \in {"loop", "once"}, Start(p, m)
      PROVE  RunsHaveShells'
  BY <1>1
  DEF ATypeOK, InlineRuns, RunsHaveShells, Acquiring, Working, Leaving,
     HAcquiring, Checking, Runners, Start, Goto, Settled
<1>2. ASSUME NEW p \in Loops, Mkdir(p)
      PROVE  RunsHaveShells'
  BY <1>2
  DEF ATypeOK, InlineRuns, RunsHaveShells, Acquiring, Working, Leaving,
     HAcquiring, Checking, Runners, Mkdir, Goto
<1>3. ASSUME NEW p \in Loops, ReadHolder(p)
      PROVE  RunsHaveShells'
  BY <1>3
  DEF ATypeOK, InlineRuns, RunsHaveShells, Acquiring, Working, Leaving,
     HAcquiring, Checking, Runners, ReadHolder, Goto
<1>4. ASSUME NEW p \in Loops, Probe(p)
      PROVE  RunsHaveShells'
  BY <1>4
  DEF ATypeOK, InlineRuns, RunsHaveShells, Acquiring, Working, Leaving,
     HAcquiring, Checking, Runners, Probe, Goto, Alive
<1>5. ASSUME NEW p \in Loops, RemoveStale(p)
      PROVE  RunsHaveShells'
  BY <1>5
  DEF ATypeOK, InlineRuns, RunsHaveShells, Acquiring, Working, Leaving,
     HAcquiring, Checking, Runners, RemoveStale, Goto
<1>6. ASSUME NEW p \in Loops, Publish(p)
      PROVE  RunsHaveShells'
  BY <1>6
  DEF ATypeOK, InlineRuns, RunsHaveShells, Acquiring, Working, Leaving,
     HAcquiring, Checking, Runners, Publish, Goto
<1>7. ASSUME NEW p \in Loops, BeginLogs(p)
      PROVE  RunsHaveShells'
  BY <1>7
  DEF ATypeOK, InlineRuns, RunsHaveShells, Acquiring, Working, Leaving,
     HAcquiring, Checking, Runners, BeginLogs, Goto
<1>8. ASSUME NEW p \in Loops, EndLogs(p)
      PROVE  RunsHaveShells'
  BY <1>8
  DEF ATypeOK, InlineRuns, RunsHaveShells, Acquiring, Working, Leaving,
     HAcquiring, Checking, Runners, EndLogs, Goto
<1>9. ASSUME NEW p \in Loops, SkipHeavy(p)
      PROVE  RunsHaveShells'
  BY <1>9
  DEF ATypeOK, InlineRuns, RunsHaveShells, Acquiring, Working, Leaving,
     HAcquiring, Checking, Runners, SkipHeavy, Goto
<1>10. ASSUME NEW p \in Loops, FinishInline(p)
      PROVE  RunsHaveShells'
  BY <1>10
  DEF ATypeOK, InlineRuns, RunsHaveShells, Acquiring, Working, Leaving,
     HAcquiring, Checking, Runners, FinishInline, Goto
<1>11. ASSUME NEW p \in Loops, NEW h \in Runners, LaunchHeavy(p, h)
      PROVE  RunsHaveShells'
  BY <1>11
  DEF ATypeOK, InlineRuns, RunsHaveShells, Acquiring, Working, Leaving,
     HAcquiring, Checking, Runners, LaunchHeavy, Goto, HeavyRunning
<1>12. ASSUME NEW p \in Loops, CleanupChildren(p)
      PROVE  RunsHaveShells'
  BY <1>12
  DEF ATypeOK, InlineRuns, RunsHaveShells, Acquiring, Working, Leaving,
     HAcquiring, Checking, Runners, CleanupChildren, Goto, EndRuns
<1>13. ASSUME NEW p \in Loops, ReleaseLock(p)
      PROVE  RunsHaveShells'
  BY <1>13
  DEF ATypeOK, InlineRuns, RunsHaveShells, Acquiring, Working, Leaving,
     HAcquiring, Checking, Runners, ReleaseLock, Goto
<1>14. ASSUME NEW p \in Loops, DropLock(p)
      PROVE  RunsHaveShells'
  BY <1>14
  DEF ATypeOK, InlineRuns, RunsHaveShells, Acquiring, Working, Leaving,
     HAcquiring, Checking, Runners, DropLock, Goto
<1>15. ASSUME NEW p \in Loops, Interrupt(p)
      PROVE  RunsHaveShells'
  BY <1>15
  DEF ATypeOK, InlineRuns, RunsHaveShells, Acquiring, Working, Leaving,
     HAcquiring, Checking, Runners, Interrupt, Signal, Gone, Goto
<1>16. ASSUME NEW p \in Loops, Kill(p)
      PROVE  RunsHaveShells'
  BY <1>16
  DEF ATypeOK, InlineRuns, RunsHaveShells, Acquiring, Working, Leaving,
     HAcquiring, Checking, Runners, Kill, Gone, Goto
<1>17. ASSUME NEW h \in Runners, HMkdir(h)
      PROVE  RunsHaveShells'
  BY <1>17
  DEF ATypeOK, InlineRuns, RunsHaveShells, Acquiring, Working, Leaving,
     HAcquiring, Checking, Runners, HMkdir, HGoto
<1>18. ASSUME NEW h \in Runners, HProbe(h)
      PROVE  RunsHaveShells'
  BY <1>18
  DEF ATypeOK, InlineRuns, RunsHaveShells, Acquiring, Working, Leaving,
     HAcquiring, Checking, Runners, HProbe, HGoto, EndRuns, HeavyRunning,
     Alive
<1>19. ASSUME NEW h \in Runners, HRemove(h)
      PROVE  RunsHaveShells'
  BY <1>19
  DEF ATypeOK, InlineRuns, RunsHaveShells, Acquiring, Working, Leaving,
     HAcquiring, Checking, Runners, HRemove, HGoto
<1>20. ASSUME NEW h \in Runners, HAgain(h)
      PROVE  RunsHaveShells'
  BY <1>20
  DEF ATypeOK, InlineRuns, RunsHaveShells, Acquiring, Working, Leaving,
     HAcquiring, Checking, Runners, HAgain, HGoto, EndRuns
<1>21. ASSUME NEW h \in Runners, HPublish(h)
      PROVE  RunsHaveShells'
  BY <1>21
  DEF ATypeOK, InlineRuns, RunsHaveShells, Acquiring, Working, Leaving,
     HAcquiring, Checking, Runners, HPublish, HGoto
<1>22. ASSUME NEW h \in Runners, HFinish(h)
      PROVE  RunsHaveShells'
  BY <1>22
  DEF ATypeOK, InlineRuns, RunsHaveShells, Acquiring, Working, Leaving,
     HAcquiring, Checking, Runners, HFinish, EndRuns
<1>23. ASSUME NEW h \in Tasks, KillTask(h)
      PROVE  RunsHaveShells'
  BY <1>23
  DEF ATypeOK, InlineRuns, RunsHaveShells, Acquiring, Working, Leaving,
     HAcquiring, Checking, Runners, KillTask, EndRuns
<1>24. ASSUME SupBeginLogs
      PROVE  RunsHaveShells'
  BY <1>24
  DEF ATypeOK, InlineRuns, RunsHaveShells, Acquiring, Working, Leaving,
     HAcquiring, Checking, Runners, SupBeginLogs
<1>25. ASSUME SupEndLogs
      PROVE  RunsHaveShells'
  BY <1>25
  DEF ATypeOK, InlineRuns, RunsHaveShells, Acquiring, Working, Leaving,
     HAcquiring, Checking, Runners, SupEndLogs
<1>26. ASSUME SupHealthy
      PROVE  RunsHaveShells'
  BY <1>26
  DEF ATypeOK, InlineRuns, RunsHaveShells, Acquiring, Working, Leaving,
     HAcquiring, Checking, Runners, SupHealthy
<1>27. ASSUME SupRestart
      PROVE  RunsHaveShells'
  BY <1>27
  DEF ATypeOK, InlineRuns, RunsHaveShells, Acquiring, Working, Leaving,
     HAcquiring, Checking, Runners, SupRestart, Settled
<1>28. ASSUME SupStopGroup
      PROVE  RunsHaveShells'
  BY <1>28
  DEF ATypeOK, InlineRuns, RunsHaveShells, Acquiring, Working, Leaving,
     HAcquiring, Checking, Runners, SupStopGroup, Goto, EndRuns, Alive
<1>29. ASSUME SupKillGroup
      PROVE  RunsHaveShells'
  BY <1>29
  DEF ATypeOK, InlineRuns, RunsHaveShells, Acquiring, Working, Leaving,
     HAcquiring, Checking, Runners, SupKillGroup, Goto, EndRuns, Alive
<1>30. ASSUME SupReadHolder
      PROVE  RunsHaveShells'
  BY <1>30
  DEF ATypeOK, InlineRuns, RunsHaveShells, Acquiring, Working, Leaving,
     HAcquiring, Checking, Runners, SupReadHolder, Signal, Gone, Goto, Alive
<1>31. ASSUME SupKillHolder
      PROVE  RunsHaveShells'
  BY <1>31
  DEF ATypeOK, InlineRuns, RunsHaveShells, Acquiring, Working, Leaving,
     HAcquiring, Checking, Runners, SupKillHolder, Gone, Goto
<1>32. ASSUME SupWipe
      PROVE  RunsHaveShells'
  BY <1>32
  DEF ATypeOK, InlineRuns, RunsHaveShells, Acquiring, Working, Leaving,
     HAcquiring, Checking, Runners, SupWipe
<1>33. ASSUME NEW p \in Loops, SupSpawn(p)
      PROVE  RunsHaveShells'
  BY <1>33
  DEF ATypeOK, InlineRuns, RunsHaveShells, Acquiring, Working, Leaving,
     HAcquiring, Checking, Runners, SupSpawn, Goto
<1>34. CASE UNCHANGED avars
  BY <1>34
  DEF ATypeOK, InlineRuns, RunsHaveShells, Acquiring, Working, Leaving,
     HAcquiring, Checking, Runners, avars
<1> QED
  BY <1>1, <1>2, <1>3, <1>4, <1>5, <1>6, <1>7, <1>8, <1>9, <1>10, <1>11,
     <1>12, <1>13, <1>14, <1>15, <1>16, <1>17, <1>18, <1>19, <1>20, <1>21,
     <1>22, <1>23, <1>24, <1>25, <1>26, <1>27, <1>28, <1>29, <1>30, <1>31,
     <1>32, <1>33, <1>34
  DEF ANext, LoopStep, HeavyStep, SupStep

\* Without overlapping starts a loop inside owns the directory.
LEMMA LoopsStep ==
    ASSUME ATypeOK, LoopsOwnLock, ~Overlap, [ANext]_avars
    PROVE  LoopsOwnLock'
<1> USE PidsDistinct DEF loopVars, heavyVars, supVars
<1>1. ASSUME NEW p \in Loops, NEW m \in {"loop", "once"}, Start(p, m)
      PROVE  LoopsOwnLock'
  BY <1>1
  DEF ATypeOK, LoopsOwnLock, Inside, Acquiring, Working, Leaving, HAcquiring,
     Checking, Runners, Start, Goto, Settled
<1>2. ASSUME NEW p \in Loops, Mkdir(p)
      PROVE  LoopsOwnLock'
  BY <1>2
  DEF ATypeOK, LoopsOwnLock, Inside, Acquiring, Working, Leaving, HAcquiring,
     Checking, Runners, Mkdir, Goto
<1>3. ASSUME NEW p \in Loops, ReadHolder(p)
      PROVE  LoopsOwnLock'
  BY <1>3
  DEF ATypeOK, LoopsOwnLock, Inside, Acquiring, Working, Leaving, HAcquiring,
     Checking, Runners, ReadHolder, Goto
<1>4. ASSUME NEW p \in Loops, Probe(p)
      PROVE  LoopsOwnLock'
  BY <1>4
  DEF ATypeOK, LoopsOwnLock, Inside, Acquiring, Working, Leaving, HAcquiring,
     Checking, Runners, Probe, Goto, Alive
<1>5. ASSUME NEW p \in Loops, RemoveStale(p)
      PROVE  LoopsOwnLock'
  BY <1>5
  DEF ATypeOK, LoopsOwnLock, Inside, Acquiring, Working, Leaving, HAcquiring,
     Checking, Runners, RemoveStale, Goto
<1>6. ASSUME NEW p \in Loops, Publish(p)
      PROVE  LoopsOwnLock'
  BY <1>6
  DEF ATypeOK, LoopsOwnLock, Inside, Acquiring, Working, Leaving, HAcquiring,
     Checking, Runners, Publish, Goto
<1>7. ASSUME NEW p \in Loops, BeginLogs(p)
      PROVE  LoopsOwnLock'
  BY <1>7
  DEF ATypeOK, LoopsOwnLock, Inside, Acquiring, Working, Leaving, HAcquiring,
     Checking, Runners, BeginLogs, Goto
<1>8. ASSUME NEW p \in Loops, EndLogs(p)
      PROVE  LoopsOwnLock'
  BY <1>8
  DEF ATypeOK, LoopsOwnLock, Inside, Acquiring, Working, Leaving, HAcquiring,
     Checking, Runners, EndLogs, Goto
<1>9. ASSUME NEW p \in Loops, SkipHeavy(p)
      PROVE  LoopsOwnLock'
  BY <1>9
  DEF ATypeOK, LoopsOwnLock, Inside, Acquiring, Working, Leaving, HAcquiring,
     Checking, Runners, SkipHeavy, Goto
<1>10. ASSUME NEW p \in Loops, FinishInline(p)
      PROVE  LoopsOwnLock'
  BY <1>10
  DEF ATypeOK, LoopsOwnLock, Inside, Acquiring, Working, Leaving, HAcquiring,
     Checking, Runners, FinishInline, Goto
<1>11. ASSUME NEW p \in Loops, NEW h \in Runners, LaunchHeavy(p, h)
      PROVE  LoopsOwnLock'
  BY <1>11
  DEF ATypeOK, LoopsOwnLock, Inside, Acquiring, Working, Leaving, HAcquiring,
     Checking, Runners, LaunchHeavy, Goto, HeavyRunning
<1>12. ASSUME NEW p \in Loops, CleanupChildren(p)
      PROVE  LoopsOwnLock'
  BY <1>12
  DEF ATypeOK, LoopsOwnLock, Inside, Acquiring, Working, Leaving, HAcquiring,
     Checking, Runners, CleanupChildren, Goto, EndRuns
<1>13. ASSUME NEW p \in Loops, ReleaseLock(p)
      PROVE  LoopsOwnLock'
  BY <1>13
  DEF ATypeOK, LoopsOwnLock, Inside, Acquiring, Working, Leaving, HAcquiring,
     Checking, Runners, ReleaseLock, Goto
<1>14. ASSUME NEW p \in Loops, DropLock(p)
      PROVE  LoopsOwnLock'
  BY <1>14
  DEF ATypeOK, LoopsOwnLock, Inside, Acquiring, Working, Leaving, HAcquiring,
     Checking, Runners, DropLock, Goto
<1>15. ASSUME NEW p \in Loops, Interrupt(p)
      PROVE  LoopsOwnLock'
  BY <1>15
  DEF ATypeOK, LoopsOwnLock, Inside, Acquiring, Working, Leaving, HAcquiring,
     Checking, Runners, Interrupt, Signal, Gone, Goto
<1>16. ASSUME NEW p \in Loops, Kill(p)
      PROVE  LoopsOwnLock'
  BY <1>16
  DEF ATypeOK, LoopsOwnLock, Inside, Acquiring, Working, Leaving, HAcquiring,
     Checking, Runners, Kill, Gone, Goto
<1>17. ASSUME NEW h \in Runners, HMkdir(h)
      PROVE  LoopsOwnLock'
  BY <1>17
  DEF ATypeOK, LoopsOwnLock, Inside, Acquiring, Working, Leaving, HAcquiring,
     Checking, Runners, HMkdir, HGoto
<1>18. ASSUME NEW h \in Runners, HProbe(h)
      PROVE  LoopsOwnLock'
  BY <1>18
  DEF ATypeOK, LoopsOwnLock, Inside, Acquiring, Working, Leaving, HAcquiring,
     Checking, Runners, HProbe, HGoto, EndRuns, HeavyRunning, Alive
<1>19. ASSUME NEW h \in Runners, HRemove(h)
      PROVE  LoopsOwnLock'
  BY <1>19
  DEF ATypeOK, LoopsOwnLock, Inside, Acquiring, Working, Leaving, HAcquiring,
     Checking, Runners, HRemove, HGoto
<1>20. ASSUME NEW h \in Runners, HAgain(h)
      PROVE  LoopsOwnLock'
  BY <1>20
  DEF ATypeOK, LoopsOwnLock, Inside, Acquiring, Working, Leaving, HAcquiring,
     Checking, Runners, HAgain, HGoto, EndRuns
<1>21. ASSUME NEW h \in Runners, HPublish(h)
      PROVE  LoopsOwnLock'
  BY <1>21
  DEF ATypeOK, LoopsOwnLock, Inside, Acquiring, Working, Leaving, HAcquiring,
     Checking, Runners, HPublish, HGoto
<1>22. ASSUME NEW h \in Runners, HFinish(h)
      PROVE  LoopsOwnLock'
  BY <1>22
  DEF ATypeOK, LoopsOwnLock, Inside, Acquiring, Working, Leaving, HAcquiring,
     Checking, Runners, HFinish, EndRuns
<1>23. ASSUME NEW h \in Tasks, KillTask(h)
      PROVE  LoopsOwnLock'
  BY <1>23
  DEF ATypeOK, LoopsOwnLock, Inside, Acquiring, Working, Leaving, HAcquiring,
     Checking, Runners, KillTask, EndRuns
<1>24. ASSUME SupBeginLogs
      PROVE  LoopsOwnLock'
  BY <1>24
  DEF ATypeOK, LoopsOwnLock, Inside, Acquiring, Working, Leaving, HAcquiring,
     Checking, Runners, SupBeginLogs
<1>25. ASSUME SupEndLogs
      PROVE  LoopsOwnLock'
  BY <1>25
  DEF ATypeOK, LoopsOwnLock, Inside, Acquiring, Working, Leaving, HAcquiring,
     Checking, Runners, SupEndLogs
<1>26. ASSUME SupHealthy
      PROVE  LoopsOwnLock'
  BY <1>26
  DEF ATypeOK, LoopsOwnLock, Inside, Acquiring, Working, Leaving, HAcquiring,
     Checking, Runners, SupHealthy
<1>27. ASSUME SupRestart
      PROVE  LoopsOwnLock'
  BY <1>27
  DEF ATypeOK, LoopsOwnLock, Inside, Acquiring, Working, Leaving, HAcquiring,
     Checking, Runners, SupRestart, Settled
<1>28. ASSUME SupStopGroup
      PROVE  LoopsOwnLock'
  BY <1>28
  DEF ATypeOK, LoopsOwnLock, Inside, Acquiring, Working, Leaving, HAcquiring,
     Checking, Runners, SupStopGroup, Goto, EndRuns, Alive
<1>29. ASSUME SupKillGroup
      PROVE  LoopsOwnLock'
  BY <1>29
  DEF ATypeOK, LoopsOwnLock, Inside, Acquiring, Working, Leaving, HAcquiring,
     Checking, Runners, SupKillGroup, Goto, EndRuns, Alive
<1>30. ASSUME SupReadHolder
      PROVE  LoopsOwnLock'
  BY <1>30
  DEF ATypeOK, LoopsOwnLock, Inside, Acquiring, Working, Leaving, HAcquiring,
     Checking, Runners, SupReadHolder, Signal, Gone, Goto, Alive
<1>31. ASSUME SupKillHolder
      PROVE  LoopsOwnLock'
  BY <1>31
  DEF ATypeOK, LoopsOwnLock, Inside, Acquiring, Working, Leaving, HAcquiring,
     Checking, Runners, SupKillHolder, Gone, Goto
<1>32. ASSUME SupWipe
      PROVE  LoopsOwnLock'
  BY <1>32
  DEF ATypeOK, LoopsOwnLock, Inside, Acquiring, Working, Leaving, HAcquiring,
     Checking, Runners, SupWipe
<1>33. ASSUME NEW p \in Loops, SupSpawn(p)
      PROVE  LoopsOwnLock'
  BY <1>33
  DEF ATypeOK, LoopsOwnLock, Inside, Acquiring, Working, Leaving, HAcquiring,
     Checking, Runners, SupSpawn, Goto
<1>34. CASE UNCHANGED avars
  BY <1>34
  DEF ATypeOK, LoopsOwnLock, Inside, Acquiring, Working, Leaving, HAcquiring,
     Checking, Runners, avars
<1> QED
  BY <1>1, <1>2, <1>3, <1>4, <1>5, <1>6, <1>7, <1>8, <1>9, <1>10, <1>11,
     <1>12, <1>13, <1>14, <1>15, <1>16, <1>17, <1>18, <1>19, <1>20, <1>21,
     <1>22, <1>23, <1>24, <1>25, <1>26, <1>27, <1>28, <1>29, <1>30, <1>31,
     <1>32, <1>33, <1>34
  DEF ANext, LoopStep, HeavyStep, SupStep

\* Without overlapping launches one heavy run at a time is acquiring.
LEMMA AcquiredStep ==
    ASSUME ATypeOK, InlineRuns, HeavyAcquired, ~Overlap, [ANext]_avars
    PROVE  HeavyAcquired'
<1> USE PidsDistinct DEF loopVars, heavyVars, supVars
<1>1. ASSUME NEW p \in Loops, NEW m \in {"loop", "once"}, Start(p, m)
      PROVE  HeavyAcquired'
  BY <1>1
  DEF ATypeOK, InlineRuns, HeavyAcquired, Acquiring, Working, Leaving,
     HAcquiring, Checking, Runners, Start, Goto, Settled
<1>2. ASSUME NEW p \in Loops, Mkdir(p)
      PROVE  HeavyAcquired'
  BY <1>2
  DEF ATypeOK, InlineRuns, HeavyAcquired, Acquiring, Working, Leaving,
     HAcquiring, Checking, Runners, Mkdir, Goto
<1>3. ASSUME NEW p \in Loops, ReadHolder(p)
      PROVE  HeavyAcquired'
  BY <1>3
  DEF ATypeOK, InlineRuns, HeavyAcquired, Acquiring, Working, Leaving,
     HAcquiring, Checking, Runners, ReadHolder, Goto
<1>4. ASSUME NEW p \in Loops, Probe(p)
      PROVE  HeavyAcquired'
  BY <1>4
  DEF ATypeOK, InlineRuns, HeavyAcquired, Acquiring, Working, Leaving,
     HAcquiring, Checking, Runners, Probe, Goto, Alive
<1>5. ASSUME NEW p \in Loops, RemoveStale(p)
      PROVE  HeavyAcquired'
  BY <1>5
  DEF ATypeOK, InlineRuns, HeavyAcquired, Acquiring, Working, Leaving,
     HAcquiring, Checking, Runners, RemoveStale, Goto
<1>6. ASSUME NEW p \in Loops, Publish(p)
      PROVE  HeavyAcquired'
  BY <1>6
  DEF ATypeOK, InlineRuns, HeavyAcquired, Acquiring, Working, Leaving,
     HAcquiring, Checking, Runners, Publish, Goto
<1>7. ASSUME NEW p \in Loops, BeginLogs(p)
      PROVE  HeavyAcquired'
  BY <1>7
  DEF ATypeOK, InlineRuns, HeavyAcquired, Acquiring, Working, Leaving,
     HAcquiring, Checking, Runners, BeginLogs, Goto
<1>8. ASSUME NEW p \in Loops, EndLogs(p)
      PROVE  HeavyAcquired'
  BY <1>8
  DEF ATypeOK, InlineRuns, HeavyAcquired, Acquiring, Working, Leaving,
     HAcquiring, Checking, Runners, EndLogs, Goto
<1>9. ASSUME NEW p \in Loops, SkipHeavy(p)
      PROVE  HeavyAcquired'
  BY <1>9
  DEF ATypeOK, InlineRuns, HeavyAcquired, Acquiring, Working, Leaving,
     HAcquiring, Checking, Runners, SkipHeavy, Goto
<1>10. ASSUME NEW p \in Loops, FinishInline(p)
      PROVE  HeavyAcquired'
  BY <1>10
  DEF ATypeOK, InlineRuns, HeavyAcquired, Acquiring, Working, Leaving,
     HAcquiring, Checking, Runners, FinishInline, Goto
<1>11. ASSUME NEW p \in Loops, NEW h \in Runners, LaunchHeavy(p, h)
      PROVE  HeavyAcquired'
  BY <1>11
  DEF ATypeOK, InlineRuns, HeavyAcquired, Acquiring, Working, Leaving,
     HAcquiring, Checking, Runners, LaunchHeavy, Goto, HeavyRunning
<1>12. ASSUME NEW p \in Loops, CleanupChildren(p)
      PROVE  HeavyAcquired'
  BY <1>12
  DEF ATypeOK, InlineRuns, HeavyAcquired, Acquiring, Working, Leaving,
     HAcquiring, Checking, Runners, CleanupChildren, Goto, EndRuns
<1>13. ASSUME NEW p \in Loops, ReleaseLock(p)
      PROVE  HeavyAcquired'
  BY <1>13
  DEF ATypeOK, InlineRuns, HeavyAcquired, Acquiring, Working, Leaving,
     HAcquiring, Checking, Runners, ReleaseLock, Goto
<1>14. ASSUME NEW p \in Loops, DropLock(p)
      PROVE  HeavyAcquired'
  BY <1>14
  DEF ATypeOK, InlineRuns, HeavyAcquired, Acquiring, Working, Leaving,
     HAcquiring, Checking, Runners, DropLock, Goto
<1>15. ASSUME NEW p \in Loops, Interrupt(p)
      PROVE  HeavyAcquired'
  BY <1>15
  DEF ATypeOK, InlineRuns, HeavyAcquired, Acquiring, Working, Leaving,
     HAcquiring, Checking, Runners, Interrupt, Signal, Gone, Goto
<1>16. ASSUME NEW p \in Loops, Kill(p)
      PROVE  HeavyAcquired'
  BY <1>16
  DEF ATypeOK, InlineRuns, HeavyAcquired, Acquiring, Working, Leaving,
     HAcquiring, Checking, Runners, Kill, Gone, Goto
<1>17. ASSUME NEW h \in Runners, HMkdir(h)
      PROVE  HeavyAcquired'
  BY <1>17
  DEF ATypeOK, InlineRuns, HeavyAcquired, Acquiring, Working, Leaving,
     HAcquiring, Checking, Runners, HMkdir, HGoto
<1>18. ASSUME NEW h \in Runners, HProbe(h)
      PROVE  HeavyAcquired'
  BY <1>18
  DEF ATypeOK, InlineRuns, HeavyAcquired, Acquiring, Working, Leaving,
     HAcquiring, Checking, Runners, HProbe, HGoto, EndRuns, HeavyRunning,
     Alive
<1>19. ASSUME NEW h \in Runners, HRemove(h)
      PROVE  HeavyAcquired'
  BY <1>19
  DEF ATypeOK, InlineRuns, HeavyAcquired, Acquiring, Working, Leaving,
     HAcquiring, Checking, Runners, HRemove, HGoto
<1>20. ASSUME NEW h \in Runners, HAgain(h)
      PROVE  HeavyAcquired'
  BY <1>20
  DEF ATypeOK, InlineRuns, HeavyAcquired, Acquiring, Working, Leaving,
     HAcquiring, Checking, Runners, HAgain, HGoto, EndRuns
<1>21. ASSUME NEW h \in Runners, HPublish(h)
      PROVE  HeavyAcquired'
  BY <1>21
  DEF ATypeOK, InlineRuns, HeavyAcquired, Acquiring, Working, Leaving,
     HAcquiring, Checking, Runners, HPublish, HGoto
<1>22. ASSUME NEW h \in Runners, HFinish(h)
      PROVE  HeavyAcquired'
  BY <1>22
  DEF ATypeOK, InlineRuns, HeavyAcquired, Acquiring, Working, Leaving,
     HAcquiring, Checking, Runners, HFinish, EndRuns
<1>23. ASSUME NEW h \in Tasks, KillTask(h)
      PROVE  HeavyAcquired'
  BY <1>23
  DEF ATypeOK, InlineRuns, HeavyAcquired, Acquiring, Working, Leaving,
     HAcquiring, Checking, Runners, KillTask, EndRuns
<1>24. ASSUME SupBeginLogs
      PROVE  HeavyAcquired'
  BY <1>24
  DEF ATypeOK, InlineRuns, HeavyAcquired, Acquiring, Working, Leaving,
     HAcquiring, Checking, Runners, SupBeginLogs
<1>25. ASSUME SupEndLogs
      PROVE  HeavyAcquired'
  BY <1>25
  DEF ATypeOK, InlineRuns, HeavyAcquired, Acquiring, Working, Leaving,
     HAcquiring, Checking, Runners, SupEndLogs
<1>26. ASSUME SupHealthy
      PROVE  HeavyAcquired'
  BY <1>26
  DEF ATypeOK, InlineRuns, HeavyAcquired, Acquiring, Working, Leaving,
     HAcquiring, Checking, Runners, SupHealthy
<1>27. ASSUME SupRestart
      PROVE  HeavyAcquired'
  BY <1>27
  DEF ATypeOK, InlineRuns, HeavyAcquired, Acquiring, Working, Leaving,
     HAcquiring, Checking, Runners, SupRestart, Settled
<1>28. ASSUME SupStopGroup
      PROVE  HeavyAcquired'
  BY <1>28
  DEF ATypeOK, InlineRuns, HeavyAcquired, Acquiring, Working, Leaving,
     HAcquiring, Checking, Runners, SupStopGroup, Goto, EndRuns, Alive
<1>29. ASSUME SupKillGroup
      PROVE  HeavyAcquired'
  BY <1>29
  DEF ATypeOK, InlineRuns, HeavyAcquired, Acquiring, Working, Leaving,
     HAcquiring, Checking, Runners, SupKillGroup, Goto, EndRuns, Alive
<1>30. ASSUME SupReadHolder
      PROVE  HeavyAcquired'
  BY <1>30
  DEF ATypeOK, InlineRuns, HeavyAcquired, Acquiring, Working, Leaving,
     HAcquiring, Checking, Runners, SupReadHolder, Signal, Gone, Goto, Alive
<1>31. ASSUME SupKillHolder
      PROVE  HeavyAcquired'
  BY <1>31
  DEF ATypeOK, InlineRuns, HeavyAcquired, Acquiring, Working, Leaving,
     HAcquiring, Checking, Runners, SupKillHolder, Gone, Goto
<1>32. ASSUME SupWipe
      PROVE  HeavyAcquired'
  BY <1>32
  DEF ATypeOK, InlineRuns, HeavyAcquired, Acquiring, Working, Leaving,
     HAcquiring, Checking, Runners, SupWipe
<1>33. ASSUME NEW p \in Loops, SupSpawn(p)
      PROVE  HeavyAcquired'
  BY <1>33
  DEF ATypeOK, InlineRuns, HeavyAcquired, Acquiring, Working, Leaving,
     HAcquiring, Checking, Runners, SupSpawn, Goto
<1>34. CASE UNCHANGED avars
  BY <1>34
  DEF ATypeOK, InlineRuns, HeavyAcquired, Acquiring, Working, Leaving,
     HAcquiring, Checking, Runners, avars
<1> QED
  BY <1>1, <1>2, <1>3, <1>4, <1>5, <1>6, <1>7, <1>8, <1>9, <1>10, <1>11,
     <1>12, <1>13, <1>14, <1>15, <1>16, <1>17, <1>18, <1>19, <1>20, <1>21,
     <1>22, <1>23, <1>24, <1>25, <1>26, <1>27, <1>28, <1>29, <1>30, <1>31,
     <1>32, <1>33, <1>34
  DEF ANext, LoopStep, HeavyStep, SupStep

\* Where BASHPID is known the heavy run that is on owns its directory.
LEMMA RunsOwnStep ==
    ASSUME ATypeOK, InlineRuns, HeavyAcquired, RunsOwnLock, ~Overlap,
           FALSE \notin BashPid, [ANext]_avars
    PROVE  RunsOwnLock'
<1> USE PidsDistinct DEF loopVars, heavyVars, supVars
<1>1. ASSUME NEW p \in Loops, NEW m \in {"loop", "once"}, Start(p, m)
      PROVE  RunsOwnLock'
  BY <1>1
  DEF ATypeOK, InlineRuns, HeavyAcquired, RunsOwnLock, Acquiring, Working,
     Leaving, HAcquiring, Checking, Runners, Start, Goto, Settled
<1>2. ASSUME NEW p \in Loops, Mkdir(p)
      PROVE  RunsOwnLock'
  BY <1>2
  DEF ATypeOK, InlineRuns, HeavyAcquired, RunsOwnLock, Acquiring, Working,
     Leaving, HAcquiring, Checking, Runners, Mkdir, Goto
<1>3. ASSUME NEW p \in Loops, ReadHolder(p)
      PROVE  RunsOwnLock'
  BY <1>3
  DEF ATypeOK, InlineRuns, HeavyAcquired, RunsOwnLock, Acquiring, Working,
     Leaving, HAcquiring, Checking, Runners, ReadHolder, Goto
<1>4. ASSUME NEW p \in Loops, Probe(p)
      PROVE  RunsOwnLock'
  BY <1>4
  DEF ATypeOK, InlineRuns, HeavyAcquired, RunsOwnLock, Acquiring, Working,
     Leaving, HAcquiring, Checking, Runners, Probe, Goto, Alive
<1>5. ASSUME NEW p \in Loops, RemoveStale(p)
      PROVE  RunsOwnLock'
  BY <1>5
  DEF ATypeOK, InlineRuns, HeavyAcquired, RunsOwnLock, Acquiring, Working,
     Leaving, HAcquiring, Checking, Runners, RemoveStale, Goto
<1>6. ASSUME NEW p \in Loops, Publish(p)
      PROVE  RunsOwnLock'
  BY <1>6
  DEF ATypeOK, InlineRuns, HeavyAcquired, RunsOwnLock, Acquiring, Working,
     Leaving, HAcquiring, Checking, Runners, Publish, Goto
<1>7. ASSUME NEW p \in Loops, BeginLogs(p)
      PROVE  RunsOwnLock'
  BY <1>7
  DEF ATypeOK, InlineRuns, HeavyAcquired, RunsOwnLock, Acquiring, Working,
     Leaving, HAcquiring, Checking, Runners, BeginLogs, Goto
<1>8. ASSUME NEW p \in Loops, EndLogs(p)
      PROVE  RunsOwnLock'
  BY <1>8
  DEF ATypeOK, InlineRuns, HeavyAcquired, RunsOwnLock, Acquiring, Working,
     Leaving, HAcquiring, Checking, Runners, EndLogs, Goto
<1>9. ASSUME NEW p \in Loops, SkipHeavy(p)
      PROVE  RunsOwnLock'
  BY <1>9
  DEF ATypeOK, InlineRuns, HeavyAcquired, RunsOwnLock, Acquiring, Working,
     Leaving, HAcquiring, Checking, Runners, SkipHeavy, Goto
<1>10. ASSUME NEW p \in Loops, FinishInline(p)
      PROVE  RunsOwnLock'
  BY <1>10
  DEF ATypeOK, InlineRuns, HeavyAcquired, RunsOwnLock, Acquiring, Working,
     Leaving, HAcquiring, Checking, Runners, FinishInline, Goto
<1>11. ASSUME NEW p \in Loops, NEW h \in Runners, LaunchHeavy(p, h)
      PROVE  RunsOwnLock'
  BY <1>11
  DEF ATypeOK, InlineRuns, HeavyAcquired, RunsOwnLock, Acquiring, Working,
     Leaving, HAcquiring, Checking, Runners, LaunchHeavy, Goto, HeavyRunning
<1>12. ASSUME NEW p \in Loops, CleanupChildren(p)
      PROVE  RunsOwnLock'
  BY <1>12
  DEF ATypeOK, InlineRuns, HeavyAcquired, RunsOwnLock, Acquiring, Working,
     Leaving, HAcquiring, Checking, Runners, CleanupChildren, Goto, EndRuns
<1>13. ASSUME NEW p \in Loops, ReleaseLock(p)
      PROVE  RunsOwnLock'
  BY <1>13
  DEF ATypeOK, InlineRuns, HeavyAcquired, RunsOwnLock, Acquiring, Working,
     Leaving, HAcquiring, Checking, Runners, ReleaseLock, Goto
<1>14. ASSUME NEW p \in Loops, DropLock(p)
      PROVE  RunsOwnLock'
  BY <1>14
  DEF ATypeOK, InlineRuns, HeavyAcquired, RunsOwnLock, Acquiring, Working,
     Leaving, HAcquiring, Checking, Runners, DropLock, Goto
<1>15. ASSUME NEW p \in Loops, Interrupt(p)
      PROVE  RunsOwnLock'
  BY <1>15
  DEF ATypeOK, InlineRuns, HeavyAcquired, RunsOwnLock, Acquiring, Working,
     Leaving, HAcquiring, Checking, Runners, Interrupt, Signal, Gone, Goto
<1>16. ASSUME NEW p \in Loops, Kill(p)
      PROVE  RunsOwnLock'
  BY <1>16
  DEF ATypeOK, InlineRuns, HeavyAcquired, RunsOwnLock, Acquiring, Working,
     Leaving, HAcquiring, Checking, Runners, Kill, Gone, Goto
<1>17. ASSUME NEW h \in Runners, HMkdir(h)
      PROVE  RunsOwnLock'
  BY <1>17
  DEF ATypeOK, InlineRuns, HeavyAcquired, RunsOwnLock, Acquiring, Working,
     Leaving, HAcquiring, Checking, Runners, HMkdir, HGoto
<1>18. ASSUME NEW h \in Runners, HProbe(h)
      PROVE  RunsOwnLock'
  BY <1>18
  DEF ATypeOK, InlineRuns, HeavyAcquired, RunsOwnLock, Acquiring, Working,
     Leaving, HAcquiring, Checking, Runners, HProbe, HGoto, EndRuns,
     HeavyRunning, Alive
<1>19. ASSUME NEW h \in Runners, HRemove(h)
      PROVE  RunsOwnLock'
  BY <1>19
  DEF ATypeOK, InlineRuns, HeavyAcquired, RunsOwnLock, Acquiring, Working,
     Leaving, HAcquiring, Checking, Runners, HRemove, HGoto
<1>20. ASSUME NEW h \in Runners, HAgain(h)
      PROVE  RunsOwnLock'
  BY <1>20
  DEF ATypeOK, InlineRuns, HeavyAcquired, RunsOwnLock, Acquiring, Working,
     Leaving, HAcquiring, Checking, Runners, HAgain, HGoto, EndRuns
<1>21. ASSUME NEW h \in Runners, HPublish(h)
      PROVE  RunsOwnLock'
  <2>1. \A known \in BashPid : known = TRUE
    BY BashPidIsBoolean
  <2>2. heavyLock = "empty" /\ heavyLock' = h
    BY <1>21, <2>1, PidsDistinct DEF HPublish, RunsOwnLock
  <2>3. \A g \in Runners : g # h => hpc[g] \notin HAcquiring /\ hpc[g] # "run"
    BY <1>21, <2>2, PidsDistinct
    DEF HPublish, HeavyAcquired, RunsOwnLock, HAcquiring, Runners
  <2> QED
    BY <1>21, <2>2, <2>3 DEF HPublish, HGoto, RunsOwnLock, HAcquiring, ATypeOK
<1>22. ASSUME NEW h \in Runners, HFinish(h)
      PROVE  RunsOwnLock'
  BY <1>22
  DEF ATypeOK, InlineRuns, HeavyAcquired, RunsOwnLock, Acquiring, Working,
     Leaving, HAcquiring, Checking, Runners, HFinish, EndRuns
<1>23. ASSUME NEW h \in Tasks, KillTask(h)
      PROVE  RunsOwnLock'
  BY <1>23
  DEF ATypeOK, InlineRuns, HeavyAcquired, RunsOwnLock, Acquiring, Working,
     Leaving, HAcquiring, Checking, Runners, KillTask, EndRuns
<1>24. ASSUME SupBeginLogs
      PROVE  RunsOwnLock'
  BY <1>24
  DEF ATypeOK, InlineRuns, HeavyAcquired, RunsOwnLock, Acquiring, Working,
     Leaving, HAcquiring, Checking, Runners, SupBeginLogs
<1>25. ASSUME SupEndLogs
      PROVE  RunsOwnLock'
  BY <1>25
  DEF ATypeOK, InlineRuns, HeavyAcquired, RunsOwnLock, Acquiring, Working,
     Leaving, HAcquiring, Checking, Runners, SupEndLogs
<1>26. ASSUME SupHealthy
      PROVE  RunsOwnLock'
  BY <1>26
  DEF ATypeOK, InlineRuns, HeavyAcquired, RunsOwnLock, Acquiring, Working,
     Leaving, HAcquiring, Checking, Runners, SupHealthy
<1>27. ASSUME SupRestart
      PROVE  RunsOwnLock'
  BY <1>27
  DEF ATypeOK, InlineRuns, HeavyAcquired, RunsOwnLock, Acquiring, Working,
     Leaving, HAcquiring, Checking, Runners, SupRestart, Settled
<1>28. ASSUME SupStopGroup
      PROVE  RunsOwnLock'
  BY <1>28
  DEF ATypeOK, InlineRuns, HeavyAcquired, RunsOwnLock, Acquiring, Working,
     Leaving, HAcquiring, Checking, Runners, SupStopGroup, Goto, EndRuns,
     Alive
<1>29. ASSUME SupKillGroup
      PROVE  RunsOwnLock'
  BY <1>29
  DEF ATypeOK, InlineRuns, HeavyAcquired, RunsOwnLock, Acquiring, Working,
     Leaving, HAcquiring, Checking, Runners, SupKillGroup, Goto, EndRuns,
     Alive
<1>30. ASSUME SupReadHolder
      PROVE  RunsOwnLock'
  BY <1>30
  DEF ATypeOK, InlineRuns, HeavyAcquired, RunsOwnLock, Acquiring, Working,
     Leaving, HAcquiring, Checking, Runners, SupReadHolder, Signal, Gone,
     Goto, Alive
<1>31. ASSUME SupKillHolder
      PROVE  RunsOwnLock'
  BY <1>31
  DEF ATypeOK, InlineRuns, HeavyAcquired, RunsOwnLock, Acquiring, Working,
     Leaving, HAcquiring, Checking, Runners, SupKillHolder, Gone, Goto
<1>32. ASSUME SupWipe
      PROVE  RunsOwnLock'
  BY <1>32
  DEF ATypeOK, InlineRuns, HeavyAcquired, RunsOwnLock, Acquiring, Working,
     Leaving, HAcquiring, Checking, Runners, SupWipe
<1>33. ASSUME NEW p \in Loops, SupSpawn(p)
      PROVE  RunsOwnLock'
  BY <1>33
  DEF ATypeOK, InlineRuns, HeavyAcquired, RunsOwnLock, Acquiring, Working,
     Leaving, HAcquiring, Checking, Runners, SupSpawn, Goto
<1>34. CASE UNCHANGED avars
  BY <1>34
  DEF ATypeOK, InlineRuns, HeavyAcquired, RunsOwnLock, Acquiring, Working,
     Leaving, HAcquiring, Checking, Runners, avars
<1> QED
  BY <1>1, <1>2, <1>3, <1>4, <1>5, <1>6, <1>7, <1>8, <1>9, <1>10, <1>11,
     <1>12, <1>13, <1>14, <1>15, <1>16, <1>17, <1>18, <1>19, <1>20, <1>21,
     <1>22, <1>23, <1>24, <1>25, <1>26, <1>27, <1>28, <1>29, <1>30, <1>31,
     <1>32, <1>33, <1>34
  DEF ANext, LoopStep, HeavyStep, SupStep

\* What keeps the others out is alive.
LEMMA KeeperLives ==
    ASSUME ATypeOK, InlineRuns, RunsHaveShells, NEW h \in Runners, Keeper(h),
           hpc[h] = "run"
    PROVE  HeavyRunning
  BY PidsDistinct
  DEF ATypeOK, InlineRuns, RunsHaveShells, Keeper, HeavyRunning, Alive, Runners,
     Working

\* A step that counts no more runs than the strays it adds, and that either
\* has a keeper, takes none away, or no longer counts one of the runs.
LEMMA CountKept ==
    ASSUME HeavyCounted, NEW B \in SUBSET Runners,
           strays \in Nat,
           strays' = strays + Cardinality(B),
           Counted' \subseteq Counted \cup B,
           \A g, h \in Runners : hpc'[g] \in {"remove", "again"} => ~Keeper(h)',
           \/ \E h \in Runners : Keeper(h)'
           \/ \A h \in Runners : ~Keeper(h)
           \/ \E h \in Counted : h \in B \/ h \notin Counted'
    PROVE  HeavyCounted'
<1> DEFINE C == Counted
           D == Counted'
<1>1. C \in SUBSET Runners /\ D \in SUBSET Runners
  BY DEF Counted
<1>2. /\ IsFiniteSet(B) /\ IsFiniteSet(C) /\ IsFiniteSet(D) /\ IsFiniteSet(C \cup B)
      /\ Cardinality(B) \in Nat /\ Cardinality(C) \in Nat /\ Cardinality(D) \in Nat
      /\ Cardinality(C \cap B) \in Nat /\ Cardinality(C \cup B) \in Nat
  BY <1>1, RunnersFinite
<1> HIDE DEF C, D
<1>3. Cardinality(C \cup B) = Cardinality(C) + Cardinality(B) - Cardinality(C \cap B)
  BY <1>2, FS_Union
<1>4. Cardinality(D) <= Cardinality(C \cup B)
  BY <1>2, FS_Subset DEF C, D
<1>5. /\ Cardinality(C) <= 1 + strays
      /\ Cardinality(C) <= strays \/ \E h \in Runners : Keeper(h)
  BY DEF HeavyCounted, C
<1>6. Cardinality(D) <= 1 + strays'
  BY <1>2, <1>3, <1>4, <1>5
<1>7. ASSUME \A h \in Runners : ~Keeper(h)
      PROVE  Cardinality(D) <= strays'
  BY <1>2, <1>3, <1>4, <1>5, <1>7
<1>8. ASSUME NEW h \in C, h \in B \/ h \notin D
      PROVE  Cardinality(D) <= strays'
  <2>1. CASE h \in B
    <3>1. IsFiniteSet(C \cap B) /\ C \cap B # {}
      BY <1>1, <1>8, <2>1, RunnersFinite
    <3>2. Cardinality(C \cap B) # 0
      BY <3>1, FS_EmptySet
    <3> QED
      BY <1>2, <1>3, <1>4, <1>5, <3>2
  <2>2. CASE h \notin D /\ h \notin B
    <3>1. Cardinality((C \cup B) \ {h}) = Cardinality(C \cup B) - 1
      BY <1>2, <1>8, FS_RemoveElement
    <3>2. /\ IsFiniteSet((C \cup B) \ {h})
          /\ D \subseteq (C \cup B) \ {h}
      BY <1>2, <2>2, FS_RemoveElement DEF C, D
    <3>3. Cardinality(D) <= Cardinality((C \cup B) \ {h})
      BY <3>2, FS_Subset
    <3> QED
      BY <1>2, <1>3, <1>5, <3>1, <3>3
  <2> QED
    BY <1>8, <2>1, <2>2
<1>9. Cardinality(D) <= strays' \/ \E h \in Runners : Keeper(h)'
  BY <1>7, <1>8 DEF C, D
<1> QED
  BY <1>6, <1>9 DEF HeavyCounted, D

\* A run that enters while nobody keeps the others out keeps them out itself.
LEMMA CountEntry ==
    ASSUME HeavyCounted, NEW h \in Runners,
           strays \in Nat, strays' = strays,
           \A g \in Runners : ~Keeper(g),
           Counted' \subseteq Counted \cup {h},
           h \in Counted \/ Keeper(h)',
           \A g \in Runners : hpc'[g] \notin {"remove", "again"}
    PROVE  HeavyCounted'
<1> DEFINE C == Counted
           D == Counted'
<1>1. C \in SUBSET Runners /\ D \in SUBSET Runners
  BY DEF Counted
<1>2. /\ IsFiniteSet(C) /\ Cardinality(C) \in Nat
      /\ IsFiniteSet(D) /\ Cardinality(D) \in Nat
  BY <1>1, RunnersFinite
<1> HIDE DEF C, D
<1>3. Cardinality(C) <= strays
  BY DEF HeavyCounted, C
<1>4. /\ IsFiniteSet(C \cup {h})
      /\ Cardinality(C \cup {h}) = IF h \in C THEN Cardinality(C) ELSE Cardinality(C) + 1
  BY <1>2, FS_AddElement
<1>5. Cardinality(D) <= Cardinality(C \cup {h})
  BY <1>4, FS_Subset DEF C, D
<1>6. Cardinality(D) <= 1 + strays'
  BY <1>2, <1>3, <1>4, <1>5
<1>7. Cardinality(D) <= strays' \/ \E g \in Runners : Keeper(g)'
  <2>1. CASE h \in C
    BY <1>2, <1>3, <1>4, <1>5, <2>1
  <2>2. CASE Keeper(h)'
    BY <2>2
  <2> QED
    BY <2>1, <2>2 DEF C
<1> QED
  BY <1>6, <1>7 DEF HeavyCounted, D

\* The kinds of steps: those that do not touch the heavy tasks, ...
LEMMA CountQuiet ==
    ASSUME HeavyCounted, UNCHANGED <<heavyLock, heavyVars>>
    PROVE  HeavyCounted'
<1>1. Counted' = Counted
  BY DEF Counted, heavyVars
<1>2. \A h \in Runners : Keeper(h)' <=> Keeper(h)
  BY DEF Keeper, heavyVars
<1> QED
  BY <1>1, <1>2 DEF HeavyCounted, heavyVars

\* ... those that end runs, ...
LEMMA CountEnds ==
    ASSUME ATypeOK, HeavyCounted, NEW dead, EndRuns(dead), UNCHANGED heavyLock
    PROVE  HeavyCounted'
<1>1. Counted' \subseteq Counted
  BY DEF EndRuns, Counted
<1>2. \A h \in Runners : h \notin dead => (Keeper(h)' <=> Keeper(h))
  BY DEF EndRuns, Keeper
<1>3. \A h \in Runners : h \in dead => h \notin Counted' /\ ~Keeper(h)'
  BY DEF EndRuns, Counted, Keeper
<1>4. \A h \in Runners : Keeper(h) => h \in Counted
  BY DEF Keeper, Counted
<1>5. \A g, h \in Runners : hpc'[g] \in {"remove", "again"} => ~Keeper(h)'
  BY <1>2, <1>3 DEF HeavyCounted, EndRuns
<1>6. strays' = strays + Cardinality({}) /\ strays \in Nat
  BY FS_EmptySet DEF EndRuns, ATypeOK
<1>7. \/ \E h \in Runners : Keeper(h)'
      \/ \A h \in Runners : ~Keeper(h)
      \/ \E h \in Counted : h \in {} \/ h \notin Counted'
  BY <1>2, <1>3, <1>4
<1>8. Counted' \subseteq Counted \cup {}
  BY <1>1
<1> QED
  BY <1>5, <1>6, <1>7, <1>8, CountKept

\* ... those after which a process is gone, ...
LEMMA CountGone ==
    ASSUME ATypeOK, InlineRuns, HeavyCounted, NEW p \in Loops, Gone(p),
           UNCHANGED heavyLock
    PROVE  HeavyCounted'
<1> DEFINE B == Background(p)
<1>1. \A h \in Runners : h # p =>
          /\ hpc'[h] = hpc[h]
          /\ parent'[h] = IF parent[h] = p THEN "none" ELSE parent[h]
  BY DEF Gone, ATypeOK, Runners
<1>2. hpc'[p] = "off" /\ p \notin Counted' /\ ~Keeper(p)'
  BY DEF Gone, ATypeOK, Runners, Counted, Keeper
<1>3. \A h \in Runners : h # p /\ hpc[h] # "off" /\ parent[h] = p => h \in B
  BY DEF InlineRuns, Background, Runners
<1>4. Counted' \subseteq Counted \cup B
  BY <1>1, <1>2, <1>3 DEF Counted
<1>5. \A h \in Runners : h # p /\ parent[h] # p => (Keeper(h)' <=> Keeper(h))
  BY <1>1 DEF Keeper
<1>6. \A h \in Runners : h # p /\ parent[h] = p => ~Keeper(h)'
  BY <1>1 DEF Keeper
<1>7. \A h \in Runners : Keeper(h) => h \in Counted
  BY DEF Keeper, Counted
<1>8. \A h \in Runners : Keeper(h) /\ h # p /\ parent[h] = p => h \in B
  BY <1>3 DEF Keeper
<1>9. \A g, h \in Runners : hpc'[g] \in {"remove", "again"} => ~Keeper(h)'
  BY <1>1, <1>2, <1>5, <1>6 DEF HeavyCounted
<1>10. strays' = strays + Cardinality(B) /\ strays \in Nat /\ B \in SUBSET Runners
  BY DEF Gone, ATypeOK, Background, Runners
<1>11. \/ \E h \in Runners : Keeper(h)'
       \/ \A h \in Runners : ~Keeper(h)
       \/ \E h \in Counted : h \in B \/ h \notin Counted'
  BY <1>2, <1>5, <1>7, <1>8
<1> HIDE DEF B
<1> QED
  BY <1>4, <1>9, <1>10, <1>11, CountKept

\* ... those that signal one, ...
LEMMA CountSignal ==
    ASSUME ATypeOK, InlineRuns, HeavyCounted, NEW p \in Loops, Signal(p),
           UNCHANGED heavyLock
    PROVE  HeavyCounted'
<1>1. CASE pc[p] \in Working
  <2>1. /\ hpc' = [hpc EXCEPT ![p] = "off"]
        /\ parent' = parent /\ strays' = strays
    BY <1>1 DEF Signal
  <2>2. /\ \A h \in Runners : h # p => (Keeper(h)' <=> Keeper(h))
        /\ p \notin Counted' /\ ~Keeper(p)'
        /\ Counted' \subseteq Counted
    BY <2>1 DEF Keeper, Counted, ATypeOK, Runners
  <2>3. \A h \in Runners : Keeper(h) => h \in Counted
    BY DEF Keeper, Counted
  <2>4. \A g, h \in Runners : hpc'[g] \in {"remove", "again"} => ~Keeper(h)'
    BY <2>1, <2>2 DEF HeavyCounted, ATypeOK, Runners
  <2>5. strays' = strays + Cardinality({}) /\ strays \in Nat
    BY <2>1, FS_EmptySet DEF ATypeOK
  <2>6. \/ \E h \in Runners : Keeper(h)'
        \/ \A h \in Runners : ~Keeper(h)
        \/ \E h \in Counted : h \in {} \/ h \notin Counted'
    BY <2>2, <2>3
  <2>7. Counted' \subseteq Counted \cup {}
    BY <2>2
  <2> QED
    BY <2>4, <2>5, <2>6, <2>7, CountKept
<1>2. CASE pc[p] \notin Working
  BY <1>2, CountGone DEF Signal
<1> QED
  BY <1>1, <1>2

\* ... also by the supervisor, ...
LEMMA CountHolder ==
    ASSUME ATypeOK, InlineRuns, HeavyCounted, SupReadHolder \/ SupKillHolder
    PROVE  HeavyCounted'
<1>1. CASE SupReadHolder
  <2>1. CASE lock \in Loops /\ Alive(lock)
    BY <1>1, <2>1, CountSignal DEF SupReadHolder
  <2>2. CASE ~(lock \in Loops /\ Alive(lock))
    BY <1>1, <2>2, CountQuiet DEF SupReadHolder
  <2> QED
    BY <2>1, <2>2
<1>2. CASE SupKillHolder
  BY <1>2, CountGone DEF SupKillHolder, ATypeOK
<1> QED
  BY <1>1, <1>2

\* ... and those of a heavy run.
LEMMA CountLaunch ==
    ASSUME ATypeOK, HeavyCounted, ~Overlap,
           NEW p \in Loops, NEW h \in Runners, LaunchHeavy(p, h)
    PROVE  HeavyCounted'
<1>1. /\ hpc[h] = "off" /\ hpc'[h] = "mkdir" /\ parent'[h] = p
      /\ \A g \in Runners : g # h => hpc'[g] = hpc[g] /\ parent'[g] = parent[g]
      /\ heavyLock' = heavyLock /\ strays' = strays
  BY DEF LaunchHeavy, ATypeOK
<1>2. Counted' \subseteq Counted
  BY <1>1, PidsDistinct DEF Counted
<1>3. \A g \in Runners : Keeper(g)' <=> Keeper(g)
  BY <1>1 DEF Keeper
<1>4. \A g \in Runners : hpc'[g] \notin {"remove", "again"}
  BY <1>1 DEF LaunchHeavy, HAcquiring
<1>5. strays' = strays + Cardinality({}) /\ strays \in Nat
  BY <1>1, FS_EmptySet DEF ATypeOK
<1>6. Counted' \subseteq Counted \cup {}
  BY <1>2
<1> QED
  BY <1>3, <1>4, <1>5, <1>6, CountKept

LEMMA CountMkdir ==
    ASSUME ATypeOK, HeavyAcquired, HeavyCounted, NEW h \in Runners, HMkdir(h)
    PROVE  HeavyCounted'
<1>1. /\ hpc[h] = "mkdir" /\ parent' = parent /\ strays' = strays /\ strays \in Nat
      /\ \A g \in Runners : g # h => hpc'[g] = hpc[g]
      /\ \A g \in Runners : hpc'[g] \notin {"remove", "again"}
  BY DEF HMkdir, HGoto, ATypeOK, HeavyAcquired, HAcquiring
<1>2. CASE heavyLock = "absent"
  <2>1. hpc'[h] = "publish" /\ heavyLock' = "empty"
    BY <1>2 DEF HMkdir, HGoto, ATypeOK
  <2>2. \A g \in Runners : ~Keeper(g)
    BY <1>2, PidsDistinct DEF Keeper, ATypeOK, Runners
  <2>3. Counted' \subseteq Counted \cup {h}
    BY <1>1 DEF Counted
  <2>4. h \in Counted \/ Keeper(h)'
    BY <1>1, <2>1 DEF Counted, Keeper
  <2> QED
    BY <1>1, <2>2, <2>3, <2>4, CountEntry
<1>3. CASE heavyLock # "absent"
  <2>1. hpc'[h] = "probe" /\ heavyLock' = heavyLock
    BY <1>3 DEF HMkdir, HGoto, ATypeOK
  <2>2. Counted' \subseteq Counted \cup {}
    BY <1>1, <2>1 DEF Counted
  <2>3. \A g \in Runners : Keeper(g)' <=> Keeper(g)
    BY <1>1, <2>1 DEF Keeper
  <2>4. strays' = strays + Cardinality({})
    BY <1>1, FS_EmptySet
  <2> QED
    BY <1>1, <2>2, <2>3, <2>4, CountKept
<1> QED
  BY <1>2, <1>3

LEMMA CountProbe ==
    ASSUME ATypeOK, InlineRuns, RunsHaveShells, HeavyAcquired, HeavyCounted,
           NEW h \in Runners, HProbe(h)
    PROVE  HeavyCounted'
<1>1. CASE HeavyRunning
  BY <1>1, CountEnds DEF HProbe
<1>2. CASE ~HeavyRunning
  <2>1. /\ hpc[h] = "probe" /\ hpc'[h] = "remove" /\ heavyLock' = heavyLock
        /\ parent' = parent /\ strays' = strays /\ strays \in Nat
        /\ \A g \in Runners : g # h => hpc'[g] = hpc[g]
    BY <1>2 DEF HProbe, HGoto, ATypeOK
  <2>2. \A g \in Runners : hpc[g] # "publish"
    BY <2>1 DEF HeavyAcquired, HAcquiring
  <2>3. \A g \in Runners : ~Keeper(g)
    BY <1>2, <2>2, KeeperLives DEF Keeper
  <2>4. \A g \in Runners : ~Keeper(g)'
    BY <2>1, <2>3 DEF Keeper
  <2>5. Counted' \subseteq Counted \cup {}
    BY <2>1 DEF Counted
  <2>6. strays' = strays + Cardinality({})
    BY <2>1, FS_EmptySet
  <2> QED
    BY <2>1, <2>3, <2>4, <2>5, <2>6, CountKept
<1> QED
  BY <1>1, <1>2

LEMMA CountRemove ==
    ASSUME ATypeOK, HeavyCounted, NEW h \in Runners, HRemove(h)
    PROVE  HeavyCounted'
<1>1. /\ hpc[h] = "remove" /\ hpc'[h] = "again" /\ heavyLock' = "absent"
      /\ parent' = parent /\ strays' = strays /\ strays \in Nat
      /\ \A g \in Runners : g # h => hpc'[g] = hpc[g]
  BY DEF HRemove, HGoto, ATypeOK
<1>2. \A g \in Runners : ~Keeper(g)
  BY <1>1 DEF HeavyCounted
<1>3. \A g \in Runners : ~Keeper(g)'
  BY <1>1, PidsDistinct DEF Keeper, ATypeOK, Runners
<1>4. Counted' \subseteq Counted \cup {}
  BY <1>1 DEF Counted
<1>5. strays' = strays + Cardinality({})
  BY <1>1, FS_EmptySet
<1> QED
  BY <1>1, <1>2, <1>3, <1>4, <1>5, CountKept

LEMMA CountAgain ==
    ASSUME ATypeOK, HeavyAcquired, HeavyCounted, NEW h \in Runners, HAgain(h)
    PROVE  HeavyCounted'
<1>1. CASE heavyLock = "absent"
  <2>1. /\ hpc[h] = "again" /\ hpc'[h] = "publish" /\ heavyLock' = "empty"
        /\ parent' = parent /\ strays' = strays /\ strays \in Nat
        /\ \A g \in Runners : g # h => hpc'[g] = hpc[g]
    BY <1>1 DEF HAgain, HGoto, ATypeOK
  <2>2. \A g \in Runners : ~Keeper(g)
    BY <2>1 DEF HeavyCounted
  <2>3. Counted' \subseteq Counted \cup {h}
    BY <2>1 DEF Counted
  <2>4. h \in Counted \/ Keeper(h)'
    BY <2>1 DEF Counted, Keeper
  <2>5. \A g \in Runners : hpc'[g] \notin {"remove", "again"}
    BY <2>1 DEF HeavyAcquired, HAcquiring
  <2> QED
    BY <2>1, <2>2, <2>3, <2>4, <2>5, CountEntry
<1>2. CASE heavyLock # "absent"
  BY <1>2, CountEnds DEF HAgain
<1> QED
  BY <1>1, <1>2

LEMMA CountPublish ==
    ASSUME ATypeOK, RunsHaveShells, HeavyAcquired, HeavyCounted,
           NEW h \in Runners, HPublish(h)
    PROVE  HeavyCounted'
<1>1. /\ hpc[h] = "publish" /\ hpc'[h] = "run"
      /\ parent' = parent /\ strays' = strays /\ strays \in Nat
      /\ \A g \in Runners : g # h => hpc'[g] = hpc[g]
  BY DEF HPublish, HGoto, ATypeOK
<1>2. \A g \in Runners : g # h => hpc[g] \notin HAcquiring
  BY <1>1 DEF HeavyAcquired, HAcquiring
<1>3. heavyLock \in {"empty", "absent"}
  BY <1>1 DEF HeavyAcquired
<1>4. \A g \in Runners : Keeper(g) => g = h
  BY <1>2, <1>3, PidsDistinct DEF Keeper, HAcquiring, ATypeOK, Runners
<1>5. Keeper(h) => Keeper(h)'
  <2> SUFFICES ASSUME Keeper(h) PROVE Keeper(h)'
    OBVIOUS
  <2>1. parent[h] # "none" /\ heavyLock = "empty"
    BY <1>1 DEF Keeper
  <2>2. shell[h] = parent[h]
    BY <1>1, <2>1 DEF RunsHaveShells
  <2>3. heavyLock' \in {h, parent[h]}
    BY <2>1, <2>2 DEF HPublish
  <2> QED
    BY <1>1, <2>1, <2>3 DEF Keeper
<1>6. \A g \in Runners : hpc'[g] \notin {"remove", "again"}
  BY <1>1, <1>2 DEF HAcquiring
<1>7. Counted' \subseteq Counted \cup {}
  BY <1>1 DEF Counted
<1>8. strays' = strays + Cardinality({})
  BY <1>1, FS_EmptySet
<1> QED
  BY <1>1, <1>4, <1>5, <1>6, <1>7, <1>8, CountKept

LEMMA CountFinish ==
    ASSUME ATypeOK, HeavyCounted, NEW h \in Runners, HFinish(h)
    PROVE  HeavyCounted'
<1>1. /\ hpc[h] = "run" /\ hpc'[h] = "off" /\ heavyLock' = "absent"
      /\ strays' = strays /\ strays \in Nat
      /\ \A g \in Runners : g # h => hpc'[g] = hpc[g] /\ parent'[g] = parent[g]
  BY DEF HFinish, EndRuns, ATypeOK
<1>2. h \in Counted /\ h \notin Counted'
  BY <1>1 DEF Counted
<1>3. Counted' \subseteq Counted \cup {}
  BY <1>1, <1>2 DEF Counted
<1>4. parent'[h] = "none"
  BY DEF HFinish, EndRuns
<1>5. \A g \in Runners : ~Keeper(g)'
  BY <1>1, <1>4, PidsDistinct DEF Keeper, ATypeOK, Runners
<1>6. strays' = strays + Cardinality({})
  BY <1>1, FS_EmptySet
<1> QED
  BY <1>1, <1>2, <1>3, <1>5, <1>6, CountKept

\* Every step keeps the count of the heavy runs.
LEMMA CountStep ==
    ASSUME ATypeOK, InlineRuns, RunsHaveShells, HeavyAcquired, HeavyCounted,
           ~Overlap, [ANext]_avars
    PROVE  HeavyCounted'
<1> USE DEF loopVars, heavyVars, supVars
<1>1. ASSUME NEW p \in Loops, NEW m \in {"loop", "once"}, Start(p, m)
      PROVE  HeavyCounted'
  BY <1>1, CountQuiet
  DEF Start
<1>2. ASSUME NEW p \in Loops, Mkdir(p)
      PROVE  HeavyCounted'
  BY <1>2, CountQuiet
  DEF Mkdir
<1>3. ASSUME NEW p \in Loops, ReadHolder(p)
      PROVE  HeavyCounted'
  BY <1>3, CountQuiet
  DEF ReadHolder
<1>4. ASSUME NEW p \in Loops, Probe(p)
      PROVE  HeavyCounted'
  BY <1>4, CountQuiet
  DEF Probe
<1>5. ASSUME NEW p \in Loops, RemoveStale(p)
      PROVE  HeavyCounted'
  BY <1>5, CountQuiet
  DEF RemoveStale
<1>6. ASSUME NEW p \in Loops, Publish(p)
      PROVE  HeavyCounted'
  BY <1>6, CountQuiet
  DEF Publish
<1>7. ASSUME NEW p \in Loops, BeginLogs(p)
      PROVE  HeavyCounted'
  BY <1>7, CountQuiet
  DEF BeginLogs
<1>8. ASSUME NEW p \in Loops, EndLogs(p)
      PROVE  HeavyCounted'
  BY <1>8, CountQuiet
  DEF EndLogs
<1>9. ASSUME NEW p \in Loops, SkipHeavy(p)
      PROVE  HeavyCounted'
  BY <1>9, CountQuiet
  DEF SkipHeavy
<1>10. ASSUME NEW p \in Loops, FinishInline(p)
      PROVE  HeavyCounted'
  BY <1>10, CountQuiet
  DEF FinishInline
<1>11. ASSUME NEW p \in Loops, NEW h \in Runners, LaunchHeavy(p, h)
      PROVE  HeavyCounted'
  BY <1>11, CountLaunch
<1>12. ASSUME NEW p \in Loops, CleanupChildren(p)
      PROVE  HeavyCounted'
  BY <1>12, CountEnds
  DEF CleanupChildren
<1>13. ASSUME NEW p \in Loops, ReleaseLock(p)
      PROVE  HeavyCounted'
  BY <1>13, CountQuiet
  DEF ReleaseLock
<1>14. ASSUME NEW p \in Loops, DropLock(p)
      PROVE  HeavyCounted'
  BY <1>14, CountQuiet
  DEF DropLock
<1>15. ASSUME NEW p \in Loops, Interrupt(p)
      PROVE  HeavyCounted'
  BY <1>15, CountSignal
  DEF Interrupt
<1>16. ASSUME NEW p \in Loops, Kill(p)
      PROVE  HeavyCounted'
  BY <1>16, CountGone
  DEF Kill
<1>17. ASSUME NEW h \in Runners, HMkdir(h)
      PROVE  HeavyCounted'
  BY <1>17, CountMkdir
<1>18. ASSUME NEW h \in Runners, HProbe(h)
      PROVE  HeavyCounted'
  BY <1>18, CountProbe
<1>19. ASSUME NEW h \in Runners, HRemove(h)
      PROVE  HeavyCounted'
  BY <1>19, CountRemove
<1>20. ASSUME NEW h \in Runners, HAgain(h)
      PROVE  HeavyCounted'
  BY <1>20, CountAgain
<1>21. ASSUME NEW h \in Runners, HPublish(h)
      PROVE  HeavyCounted'
  BY <1>21, CountPublish
<1>22. ASSUME NEW h \in Runners, HFinish(h)
      PROVE  HeavyCounted'
  BY <1>22, CountFinish
<1>23. ASSUME NEW h \in Tasks, KillTask(h)
      PROVE  HeavyCounted'
  BY <1>23, CountEnds
  DEF KillTask
<1>24. ASSUME SupBeginLogs
      PROVE  HeavyCounted'
  BY <1>24, CountQuiet
  DEF SupBeginLogs
<1>25. ASSUME SupEndLogs
      PROVE  HeavyCounted'
  BY <1>25, CountQuiet
  DEF SupEndLogs
<1>26. ASSUME SupHealthy
      PROVE  HeavyCounted'
  BY <1>26, CountQuiet
  DEF SupHealthy
<1>27. ASSUME SupRestart
      PROVE  HeavyCounted'
  BY <1>27, CountQuiet
  DEF SupRestart
<1>28. ASSUME SupStopGroup
      PROVE  HeavyCounted'
  BY <1>28, CountEnds, CountQuiet
  DEF SupStopGroup
<1>29. ASSUME SupKillGroup
      PROVE  HeavyCounted'
  BY <1>29, CountEnds, CountQuiet
  DEF SupKillGroup
<1>30. ASSUME SupReadHolder
      PROVE  HeavyCounted'
  BY <1>30, CountHolder
<1>31. ASSUME SupKillHolder
      PROVE  HeavyCounted'
  BY <1>31, CountHolder
<1>32. ASSUME SupWipe
      PROVE  HeavyCounted'
  BY <1>32, CountQuiet
  DEF SupWipe
<1>33. ASSUME NEW p \in Loops, SupSpawn(p)
      PROVE  HeavyCounted'
  BY <1>33, CountQuiet
  DEF SupSpawn
<1>34. CASE UNCHANGED avars
  BY <1>34, CountQuiet DEF avars
<1> QED
  BY <1>1, <1>2, <1>3, <1>4, <1>5, <1>6, <1>7, <1>8, <1>9, <1>10, <1>11,
     <1>12, <1>13, <1>14, <1>15, <1>16, <1>17, <1>18, <1>19, <1>20, <1>21,
     <1>22, <1>23, <1>24, <1>25, <1>26, <1>27, <1>28, <1>29, <1>30, <1>31,
     <1>32, <1>33, <1>34
  DEF ANext, LoopStep, HeavyStep, SupStep

\* The inductive invariant holds in every reachable state.
THEOREM AgentInvariant == ASpec => []AInv
<1>1. AInit => AInv
  <2> SUFFICES ASSUME AInit PROVE AInv
    OBVIOUS
  <2>1. /\ ATypeOK /\ LogsOwned /\ InlineRuns /\ RunsHaveShells
        /\ LoopsOwnLock /\ HeavyAcquired /\ RunsOwnLock
    BY PidsDistinct
    DEF AInit, ATypeOK, LogsOwned, InlineRuns, RunsHaveShells, LoopsOwnLock,
       HeavyAcquired, RunsOwnLock, Inside, Acquiring, Working, Leaving,
       HAcquiring, Checking, Runners
  <2>2. Counted = {} /\ strays = 0 /\ \A h \in Runners : ~Keeper(h)
    BY DEF AInit, Counted, Keeper
  <2>3. HeavyCounted
    BY <2>2, FS_EmptySet DEF HeavyCounted
  <2> QED
    BY <2>1, <2>3 DEF AInv
<1>2. AInv /\ [ANext]_avars => AInv'
  <2> SUFFICES ASSUME AInv, [ANext]_avars PROVE AInv'
    OBVIOUS
  <2>1. /\ ATypeOK /\ LogsOwned /\ InlineRuns /\ RunsHaveShells
        /\ ~Overlap => LoopsOwnLock /\ HeavyAcquired /\ HeavyCounted
        /\ ~Overlap /\ FALSE \notin BashPid => RunsOwnLock
    BY DEF AInv
  <2>2. ATypeOK' /\ LogsOwned' /\ InlineRuns' /\ RunsHaveShells'
    BY <2>1, TypeStep, LogsStep, InlineStep, ShellStep
  <2>3. ~Overlap => LoopsOwnLock' /\ HeavyAcquired' /\ HeavyCounted'
    BY <2>1, LoopsStep, AcquiredStep, CountStep
  <2>4. ~Overlap /\ FALSE \notin BashPid => RunsOwnLock'
    BY <2>1, RunsOwnStep
  <2> QED
    BY <2>2, <2>3, <2>4 DEF AInv
<1> QED
  BY <1>1, <1>2, PTL DEF ASpec

\* Types are kept for any number of pids and any number of signals.
THEOREM AgentTypes == ASpec => []ATypeOK
<1>1. AInv => ATypeOK
  BY DEF AInv
<1> QED
  BY <1>1, AgentInvariant, PTL

\* acquire_loop_lock admits one loop at a time, through kills, stale locks and
\* replacements by the supervisor, as long as starts do not overlap.
THEOREM LoopIsAlone ==
    ASSUME ~Overlap
    PROVE  ASpec => []OneLoop
<1>1. AInv => OneLoop
  BY DEF AInv, LoopsOwnLock, OneLoop
<1> QED
  BY <1>1, AgentInvariant, PTL

\* acquire_heavy_lock admits one set of heavy tasks at a time where the shell
\* knows BASHPID, although tasks outlive the loop they belong to; where it does
\* not, each set that outlived its loop lets at most one more in.
THEOREM HeavyIsAlone ==
    ASSUME ~Overlap
    PROVE  ASpec => []OneHeavy
<1>1. AInv => OneHeavy
  <2> SUFFICES ASSUME AInv PROVE OneHeavy
    OBVIOUS
  <2> DEFINE R == {h \in Runners : hpc[h] = "run"}
  <2>1. IsFiniteSet(Counted) /\ R \subseteq Counted
    BY RunnersFinite DEF Counted
  <2>2. Cardinality(R) <= Cardinality(Counted)
    BY <2>1, FS_Subset
  <2>3. Cardinality(R) \in Nat /\ Cardinality(Counted) \in Nat
    BY RunnersFinite DEF Counted
  <2>4. Cardinality(Counted) <= 1 + strays /\ strays \in Nat
    BY DEF AInv, HeavyCounted, ATypeOK
  <2>5. CASE FALSE \in BashPid
    BY <2>2, <2>3, <2>4, <2>5 DEF OneHeavy
  <2>6. CASE FALSE \notin BashPid
    <3>1. R \subseteq {heavyLock}
      BY <2>6 DEF AInv, RunsOwnLock
    <3>2. IsFiniteSet({heavyLock}) /\ Cardinality({heavyLock}) = 1
      BY FS_Singleton
    <3>3. Cardinality(R) <= 1
      BY <3>1, <3>2, FS_Subset
    <3> QED
      BY <2>6, <3>3 DEF OneHeavy
  <2> QED
    BY <2>5, <2>6
<1> QED
  BY <1>1, AgentInvariant, PTL

\* Log maintenance is exclusive in any case: its directory is never taken
\* from the process that made it.
THEOREM LogsAlone == ASpec => []OneLogMaintainer
<1>1. AInv => OneLogMaintainer
  BY PidsDistinct DEF AInv, LogsOwned, OneLogMaintainer
<1> QED
  BY <1>1, AgentInvariant, PTL
=============================================================================
