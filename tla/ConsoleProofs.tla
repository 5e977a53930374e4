---------------------------- MODULE ConsoleProofs ----------------------------
(* Theorems about Console, for any key map files and any number of          *)
(* launches, calls, processes and lines.                                    *)
EXTENDS Console, SequenceTheorems, TLAPS

\* The key map in use is the built-in one or has passed validate_binds().
KnownMap == bind = Defaults \/ validate_binds(bind)

\* Init establishes the invariant.
LEMMA InitHolds == Init => IInv /\ TakenIsShown
  <1> SUFFICES ASSUME Init PROVE IInv /\ TakenIsShown
    OBVIOUS
  <1>1. FlagsOK  BY DEF Init, FlagsOK
  <1>2. DataOK  BY BoundsAssumption DEF Init, DataOK, UiPC, Thread, Thing, Modal, SupPC
  <1>3. Phases /\ Screens  BY DEF Init, Phases, Screens, InLoop
  <1>4. TakenIsShown  BY DEF Init, TakenIsShown
  <1> QED  BY <1>1, <1>2, <1>3, <1>4 DEF IInv, TypeOK

\* Flags.
LEMMA FlagsKept == FlagsOK /\ [Next]_vars => FlagsOK'
  <1> SUFFICES ASSUME FlagsOK, [Next]_vars PROVE FlagsOK'
    OBVIOUS
  <1> USE DEF FlagsOK, main, view, flags, life, sup, child,
        trk, vars
  <1>1. ASSUME NEW f \in Files, Load(f) PROVE FlagsOK'
    BY <1>1 DEF Load
  <1>2. CASE Choose
    BY <1>2 DEF Choose
  <1>3. CASE Start
    BY <1>3 DEF Start
  <1>4. CASE Enter
    BY <1>4 DEF Enter
  <1>5. CASE on_sig
    BY <1>5 DEF on_sig
  <1>6. CASE LoopEnds
    BY <1>6 DEF LoopEnds, LeaveLoop
  <1>7. CASE AfterLoop
    BY <1>7 DEF AfterLoop, StopSupervisor
  <1>8. CASE JoinRefresh
    BY <1>8 DEF JoinRefresh
  <1>9. CASE StopAll
    BY <1>9 DEF StopAll, StopSupervisor
  <1>10. CASE JoinPoller
    BY <1>10 DEF JoinPoller
  <1>11. CASE JoinEngine
    BY <1>11 DEF JoinEngine
  <1>12. CASE FreeRing
    BY <1>12 DEF FreeRing
  <1>13. CASE DestroySupervisor
    BY <1>13 DEF DestroySupervisor
  <1>14. CASE DestroyTracker
    BY <1>14 DEF DestroyTracker
  <1>15. CASE RefreshPosts
    BY <1>15 DEF RefreshPosts
  <1>16. ASSUME NEW t \in Thread, Returns(t) PROVE FlagsOK'
    BY <1>16 DEF Returns
  <1>17. CASE SupLeaves
    BY <1>17 DEF SupLeaves, Ended
  <1>18. CASE SupFails
    BY <1>18 DEF SupFails, Ended
  <1>19. CASE Ask
    BY <1>19 DEF Ask
  <1>20. CASE Arm
    BY <1>20 DEF Arm
  <1>21. CASE Answer
    BY <1>21 DEF Answer, Ended
  <1>22. CASE TreeEnds
    BY <1>22 DEF TreeEnds
  <1>23. CASE ChildReads
    BY <1>23 DEF ChildReads
  <1>24. CASE Hold
    BY <1>24 DEF Hold
  <1>25. CASE Draw /\ ShowCall
    BY <1>25 DEF Draw, ShowCall, TakesOver
  <1>26. CASE Draw /\ ShowProcess
    BY <1>26 DEF Draw, ShowProcess
  <1>27. CASE Draw /\ ShowSame
    BY <1>27 DEF Draw, ShowSame
  <1>28. ASSUME NEW a, DecideCall(a) PROVE FlagsOK'
    BY <1>28 DEF DecideCall, Key, Screen
  <1>29. CASE DecideProcess
    BY <1>29 DEF DecideProcess, Key, Line, Screen
  <1>30. CASE OpenLaunch
    BY <1>30 DEF OpenLaunch, Go, Key, Screen
  <1>31. CASE OpenRepman
    BY <1>31 DEF OpenRepman, Go, Key, Screen
  <1>32. CASE CloseRepman
    BY <1>32 DEF CloseRepman, Go, Key, Screen
  <1>33. CASE CloseLaunch
    BY <1>33 DEF CloseLaunch, Go, Line, Screen
  <1>34. ASSUME NEW s \in BOOLEAN, Help(s) PROVE FlagsOK'
    BY <1>34 DEF Help, Key
  <1>35. CASE OpenOutput
    BY <1>35 DEF OpenOutput, Output, Key, Screen
  <1>36. CASE CloseOutput
    BY <1>36 DEF CloseOutput, Output, Key, Screen
  <1>37. CASE StartTyping
    BY <1>37 DEF StartTyping, Output, Key, Screen
  <1>38. CASE StopTyping
    BY <1>38 DEF StopTyping, Output, Line, Screen
  <1>39. CASE Type
    BY <1>39 DEF Type, Output, Line, Screen
  <1>40. CASE Backspace
    BY <1>40 DEF Backspace, Output, Line, Screen
  <1>41. CASE Send
    BY <1>41 DEF Send, Line, Screen
  <1>42. CASE LaunchRefused
    BY <1>42 DEF LaunchRefused, Go, Line, Screen
  <1>43. CASE LaunchBegins
    BY <1>43 DEF LaunchBegins, Line, Screen
  <1>44. CASE QuitKey
    BY <1>44 DEF QuitKey, LeaveLoop, StopSupervisor
  <1>45. CASE OtherKey
    BY <1>45 DEF OtherKey
  <1>46. CASE Write
    BY <1>46 DEF Write
  <1>47. CASE LaunchFails
    BY <1>47 DEF LaunchFails, Joined
  <1>48. CASE Launched
    BY <1>48 DEF Launched, LaunchedWith, Joined
  <1>49. CASE UNCHANGED vars
    BY <1>49
  <1> QED  BY <1>1, <1>2, <1>3, <1>4, <1>5, <1>6, <1>7, <1>8, <1>9, <1>10, <1>11, <1>12, <1>13, <1>14, <1>15, <1>16, <1>17, <1>18, <1>19, <1>20, <1>21, <1>22, <1>23, <1>24, <1>25, <1>26, <1>27, <1>28, <1>29, <1>30, <1>31, <1>32, <1>33, <1>34, <1>35, <1>36, <1>37, <1>38, <1>39, <1>40, <1>41, <1>42, <1>43, <1>44, <1>45, <1>46, <1>47, <1>48, <1>49
    DEF Next, End, Supervise, Draw, Keys, Calls, RefreshReturns, PollerReturns,
        PollerFails, EngineReturns, ReaderReturns, Thread

\* Types.
LEMMA DataKept == DataOK /\ Screens /\ [Next]_vars => DataOK'
  <1> SUFFICES ASSUME DataOK, Screens, [Next]_vars PROVE DataOK'
    OBVIOUS
  <1> USE BoundsAssumption DEF DataOK, Screens, UiPC, Thread, Thing, Modal, SupPC, main, view, flags, life, sup, child,
        trk, vars
  <1>1. ASSUME NEW f \in Files, Load(f) PROVE DataOK'
    BY <1>1 DEF Load
  <1>2. CASE Choose
    BY <1>2 DEF Choose
  <1>3. CASE Start
    BY <1>3 DEF Start
  <1>4. CASE Enter
    BY <1>4 DEF Enter
  <1>5. CASE on_sig
    BY <1>5 DEF on_sig
  <1>6. CASE LoopEnds
    BY <1>6 DEF LoopEnds, LeaveLoop
  <1>7. CASE AfterLoop
    BY <1>7 DEF AfterLoop, StopSupervisor
  <1>8. CASE JoinRefresh
    BY <1>8 DEF JoinRefresh
  <1>9. CASE StopAll
    BY <1>9 DEF StopAll, StopSupervisor
  <1>10. CASE JoinPoller
    BY <1>10 DEF JoinPoller
  <1>11. CASE JoinEngine
    BY <1>11 DEF JoinEngine
  <1>12. CASE FreeRing
    BY <1>12 DEF FreeRing
  <1>13. CASE DestroySupervisor
    BY <1>13 DEF DestroySupervisor
  <1>14. CASE DestroyTracker
    BY <1>14 DEF DestroyTracker
  <1>15. CASE RefreshPosts
    BY <1>15 DEF RefreshPosts
  <1>16. ASSUME NEW t \in Thread, Returns(t) PROVE DataOK'
    BY <1>16 DEF Returns
  <1>17. CASE SupLeaves
    BY <1>17 DEF SupLeaves, Ended
  <1>18. CASE SupFails
    BY <1>18 DEF SupFails, Ended
  <1>19. CASE Ask
    BY <1>19 DEF Ask
  <1>20. CASE Arm
    BY <1>20 DEF Arm
  <1>21. CASE Answer
    <2>1. CASE decision = "KILL" /\ ~sup_stop
      BY <1>21, <2>1 DEF Answer, Ended
    <2>2. CASE ~(decision = "KILL" /\ ~sup_stop)
      <3>1. sup_pc' = "poll" /\ awaiting' = 0
        BY <1>21, <2>2 DEF Answer
      <3>2. UNCHANGED <<ui, bind, view, alive, freed, launches, asks, prompts, decision,
                        unread, lines, holds, queue, answered>>
        BY <1>21 DEF Answer
      <3> QED  BY <3>1, <3>2
    <2> QED  BY <2>1, <2>2
  <1>22. CASE TreeEnds
    BY <1>22 DEF TreeEnds
  <1>23. CASE ChildReads
    BY <1>23 DEF ChildReads
  <1>24. CASE Hold
    BY <1>24 DEF Hold
  <1>25. CASE Draw /\ ShowCall
    BY <1>25 DEF Draw, ShowCall, TakesOver
  <1>26. CASE Draw /\ ShowProcess
    BY <1>26 DEF Draw, ShowProcess
  <1>27. CASE Draw /\ ShowSame
    BY <1>27 DEF Draw, ShowSame
  <1>28. ASSUME NEW a, DecideCall(a) PROVE DataOK'
    <2>1. prompts' \in Seq(1 .. MaxAsk)
      <3>1. prompts' = prompts \/ (prompts # <<>> /\ prompts' = Tail(prompts))
        BY <1>28 DEF DecideCall
      <3>2. prompts # <<>> => Tail(prompts) \in Seq(1 .. MaxAsk)
        BY HeadTailProperties
      <3> QED  BY <3>1, <3>2
    <2>2. decision' \in {"PENDING", "GO", "KILL"}
      BY <1>28 DEF DecideCall
    <2> QED  BY <1>28, <2>1, <2>2 DEF DecideCall
  <1>29. CASE DecideProcess
    BY <1>29 DEF DecideProcess, Key, Line, Screen
  <1>30. CASE OpenLaunch
    BY <1>30 DEF OpenLaunch, Go, Key, Screen
  <1>31. CASE OpenRepman
    BY <1>31 DEF OpenRepman, Go, Key, Screen
  <1>32. CASE CloseRepman
    BY <1>32 DEF CloseRepman, Go, Key, Screen
  <1>33. CASE CloseLaunch
    BY <1>33 DEF CloseLaunch, Go, Line, Screen
  <1>34. ASSUME NEW s \in BOOLEAN, Help(s) PROVE DataOK'
    BY <1>34 DEF Help, Key
  <1>35. CASE OpenOutput
    BY <1>35 DEF OpenOutput, Output, Key, Screen
  <1>36. CASE CloseOutput
    BY <1>36 DEF CloseOutput, Output, Key, Screen
  <1>37. CASE StartTyping
    BY <1>37 DEF StartTyping, Output, Key, Screen
  <1>38. CASE StopTyping
    BY <1>38 DEF StopTyping, Output, Line, Screen
  <1>39. CASE Type
    BY <1>39 DEF Type, Output, Line, Screen
  <1>40. CASE Backspace
    BY <1>40 DEF Backspace, Output, Line, Screen
  <1>41. CASE Send
    BY <1>41 DEF Send, Line, Screen
  <1>42. CASE LaunchRefused
    BY <1>42 DEF LaunchRefused, Go, Line, Screen
  <1>43. CASE LaunchBegins
    BY <1>43 DEF LaunchBegins, Line, Screen
  <1>44. CASE QuitKey
    BY <1>44 DEF QuitKey, LeaveLoop, StopSupervisor
  <1>45. CASE OtherKey
    BY <1>45 DEF OtherKey
  <1>46. CASE Write
    BY <1>46 DEF Write
  <1>47. CASE LaunchFails
    BY <1>47 DEF LaunchFails, Joined
  <1>48. CASE Launched
    BY <1>48 DEF Launched, LaunchedWith, Joined
  <1>49. CASE UNCHANGED vars
    BY <1>49
  <1> QED  BY <1>1, <1>2, <1>3, <1>4, <1>5, <1>6, <1>7, <1>8, <1>9, <1>10, <1>11, <1>12, <1>13, <1>14, <1>15, <1>16, <1>17, <1>18, <1>19, <1>20, <1>21, <1>22, <1>23, <1>24, <1>25, <1>26, <1>27, <1>28, <1>29, <1>30, <1>31, <1>32, <1>33, <1>34, <1>35, <1>36, <1>37, <1>38, <1>39, <1>40, <1>41, <1>42, <1>43, <1>44, <1>45, <1>46, <1>47, <1>48, <1>49
    DEF Next, End, Supervise, Draw, Keys, Calls, RefreshReturns, PollerReturns,
        PollerFails, EngineReturns, ReaderReturns, Thread

\* The order of joins and destruction.
LEMMA PhasesKept == DataOK /\ Phases /\ [Next]_vars => Phases'
  <1> SUFFICES ASSUME DataOK, Phases, [Next]_vars PROVE Phases'
    OBVIOUS
  <1> USE DEF DataOK, Phases, InLoop, Thread, main, view, flags, life, sup, child,
        trk, vars
  <1>1. ASSUME NEW f \in Files, Load(f) PROVE Phases'
    BY <1>1 DEF Load
  <1>2. CASE Choose
    BY <1>2 DEF Choose
  <1>3. CASE Start
    BY <1>3 DEF Start
  <1>4. CASE Enter
    BY <1>4 DEF Enter
  <1>5. CASE on_sig
    BY <1>5 DEF on_sig
  <1>6. CASE LoopEnds
    BY <1>6 DEF LoopEnds, LeaveLoop
  <1>7. CASE AfterLoop
    BY <1>7 DEF AfterLoop, StopSupervisor
  <1>8. CASE JoinRefresh
    BY <1>8 DEF JoinRefresh
  <1>9. CASE StopAll
    BY <1>9 DEF StopAll, StopSupervisor
  <1>10. CASE JoinPoller
    BY <1>10 DEF JoinPoller
  <1>11. CASE JoinEngine
    BY <1>11 DEF JoinEngine
  <1>12. CASE FreeRing
    BY <1>12 DEF FreeRing
  <1>13. CASE DestroySupervisor
    BY <1>13 DEF DestroySupervisor
  <1>14. CASE DestroyTracker
    BY <1>14 DEF DestroyTracker
  <1>15. CASE RefreshPosts
    BY <1>15 DEF RefreshPosts
  <1>16. ASSUME NEW t \in Thread, Returns(t) PROVE Phases'
    BY <1>16 DEF Returns
  <1>17. CASE SupLeaves
    BY <1>17 DEF SupLeaves, Ended
  <1>18. CASE SupFails
    BY <1>18 DEF SupFails, Ended
  <1>19. CASE Ask
    BY <1>19 DEF Ask
  <1>20. CASE Arm
    BY <1>20 DEF Arm
  <1>21. CASE Answer
    BY <1>21 DEF Answer, Ended
  <1>22. CASE TreeEnds
    BY <1>22 DEF TreeEnds
  <1>23. CASE ChildReads
    BY <1>23 DEF ChildReads
  <1>24. CASE Hold
    BY <1>24 DEF Hold
  <1>25. CASE Draw /\ ShowCall
    BY <1>25 DEF Draw, ShowCall, TakesOver
  <1>26. CASE Draw /\ ShowProcess
    BY <1>26 DEF Draw, ShowProcess
  <1>27. CASE Draw /\ ShowSame
    BY <1>27 DEF Draw, ShowSame
  <1>28. ASSUME NEW a, DecideCall(a) PROVE Phases'
    BY <1>28 DEF DecideCall, Key, Screen
  <1>29. CASE DecideProcess
    BY <1>29 DEF DecideProcess, Key, Line, Screen
  <1>30. CASE OpenLaunch
    BY <1>30 DEF OpenLaunch, Go, Key, Screen
  <1>31. CASE OpenRepman
    BY <1>31 DEF OpenRepman, Go, Key, Screen
  <1>32. CASE CloseRepman
    BY <1>32 DEF CloseRepman, Go, Key, Screen
  <1>33. CASE CloseLaunch
    BY <1>33 DEF CloseLaunch, Go, Line, Screen
  <1>34. ASSUME NEW s \in BOOLEAN, Help(s) PROVE Phases'
    BY <1>34 DEF Help, Key
  <1>35. CASE OpenOutput
    BY <1>35 DEF OpenOutput, Output, Key, Screen
  <1>36. CASE CloseOutput
    BY <1>36 DEF CloseOutput, Output, Key, Screen
  <1>37. CASE StartTyping
    BY <1>37 DEF StartTyping, Output, Key, Screen
  <1>38. CASE StopTyping
    BY <1>38 DEF StopTyping, Output, Line, Screen
  <1>39. CASE Type
    BY <1>39 DEF Type, Output, Line, Screen
  <1>40. CASE Backspace
    BY <1>40 DEF Backspace, Output, Line, Screen
  <1>41. CASE Send
    BY <1>41 DEF Send, Line, Screen
  <1>42. CASE LaunchRefused
    BY <1>42 DEF LaunchRefused, Go, Line, Screen
  <1>43. CASE LaunchBegins
    BY <1>43 DEF LaunchBegins, Line, Screen
  <1>44. CASE QuitKey
    BY <1>44 DEF QuitKey, LeaveLoop, StopSupervisor
  <1>45. CASE OtherKey
    BY <1>45 DEF OtherKey
  <1>46. CASE Write
    BY <1>46 DEF Write
  <1>47. CASE LaunchFails
    BY <1>47 DEF LaunchFails, Joined
  <1>48. CASE Launched
    BY <1>48 DEF Launched, LaunchedWith, Joined
  <1>49. CASE UNCHANGED vars
    BY <1>49
  <1> QED  BY <1>1, <1>2, <1>3, <1>4, <1>5, <1>6, <1>7, <1>8, <1>9, <1>10, <1>11, <1>12, <1>13, <1>14, <1>15, <1>16, <1>17, <1>18, <1>19, <1>20, <1>21, <1>22, <1>23, <1>24, <1>25, <1>26, <1>27, <1>28, <1>29, <1>30, <1>31, <1>32, <1>33, <1>34, <1>35, <1>36, <1>37, <1>38, <1>39, <1>40, <1>41, <1>42, <1>43, <1>44, <1>45, <1>46, <1>47, <1>48, <1>49
    DEF Next, End, Supervise, Draw, Keys, Calls, RefreshReturns, PollerReturns,
        PollerFails, EngineReturns, ReaderReturns, Thread

\* Screens and text.
LEMMA ScreensKept == DataOK /\ Screens /\ [Next]_vars => Screens'
  <1> SUFFICES ASSUME DataOK, Screens, [Next]_vars PROVE Screens'
    OBVIOUS
  <1> USE BoundsAssumption DEF DataOK, Screens, InLoop, main, view, flags, life, sup, child,
        trk, vars
  <1>1. ASSUME NEW f \in Files, Load(f) PROVE Screens'
    BY <1>1 DEF Load
  <1>2. CASE Choose
    BY <1>2 DEF Choose
  <1>3. CASE Start
    BY <1>3 DEF Start
  <1>4. CASE Enter
    BY <1>4 DEF Enter
  <1>5. CASE on_sig
    BY <1>5 DEF on_sig
  <1>6. CASE LoopEnds
    BY <1>6 DEF LoopEnds, LeaveLoop
  <1>7. CASE AfterLoop
    BY <1>7 DEF AfterLoop, StopSupervisor
  <1>8. CASE JoinRefresh
    BY <1>8 DEF JoinRefresh
  <1>9. CASE StopAll
    BY <1>9 DEF StopAll, StopSupervisor
  <1>10. CASE JoinPoller
    BY <1>10 DEF JoinPoller
  <1>11. CASE JoinEngine
    BY <1>11 DEF JoinEngine
  <1>12. CASE FreeRing
    BY <1>12 DEF FreeRing
  <1>13. CASE DestroySupervisor
    BY <1>13 DEF DestroySupervisor
  <1>14. CASE DestroyTracker
    BY <1>14 DEF DestroyTracker
  <1>15. CASE RefreshPosts
    BY <1>15 DEF RefreshPosts
  <1>16. ASSUME NEW t \in Thread, Returns(t) PROVE Screens'
    BY <1>16 DEF Returns
  <1>17. CASE SupLeaves
    BY <1>17 DEF SupLeaves, Ended
  <1>18. CASE SupFails
    BY <1>18 DEF SupFails, Ended
  <1>19. CASE Ask
    BY <1>19 DEF Ask
  <1>20. CASE Arm
    BY <1>20 DEF Arm
  <1>21. CASE Answer
    BY <1>21 DEF Answer, Ended
  <1>22. CASE TreeEnds
    BY <1>22 DEF TreeEnds
  <1>23. CASE ChildReads
    BY <1>23 DEF ChildReads
  <1>24. CASE Hold
    BY <1>24 DEF Hold
  <1>25. CASE Draw /\ ShowCall
    BY <1>25 DEF Draw, ShowCall, TakesOver
  <1>26. CASE Draw /\ ShowProcess
    BY <1>26 DEF Draw, ShowProcess
  <1>27. CASE Draw /\ ShowSame
    BY <1>27 DEF Draw, ShowSame
  <1>28. ASSUME NEW a, DecideCall(a) PROVE Screens'
    BY <1>28 DEF DecideCall, Key, Screen
  <1>29. CASE DecideProcess
    BY <1>29 DEF DecideProcess, Key, Line, Screen
  <1>30. CASE OpenLaunch
    BY <1>30 DEF OpenLaunch, Go, Key, Screen
  <1>31. CASE OpenRepman
    BY <1>31 DEF OpenRepman, Go, Key, Screen
  <1>32. CASE CloseRepman
    BY <1>32 DEF CloseRepman, Go, Key, Screen
  <1>33. CASE CloseLaunch
    BY <1>33 DEF CloseLaunch, Go, Line, Screen
  <1>34. ASSUME NEW s \in BOOLEAN, Help(s) PROVE Screens'
    BY <1>34 DEF Help, Key
  <1>35. CASE OpenOutput
    BY <1>35 DEF OpenOutput, Output, Key, Screen
  <1>36. CASE CloseOutput
    BY <1>36 DEF CloseOutput, Output, Key, Screen
  <1>37. CASE StartTyping
    BY <1>37 DEF StartTyping, Output, Key, Screen
  <1>38. CASE StopTyping
    BY <1>38 DEF StopTyping, Output, Line, Screen
  <1>39. CASE Type
    BY <1>39 DEF Type, Output, Line, Screen
  <1>40. CASE Backspace
    BY <1>40 DEF Backspace, Output, Line, Screen
  <1>41. CASE Send
    BY <1>41 DEF Send, Line, Screen
  <1>42. CASE LaunchRefused
    BY <1>42 DEF LaunchRefused, Go, Line, Screen
  <1>43. CASE LaunchBegins
    BY <1>43 DEF LaunchBegins, Line, Screen
  <1>44. CASE QuitKey
    BY <1>44 DEF QuitKey, LeaveLoop, StopSupervisor
  <1>45. CASE OtherKey
    BY <1>45 DEF OtherKey
  <1>46. CASE Write
    BY <1>46 DEF Write
  <1>47. CASE LaunchFails
    BY <1>47 DEF LaunchFails, Joined
  <1>48. CASE Launched
    BY <1>48 DEF Launched, LaunchedWith, Joined
  <1>49. CASE UNCHANGED vars
    BY <1>49
  <1> QED  BY <1>1, <1>2, <1>3, <1>4, <1>5, <1>6, <1>7, <1>8, <1>9, <1>10, <1>11, <1>12, <1>13, <1>14, <1>15, <1>16, <1>17, <1>18, <1>19, <1>20, <1>21, <1>22, <1>23, <1>24, <1>25, <1>26, <1>27, <1>28, <1>29, <1>30, <1>31, <1>32, <1>33, <1>34, <1>35, <1>36, <1>37, <1>38, <1>39, <1>40, <1>41, <1>42, <1>43, <1>44, <1>45, <1>46, <1>47, <1>48, <1>49
    DEF Next, End, Supervise, Draw, Keys, Calls, RefreshReturns, PollerReturns,
        PollerFails, EngineReturns, ReaderReturns, Thread

\* Prompts handed out.
LEMMA TakenKept == DataOK /\ Screens /\ TakenIsShown /\ [Next]_vars => TakenIsShown'
  <1> SUFFICES ASSUME DataOK, Screens, TakenIsShown, [Next]_vars PROVE TakenIsShown'
    OBVIOUS
  <1> USE DEF DataOK, Screens, TakenIsShown, InLoop, main, view, flags, life, sup, child,
        trk, vars
  <1>1. ASSUME NEW f \in Files, Load(f) PROVE TakenIsShown'
    BY <1>1 DEF Load
  <1>2. CASE Choose
    BY <1>2 DEF Choose
  <1>3. CASE Start
    BY <1>3 DEF Start
  <1>4. CASE Enter
    BY <1>4 DEF Enter
  <1>5. CASE on_sig
    BY <1>5 DEF on_sig
  <1>6. CASE LoopEnds
    BY <1>6 DEF LoopEnds, LeaveLoop
  <1>7. CASE AfterLoop
    BY <1>7 DEF AfterLoop, StopSupervisor
  <1>8. CASE JoinRefresh
    BY <1>8 DEF JoinRefresh
  <1>9. CASE StopAll
    BY <1>9 DEF StopAll, StopSupervisor
  <1>10. CASE JoinPoller
    BY <1>10 DEF JoinPoller
  <1>11. CASE JoinEngine
    BY <1>11 DEF JoinEngine
  <1>12. CASE FreeRing
    BY <1>12 DEF FreeRing
  <1>13. CASE DestroySupervisor
    BY <1>13 DEF DestroySupervisor
  <1>14. CASE DestroyTracker
    BY <1>14 DEF DestroyTracker
  <1>15. CASE RefreshPosts
    BY <1>15 DEF RefreshPosts
  <1>16. ASSUME NEW t \in Thread, Returns(t) PROVE TakenIsShown'
    BY <1>16 DEF Returns
  <1>17. CASE SupLeaves
    BY <1>17 DEF SupLeaves, Ended
  <1>18. CASE SupFails
    BY <1>18 DEF SupFails, Ended
  <1>19. CASE Ask
    BY <1>19 DEF Ask
  <1>20. CASE Arm
    BY <1>20 DEF Arm
  <1>21. CASE Answer
    BY <1>21 DEF Answer, Ended
  <1>22. CASE TreeEnds
    BY <1>22 DEF TreeEnds
  <1>23. CASE ChildReads
    BY <1>23 DEF ChildReads
  <1>24. CASE Hold
    <2> SUFFICES ASSUME ui \in {"binds", "choose", "start", "enter"} \/ InLoop,
                        NEW h \in 1 .. holds'
                 PROVE  \/ h \in answered'
                        \/ \E i \in DOMAIN queue' : queue'[i] = h
                        \/ modal' = "EBPF" /\ ebpf_active' = h
      BY <1>24 DEF Hold
    <2>1. queue' = Append(queue, holds + 1) /\ holds' = holds + 1
      BY <1>24 DEF Hold
    <2>2. CASE h = holds + 1
      <3>1. Len(queue) + 1 \in DOMAIN queue' /\ queue'[Len(queue) + 1] = h
        BY <2>1, <2>2
      <3> QED  BY <3>1
    <2>3. CASE h \in 1 .. holds
      <3>1. \A i \in DOMAIN queue : i \in DOMAIN queue' /\ queue'[i] = queue[i]
        BY <2>1
      <3> QED  BY <1>24, <2>3, <3>1 DEF Hold
    <2> QED  BY <2>1, <2>2, <2>3
  <1>25. CASE Draw /\ ShowCall
    BY <1>25 DEF Draw, ShowCall, TakesOver
  <1>26. CASE Draw /\ ShowProcess
    <2> SUFFICES ASSUME NEW h \in 1 .. holds
                 PROVE  \/ h \in answered
                        \/ \E i \in DOMAIN queue' : queue'[i] = h
                        \/ ebpf_active' = h
      BY <1>26 DEF Draw, ShowProcess
    <2>1. queue # <<>> /\ queue' = Tail(queue) /\ ebpf_active' = queue[1] /\ modal = "NONE"
      BY <1>26 DEF ShowProcess
    <2>2. CASE h \in answered
      BY <2>2
    <2>3. CASE \E i \in DOMAIN queue : queue[i] = h
      <3>1. PICK i \in DOMAIN queue : queue[i] = h
        BY <2>3
      <3>2. CASE i = 1
        BY <2>1, <3>1, <3>2
      <3>3. CASE i # 1
        <4>1. Len(queue') = Len(queue) - 1 /\ \A j \in 1 .. Len(queue') : queue'[j] = queue[j + 1]
          BY <2>1, HeadTailProperties
        <4>2. queue \in Seq(1 .. MaxHold) /\ queue' \in Seq(1 .. MaxHold)
          BY <2>1, HeadTailProperties
        <4>3. DOMAIN queue = 1 .. Len(queue) /\ DOMAIN queue' = 1 .. Len(queue')
          BY <4>2
        <4>4. i \in 1 .. Len(queue) /\ Len(queue) \in Nat
          BY <3>1, <4>2, <4>3
        <4>5. i - 1 \in 1 .. Len(queue')
          BY <3>3, <4>1, <4>4
        <4>6. queue'[i - 1] = h
          <5>1. queue'[i - 1] = queue[(i - 1) + 1]
            BY <4>1, <4>5
          <5>2. (i - 1) + 1 = i
            BY <4>4
          <5> QED  BY <3>1, <5>1, <5>2
        <4> QED  BY <4>3, <4>5, <4>6
      <3> QED  BY <3>2, <3>3
    <2> QED  BY <1>26, <2>1, <2>2, <2>3 DEF Draw
  <1>27. CASE Draw /\ ShowSame
    BY <1>27 DEF Draw, ShowSame
  <1>28. ASSUME NEW a, DecideCall(a) PROVE TakenIsShown'
    BY <1>28 DEF DecideCall, Key, Screen
  <1>29. CASE DecideProcess
    BY <1>29 DEF DecideProcess, Key, Line, Screen
  <1>30. CASE OpenLaunch
    BY <1>30 DEF OpenLaunch, Go, Key, Screen
  <1>31. CASE OpenRepman
    BY <1>31 DEF OpenRepman, Go, Key, Screen
  <1>32. CASE CloseRepman
    BY <1>32 DEF CloseRepman, Go, Key, Screen
  <1>33. CASE CloseLaunch
    BY <1>33 DEF CloseLaunch, Go, Line, Screen
  <1>34. ASSUME NEW s \in BOOLEAN, Help(s) PROVE TakenIsShown'
    BY <1>34 DEF Help, Key
  <1>35. CASE OpenOutput
    BY <1>35 DEF OpenOutput, Output, Key, Screen
  <1>36. CASE CloseOutput
    BY <1>36 DEF CloseOutput, Output, Key, Screen
  <1>37. CASE StartTyping
    BY <1>37 DEF StartTyping, Output, Key, Screen
  <1>38. CASE StopTyping
    BY <1>38 DEF StopTyping, Output, Line, Screen
  <1>39. CASE Type
    BY <1>39 DEF Type, Output, Line, Screen
  <1>40. CASE Backspace
    BY <1>40 DEF Backspace, Output, Line, Screen
  <1>41. CASE Send
    BY <1>41 DEF Send, Line, Screen
  <1>42. CASE LaunchRefused
    BY <1>42 DEF LaunchRefused, Go, Line, Screen
  <1>43. CASE LaunchBegins
    BY <1>43 DEF LaunchBegins, Line, Screen
  <1>44. CASE QuitKey
    BY <1>44 DEF QuitKey, LeaveLoop, StopSupervisor
  <1>45. CASE OtherKey
    BY <1>45 DEF OtherKey
  <1>46. CASE Write
    BY <1>46 DEF Write
  <1>47. CASE LaunchFails
    BY <1>47 DEF LaunchFails, Joined
  <1>48. CASE Launched
    BY <1>48 DEF Launched, LaunchedWith, Joined
  <1>49. CASE UNCHANGED vars
    BY <1>49
  <1> QED  BY <1>1, <1>2, <1>3, <1>4, <1>5, <1>6, <1>7, <1>8, <1>9, <1>10, <1>11, <1>12, <1>13, <1>14, <1>15, <1>16, <1>17, <1>18, <1>19, <1>20, <1>21, <1>22, <1>23, <1>24, <1>25, <1>26, <1>27, <1>28, <1>29, <1>30, <1>31, <1>32, <1>33, <1>34, <1>35, <1>36, <1>37, <1>38, <1>39, <1>40, <1>41, <1>42, <1>43, <1>44, <1>45, <1>46, <1>47, <1>48, <1>49
    DEF Next, End, Supervise, Draw, Keys, Calls, RefreshReturns, PollerReturns,
        PollerFails, EngineReturns, ReaderReturns, Thread

\* The key map.
LEMMA BindKept == KnownMap /\ [Next]_vars => KnownMap'
  <1> SUFFICES ASSUME KnownMap, [Next]_vars PROVE KnownMap'
    OBVIOUS
  <1> USE DEF KnownMap, main, view, flags, life, sup, child,
        trk, vars
  <1>1. ASSUME NEW f \in Files, Load(f) PROVE KnownMap'
    BY <1>1 DEF Load
  <1>2. CASE Choose
    BY <1>2 DEF Choose
  <1>3. CASE Start
    BY <1>3 DEF Start
  <1>4. CASE Enter
    BY <1>4 DEF Enter
  <1>5. CASE on_sig
    BY <1>5 DEF on_sig
  <1>6. CASE LoopEnds
    BY <1>6 DEF LoopEnds, LeaveLoop
  <1>7. CASE AfterLoop
    BY <1>7 DEF AfterLoop, StopSupervisor
  <1>8. CASE JoinRefresh
    BY <1>8 DEF JoinRefresh
  <1>9. CASE StopAll
    BY <1>9 DEF StopAll, StopSupervisor
  <1>10. CASE JoinPoller
    BY <1>10 DEF JoinPoller
  <1>11. CASE JoinEngine
    BY <1>11 DEF JoinEngine
  <1>12. CASE FreeRing
    BY <1>12 DEF FreeRing
  <1>13. CASE DestroySupervisor
    BY <1>13 DEF DestroySupervisor
  <1>14. CASE DestroyTracker
    BY <1>14 DEF DestroyTracker
  <1>15. CASE RefreshPosts
    BY <1>15 DEF RefreshPosts
  <1>16. ASSUME NEW t \in Thread, Returns(t) PROVE KnownMap'
    BY <1>16 DEF Returns
  <1>17. CASE SupLeaves
    BY <1>17 DEF SupLeaves, Ended
  <1>18. CASE SupFails
    BY <1>18 DEF SupFails, Ended
  <1>19. CASE Ask
    BY <1>19 DEF Ask
  <1>20. CASE Arm
    BY <1>20 DEF Arm
  <1>21. CASE Answer
    BY <1>21 DEF Answer, Ended
  <1>22. CASE TreeEnds
    BY <1>22 DEF TreeEnds
  <1>23. CASE ChildReads
    BY <1>23 DEF ChildReads
  <1>24. CASE Hold
    BY <1>24 DEF Hold
  <1>25. CASE Draw /\ ShowCall
    BY <1>25 DEF Draw, ShowCall, TakesOver
  <1>26. CASE Draw /\ ShowProcess
    BY <1>26 DEF Draw, ShowProcess
  <1>27. CASE Draw /\ ShowSame
    BY <1>27 DEF Draw, ShowSame
  <1>28. ASSUME NEW a, DecideCall(a) PROVE KnownMap'
    BY <1>28 DEF DecideCall, Key, Screen
  <1>29. CASE DecideProcess
    BY <1>29 DEF DecideProcess, Key, Line, Screen
  <1>30. CASE OpenLaunch
    BY <1>30 DEF OpenLaunch, Go, Key, Screen
  <1>31. CASE OpenRepman
    BY <1>31 DEF OpenRepman, Go, Key, Screen
  <1>32. CASE CloseRepman
    BY <1>32 DEF CloseRepman, Go, Key, Screen
  <1>33. CASE CloseLaunch
    BY <1>33 DEF CloseLaunch, Go, Line, Screen
  <1>34. ASSUME NEW s \in BOOLEAN, Help(s) PROVE KnownMap'
    BY <1>34 DEF Help, Key
  <1>35. CASE OpenOutput
    BY <1>35 DEF OpenOutput, Output, Key, Screen
  <1>36. CASE CloseOutput
    BY <1>36 DEF CloseOutput, Output, Key, Screen
  <1>37. CASE StartTyping
    BY <1>37 DEF StartTyping, Output, Key, Screen
  <1>38. CASE StopTyping
    BY <1>38 DEF StopTyping, Output, Line, Screen
  <1>39. CASE Type
    BY <1>39 DEF Type, Output, Line, Screen
  <1>40. CASE Backspace
    BY <1>40 DEF Backspace, Output, Line, Screen
  <1>41. CASE Send
    BY <1>41 DEF Send, Line, Screen
  <1>42. CASE LaunchRefused
    BY <1>42 DEF LaunchRefused, Go, Line, Screen
  <1>43. CASE LaunchBegins
    BY <1>43 DEF LaunchBegins, Line, Screen
  <1>44. CASE QuitKey
    BY <1>44 DEF QuitKey, LeaveLoop, StopSupervisor
  <1>45. CASE OtherKey
    BY <1>45 DEF OtherKey
  <1>46. CASE Write
    BY <1>46 DEF Write
  <1>47. CASE LaunchFails
    BY <1>47 DEF LaunchFails, Joined
  <1>48. CASE Launched
    BY <1>48 DEF Launched, LaunchedWith, Joined
  <1>49. CASE UNCHANGED vars
    BY <1>49
  <1> QED  BY <1>1, <1>2, <1>3, <1>4, <1>5, <1>6, <1>7, <1>8, <1>9, <1>10, <1>11, <1>12, <1>13, <1>14, <1>15, <1>16, <1>17, <1>18, <1>19, <1>20, <1>21, <1>22, <1>23, <1>24, <1>25, <1>26, <1>27, <1>28, <1>29, <1>30, <1>31, <1>32, <1>33, <1>34, <1>35, <1>36, <1>37, <1>38, <1>39, <1>40, <1>41, <1>42, <1>43, <1>44, <1>45, <1>46, <1>47, <1>48, <1>49
    DEF Next, End, Supervise, Draw, Keys, Calls, RefreshReturns, PollerReturns,
        PollerFails, EngineReturns, ReaderReturns, Thread

\* In both decision boxes the default keys differ.
LEMMA DefaultsAreDistinct ==
    ASSUME NEW screen \in {"SECCOMP", "EBPF"}, NEW i \in DOMAIN Handlers[screen],
           NEW j \in DOMAIN Handlers[screen],
           Defaults[Handlers[screen][i]] = Defaults[Handlers[screen][j]]
    PROVE  i = j
  <1>1. /\ Defaults["KM_ALLOW"] = "y" /\ Defaults["KM_DENY"] = "n"
        /\ Defaults["KM_BLOCK"] = "b" /\ Defaults["KM_KILL"] = "k"
        /\ Defaults["KM_BLACKLIST"] = "d" /\ Defaults["KM_WHITELIST"] = "l"
        /\ Defaults["KM_SESSION_WL"] = "w"
    BY DEF Defaults
  <1>2. CASE screen = "SECCOMP"
    <2>1. Handlers[screen] = <<"KM_ALLOW", "KM_DENY", "KM_KILL", "KM_BLACKLIST", "KM_WHITELIST">>
      BY <1>2 DEF Handlers
    <2>2. i \in 1 .. 5 /\ j \in 1 .. 5
      BY <2>1
    <2> QED  BY <1>1, <2>1, <2>2
  <1>3. CASE screen = "EBPF"
    <2>1. Handlers[screen] = <<"KM_ALLOW", "KM_DENY", "KM_BLOCK", "KM_BLACKLIST",
                               "KM_WHITELIST", "KM_KILL", "KM_SESSION_WL">>
      BY <1>3 DEF Handlers
    <2>2. i \in 1 .. 7 /\ j \in 1 .. 7
      BY <2>1
    <2> QED  BY <1>1, <2>1, <2>2
  <1> QED  BY <1>2, <1>3

\* Each decision box tests for actions that validate_binds() compares with each
\* other, and for none twice.
LEMMA BoxesAreChecked ==
    ASSUME NEW screen \in {"SECCOMP", "EBPF"}
    PROVE  \E acts \in Checked :
              \A i, j \in DOMAIN Handlers[screen] :
                 /\ Handlers[screen][i] \in acts
                 /\ Handlers[screen][i] = Handlers[screen][j] => i = j
  <1>1. CASE screen = "SECCOMP"
    <2> DEFINE S == {"KM_ALLOW", "KM_DENY", "KM_KILL", "KM_BLACKLIST", "KM_WHITELIST"}
    <2>1. S \in Checked
      BY DEF Checked
    <2>2. ASSUME NEW i \in DOMAIN Handlers[screen], NEW j \in DOMAIN Handlers[screen]
          PROVE  Handlers[screen][i] \in S /\ (Handlers[screen][i] = Handlers[screen][j] => i = j)
      BY <1>1 DEF Handlers
    <2> QED  BY <2>1, <2>2
  <1>2. CASE screen = "EBPF"
    <2> DEFINE E == {"KM_ALLOW", "KM_DENY", "KM_BLOCK", "KM_KILL", "KM_BLACKLIST",
                     "KM_WHITELIST", "KM_SESSION_WL"}
    <2>1. E \in Checked
      BY DEF Checked
    <2>2. ASSUME NEW i \in DOMAIN Handlers[screen], NEW j \in DOMAIN Handlers[screen]
          PROVE  Handlers[screen][i] \in E /\ (Handlers[screen][i] = Handlers[screen][j] => i = j)
      BY <1>2 DEF Handlers
    <2> QED  BY <2>1, <2>2
  <1> QED  BY <1>1, <1>2

\* The order of joins and destruction, the screens and their text, and the
\* prompts handed out are kept in every reachable state.
THEOREM ConsoleInvariant == Spec => [](IInv /\ TakenIsShown)
  <1>1. IInv /\ TakenIsShown /\ [Next]_vars => (IInv /\ TakenIsShown)'
    BY FlagsKept, DataKept, PhasesKept, ScreensKept, TakenKept DEF IInv, TypeOK
  <1> QED  BY InitHolds, <1>1, PTL DEF Spec

\* A suspended process whose prompt the renderer took stays on the screen until
\* it is answered (ui.cpp:466-474, 600-612).
THEOREM TakenStaysShown == Spec => []TakenIsShown
  <1>1. IInv /\ TakenIsShown => TakenIsShown  OBVIOUS
  <1> QED  BY ConsoleInvariant, <1>1, PTL

\* What Return sends was typed for the child that reads it (ui.cpp:613-644,
\* 657-668).
THEOREM TextGoesWhereTyped == Spec => []TextIsForThisChild
  <1>1. IInv /\ TakenIsShown => TextIsForThisChild
    BY DEF IInv, Screens, TextIsForThisChild, Typing
  <1> QED  BY ConsoleInvariant, <1>1, PTL

\* What main destroys, the threads it joins first have left, but for the maps and
\* the supervise thread, which by then has been told to stop (main.cpp:243-253).
THEOREM JoinedFirst == Spec => []JoinedBeforeFreed
  <1>1. IInv /\ TakenIsShown => JoinedBeforeFreed
    <2> SUFFICES ASSUME ui \in UiPC, alive \subseteq Thread, Phases
                 PROVE  JoinedBeforeFreed
      BY DEF IInv, TypeOK, DataOK
    <2>1. "ui" \in freed => "refresh" \notin alive
      BY DEF Phases, InLoop, UiPC
    <2>2. "ring" \in freed => alive \cap {"poller", "engine"} = {} /\ (sup_pc = "off" \/ sup_stop)
      <3>1. "ring" \in freed => ui \in {"supervisor", "tracker", "ended"}
        BY DEF Phases
      <3>2. ui \in {"supervisor", "tracker"} => sup_stop
        BY DEF Phases
      <3>3. ui = "ended" => sup_pc = "off"
        BY DEF Phases
      <3> QED  BY <3>1, <3>2, <3>3 DEF Phases
    <2>3. "supervisor" \in freed => sup_pc = "off" /\ "reader" \notin alive
      BY DEF Phases
    <2>4. "tracker" \in freed => sup_pc = "off" /\ alive = {}
      BY DEF Phases, Thread
    <2> QED  BY <2>1, <2>2, <2>3, <2>4 DEF JoinedBeforeFreed
  <1> QED  BY ConsoleInvariant, <1>1, PTL

\* Whatever binds.json holds, no two answers of one decision box share a key
\* once the program runs (main.cpp:74-106, 118-139).
THEOREM AnswersHaveTheirKeys == Spec => []BoxKeysAreDistinct
  <1>1. Init => KnownMap
    BY DEF Init, KnownMap
  <1>2. KnownMap => BoxKeysAreDistinct
    <2> SUFFICES ASSUME KnownMap, NEW screen \in {"SECCOMP", "EBPF"},
                        NEW i \in DOMAIN Handlers[screen], NEW j \in DOMAIN Handlers[screen],
                        bind[Handlers[screen][i]] = bind[Handlers[screen][j]]
                 PROVE  i = j
      BY DEF BoxKeysAreDistinct
    <2>1. CASE bind = Defaults
      BY <2>1, DefaultsAreDistinct
    <2>2. CASE validate_binds(bind)
      <3>1. PICK acts \in Checked :
               \A m, n \in DOMAIN Handlers[screen] :
                  /\ Handlers[screen][m] \in acts
                  /\ Handlers[screen][m] = Handlers[screen][n] => m = n
        BY BoxesAreChecked
      <3> QED  BY <2>2, <3>1 DEF validate_binds
    <2> QED  BY <2>1, <2>2 DEF KnownMap
  <1> QED  BY <1>1, <1>2, BindKept, PTL DEF Spec
=============================================================================
