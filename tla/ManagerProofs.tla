----------------------------- MODULE ManagerProofs -----------------------------
(***************************************************************************)
(* Proofs about Manager and the signal handler of usb-mitm, for any number *)
(* of relayers, injectors, filters, signals and SET_CONFIGURATIONs.        *)
(* SIGTERM and SIGINT come at any step of main(); the safety properties    *)
(* say something only until one of the two comes inside the handler of the *)
(* other (nested), after which they are false.  SIGHUP is let in only      *)
(* where main() polls or is about to leave its loop: during setup it ends  *)
(* in std::terminate().                                                    *)
(***************************************************************************)
EXTENDS Manager, SequenceTheorems, TLAPS

HupWhilePolling == HupAt \subseteq {"poll", "stop"}

Points0 == 0 .. NumRelayers + NumInjectors + 1
Frames == [at : Points, r : Points0]

-----------------------------------------------------------------------------
(* The inductive invariant *)

(* The types.                                                              *)
StackTypes == stack \in Seq(Frames) /\ stack # <<>>
Types ==
    /\ status \in Statuses /\ thr \in [Relayers -> Threads] /\ injThr \in [Injectors -> Threads]
    /\ proxies \in {"none", "live", "deleted"}
    /\ filterCount \in 0 .. NumFilters /\ injectorCount \in 0 .. NumInjectors
    /\ wcfg \in 0 .. NumRelayers /\ ncfg \in Nat /\ terms \in Nat /\ hups \in Nat
RelayerFlags == obj \in [Relayers -> BOOLEAN] /\ flag \in [Relayers -> BOOLEAN]
InjectorFlags == injFlag \in [Injectors -> BOOLEAN]
Flags ==
    /\ device \in BOOLEAN /\ devConnected \in BOOLEAN /\ hostConnected \in BOOLEAN
    /\ claimed \in BOOLEAN /\ dflt \in BOOLEAN /\ heard \in BOOLEAN
    /\ nested \in BOOLEAN /\ raced \in BOOLEAN

(* What a thread, joined or not, relies on.  The EP0 writer that is inside *)
(* setConfig() runs, and it has made the relayers whose threads it starts. *)
Reliance ==
    /\ \A r \in Relayers : thr[r] # "none" =>
         obj[r] /\ device /\ devConnected /\ hostConnected /\ proxies = "live"
    /\ \A i \in Injectors : injThr[i] # "none" => i <= injectorCount
    /\ wcfg # 0 => Running(EP0Writer)
    /\ wcfg > EP0Writer => \A r \in Relayers : r > EP0Writer => obj[r]
    /\ claimed => device

(* With one SET_CONFIGURATION in a session each thread is started once.    *)
StartedOnce ==
    MaxSetConfig <= 1 =>
        /\ ncfg = 0 => wcfg = 0 /\ \A r \in Relayers : r > EP0Writer => thr[r] = "none"
        /\ wcfg # 0 => \A r \in Relayers : r > EP0Writer /\ r >= wcfg => thr[r] = "none"

NoThreads == \A r \in Relayers : thr[r] = "none"
NoObjects == \A r \in Relayers : ~obj[r]
NoInjectors == \A i \in Injectors : injThr[i] = "none"
Clean ==
    /\ NoThreads /\ NoObjects /\ NoInjectors
    /\ ~hostConnected /\ ~devConnected /\ ~claimed /\ ~device
EP0Made == obj[EP0Reader] /\ obj[EP0Writer] /\ ~flag[EP0Reader] /\ ~flag[EP0Writer]
Up == EP0Made /\ Running(EP0Reader) /\ Running(EP0Writer)
Told(n) == \A q \in Relayers : q < n /\ Running(q) => flag[q]

IdlePoints == {"new", "start", "cleanup", "delete", "deleteJoin", "end", "hupStart", "setup"}
RestPoints == {"poll", "stop", "hupStop", "hupReturn"}
LateStop == StopPoints \ {"test", "stopping"}

(* What holds of the session when the main thread is at point p, with      *)
(* counter n.                                                              *)
Holds(p, n) ==
    /\ p \in IdlePoints => status = "IDLE" /\ Clean
    /\ p \in RestPoints => (status = "IDLE" /\ Clean) \/ (status = "RELAYING" /\ Up)
    /\ p \in StartPoints \ {"setup"} => status \in {"SETUP", "SETUP_ABORT"}
    /\ p = "connectDevice" => Clean
    /\ p \in {"model", "endpoint", "relayers", "apply", "injectors", "connectHost", "readerThread"}
         => NoThreads /\ devConnected
    /\ p \in {"endpoint", "relayers", "apply", "injectors", "connectHost", "readerThread"} => device
    /\ p \in {"apply", "injectors", "connectHost", "readerThread", "writerThread", "check", "relaying"}
         => EP0Made
    /\ p = "readerThread" => hostConnected
    /\ p = "injectors" => n > 0
    /\ p = "writerThread" =>
         Running(EP0Reader) /\ \A r \in Relayers : r # EP0Reader => thr[r] = "none"
    /\ p \in {"check", "relaying"} => Running(EP0Reader) /\ Running(EP0Writer)
    /\ p \in {"test", "stopping"} =>
         status \in {"IDLE", "RELAYING", "SETUP_ABORT"} /\ (status = "IDLE" => Clean)
    /\ p \in LateStop => status = "STOPPING"
    /\ p \in {"signalInjectors", "signal", "joinInjectors", "join"} /\ ~raced => wcfg = 0
    /\ p \in {"signal", "join"} => n \in Relayers
    /\ p = "signal" /\ ~raced => Told(n)
    /\ p \in {"joinInjectors", "join"} /\ ~raced => Told(NumRelayers + 1)
    /\ p = "join" => NoInjectors /\ \A q \in Relayers : q < n => thr[q] = "none" /\ ~obj[q]
    /\ p = "disconnect" => NoThreads /\ NoObjects /\ NoInjectors
    /\ p = "idle" => Clean

(* The frames up to k belong to main() and to a SIGHUP handler: main()     *)
(* itself; a call of main(); the handler; a call of the handler.           *)
Plugins ==
    /\ stack[1].at = "new" => proxies = "none"
    /\ stack[1].at \in {"start", "poll", "stop", "cleanup"} =>
         proxies = "live" /\ injectorCount = NumInjectors
    /\ stack[1].at \in {"delete", "deleteJoin", "end"} => proxies = "deleted"
Base(k) ==
    /\ Plugins
    /\ \/ k = 1 /\ stack[1].at \in MainPoints
       \/ k = 2 /\ stack[1].at = "poll" /\ stack[2].at \in StartPoints \cup StopPoints
       \/ k = 2 /\ stack[1].at = "cleanup" /\ stack[2].at \in StopPoints
       \/ k = 2 /\ stack[1].at \in {"poll", "stop"} /\ stack[2].at \in {"hupStop", "hupStart", "hupReturn"}
       \/ /\ k = 3 /\ stack[1].at \in {"poll", "stop"}
          /\ stack[2].at = "hupStart" /\ stack[3].at \in StopPoints
       \/ /\ k = 3 /\ stack[1].at \in {"poll", "stop"}
          /\ stack[2].at = "hupReturn" /\ stack[3].at \in StartPoints \cup StopPoints

(* The frames above k belong to a SIGTERM handler, of which there is only  *)
(* one.  Its stop_relaying() returns at once from a setup, which it marks, *)
(* or goes on where the interrupted code may find the session stopped.     *)
BaseHolds(k) == Holds(stack[k].at, stack[k].r)
TopHolds == Holds(Top.at, Top.r)
Aborted(k) == stack[k].at \in StartPoints /\ status = "SETUP_ABORT"
NoHandler(k) == Len(stack) = k /\ BaseHolds(k) /\ (Aborted(k) => dflt)
Entered(k) == Len(stack) = k + 1 /\ At("termStop") /\ BaseHolds(k) /\ ~Aborted(k)
Leaving(k) == Len(stack) = k + 1 /\ At("termDefault") /\ BaseHolds(k)
Testing(k) ==
    /\ Len(stack) = k + 2 /\ stack[k + 1].at = "termDefault" /\ At("test")
    /\ BaseHolds(k) /\ ~Aborted(k)
Under(k) ==
    /\ Len(stack) = k + 2 /\ stack[k + 1].at = "termDefault"
    /\ stack[k].at \in RestPoints \cup {"test", "stopping"}
Inside(k) == Under(k) /\ Top.at \in StopPoints \ {"test"} /\ TopHolds
OverNow ==
    /\ Len(stack) > 1 /\ Top.at \in {"terminated", "killed"}
    /\ At("terminated") => MaxSetConfig > 1
Shaped ==
    \/ OverNow
    \/ \E k \in 1 .. 3 :
         Base(k) /\ (NoHandler(k) \/ Entered(k) \/ Leaving(k) \/ Testing(k) \/ Inside(k))

Good == StackTypes /\ Reliance /\ StartedOnce /\ Shaped
Inv == Types /\ RelayerFlags /\ Good

-----------------------------------------------------------------------------
(* The main thread's stack *)

(* The constants are numbers.                                              *)
LEMMA Numbers ==
    /\ NumRelayers \in Nat /\ NumInjectors \in Nat /\ NumFilters \in Nat
    /\ EP0Reader \in Relayers /\ EP0Writer \in Relayers /\ Relayers = 1 .. NumRelayers
    /\ EP0Reader = 1 /\ EP0Writer = 2
BY ManagerAssumption DEF NumRelayers, Relayers, EP0Reader, EP0Writer

(* The frame that runs goes on to another point.                           *)
LEMMA GotoFacts ==
    ASSUME StackTypes, NEW p \in Points, NEW n \in Points0
    PROVE  /\ Goto(p, n) \in Seq(Frames) /\ Goto(p, n) # <<>>
           /\ Len(Goto(p, n)) = Len(stack) /\ Goto(p, n)[Len(stack)] = Frame(p, n)
           /\ \A i \in 1 .. Len(stack) - 1 : Goto(p, n)[i] = stack[i]
<1>1. Frame(p, n) \in Frames
  BY DEF Frame, Frames
<1>2. Len(stack) \in 1 .. Len(stack) /\ stack \in Seq(Frames)
  BY EmptySeq, LenProperties DEF StackTypes
<1> DEFINE s == [stack EXCEPT ![Len(stack)] = Frame(p, n)]
<1>3. /\ s \in Seq(Frames) /\ Len(s) = Len(stack)
      /\ \A j \in 1 .. Len(stack) : s[j] = IF j = Len(stack) THEN Frame(p, n) ELSE stack[j]
  BY <1>1, <1>2, ExceptSeq
<1>4. Goto(p, n) = s
  BY DEF Goto
<1> HIDE DEF s
<1>5. s # <<>> /\ s[Len(stack)] = Frame(p, n) /\ \A i \in 1 .. Len(stack) - 1 : s[i] = stack[i]
  BY <1>2, <1>3
<1> QED
  BY <1>3, <1>4, <1>5

(* A signal or a call pushes a frame.                                      *)
LEMMA PushFacts ==
    ASSUME NEW s \in Seq(Frames), NEW p \in Points
    PROVE  /\ Append(s, Frame(p, 0)) \in Seq(Frames) /\ Append(s, Frame(p, 0)) # <<>>
           /\ Len(Append(s, Frame(p, 0))) = Len(s) + 1
           /\ Append(s, Frame(p, 0))[Len(s) + 1] = Frame(p, 0)
           /\ \A i \in 1 .. Len(s) : Append(s, Frame(p, 0))[i] = s[i]
<1>1. Frame(p, 0) \in Frames
  BY Numbers DEF Frame, Frames, Points0
<1> QED
  BY <1>1

(* A call leaves its return address in the frame of the caller.           *)
LEMMA CallFacts ==
    ASSUME StackTypes, NEW p \in Points, NEW q \in Points
    PROVE  /\ Call(p, q) \in Seq(Frames) /\ Call(p, q) # <<>>
           /\ Len(Call(p, q)) = Len(stack) + 1
           /\ Call(p, q)[Len(stack) + 1] = Frame(q, 0) /\ Call(p, q)[Len(stack)] = Frame(p, 0)
           /\ \A i \in 1 .. Len(stack) - 1 : Call(p, q)[i] = stack[i]
<1>0. 0 \in Points0 /\ Len(stack) \in 1 .. Len(stack)
  BY Numbers, EmptySeq, LenProperties DEF Points0, StackTypes
<1> DEFINE s == Goto(p, 0)
<1>1. /\ s \in Seq(Frames) /\ Len(s) = Len(stack) /\ s[Len(stack)] = Frame(p, 0)
      /\ \A i \in 1 .. Len(stack) - 1 : s[i] = stack[i]
  BY <1>0, GotoFacts
<1> HIDE DEF s
<1>2. Call(p, q) = Append(s, Frame(q, 0))
  BY DEF Call, s
<1> QED
  BY <1>0, <1>1, <1>2, PushFacts

(* A function or the handler returns.                                      *)
LEMMA ReturnFacts ==
    ASSUME StackTypes, Len(stack) > 1
    PROVE  /\ Return \in Seq(Frames) /\ Return # <<>>
           /\ Len(Return) = Len(stack) - 1
           /\ \A i \in 1 .. Len(stack) - 1 : Return[i] = stack[i]
<1>1. Len(stack) \in Nat /\ Len(stack) - 1 \in 1 .. Len(stack)
  BY LenProperties DEF StackTypes
<1>2. /\ Return \in Seq(Frames) /\ Len(Return) = Len(stack) - 1
      /\ \A i \in 1 .. Len(stack) - 1 : Return[i] = stack[i]
  BY <1>1 DEF Return, StackTypes
<1> QED
  BY <1>1, <1>2

(* The frame that runs.                                                    *)
LEMMA TopFacts ==
    ASSUME StackTypes
    PROVE  /\ Len(stack) \in Nat /\ Len(stack) >= 1
           /\ Top \in Frames /\ Top.at \in Points /\ Top.r \in Points0
<1>1. Len(stack) \in Nat /\ Len(stack) >= 1
  BY EmptySeq, LenProperties DEF StackTypes
<1>2. stack[Len(stack)] \in Frames
  BY <1>1 DEF StackTypes
<1> QED
  BY <1>1, <1>2 DEF Top, Frames

(* Where the frame that runs stands, by the point it is at.                *)
LEMMA AtMain ==
    ASSUME StackTypes, Shaped, Top.at \in MainPoints
    PROVE  Len(stack) = 1 /\ Base(1) /\ NoHandler(1)
<1>1. PICK k \in 1 .. 3 :
        Base(k) /\ (NoHandler(k) \/ Entered(k) \/ Leaving(k) \/ Testing(k) \/ Inside(k))
  BY DEF Shaped, OverNow, MainPoints
<1>2. NoHandler(k)
  BY <1>1 DEF Entered, Leaving, Testing, Inside, Under, At, MainPoints, StopPoints
<1>3. Len(stack) = k /\ stack[k].at \in MainPoints
  BY <1>2 DEF NoHandler, Top
<1>4. k = 1
  BY <1>1, <1>3 DEF Base, MainPoints, StartPoints, StopPoints
<1> QED
  BY <1>1, <1>2, <1>3, <1>4

(* start_control_relaying() runs in main() or in the handler of SIGHUP.    *)
LEMMA AtStart ==
    ASSUME StackTypes, Shaped, Top.at \in StartPoints
    PROVE  \E k \in 2 .. 3 :
              /\ Len(stack) = k /\ Base(k) /\ NoHandler(k) /\ stack[k] = Top
              /\ stack[k - 1].at \in {"poll", "hupReturn"}
<1>1. PICK k \in 1 .. 3 :
        Base(k) /\ (NoHandler(k) \/ Entered(k) \/ Leaving(k) \/ Testing(k) \/ Inside(k))
  BY DEF Shaped, OverNow, StartPoints
<1>2. NoHandler(k)
  BY <1>1 DEF Entered, Leaving, Testing, Inside, Under, At, StartPoints, StopPoints
<1>3. Len(stack) = k /\ stack[k].at \in StartPoints /\ stack[k] = Top
  BY <1>2 DEF NoHandler, Top
<1>4. k \in 2 .. 3 /\ stack[k - 1].at \in {"poll", "hupReturn"}
  <2>1. CASE k = 1
    BY <1>1, <1>3, <2>1 DEF Base, MainPoints, StartPoints
  <2>2. CASE k = 2
    BY <1>1, <1>3, <2>2 DEF Base, StartPoints, StopPoints
  <2>3. CASE k = 3
    BY <1>1, <1>3, <2>3 DEF Base, StartPoints, StopPoints
  <2> QED
    BY <2>1, <2>2, <2>3
<1> QED
  BY <1>1, <1>2, <1>3, <1>4

(* stop_relaying() runs in main(), in the handler of SIGHUP or in that of  *)
(* SIGTERM.                                                                *)
LEMMA AtStop ==
    ASSUME StackTypes, Shaped, Top.at \in StopPoints
    PROVE  \E k \in 1 .. 3 :
              /\ Base(k)
              /\ \/ NoHandler(k) /\ k > 1 /\ stack[k] = Top /\ TopHolds
                 \/ At("test") /\ Testing(k)
                 \/ ~At("test") /\ Inside(k) /\ TopHolds
<1>1. PICK k \in 1 .. 3 :
        Base(k) /\ (NoHandler(k) \/ Entered(k) \/ Leaving(k) \/ Testing(k) \/ Inside(k))
  BY DEF Shaped, OverNow, StopPoints
<1>2. CASE NoHandler(k)
  <2>1. Len(stack) = k /\ stack[k].at \in StopPoints /\ stack[k] = Top
    BY <1>2 DEF NoHandler, Top
  <2>2. k > 1
    BY <1>1, <2>1 DEF Base, StopPoints, MainPoints
  <2> QED
    BY <1>1, <1>2, <2>1, <2>2 DEF NoHandler, BaseHolds, TopHolds
<1>3. CASE Testing(k)
  BY <1>1, <1>3 DEF Testing
<1>4. CASE Inside(k)
  BY <1>1, <1>4 DEF Inside, At
<1>5. ~Entered(k) /\ ~Leaving(k)
  BY DEF Entered, Leaving, At, StopPoints
<1> QED
  BY <1>1, <1>2, <1>3, <1>4, <1>5

(* The handler of SIGHUP, and that of SIGTERM.                             *)
LEMMA AtHandler ==
    ASSUME StackTypes, Shaped
    PROVE  /\ Top.at \in {"hupStop", "hupStart", "hupReturn"} =>
                 /\ Len(stack) = 2 /\ Base(2) /\ NoHandler(2) /\ stack[2] = Top
                 /\ stack[1].at \in {"poll", "stop"}
           /\ At("termStop") => \E k \in 1 .. 3 : Base(k) /\ Entered(k)
           /\ At("termDefault") => \E k \in 1 .. 3 : Base(k) /\ Leaving(k)
<1>1. ASSUME Top.at \in HandlerPoints
      PROVE  \E k \in 1 .. 3 :
               Base(k) /\ (NoHandler(k) \/ Entered(k) \/ Leaving(k) \/ Testing(k) \/ Inside(k))
  BY <1>1 DEF Shaped, OverNow, HandlerPoints
<1>2. ASSUME Top.at \in {"hupStop", "hupStart", "hupReturn"}
      PROVE  /\ Len(stack) = 2 /\ Base(2) /\ NoHandler(2) /\ stack[2] = Top
             /\ stack[1].at \in {"poll", "stop"}
  <2>1. PICK k \in 1 .. 3 :
          Base(k) /\ (NoHandler(k) \/ Entered(k) \/ Leaving(k) \/ Testing(k) \/ Inside(k))
    BY <1>1, <1>2 DEF HandlerPoints
  <2>2. NoHandler(k)
    BY <1>2, <2>1 DEF Entered, Leaving, Testing, Inside, Under, At, StopPoints
  <2>3. Len(stack) = k /\ stack[k] = Top
    BY <2>2 DEF NoHandler, Top
  <2>4. k = 2 /\ stack[1].at \in {"poll", "stop"}
    BY <1>2, <2>1, <2>3 DEF Base, StopPoints, StartPoints, MainPoints
  <2> QED
    BY <2>1, <2>2, <2>3, <2>4
<1>3. ASSUME Top.at \in {"termStop", "termDefault"}
      PROVE  \E k \in 1 .. 3 : Base(k) /\ (Entered(k) \/ Leaving(k))
  <2>1. PICK k \in 1 .. 3 :
          Base(k) /\ (NoHandler(k) \/ Entered(k) \/ Leaving(k) \/ Testing(k) \/ Inside(k))
    BY <1>1, <1>3 DEF HandlerPoints
  <2>2. ~Testing(k) /\ ~Inside(k)
    BY <1>3 DEF Testing, Inside, Under, At, StopPoints
  <2>3. ~NoHandler(k)
    <3>1. SUFFICES ASSUME NoHandler(k) PROVE FALSE
      OBVIOUS
    <3>2. stack[k] = Top
      BY <3>1 DEF NoHandler, Top
    <3> QED
      BY <1>3, <2>1, <3>2 DEF Base, StopPoints, StartPoints, MainPoints
  <2> QED
    BY <2>1, <2>2, <2>3
<1>4. ASSUME At("termStop") PROVE \E k \in 1 .. 3 : Base(k) /\ Entered(k)
  BY <1>3, <1>4 DEF At, Leaving
<1>5. ASSUME At("termDefault") PROVE \E k \in 1 .. 3 : Base(k) /\ Leaving(k)
  BY <1>3, <1>5 DEF At, Entered
<1> QED
  BY <1>2, <1>4, <1>5

-----------------------------------------------------------------------------
(* main() *)

sessionVars == <<status, obj, thr, flag, injThr, device, devConnected, hostConnected, claimed,
                 wcfg, raced>>

(* What holds at a point does so while nothing of the session changes.     *)
LEMMA SameHolds ==
    ASSUME NEW p, NEW n, Holds(p, n), UNCHANGED sessionVars
    PROVE  Holds(p, n)'
<1>1. /\ UNCHANGED <<status, obj, thr, flag, injThr>> /\ UNCHANGED <<wcfg, raced>>
      /\ UNCHANGED <<device, devConnected, hostConnected, claimed>>
  BY DEF sessionVars
<1>2. /\ Clean' = Clean /\ NoThreads' = NoThreads /\ NoObjects' = NoObjects
      /\ NoInjectors' = NoInjectors /\ EP0Made' = EP0Made /\ Up' = Up
      /\ Told(n)' = Told(n) /\ Told(NumRelayers + 1)' = Told(NumRelayers + 1)
  BY <1>1 DEF Clean, NoThreads, NoObjects, NoInjectors, EP0Made, Up, Told, Running
<1> QED
  BY <1>1, <1>2 DEF Holds, Running

(* So do the facts about threads, while no plugin is deleted.              *)
LEMMA SameSession ==
    ASSUME Reliance, StartedOnce, UNCHANGED sessionVars, UNCHANGED <<proxies, injectorCount, ncfg>>
    PROVE  Reliance' /\ StartedOnce'
BY DEF Reliance, StartedOnce, sessionVars, Running

(* When nothing is left no plugin is used.                                 *)
LEMMA CleanReliance ==
    ASSUME Reliance, StartedOnce, Clean, Clean', UNCHANGED <<wcfg, ncfg>>
    PROVE  Reliance' /\ StartedOnce'
<1>1. wcfg = 0
  BY Numbers DEF Reliance, Clean, NoThreads, Running
<1>2. Reliance'
  BY <1>1 DEF Reliance, Clean, NoThreads, NoInjectors, EP0Writer
<1>3. StartedOnce'
  BY <1>1 DEF StartedOnce, Clean, NoThreads
<1> QED
  BY <1>2, <1>3

(* The frame of main() goes on, with nothing of a session left or with     *)
(* none of it changed.                                                     *)
LEMMA MainGoto ==
    ASSUME StackTypes, Len(stack) = 1, NEW p \in MainPoints, stack' = Goto(p, 0), Holds(p, 0)',
           Reliance', StartedOnce',
           p = "new" => proxies' = "none",
           p \in {"start", "poll", "stop", "cleanup"} => proxies' = "live" /\ injectorCount' = NumInjectors,
           p \in {"delete", "deleteJoin", "end"} => proxies' = "deleted"
    PROVE  Good'
<1>1. p \in Points /\ 0 \in Points0
  BY Numbers DEF Points, Points0
<1>2. StackTypes' /\ Len(stack') = 1 /\ stack'[1] = Frame(p, 0)
  BY <1>1, GotoFacts DEF StackTypes
<1>3. stack'[1].at = p /\ stack'[1].r = 0
  BY <1>2 DEF Frame
<1>4. Base(1)'
  BY <1>3 DEF Base, Plugins
<1>5. NoHandler(1)'
  BY <1>2, <1>3 DEF NoHandler, BaseHolds, Aborted, MainPoints, StartPoints
<1> QED
  BY <1>2, <1>4, <1>5 DEF Good, Shaped

(* The frame of main() calls start_control_relaying() or stop_relaying().  *)
LEMMA MainCall ==
    ASSUME StackTypes, Len(stack) = 1, Base(1), Reliance', StartedOnce',
           NEW p, NEW q, <<p, q>> \in {<<"poll", "setup">>, <<"cleanup", "test">>},
           stack' = Call(p, q), Holds(q, 0)', q = "setup" => status' = "IDLE",
           proxies' = "live" /\ injectorCount' = NumInjectors
    PROVE  Good'
<1>1. p \in Points /\ q \in Points /\ p \in {"poll", "cleanup"} /\ q \in {"setup", "test"}
  BY DEF Points, MainPoints, StartPoints, StopPoints
<1>2. StackTypes' /\ Len(stack') = 2 /\ stack'[1] = Frame(p, 0) /\ stack'[2] = Frame(q, 0)
  BY <1>1, CallFacts DEF StackTypes
<1>3. stack'[1].at = p /\ stack'[2].at = q /\ stack'[2].r = 0
  BY <1>2 DEF Frame
<1>4. Base(2)'
  BY <1>1, <1>3 DEF Base, Plugins, StartPoints, StopPoints
<1>5. NoHandler(2)'
  BY <1>1, <1>2, <1>3 DEF NoHandler, BaseHolds, Aborted, StartPoints
<1> QED
  BY <1>2, <1>4, <1>5 DEF Good, Shaped

(* main() makes the plugins, starts, polls, stops and deletes.             *)
LEMMA MainKeeps == ASSUME Inv, Main PROVE Good'
<1>0. StackTypes /\ Shaped /\ Reliance /\ StartedOnce
  BY DEF Inv, Good
<1> USE DEF At, relayerVars, injectorVars, pluginVars, linkVars
<1>1. Top.at \in MainPoints /\ Top.at # "end"
  BY DEF Main, MainNew, MainStart, MainPoll, MainStop, MainCleanup, MainDelete, MainDeleteJoin,
         MainPoints
<1>2. Len(stack) = 1 /\ Base(1) /\ Holds(Top.at, Top.r) /\ stack[1] = Top /\ Plugins
  BY <1>0, <1>1, AtMain DEF NoHandler, BaseHolds, Top, Base
<1>3. CASE MainNew
  <2>1. status = "IDLE" /\ Clean /\ UNCHANGED sessionVars /\ UNCHANGED <<wcfg, ncfg>>
    BY <1>2, <1>3 DEF MainNew, Holds, IdlePoints, sessionVars
  <2>2. Clean' /\ status' = "IDLE"
    BY <2>1 DEF sessionVars, Clean, NoThreads, NoObjects, NoInjectors
  <2>3. Reliance' /\ StartedOnce'
    BY <1>0, <2>1, <2>2, CleanReliance
  <2>4. Holds("start", 0)'
    BY <2>2 DEF Holds, IdlePoints, RestPoints, StartPoints, LateStop, StopPoints
  <2>5. /\ stack' = Goto("start", 0) /\ proxies' = "live" /\ injectorCount' = NumInjectors
        /\ "start" \in MainPoints
    BY <1>3 DEF MainNew, LoadPlugins, AddInjectors, MainPoints
  <2> QED
    BY <1>0, <1>2, <2>3, <2>4, <2>5, MainGoto
<1>4. CASE MainStart \/ MainPoll \/ MainStop
  <2>1. UNCHANGED sessionVars /\ UNCHANGED <<proxies, injectorCount, ncfg>>
    BY <1>4 DEF MainStart, MainPoll, MainStop, sessionVars
  <2>2. Reliance' /\ StartedOnce'
    BY <1>0, <2>1, SameSession
  <2>3. proxies' = "live" /\ injectorCount' = NumInjectors
    BY <1>2, <1>4, <2>1 DEF Plugins, MainStart, MainPoll, MainStop
  <2>4. CASE MainStart
    <3>1. Holds("setup", 0)
      BY <1>2, <2>4 DEF MainStart, Holds, IdlePoints, RestPoints, StartPoints, LateStop, StopPoints
    <3>2. Holds("setup", 0)' /\ stack' = Call("poll", "setup")
      BY <2>1, <2>4, <3>1, SameHolds DEF MainStart
    <3>3. status' = "IDLE"
      BY <3>2 DEF Holds, IdlePoints
    <3> QED
      BY <1>0, <1>2, <2>2, <2>3, <3>2, <3>3, MainCall
  <2>5. CASE MainPoll
    <3>1. Holds("stop", 0)
      BY <1>2, <2>5 DEF MainPoll, Holds, IdlePoints, RestPoints, StartPoints, LateStop, StopPoints
    <3>2. Holds("stop", 0)' /\ stack' = Goto("stop", 0) /\ "stop" \in MainPoints
      BY <2>1, <2>5, <3>1, SameHolds DEF MainPoll, MainPoints
    <3> QED
      BY <1>0, <1>2, <2>2, <2>3, <3>2, MainGoto
  <2>6. CASE MainStop
    <3>1. Holds("test", 0)
      BY <1>2, <2>6 DEF MainStop, Holds, IdlePoints, RestPoints, StartPoints, LateStop, StopPoints
    <3>2. Holds("test", 0)' /\ stack' = Call("cleanup", "test")
      BY <2>1, <2>6, <3>1, SameHolds DEF MainStop
    <3> QED
      BY <1>0, <1>2, <2>2, <2>3, <3>2, MainCall
  <2> QED
    BY <1>4, <2>4, <2>5, <2>6
<1>5. CASE MainCleanup \/ MainDelete \/ MainDeleteJoin
  <2>1. status = "IDLE" /\ Clean /\ UNCHANGED <<status, wcfg, ncfg>>
    BY <1>2, <1>5 DEF MainCleanup, MainDelete, MainDeleteJoin, Holds, IdlePoints
  <2>2. Clean'
    <3>1. CASE MainCleanup
      BY <2>1, <3>1 DEF MainCleanup, Clean, NoThreads, NoObjects, NoInjectors
    <3>2. CASE MainDelete
      BY <2>1, <3>2 DEF MainDelete, Clean, NoThreads, NoObjects, NoInjectors
    <3>3. CASE MainDeleteJoin
      BY <2>1, <3>3 DEF MainDeleteJoin, Clean, NoThreads, NoObjects, NoInjectors
    <3> QED
      BY <1>5, <3>1, <3>2, <3>3
  <2>3. Reliance' /\ StartedOnce'
    BY <1>0, <2>1, <2>2, CleanReliance
  <2>4. \A p \in {"delete", "deleteJoin", "end"} : Holds(p, 0)'
    BY <2>1, <2>2 DEF Holds, IdlePoints, RestPoints, StartPoints, LateStop, StopPoints
  <2>5. proxies' = "deleted"
    BY <1>2, <1>5 DEF Plugins, MainCleanup, MainDelete, MainDeleteJoin
  <2>6. \E p \in {"delete", "deleteJoin", "end"} : stack' = Goto(p, 0) /\ p \in MainPoints
    BY <1>5 DEF MainCleanup, MainDelete, MainDeleteJoin, MainPoints
  <2> QED
    BY <1>0, <1>2, <2>3, <2>4, <2>5, <2>6, MainGoto
<1> QED
  BY <1>3, <1>4, <1>5 DEF Main

-----------------------------------------------------------------------------
(* The signals and their handlers *)

(* The frames below the handler's are left alone.                          *)
LEMMA SameBase ==
    ASSUME NEW k \in 1 .. 3, Base(k), \A i \in 1 .. k : stack'[i] = stack[i],
           UNCHANGED <<proxies, injectorCount>>
    PROVE  Base(k)'
<1>1. CASE k = 1
  BY <1>1 DEF Base, Plugins
<1>2. CASE k = 2
  BY <1>2 DEF Base, Plugins
<1>3. CASE k = 3
  BY <1>3 DEF Base, Plugins
<1> QED
  BY <1>1, <1>2, <1>3

(* A SIGTERM or SIGINT comes anywhere but in the handler of the other.     *)
LEMMA DeliverTermKeeps == ASSUME Inv, DeliverTerm, ~nested' PROVE Good'
<1>0. StackTypes /\ Shaped /\ Reliance /\ StartedOnce
  BY DEF Inv, Good
<1>1. /\ UNCHANGED sessionVars /\ UNCHANGED <<proxies, injectorCount, ncfg>>
      /\ stack' = Append(stack, Frame("termStop", 0)) /\ ~dflt
      /\ Top.at \notin Over /\ TermHandlers = {}
  BY DEF DeliverTerm, relayerVars, injectorVars, pluginVars, linkVars, sessionVars, Alive
<1>2. PICK k \in 1 .. 3 :
        Base(k) /\ (NoHandler(k) \/ Entered(k) \/ Leaving(k) \/ Testing(k) \/ Inside(k))
  BY <1>0, <1>1 DEF Shaped, OverNow, Over
<1>3. NoHandler(k)
  <2>1. Len(stack) \in Nat /\ DOMAIN stack = 1 .. Len(stack)
    BY <1>0 DEF StackTypes
  <2>2. \A i \in 1 .. Len(stack) : stack[i].at \notin {"termStop", "termDefault"}
    BY <1>1, <2>1 DEF TermHandlers
  <2>3. Top.at \notin {"termStop", "termDefault"}
    BY <1>0, <2>2, TopFacts DEF Top
  <2>4. ASSUME Len(stack) = k + 2 PROVE stack[k + 1].at # "termDefault"
    <3>1. k + 1 \in 1 .. Len(stack)
      BY <2>4
    <3> QED
      BY <2>2, <3>1
  <2>5. ~Entered(k) /\ ~Leaving(k)
    BY <2>3 DEF Entered, Leaving, At
  <2>6. ~Testing(k) /\ ~Inside(k)
    BY <2>4 DEF Testing, Inside, Under
  <2> QED
    BY <1>2, <2>5, <2>6
<1>4. /\ StackTypes' /\ Len(stack') = k + 1 /\ stack'[k + 1] = Frame("termStop", 0)
      /\ \A i \in 1 .. k : stack'[i] = stack[i]
  <2>1. "termStop" \in Points /\ stack \in Seq(Frames) /\ Len(stack) = k
    BY <1>0, <1>3 DEF Points, HandlerPoints, StackTypes, NoHandler
  <2> QED
    BY <1>1, <2>1, PushFacts DEF StackTypes
<1>5. Base(k)'
  BY <1>1, <1>2, <1>4, SameBase
<1>6. BaseHolds(k)' /\ ~Aborted(k)'
  <2>1. BaseHolds(k) /\ ~Aborted(k) /\ stack'[k] = stack[k]
    BY <1>1, <1>3, <1>4 DEF NoHandler
  <2> QED
    BY <1>1, <2>1, SameHolds DEF BaseHolds, Aborted, sessionVars
<1>7. Entered(k)'
  BY <1>4, <1>6 DEF Entered, At, Top, Frame
<1> QED
  BY <1>0, <1>1, <1>4, <1>5, <1>7, SameSession DEF Good, Shaped

(* Where stack' ends the program.                                          *)
LEMMA PushOver ==
    ASSUME StackTypes, NEW p \in {"terminated", "killed"}, stack' = Append(stack, Frame(p, 0)),
           p = "terminated" => MaxSetConfig > 1
    PROVE  StackTypes' /\ Shaped'
<1>1. p \in Points /\ stack \in Seq(Frames) /\ Len(stack) \in Nat /\ Len(stack) >= 1
  BY TopFacts DEF Points, StackTypes
<1>2. StackTypes' /\ Len(stack') = Len(stack) + 1 /\ stack'[Len(stack) + 1] = Frame(p, 0)
  BY <1>1, PushFacts DEF StackTypes
<1>3. Len(stack') > 1 /\ Top' = Frame(p, 0)
  BY <1>1, <1>2 DEF Top
<1> QED
  BY <1>2, <1>3 DEF Shaped, OverNow, At, Frame

(* It comes again.                                                         *)
LEMMA KilledKeeps == ASSUME Inv, KilledByTerm PROVE Good'
<1>0. StackTypes /\ Reliance /\ StartedOnce
  BY DEF Inv, Good
<1>1. /\ UNCHANGED sessionVars /\ UNCHANGED <<proxies, injectorCount, ncfg>>
      /\ stack' = Append(stack, Frame("killed", 0))
  BY DEF KilledByTerm, relayerVars, injectorVars, pluginVars, linkVars, sessionVars
<1> QED
  BY <1>0, <1>1, PushOver, SameSession DEF Good

(* A SIGHUP comes while main() polls, or has just seen a status other than *)
(* USBM_RELAYING.                                                          *)
LEMMA DeliverHupKeeps == ASSUME Inv, HupWhilePolling, DeliverHup PROVE Good'
<1>0. StackTypes /\ Shaped /\ Reliance /\ StartedOnce
  BY DEF Inv, Good
<1>1. /\ UNCHANGED sessionVars /\ UNCHANGED <<proxies, injectorCount, ncfg>>
      /\ stack' = Append(stack, Frame("hupStop", 0)) /\ Top.at \in {"poll", "stop"}
  BY DEF DeliverHup, relayerVars, injectorVars, pluginVars, linkVars, sessionVars, HupWhilePolling
<1>2. Len(stack) = 1 /\ Base(1) /\ NoHandler(1) /\ stack[1] = Top
  BY <1>0, <1>1, AtMain DEF MainPoints, Top
<1>3. /\ StackTypes' /\ Len(stack') = 2 /\ stack'[2] = Frame("hupStop", 0) /\ stack'[1] = stack[1]
  <2>1. "hupStop" \in Points /\ stack \in Seq(Frames)
    BY <1>0 DEF Points, HandlerPoints, StackTypes
  <2>2. /\ stack' \in Seq(Frames) /\ stack' # <<>> /\ Len(stack') = Len(stack) + 1
        /\ stack'[Len(stack) + 1] = Frame("hupStop", 0)
        /\ \A i \in 1 .. Len(stack) : stack'[i] = stack[i]
    BY <1>1, <2>1, PushFacts
  <2>3. Len(stack') = 2 /\ stack'[2] = Frame("hupStop", 0) /\ stack'[1] = stack[1]
    BY ONLY <1>2, <2>2
  <2> QED
    BY <2>2, <2>3 DEF StackTypes
<1>4. stack'[2].at = "hupStop" /\ stack'[2].r = 0 /\ stack'[1].at \in {"poll", "stop"}
  BY <1>1, <1>2, <1>3 DEF Frame
<1>5. Base(2)'
  BY <1>1, <1>2, <1>4, <1>3 DEF Base, Plugins
<1>6. Holds("hupStop", 0)
  BY <1>1, <1>2 DEF NoHandler, BaseHolds, Holds, IdlePoints, RestPoints, StartPoints, LateStop,
                    StopPoints
<1>7. NoHandler(2)'
  BY <1>1, <1>3, <1>4, <1>6, SameHolds DEF NoHandler, BaseHolds, Aborted, StartPoints
<1> QED
  BY <1>0, <1>1, <1>3, <1>5, <1>7, SameSession DEF Good, Shaped

(* The handler of SIGTERM and SIGINT.                                      *)
LEMMA TermHandlerKeeps == ASSUME Inv, HandlerTermStop \/ HandlerTermDefault PROVE Good'
<1>0. StackTypes /\ Shaped /\ Reliance /\ StartedOnce
  BY DEF Inv, Good
<1>1. UNCHANGED sessionVars /\ UNCHANGED <<proxies, injectorCount, ncfg>>
  BY DEF HandlerTermStop, HandlerTermDefault, relayerVars, injectorVars, pluginVars, linkVars,
         sessionVars
<1>p. "termDefault" \in Points /\ "test" \in Points /\ 0 \in Points0
  BY Numbers DEF Points, HandlerPoints, StopPoints, Points0
<1>2. ASSUME NEW k \in 1 .. 3, Base(k), BaseHolds(k), \A i \in 1 .. k : stack'[i] = stack[i]
      PROVE  Base(k)' /\ BaseHolds(k)' /\ Aborted(k)' = Aborted(k)
  <2>1. Base(k)' /\ stack'[k] = stack[k]
    BY <1>1, <1>2, SameBase
  <2> QED
    BY <1>1, <1>2, <2>1, SameHolds DEF BaseHolds, Aborted, sessionVars
<1>3. CASE HandlerTermStop
  <2>1. PICK k \in 1 .. 3 : Base(k) /\ Entered(k)
    BY <1>0, <1>3, AtHandler DEF HandlerTermStop
  <2>2. Len(stack) = k + 1 /\ BaseHolds(k) /\ ~Aborted(k)
    BY <2>1 DEF Entered
  <2>3. CASE stack' = Goto("termDefault", 0)
    <3>1. /\ StackTypes' /\ Len(stack') = k + 1 /\ stack'[k + 1] = Frame("termDefault", 0)
          /\ \A i \in 1 .. k : stack'[i] = stack[i]
      BY <1>0, <1>p, <2>2, <2>3, GotoFacts DEF StackTypes
    <3>2. Leaving(k)' /\ Base(k)'
      BY <1>2, <2>1, <2>2, <3>1 DEF Leaving, At, Top, Frame
    <3> QED
      BY <1>0, <1>1, <3>1, <3>2, SameSession DEF Good, Shaped
  <2>4. CASE stack' = Call("termDefault", "test")
    <3>1. /\ StackTypes' /\ Len(stack') = k + 2 /\ stack'[k + 1] = Frame("termDefault", 0)
          /\ stack'[k + 2] = Frame("test", 0) /\ \A i \in 1 .. k : stack'[i] = stack[i]
      BY <1>0, <1>p, <2>2, <2>4, CallFacts DEF StackTypes
    <3>2. Testing(k)' /\ Base(k)'
      BY <1>2, <2>1, <2>2, <3>1 DEF Testing, At, Top, Frame
    <3> QED
      BY <1>0, <1>1, <3>1, <3>2, SameSession DEF Good, Shaped
  <2> QED
    BY <1>3, <2>3, <2>4 DEF HandlerTermStop
<1>4. CASE HandlerTermDefault
  <2>1. PICK k \in 1 .. 3 : Base(k) /\ Leaving(k)
    BY <1>0, <1>4, AtHandler DEF HandlerTermDefault
  <2>2. Len(stack) = k + 1 /\ BaseHolds(k)
    BY <2>1 DEF Leaving
  <2>3. stack' = Return /\ dflt' = TRUE
    BY <1>4 DEF HandlerTermDefault
  <2>4. StackTypes' /\ Len(stack') = k /\ \A i \in 1 .. k : stack'[i] = stack[i]
    BY <1>0, <2>2, <2>3, ReturnFacts DEF StackTypes
  <2>5. NoHandler(k)' /\ Base(k)'
    BY <1>2, <2>1, <2>2, <2>3, <2>4 DEF NoHandler
  <2> QED
    BY <1>0, <1>1, <2>4, <2>5, SameSession DEF Good, Shaped
<1> QED
  BY <1>3, <1>4

(* The handler of SIGHUP.                                                  *)
LEMMA HupHandlerKeeps ==
    ASSUME Inv, HandlerHupStop \/ HandlerHupStart \/ HandlerHupReturn PROVE Good'
<1>0. StackTypes /\ Shaped /\ Reliance /\ StartedOnce
  BY DEF Inv, Good
<1>1. UNCHANGED sessionVars /\ UNCHANGED <<proxies, injectorCount, ncfg>>
  BY DEF HandlerHupStop, HandlerHupStart, HandlerHupReturn, relayerVars, injectorVars, pluginVars,
         linkVars, sessionVars
<1>2. Reliance' /\ StartedOnce'
  BY <1>0, <1>1, SameSession
<1>3. /\ Len(stack) = 2 /\ Base(2) /\ NoHandler(2) /\ stack[2] = Top
      /\ stack[1].at \in {"poll", "stop"} /\ Holds(Top.at, Top.r)
      /\ proxies = "live" /\ injectorCount = NumInjectors
  <2>1. Top.at \in {"hupStop", "hupStart", "hupReturn"}
    BY DEF HandlerHupStop, HandlerHupStart, HandlerHupReturn, At
  <2>2. /\ Len(stack) = 2 /\ Base(2) /\ NoHandler(2) /\ stack[2] = Top
        /\ stack[1].at \in {"poll", "stop"}
    BY <1>0, <2>1, AtHandler
  <2> QED
    BY <2>2 DEF NoHandler, BaseHolds, Base, Plugins
<1>p. /\ "hupStart" \in Points /\ "test" \in Points /\ "hupReturn" \in Points /\ "setup" \in Points
  BY DEF Points, HandlerPoints, StopPoints, StartPoints
<1>4. ASSUME NEW p, NEW q, <<p, q>> \in {<<"hupStart", "test">>, <<"hupReturn", "setup">>},
             stack' = Call(p, q), Holds(q, 0), q = "setup" => status = "IDLE"
      PROVE  Good'
  <2>1. p \in Points /\ q \in Points /\ p \in {"hupStart", "hupReturn"} /\ q \in {"test", "setup"}
    BY <1>4, <1>p
  <2>2. /\ StackTypes' /\ Len(stack') = 3 /\ stack'[2] = Frame(p, 0) /\ stack'[3] = Frame(q, 0)
        /\ stack'[1] = stack[1]
    BY <1>0, <1>3, <1>4, <2>1, CallFacts DEF StackTypes
  <2>3. stack'[2].at = p /\ stack'[3].at = q /\ stack'[3].r = 0
    BY <2>2 DEF Frame
  <2>4. Base(3)'
    BY <1>1, <1>3, <1>4, <2>2, <2>3 DEF Base, Plugins, StartPoints, StopPoints
  <2>5. status' = status /\ Holds(q, 0)'
    BY <1>1, <1>4, SameHolds DEF sessionVars
  <2>6. NoHandler(3)'
    BY <1>4, <2>1, <2>2, <2>3, <2>5 DEF NoHandler, BaseHolds, Aborted, StartPoints
  <2> QED
    BY <1>2, <2>2, <2>4, <2>6 DEF Good, Shaped
<1>5. CASE HandlerHupStop
  <2>1. stack' = Call("hupStart", "test")
    BY <1>3, <1>5 DEF HandlerHupStop
  <2>2. Holds("test", 0)
    BY <1>3, <1>5 DEF HandlerHupStop, At, Holds, IdlePoints, RestPoints, StartPoints, LateStop,
                      StopPoints
  <2> QED
    BY <1>4, <2>1, <2>2
<1>6. CASE HandlerHupStart
  <2>1. stack' = Call("hupReturn", "setup")
    BY <1>6 DEF HandlerHupStart
  <2>2. Holds("setup", 0) /\ status = "IDLE"
    BY <1>3, <1>6 DEF HandlerHupStart, At, Holds, IdlePoints, RestPoints, StartPoints, LateStop,
                      StopPoints
  <2> QED
    BY <1>4, <2>1, <2>2
<1>7. CASE HandlerHupReturn
  <2>1. stack' = Return
    BY <1>7 DEF HandlerHupReturn
  <2>2. StackTypes' /\ Len(stack') = 1 /\ stack'[1] = stack[1]
    BY <1>0, <1>3, <2>1, ReturnFacts DEF StackTypes
  <2>3. Base(1)'
    BY <1>1, <1>3, <2>2 DEF Base, Plugins, MainPoints
  <2>4. Holds(stack[1].at, stack[1].r)
    BY <1>3, <1>7 DEF HandlerHupReturn, At, Holds, IdlePoints, RestPoints, StartPoints, LateStop,
                      StopPoints
  <2>5. NoHandler(1)'
    BY <1>1, <1>3, <2>2, <2>4, SameHolds DEF NoHandler, BaseHolds, Aborted, StartPoints
  <2> QED
    BY <1>2, <2>2, <2>3, <2>5 DEF Good, Shaped
<1> QED
  BY <1>5, <1>6, <1>7

-----------------------------------------------------------------------------
(* start_control_relaying() *)

(* The plugins exist, and no handler of SIGTERM is in the way.             *)
LEMMA StartState ==
    ASSUME StackTypes, Shaped, Top.at \in StartPoints
    PROVE  TopHolds /\ proxies = "live" /\ injectorCount = NumInjectors
<1>1. PICK k \in 2 .. 3 :
         Len(stack) = k /\ Base(k) /\ NoHandler(k) /\ stack[k] = Top
  BY AtStart
<1>2. TopHolds
  BY <1>1 DEF NoHandler, BaseHolds, TopHolds
<1>3. stack[1].at \in {"poll", "stop"}
  <2>1. CASE k = 2
    BY <1>1, <2>1 DEF Base, StartPoints, StopPoints
  <2>2. CASE k = 3
    BY <1>1, <2>2 DEF Base
  <2> QED
    BY <2>1, <2>2
<1> QED
  BY <1>1, <1>2, <1>3 DEF Base, Plugins

(* It goes on, or turns into stop_relaying().                              *)
LEMMA StartGoto ==
    ASSUME StackTypes, Shaped, Top.at \in StartPoints,
           NEW q \in StartPoints \cup StopPoints, NEW n \in Points0, stack' = Goto(q, n),
           UNCHANGED <<proxies, injectorCount, dflt>>, Holds(q, n)', Reliance', StartedOnce',
           q \in StartPoints /\ status' = "SETUP_ABORT" => status = "SETUP_ABORT"
    PROVE  Good'
<1>1. PICK k \in 2 .. 3 :
         /\ Len(stack) = k /\ Base(k) /\ NoHandler(k) /\ stack[k] = Top
         /\ stack[k - 1].at \in {"poll", "hupReturn"}
  BY AtStart
<1>2. /\ StackTypes' /\ Len(stack') = k /\ stack'[k] = Frame(q, n)
      /\ \A i \in 1 .. k - 1 : stack'[i] = stack[i]
  <2>1. q \in Points
    BY DEF Points
  <2> QED
    BY <1>1, <2>1, GotoFacts DEF StackTypes
<1>3. stack'[k].at = q /\ stack'[k].r = n
  BY <1>2 DEF Frame
<1>4. Base(k)'
  <2>1. CASE k = 2
    <3>1. stack[1].at = "poll"
      BY <1>1, <2>1 DEF Base, MainPoints, StartPoints, StopPoints
    <3> QED
      BY <1>1, <1>2, <1>3, <2>1, <3>1 DEF Base, Plugins
  <2>2. CASE k = 3
    <3>1. stack[2].at = "hupReturn" /\ stack[1].at \in {"poll", "stop"}
      BY <1>1, <2>2 DEF Base
    <3> QED
      BY <1>1, <1>2, <1>3, <2>2, <3>1 DEF Base, Plugins
  <2> QED
    BY <2>1, <2>2
<1>5. Aborted(k)' => dflt'
  BY <1>1, <1>3 DEF Aborted, NoHandler
<1>6. NoHandler(k)'
  BY <1>2, <1>3, <1>5 DEF NoHandler, BaseHolds
<1> QED
  BY <1>2, <1>4, <1>6 DEF Good, Shaped

(* It returns to main() or to the handler of SIGHUP.                       *)
LEMMA StartReturn ==
    ASSUME StackTypes, Shaped, Top.at \in StartPoints, stack' = Return,
           UNCHANGED <<proxies, injectorCount>>, Reliance', StartedOnce',
           \A q \in {"poll", "hupReturn"}, n \in Points0 : Holds(q, n)'
    PROVE  Good'
<1>1. PICK k \in 2 .. 3 :
         /\ Len(stack) = k /\ Base(k) /\ NoHandler(k) /\ stack[k] = Top
         /\ stack[k - 1].at \in {"poll", "hupReturn"}
  BY AtStart
<1>2. StackTypes' /\ Len(stack') = k - 1 /\ \A i \in 1 .. k - 1 : stack'[i] = stack[i]
  BY <1>1, ReturnFacts DEF StackTypes
<1>3. stack'[k - 1].at \in {"poll", "hupReturn"} /\ stack'[k - 1].r \in Points0
  <2>1. stack'[k - 1] = stack[k - 1] /\ stack[k - 1] \in Frames
    BY <1>1, <1>2 DEF StackTypes
  <2> QED
    BY <1>1, <2>1 DEF Frames
<1>4. Base(k - 1)'
  <2>1. CASE k = 2
    <3>1. stack[1].at = "poll" /\ stack'[1] = stack[1] /\ k - 1 = 1
      BY <1>1, <1>2, <2>1 DEF Base, MainPoints, StartPoints, StopPoints
    <3> QED
      BY <1>1, <3>1 DEF Base, Plugins, MainPoints
  <2>2. CASE k = 3
    <3>1. /\ stack[2].at = "hupReturn" /\ stack[1].at \in {"poll", "stop"} /\ k - 1 = 2
          /\ stack'[1] = stack[1] /\ stack'[2] = stack[2]
      BY <1>1, <1>2, <2>2 DEF Base
    <3> QED
      BY <1>1, <3>1 DEF Base, Plugins
  <2> QED
    BY <2>1, <2>2
<1>5. NoHandler(k - 1)'
  BY <1>2, <1>3 DEF NoHandler, BaseHolds, Aborted, StartPoints
<1>6. k - 1 \in 1 .. 3
  OBVIOUS
<1> QED
  BY <1>2, <1>4, <1>5, <1>6 DEF Good, Shaped

(* Without a thread nothing relies on anything, but the injectors on their *)
(* list.                                                                   *)
LEMMA NoThreadsSession ==
    ASSUME Reliance, StartedOnce, NoThreads, UNCHANGED <<thr, wcfg>>,
           \A i \in Injectors : injThr'[i] # "none" => i <= injectorCount',
           claimed' => device'
    PROVE  Reliance' /\ StartedOnce'
<1>1. wcfg = 0
  BY Numbers DEF Reliance, NoThreads, Running
<1>2. \A r \in Relayers : thr'[r] = "none"
  BY DEF NoThreads
<1>3. Reliance'
  BY <1>1, <1>2, Numbers DEF Reliance
<1>4. StartedOnce'
  BY <1>1, <1>2 DEF StartedOnce
<1> QED
  BY <1>3, <1>4

(* Up to the first relayer object: the device is connected and modelled.   *)
LEMMA StartDeviceKeeps ==
    ASSUME Inv, StartSetup \/ StartConnectDevice \/ StartModel PROVE Good'
<1>0. StackTypes /\ Shaped /\ Reliance /\ StartedOnce
  BY DEF Inv, Good
<1> USE DEF At, relayerVars, injectorVars, pluginVars, linkVars, signalVars
<1>1. Top.at \in {"setup", "connectDevice", "model"} /\ Top.at \in StartPoints
  BY DEF StartSetup, StartConnectDevice, StartModel, StartPoints
<1>2. TopHolds /\ proxies = "live" /\ injectorCount = NumInjectors
  BY <1>0, <1>1, StartState
<1>3. /\ UNCHANGED <<thr, wcfg, obj, injThr>> /\ UNCHANGED <<proxies, injectorCount, dflt>>
      /\ UNCHANGED hostConnected
  BY DEF StartSetup, StartConnectDevice, StartModel
<1>4. NoThreads
  BY <1>1, <1>2 DEF TopHolds, Holds, IdlePoints, Clean
<1>5. claimed' => device'
  BY <1>0 DEF StartSetup, StartConnectDevice, StartModel, Reliance
<1>6. Reliance' /\ StartedOnce'
  BY <1>0, <1>3, <1>4, <1>5, NoThreadsSession DEF Reliance
<1>7. NoThreads'
  BY <1>3, <1>4 DEF NoThreads
<1>p. /\ "connectDevice" \in StartPoints /\ "model" \in StartPoints /\ "endpoint" \in StartPoints
      /\ 0 \in Points0
  BY Numbers DEF StartPoints, Points0
<1>8. CASE StartSetup
  <2>1. Clean /\ UNCHANGED <<device, devConnected, claimed>> /\ status' = "SETUP"
    BY <1>2, <1>8 DEF StartSetup, TopHolds, Holds, IdlePoints
  <2>2. Clean'
    BY <1>3, <2>1 DEF Clean, NoThreads, NoObjects, NoInjectors
  <2>3. Holds("connectDevice", 0)'
    BY <2>1, <2>2 DEF Holds, IdlePoints, RestPoints, StartPoints, LateStop, StopPoints
  <2>4. stack' = Goto("connectDevice", 0)
    BY <1>8 DEF StartSetup
  <2> QED
    BY <1>0, <1>1, <1>3, <1>6, <1>p, <2>1, <2>3, <2>4, StartGoto
<1>9. CASE StartConnectDevice
  <2>1. Clean /\ status \in {"SETUP", "SETUP_ABORT"} /\ UNCHANGED <<device, claimed>>
    BY <1>2, <1>9 DEF StartConnectDevice, TopHolds, Holds, StartPoints
  <2>2. CASE devConnected' = TRUE /\ stack' = Goto("model", 0) /\ UNCHANGED status
    <3>1. Holds("model", 0)'
      BY <1>7, <2>1, <2>2 DEF Holds, IdlePoints, RestPoints, StartPoints, LateStop, StopPoints
    <3> QED
      BY <1>0, <1>1, <1>3, <1>6, <1>p, <2>2, <3>1, StartGoto
  <2>3. CASE status' = "IDLE" /\ stack' = Return /\ UNCHANGED devConnected
    <3>1. Clean'
      BY <1>3, <2>1, <2>3 DEF Clean, NoThreads, NoObjects, NoInjectors
    <3>2. \A q \in {"poll", "hupReturn"}, n \in Points0 : Holds(q, n)'
      BY <2>3, <3>1 DEF Holds, IdlePoints, RestPoints, StartPoints, LateStop, StopPoints
    <3> QED
      BY <1>0, <1>1, <1>3, <1>6, <2>3, <3>2, StartReturn
  <2> QED
    BY <1>2, <1>9, <2>2, <2>3 DEF StartConnectDevice
<1>10. CASE StartModel
  <2>0. devConnected /\ status \in {"SETUP", "SETUP_ABORT"}
    BY <1>2, <1>10 DEF StartModel, TopHolds, Holds, StartPoints
  <2>1. /\ devConnected /\ status \in {"SETUP", "SETUP_ABORT"} /\ UNCHANGED <<status, devConnected>>
        /\ device' = TRUE
    BY <1>10, <2>0 DEF StartModel
  <2>2. Holds("endpoint", 0)'
    BY <1>7, <2>1 DEF Holds, IdlePoints, RestPoints, StartPoints, LateStop, StopPoints
  <2>3. stack' = Goto("endpoint", 0)
    BY <1>10, <2>0 DEF StartModel
  <2> QED
    BY <1>0, <1>1, <1>3, <1>6, <1>p, <2>1, <2>2, <2>3, StartGoto
<1> QED
  BY <1>8, <1>9, <1>10

(* The checks of the status, passed or not.                                *)
LEMMA StartCheckKeeps ==
    ASSUME Inv, SetupAborted \/ StartEndpoint \/ StartApply \/ StartCheck PROVE Good'
<1>0. StackTypes /\ Shaped /\ Reliance /\ StartedOnce
  BY DEF Inv, Good
<1> USE DEF At, relayerVars, injectorVars, pluginVars, linkVars, signalVars
<1>1. Top.at \in StartPoints \ {"setup"}
  BY DEF SetupAborted, StartEndpoint, StartApply, StartCheck, StartPoints
<1>2. TopHolds /\ proxies = "live" /\ injectorCount = NumInjectors
  BY <1>0, <1>1, StartState
<1>3. /\ UNCHANGED <<proxies, injectorCount, ncfg>> /\ UNCHANGED dflt
      /\ UNCHANGED <<obj, thr, flag, injThr, wcfg, raced>>
      /\ UNCHANGED <<device, devConnected, hostConnected, claimed>>
  BY DEF SetupAborted, StartEndpoint, StartApply, StartCheck
<1>4. Reliance' /\ StartedOnce'
  BY <1>0, <1>3 DEF Reliance, StartedOnce, Running
<1>p. /\ "test" \in StopPoints /\ "relayers" \in StartPoints /\ "injectors" \in StartPoints
      /\ "relaying" \in StartPoints /\ 0 \in Points0 /\ 1 \in Points0
  BY Numbers DEF StopPoints, StartPoints, Points0
<1>5. CASE SetupAborted
  <2>1. status' = "SETUP_ABORT" /\ stack' = Goto("test", 0)
    BY <1>1, <1>2, <1>5 DEF SetupAborted, TopHolds, Holds
  <2>2. Holds("test", 0)'
    BY <2>1 DEF Holds, IdlePoints, RestPoints, StartPoints, LateStop, StopPoints
  <2> QED
    BY <1>0, <1>1, <1>3, <1>4, <1>p, <2>1, <2>2, StartGoto DEF StartPoints
<1>6. CASE StartEndpoint \/ StartApply \/ StartCheck
  <2>1. UNCHANGED sessionVars /\ status' = status
    BY <1>3, <1>6 DEF sessionVars, StartEndpoint, StartApply, StartCheck
  <2>2. PICK q \in StartPoints, n \in Points0 : stack' = Goto(q, n) /\ Holds(q, n)
    <3>1. CASE StartEndpoint
      <4>1. Holds("relayers", 0)
        BY <1>2, <3>1 DEF StartEndpoint, TopHolds, Holds, IdlePoints, RestPoints, StartPoints,
                          LateStop, StopPoints
      <4> QED
        BY <1>p, <3>1, <4>1 DEF StartEndpoint
    <3>2. CASE StartApply
      <4>1. Holds("injectors", 1)
        BY <1>2, <3>2 DEF StartApply, TopHolds, Holds, IdlePoints, RestPoints, StartPoints,
                          LateStop, StopPoints
      <4> QED
        BY <1>p, <3>2, <4>1 DEF StartApply
    <3>3. CASE StartCheck
      <4>1. Holds("relaying", 0)
        BY <1>2, <3>3 DEF StartCheck, TopHolds, Holds, IdlePoints, RestPoints, StartPoints,
                          LateStop, StopPoints
      <4> QED
        BY <1>p, <3>3, <4>1 DEF StartCheck
    <3> QED
      BY <1>6, <3>1, <3>2, <3>3
  <2>3. Holds(q, n)'
    BY <2>1, <2>2, SameHolds
  <2> QED
    BY <1>0, <1>1, <1>3, <1>4, <2>1, <2>2, <2>3, StartGoto
<1> QED
  BY <1>5, <1>6

(* The relayers of endpoint 0, the injectors, the connection of the host.  *)
LEMMA StartRelayersKeeps ==
    ASSUME Inv, StartRelayers \/ StartInjector \/ StartConnectHost PROVE Good'
<1>0. StackTypes /\ Shaped /\ Reliance /\ StartedOnce /\ Types /\ RelayerFlags
  BY DEF Inv, Good
<1> USE DEF At, relayerVars, injectorVars, pluginVars, linkVars, signalVars
<1>1. Top.at \in {"relayers", "injectors", "connectHost"} /\ Top.at \in StartPoints \ {"setup"}
  BY DEF StartRelayers, StartInjector, StartConnectHost, StartPoints
<1>2. TopHolds /\ proxies = "live" /\ injectorCount = NumInjectors
  BY <1>0, <1>1, StartState
<1>3. /\ UNCHANGED <<thr, wcfg>> /\ UNCHANGED <<proxies, injectorCount, dflt>>
      /\ UNCHANGED <<device, devConnected, claimed>>
  BY DEF StartRelayers, StartInjector, StartConnectHost
<1>4. NoThreads /\ devConnected /\ device /\ status \in {"SETUP", "SETUP_ABORT"}
  BY <1>1, <1>2 DEF TopHolds, Holds
<1>5. NoThreads' /\ devConnected' /\ device'
  BY <1>3, <1>4 DEF NoThreads
<1>t. Top.r \in Points0
  BY <1>0, TopFacts
<1>6. \A i \in Injectors : injThr'[i] # "none" => i <= injectorCount'
  <2>1. CASE UNCHANGED injThr
    BY <1>0, <1>3, <2>1 DEF Reliance
  <2>2. CASE Top.r <= injectorCount /\ injThr' = [injThr EXCEPT ![Top.r] = "running"]
    BY <1>0, <1>3, <2>2 DEF Reliance, Types
  <2> QED
    BY <1>t, <1>0, Numbers, <2>1, <2>2 DEF StartRelayers, StartInjector, StartConnectHost, Points0, Types
<1>7. Reliance' /\ StartedOnce'
  BY <1>0, <1>3, <1>4, <1>6, NoThreadsSession DEF Reliance
<1>p. /\ "apply" \in StartPoints /\ "injectors" \in StartPoints /\ "connectHost" \in StartPoints
      /\ "readerThread" \in StartPoints /\ "test" \in StopPoints /\ 0 \in Points0
  BY Numbers DEF StopPoints, StartPoints, Points0
<1>8. CASE StartRelayers
  <2>1. /\ obj' = [obj EXCEPT ![EP0Reader] = TRUE, ![EP0Writer] = TRUE]
        /\ flag' = [flag EXCEPT ![EP0Reader] = FALSE, ![EP0Writer] = FALSE]
        /\ stack' = Goto("apply", 0) /\ UNCHANGED status
    BY <1>8 DEF StartRelayers
  <2>2. EP0Made'
    BY <1>0, <2>1, Numbers DEF EP0Made, RelayerFlags
  <2>3. Holds("apply", 0)'
    BY <1>4, <1>5, <2>1, <2>2 DEF Holds, IdlePoints, RestPoints, StartPoints, LateStop, StopPoints
  <2> QED
    BY <1>0, <1>1, <1>3, <1>7, <1>p, <2>1, <2>3, StartGoto
<1>9. CASE StartInjector
  <2>1. UNCHANGED <<status, obj, flag>> /\ EP0Made /\ Top.r > 0
    BY <1>2, <1>9 DEF StartInjector, TopHolds, Holds
  <2>2. EP0Made'
    BY <2>1 DEF EP0Made
  <2>3. CASE stack' = Goto("connectHost", 0)
    <3>1. Holds("connectHost", 0)'
      BY <1>4, <1>5, <2>1, <2>2 DEF Holds, IdlePoints, RestPoints, StartPoints, LateStop, StopPoints
    <3> QED
      BY <1>0, <1>1, <1>3, <1>7, <1>p, <2>1, <2>3, <3>1, StartGoto
  <2>4. CASE Top.r <= injectorCount /\ stack' = Goto("injectors", Top.r + 1)
    <3>1. PICK n \in Points0 : n = Top.r + 1 /\ n > 0
      <4>1. Top.r + 1 \in Points0 /\ Top.r + 1 > 0
        BY <1>2, <1>t, <2>4, Numbers DEF Points0
      <4> QED
        BY <4>1
    <3>2. Holds("injectors", n)'
      BY <1>4, <1>5, <2>1, <2>2, <3>1 DEF Holds, IdlePoints, RestPoints, StartPoints, LateStop,
                                          StopPoints
    <3> QED
      BY <1>0, <1>1, <1>3, <1>7, <1>p, <2>1, <2>4, <3>1, <3>2, StartGoto
  <2>5. injectorCount \in Nat /\ Top.r \in Nat
    BY <1>2, <1>t, Numbers DEF Points0
  <2> QED
    BY <1>9, <2>3, <2>4, <2>5 DEF StartInjector
<1>10. CASE StartConnectHost
  <2>1. UNCHANGED <<obj, flag>> /\ EP0Made
    BY <1>2, <1>10 DEF StartConnectHost, TopHolds, Holds
  <2>2. EP0Made'
    BY <2>1 DEF EP0Made
  <2>3. CASE hostConnected' = TRUE /\ stack' = Goto("readerThread", 0) /\ UNCHANGED status
    <3>1. Holds("readerThread", 0)'
      BY <1>4, <1>5, <2>2, <2>3 DEF Holds, IdlePoints, RestPoints, StartPoints, LateStop, StopPoints
    <3> QED
      BY <1>0, <1>1, <1>3, <1>7, <1>p, <2>3, <3>1, StartGoto
  <2>4. CASE status' = "SETUP_ABORT" /\ stack' = Goto("test", 0)
    <3>1. Holds("test", 0)'
      BY <2>4 DEF Holds, IdlePoints, RestPoints, StartPoints, LateStop, StopPoints
    <3> QED
      BY <1>0, <1>1, <1>3, <1>7, <1>p, <2>4, <3>1, StartGoto DEF StartPoints
  <2> QED
    BY <1>4, <1>10, <2>3, <2>4 DEF StartConnectHost
<1> QED
  BY <1>8, <1>9, <1>10

(* The two threads of endpoint 0 are started, each for the first time.     *)
LEMMA StartThreadKeeps == ASSUME Inv, StartReaderThread \/ StartWriterThread PROVE Good'
<1>0. StackTypes /\ Shaped /\ Reliance /\ StartedOnce /\ Types
  BY DEF Inv, Good
<1> USE DEF At, relayerVars, injectorVars, pluginVars, linkVars, signalVars
<1>1. Top.at \in {"readerThread", "writerThread"} /\ Top.at \in StartPoints \ {"setup"}
  BY DEF StartReaderThread, StartWriterThread, StartPoints
<1>2. TopHolds /\ proxies = "live"
  BY <1>0, <1>1, StartState
<1>3. /\ UNCHANGED <<wcfg, ncfg, injThr>> /\ UNCHANGED <<proxies, injectorCount, dflt, status>>
      /\ UNCHANGED <<device, devConnected, hostConnected, claimed>> /\ UNCHANGED <<obj, flag>>
  BY DEF StartReaderThread, StartWriterThread
<1>4. EP0Made /\ status \in {"SETUP", "SETUP_ABORT"}
  BY <1>1, <1>2 DEF TopHolds, Holds
<1>5. EP0Made'
  BY <1>3, <1>4 DEF EP0Made
<1>6. wcfg = 0
  <2>1. thr[EP0Writer] = "none"
    BY <1>1, <1>2, Numbers DEF TopHolds, Holds, NoThreads
  <2> QED
    BY <1>0, <2>1 DEF Reliance, Running
<1>7. ASSUME NEW q \in {EP0Reader, EP0Writer}, thr' = [thr EXCEPT ![q] = "running"],
             device, devConnected, hostConnected
      PROVE  Reliance' /\ StartedOnce'
  <2>1. \A r \in Relayers : thr'[r] = IF r = q THEN "running" ELSE thr[r]
    BY <1>0, <1>7, Numbers DEF Types
  <2>2. obj[q]
    BY <1>4 DEF EP0Made
  <2>3. \A r \in Relayers : thr'[r] # "none" =>
           obj'[r] /\ device' /\ devConnected' /\ hostConnected' /\ proxies' = "live"
    BY <1>0, <1>2, <1>3, <1>7, <2>1, <2>2 DEF Reliance
  <2>4. Reliance'
    BY <1>0, <1>3, <1>6, <2>3, Numbers DEF Reliance
  <2>5. StartedOnce'
    BY <1>0, <1>3, <1>6, <2>1, Numbers DEF StartedOnce
  <2> QED
    BY <2>4, <2>5
<1>p. "writerThread" \in StartPoints /\ "check" \in StartPoints /\ 0 \in Points0
  BY Numbers DEF StartPoints, Points0
<1>8. CASE StartReaderThread
  <2>1. NoThreads /\ device /\ devConnected /\ hostConnected
    BY <1>2, <1>8 DEF StartReaderThread, TopHolds, Holds
  <2>2. thr' = [thr EXCEPT ![EP0Reader] = "running"] /\ stack' = Goto("writerThread", 0)
    BY <1>4, <1>8, <2>1, Numbers DEF StartReaderThread, AssignThread, NoThreads, EP0Made
  <2>3. Running(EP0Reader)' /\ \A r \in Relayers : r # EP0Reader => thr'[r] = "none"
    BY <1>0, <2>1, <2>2, Numbers DEF Running, NoThreads, Types
  <2>4. Holds("writerThread", 0)'
    BY <1>3, <1>4, <1>5, <2>3 DEF Holds, IdlePoints, RestPoints, StartPoints, LateStop, StopPoints
  <2> QED
    BY <1>0, <1>1, <1>3, <1>7, <1>p, <2>1, <2>2, <2>4, StartGoto
<1>9. CASE StartWriterThread
  <2>1. Running(EP0Reader) /\ thr[EP0Writer] = "none"
    BY <1>2, <1>9, Numbers DEF StartWriterThread, TopHolds, Holds
  <2>2. device /\ devConnected /\ hostConnected
    BY <1>0, <2>1, Numbers DEF Reliance, Running
  <2>3. thr' = [thr EXCEPT ![EP0Writer] = "running"] /\ stack' = Goto("check", 0)
    BY <1>4, <1>9, <2>1 DEF StartWriterThread, AssignThread, EP0Made
  <2>4. Running(EP0Reader)' /\ Running(EP0Writer)'
    BY <1>0, <2>1, <2>3, Numbers DEF Running, Types
  <2>5. Holds("check", 0)'
    BY <1>3, <1>4, <1>5, <2>4 DEF Holds, IdlePoints, RestPoints, StartPoints, LateStop, StopPoints
  <2> QED
    BY <1>0, <1>1, <1>3, <1>7, <1>p, <2>2, <2>3, <2>5, StartGoto
<1> QED
  BY <1>8, <1>9

(* The session is up, whatever a SIGTERM behind the last check has marked. *)
LEMMA StartRelayingKeeps == ASSUME Inv, StartRelaying PROVE Good'
<1>0. StackTypes /\ Shaped /\ Reliance /\ StartedOnce
  BY DEF Inv, Good
<1> USE DEF At, relayerVars, injectorVars, pluginVars, linkVars, signalVars
<1>1. Top.at = "relaying" /\ Top.at \in StartPoints
  BY DEF StartRelaying, StartPoints
<1>2. TopHolds
  BY <1>0, <1>1, StartState
<1>3. /\ UNCHANGED <<wcfg, ncfg, injThr, thr>> /\ UNCHANGED <<proxies, injectorCount>>
      /\ UNCHANGED <<device, devConnected, hostConnected, claimed>> /\ UNCHANGED <<obj, flag>>
      /\ status' = "RELAYING" /\ stack' = Return
  BY DEF StartRelaying
<1>4. Reliance' /\ StartedOnce'
  BY <1>0, <1>3 DEF Reliance, StartedOnce, Running
<1>5. Up'
  BY <1>1, <1>2, <1>3 DEF TopHolds, Holds, Up, EP0Made, Running
<1>6. \A q \in {"poll", "hupReturn"}, n \in Points0 : Holds(q, n)'
  BY <1>3, <1>5 DEF Holds, IdlePoints, RestPoints, StartPoints, LateStop, StopPoints
<1> QED
  BY <1>0, <1>1, <1>3, <1>4, <1>6, StartReturn

-----------------------------------------------------------------------------
(* stop_relaying() *)

(* Any stop_relaying() beyond its test: the plugins exist.                 *)
LEMMA StopState ==
    ASSUME StackTypes, Shaped, Top.at \in StopPoints \ {"test"}
    PROVE  TopHolds /\ proxies = "live" /\ injectorCount = NumInjectors
<1>1. PICK k \in 1 .. 3 :
         /\ Base(k)
         /\ \/ NoHandler(k) /\ k > 1 /\ stack[k] = Top /\ TopHolds
            \/ Inside(k) /\ TopHolds
  BY AtStop DEF At
<1>2. stack[1].at \in {"poll", "stop", "cleanup"}
  <2>1. CASE k > 1
    <3>1. CASE k = 2
      BY <1>1, <3>1 DEF Base
    <3>2. CASE k = 3
      BY <1>1, <3>2 DEF Base
    <3> QED
      BY <2>1, <3>1, <3>2
  <2>2. CASE k = 1
    BY <1>1, <2>2 DEF Base, Inside, Under, RestPoints, MainPoints
  <2> QED
    BY <2>1, <2>2
<1> QED
  BY <1>1, <1>2 DEF Base, Plugins

(* Where its frame is, if it may go on or return.                          *)
StopFrame ==
    \E k \in 1 .. 3 : Base(k) /\ ((NoHandler(k) /\ k > 1 /\ stack[k] = Top) \/ Under(k))

(* Beyond the test it may.                                                 *)
LEMMA BeyondTest ==
    ASSUME StackTypes, Shaped, Top.at \in StopPoints \ {"test"} PROVE StopFrame
BY AtStop DEF At, Inside, StopFrame

(* It goes on.                                                             *)
LEMMA StopGoto ==
    ASSUME StackTypes, StopFrame, Top.at \in StopPoints,
           NEW q \in StopPoints \ {"test"}, NEW n \in Points0, stack' = Goto(q, n),
           UNCHANGED <<proxies, injectorCount>>, Holds(q, n)', Reliance', StartedOnce'
    PROVE  Good'
<1>1. PICK k \in 1 .. 3 :
         Base(k) /\ ((NoHandler(k) /\ k > 1 /\ stack[k] = Top) \/ Under(k))
  BY DEF StopFrame
<1>2. /\ StackTypes' /\ Len(stack') = Len(stack) /\ stack'[Len(stack)] = Frame(q, n)
      /\ \A i \in 1 .. Len(stack) - 1 : stack'[i] = stack[i]
  <2>1. q \in Points
    BY DEF Points
  <2> QED
    BY <2>1, GotoFacts DEF StackTypes
<1>3. CASE NoHandler(k) /\ k > 1 /\ stack[k] = Top
  <2>1. Len(stack) = k /\ stack'[k].at = q /\ stack'[k].r = n
    BY <1>2, <1>3 DEF NoHandler, Frame
  <2>2. Base(k)'
    <3>1. CASE k = 2
      BY <1>1, <1>2, <1>3, <2>1, <3>1 DEF Base, Plugins, StartPoints, StopPoints
    <3>2. CASE k = 3
      BY <1>1, <1>2, <1>3, <2>1, <3>2 DEF Base, Plugins, StartPoints, StopPoints
    <3> QED
      BY <1>3, <3>1, <3>2
  <2>3. NoHandler(k)'
    BY <1>2, <2>1 DEF NoHandler, BaseHolds, Aborted, StartPoints, StopPoints
  <2> QED
    BY <1>2, <2>2, <2>3 DEF Good, Shaped
<1>4. CASE Under(k)
  <2>1. /\ Len(stack) = k + 2 /\ stack[k + 1].at = "termDefault"
        /\ stack[k].at \in RestPoints \cup {"test", "stopping"}
    BY <1>4 DEF Under
  <2>2. /\ Len(stack') = k + 2 /\ stack'[k + 2] = Frame(q, n) /\ stack'[k + 1] = stack[k + 1]
        /\ \A i \in 1 .. k : stack'[i] = stack[i]
    BY <1>2, <2>1
  <2>3. Base(k)'
    BY <1>1, <2>2, SameBase
  <2>4. Inside(k)'
    BY <2>1, <2>2 DEF Inside, Under, TopHolds, Top, Frame
  <2> QED
    BY <1>2, <2>3, <2>4 DEF Good, Shaped
<1> QED
  BY <1>1, <1>3, <1>4

(* It returns, with nothing of the session left.                           *)
LEMMA StopReturn ==
    ASSUME StackTypes, StopFrame, Top.at \in StopPoints, stack' = Return,
           UNCHANGED <<proxies, injectorCount>>, Reliance', StartedOnce',
           status' = "IDLE", Clean'
    PROVE  Good'
<1>1. PICK k \in 1 .. 3 :
         Base(k) /\ ((NoHandler(k) /\ k > 1 /\ stack[k] = Top) \/ Under(k))
  BY DEF StopFrame
<1>2. ASSUME NEW q \in IdlePoints \cup RestPoints \cup {"test", "stopping"}, NEW n
      PROVE  Holds(q, n)'
  BY DEF Holds, IdlePoints, RestPoints, StartPoints, LateStop, StopPoints
<1>3. CASE NoHandler(k) /\ k > 1 /\ stack[k] = Top
  <2>1. Len(stack) = k
    BY <1>3 DEF NoHandler
  <2>2. StackTypes' /\ Len(stack') = k - 1 /\ \A i \in 1 .. k - 1 : stack'[i] = stack[i]
    BY <1>3, <2>1, ReturnFacts DEF StackTypes
  <2>3. k - 1 \in 1 .. 3
    BY <1>3
  <2>4. Base(k - 1)' /\ stack'[k - 1].at \in {"poll", "cleanup", "hupStart", "hupReturn"}
    <3>1. CASE k = 2
      <4>1. stack[1].at \in {"poll", "cleanup"} /\ k - 1 = 1 /\ stack'[1] = stack[1]
        BY <1>1, <1>3, <2>2, <3>1 DEF Base, StopPoints
      <4> QED
        BY <1>1, <4>1 DEF Base, Plugins, MainPoints
    <3>2. CASE k = 3
      <4>1. /\ stack[2].at \in {"hupStart", "hupReturn"} /\ stack[1].at \in {"poll", "stop"}
            /\ k - 1 = 2 /\ stack'[1] = stack[1] /\ stack'[2] = stack[2]
        BY <1>1, <1>3, <2>2, <3>2 DEF Base, StopPoints
      <4> QED
        BY <1>1, <4>1 DEF Base, Plugins
    <3> QED
      BY <1>3, <3>1, <3>2
  <2>5. NoHandler(k - 1)'
    BY <1>2, <2>2, <2>4 DEF NoHandler, BaseHolds, Aborted, IdlePoints, RestPoints
  <2> QED
    BY <2>2, <2>3, <2>4, <2>5 DEF Good, Shaped
<1>4. CASE Under(k)
  <2>1. /\ Len(stack) = k + 2 /\ stack[k + 1].at = "termDefault"
        /\ stack[k].at \in RestPoints \cup {"test", "stopping"}
    BY <1>4 DEF Under
  <2>2. /\ StackTypes' /\ Len(stack') = k + 1 /\ stack'[k + 1] = stack[k + 1]
        /\ \A i \in 1 .. k : stack'[i] = stack[i]
    BY <2>1, ReturnFacts DEF StackTypes
  <2>3. Base(k)'
    BY <1>1, <2>2, SameBase
  <2>4. BaseHolds(k)'
    <3>1. stack'[k] = stack[k]
      BY <2>2
    <3>2. stack'[k].at \in IdlePoints \cup RestPoints \cup {"test", "stopping"}
      BY <2>1, <3>1
    <3> QED
      BY <1>2, <3>2 DEF BaseHolds
  <2>5. At("termDefault")'
    BY <2>1, <2>2 DEF At, Top
  <2>6. Leaving(k)'
    BY <2>2, <2>4, <2>5 DEF Leaving
  <2> QED
    BY <2>2, <2>3, <2>6 DEF Good, Shaped
<1> QED
  BY <1>1, <1>3, <1>4

(* The two early returns.  A SIGTERM that finds a setup marks it, and one  *)
(* that finds a stop under way leaves it alone.                            *)
LEMMA StopTestKeeps == ASSUME Inv, StopTest PROVE Good'
<1>0. StackTypes /\ Shaped /\ Reliance /\ StartedOnce /\ status \in Statuses
  BY DEF Inv, Good, Types
<1>1. /\ Top.at = "test" /\ Top.at \in StopPoints
      /\ status' = IF status = "SETUP" THEN "SETUP_ABORT" ELSE status
      /\ stack' = IF status \in {"RELAYING", "SETUP_ABORT"} THEN Goto("stopping", 0) ELSE Return
  BY DEF StopTest, At, StopPoints
<1>2. /\ UNCHANGED <<proxies, injectorCount, ncfg>> /\ UNCHANGED <<wcfg, injThr, thr, obj, flag, raced>>
      /\ UNCHANGED <<device, devConnected, hostConnected, claimed>>
  BY DEF StopTest, relayerVars, injectorVars, linkVars, pluginVars
<1>3. Reliance' /\ StartedOnce'
  BY <1>0, <1>2 DEF Reliance, StartedOnce, Running
<1>p. "stopping" \in StopPoints \ {"test"} /\ 0 \in Points0
  BY Numbers DEF StopPoints, Points0
<1>4. ASSUME StopFrame, status \in {"RELAYING", "SETUP_ABORT"} PROVE Good'
  <2>1. stack' = Goto("stopping", 0) /\ status' = status
    BY <1>1, <1>4
  <2>2. Holds("stopping", 0)'
    BY <1>4, <2>1 DEF Holds, IdlePoints, RestPoints, StartPoints, LateStop, StopPoints
  <2> QED
    BY <1>0, <1>1, <1>2, <1>3, <1>4, <1>p, <2>1, <2>2, StopGoto
<1>5. PICK k \in 1 .. 3 :
         Base(k) /\ ((NoHandler(k) /\ k > 1 /\ stack[k] = Top /\ TopHolds) \/ Testing(k))
  BY <1>0, <1>1, AtStop DEF At
<1>6. CASE NoHandler(k) /\ k > 1 /\ stack[k] = Top /\ TopHolds
  <2>1. StopFrame
    BY <1>5, <1>6 DEF StopFrame
  <2>2. status \in {"IDLE", "RELAYING", "SETUP_ABORT"} /\ (status = "IDLE" => Clean)
    BY <1>1, <1>6 DEF TopHolds, Holds
  <2>3. CASE status = "IDLE"
    <3>1. stack' = Return /\ status' = "IDLE"
      BY <1>1, <2>3
    <3>2. Clean'
      BY <1>2, <2>2, <2>3 DEF Clean, NoThreads, NoObjects, NoInjectors
    <3> QED
      BY <1>0, <1>1, <1>2, <1>3, <2>1, <3>1, <3>2, StopReturn
  <2> QED
    BY <1>4, <2>1, <2>2, <2>3
<1>7. CASE Testing(k)
  <2>1. /\ Len(stack) = k + 2 /\ stack[k + 1].at = "termDefault" /\ BaseHolds(k) /\ ~Aborted(k)
    BY <1>7 DEF Testing
  <2>2. CASE status \in {"RELAYING", "SETUP_ABORT"}
    <3>1. stack[k].at \in IdlePoints \cup RestPoints \cup (StartPoints \ {"setup"}) \cup StopPoints
      <4>1. CASE k = 1
        BY <1>5, <4>1 DEF Base, IdlePoints, RestPoints, MainPoints
      <4>2. CASE k = 2
        BY <1>5, <4>2 DEF Base, IdlePoints, RestPoints
      <4>3. CASE k = 3
        BY <1>5, <4>3 DEF Base, IdlePoints, RestPoints
      <4> QED
        BY <4>1, <4>2, <4>3
    <3>2. stack[k].at \in RestPoints \cup {"test", "stopping"}
      BY <2>1, <2>2, <3>1 DEF BaseHolds, Holds, Aborted, LateStop
    <3>3. StopFrame
      BY <1>5, <2>1, <3>2 DEF StopFrame, Under
    <3> QED
      BY <1>4, <2>2, <3>3
  <2>3. CASE status \notin {"RELAYING", "SETUP_ABORT"}
    <3>1. stack' = Return
      BY <1>1, <2>3
    <3>2. /\ StackTypes' /\ Len(stack') = k + 1 /\ stack'[k + 1] = stack[k + 1]
          /\ \A i \in 1 .. k : stack'[i] = stack[i]
      BY <1>0, <2>1, <3>1, ReturnFacts DEF StackTypes
    <3>3. Base(k)' /\ stack'[k] = stack[k]
      BY <1>2, <1>5, <3>2, SameBase
    <3>4. BaseHolds(k)'
      <4>1. CASE status = "SETUP"
        <5>1. status' = "SETUP_ABORT" /\ Holds(stack[k].at, stack[k].r)
          BY <1>1, <2>1, <4>1 DEF BaseHolds
        <5>2. ASSUME NEW p, NEW n, Holds(p, n) PROVE Holds(p, n)'
          <6>1. /\ NoThreads' = NoThreads /\ EP0Made' = EP0Made /\ Clean' = Clean
                /\ NoObjects' = NoObjects /\ NoInjectors' = NoInjectors
                /\ Told(n)' = Told(n) /\ Told(NumRelayers + 1)' = Told(NumRelayers + 1)
            BY <1>2 DEF NoThreads, EP0Made, Clean, NoObjects, NoInjectors, Told, Running
          <6> QED
            BY <1>2, <4>1, <5>1, <5>2, <6>1 DEF Holds, Running
        <5> QED
          BY <3>3, <5>1, <5>2 DEF BaseHolds
      <4>2. CASE status # "SETUP"
        <5>1. UNCHANGED sessionVars
          BY <1>1, <1>2, <4>2 DEF sessionVars
        <5> QED
          BY <2>1, <3>3, <5>1, SameHolds DEF BaseHolds
      <4> QED
        BY <4>1, <4>2
    <3>5. Leaving(k)'
      BY <2>1, <3>2, <3>4 DEF Leaving, At, Top
    <3> QED
      BY <1>3, <3>2, <3>3, <3>5 DEF Good, Shaped
  <2> QED
    BY <2>2, <2>3
<1> QED
  BY <1>5, <1>6, <1>7

(* The status, the injectors and the relayers are told, in this order.     *)
LEMMA StopTellKeeps ==
    ASSUME Inv, StopStopping \/ StopSignalInjectors \/ StopSignal \/ StopJoinInjectors PROVE Good'
<1>0. StackTypes /\ Shaped /\ Reliance /\ StartedOnce /\ Types /\ RelayerFlags
  BY DEF Inv, Good
<1> USE DEF At, relayerVars, injectorVars, pluginVars, linkVars, signalVars
<1>1. Top.at \in {"stopping", "signalInjectors", "signal", "joinInjectors"}
  BY DEF StopStopping, StopSignalInjectors, StopSignal, StopJoinInjectors
<1>2. Top.at \in StopPoints \ {"test"} /\ Top.at \in StopPoints
  BY <1>1 DEF StopPoints
<1>3. TopHolds /\ proxies = "live" /\ StopFrame
  BY <1>0, <1>2, StopState, BeyondTest
<1>4. /\ UNCHANGED <<proxies, injectorCount, ncfg>> /\ UNCHANGED <<wcfg, thr, obj>>
      /\ UNCHANGED <<device, devConnected, hostConnected, claimed>>
  BY DEF StopStopping, StopSignalInjectors, StopSignal, StopJoinInjectors
<1>5. \A i \in Injectors : injThr'[i] = injThr[i] \/ injThr'[i] = "none"
  BY DEF StopStopping, StopSignalInjectors, StopSignal, StopJoinInjectors
<1>6. Reliance' /\ StartedOnce'
  BY <1>0, <1>4, <1>5 DEF Reliance, StartedOnce, Running
<1>p. /\ \A q \in {"signalInjectors", "signal", "joinInjectors", "join"} : q \in StopPoints \ {"test"}
      /\ 0 \in Points0 /\ 1 \in Points0 /\ 1 \in Relayers
  BY Numbers DEF StopPoints, Points0
<1> USE DEF IdlePoints, RestPoints, StartPoints, LateStop, StopPoints
<1>7. CASE StopStopping
  <2>1. status' = "STOPPING" /\ (~raced' => wcfg' = 0) /\ stack' = Goto("signalInjectors", 0)
    BY <1>4, <1>7 DEF StopStopping
  <2>2. Holds("signalInjectors", 0)'
    BY <2>1 DEF Holds
  <2> QED
    BY <1>0, <1>2, <1>3, <1>4, <1>6, <1>p, <2>1, <2>2, StopGoto
<1>8. CASE StopSignalInjectors
  <2>1. /\ status' = "STOPPING" /\ (~raced' => wcfg' = 0) /\ stack' = Goto("signal", 1)
    BY <1>3, <1>4, <1>8 DEF StopSignalInjectors, TopHolds, Holds
  <2>2. Told(1)'
    BY Numbers DEF Told
  <2>3. Holds("signal", 1)'
    BY <1>p, <2>1, <2>2 DEF Holds
  <2> QED
    BY <1>0, <1>2, <1>3, <1>4, <1>6, <1>p, <2>1, <2>3, StopGoto
<1>9. CASE StopSignal
  <2>1. /\ status' = "STOPPING" /\ (~raced => wcfg' = 0) /\ Top.r \in Relayers
        /\ (~raced => Told(Top.r)) /\ raced' = raced
    BY <1>3, <1>4, <1>9 DEF StopSignal, TopHolds, Holds
  <2>2. PICK n : n = Top.r
    OBVIOUS
  <2>3. flag' = [flag EXCEPT ![n] = @ \/ thr[n] # "none"]
    BY <1>9, <2>2 DEF StopSignal
  <2>4. n \in 1 .. NumRelayers /\ n + 1 \in Points0 /\ NumRelayers \in Nat
    BY <2>1, <2>2, Numbers DEF Points0
  <2>5. ASSUME ~raced, NEW q \in Relayers, q < n + 1, Running(q)' PROVE flag'[q]
    <3>1. Running(q)
      BY <1>4, <2>5 DEF Running
    <3>2. CASE q = n
      <4>1. thr[n] # "none"
        BY <3>1, <3>2 DEF Running
      <4>2. flag'[n] = (flag[n] \/ thr[n] # "none")
        BY <1>0, <2>3, <2>5, <3>2 DEF RelayerFlags
      <4> QED
        BY <3>2, <4>1, <4>2
    <3>3. CASE q # n
      <4>1. q < n
        BY <2>4, <2>5, <3>3, Numbers
      <4>2. flag[q]
        BY <2>1, <2>2, <2>5, <3>1, <4>1 DEF Told
      <4>3. flag'[q] = flag[q]
        BY <1>0, <2>3, <2>5, <3>3 DEF RelayerFlags
      <4> QED
        BY <4>2, <4>3
    <3> QED
      BY <3>2, <3>3
  <2>6. ~raced' => Told(n + 1)'
    BY <2>1, <2>5 DEF Told
  <2>7. CASE n < NumRelayers
    <3>1. stack' = Goto("signal", n + 1)
      BY <1>9, <2>2, <2>7 DEF StopSignal
    <3>2. PICK m \in Points0 : m = n + 1
      BY <2>4
    <3>3. m \in Relayers /\ (~raced' => Told(m)')
      BY <2>4, <2>6, <2>7, <3>2, Numbers
    <3>4. Holds("signal", m)'
      BY <2>1, <3>3 DEF Holds
    <3> QED
      BY <1>0, <1>2, <1>3, <1>4, <1>6, <1>p, <3>1, <3>2, <3>4, StopGoto
  <2>8. CASE ~(n < NumRelayers)
    <3>1. stack' = Goto("joinInjectors", 0)
      BY <1>9, <2>2, <2>8 DEF StopSignal
    <3>2. n = NumRelayers
      BY <2>4, <2>8
    <3>3. Holds("joinInjectors", 0)'
      BY <2>1, <2>6, <3>2 DEF Holds
    <3> QED
      BY <1>0, <1>2, <1>3, <1>4, <1>6, <1>p, <3>1, <3>3, StopGoto
  <2> QED
    BY <2>7, <2>8
<1>10. CASE StopJoinInjectors
  <2>1. /\ status' = "STOPPING" /\ (~raced' => wcfg' = 0) /\ stack' = Goto("join", 1)
        /\ (~raced' => Told(NumRelayers + 1)) /\ UNCHANGED flag
        /\ injThr' = [i \in Injectors |-> "none"]
    BY <1>3, <1>4, <1>10 DEF StopJoinInjectors, TopHolds, Holds
  <2>2. ~raced' => Told(NumRelayers + 1)'
    BY <1>4, <2>1 DEF Told, Running
  <2>3. NoInjectors' /\ \A q \in Relayers : ~(q < 1)
    BY <2>1, Numbers DEF NoInjectors
  <2>4. Holds("join", 1)'
    BY <1>p, <2>1, <2>2, <2>3 DEF Holds
  <2> QED
    BY <1>0, <1>2, <1>3, <1>4, <1>6, <1>p, <2>1, <2>4, StopGoto
<1> QED
  BY <1>7, <1>8, <1>9, <1>10

(* The next relayer is joined and deleted.                                 *)
LEMMA StopJoinKeeps == ASSUME Inv, StopJoin PROVE Good'
<1>0. StackTypes /\ Shaped /\ Reliance /\ StartedOnce /\ Types /\ RelayerFlags
  BY DEF Inv, Good
<1> USE DEF At, relayerVars, injectorVars, pluginVars, linkVars, signalVars
<1>1. Top.at = "join" /\ Top.at \in StopPoints \ {"test"} /\ Top.at \in StopPoints
  BY DEF StopJoin, StopPoints
<1>2. TopHolds /\ StopFrame
  BY <1>0, <1>1, StopState, BeyondTest
<1>3. /\ UNCHANGED <<proxies, injectorCount, ncfg>> /\ UNCHANGED <<wcfg, flag, injThr, raced, status>>
      /\ UNCHANGED <<device, devConnected, hostConnected, claimed>>
  BY DEF StopJoin
<1>4. /\ status = "STOPPING" /\ (~raced => wcfg = 0) /\ Top.r \in Relayers /\ NoInjectors
      /\ (~raced => Told(NumRelayers + 1))
      /\ \A q \in Relayers : q < Top.r => thr[q] = "none" /\ ~obj[q]
  BY <1>1, <1>2 DEF TopHolds, Holds, LateStop, StopPoints
<1>5. PICK n \in Relayers : n = Top.r
  BY <1>4
<1>6. /\ \A q \in Relayers : q # n => thr'[q] = thr[q]
      /\ thr'[n] = "none" /\ ~Running(n)
  <2>1. CASE obj[n]
    BY <1>0, <1>5, <2>1 DEF StopJoin, Types
  <2>2. CASE ~obj[n]
    BY <1>0, <1>5, <2>2 DEF StopJoin, Reliance, Running
  <2> QED
    BY <2>1, <2>2
<1>7. ~obj'[n] /\ \A q \in Relayers : q # n => (obj'[q] <=> obj[q])
  <2>1. CASE obj[n]
    BY <1>0, <1>5, <2>1 DEF StopJoin, RelayerFlags
  <2>2. CASE ~obj[n]
    BY <1>0, <1>5, <2>2 DEF StopJoin
  <2> QED
    BY <2>1, <2>2
<1>8. wcfg # 0 => n = EP0Reader
  <2>1. SUFFICES ASSUME wcfg # 0 PROVE n = EP0Reader
    OBVIOUS
  <2>2. Running(EP0Writer)
    BY <1>0, <2>1 DEF Reliance
  <2>3. ~(EP0Writer < n) /\ n # EP0Writer
    BY <1>4, <1>5, <1>6, <2>2, Numbers DEF Running
  <2> QED
    BY <2>3, Numbers
<1>9. Reliance'
  <2>1. \A r \in Relayers : thr'[r] # "none" =>
           obj'[r] /\ device' /\ devConnected' /\ hostConnected' /\ proxies' = "live"
    BY <1>0, <1>3, <1>6, <1>7 DEF Reliance
  <2>2. wcfg' # 0 => Running(EP0Writer)'
    BY <1>0, <1>3, <1>6, <1>8, Numbers DEF Reliance, Running
  <2>3. wcfg' > EP0Writer => \A r \in Relayers : r > EP0Writer => obj'[r]
    <3>1. SUFFICES ASSUME wcfg > EP0Writer, NEW r \in Relayers, r > EP0Writer PROVE obj'[r]
      BY <1>3
    <3>2. wcfg # 0 /\ r # EP0Reader /\ obj[r]
      BY <1>0, <3>1, Numbers DEF Reliance
    <3> QED
      BY <1>7, <1>8, <3>2
  <2>4. (\A i \in Injectors : injThr'[i] # "none" => i <= injectorCount') /\ (claimed' => device')
    BY <1>0, <1>3 DEF Reliance
  <2> QED
    BY <2>1, <2>2, <2>3, <2>4 DEF Reliance
<1>10. StartedOnce'
  BY <1>0, <1>3, <1>6 DEF StartedOnce
<1>11. ~raced' => wcfg' = 0 /\ Told(NumRelayers + 1)'
  BY <1>3, <1>4, <1>6 DEF Told, Running
<1>12. NoInjectors' /\ \A q \in Relayers : q < n + 1 => thr'[q] = "none" /\ ~obj'[q]
  <2>1. NoInjectors'
    BY <1>3, <1>4 DEF NoInjectors
  <2>2. ASSUME NEW q \in Relayers, q < n + 1 PROVE q = n \/ q < n
    BY <2>2, Numbers
  <2> QED
    BY <1>4, <1>5, <1>6, <1>7, <2>1, <2>2
<1>p. "join" \in StopPoints \ {"test"} /\ "disconnect" \in StopPoints \ {"test"} /\ 0 \in Points0
  BY Numbers DEF StopPoints, Points0
<1>13. CASE n < NumRelayers
  <2>1. stack' = Goto("join", n + 1)
    BY <1>5, <1>13 DEF StopJoin, AfterJoin
  <2>2. n + 1 \in Points0 /\ n + 1 \in Relayers
    BY <1>13, Numbers DEF Points0
  <2>3. PICK m \in Points0 : m = n + 1
    BY <2>2
  <2>4. m \in Relayers /\ \A q \in Relayers : q < m => thr'[q] = "none" /\ ~obj'[q]
    BY <1>12, <2>2, <2>3
  <2>5. Holds("join", m)'
    BY <1>3, <1>4, <1>11, <1>12, <2>4
    DEF Holds, IdlePoints, RestPoints, StartPoints, LateStop, StopPoints
  <2> QED
    BY <1>0, <1>1, <1>2, <1>3, <1>9, <1>10, <1>p, <2>1, <2>3, <2>5, StopGoto
<1>14. CASE ~(n < NumRelayers)
  <2>1. stack' = Goto("disconnect", 0)
    BY <1>5, <1>14 DEF StopJoin, AfterJoin
  <2>2. \A q \in Relayers : q < n + 1
    BY <1>14, Numbers
  <2>3. NoThreads' /\ NoObjects'
    BY <1>12, <2>2 DEF NoThreads, NoObjects
  <2>4. Holds("disconnect", 0)'
    BY <1>3, <1>4, <1>12, <2>3
    DEF Holds, IdlePoints, RestPoints, StartPoints, LateStop, StopPoints
  <2> QED
    BY <1>0, <1>1, <1>2, <1>3, <1>9, <1>10, <1>p, <2>1, <2>4, StopGoto
<1> QED
  BY <1>13, <1>14

(* Nothing is left.                                                        *)
LEMMA StopEndKeeps == ASSUME Inv, StopDisconnect \/ StopIdle PROVE Good'
<1>0. StackTypes /\ Shaped /\ Reliance /\ StartedOnce
  BY DEF Inv, Good
<1> USE DEF At, relayerVars, injectorVars, pluginVars, linkVars, signalVars
<1>1. /\ Top.at \in {"disconnect", "idle"} /\ Top.at \in StopPoints \ {"test"}
      /\ Top.at \in StopPoints
  BY DEF StopDisconnect, StopIdle, StopPoints
<1>2. TopHolds /\ proxies = "live" /\ StopFrame
  BY <1>0, <1>1, StopState, BeyondTest
<1>3. UNCHANGED <<proxies, injectorCount, ncfg>> /\ UNCHANGED <<wcfg, thr, obj, injThr>>
  BY <1>2 DEF StopDisconnect, StopIdle
<1>4. NoThreads /\ NoObjects /\ NoInjectors
  BY <1>1, <1>2 DEF TopHolds, Holds, Clean
<1>5. NoThreads' /\ NoObjects' /\ NoInjectors'
  BY <1>3, <1>4 DEF NoThreads, NoObjects, NoInjectors
<1>6. CASE StopDisconnect
  <2>1. /\ claimed' = (claimed /\ ~device) /\ hostConnected' = FALSE /\ devConnected' = FALSE
        /\ device' = FALSE /\ stack' = Goto("idle", 0) /\ status' = status
    BY <1>2, <1>6 DEF StopDisconnect
  <2>2. ~claimed'
    BY <1>0, <2>1 DEF Reliance
  <2>3. Clean'
    BY <1>5, <2>1, <2>2 DEF Clean
  <2>4. status = "STOPPING"
    BY <1>1, <1>2 DEF TopHolds, Holds, LateStop, StopPoints
  <2>5. Holds("idle", 0)'
    BY <2>1, <2>3, <2>4 DEF Holds, IdlePoints, RestPoints, StartPoints, LateStop, StopPoints
  <2>6. Reliance' /\ StartedOnce'
    BY <1>0, <1>3, <1>4, <2>2, NoThreadsSession DEF NoInjectors, Reliance
  <2>7. "idle" \in StopPoints \ {"test"} /\ 0 \in Points0
    BY Numbers DEF StopPoints, Points0
  <2> QED
    BY <1>0, <1>1, <1>2, <1>3, <2>1, <2>5, <2>6, <2>7, StopGoto
<1>7. CASE StopIdle
  <2>1. /\ status' = "IDLE" /\ stack' = Return
        /\ UNCHANGED <<device, devConnected, hostConnected, claimed>>
    BY <1>7 DEF StopIdle
  <2>2. Clean
    BY <1>2, <1>7 DEF StopIdle, TopHolds, Holds
  <2>3. Clean'
    BY <1>5, <2>1, <2>2 DEF Clean
  <2>4. Reliance' /\ StartedOnce'
    BY <1>0, <1>3, <2>2, <2>3, CleanReliance
  <2> QED
    BY <1>0, <1>1, <1>2, <1>3, <2>1, <2>3, <2>4, StopReturn
<1> QED
  BY <1>6, <1>7

-----------------------------------------------------------------------------
(* The relayer and injector threads *)

(* A thread moves while the main thread stays where it is.                 *)
LEMMA SameStack ==
    ASSUME Good, UNCHANGED <<stack, status, proxies, injectorCount, dflt>>, Reliance', StartedOnce',
           \A p, n : Holds(p, n) => Holds(p, n)'
    PROVE  Good'
<1>1. UNCHANGED stack /\ UNCHANGED status /\ UNCHANGED <<proxies, injectorCount>> /\ UNCHANGED dflt
  OBVIOUS
<1>2. StackTypes'
  BY <1>1 DEF Good, StackTypes
<1>3. CASE OverNow
  BY <1>1, <1>2, <1>3 DEF Good, Shaped, OverNow, At, Top
<1>4. ASSUME NEW k \in 1 .. 3, Base(k),
             NoHandler(k) \/ Entered(k) \/ Leaving(k) \/ Testing(k) \/ Inside(k)
      PROVE  Shaped'
  <2>1. Base(k)'
    BY <1>1, <1>4, SameBase
  <2>2. (BaseHolds(k) => BaseHolds(k)') /\ (TopHolds => TopHolds')
    BY <1>1 DEF BaseHolds, TopHolds, Top
  <2>3. Aborted(k)' = Aborted(k) /\ Under(k)' = Under(k) /\ Top' = Top
    BY <1>1 DEF Aborted, Under, Top
  <2>4. (NoHandler(k) \/ Entered(k) \/ Leaving(k) \/ Testing(k) \/ Inside(k))'
    BY <1>1, <1>4, <2>2, <2>3 DEF NoHandler, Entered, Leaving, Testing, Inside, At
  <2> QED
    BY <2>1, <2>4 DEF Shaped
<1> QED
  BY <1>2, <1>3, <1>4 DEF Good, Shaped

(* The loop of a relayer ends.                                             *)
LEMMA RelayerExitKeeps == ASSUME Inv, NEW r \in Relayers, RelayerExit(r) PROVE Good'
<1>0. Good /\ Reliance /\ StartedOnce /\ Types /\ RelayerFlags
  BY DEF Inv, Good
<1>1. /\ Running(r) /\ flag[r] /\ (r = EP0Writer => wcfg = 0)
      /\ thr' = [thr EXCEPT ![r] = "exited"] /\ flag' = [flag EXCEPT ![r] = FALSE]
  BY DEF RelayerExit
<1>2. /\ UNCHANGED <<stack, status, proxies, injectorCount, dflt>> /\ UNCHANGED <<wcfg, obj, injThr>>
      /\ UNCHANGED raced /\ UNCHANGED <<device, devConnected, hostConnected, claimed>>
      /\ UNCHANGED ncfg
  BY DEF RelayerExit, injectorVars, linkVars, pluginVars, signalVars
<1>3. /\ thr'[r] = "exited" /\ ~flag'[r]
      /\ \A q \in Relayers : q # r => thr'[q] = thr[q] /\ (flag'[q] <=> flag[q])
  BY <1>0, <1>1 DEF Types, RelayerFlags
<1>4. Reliance'
  <2>1. \A q \in Relayers : thr'[q] # "none" => thr[q] # "none"
    BY <1>1, <1>3 DEF Running
  <2>2. wcfg' # 0 => Running(EP0Writer)'
    BY <1>0, <1>1, <1>2, <1>3, Numbers DEF Reliance, Running
  <2> QED
    BY <1>0, <1>2, <2>1, <2>2 DEF Reliance
<1>5. StartedOnce'
  <2>1. \A q \in Relayers : thr[q] = "none" => thr'[q] = "none"
    BY <1>1, <1>3 DEF Running
  <2> QED
    BY <1>0, <1>2, <2>1 DEF StartedOnce
<1>6. ASSUME NEW p, NEW n, Holds(p, n) PROVE Holds(p, n)'
  <2>1. ~NoThreads /\ ~Clean
    BY <1>1 DEF NoThreads, Clean, Running
  <2>2. EP0Made => EP0Made' /\ r # EP0Reader /\ r # EP0Writer
    BY <1>1, <1>2, <1>3, Numbers DEF EP0Made
  <2>3. \A q \in {EP0Reader, EP0Writer} : EP0Made /\ Running(q) => Running(q)'
    BY <1>3, <2>2, Numbers DEF Running
  <2>4. Up => Up'
    BY <2>2, <2>3 DEF Up
  <2>5. (Told(n) => Told(n)') /\ (Told(NumRelayers + 1) => Told(NumRelayers + 1)')
    BY <1>3 DEF Told, Running
  <2>6. NoInjectors' = NoInjectors
    BY <1>2 DEF NoInjectors
  <2>7. \A q \in Relayers : thr[q] = "none" => thr'[q] = "none"
    BY <1>1, <1>3 DEF Running
  <2>8. p = "writerThread" => EP0Made /\ Running(EP0Reader)
    BY <1>6 DEF Holds
  <2>9. p \in {"check", "relaying"} => EP0Made /\ Running(EP0Reader) /\ Running(EP0Writer)
    BY <1>6 DEF Holds
  <2> QED
    BY <1>2, <1>6, <2>1, <2>2, <2>3, <2>4, <2>5, <2>6, <2>7, <2>8, <2>9 DEF Holds
<1> QED
  BY <1>0, <1>2, <1>4, <1>5, <1>6, SameStack

(* That of an injector ends.                                               *)
LEMMA InjectorExitKeeps == ASSUME Inv, NEW i \in Injectors, InjectorExit(i) PROVE Good'
<1>0. Good /\ Reliance /\ StartedOnce /\ Types
  BY DEF Inv, Good
<1>1. injThr[i] = "running" /\ injThr' = [injThr EXCEPT ![i] = "exited"]
  BY DEF InjectorExit
<1>2. /\ UNCHANGED <<stack, status, proxies, injectorCount, dflt>> /\ UNCHANGED <<wcfg, ncfg, obj, thr>>
      /\ UNCHANGED <<flag, raced>> /\ UNCHANGED <<device, devConnected, hostConnected, claimed>>
  BY DEF InjectorExit, relayerVars, linkVars, pluginVars, signalVars
<1>3. \A j \in Injectors : injThr'[j] # "none" => injThr[j] # "none"
  BY <1>0, <1>1 DEF Types
<1>4. Reliance' /\ StartedOnce'
  BY <1>0, <1>2, <1>3 DEF Reliance, StartedOnce, Running
<1>5. ASSUME NEW p, NEW n, Holds(p, n) PROVE Holds(p, n)'
  <2>1. ~NoInjectors /\ ~Clean
    BY <1>1 DEF NoInjectors, Clean
  <2>2. /\ NoThreads' = NoThreads /\ EP0Made' = EP0Made /\ Up' = Up
        /\ Told(n)' = Told(n) /\ Told(NumRelayers + 1)' = Told(NumRelayers + 1)
    BY <1>2 DEF NoThreads, EP0Made, Up, Told, Running
  <2> QED
    BY <1>2, <1>5, <2>1, <2>2 DEF Holds, Running
<1> QED
  BY <1>0, <1>2, <1>4, <1>5, SameStack

(* Neither EP0 relayer is touched.                                         *)
EP0Same ==
    \A q \in {EP0Reader, EP0Writer} : /\ thr'[q] = thr[q] /\ (obj'[q] <=> obj[q])
                                      /\ flag'[q] <=> flag[q]

(* What setConfig() may do in the EP0 writer while the main thread is at   *)
(* any point.                                                              *)
LEMMA WriterHolds ==
    ASSUME Reliance, Running(EP0Writer), NEW p, NEW n, Holds(p, n),
           UNCHANGED <<status, injThr, device, devConnected, hostConnected>>,
           EP0Same,
           p \in {"signalInjectors", "signal", "joinInjectors", "join"} => raced'
    PROVE  Holds(p, n)'
<1>1. ~NoThreads /\ ~Clean
  BY Numbers DEF NoThreads, Clean, Running
<1>2. /\ EP0Made' = EP0Made /\ Up' = Up /\ Running(EP0Reader)' = Running(EP0Reader)
      /\ Running(EP0Writer)'
  BY DEF EP0Same, EP0Made, Up, Running
<1>3. NoInjectors' = NoInjectors
  BY DEF NoInjectors
<1>4. p # "writerThread"
  BY Numbers DEF Holds, Running
<1>5. p = "join" => \A q \in Relayers : q < n => thr'[q] = "none" /\ ~obj'[q]
  <2>1. SUFFICES ASSUME p = "join", NEW q \in Relayers, q < n PROVE thr'[q] = "none" /\ ~obj'[q]
    OBVIOUS
  <2>2. /\ n \in Relayers
        /\ \A m \in Relayers : m < n => thr[m] = "none" /\ ~obj[m]
    BY <2>1 DEF Holds
  <2>3. ~(EP0Writer < n)
    BY <2>2, Numbers DEF Running
  <2>4. q = EP0Reader
    BY <2>1, <2>2, <2>3, Numbers
  <2> QED
    BY <2>1, <2>2, <2>4 DEF EP0Same
<1> QED
  BY <1>1, <1>2, <1>3, <1>4, <1>5 DEF Holds

(* The EP0 writer takes a SET_CONFIGURATION.                               *)
LEMMA WriterTakeKeeps == ASSUME Inv, WriterTake PROVE Good'
<1>0. Good /\ Reliance /\ StartedOnce /\ Types
  BY DEF Inv, Good
<1>1. /\ Running(EP0Writer) /\ wcfg = 0 /\ ncfg < MaxSetConfig /\ wcfg' = 1 /\ ncfg' = ncfg + 1
      /\ raced' = (raced \/ status = "STOPPING")
  BY DEF WriterTake
<1>2. /\ UNCHANGED <<stack, status, proxies, injectorCount, dflt>> /\ UNCHANGED <<obj, thr, flag>>
      /\ UNCHANGED <<injThr, device, devConnected, hostConnected>> /\ UNCHANGED claimed
  BY DEF WriterTake, injectorVars, linkVars, pluginVars, signalVars
<1>3. Reliance'
  BY <1>0, <1>1, <1>2, Numbers DEF Reliance, Running
<1>4. StartedOnce'
  BY <1>0, <1>1, <1>2, ManagerAssumption DEF StartedOnce, Types
<1>5. ASSUME NEW p, NEW n, Holds(p, n) PROVE Holds(p, n)'
  <2>1. p \in {"signalInjectors", "signal", "joinInjectors", "join"} => raced'
    BY <1>1, <1>5 DEF Holds, LateStop, StopPoints
  <2>2. EP0Same
    BY <1>2 DEF EP0Same
  <2> QED
    BY <1>0, <1>1, <1>2, <1>5, <2>1, <2>2, WriterHolds
<1> QED
  BY <1>0, <1>2, <1>3, <1>4, <1>5, SameStack

(* It makes the data relayers: the device model and the proxies exist.     *)
LEMMA WriterSetConfigKeeps == ASSUME Inv, WriterSetConfig PROVE Good'
<1>0. Good /\ Reliance /\ StartedOnce /\ Types /\ RelayerFlags
  BY DEF Inv, Good
<1>1. wcfg = 1 /\ Running(EP0Writer)
  BY <1>0 DEF WriterSetConfig, Reliance
<1>2. device /\ devConnected /\ hostConnected /\ proxies = "live"
  BY <1>0, <1>1, Numbers DEF Reliance, Running
<1>3. /\ obj' = [r \in Relayers |-> obj[r] \/ r > EP0Writer]
      /\ flag' = [r \in Relayers |-> flag[r] /\ r <= EP0Writer]
      /\ claimed' = TRUE /\ wcfg' = IF NumData = 0 THEN 0 ELSE EP0Writer + 1
      /\ UNCHANGED stack
  BY <1>2 DEF WriterSetConfig
<1>4. /\ UNCHANGED <<status, proxies, injectorCount, dflt>> /\ UNCHANGED <<thr, ncfg>>
      /\ UNCHANGED <<injThr, device, devConnected, hostConnected>> /\ UNCHANGED raced
  BY DEF WriterSetConfig, injectorVars, pluginVars, signalVars
<1>5. \A r \in Relayers : (obj'[r] <=> obj[r] \/ r > EP0Writer) /\ (flag'[r] <=> flag[r] /\ r <= EP0Writer)
  BY <1>3
<1>6. Reliance'
  <2>1. \A r \in Relayers : thr'[r] # "none" =>
           obj'[r] /\ device' /\ devConnected' /\ hostConnected' /\ proxies' = "live"
    BY <1>0, <1>2, <1>4, <1>5 DEF Reliance
  <2>2. Running(EP0Writer)' /\ \A r \in Relayers : r > EP0Writer => obj'[r]
    BY <1>1, <1>4, <1>5 DEF Running
  <2> QED
    BY <1>0, <1>2, <1>4, <2>1, <2>2 DEF Reliance
<1>7. StartedOnce'
  <2>1. wcfg' = 0 \/ wcfg' = EP0Writer + 1
    BY <1>3
  <2> QED
    BY <1>0, <1>1, <1>4, <2>1, Numbers DEF StartedOnce
<1>8. ASSUME NEW p, NEW n, Holds(p, n) PROVE Holds(p, n)'
  <2>1. p \in {"signalInjectors", "signal", "joinInjectors", "join"} => raced'
    BY <1>1, <1>4, <1>8 DEF Holds
  <2>2. EP0Same
    BY <1>4, <1>5, Numbers DEF EP0Same
  <2> QED
    BY <1>0, <1>1, <1>4, <1>8, <2>1, <2>2, WriterHolds
<1> QED
  BY <1>0, <1>3, <1>4, <1>6, <1>7, <1>8, SameStack

(* It starts the next data relayer, whose thread must not be joinable.     *)
LEMMA WriterStartThreadKeeps == ASSUME Inv, WriterStartThread PROVE Good'
<1>0. Good /\ Reliance /\ StartedOnce /\ Types /\ StackTypes
  BY DEF Inv, Good
<1>1. /\ wcfg > EP0Writer /\ AssignThread(wcfg, stack)
      /\ wcfg' = IF wcfg = NumRelayers THEN 0 ELSE wcfg + 1
  BY DEF WriterStartThread
<1>2. /\ UNCHANGED <<status, proxies, injectorCount, dflt>> /\ UNCHANGED <<obj, flag>>
      /\ UNCHANGED <<injThr, device, devConnected, hostConnected>> /\ UNCHANGED <<claimed, raced, ncfg>>
  BY DEF WriterStartThread, injectorVars, linkVars, pluginVars, signalVars
<1>3. wcfg \in Relayers /\ wcfg # 0 /\ wcfg \in Nat /\ wcfg # EP0Reader /\ wcfg # EP0Writer
  BY <1>0, <1>1, Numbers DEF Types
<1>4. Running(EP0Writer) /\ \A r \in Relayers : r > EP0Writer => obj[r]
  BY <1>0, <1>1, <1>3 DEF Reliance
<1>5. device /\ devConnected /\ hostConnected /\ proxies = "live" /\ obj[wcfg]
  BY <1>0, <1>1, <1>3, <1>4, Numbers DEF Reliance, Running
<1>6. CASE thr[wcfg] # "none"
  <2>1. stack' = Append(stack, Frame("terminated", 0)) /\ UNCHANGED thr
    BY <1>1, <1>5, <1>6 DEF AssignThread, Terminate
  <2>2. MaxSetConfig > 1
    BY <1>0, <1>1, <1>3, <1>6, ManagerAssumption DEF StartedOnce
  <2>3. Reliance'
    BY <1>0, <1>2, <1>4, <2>1 DEF Reliance, Running
  <2>4. StartedOnce'
    BY <2>2, ManagerAssumption DEF StartedOnce
  <2> QED
    BY <1>0, <2>1, <2>2, <2>3, <2>4, PushOver DEF Good
<1>7. CASE thr[wcfg] = "none"
  <2>1. UNCHANGED stack /\ thr' = [thr EXCEPT ![wcfg] = "running"]
    BY <1>1, <1>5, <1>7 DEF AssignThread
  <2>2. thr'[wcfg] = "running" /\ \A r \in Relayers : r # wcfg => thr'[r] = thr[r]
    BY <1>0, <1>3, <2>1 DEF Types
  <2>3. Reliance'
    <3>1. \A r \in Relayers : thr'[r] # "none" =>
             obj'[r] /\ device' /\ devConnected' /\ hostConnected' /\ proxies' = "live"
      BY <1>0, <1>2, <1>5, <2>2 DEF Reliance
    <3>2. Running(EP0Writer)' /\ \A r \in Relayers : r > EP0Writer => obj'[r]
      BY <1>2, <1>3, <1>4, <2>2, Numbers DEF Running
    <3> QED
      BY <1>0, <1>2, <3>1, <3>2 DEF Reliance
  <2>4. StartedOnce'
    <3>1. SUFFICES ASSUME MaxSetConfig <= 1
                   PROVE  /\ ncfg' # 0
                          /\ wcfg' # 0 => \A r \in Relayers : r > EP0Writer /\ r >= wcfg' => thr'[r] = "none"
      BY DEF StartedOnce
    <3>2. ncfg' # 0
      BY <1>0, <1>2, <1>3, <3>1 DEF StartedOnce
    <3>3. ASSUME wcfg' # 0, NEW r \in Relayers, r > EP0Writer, r >= wcfg' PROVE thr'[r] = "none"
      <4>1. wcfg' = wcfg + 1
        BY <1>1, <3>3
      <4>2. r >= wcfg /\ r # wcfg
        BY <1>3, <3>3, <4>1, Numbers
      <4> QED
        BY <1>0, <1>3, <2>2, <3>1, <3>3, <4>2 DEF StartedOnce
    <3> QED
      BY <3>2, <3>3
  <2>5. ASSUME NEW p, NEW n, Holds(p, n) PROVE Holds(p, n)'
    <3>1. p \in {"signalInjectors", "signal", "joinInjectors", "join"} => raced'
      BY <1>2, <1>3, <2>5 DEF Holds
    <3>2. EP0Same
      BY <1>2, <1>3, <2>2, Numbers DEF EP0Same
    <3> QED
      BY <1>0, <1>2, <1>4, <2>5, <3>1, <3>2, WriterHolds
  <2> QED
    BY <1>0, <1>2, <2>1, <2>3, <2>4, <2>5, SameStack
<1> QED
  BY <1>6, <1>7

-----------------------------------------------------------------------------
(* The types, and the theorems *)

(* Counters and states of threads.                                         *)
LEMMA NextTypes == Types /\ [Next]_vars => Types'
<1> SUFFICES ASSUME Types, [Next]_vars PROVE Types'
  OBVIOUS
<1> USE DEF relayerVars, injectorVars, pluginVars, linkVars, signalVars
<1>u. ASSUME UNCHANGED <<status, thr, injThr, proxies, filterCount, injectorCount, wcfg, ncfg, terms, hups>>
      PROVE  Types'
  BY <1>u DEF Types
<1>1. CASE MainNew \/ MainStart \/ MainPoll \/ MainStop \/ MainCleanup \/ MainDelete
  BY <1>1, Numbers DEF Types, MainNew, MainStart, MainPoll, MainStop, MainCleanup, MainDelete,
     LoadPlugins, AddFilters, AddInjectors, RemoveFilters, RemoveInjectors
<1>2. CASE MainDeleteJoin
  BY <1>2 DEF Types, MainDeleteJoin, Threads
<1>3. CASE Handler
  BY <1>3, <1>u DEF Handler, HandlerTermStop, HandlerTermDefault, HandlerHupStop, HandlerHupStart,
     HandlerHupReturn
<1>4. CASE StartSetup \/ StartConnectDevice \/ StartModel \/ SetupAborted \/ StartEndpoint
           \/ StartRelayers \/ StartApply \/ StartConnectHost \/ StartCheck \/ StartRelaying
  BY <1>4 DEF Types, StartSetup, StartConnectDevice, StartModel, SetupAborted, StartEndpoint,
     StartRelayers, StartApply, StartConnectHost, StartCheck, StartRelaying, Statuses
<1>5. CASE StartInjector
  <2>1. injThr' = injThr \/ injThr' = [injThr EXCEPT ![Top.r] = "running"]
    BY <1>5 DEF StartInjector
  <2>2. injThr' \in [Injectors -> Threads]
    BY <2>1 DEF Types, Threads
  <2> QED
    BY <1>5, <2>2 DEF Types, StartInjector
<1>6. CASE StartReaderThread \/ StartWriterThread
  <2>1. \E r \in Relayers : UNCHANGED thr \/ thr' = [thr EXCEPT ![r] = "running"]
    BY <1>6, Numbers DEF StartReaderThread, StartWriterThread, AssignThread
  <2>2. thr' \in [Relayers -> Threads]
    BY <2>1 DEF Types, Threads
  <2> QED
    BY <1>6, <2>2 DEF Types, StartReaderThread, StartWriterThread
<1>7. CASE StopTest \/ StopStopping \/ StopSignalInjectors \/ StopSignal \/ StopJoinInjectors
           \/ StopDisconnect \/ StopIdle
  BY <1>7 DEF Types, StopTest, StopStopping, StopSignalInjectors, StopSignal, StopJoinInjectors,
     StopDisconnect, StopIdle, Statuses, Threads
<1>8. CASE StopJoin
  <2>1. UNCHANGED thr \/ thr' = [thr EXCEPT ![Top.r] = "none"]
    BY <1>8 DEF StopJoin
  <2>2. thr' \in [Relayers -> Threads]
    BY <2>1 DEF Types, Threads
  <2> QED
    BY <1>8, <2>2 DEF Types, StopJoin
<1>9. CASE DeliverTerm \/ KilledByTerm \/ DeliverHup
  <2>1. /\ UNCHANGED <<status, thr, injThr, proxies, filterCount, injectorCount, wcfg, ncfg>>
        /\ terms' \in {terms, terms + 1} /\ hups' \in {hups, hups + 1}
    BY <1>9 DEF DeliverTerm, KilledByTerm, DeliverHup, relayerVars, injectorVars, linkVars
  <2> QED
    BY <2>1 DEF Types
<1>10. CASE WriterTake
  BY <1>10, Numbers DEF Types, WriterTake, EP0Writer
<1>11. CASE WriterSetConfig
  <2>1. wcfg' \in 0 .. NumRelayers
    <3>1. wcfg' = wcfg \/ wcfg' = IF NumData = 0 THEN 0 ELSE EP0Writer + 1
      BY <1>11 DEF WriterSetConfig
    <3>2. NumData # 0 => EP0Writer + 1 \in 0 .. NumRelayers
      BY ManagerAssumption DEF EP0Writer, NumRelayers
    <3> QED
      BY <3>1, <3>2, Numbers DEF Types
  <2> QED
    BY <1>11, <2>1 DEF Types, WriterSetConfig
<1>12. CASE WriterStartThread
  <2>1. wcfg' \in 0 .. NumRelayers
    BY <1>12, Numbers DEF WriterStartThread, Types
  <2>2. UNCHANGED thr \/ thr' = [thr EXCEPT ![wcfg] = "running"]
    BY <1>12 DEF WriterStartThread, AssignThread
  <2>3. thr' \in [Relayers -> Threads]
    BY <2>2 DEF Types, Threads
  <2> QED
    BY <1>12, <2>1, <2>3 DEF Types, WriterStartThread
<1>13. ASSUME NEW r \in Relayers, RelayerExit(r) PROVE Types'
  BY <1>13 DEF Types, RelayerExit, Threads
<1>14. ASSUME NEW i \in Injectors, InjectorExit(i) PROVE Types'
  BY <1>14 DEF Types, InjectorExit, Threads
<1>15. CASE UNCHANGED vars
  BY <1>15, <1>u DEF vars
<1> QED
  BY <1>1, <1>2, <1>3, <1>4, <1>5, <1>6, <1>7, <1>8, <1>9, <1>10, <1>11, <1>12, <1>13, <1>14, <1>15
  DEF Next, Main, Starting, Stopping, SetConfig

(* Which relayers exist, and which have been told to stop.                 *)
LEMMA NextRelayerFlags == RelayerFlags /\ [Next]_vars => RelayerFlags'
<1> SUFFICES ASSUME RelayerFlags, [Next]_vars PROVE RelayerFlags'
  OBVIOUS
<1> USE DEF RelayerFlags
<1>u. ASSUME UNCHANGED <<obj, flag>> PROVE RelayerFlags'
  BY <1>u
<1>1. CASE MainNew \/ MainStart \/ MainPoll \/ MainStop \/ MainCleanup
  BY <1>1, <1>u DEF MainNew, MainStart, MainPoll, MainStop, MainCleanup, relayerVars
<1>2. CASE MainDelete
  BY <1>2 DEF MainDelete
<1>3. CASE MainDeleteJoin
  BY <1>3 DEF MainDeleteJoin
<1>4. CASE Handler
  BY <1>4, <1>u DEF Handler, HandlerTermStop, HandlerTermDefault, HandlerHupStop, HandlerHupStart,
     HandlerHupReturn, relayerVars
<1>5. CASE StartSetup \/ StartConnectDevice \/ StartModel \/ SetupAborted \/ StartEndpoint
           \/ StartApply \/ StartInjector \/ StartConnectHost \/ StartReaderThread
           \/ StartWriterThread \/ StartCheck \/ StartRelaying
  BY <1>5, <1>u DEF StartSetup, StartConnectDevice, StartModel, SetupAborted, StartEndpoint,
     StartApply, StartInjector, StartConnectHost, StartReaderThread, StartWriterThread, StartCheck,
     StartRelaying, relayerVars
<1>6. CASE StartRelayers
  BY <1>6 DEF StartRelayers
<1>7. CASE StopTest \/ StopStopping \/ StopSignalInjectors \/ StopJoinInjectors
           \/ StopDisconnect \/ StopIdle
  BY <1>7, <1>u DEF StopTest, StopStopping, StopSignalInjectors, StopJoinInjectors, StopDisconnect,
     StopIdle, relayerVars
<1>8. CASE StopSignal
  BY <1>8 DEF StopSignal
<1>9. CASE StopJoin
  <2>1. UNCHANGED obj \/ obj' = [obj EXCEPT ![Top.r] = FALSE]
    BY <1>9 DEF StopJoin
  <2>2. UNCHANGED flag
    BY <1>9 DEF StopJoin
  <2> QED
    BY <2>1, <2>2
<1>10. CASE DeliverTerm \/ KilledByTerm \/ DeliverHup \/ WriterTake \/ WriterStartThread
  BY <1>10, <1>u DEF DeliverTerm, KilledByTerm, DeliverHup, WriterTake, WriterStartThread, relayerVars
<1>11. CASE WriterSetConfig
  BY <1>11 DEF WriterSetConfig
<1>12. ASSUME NEW r \in Relayers, RelayerExit(r) PROVE RelayerFlags'
  BY <1>12 DEF RelayerExit
<1>13. ASSUME NEW i \in Injectors, InjectorExit(i) PROVE RelayerFlags'
  BY <1>13, <1>u DEF InjectorExit, relayerVars
<1>14. CASE UNCHANGED vars
  BY <1>14, <1>u DEF vars, relayerVars
<1> QED
  BY <1>1, <1>2, <1>3, <1>4, <1>5, <1>6, <1>7, <1>8, <1>9, <1>10, <1>11, <1>12, <1>13, <1>14
  DEF Next, Main, Starting, Stopping, SetConfig

(* Which injectors have been told to stop.                                 *)
LEMMA NextInjectorFlags == InjectorFlags /\ [Next]_vars => InjectorFlags'
<1> SUFFICES ASSUME InjectorFlags, [Next]_vars PROVE InjectorFlags'
  OBVIOUS
<1> USE DEF InjectorFlags, injectorVars
<1>1. CASE MainDelete \/ StopSignalInjectors
  <2>1. injFlag' = [i \in Injectors |-> injFlag[i] \/ i <= injectorCount]
    BY <1>1 DEF MainDelete, StopSignalInjectors
  <2> QED
    BY <2>1
<1>2. ASSUME NEW i \in Injectors, InjectorExit(i) PROVE InjectorFlags'
  BY <1>2 DEF InjectorExit
<1>3. CASE ~(\/ MainDelete \/ StopSignalInjectors \/ \E i \in Injectors : InjectorExit(i))
  <2>1. UNCHANGED injFlag
    BY <1>3 DEF Next, Main, MainNew, MainStart, MainPoll, MainStop, MainCleanup, MainDeleteJoin,
       Handler, HandlerTermStop, HandlerTermDefault, HandlerHupStop, HandlerHupStart, HandlerHupReturn,
       Starting, StartSetup, StartConnectDevice, StartModel, SetupAborted, StartEndpoint,
       StartRelayers, StartApply, StartInjector, StartConnectHost, StartReaderThread,
       StartWriterThread, StartCheck, StartRelaying, Stopping, StopTest, StopStopping, StopSignal,
       StopJoinInjectors, StopJoin, StopDisconnect, StopIdle, DeliverTerm, KilledByTerm, DeliverHup,
       WriterTake, SetConfig, WriterSetConfig, WriterStartThread, RelayerExit, vars
  <2> QED
    BY <2>1
<1> QED
  BY <1>1, <1>2, <1>3

(* Handlers nest when a SIGTERM or SIGINT comes inside the other's.        *)
LEMMA NextNested == [Next]_vars => nested' = nested \/ nested' = (nested \/ TermHandlers # {})
<1> SUFFICES ASSUME [Next]_vars PROVE nested' = nested \/ nested' = (nested \/ TermHandlers # {})
  OBVIOUS
<1> QED
  BY DEF signalVars, Next, Main, MainNew, MainStart, MainPoll, MainStop, MainCleanup, MainDelete, MainDeleteJoin,
     Handler, HandlerTermStop, HandlerTermDefault, HandlerHupStop, HandlerHupStart, HandlerHupReturn,
     Starting, StartSetup, StartConnectDevice, StartModel, SetupAborted, StartEndpoint, StartRelayers,
     StartApply, StartInjector, StartConnectHost, StartReaderThread, StartWriterThread, StartCheck,
     StartRelaying, Stopping, StopTest, StopStopping, StopSignalInjectors, StopSignal,
     StopJoinInjectors, StopJoin, StopDisconnect, StopIdle, DeliverTerm, KilledByTerm, DeliverHup,
     WriterTake, SetConfig, WriterSetConfig, WriterStartThread, RelayerExit, InjectorExit, vars

(* The flags of the session and of the signals.                            *)
LEMMA NextFlags == Flags /\ [Next]_vars => Flags'
<1> SUFFICES ASSUME Flags, [Next]_vars PROVE Flags'
  OBVIOUS
<1>1. device' = device \/ device' = TRUE \/ device' = FALSE
  BY DEF linkVars, Next, Main, MainNew, MainStart, MainPoll, MainStop, MainCleanup, MainDelete, MainDeleteJoin,
     Handler, HandlerTermStop, HandlerTermDefault, HandlerHupStop, HandlerHupStart, HandlerHupReturn,
     Starting, StartSetup, StartConnectDevice, StartModel, SetupAborted, StartEndpoint, StartRelayers,
     StartApply, StartInjector, StartConnectHost, StartReaderThread, StartWriterThread, StartCheck,
     StartRelaying, Stopping, StopTest, StopStopping, StopSignalInjectors, StopSignal,
     StopJoinInjectors, StopJoin, StopDisconnect, StopIdle, DeliverTerm, KilledByTerm, DeliverHup,
     WriterTake, SetConfig, WriterSetConfig, WriterStartThread, RelayerExit, InjectorExit, vars
<1>2. devConnected' = devConnected \/ devConnected' = TRUE \/ devConnected' = FALSE
  BY DEF linkVars, Next, Main, MainNew, MainStart, MainPoll, MainStop, MainCleanup, MainDelete, MainDeleteJoin,
     Handler, HandlerTermStop, HandlerTermDefault, HandlerHupStop, HandlerHupStart, HandlerHupReturn,
     Starting, StartSetup, StartConnectDevice, StartModel, SetupAborted, StartEndpoint, StartRelayers,
     StartApply, StartInjector, StartConnectHost, StartReaderThread, StartWriterThread, StartCheck,
     StartRelaying, Stopping, StopTest, StopStopping, StopSignalInjectors, StopSignal,
     StopJoinInjectors, StopJoin, StopDisconnect, StopIdle, DeliverTerm, KilledByTerm, DeliverHup,
     WriterTake, SetConfig, WriterSetConfig, WriterStartThread, RelayerExit, InjectorExit, vars
<1>3. hostConnected' = hostConnected \/ hostConnected' = TRUE \/ hostConnected' = FALSE
  BY DEF linkVars, Next, Main, MainNew, MainStart, MainPoll, MainStop, MainCleanup, MainDelete, MainDeleteJoin,
     Handler, HandlerTermStop, HandlerTermDefault, HandlerHupStop, HandlerHupStart, HandlerHupReturn,
     Starting, StartSetup, StartConnectDevice, StartModel, SetupAborted, StartEndpoint, StartRelayers,
     StartApply, StartInjector, StartConnectHost, StartReaderThread, StartWriterThread, StartCheck,
     StartRelaying, Stopping, StopTest, StopStopping, StopSignalInjectors, StopSignal,
     StopJoinInjectors, StopJoin, StopDisconnect, StopIdle, DeliverTerm, KilledByTerm, DeliverHup,
     WriterTake, SetConfig, WriterSetConfig, WriterStartThread, RelayerExit, InjectorExit, vars
<1>4. claimed' = claimed \/ claimed' = TRUE \/ claimed' = (claimed /\ ~device)
  BY DEF linkVars, Next, Main, MainNew, MainStart, MainPoll, MainStop, MainCleanup, MainDelete, MainDeleteJoin,
     Handler, HandlerTermStop, HandlerTermDefault, HandlerHupStop, HandlerHupStart, HandlerHupReturn,
     Starting, StartSetup, StartConnectDevice, StartModel, SetupAborted, StartEndpoint, StartRelayers,
     StartApply, StartInjector, StartConnectHost, StartReaderThread, StartWriterThread, StartCheck,
     StartRelaying, Stopping, StopTest, StopStopping, StopSignalInjectors, StopSignal,
     StopJoinInjectors, StopJoin, StopDisconnect, StopIdle, DeliverTerm, KilledByTerm, DeliverHup,
     WriterTake, SetConfig, WriterSetConfig, WriterStartThread, RelayerExit, InjectorExit, vars
<1>5. dflt' = dflt \/ dflt' = TRUE
  BY DEF signalVars, Next, Main, MainNew, MainStart, MainPoll, MainStop, MainCleanup, MainDelete, MainDeleteJoin,
     Handler, HandlerTermStop, HandlerTermDefault, HandlerHupStop, HandlerHupStart, HandlerHupReturn,
     Starting, StartSetup, StartConnectDevice, StartModel, SetupAborted, StartEndpoint, StartRelayers,
     StartApply, StartInjector, StartConnectHost, StartReaderThread, StartWriterThread, StartCheck,
     StartRelaying, Stopping, StopTest, StopStopping, StopSignalInjectors, StopSignal,
     StopJoinInjectors, StopJoin, StopDisconnect, StopIdle, DeliverTerm, KilledByTerm, DeliverHup,
     WriterTake, SetConfig, WriterSetConfig, WriterStartThread, RelayerExit, InjectorExit, vars
<1>n. nested' = nested \/ nested' = (nested \/ TermHandlers # {})
  BY NextNested
<1>6. \/ heard' = heard \/ heard' = FALSE
      \/ heard' = (heard \/ (/\ status \in {"SETUP", "RELAYING"}
                             /\ ~At("relaying")
                             /\ ~OnStack({"hupStop", "hupStart"})))
  BY DEF signalVars, Next, Main, MainNew, MainStart, MainPoll, MainStop, MainCleanup, MainDelete, MainDeleteJoin,
     Handler, HandlerTermStop, HandlerTermDefault, HandlerHupStop, HandlerHupStart, HandlerHupReturn,
     Starting, StartSetup, StartConnectDevice, StartModel, SetupAborted, StartEndpoint, StartRelayers,
     StartApply, StartInjector, StartConnectHost, StartReaderThread, StartWriterThread, StartCheck,
     StartRelaying, Stopping, StopTest, StopStopping, StopSignalInjectors, StopSignal,
     StopJoinInjectors, StopJoin, StopDisconnect, StopIdle, DeliverTerm, KilledByTerm, DeliverHup,
     WriterTake, SetConfig, WriterSetConfig, WriterStartThread, RelayerExit, InjectorExit, vars
<1>7. \/ raced' = raced \/ raced' = FALSE \/ raced' = (raced \/ wcfg # 0)
      \/ raced' = (raced \/ status = "STOPPING")
  BY DEF Next, Main, MainNew, MainStart, MainPoll, MainStop, MainCleanup, MainDelete, MainDeleteJoin,
     Handler, HandlerTermStop, HandlerTermDefault, HandlerHupStop, HandlerHupStart, HandlerHupReturn,
     Starting, StartSetup, StartConnectDevice, StartModel, SetupAborted, StartEndpoint, StartRelayers,
     StartApply, StartInjector, StartConnectHost, StartReaderThread, StartWriterThread, StartCheck,
     StartRelaying, Stopping, StopTest, StopStopping, StopSignalInjectors, StopSignal,
     StopJoinInjectors, StopJoin, StopDisconnect, StopIdle, DeliverTerm, KilledByTerm, DeliverHup,
     WriterTake, SetConfig, WriterSetConfig, WriterStartThread, RelayerExit, InjectorExit, vars
<1>8. device' \in BOOLEAN /\ devConnected' \in BOOLEAN /\ hostConnected' \in BOOLEAN /\ claimed' \in BOOLEAN
  BY <1>1, <1>2, <1>3, <1>4, Zenon DEF Flags
<1>9. dflt' \in BOOLEAN /\ heard' \in BOOLEAN /\ nested' \in BOOLEAN
  BY <1>5, <1>6, <1>n, Zenon DEF Flags
<1>10. raced' \in BOOLEAN
  BY <1>7, Zenon DEF Flags
<1> QED
  BY <1>8, <1>9, <1>10, Zenon DEF Flags

(* The frame at the bottom of the stack is main()'s.                       *)
Bottom == stack[1].at \in MainPoints

(* A step that replaces, pushes or pops a frame keeps main()'s.            *)
LEMMA StackSteps ==
    ASSUME StackTypes, Bottom
    PROVE  /\ Top.at \notin MainPoints => Len(stack) > 1
           /\ \A p \in Points, n \in Points0 :
                 (Len(stack) > 1 \/ p \in MainPoints) /\ stack' = Goto(p, n) => StackTypes' /\ Bottom'
           /\ \A p \in Points : stack' = Append(stack, Frame(p, 0)) => StackTypes' /\ Bottom'
           /\ \A p, q \in Points :
                 (Len(stack) > 1 \/ p \in MainPoints) /\ stack' = Call(p, q) => StackTypes' /\ Bottom'
           /\ Len(stack) > 1 /\ stack' = Return => StackTypes' /\ Bottom'
<1>1. Len(stack) \in Nat /\ Len(stack) >= 1 /\ stack \in Seq(Frames)
  BY TopFacts DEF StackTypes
<1>2. ASSUME Top.at \notin MainPoints PROVE Len(stack) > 1
  BY <1>1, <1>2 DEF Top, Bottom
<1>3. ASSUME NEW p \in Points, NEW n \in Points0, Len(stack) > 1 \/ p \in MainPoints, stack' = Goto(p, n)
      PROVE  StackTypes' /\ Bottom'
  <2>1. /\ StackTypes' /\ stack'[Len(stack)] = Frame(p, n)
        /\ \A i \in 1 .. Len(stack) - 1 : stack'[i] = stack[i]
    BY <1>3, GotoFacts DEF StackTypes
  <2>2. Frame(p, n).at = p
    BY DEF Frame
  <2>3. Bottom'
    BY <1>1, <1>3, <2>1, <2>2 DEF Bottom
  <2> QED
    BY <2>1, <2>3
<1>4. ASSUME NEW p \in Points, stack' = Append(stack, Frame(p, 0)) PROVE StackTypes' /\ Bottom'
  <2>1. StackTypes' /\ \A i \in 1 .. Len(stack) : stack'[i] = stack[i]
    BY <1>1, <1>4, PushFacts DEF StackTypes
  <2> QED
    BY <1>1, <2>1 DEF Bottom
<1>5. ASSUME NEW p \in Points, NEW q \in Points, Len(stack) > 1 \/ p \in MainPoints, stack' = Call(p, q)
      PROVE  StackTypes' /\ Bottom'
  <2>1. /\ StackTypes' /\ stack'[Len(stack)] = Frame(p, 0)
        /\ \A i \in 1 .. Len(stack) - 1 : stack'[i] = stack[i]
    BY <1>5, CallFacts DEF StackTypes
  <2>2. Frame(p, 0).at = p
    BY DEF Frame
  <2>3. Bottom'
    BY <1>1, <1>5, <2>1, <2>2 DEF Bottom
  <2> QED
    BY <2>1, <2>3
<1>6. ASSUME Len(stack) > 1, stack' = Return PROVE StackTypes' /\ Bottom'
  <2>1. StackTypes' /\ \A i \in 1 .. Len(stack) - 1 : stack'[i] = stack[i]
    BY <1>6, ReturnFacts DEF StackTypes
  <2> QED
    BY <1>1, <1>6, <2>1 DEF Bottom
<1> QED
  BY <1>2, <1>3, <1>4, <1>5, <1>6

(* The stack is well-typed and never empty, nested handlers or not.        *)
LEMMA NextStack == StackTypes /\ Bottom /\ Types /\ [Next]_vars => StackTypes' /\ Bottom'
<1> SUFFICES ASSUME StackTypes, Bottom, Types, [Next]_vars PROVE StackTypes' /\ Bottom'
  OBVIOUS
<1> USE DEF At
<1>u. ASSUME UNCHANGED stack PROVE StackTypes' /\ Bottom'
  BY <1>u DEF StackTypes, Bottom
<1>t. Top.r \in Points0 /\ 0 \in Points0 /\ 1 \in Points0
  BY TopFacts, Numbers DEF Points0
<1>p. /\ MainPoints \subseteq Points /\ HandlerPoints \subseteq Points /\ StartPoints \subseteq Points
      /\ StopPoints \subseteq Points /\ "terminated" \in Points /\ "killed" \in Points
  BY DEF Points
<1>g. \A p \in Points, n \in Points0 :
        (Len(stack) > 1 \/ p \in MainPoints) /\ stack' = Goto(p, n) => StackTypes' /\ Bottom'
  BY StackSteps
<1>c. \A p, q \in Points :
        (Len(stack) > 1 \/ p \in MainPoints) /\ stack' = Call(p, q) => StackTypes' /\ Bottom'
  BY StackSteps
<1>r. Len(stack) > 1 /\ stack' = Return => StackTypes' /\ Bottom'
  BY StackSteps
<1>x. stack' = Terminate => StackTypes' /\ Bottom'
  BY <1>p, StackSteps DEF Terminate
<1>1. CASE Main
  <2>1. \/ \E p \in {"start", "stop", "delete", "deleteJoin", "end"} : stack' = Goto(p, 0)
        \/ stack' = Call("poll", "setup") \/ stack' = Call("cleanup", "test")
    BY <1>1 DEF Main, MainNew, MainStart, MainPoll, MainStop, MainCleanup, MainDelete, MainDeleteJoin
  <2>2. /\ {"start", "stop", "delete", "deleteJoin", "end", "poll", "cleanup"} \subseteq MainPoints
        /\ "setup" \in Points /\ "test" \in Points
    BY <1>p DEF MainPoints, StartPoints, StopPoints
  <2> QED
    BY <1>p, <1>t, <1>g, <1>c, <2>1, <2>2
<1>2. CASE Handler
  <2>1. Len(stack) > 1
    BY <1>2, StackSteps DEF Handler, HandlerTermStop, HandlerTermDefault, HandlerHupStop, HandlerHupStart,
       HandlerHupReturn, MainPoints
  <2>2. \/ stack' = Goto("termDefault", 0) \/ stack' = Return
        \/ stack' = Call("termDefault", "test") \/ stack' = Call("hupStart", "test")
        \/ stack' = Call("hupReturn", "setup")
    BY <1>2 DEF Handler, HandlerTermStop, HandlerTermDefault, HandlerHupStop, HandlerHupStart,
       HandlerHupReturn
  <2>3. {"termDefault", "hupStart", "hupReturn", "test", "setup"} \subseteq Points
    BY <1>p DEF HandlerPoints, StartPoints, StopPoints
  <2> QED
    BY <1>t, <1>g, <1>c, <1>r, <2>1, <2>2, <2>3
<1>3. CASE Starting
  <2>1. Len(stack) > 1
    BY <1>3, StackSteps DEF Starting, StartSetup, StartConnectDevice, StartModel, SetupAborted,
       StartEndpoint, StartRelayers, StartApply, StartInjector, StartConnectHost, StartReaderThread,
       StartWriterThread, StartCheck, StartRelaying, MainPoints
  <2>2. CASE StartInjector
    <3>1. \/ stack' = Goto("connectHost", 0)
          \/ Top.r <= injectorCount /\ stack' = Goto("injectors", Top.r + 1)
      <4>1. Top.r \in Nat /\ injectorCount \in Nat
        BY <1>t, Numbers DEF Points0, Types
      <4> QED
        BY <2>2, <4>1 DEF StartInjector
    <3>2. Top.r <= injectorCount => Top.r + 1 \in Points0
      BY <1>t, Numbers DEF Points0, Types
    <3>3. "connectHost" \in Points /\ "injectors" \in Points
      BY <1>p DEF StartPoints
    <3> QED
      BY <1>t, <1>g, <2>1, <3>1, <3>2, <3>3
  <2>3. CASE ~StartInjector
    <3>1. \/ \E p \in StartPoints \cup StopPoints, n \in {0, 1} : stack' = Goto(p, n)
          \/ stack' = Return \/ stack' = Terminate
      BY <1>3, <2>3 DEF Starting, StartSetup, StartConnectDevice, StartModel, SetupAborted,
         StartEndpoint, StartRelayers, StartApply, StartConnectHost, StartReaderThread,
         StartWriterThread, StartCheck, StartRelaying, AssignThread, StartPoints, StopPoints
    <3> QED
      BY <1>p, <1>t, <1>g, <1>r, <1>x, <2>1, <3>1
  <2> QED
    BY <2>2, <2>3
<1>4. CASE Stopping
  <2>1. Len(stack) > 1
    BY <1>4, StackSteps DEF Stopping, StopTest, StopStopping, StopSignalInjectors, StopSignal,
       StopJoinInjectors, StopJoin, StopDisconnect, StopIdle, MainPoints
  <2>2. Top.r < NumRelayers => Top.r + 1 \in Points0
    BY <1>t, Numbers DEF Points0
  <2>3. \/ \E p \in StopPoints, n \in {0, 1} : stack' = Goto(p, n)
        \/ \E p \in StopPoints : Top.r < NumRelayers /\ stack' = Goto(p, Top.r + 1)
        \/ stack' = Return \/ stack' = Terminate
    BY <1>4 DEF Stopping, StopTest, StopStopping, StopSignalInjectors, StopSignal,
       StopJoinInjectors, StopJoin, AfterJoin, StopDisconnect, StopIdle, StopPoints
  <2> QED
    BY <1>p, <1>t, <1>g, <1>r, <1>x, <2>1, <2>2, <2>3
<1>5. CASE DeliverTerm \/ KilledByTerm \/ DeliverHup
  <2>1. \E p \in {"termStop", "killed", "hupStop"} : stack' = Append(stack, Frame(p, 0))
    BY <1>5 DEF DeliverTerm, KilledByTerm, DeliverHup
  <2>2. {"termStop", "killed", "hupStop"} \subseteq Points
    BY <1>p DEF HandlerPoints
  <2> QED
    BY <2>1, <2>2, StackSteps
<1>6. CASE WriterTake \/ SetConfig
  <2>1. UNCHANGED stack \/ stack' = Terminate
    BY <1>6 DEF WriterTake, SetConfig, WriterSetConfig, WriterStartThread, AssignThread
  <2> QED
    BY <1>u, <1>x, <2>1
<1>7. CASE \E r \in Relayers : RelayerExit(r)
  BY <1>7, <1>u DEF RelayerExit
<1>8. CASE \E i \in Injectors : InjectorExit(i)
  BY <1>8, <1>u DEF InjectorExit
<1>9. CASE UNCHANGED vars
  BY <1>9, <1>u DEF vars
<1> QED
  BY <1>1, <1>2, <1>3, <1>4, <1>5, <1>6, <1>7, <1>8, <1>9 DEF Next

(* Nothing has been started.                                               *)
LEMMA InitInv == Init => Inv /\ Bottom /\ InjectorFlags /\ Flags
<1> SUFFICES ASSUME Init PROVE Inv /\ Bottom /\ InjectorFlags /\ Flags
  OBVIOUS
<1>1. Types
  BY Numbers DEF Init, Types, Statuses, Threads
<1>2. RelayerFlags /\ InjectorFlags
  BY DEF Init, RelayerFlags, InjectorFlags
<1>3. Flags
  BY DEF Init, Flags
<1>4. Clean /\ status = "IDLE" /\ wcfg = 0 /\ proxies = "none"
  BY DEF Init, Clean, NoThreads, NoObjects, NoInjectors
<1>5. Reliance
  BY <1>4, Numbers DEF Reliance, Clean, NoThreads, NoInjectors
<1>6. StartedOnce
  BY <1>4 DEF StartedOnce, Clean, NoThreads
<1>7. stack = <<Frame("new", 0)>> /\ Frame("new", 0) \in Frames
  BY Numbers DEF Init, Frame, Frames, Points, MainPoints, Points0
<1>8. StackTypes /\ Len(stack) = 1 /\ stack[1] = Frame("new", 0)
  BY <1>7 DEF StackTypes
<1>9. stack[1].at = "new" /\ stack[1].r = 0
  BY <1>8 DEF Frame
<1>10. Base(1)
  BY <1>4, <1>9 DEF Base, Plugins, MainPoints
<1>11. Holds("new", 0)
  BY <1>4 DEF Holds, IdlePoints, RestPoints, StartPoints, LateStop, StopPoints
<1>12. NoHandler(1)
  BY <1>8, <1>9, <1>11 DEF NoHandler, BaseHolds, Aborted, StartPoints
<1> QED
  BY <1>1, <1>2, <1>3, <1>5, <1>6, <1>8, <1>9, <1>10, <1>12 DEF Inv, Good, Shaped, Bottom, MainPoints

(* Every step of every thread that does not nest handlers keeps the        *)
(* invariant.                                                              *)
LEMMA NextInv == HupWhilePolling /\ Inv /\ [Next]_vars /\ ~nested' => Inv'
<1> SUFFICES ASSUME HupWhilePolling, Inv, [Next]_vars, ~nested' PROVE Inv'
  OBVIOUS
<1>1. Types' /\ RelayerFlags'
  BY NextTypes, NextRelayerFlags DEF Inv
<1> SUFFICES Good'
  BY <1>1 DEF Inv
<1>2. CASE Main
  BY <1>2, MainKeeps
<1>3. CASE Handler
  BY <1>3, TermHandlerKeeps, HupHandlerKeeps DEF Handler
<1>4. CASE Starting
  BY <1>4, StartDeviceKeeps, StartCheckKeeps, StartRelayersKeeps, StartThreadKeeps,
     StartRelayingKeeps DEF Starting
<1>5. CASE Stopping
  BY <1>5, StopTestKeeps, StopTellKeeps, StopJoinKeeps, StopEndKeeps DEF Stopping
<1>6. CASE DeliverTerm \/ KilledByTerm \/ DeliverHup
  BY <1>6, DeliverTermKeeps, KilledKeeps, DeliverHupKeeps
<1>7. CASE WriterTake \/ SetConfig
  BY <1>7, WriterTakeKeeps, WriterSetConfigKeeps, WriterStartThreadKeeps DEF SetConfig
<1>8. CASE \E r \in Relayers : RelayerExit(r)
  BY <1>8, RelayerExitKeeps
<1>9. CASE \E i \in Injectors : InjectorExit(i)
  BY <1>9, InjectorExitKeeps
<1>10. CASE UNCHANGED vars
  <2>1. UNCHANGED <<stack, status, proxies, injectorCount, dflt>> /\ UNCHANGED ncfg
    BY <1>10 DEF vars, linkVars, pluginVars, signalVars, relayerVars
  <2>2. UNCHANGED sessionVars
    BY <1>10 DEF vars, linkVars, relayerVars, injectorVars, sessionVars
  <2>3. Reliance' /\ StartedOnce'
    BY <2>1, <2>2, SameSession DEF Inv, Good
  <2>4. \A p, n : Holds(p, n) => Holds(p, n)'
    BY <2>2, SameHolds
  <2> QED
    BY <2>1, <2>3, <2>4, SameStack DEF Inv
<1> QED
  BY <1>2, <1>3, <1>4, <1>5, <1>6, <1>7, <1>8, <1>9, <1>10 DEF Next

(* The main thread is at the top of a proper stack, and when neither start *)
(* nor stop is under way the frame below a handler says what holds.        *)
LEMMA QuietHolds ==
    ASSUME Inv, Quiet
    PROVE  (status = "IDLE" => Clean) /\ (status = "RELAYING" => Up)
<1>0. StackTypes /\ Shaped
  BY DEF Inv, Good
<1>1. Len(stack) \in Nat /\ Len(stack) >= 1 /\ DOMAIN stack = 1 .. Len(stack)
  BY <1>0, TopFacts DEF StackTypes
<1>2. \A i \in 1 .. Len(stack) : stack[i].at \notin StartPoints \cup StopPoints \cup {"terminated", "killed"}
  BY <1>1 DEF Quiet, OnStack
<1>3. Top.at \notin StopPoints \cup {"terminated", "killed"}
  BY <1>1, <1>2 DEF Top
<1>4. PICK k \in 1 .. 3 :
        Base(k) /\ (NoHandler(k) \/ Entered(k) \/ Leaving(k) \/ Testing(k) \/ Inside(k))
  BY <1>0, <1>3 DEF Shaped, OverNow
<1>5. BaseHolds(k) /\ k <= Len(stack)
  BY <1>3, <1>4 DEF NoHandler, Entered, Leaving, Testing, Inside, At, StopPoints
<1>6. stack[k].at \notin StartPoints \cup StopPoints
  BY <1>1, <1>2, <1>5
<1>7. stack[k].at \in IdlePoints \cup RestPoints
  <2>1. CASE k = 1
    BY <1>4, <1>6, <2>1 DEF Base, MainPoints, IdlePoints, RestPoints
  <2>2. CASE k = 2
    BY <1>4, <1>6, <2>2 DEF Base, IdlePoints, RestPoints
  <2>3. CASE k = 3
    BY <1>4, <1>6, <2>3 DEF Base
  <2> QED
    BY <2>1, <2>2, <2>3
<1> QED
  BY <1>5, <1>7 DEF BaseHolds, Holds

(* Until handlers nest the invariant holds.                                *)
LEMMA UntilNested == HupWhilePolling /\ (nested \/ Inv) /\ [Next]_vars => (nested \/ Inv)'
BY NextInv, NextNested

(* TypeOK, for the stack of the main thread and everything it handles,     *)
(* wherever the three signals come.                                        *)
THEOREM TypeCorrect == Spec => []TypeOK
<1> DEFINE I == StackTypes /\ Bottom /\ Types /\ RelayerFlags /\ InjectorFlags /\ Flags
<1>1. Init => I
  BY InitInv DEF Inv, Good
<1>2. I /\ [Next]_vars => I'
  BY NextStack, NextTypes, NextRelayerFlags, NextInjectorFlags, NextFlags
<1>3. I => TypeOK
  BY DEF StackTypes, Frames, Points0, Types, RelayerFlags, InjectorFlags, Flags, TypeOK
<1> QED
  BY <1>1, <1>2, <1>3, PTL DEF Spec

(* When the status is USBM_IDLE, and neither start nor stop is under way,  *)
(* nothing of a session is left, whatever was interrupted by a SIGTERM or  *)
(* SIGINT, as long as neither has come inside the other's handler.         *)
THEOREM NothingLeft == HupWhilePolling => (Spec => []IdleMeansStopped)
<1> SUFFICES ASSUME HupWhilePolling PROVE Spec => []IdleMeansStopped
  OBVIOUS
<1>1. nested \/ Inv => IdleMeansStopped
  BY QuietHolds DEF IdleMeansStopped, NothingLeftWhenIdle, Clean, NoThreads, NoObjects, NoInjectors
<1>2. Init => nested \/ Inv
  BY InitInv
<1>3. (nested \/ Inv) /\ [Next]_vars => (nested \/ Inv)'
  BY UntilNested
<1> QED
  BY <1>1, <1>2, <1>3, PTL DEF Spec

(* When it is USBM_RELAYING the EP0 relayers run between two connected     *)
(* proxies, until handlers nest.                                           *)
THEOREM ReallyRelaying == HupWhilePolling => (Spec => []RelayingMeansRelaying)
<1> SUFFICES ASSUME HupWhilePolling PROVE Spec => []RelayingMeansRelaying
  OBVIOUS
<1>1. nested \/ Inv => RelayingMeansRelaying
  <2> SUFFICES ASSUME Inv, status = "RELAYING", Quiet, ~nested
               PROVE  /\ \A r \in {EP0Reader, EP0Writer} : obj[r] /\ Running(r) /\ ~flag[r]
                      /\ device /\ devConnected /\ hostConnected
    BY DEF RelayingMeansRelaying
  <2>1. Up
    BY QuietHolds
  <2>2. thr[EP0Reader] # "none" /\ Reliance
    BY <2>1 DEF Up, Running, Inv, Good
  <2>3. device /\ devConnected /\ hostConnected
    BY <2>2, Numbers DEF Reliance
  <2> QED
    BY <2>1, <2>3 DEF Up, EP0Made
<1>2. Init => nested \/ Inv
  BY InitInv
<1>3. (nested \/ Inv) /\ [Next]_vars => (nested \/ Inv)'
  BY UntilNested
<1> QED
  BY <1>1, <1>2, <1>3, PTL DEF Spec

(* No thread runs on without what it uses, until handlers nest.            *)
THEOREM ThreadsSupported == HupWhilePolling => (Spec => []ThreadsOutlivedByProxies)
<1> SUFFICES ASSUME HupWhilePolling PROVE Spec => []ThreadsOutlivedByProxies
  OBVIOUS
<1>1. nested \/ Inv => ThreadsOutlivedByProxies
  BY DEF Inv, Good, Reliance, ThreadsOutlivedByProxies, Running
<1>2. Init => nested \/ Inv
  BY InitInv
<1>3. (nested \/ Inv) /\ [Next]_vars => (nested \/ Inv)'
  BY UntilNested
<1> QED
  BY <1>1, <1>2, <1>3, PTL DEF Spec

(* Every relayer that is joined has been told, unless a setConfig() was    *)
(* under way or handlers have nested.                                      *)
THEOREM ToldFirst == HupWhilePolling => (Spec => []ToldBeforeJoin)
<1> SUFFICES ASSUME HupWhilePolling PROVE Spec => []ToldBeforeJoin
  OBVIOUS
<1>1. nested \/ Inv => ToldBeforeJoin
  <2> SUFFICES ASSUME Inv, At("join"), ~raced, ~nested, NEW r \in Relayers, Running(r) PROVE flag[r]
    BY DEF ToldBeforeJoin
  <2>1. TopHolds
    <3>1. StackTypes /\ Shaped /\ Top.at \in StopPoints \ {"test"}
      BY DEF Inv, Good, At, StopPoints
    <3> QED
      BY <3>1, StopState
  <2>2. Told(NumRelayers + 1)
    BY <2>1 DEF TopHolds, Holds, At
  <2>3. r < NumRelayers + 1
    BY Numbers
  <2> QED
    BY <2>2, <2>3 DEF Told
<1>2. Init => nested \/ Inv
  BY InitInv
<1>3. (nested \/ Inv) /\ [Next]_vars => (nested \/ Inv)'
  BY UntilNested
<1> QED
  BY <1>1, <1>2, <1>3, PTL DEF Spec

(* With at most one SET_CONFIGURATION in a session no joinable thread is   *)
(* assigned, no deleted or disconnected proxy called and no missing device *)
(* model used, until handlers nest.                                        *)
THEOREM NotTerminated ==
    HupWhilePolling /\ MaxSetConfig <= 1 => (Spec => []NeverTerminated)
<1> SUFFICES ASSUME HupWhilePolling, MaxSetConfig <= 1 PROVE Spec => []NeverTerminated
  OBVIOUS
<1>1. nested \/ Inv => NeverTerminated
  <2> SUFFICES ASSUME Inv, At("terminated"), ~nested PROVE FALSE
    BY DEF NeverTerminated
  <2>0. Shaped /\ StackTypes
    BY DEF Inv, Good
  <2>1. ~OverNow
    BY ManagerAssumption DEF OverNow
  <2>2. PICK k \in 1 .. 3 :
          Base(k) /\ (NoHandler(k) \/ Entered(k) \/ Leaving(k) \/ Testing(k) \/ Inside(k))
    BY <2>0, <2>1 DEF Shaped
  <2>3. NoHandler(k)
    BY <2>2 DEF Entered, Leaving, Testing, Inside, At, StopPoints
  <2>4. stack[k].at = "terminated"
    BY <2>3 DEF NoHandler, At, Top
  <2> QED
    BY <2>2, <2>4 DEF Base, MainPoints, StartPoints, StopPoints
<1>2. Init => nested \/ Inv
  BY InitInv
<1>3. (nested \/ Inv) /\ [Next]_vars => (nested \/ Inv)'
  BY UntilNested
<1> QED
  BY <1>1, <1>2, <1>3, PTL DEF Spec
================================================================================
